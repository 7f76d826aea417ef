SPECIFICATION Spec
CONSTANTS
  ProcId = {1, 2}
  SystemPid = {}
  Worker = {w1, w2}
  MaxCreated = 2
  MaxHeld = 1
  SourceFails = TRUE
  Region = {r1}
  Chunks = 2
  MemThread = {t1}
  MaxStores = 1
  HookThread = {a1}
  DisableChoices = {{}, {"memory"}}
  MissingChoices = {{}, {"FindWindowW"}, {"RoActivateInstance"}, {"NtQueueApcThreadEx"}}
  MaxFrames = 2
  Names = {0, 1, 2, 3}
  Dot = 0
  Long = {3}
  Dir = {1, 2}
  NoDir = NoDir
  HandleValue = {hv}
  OtherHandle = otherHandle
  ENUM_STATES_CAP = 1
  NoMask = NoMask
  Query <- Queries
  ReopenSame = FALSE
  MaxChanges = 1
  MaxFaults = 1
  MaxQueries = 3
  Thread = {q1, q2}
  Server = {s1, s2}
  Stranger = stranger
  NoThread = NoThread
  IPC_FAIL_THRESHOLD = 2
  MaxRequests = 2
  MinLive = 1
  MaxLapses = 1
SYMMETRY GuestSymmetry
CONSTRAINT Bounded
CHECK_DEADLOCK FALSE
INVARIANTS TypeOK ForeignUntouched  GuestCallsAreDecided OwnNeverKilled AckTellsTheHooks
  ListingIsExact AnswerIsMine ServerIsTrusted
