SPECIFICATION Spec
CONSTANTS
  Handler = {h1, h2, h3}
  Budget = 3
  MaxMsg = 4
  Mutator = {m1, m2}
  Decider = {d1}
  MaxOps = 2
  MayFail = TRUE
  Key = {ku, ks, ke}
  PlainKey = ku
  SlashKey = ks
  friendly_to_overlay <- Directories
  Name = {n1, n2}
  Caller = {g1, g2}
  NoKey = NoKey
  NoName = NoName
  NoCaller = NoCaller
  Raw = {"dword"}
  Persistence = {ke}
  Environment = {ke}
  EnvNames = {n1}
  MaxCalls = 2
  Pid = {p1, p2}
  Conn = {c1, c2}
  NoPid = NoPid
  Image = {i1, i2}
  NoImage = NoImage
  MaxProcesses = 2
  MaxHandlers = 2
  MaxDepth = 1
  WalkMax = 2
  ProbeFails = {"hello"}
  Entries = 2
  MaxLaunches = 3
  None = None
  C = c
  Drive = {c, d, e}
  Pages <- PageCalls
  Writer = {h1, h2}
  NoWriter = NoWriter
  MaxLines = 3
  Char <- Characters
  Globs <- ScanCalls
  PathQuestions <- Asked
  NetQuestions <- Connections
  WhyQuestions <- Explained
  AliasQuestions <- AliasCalls
  canonical_dos_lower <- Resolved
CHECK_DEADLOCK FALSE
INVARIANTS TypeOK ParkedDoesNotFit QuietIsCurrent NetTagIsExact AnsweredIsDurable
  ContextIsOwn DepthZeroIsRoot MigrationKeepsView RefusedForAReason ImmediateIsWritten
  RulesMeanWhatTheySay InRootStaysInside ChainShowsVisible
PROPERTY HostGuarded
