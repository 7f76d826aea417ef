---------------------------- MODULE LaunchProofs ----------------------------
(***************************************************************************)
(* A session is contained for any number of processes and any executables: *)
(* what runs is in both jobs, nothing runs on without the launcher, only   *)
(* hooked children are reported, and an image that was not scanned runs    *)
(* only in a child that its creator lost or that was resumed early.        *)
(***************************************************************************)
EXTENDS Launch, TLAPS

Both == {"folder", "session"}

(* How far the target is while the launcher prepares it. *)
Preparing == {"check", "scan", "inject", "folder", "session", "wfp", "resume"}

Progress ==
    /\ lpc = "start" => life[Root] = "absent"
    /\ lpc \in Preparing => life[Root] = "suspended"
    /\ lpc = "session" => "folder" \in jobs[Root]
    /\ lpc \in {"wfp", "resume", "wait", "kill", "poll", "target", "drain"} => jobs[Root] = Both

(* A child is in both jobs from the start, since its creator is running. *)
Members ==
    /\ \A g \in Guest : life[g] # "absent" => jobs[g] = Both
    /\ life[Root] \in Running => jobs[Root] = Both

Creators ==
    /\ spawner[Root] = None
    /\ \A g \in Guest : life[g] = "absent" => spawner[g] = None
    /\ \A g \in held : spawner[g] \in Process
    /\ \A g \in Guest : spawner[g] # None => life[spawner[g]] \in {"hooked", "dead"}

(* A call in progress: its child is its own, and is reported only when      *)
(* hooked.                                                                  *)
Calls == \A p \in Process : sp[p].pc # "idle" =>
    /\ life[p] = "hooked"
    /\ sp[p].child \in Guest
    /\ spawner[sp[p].child] = p
    /\ sp[p].pc \in {"register", "spawned", "record"} =>
           sp[p].child \in held \/ life[sp[p].child] \in {"hooked", "dead"}

Acks == \A g \in acked : life[g] \in {"hooked", "dead"}

(* What becomes of a child: the scan has passed it or is still going on, or *)
(* the hook has lost it, or it is dead.                                     *)
Passed(g) == image[g] \in Clean \/ g \in loose \cup Unscanned(Process) \/ life[g] = "dead"

Scans ==
    /\ cache \subseteq Clean
    /\ ScanRoot /\ (life[Root] \in Running \/ lpc \in Preparing \ {"check", "scan"})
           => image[Root] \in Clean
    /\ ScanChildren => \A g \in Guest : spawner[g] # None => Passed(g)

(* What a call will record as clean is clean. *)
Keys == \A p \in Process :
    sp[p].pc # "idle" /\ sp[p].key => image[sp[p].child] \in Clean

Drains ==
    /\ calm => lpc \in {"exit", "gone"}
    /\ opt.role = "client" => waited = {}

IInv ==
    /\ TypeOK /\ Progress /\ Members /\ Creators /\ Calls /\ Acks /\ Scans /\ Keys
    /\ Drains /\ ReportedIsHooked /\ NothingRunsOn /\ DrainedIsOver

USE DEF Running, Loading, Call

-----------------------------------------------------------------------------
(* In the initial states nothing has been created. *)
LEMMA InitInv == Init => IInv
  <1> SUFFICES ASSUME Init PROVE IInv OBVIOUS
  <1>1. TypeOK
    <2>1. image \in [Process -> Image \cup {None}]
      BY DEF Init
    <2>2. queue \in Seq(Guest) /\ Len(queue) <= QueueCap
      BY ConstantsAssumption DEF Init
    <2>3. sp \in [Process -> Call]
      BY DEF Init, Idle
    <2> QED BY <2>1, <2>2, <2>3, ConstantsAssumption DEF Init, TypeOK, Life
  <1>2. Progress /\ Members /\ Creators /\ Calls /\ Acks /\ Drains
    BY ConstantsAssumption
    DEF Init, Progress, Members, Creators, Calls, Acks, Drains, Process, Idle, Preparing
  <1>3. Scans /\ Keys
    BY ConstantsAssumption DEF Init, Scans, Keys, Idle, Process, Preparing
  <1>4. ReportedIsHooked /\ NothingRunsOn /\ DrainedIsOver
    BY DEF Init, ReportedIsHooked, NothingRunsOn, DrainedIsOver
  <1> QED BY <1>1, <1>2, <1>3, <1>4 DEF IInv

-----------------------------------------------------------------------------
(* Processes end.  Whoever ends drops its call, and loses the child it was  *)
(* scanning.                                                                *)
LEMMA Deaths ==
    ASSUME IInv, NEW S \in SUBSET Process, life' = Ended(S),
           TypeOK', Progress', NothingRunsOn', Drains',
           \A p \in Process :
               \/ sp'[p] = Idle /\ (p \in S \/ sp[p].child \in S)
               \/ sp'[p] = sp[p] /\ p \notin S,
           loose' = loose \cup Unscanned(S),
           lpc' \in {lpc, "exit", "gone"},
           UNCHANGED <<opt, waited, calm, jobs, image, spawner, held, acked, cache, queue>>
    PROVE  IInv'
  <1>1. /\ \A p \in Process : life'[p] = (IF p \in S /\ life[p] # "absent" THEN "dead" ELSE life[p])
        /\ Root \in Process /\ Guest \subseteq Process
    BY DEF Ended, Process
  <1>2. Members'
    BY <1>1 DEF IInv, Members
  <1>3. Creators'
    BY <1>1 DEF IInv, Creators, TypeOK, Process
  <1>4. Calls'
    <2> SUFFICES ASSUME NEW p \in Process, sp'[p].pc # "idle", sp'[p] = sp[p], p \notin S
                 PROVE  /\ life'[p] = "hooked"
                        /\ sp[p].child \in Guest
                        /\ spawner[sp[p].child] = p
                        /\ sp[p].pc \in {"register", "spawned", "record"} =>
                               sp[p].child \in held \/ life'[sp[p].child] \in {"hooked", "dead"}
      BY DEF Calls, Idle
    <2> QED BY <1>1 DEF IInv, Calls
  <1>5. Acks'
    BY <1>1 DEF IInv, Acks, TypeOK
  <1>6. Scans'
    <2>1. ScanRoot' = ScanRoot /\ ScanChildren' = ScanChildren
      BY DEF ScanRoot, ScanChildren
    <2>2. ASSUME NEW g \in Guest, spawner[g] # None, Passed(g)
          PROVE  Passed(g)'
      <3>1. g \in Process /\ life[g] # "absent"
        BY <1>1, <2>2 DEF IInv, Creators
      <3>2. CASE image[g] \in Clean \/ g \in loose \/ life[g] = "dead"
        BY <1>1, <3>1, <3>2 DEF Passed
      <3>3. CASE g \in Unscanned(Process)
        <4>1. PICK q \in Process : sp[q].pc = "scan" /\ sp[q].child = g
          BY <3>3 DEF Unscanned
        <4>2. CASE q \in S
          <5>1. g \in Unscanned(S)
            BY <4>1, <4>2 DEF Unscanned
          <5> QED BY <5>1 DEF Passed
        <4>3. CASE g \in S
          BY <1>1, <3>1, <4>3 DEF Passed
        <4>4. CASE sp'[q] = sp[q]
          <5>1. g \in Unscanned(Process)'
            BY <4>1, <4>4 DEF Unscanned
          <5> QED BY <5>1 DEF Passed
        <4> QED BY <4>1, <4>2, <4>3, <4>4
      <3> QED BY <2>2, <3>2, <3>3 DEF Passed
    <2> QED BY <1>1, <2>1, <2>2 DEF IInv, Scans, Preparing
  <1>7. ReportedIsHooked'
    BY <1>1 DEF IInv, ReportedIsHooked, TypeOK
  <1>8. DrainedIsOver'
    BY <1>1 DEF IInv, DrainedIsOver, TypeOK
  <1>9. Keys'
    BY DEF IInv, Keys, Idle
  <1> QED BY <1>2, <1>3, <1>4, <1>5, <1>6, <1>7, <1>8, <1>9 DEF IInv

(* Types after Ended and Dropped. *)
LEMMA EndedType ==
    ASSUME TypeOK, NEW S
    PROVE  Ended(S) \in [Process -> Life]
  BY DEF TypeOK, Ended, Life

(* The children that are being scanned are guests. *)
LEMMA UnscannedType ==
    ASSUME IInv, NEW S \in SUBSET Process
    PROVE  Unscanned(S) \subseteq Guest
  BY DEF IInv, Calls, Unscanned

(* The same for the calls. *)
LEMMA DroppedType ==
    ASSUME TypeOK, NEW S
    PROVE  /\ Dropped(S) \in [Process -> Call]
           /\ \A p \in Process : Dropped(S)[p] = IF p \in S THEN Idle ELSE sp[p]
  BY DEF TypeOK, Dropped, Idle

(* The target is terminated and the launcher is about to exit. *)
LEMMA RefuseInv ==
    ASSUME IInv, NEW from \in {"check", "scan", "inject", "wfp", "kill"}, Refuse(from)
    PROVE  IInv'
  <1>1. /\ life' = Ended({Root}) /\ sp' = Dropped({Root}) /\ lpc' = "exit" /\ lpc = from
        /\ loose' = loose \cup Unscanned({Root})
        /\ Root \in Process
    BY DEF Refuse, End, At, Process
  <1>2. TypeOK'
    BY <1>1, EndedType, DroppedType, UnscannedType DEF IInv, TypeOK, Refuse, events
  <1>3. Progress' /\ NothingRunsOn' /\ Drains'
    BY <1>1 DEF IInv, Progress, NothingRunsOn, Drains, Preparing, Refuse
  <1>4. \A p \in Process :
            \/ sp'[p] = Idle /\ (p \in {Root} \/ sp[p].child \in {Root})
            \/ sp'[p] = sp[p] /\ p \notin {Root}
    BY <1>1, DroppedType DEF IInv
  <1> QED BY <1>1, <1>2, <1>3, <1>4, Deaths DEF Refuse, events

(* The launcher goes, and with it the members of the jobs that close. *)
LEMMA GoneInv ==
    ASSUME IInv, NEW others \in BOOLEAN, Gone(others)
    PROVE  IInv'
  <1> DEFINE S == Closing(others)
  <1>1. /\ life' = Ended(S) /\ sp' = Dropped(S) /\ lpc' = "gone"
        /\ loose' = loose \cup Unscanned(S)
        /\ S \subseteq Process
        /\ \A p \in Process : "session" \in jobs[p] => p \in S
    BY DEF Gone, End, Closing
  <1> HIDE DEF S
  <1>2. TypeOK'
    BY <1>1, EndedType, DroppedType, UnscannedType DEF IInv, TypeOK, Gone, events
  <1>3. \A p \in Process : life[p] \in Running \/ (p \in Guest /\ life[p] # "absent") => p \in S
    BY <1>1 DEF IInv, Members, Both, Process
  <1>4. NothingRunsOn'
    <2> SUFFICES ASSUME NEW p \in Process, life'[p] \notin {"absent", "dead"}
                 PROVE  p = Root /\ life'[p] = "suspended" /\ "session" \notin jobs'[p]
      BY DEF NothingRunsOn
    <2>1. life'[p] = life[p] /\ p \notin S
      BY <1>1 DEF Ended
    <2>2. p \notin Guest /\ life[p] \notin Running
      BY <1>3, <2>1
    <2> QED BY <1>1, <2>1, <2>2 DEF IInv, TypeOK, Life, Process, Gone
  <1>5. Progress' /\ Drains'
    BY <1>1 DEF IInv, Progress, Drains, Preparing, Gone
  <1>6. \A p \in Process :
            \/ sp'[p] = Idle /\ (p \in S \/ sp[p].child \in S)
            \/ sp'[p] = sp[p] /\ p \notin S
    BY <1>1, DroppedType DEF IInv
  <1> QED BY <1>1, <1>2, <1>4, <1>5, <1>6, Deaths DEF Gone, events

(* A hook terminates the child it has created. *)
LEMMA KillChildInv ==
    ASSUME IInv, NEW p \in Process, NEW from \in {"scan", "inject", "ack"},
           sp[p].pc = from,
           life' = Ended({sp[p].child}),
           sp' = [Dropped({sp[p].child}) EXCEPT ![p] = Idle],
           loose' = loose \cup Unscanned({sp[p].child}),
           UNCHANGED <<launcher, apc, jobs, image, spawner, held, err, events, cache, queue>>
    PROVE  IInv'
  <1> DEFINE c == sp[p].child
  <1>1. c \in Guest /\ c \in Process /\ life[c] # "absent" /\ lpc' = lpc
    <2>1. sp[p].pc # "idle"
      OBVIOUS
    <2>2. c \in Guest /\ spawner[c] = p
      BY <2>1 DEF IInv, Calls
    <2>3. life[c] # "absent"
      BY <2>2, ConstantsAssumption DEF IInv, Creators, Process
    <2> QED BY <2>2, <2>3 DEF Process, launcher
  <1>2. TypeOK'
    <2>1. TypeOK /\ {c} \in SUBSET Process
      BY <1>1 DEF IInv
    <2>2. Ended({c}) \in [Process -> Life] /\ Dropped({c}) \in [Process -> Call]
      BY <2>1, EndedType, DroppedType
    <2>3. Unscanned({c}) \subseteq Guest
      BY <2>1, UnscannedType
    <2>4. sp' \in [Process -> Call]
      BY <2>2 DEF Idle
    <2> QED BY <2>1, <2>2, <2>3, <2>4 DEF TypeOK, events, launcher
  <1>3. \A q \in Process : life'[q] = life[q] \/ life'[q] = "dead"
    BY DEF Ended
  <1>4. lpc \notin Preparing \cup {"start"} \/ life'[Root] = life[Root]
    BY <1>1, ConstantsAssumption DEF Ended, Process
  <1>5. Progress' /\ Drains'
    BY <1>4 DEF IInv, Progress, Drains, launcher, Preparing
  <1>6. NothingRunsOn'
    BY <1>3 DEF IInv, NothingRunsOn, launcher
  <1>7. \A q \in Process : q # p =>
            \/ sp'[q] = Idle /\ (q \in {c} \/ sp[q].child \in {c})
            \/ sp'[q] = sp[q] /\ q \notin {c}
    BY DroppedType DEF IInv
  <1>8. sp'[p] = Idle /\ sp[p].child \in {c}
    BY DroppedType DEF IInv
  <1>9. \A q \in Process :
            \/ sp'[q] = Idle /\ (q \in {c} \/ sp[q].child \in {c})
            \/ sp'[q] = sp[q] /\ q \notin {c}
    BY <1>7, <1>8
  <1> QED BY <1>1, <1>2, <1>5, <1>6, <1>9, Deaths DEF launcher, events

(* A process ends by itself. *)
LEMMA DieInv ==
    ASSUME IInv, NEW p \in Process, Die(p)
    PROVE  IInv'
  <1>1. /\ life' = Ended({p}) /\ sp' = Dropped({p}) /\ life[p] \in Running /\ lpc' = lpc
        /\ loose' = loose \cup Unscanned({p})
    BY DEF Die, End, launcher
  <1>2. TypeOK'
    BY <1>1, EndedType, DroppedType, UnscannedType DEF IInv, TypeOK, Die, events, launcher
  <1>3. \A q \in Process : life'[q] = life[q] \/ life'[q] = "dead"
    BY <1>1 DEF Ended
  <1>4. Progress' /\ Drains'
    <2>1. lpc \in Preparing \cup {"start"} => life'[Root] = life[Root]
      BY <1>1 DEF IInv, Progress, Ended, Process
    <2> QED BY <2>1 DEF IInv, Progress, Drains, Die, launcher, Preparing
  <1>5. NothingRunsOn'
    BY <1>3 DEF IInv, NothingRunsOn, Die, launcher
  <1>6. \A q \in Process :
            \/ sp'[q] = Idle /\ (q \in {p} \/ sp[q].child \in {p})
            \/ sp'[q] = sp[q] /\ q \notin {p}
    BY <1>1, DroppedType DEF IInv
  <1> QED BY <1>1, <1>2, <1>4, <1>5, <1>6, Deaths DEF Die, launcher, events

-----------------------------------------------------------------------------
(* The launcher goes on; no process changes but the jobs of a target that   *)
(* has not been resumed.                                                    *)
LEMMA LauncherMoves ==
    ASSUME IInv, TypeOK', Progress', Drains', lpc' # "gone",
           cache' \subseteq Clean,
           ScanRoot /\ lpc' \in Preparing \ {"check", "scan"} => image[Root] \in Clean,
           ReportedIsHooked', DrainedIsOver',
           \A g \in Guest : jobs'[g] = jobs[g],
           jobs'[Root] = jobs[Root] \/ life[Root] = "suspended",
           UNCHANGED <<opt, life, image, spawner, held, loose, sp, acked>>
    PROVE  IInv'
  <1>1. Members' /\ Creators' /\ Calls' /\ Acks' /\ Keys'
    BY DEF IInv, Members, Creators, Calls, Acks, Keys
  <1>2. Scans'
    BY DEF IInv, Scans, Passed, Unscanned, ScanRoot, ScanChildren
  <1>3. NothingRunsOn'
    BY DEF NothingRunsOn
  <1> QED BY <1>1, <1>2, <1>3 DEF IInv

(* Steps that change nothing but where the launcher is. *)
LEMMA LauncherWaits ==
    ASSUME IInv, Progress', lpc' \in {"check", "scan", "inject", "folder", "session", "wfp",
               "resume", "wait", "kill", "poll", "target", "drain", "exit"},
           ~calm, calm' = calm,
           ScanRoot /\ lpc' \in Preparing \ {"check", "scan"} => image[Root] \in Clean,
           {init', degr', warned'} \subseteq BOOLEAN,
           UNCHANGED <<opt, waited, processes, acked, sp, cache, queue>>
    PROVE  IInv'
  <1>1. TypeOK' /\ Drains'
    BY DEF IInv, TypeOK, Drains, processes
  <1>2. cache \subseteq Clean /\ ReportedIsHooked' /\ DrainedIsOver'
    BY DEF IInv, Scans, ReportedIsHooked, DrainedIsOver, processes
  <1> QED BY <1>1, <1>2, LauncherMoves DEF processes

(* Before the launcher drains it cannot have drained. *)
LEMMA NotCalm ==
    ASSUME IInv, lpc \notin {"exit", "gone"}
    PROVE  ~calm
  BY DEF IInv, Drains

(* The early failures that leave the target as it is. *)
LEMMA GiveUpInv ==
    ASSUME IInv, NEW from \in {"start", "folder", "session"}, GiveUp(from)
    PROVE  IInv'
  <1>1. lpc = from /\ lpc' = "exit" /\ ~calm
    BY NotCalm DEF GiveUp, At
  <1>2. Progress'
    BY <1>1 DEF Progress, Preparing
  <1> QED BY <1>1, <1>2, LauncherWaits DEF GiveUp, events, IInv, TypeOK, Preparing

(* The target is created, or could not be. *)
LEMMA LaunchSuspendedInv ==
    ASSUME IInv, launch_suspended
    PROVE  IInv'
  <1>1. CASE GiveUp("start")
    BY <1>1, GiveUpInv
  <1>2. CASE /\ At("start", "check")
             /\ life' = [life EXCEPT ![Root] = "suspended"]
             /\ UNCHANGED <<opt, warned, waited, calm, apc, jobs, image, spawner, held, loose, err,
                            events, sp, cache, queue>>
    <2> USE <1>2 DEF At, events
    <2>1. /\ lpc = "start" /\ lpc' = "check" /\ ~calm /\ life[Root] = "absent"
          /\ life'[Root] = "suspended" /\ \A g \in Guest : life'[g] = life[g]
          /\ Root \in Process
      BY NotCalm, ConstantsAssumption DEF IInv, Progress, TypeOK, Process
    <2>2. TypeOK'
      BY <2>1 DEF IInv, TypeOK, Life
    <2>3. Progress' /\ Members' /\ Drains' /\ NothingRunsOn'
      BY <2>1 DEF IInv, Progress, Members, Drains, NothingRunsOn, Preparing
    <2>4. Creators' /\ Acks' /\ ReportedIsHooked' /\ DrainedIsOver'
      BY <2>1 DEF IInv, Creators, Acks, ReportedIsHooked, DrainedIsOver, TypeOK
    <2>5. Calls' /\ Keys'
      BY <2>1 DEF IInv, Calls, Keys, Process
    <2>6. Scans'
      BY <2>1 DEF IInv, Scans, Passed, Unscanned, ScanRoot, ScanChildren, Preparing, TypeOK, Process
    <2> QED BY <2>2, <2>3, <2>4, <2>5, <2>6 DEF IInv
  <1> QED BY <1>1, <1>2 DEF launch_suspended

(* The suspended target is examined. *)
LEMMA CheckRootInv ==
    ASSUME IInv, CheckRoot
    PROVE  IInv'
  <1>1. CASE Refuse("check")
    BY <1>1, RefuseInv
  <1>2. CASE /\ At("check", "scan")
             /\ UNCHANGED <<opt, warned, waited, calm, processes, events, sp, cache, queue>>
    <2>1. lpc = "check" /\ lpc' = "scan" /\ ~calm
      BY <1>2, NotCalm DEF At
    <2>2. Progress'
      BY <1>2, <2>1 DEF IInv, Progress, Preparing, processes
    <2> QED BY <1>2, <2>1, <2>2, LauncherWaits DEF events, IInv, TypeOK, Preparing
  <1> QED BY <1>1, <1>2 DEF CheckRoot

(* Only a clean target passes the scan, so only clean images are recorded. *)
LEMMA PreLaunchScanInv ==
    ASSUME IInv, pre_launch_scan
    PROVE  IInv'
  <1>1. CASE Refuse("scan")
    BY <1>1, RefuseInv
  <1>2. CASE /\ At("scan", "inject")
             /\ ScanRoot => MayPass(image[Root])
             /\ cache' \in {cache} \cup (IF ScanRoot THEN {cache \cup {image[Root]}} ELSE {})
             /\ UNCHANGED <<opt, warned, waited, calm, processes, events, sp, queue>>
    <2>1. lpc = "scan" /\ lpc' = "inject" /\ ~calm
      BY <1>2, NotCalm DEF At
    <2>2. ScanRoot => image[Root] \in Clean
      BY <1>2 DEF MayPass, IInv, Scans
    <2>3. cache' \subseteq Clean
      BY <1>2, <2>2 DEF IInv, Scans
    <2>4. Progress' /\ Drains' /\ TypeOK'
      BY <1>2, <2>1, <2>3, ConstantsAssumption
      DEF IInv, Progress, Preparing, Drains, TypeOK, processes, events
    <2>5. ReportedIsHooked' /\ DrainedIsOver'
      BY <1>2 DEF IInv, ReportedIsHooked, DrainedIsOver, processes
    <2> QED BY <1>2, <2>1, <2>2, <2>3, <2>4, <2>5, LauncherMoves DEF processes, events
  <1> QED BY <1>1, <1>2 DEF pre_launch_scan

(* The APC is queued. *)
LEMMA InjectDllInv ==
    ASSUME IInv, inject_dll
    PROVE  IInv'
  <1>1. CASE Refuse("inject")
    BY <1>1, RefuseInv
  <1>2. CASE /\ At("inject", "folder")
             /\ apc' = apc \cup {Root}
             /\ UNCHANGED <<opt, warned, waited, calm, life, jobs, image, spawner, held, loose, err,
                            events, sp, cache, queue>>
    <2>1. lpc = "inject" /\ lpc' = "folder" /\ ~calm
      BY <1>2, NotCalm DEF At
    <2>2. Progress' /\ Drains' /\ TypeOK'
      BY <1>2, <2>1 DEF IInv, Progress, Preparing, Drains, TypeOK, events, Process
    <2>3. ReportedIsHooked' /\ DrainedIsOver'
      BY <1>2 DEF IInv, ReportedIsHooked, DrainedIsOver
    <2>4. cache \subseteq Clean /\ (ScanRoot => image[Root] \in Clean)
      BY <2>1 DEF IInv, Scans, Preparing
    <2> QED BY <1>2, <2>1, <2>2, <2>3, <2>4, LauncherMoves DEF events
  <1> QED BY <1>1, <1>2 DEF inject_dll

(* The suspended target joins a job. *)
LEMMA JoinInv ==
    ASSUME IInv,
           NEW from, NEW to, NEW job,
           <<from, to, job>> \in {<<"folder", "session", "folder">>,
               <<"session", "wfp", "session">>, <<"session", "exit", "session">>},
           Join(from, to, job)
    PROVE  IInv'
  <1>1. /\ lpc = from /\ lpc' = to /\ ~calm /\ Root \in Process
        /\ lpc \in Preparing \ {"check", "scan"} /\ life[Root] = "suspended"
    BY NotCalm DEF Join, At, Process, IInv, Progress, Preparing
  <1>2. /\ jobs'[Root] = jobs[Root] \cup {job}
        /\ \A g \in Guest : jobs'[g] = jobs[g]
    BY ConstantsAssumption DEF Join, IInv, TypeOK, Process
  <1>3. TypeOK' /\ Drains'
    BY <1>1 DEF Join, IInv, TypeOK, Drains, events
  <1>4. Progress'
    BY <1>1, <1>2 DEF Join, IInv, Progress, Preparing, TypeOK, Both
  <1>5. ReportedIsHooked' /\ DrainedIsOver'
    BY <1>1 DEF Join, IInv, ReportedIsHooked, DrainedIsOver
  <1>6. cache \subseteq Clean /\ (ScanRoot => image[Root] \in Clean)
    BY <1>1 DEF IInv, Scans
  <1> QED BY <1>1, <1>2, <1>3, <1>4, <1>5, <1>6, LauncherMoves DEF Join, events

(* Both assignments, and their failures. *)
LEMMA JobsInv ==
    ASSUME IInv, assign_process_to_raw_job \/ setup_job_object
    PROVE  IInv'
  BY JoinInv, GiveUpInv DEF assign_process_to_raw_job, setup_job_object

(* The network filters are installed, or the target is refused. *)
LEMMA FiltersInv ==
    ASSUME IInv, install_outbound_filters
    PROVE  IInv'
  <1>1. CASE Refuse("wfp")
    BY <1>1, RefuseInv
  <1>2. CASE /\ At("wfp", "resume")
             /\ UNCHANGED <<opt, warned, waited, calm, processes, events, sp, cache, queue>>
    <2>1. /\ lpc = "wfp" /\ lpc' = "resume" /\ ~calm
          /\ ScanRoot => image[Root] \in Clean
      BY <1>2, NotCalm DEF At, IInv, Scans, Preparing
    <2>2. Progress'
      BY <1>2, <2>1 DEF IInv, Progress, Preparing, processes
    <2> QED BY <1>2, <2>1, <2>2, LauncherWaits DEF events, IInv, TypeOK
  <1> QED BY <1>1, <1>2 DEF install_outbound_filters

(* The launcher learns of the hooks; no process changes. *)
LEMMA HandshakeInv ==
    ASSUME IInv, WaitInit \/ PollDegraded
    PROVE  IInv'
  <1>1. /\ lpc \in {"wait", "poll"} /\ lpc' \in {"poll", "kill", "target"} /\ ~calm
        /\ {init', degr', warned'} \subseteq BOOLEAN
        /\ UNCHANGED <<opt, waited, calm, processes, acked, sp, cache, queue>>
    BY NotCalm DEF WaitInit, PollDegraded, At, IInv, TypeOK
  <1>2. Progress'
    BY <1>1 DEF IInv, Progress, Preparing, processes
  <1> QED BY <1>1, <1>2, LauncherWaits DEF Preparing

(* The pids taken off the queue satisfy what those in it satisfied. *)
LEMMA TargetExitedInv ==
    ASSUME IInv, TargetExited
    PROVE  IInv'
  <1> DEFINE Q == {queue[i] : i \in DOMAIN queue}
  <1>1. /\ lpc = "target" /\ lpc' = "drain" /\ ~calm /\ calm' = calm
        /\ UNCHANGED <<opt, warned, calm, processes, events, sp, cache>>
    BY NotCalm DEF TargetExited, At
  <1>2. Q \subseteq Guest
    BY DEF IInv, TypeOK
  <1>3. \/ waited' = Q /\ queue' = << >>
        \/ waited' = waited /\ queue' = queue
    BY DEF TargetExited
  <1>4. TypeOK'
    <2>1. queue' \in Seq(Guest) /\ Len(queue') <= QueueCap /\ waited' \subseteq Guest
      <3>1. CASE queue' = << >>
        <4>1. << >> \in Seq(Guest) /\ Len(<< >>) = 0
          OBVIOUS
        <4> QED BY <1>2, <1>3, <3>1, <4>1, ConstantsAssumption DEF IInv, TypeOK
      <3>2. CASE waited' = waited /\ queue' = queue
        BY <3>2 DEF IInv, TypeOK
      <3> QED BY <1>3, <3>1, <3>2
    <2> QED BY <1>1, <2>1 DEF IInv, TypeOK, processes, events
  <1>5. Progress' /\ Drains' /\ DrainedIsOver'
    BY <1>1 DEF IInv, Progress, Drains, DrainedIsOver, Preparing, processes, TargetExited
  <1>6. ReportedIsHooked'
    <2>1. CASE waited' = Q /\ queue' = << >>
      BY <1>1, <2>1 DEF IInv, ReportedIsHooked, processes
    <2>2. CASE waited' = waited /\ queue' = queue
      BY <1>1, <2>2 DEF IInv, ReportedIsHooked, processes
    <2> QED BY <1>3, <2>1, <2>2
  <1>7. cache \subseteq Clean
    BY DEF IInv, Scans
  <1> QED BY <1>1, <1>4, <1>5, <1>6, <1>7, LauncherMoves DEF Preparing, processes, events

(* The drain ends, calmly only when nothing remains. *)
LEMMA DrainInv ==
    ASSUME IInv, Drain
    PROVE  IInv'
  <1>1. /\ lpc = "drain" /\ lpc' = "exit" /\ calm' \in BOOLEAN
        /\ calm' => Remaining = {}
        /\ UNCHANGED <<opt, warned, waited, processes, events, sp, cache, queue>>
    BY DEF Drain, At
  <1>2. TypeOK' /\ Progress' /\ Drains' /\ ReportedIsHooked'
    BY <1>1
    DEF IInv, TypeOK, Progress, Drains, ReportedIsHooked, Preparing, processes, events
  <1>3. DrainedIsOver'
    <2> SUFFICES ASSUME Remaining = {}
                 PROVE  /\ \A g \in waited : life[g] = "dead"
                        /\ opt.role = "client" => \A p \in Process :
                               "session" \in jobs[p] => life[p] = "dead"
      BY <1>1 DEF DrainedIsOver, processes
    <2>1. CASE opt.role = "broker"
      BY <2>1 DEF Remaining
    <2>2. CASE opt.role # "broker"
      <3>1. \A p \in Process : "session" \in jobs[p] => life[p] = "dead"
        BY <2>2 DEF Remaining
      <3>2. waited = {}
        BY <2>2 DEF IInv, Drains, TypeOK, Options
      <3> QED BY <3>1, <3>2
    <2> QED BY <2>1, <2>2
  <1>4. cache \subseteq Clean
    BY DEF IInv, Scans
  <1> QED BY <1>1, <1>2, <1>3, <1>4, LauncherMoves DEF Preparing, processes, events

-----------------------------------------------------------------------------
(* One process moves on, resumed by whoever may resume it or through        *)
(* DllMain.                                                                 *)
LEMMA Advances ==
    ASSUME IInv, TypeOK', Progress', Drains', NEW p \in Process, NEW to \in Running,
           life' = [life EXCEPT ![p] = to],
           life[p] \in Loading \cup {"suspended", "bare"},
           jobs[p] = Both, lpc # "gone", lpc' # "gone",
           \A q \in Process : \/ sp'[q] = sp[q]
                              \/ sp[q].pc = "resume" /\ sp'[q] = [sp[q] EXCEPT !.pc = "ack"],
           p = Root /\ ScanRoot => image[p] \in Clean,
           lpc' \in Preparing => lpc' = lpc,
           acked' = acked \/ (acked' = acked \cup {p} /\ to = "hooked"),
           UNCHANGED <<opt, waited, calm, jobs, image, spawner, held, loose, cache, queue>>
    PROVE  IInv'
  <1>1. /\ life'[p] = to /\ \A q \in Process : q # p => life'[q] = life[q]
        /\ Root \in Process /\ Guest \subseteq Process
        /\ life[p] \notin {"absent", "hooked", "dead"}
    BY DEF IInv, TypeOK, Process
  <1>2. Members' /\ Creators'
    BY <1>1 DEF IInv, Members, Creators, TypeOK, Process
  <1>3. Calls'
    <2> SUFFICES ASSUME NEW q \in Process, sp'[q].pc # "idle"
                 PROVE  /\ life'[q] = "hooked"
                        /\ sp'[q].child \in Guest
                        /\ spawner[sp'[q].child] = q
                        /\ sp'[q].pc \in {"register", "spawned", "record"} =>
                               \/ sp'[q].child \in held
                               \/ life'[sp'[q].child] \in {"hooked", "dead"}
      BY DEF Calls
    <2>1. sp[q].pc # "idle" /\ sp'[q].child = sp[q].child
      BY DEF IInv, TypeOK
    <2>2. life[q] = "hooked" /\ sp[q].child \in Guest /\ spawner[sp[q].child] = q
      BY <2>1 DEF IInv, Calls
    <2>3. life'[q] = "hooked"
      BY <1>1, <2>2
    <2>4. sp'[q].pc \in {"register", "spawned", "record"} => sp'[q] = sp[q]
      BY DEF IInv, TypeOK
    <2> QED BY <1>1, <2>1, <2>2, <2>3, <2>4 DEF IInv, Calls
  <1>4. Acks'
    BY <1>1 DEF IInv, Acks, TypeOK
  <1>5. Scans'
    <2>1. ScanRoot' = ScanRoot /\ ScanChildren' = ScanChildren
      BY DEF ScanRoot, ScanChildren
    <2>2. ASSUME NEW g \in Guest, Passed(g)
          PROVE  Passed(g)'
      <3>1. CASE image[g] \in Clean \/ g \in loose
        BY <3>1 DEF Passed
      <3>2. CASE life[g] = "dead"
        BY <1>1, <3>2 DEF Passed
      <3>3. CASE g \in Unscanned(Process)
        <4>1. PICK q \in Process : sp[q].pc = "scan" /\ sp[q].child = g
          BY <3>3 DEF Unscanned
        <4>2. g \in Unscanned(Process)'
          BY <4>1 DEF Unscanned
        <4> QED BY <4>2 DEF Passed
      <3> QED BY <2>2, <3>1, <3>2, <3>3 DEF Passed
    <2> QED BY <1>1, <2>1, <2>2, ConstantsAssumption DEF IInv, Scans, Preparing
  <1>6. ReportedIsHooked'
    BY <1>1 DEF IInv, ReportedIsHooked, TypeOK
  <1>7. NothingRunsOn'
    BY DEF NothingRunsOn
  <1>8. DrainedIsOver'
    BY <1>1 DEF IInv, DrainedIsOver, TypeOK, Both
  <1>9. Keys'
    <2>1. \A q \in Process : sp'[q].pc # "idle" =>
              sp[q].pc # "idle" /\ sp'[q].child = sp[q].child /\ sp'[q].key = sp[q].key
      <3> SUFFICES ASSUME NEW q \in Process, sp'[q].pc # "idle"
                   PROVE  /\ sp[q].pc # "idle"
                          /\ sp'[q].child = sp[q].child /\ sp'[q].key = sp[q].key
        OBVIOUS
      <3>1. sp[q] \in Call
        BY DEF IInv, TypeOK
      <3>2. CASE sp'[q] = sp[q]
        BY <3>2
      <3>3. CASE sp[q].pc = "resume" /\ sp'[q] = [sp[q] EXCEPT !.pc = "ack"]
        BY <3>1, <3>3
      <3> QED BY <3>2, <3>3
    <2> QED BY <2>1 DEF IInv, Keys
  <1> QED BY <1>2, <1>3, <1>4, <1>5, <1>6, <1>7, <1>8, <1>9 DEF IInv

(* A running process is in both jobs, and the launcher is there. *)
LEMMA Alive ==
    ASSUME IInv, NEW p \in Process, life[p] \in Running
    PROVE  /\ jobs[p] = Both /\ lpc # "gone"
           /\ ~(calm /\ opt.role = "client")
  <1>1. jobs[p] = Both
    BY DEF IInv, Members, Process
  <1>2. lpc # "gone"
    BY DEF IInv, NothingRunsOn
  <1>3. ~(calm /\ opt.role = "client")
    BY <1>1 DEF IInv, DrainedIsOver, Both
  <1> QED BY <1>1, <1>2, <1>3

(* The target runs only after the launcher has prepared it. *)
LEMMA Resumed ==
    ASSUME IInv, life[Root] \in Running
    PROVE  lpc \notin Preparing \cup {"start"}
  BY DEF IInv, Progress

(* A process comes further through DllMain. *)
LEMMA LoadsInv ==
    ASSUME IInv, NEW p \in Process, NEW to \in Running, life[p] \in Loading \cup {"bare"},
           life' = [life EXCEPT ![p] = to], apc' \subseteq Process,
           {err', init', degr'} \subseteq BOOLEAN,
           acked' = acked \/ (acked' = acked \cup {p} /\ to = "hooked" /\ p \in Guest),
           UNCHANGED <<launcher, jobs, image, spawner, held, loose, sp, cache, queue>>
    PROVE  IInv'
  <1>1. jobs[p] = Both /\ lpc # "gone" /\ lpc' = lpc
    BY Alive DEF launcher
  <1>2. TypeOK'
    BY DEF IInv, TypeOK, launcher, Life
  <1>3. Progress' /\ Drains'
    <2>1. lpc \in Preparing \cup {"start"} => life'[Root] = life[Root]
      BY Resumed DEF IInv, TypeOK, Process
    <2> QED BY <2>1 DEF IInv, Progress, Drains, launcher, Preparing
  <1>4. p = Root /\ ScanRoot => image[p] \in Clean
    BY DEF IInv, Scans, Process
  <1> QED BY <1>1, <1>2, <1>3, <1>4, Advances DEF launcher

(* DllMain installs the hooks, or leaves a bare process. *)
LEMMA InstallHooksInv ==
    ASSUME IInv, NEW p \in Process, install_hooks(p)
    PROVE  IInv'
  <1>1. PICK to \in {"installed", "bare"} : life' = [life EXCEPT ![p] = to]
    BY DEF install_hooks
  <1>2. {err', init', degr'} \subseteq BOOLEAN /\ apc' \subseteq Process
    BY DEF install_hooks, IInv, TypeOK
  <1>3. life[p] \in Loading \cup {"bare"}
    BY DEF install_hooks
  <1> QED BY <1>1, <1>2, <1>3, LoadsInv DEF install_hooks

(* The target sets its two events. *)
LEMMA SignalsInv ==
    ASSUME IInv, SignalInit \/ SignalDegraded
    PROVE  IInv'
  <1>1. PICK to \in {"signalled", "hooked"} : life' = [life EXCEPT ![Root] = to]
    BY DEF SignalInit, SignalDegraded
  <1>2. {err', init', degr'} \subseteq BOOLEAN /\ apc' \subseteq Process
    BY DEF SignalInit, SignalDegraded, IInv, TypeOK
  <1>3. Root \in Process /\ life[Root] \in Loading
    BY DEF SignalInit, SignalDegraded, Process
  <1> QED BY <1>1, <1>2, <1>3, LoadsInv DEF SignalInit, SignalDegraded

(* A child acknowledges: it is hooked when its event is set. *)
LEMMA SignalAckInv ==
    ASSUME IInv, NEW g \in Guest, SignalAck(g)
    PROVE  IInv'
  <1>1. {err', init', degr'} \subseteq BOOLEAN /\ apc' \subseteq Process
    BY DEF SignalAck, IInv, TypeOK
  <1> QED BY <1>1, LoadsInv DEF SignalAck, Process

(* The target is resumed, in both jobs and scanned. *)
LEMMA ResumeRootInv ==
    ASSUME IInv, ResumeRoot
    PROVE  IInv'
  <1>1. /\ lpc = "resume" /\ lpc' = "wait" /\ ~calm /\ Root \in Process
        /\ life[Root] = "suspended" /\ jobs[Root] = Both
    BY NotCalm DEF ResumeRoot, At, Process, IInv, Progress, Preparing
  <1>2. TypeOK' /\ Progress' /\ Drains'
    BY <1>1
    DEF ResumeRoot, At, IInv, TypeOK, Progress, Drains, Preparing, Life, events
  <1>3. ScanRoot => image[Root] \in Clean
    BY <1>1 DEF IInv, Scans, Preparing
  <1> QED BY <1>1, <1>2, <1>3, Advances DEF ResumeRoot, Preparing, events

(* Whoever resumes a suspended child, a guest or the hook of its creator.   *)
LEMMA ResumesInv ==
    ASSUME IInv, NEW c \in Guest, life[c] = "suspended", lpc # "gone",
           life' = [life EXCEPT ![c] = "booting"],
           \/ sp' = sp
           \/ \E p \in Process : sp[p].pc = "resume" /\ sp' = [sp EXCEPT ![p].pc = "ack"],
           UNCHANGED <<launcher, apc, jobs, image, spawner, held, loose, err, events, cache, queue>>
    PROVE  IInv'
  <1>1. c \in Process /\ c # Root /\ jobs[c] = Both /\ lpc' = lpc
    BY ConstantsAssumption DEF IInv, Members, launcher, Process
  <1>2. /\ \A q \in Process : \/ sp'[q] = sp[q]
                              \/ sp[q].pc = "resume" /\ sp'[q] = [sp[q] EXCEPT !.pc = "ack"]
        /\ sp' \in [Process -> Call]
    <2>1. CASE sp' = sp
      BY <2>1 DEF IInv, TypeOK
    <2>2. ASSUME NEW p \in Process, sp[p].pc = "resume", sp' = [sp EXCEPT ![p].pc = "ack"]
          PROVE  /\ \A q \in Process :
                        \/ sp'[q] = sp[q]
                        \/ sp[q].pc = "resume" /\ sp'[q] = [sp[q] EXCEPT !.pc = "ack"]
                 /\ sp' \in [Process -> Call]
      <3>1. sp \in [Process -> Call] /\ sp' = [sp EXCEPT ![p] = [sp[p] EXCEPT !.pc = "ack"]]
        BY <2>2 DEF IInv, TypeOK
      <3>2. [sp[p] EXCEPT !.pc = "ack"] \in Call
        <4>1. sp[p] \in Call
          BY <3>1
        <4> QED BY ONLY <4>1
      <3>3. \A q \in Process : sp'[q] = (IF q = p THEN [sp[p] EXCEPT !.pc = "ack"] ELSE sp[q])
        BY <3>1
      <3> QED BY <2>2, <3>1, <3>2, <3>3
    <2> QED BY <2>1, <2>2
  <1>3. TypeOK'
    <2>1. life' \in [Process -> Life]
      BY DEF IInv, TypeOK, Life
    <2> QED BY <1>2, <2>1 DEF IInv, TypeOK, launcher, events
  <1>4. Progress' /\ Drains'
    BY <1>1 DEF IInv, Progress, Drains, launcher, Preparing, TypeOK, Process
  <1> QED BY <1>1, <1>2, <1>3, <1>4, Advances DEF launcher, events

(* Any guest resumes a suspended child. *)
LEMMA GuestResumesInv ==
    ASSUME IInv, NEW c \in Guest, GuestResumes(c)
    PROVE  IInv'
  <1>1. lpc # "gone"
    <2>1. PICK q \in Process : life[q] \in {"hooked", "bare"}
      BY DEF GuestResumes
    <2> QED BY <2>1, Alive
  <1> QED BY <1>1, ResumesInv DEF GuestResumes

-----------------------------------------------------------------------------
(* A process is created in the jobs of its creator.  Nothing mentioned it   *)
(* before.                                                                  *)
LEMMA Unmentioned ==
    ASSUME IInv, NEW c \in Guest, life[c] = "absent"
    PROVE  /\ c \notin held \cup acked \cup waited \cup {queue[i] : i \in DOMAIN queue}
           /\ \A g \in Guest : spawner[g] # c
           /\ \A q \in Process : sp[q].pc # "idle" => q # c /\ sp[q].child # c
  <1>1. c \notin held
    BY ConstantsAssumption DEF IInv, Creators, Process
  <1>2. c \notin acked \cup waited \cup {queue[i] : i \in DOMAIN queue}
    BY <1>1 DEF IInv, Acks, ReportedIsHooked
  <1>3. \A g \in Guest : spawner[g] # c
    BY ConstantsAssumption DEF IInv, Creators, Process
  <1>4. \A q \in Process : sp[q].pc # "idle" => q # c /\ sp[q].child # c
    BY ConstantsAssumption DEF IInv, Calls, Creators, Process
  <1> QED BY <1>1, <1>2, <1>3, <1>4

(* The parts of the invariant that do not depend on who creates. *)
LEMMA Births ==
    ASSUME IInv, NEW p \in Process, NEW c \in Guest, NEW to \in {"suspended", "bare"},
           life[p] \in Running, life[c] = "absent",
           life' = [life EXCEPT ![c] = to], jobs' = [jobs EXCEPT ![c] = jobs[p]],
           held \subseteq held', UNCHANGED <<launcher, acked, queue>>
    PROVE  /\ Progress' /\ Members' /\ Acks' /\ Drains'
           /\ ReportedIsHooked' /\ NothingRunsOn' /\ DrainedIsOver'
  <1>1. /\ jobs[p] = Both /\ lpc # "gone" /\ ~(calm /\ opt.role = "client")
        /\ opt' = opt /\ lpc' = lpc /\ waited' = waited /\ calm' = calm
        /\ opt.role \in {"broker", "client"}
    BY Alive DEF launcher, IInv, TypeOK, Options
  <1>2. /\ life'[c] = to /\ jobs'[c] = Both /\ c # Root
        /\ \A q \in Process : q # c => life'[q] = life[q] /\ jobs'[q] = jobs[q]
        /\ Root \in Process /\ Guest \subseteq Process
    BY <1>1, ConstantsAssumption DEF IInv, TypeOK, Process
  <1>3. Progress' /\ Members' /\ Drains'
    BY <1>1, <1>2 DEF IInv, Progress, Members, Drains, Preparing
  <1>4. Acks'
    BY <1>2, Unmentioned DEF IInv, Acks, TypeOK
  <1>5. ReportedIsHooked'
    BY <1>1, <1>2, Unmentioned DEF IInv, ReportedIsHooked, TypeOK
  <1>6. NothingRunsOn'
    BY <1>1 DEF NothingRunsOn
  <1>7. DrainedIsOver'
    BY <1>1, <1>2, Unmentioned DEF IInv, DrainedIsOver, TypeOK
  <1> QED BY <1>3, <1>4, <1>5, <1>6, <1>7

(* A process without hooks creates one. *)
LEMMA BareSpawnInv ==
    ASSUME IInv, NEW p \in Process, NEW c \in Guest, BareSpawn(p, c)
    PROVE  IInv'
  <1>1. /\ life[p] = "bare" /\ life[c] = "absent" /\ life' = [life EXCEPT ![c] = "bare"]
        /\ jobs' = [jobs EXCEPT ![c] = jobs[p]]
        /\ UNCHANGED <<launcher, image, spawner, held, loose, sp, acked, cache, queue>>
    BY DEF BareSpawn, events
  <1>2. /\ Progress' /\ Members' /\ Acks' /\ Drains'
        /\ ReportedIsHooked' /\ NothingRunsOn' /\ DrainedIsOver'
    BY <1>1, Births
  <1>3. TypeOK'
    BY <1>1 DEF BareSpawn, IInv, TypeOK, Life, launcher, events
  <1>4. /\ life'[c] = "bare" /\ c # Root /\ \A q \in Process : q # c => life'[q] = life[q]
        /\ Root \in Process /\ Guest \subseteq Process
    BY <1>1, ConstantsAssumption DEF IInv, TypeOK, Process
  <1>5. Creators'
    BY <1>1, <1>4, Unmentioned DEF IInv, Creators, TypeOK, Process
  <1>6. Calls' /\ Keys'
    BY <1>1, <1>4, Unmentioned DEF IInv, Calls, Keys
  <1>7. Scans'
    <2>1. ScanRoot' = ScanRoot /\ ScanChildren' = ScanChildren /\ lpc' = lpc
      BY <1>1 DEF ScanRoot, ScanChildren, launcher
    <2>2. spawner[c] = None
      BY <1>1 DEF IInv, Creators
    <2>3. \A g \in Guest : spawner[g] # None => (Passed(g) <=> Passed(g)')
      BY <1>1, <1>4, <2>2 DEF Passed, Unscanned
    <2> QED BY <1>1, <1>4, <2>1, <2>3 DEF IInv, Scans
  <1> QED BY <1>2, <1>3, <1>5, <1>6, <1>7 DEF IInv

(* A hooked process creates a child, suspended. *)
LEMMA CreateChildInv ==
    ASSUME IInv, NEW p \in Process, NEW c \in Guest, NEW i \in Image, NEW s \in BOOLEAN,
           CreateChild(p, c, i, s)
    PROVE  IInv'
  <1> DEFINE r == [pc |-> "scan", child |-> c, key |-> FALSE]
  <1>1. /\ life[p] = "hooked" /\ life[c] = "absent" /\ sp[p].pc = "idle"
        /\ life' = [life EXCEPT ![c] = "suspended"] /\ jobs' = [jobs EXCEPT ![c] = jobs[p]]
        /\ held \subseteq held' /\ held' \subseteq held \cup {c}
        /\ \/ sp' = [sp EXCEPT ![p] = r] /\ loose' = loose
           \/ sp' = sp /\ loose' = loose \cup {c}
        /\ UNCHANGED <<launcher, acked, cache, queue>>
    BY DEF CreateChild, events, Idle
  <1>2. /\ Progress' /\ Members' /\ Acks' /\ Drains'
        /\ ReportedIsHooked' /\ NothingRunsOn' /\ DrainedIsOver'
    BY <1>1, Births
  <1>3. TypeOK'
    <2>1. sp' \in [Process -> Call]
      <3>1. r \in Call
        OBVIOUS
      <3> QED BY <1>1, <3>1 DEF IInv, TypeOK
    <2>2. held' \cup loose' \subseteq Guest
      BY <1>1 DEF IInv, TypeOK
    <2>3. /\ life' \in [Process -> Life] /\ jobs' \in [Process -> SUBSET {"folder", "session"}]
          /\ spawner' \in [Process -> Process \cup {None}]
          /\ image' \in [Process -> Image \cup {None}]
      BY <1>1 DEF CreateChild, IInv, TypeOK, Life
    <2> QED BY <1>1, <2>1, <2>2, <2>3 DEF CreateChild, IInv, TypeOK, launcher, events
  <1>4. /\ life'[c] = "suspended" /\ c # Root /\ p # c
        /\ \A q \in Process : q # c =>
               /\ life'[q] = life[q] /\ spawner'[q] = spawner[q] /\ image'[q] = image[q]
        /\ spawner'[c] = p
        /\ \/ sp'[p] = r /\ loose' = loose
           \/ sp'[p] = sp[p] /\ loose' = loose \cup {c}
        /\ \A q \in Process : q # p => sp'[q] = sp[q]
        /\ Root \in Process /\ Guest \subseteq Process
    BY <1>1, ConstantsAssumption DEF CreateChild, IInv, TypeOK, Process
  <1>5. Creators'
    BY <1>1, <1>4, Unmentioned DEF IInv, Creators, TypeOK, Process
  <1>6. Calls'
    <2> SUFFICES ASSUME NEW q \in Process, sp'[q].pc # "idle"
                 PROVE  /\ life'[q] = "hooked"
                        /\ sp'[q].child \in Guest
                        /\ spawner'[sp'[q].child] = q
                        /\ sp'[q].pc \in {"register", "spawned", "record"} =>
                               \/ sp'[q].child \in held'
                               \/ life'[sp'[q].child] \in {"hooked", "dead"}
      BY DEF Calls
    <2>1. CASE q = p
      BY <1>1, <1>4, <2>1
    <2>2. CASE q # p
      BY <1>1, <1>4, <2>2, Unmentioned DEF IInv, Calls
    <2> QED BY <2>1, <2>2
  <1>7. Keys'
    BY <1>1, <1>4, Unmentioned DEF IInv, Keys, Calls
  <1>8. Scans'
    <2>1. ScanRoot' = ScanRoot /\ ScanChildren' = ScanChildren /\ lpc' = lpc
      BY <1>1 DEF ScanRoot, ScanChildren, launcher
    <2>2. Passed(c)'
      <3>1. CASE sp'[p] = r
        <4>1. c \in Unscanned(Process)'
          BY <3>1 DEF Unscanned
        <4> QED BY <4>1 DEF Passed
      <3>2. CASE loose' = loose \cup {c}
        BY <3>2 DEF Passed
      <3> QED BY <1>4, <3>1, <3>2
    <2>3. ASSUME NEW g \in Guest, g # c, Passed(g)
          PROVE  Passed(g)'
      <3>1. g \in Unscanned(Process) => g \in Unscanned(Process)'
        BY <1>1, <1>4 DEF Unscanned
      <3> QED BY <1>1, <1>4, <2>3, <3>1 DEF Passed
    <2>4. ScanRoot /\ (life'[Root] \in Running \/ lpc' \in Preparing \ {"check", "scan"})
              => image'[Root] \in Clean
      BY <1>4, <2>1 DEF IInv, Scans
    <2>5. ScanChildren => \A g \in Guest : spawner'[g] # None => Passed(g)'
      BY <1>4, <2>2, <2>3 DEF IInv, Scans
    <2> QED BY <1>1, <2>1, <2>4, <2>5 DEF IInv, Scans
  <1> QED BY <1>2, <1>3, <1>5, <1>6, <1>7, <1>8 DEF IInv

-----------------------------------------------------------------------------
(* A creating hook goes on with its call, and no process changes. *)
LEMMA CallMoves ==
    ASSUME IInv, TypeOK', NEW p \in Process, sp[p].pc # "idle",
           NEW r, sp' = [sp EXCEPT ![p] = r], Calls', Keys', ReportedIsHooked',
           cache' \subseteq Clean, acked' \subseteq acked,
           loose \subseteq loose',
           ScanChildren /\ sp[p].pc = "scan" => image[sp[p].child] \in Clean \/ sp[p].child \in loose',
           UNCHANGED <<launcher, life, jobs, image, spawner, held>>
    PROVE  IInv'
  <1>1. Progress' /\ Members' /\ Creators' /\ Acks' /\ Drains' /\ NothingRunsOn' /\ DrainedIsOver'
    BY DEF IInv, Progress, Members, Creators, Acks, Drains, NothingRunsOn, DrainedIsOver,
           launcher, Preparing
  <1>2. Scans'
    <2>1. ScanRoot' = ScanRoot /\ ScanChildren' = ScanChildren /\ lpc' = lpc
      BY DEF ScanRoot, ScanChildren, launcher
    <2>2. ASSUME NEW g \in Guest, ScanChildren, Passed(g)
          PROVE  Passed(g)'
      <3>1. CASE image[g] \in Clean \/ g \in loose \/ life[g] = "dead"
        BY <3>1 DEF Passed
      <3>2. CASE g \in Unscanned(Process)
        <4>1. PICK q \in Process : sp[q].pc = "scan" /\ sp[q].child = g
          BY <3>2 DEF Unscanned
        <4>2. CASE q = p
          BY <2>2, <4>1, <4>2 DEF Passed
        <4>3. CASE q # p
          <5>1. sp'[q] = sp[q]
            BY <4>3 DEF IInv, TypeOK
          <5>2. g \in Unscanned(Process)'
            BY <4>1, <5>1 DEF Unscanned
          <5> QED BY <5>2 DEF Passed
        <4> QED BY <4>2, <4>3
      <3> QED BY <2>2, <3>1, <3>2 DEF Passed
    <2> QED BY <2>1, <2>2 DEF IInv, Scans
  <1> QED BY <1>1, <1>2 DEF IInv

(* The hook gives its child up, killed or not. *)
LEMMA TerminateChildInv ==
    ASSUME IInv, NEW p \in Process, NEW from \in {"scan", "inject", "ack"},
           TerminateChild(p, from)
    PROVE  IInv'
  <1> DEFINE c == sp[p].child
  <1>1. CASE /\ life' = Ended({c})
             /\ sp' = [Dropped({c}) EXCEPT ![p] = Idle]
             /\ loose' = loose \cup Unscanned({c})
    BY <1>1, KillChildInv DEF TerminateChild
  <1>2. CASE /\ sp' = [sp EXCEPT ![p] = Idle]
             /\ loose' = loose \cup {c}
             /\ life' = life
    <2>1. /\ sp[p].pc # "idle" /\ c \in Guest
          /\ UNCHANGED <<launcher, apc, jobs, image, spawner, held, err, events, cache, queue>>
      BY DEF TerminateChild, IInv, Calls
    <2>2. /\ sp'[p] = Idle /\ \A q \in Process : q # p => sp'[q] = sp[q]
          /\ sp' \in [Process -> Call]
      BY <1>2 DEF IInv, TypeOK, Idle
    <2>3. TypeOK'
      BY <1>2, <2>1, <2>2 DEF IInv, TypeOK, launcher, events
    <2>4. Calls' /\ Keys'
      BY <1>2, <2>1, <2>2 DEF IInv, Calls, Keys, Idle
    <2>5. ReportedIsHooked' /\ cache \subseteq Clean
      BY <1>2, <2>1 DEF IInv, ReportedIsHooked, Scans, launcher
    <2> QED BY <1>2, <2>1, <2>3, <2>4, <2>5, CallMoves DEF events
  <1> QED BY <1>1, <1>2 DEF TerminateChild

(* The scan of a child: a dirty image is terminated. *)
LEMMA ScanChildInv ==
    ASSUME IInv, NEW p \in Process, ScanChild(p)
    PROVE  IInv'
  <1> DEFINE c == sp[p].child
  <1>1. CASE TerminateChild(p, "scan")
    BY <1>1, TerminateChildInv
  <1>2. ASSUME sp[p].pc = "scan", ScanChildren => MayPass(image[c]),
               NEW k \in {FALSE, ScanChildren /\ image[c] \notin cache},
               sp' = [sp EXCEPT ![p].pc = "inject", ![p].key = k],
               UNCHANGED <<launcher, processes, events, cache, queue>>
        PROVE  IInv'
    <2> DEFINE r == [sp[p] EXCEPT !.pc = "inject", !.key = k]
    <2>1. sp' = [sp EXCEPT ![p] = r]
      BY <1>2 DEF IInv, TypeOK
    <2>2. ScanChildren => image[c] \in Clean
      BY <1>2 DEF MayPass, IInv, Scans
    <2>3. k \in BOOLEAN /\ (k => image[c] \in Clean)
      BY <1>2, <2>2 DEF ScanChildren
    <2>4. r \in Call
          /\ r.pc = "inject" /\ r.child = c /\ r.key = k
      BY <2>3 DEF IInv, TypeOK
    <2>5. /\ sp'[p] = r /\ \A q \in Process : q # p => sp'[q] = sp[q]
          /\ sp' \in [Process -> Call]
      BY <2>1, <2>4 DEF IInv, TypeOK
    <2>6. TypeOK'
      BY <1>2, <2>5 DEF IInv, TypeOK, launcher, processes, events
    <2>7. Calls' /\ Keys'
      BY <1>2, <2>3, <2>4, <2>5 DEF IInv, Calls, Keys, processes
    <2>8. ReportedIsHooked' /\ cache \subseteq Clean
      BY <1>2 DEF IInv, ReportedIsHooked, Scans, launcher, processes
    <2> QED BY <1>2, <2>1, <2>2, <2>6, <2>7, <2>8, CallMoves DEF processes, events
  <1> QED BY <1>1, <1>2 DEF ScanChild

(* A step that only moves the call's pc. *)
LEMMA StepFacts ==
    ASSUME IInv, NEW p \in Process, NEW from, NEW to, Step(p, from, to),
           to \in {"inject", "resume", "ack", "register", "spawned", "record"}
    PROVE  /\ sp' = [sp EXCEPT ![p] = [sp[p] EXCEPT !.pc = to]]
           /\ sp'[p].pc = to /\ sp'[p].child = sp[p].child /\ sp'[p].key = sp[p].key
           /\ \A q \in Process : q # p => sp'[q] = sp[q]
           /\ sp[p].pc = from
           /\ sp' \in [Process -> Call]
  BY DEF Step, IInv, TypeOK

(* The APC is queued in a child. *)
LEMMA InjectChildInv ==
    ASSUME IInv, NEW p \in Process, InjectChild(p)
    PROVE  IInv'
  <1> DEFINE c == sp[p].child
             to == IF c \in held THEN "register" ELSE "resume"
  <1>1. CASE TerminateChild(p, "inject")
    BY <1>1, TerminateChildInv
  <1>2. CASE /\ Step(p, "inject", to)
             /\ apc' = apc \cup {c}
             /\ UNCHANGED <<launcher, life, jobs, image, spawner, held, loose, err, events, cache, queue>>
    <2>1. /\ sp' = [sp EXCEPT ![p] = [sp[p] EXCEPT !.pc = to]]
          /\ sp'[p].pc = to /\ sp'[p].child = c /\ sp'[p].key = sp[p].key
          /\ \A q \in Process : q # p => sp'[q] = sp[q]
          /\ sp[p].pc = "inject"
          /\ sp' \in [Process -> Call]
      BY <1>2, StepFacts
    <2>2. c \in Guest
      BY <2>1 DEF IInv, Calls
    <2>3. TypeOK'
      BY <1>2, <2>1, <2>2 DEF IInv, TypeOK, launcher, events, Process
    <2>4. Calls' /\ Keys'
      BY <1>2, <2>1, <2>2 DEF IInv, Calls, Keys
    <2>5. ReportedIsHooked' /\ cache \subseteq Clean
      BY <1>2 DEF IInv, ReportedIsHooked, Scans, launcher
    <2> QED BY <1>2, <2>1, <2>3, <2>4, <2>5, CallMoves DEF events
  <1> QED BY <1>1, <1>2 DEF InjectChild

(* A creating hook resumes its child, which a guest may have done before.   *)
LEMMA ResumeChildInv ==
    ASSUME IInv, NEW p \in Process, ResumeChild(p)
    PROVE  IInv'
  <1> DEFINE c == sp[p].child
  <1>1. /\ sp[p].pc = "resume" /\ Step(p, "resume", "ack")
        /\ c \in Guest /\ c \in Process /\ life[p] = "hooked"
        /\ life' = [life EXCEPT ![c] = IF life[c] = "suspended" THEN "booting" ELSE life[c]]
        /\ UNCHANGED <<launcher, apc, jobs, image, spawner, held, loose, err, events, cache, queue>>
    BY DEF ResumeChild, Step, IInv, Calls, TypeOK, Process
  <1>2. CASE life[c] = "suspended"
    <2>1. lpc # "gone"
      BY <1>1, Alive
    <2> QED BY <1>1, <1>2, <2>1, ResumesInv DEF Step
  <1>3. CASE life[c] # "suspended"
    <2>1. life' = life
      BY <1>1, <1>3 DEF IInv, TypeOK
    <2>2. /\ sp' = [sp EXCEPT ![p] = [sp[p] EXCEPT !.pc = "ack"]]
          /\ sp'[p].pc = "ack" /\ sp'[p].child = c /\ sp'[p].key = sp[p].key
          /\ \A q \in Process : q # p => sp'[q] = sp[q]
          /\ sp' \in [Process -> Call]
      BY <1>1, StepFacts
    <2>3. TypeOK'
      BY <1>1, <2>1, <2>2 DEF IInv, TypeOK, launcher, events
    <2>4. Calls' /\ Keys'
      BY <1>1, <2>1, <2>2 DEF IInv, Calls, Keys
    <2>5. ReportedIsHooked' /\ cache \subseteq Clean
      BY <1>1, <2>1 DEF IInv, ReportedIsHooked, Scans, launcher
    <2> QED BY <1>1, <2>1, <2>2, <2>3, <2>4, <2>5, CallMoves DEF events
  <1> QED BY <1>2, <1>3

(* The creator goes on only after the acknowledgement. *)
LEMMA WaitForAckInv ==
    ASSUME IInv, NEW p \in Process, wait_for_ack(p)
    PROVE  IInv'
  <1> DEFINE c == sp[p].child
  <1>1. CASE TerminateChild(p, "ack")
    BY <1>1, TerminateChildInv
  <1>2. CASE /\ Step(p, "ack", "register")
             /\ c \in acked
             /\ acked' = acked \ {c}
             /\ UNCHANGED <<launcher, processes, init, degr, cache, queue>>
    <2>1. /\ sp' = [sp EXCEPT ![p] = [sp[p] EXCEPT !.pc = "register"]]
          /\ sp'[p].pc = "register" /\ sp'[p].child = c /\ sp'[p].key = sp[p].key
          /\ \A q \in Process : q # p => sp'[q] = sp[q]
          /\ sp[p].pc = "ack"
          /\ sp' \in [Process -> Call]
      BY <1>2, StepFacts
    <2>2. life[c] \in {"hooked", "dead"}
      BY <1>2 DEF IInv, Acks
    <2>3. TypeOK'
      BY <1>2, <2>1 DEF IInv, TypeOK, launcher, processes
    <2>4. Calls' /\ Keys'
      BY <1>2, <2>1, <2>2 DEF IInv, Calls, Keys, processes
    <2>5. ReportedIsHooked' /\ cache \subseteq Clean /\ acked' \subseteq acked
      BY <1>2 DEF IInv, ReportedIsHooked, Scans, launcher, processes
    <2> QED BY <1>2, <2>1, <2>3, <2>4, <2>5, CallMoves DEF processes
  <1> QED BY <1>1, <1>2 DEF wait_for_ack

(* A full queue stays as it is, another one grows by one. *)
LEMMA Queued ==
    ASSUME IInv, NEW c \in Guest
    PROVE  /\ queue_child_pid(c) \in Seq(Guest) /\ Len(queue_child_pid(c)) <= QueueCap
           /\ \A i \in DOMAIN queue_child_pid(c) :
                  \/ queue_child_pid(c)[i] = c
                  \/ i \in DOMAIN queue /\ queue_child_pid(c)[i] = queue[i]
  BY ConstantsAssumption DEF queue_child_pid, IInv, TypeOK

(* A child is reported: it is hooked, dead, or held. *)
LEMMA ReportInv ==
    ASSUME IInv, NEW p \in Process, NEW from \in {"register", "spawned"},
           NEW to \in {"spawned", "record"}, Report(p, from, to)
    PROVE  IInv'
  <1> DEFINE c == sp[p].child
  <1>1. /\ sp' = [sp EXCEPT ![p] = [sp[p] EXCEPT !.pc = to]]
        /\ sp'[p].pc = to /\ sp'[p].child = c /\ sp'[p].key = sp[p].key
        /\ \A q \in Process : q # p => sp'[q] = sp[q]
        /\ sp[p].pc = from
        /\ sp' \in [Process -> Call]
    BY StepFacts DEF Report
  <1>2. c \in Guest /\ (c \in held \/ life[c] \in {"hooked", "dead"})
    BY <1>1 DEF IInv, Calls
  <1>3. queue' = queue \/ queue' = queue_child_pid(c)
    BY DEF Report
  <1>4. UNCHANGED <<launcher, processes, events, cache>>
    BY DEF Report
  <1>5. /\ queue' \in Seq(Guest) /\ Len(queue') <= QueueCap
        /\ \A i \in DOMAIN queue' : queue'[i] = c \/ (i \in DOMAIN queue /\ queue'[i] = queue[i])
    <2>1. CASE queue' = queue
      BY <2>1 DEF IInv, TypeOK
    <2>2. CASE queue' = queue_child_pid(c)
      <3>1. /\ queue_child_pid(c) \in Seq(Guest) /\ Len(queue_child_pid(c)) <= QueueCap
            /\ \A i \in DOMAIN queue_child_pid(c) :
                   \/ queue_child_pid(c)[i] = c
                   \/ i \in DOMAIN queue /\ queue_child_pid(c)[i] = queue[i]
        BY <1>2, Queued
      <3> QED BY <2>2, <3>1
    <2> QED BY <1>3, <2>1, <2>2
  <1>6. TypeOK'
    BY <1>1, <1>4, <1>5 DEF IInv, TypeOK, launcher, processes, events
  <1>7. Calls' /\ Keys'
    BY <1>1, <1>2, <1>4 DEF IInv, Calls, Keys, processes
  <1>8. ReportedIsHooked' /\ cache \subseteq Clean
    BY <1>2, <1>4, <1>5 DEF IInv, ReportedIsHooked, Scans, launcher, processes
  <1> QED BY <1>1, <1>4, <1>6, <1>7, <1>8, CallMoves DEF processes, events

(* The image of a finished call is recorded. *)
LEMMA RecordCleanImageInv ==
    ASSUME IInv, NEW p \in Process, RecordCleanImage(p)
    PROVE  IInv'
  <1>1. /\ sp[p].pc = "record" /\ sp' = [sp EXCEPT ![p] = Idle]
        /\ UNCHANGED <<launcher, processes, events, queue>>
        /\ \/ cache' = cache
           \/ sp[p].key /\ cache' = cache \cup {image[sp[p].child]}
    BY DEF RecordCleanImage
  <1>2. cache' \subseteq Clean
    BY <1>1 DEF IInv, Scans, Keys
  <1>3. /\ sp'[p] = Idle /\ \A q \in Process : q # p => sp'[q] = sp[q]
        /\ sp' \in [Process -> Call]
    BY <1>1 DEF IInv, TypeOK, Idle
  <1>4. TypeOK'
    BY <1>1, <1>2, <1>3, ConstantsAssumption DEF IInv, TypeOK, launcher, processes, events
  <1>5. Calls' /\ Keys'
    BY <1>1, <1>3 DEF IInv, Calls, Keys, Idle, processes
  <1>6. ReportedIsHooked'
    BY <1>1 DEF IInv, ReportedIsHooked, launcher, processes
  <1> QED BY <1>1, <1>2, <1>4, <1>5, <1>6, CallMoves DEF processes, events

-----------------------------------------------------------------------------
(* Nothing happens. *)
LEMMA StutterInv ==
    ASSUME IInv, UNCHANGED vars
    PROVE  IInv'
  <1> USE DEF vars, launcher, processes, events
  <1>1. TypeOK' /\ Progress' /\ Members' /\ Creators' /\ Calls' /\ Acks'
    BY DEF IInv, TypeOK, Progress, Members, Creators, Calls, Acks, Preparing
  <1>2. Scans' /\ Keys' /\ Drains' /\ ReportedIsHooked' /\ NothingRunsOn' /\ DrainedIsOver'
    BY DEF IInv, Scans, Passed, Unscanned, ScanRoot, ScanChildren, Keys, Drains, ReportedIsHooked,
           NothingRunsOn, DrainedIsOver
  <1> QED BY <1>1, <1>2 DEF IInv

(* Every step preserves the invariant. *)
LEMMA NextInv ==
    ASSUME IInv, Next
    PROVE  IInv'
  <1>1. CASE LauncherStep
    <2>1. CASE launch_suspended BY <2>1, LaunchSuspendedInv
    <2>2. CASE CheckRoot BY <2>2, CheckRootInv
    <2>3. CASE pre_launch_scan BY <2>3, PreLaunchScanInv
    <2>4. CASE inject_dll BY <2>4, InjectDllInv
    <2>5. CASE assign_process_to_raw_job \/ setup_job_object BY <2>5, JobsInv
    <2>6. CASE install_outbound_filters BY <2>6, FiltersInv
    <2>7. CASE ResumeRoot BY <2>7, ResumeRootInv
    <2>8. CASE WaitInit \/ PollDegraded BY <2>8, HandshakeInv
    <2>9. CASE KillRoot BY <2>9, RefuseInv DEF KillRoot
    <2>10. CASE TargetExited BY <2>10, TargetExitedInv
    <2>11. CASE Drain BY <2>11, DrainInv
    <2>12. CASE Exit BY <2>12, GoneInv DEF Exit
    <2> QED
      BY <1>1, <2>1, <2>2, <2>3, <2>4, <2>5, <2>6, <2>7, <2>8, <2>9, <2>10, <2>11, <2>12
      DEF LauncherStep
  <1>2. CASE Crash
    BY <1>2, GoneInv DEF Crash
  <1>3. CASE SignalInit \/ SignalDegraded
    BY <1>3, SignalsInv
  <1>4. ASSUME NEW p \in Process, install_hooks(p) \/ Die(p)
        PROVE  IInv'
    BY <1>4, InstallHooksInv, DieInv
  <1>5. ASSUME NEW p \in Process, SpawnStep(p)
        PROVE  IInv'
    <2>1. CASE ScanChild(p) BY <2>1, ScanChildInv
    <2>2. CASE InjectChild(p) BY <2>2, InjectChildInv
    <2>3. CASE ResumeChild(p) BY <2>3, ResumeChildInv
    <2>4. CASE wait_for_ack(p) BY <2>4, WaitForAckInv
    <2>5. CASE RegisterChild(p) \/ SpawnedChild(p)
      BY <2>5, ReportInv DEF RegisterChild, SpawnedChild
    <2>6. CASE RecordCleanImage(p) BY <2>6, RecordCleanImageInv
    <2> QED BY <1>5, <2>1, <2>2, <2>3, <2>4, <2>5, <2>6 DEF SpawnStep
  <1>6. ASSUME NEW g \in Guest, SignalAck(g) \/ GuestResumes(g)
        PROVE  IInv'
    BY <1>6, SignalAckInv, GuestResumesInv
  <1>7. ASSUME NEW p \in Process, NEW c \in Guest, BareSpawn(p, c)
        PROVE  IInv'
    BY <1>7, BareSpawnInv
  <1>8. ASSUME NEW p \in Process, NEW c \in Guest, NEW i \in Image, NEW s \in BOOLEAN,
               CreateChild(p, c, i, s)
        PROVE  IInv'
    BY <1>8, CreateChildInv
  <1> QED BY <1>1, <1>2, <1>3, <1>4, <1>5, <1>6, <1>7, <1>8 DEF Next

(* The strengthened invariant holds in every state of every session. *)
THEOREM Invariance == Spec => []IInv
  <1>1. IInv /\ [Next]_vars => IInv'
    BY NextInv, StutterInv
  <1> QED BY InitInv, <1>1, PTL DEF Spec

(* The state keeps its type, and the queue of reported children its bound,  *)
(* for any number of processes.                                             *)
THEOREM TypeCorrect == Spec => []TypeOK
  <1>1. IInv => TypeOK
    BY DEF IInv
  <1> QED BY Invariance, <1>1, PTL

(* Whatever has been resumed is in the folder job and in the session job:   *)
(* run_target_session resumes last, and the kernel lets children inherit.   *)
THEOREM AllContained == Spec => []Contained
  <1>1. IInv => Contained
    BY DEF IInv, Members, Contained, Both, Process
  <1> QED BY Invariance, <1>1, PTL

(* When the launcher is gone, after an error, a crash or the drain, no      *)
(* process of its session runs.                                             *)
THEOREM NothingSurvives == Spec => []NothingRunsOn
  <1>1. IInv => NothingRunsOn
    BY DEF IInv
  <1> QED BY Invariance, <1>1, PTL

(* What a creating hook reports is hooked, dead, or kept suspended by its   *)
(* creator.                                                                 *)
THEOREM OnlyHookedReported == Spec => []ReportedIsHooked
  <1>1. IInv => ReportedIsHooked
    BY DEF IInv
  <1> QED BY Invariance, <1>1, PTL

(* Whatever the shared cache of clean images holds and whoever resumes a    *)
(* child, an image that scanning should have refused runs only before its   *)
(* scan has ended, or in a child its creator lost or could not kill         *)
(* (pre_launch_scan, scan_image_for_direct_syscalls, TerminateProcess).     *)
THEOREM OnlyScannedRuns == Spec => []ScannedRuns
  <1>1. IInv => ScannedRuns
    BY DEF IInv, Scans, Passed, Creators, ScannedRuns, Process
  <1> QED BY Invariance, <1>1, PTL
(* A drain that ends before its grace period ends with nobody to wait for.  *)
THEOREM DrainComplete == Spec => []DrainedIsOver
  <1>1. IInv => DrainedIsOver
    BY DEF IInv
  <1> QED BY Invariance, <1>1, PTL
=============================================================================
