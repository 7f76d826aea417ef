--------------------------- MODULE FailoverProofs ---------------------------
(***************************************************************************)
(* Failover is safe for any number of launchers, retries, timeouts and     *)
(* failures: the folder section has one writer, the broker that serves is  *)
(* the one that is published, and a dead launcher is trusted only while    *)
(* something will take it out, whether or not FreshYields holds.  If it    *)
(* holds, guests also keep the job and the section of whoever serves.      *)
(***************************************************************************)
EXTENDS Failover, TLAPS

(* From winning the database until death or failure. *)
WritingPC == {"setup", "serving"} \cup BecomePC

(* From the write of the section on. *)
BrokerPC == {"publish", "listen", "serving"}

HasFolder(l) == folder[l] \in Launcher /\ named[l] \in Launcher /\ section[folder[l]] \in Contents

(* The role of a launcher that writes is protected by the database's lock. *)
Holder == \A l \in Launcher : pc[l] \in WritingPC => lock = l

(* Whoever has attached, or has set its folder up, has handles. *)
Folders == \A l \in Launcher :
    /\ pc[l] = "rebuild" => Joined(l)
    /\ Joined(l) \/ pc[l] \in BrokerPC => HasFolder(l)

(* A connection leads to a broker that serves or has served. *)
Servers == \A c \in conns : pc[c.srv] \in {"serving", "dead"} /\ HasFolder(c.srv)

Published == \A l \in Launcher :
    /\ pc[l] \in BrokerPC => section[folder[l]].broker = l
    /\ pc[l] \in {"listen", "serving"} => json = [pid |-> l, section |-> named[l]]

(* Why a broker trusts a launcher. *)
Accounted(b, m) ==
    \/ m = b
    \/ m \in exitWatch[b]
    \/ \E c \in conns : c.cli = m /\ c.srv = b /\ c.st = "added"

Trusted == \A b \in Launcher :
    pc[b] \in BrokerPC => \A m \in Members(b) : Accounted(b, m)

IInv == TypeOK /\ Holder /\ Folders /\ Servers /\ Published /\ Trusted

-----------------------------------------------------------------------------
(* In the initial states nobody has a role and there is no connection. *)
LEMMA InitInv == Init => IInv
  BY ConstantsAssumption
  DEF Init, IInv, TypeOK, Holder, Folders, Servers, Published, Trusted, WritingPC,
      BrokerPC, PC, RacePC, AttachPC, BecomePC, Joined, HasFolder

(* Steps that move one launcher's role thread without giving it a role, and *)
(* leave the shared objects, the handles and the connections alone.         *)
LEMMA Quiet ==
    ASSUME IInv, NEW l \in Launcher, NEW p \in PC \ (WritingPC \cup {"dead"}),
           pc[l] \notin {"serving", "dead"},
           pc' = [pc EXCEPT ![l] = p],
           tries' \in [Launcher -> 0 .. Retries - 1],
           UNCHANGED <<objects, handles, session, conns, exitWatch, faults>>
    PROVE  IInv'
  <1> USE DEF IInv, WritingPC, BrokerPC, objects, handles, faults
  <1>1. TypeOK'
    BY DEF TypeOK, PC
  <1>2. Holder'
    BY DEF Holder, TypeOK, BecomePC
  <1>3. Folders'
    BY DEF Folders, TypeOK, BecomePC, Joined, HasFolder
  <1>4. Servers'
    BY DEF Servers, TypeOK, Connection, HasFolder
  <1>5. Published'
    BY DEF Published, TypeOK, BecomePC
  <1>6. Trusted'
    BY DEF Trusted, TypeOK, BecomePC, Members, Accounted
  <1> QED BY <1>1, <1>2, <1>3, <1>4, <1>5, <1>6

(* The steps that only look around: starting, failing to open the database, *)
(* reading broker.json, failing to connect, waking up.                      *)
LEMMA LookAround ==
    ASSUME IInv, NEW l \in Launcher,
           \/ Start(l)
           \/ pc[l] = "open" /\ lock # None /\ Enter(l, "race_open")
              /\ UNCHANGED <<objects, handles, session, conns, exitWatch, faults>>
           \/ pc[l] = "race_open" /\ lock # None /\ Goto(l, "race_read")
              /\ UNCHANGED <<tries, objects, handles, session, conns, exitWatch, faults>>
           \/ resolve_client_role(l)
           \/ watch_loop(l)
    PROVE  IInv'
  <1>1. PICK p \in PC \ (WritingPC \cup {"dead"}) :
           /\ pc[l] \notin {"serving", "dead"}
           /\ pc' = [pc EXCEPT ![l] = p]
    BY DEF IInv, TypeOK, PC, RacePC, AttachPC, BecomePC, WritingPC, Start, Goto, Enter,
           resolve_client_role, watch_loop
  <1>2. /\ tries' \in [Launcher -> 0 .. Retries - 1]
        /\ UNCHANGED <<objects, handles, session, conns, exitWatch, faults>>
    BY ConstantsAssumption
    DEF IInv, TypeOK, Start, Goto, Enter, resolve_client_role, watch_loop
  <1> QED BY <1>1, <1>2, Quiet

(* The database was free, so nobody else was writing. *)
LEMMA BecameBrokerInv ==
    ASSUME IInv, NEW l \in Launcher, pc[l] \in {"open", "race_open"}, BecameBroker(l)
    PROVE  IInv'
  <1> USE DEF IInv, WritingPC, BrokerPC, objects, handles, faults
  <1>a. PICK p \in {"rebuild", "setup"} :
           pc' = [pc EXCEPT ![l] = p] /\ (p = "rebuild" => Joined(l))
    BY DEF BecameBroker, Enter, Goto
  <1>b. /\ lock = None /\ lock' = l
        /\ tries' = [tries EXCEPT ![l] = 0]
        /\ UNCHANGED <<json, section, folder, named, watched, home, jobOpen, session,
                       conns, exitWatch, timeouts, failures>>
    BY DEF BecameBroker, MayOpen, Enter
  <1>1. TypeOK'
    BY <1>a, <1>b, ConstantsAssumption DEF TypeOK, PC, BecomePC
  <1>2. Holder'
    <2>1. \A m \in Launcher : pc[m] \notin WritingPC
      BY <1>b, ConstantsAssumption DEF Holder
    <2> QED BY <2>1, <1>a, <1>b DEF Holder, TypeOK
  <1>3. Folders'
    BY <1>a, <1>b DEF Folders, TypeOK, Joined, HasFolder
  <1>4. Servers'
    BY <1>a, <1>b DEF Servers, TypeOK, Connection, HasFolder
  <1>5. Published'
    BY <1>a, <1>b DEF Published, TypeOK
  <1>6. Trusted'
    BY <1>a, <1>b DEF Trusted, TypeOK, Members, Accounted
  <1> QED BY <1>1, <1>2, <1>3, <1>4, <1>5, <1>6

(* The lock of a dead process is not needed. *)
LEMMA ReleaseLockInv ==
    ASSUME IInv, ReleaseLock
    PROVE  IInv'
  <1> USE DEF IInv, WritingPC, BrokerPC, objects, handles, faults, role, ReleaseLock
  <1>1. TypeOK'
    BY DEF TypeOK, PC
  <1>2. Holder'
    BY DEF Holder, TypeOK, BecomePC
  <1>3. Folders'
    BY DEF Folders, TypeOK, BecomePC, Joined, HasFolder
  <1>4. Servers'
    BY DEF Servers, TypeOK, Connection, HasFolder
  <1>5. Published'
    BY DEF Published, TypeOK, BecomePC
  <1>6. Trusted'
    BY DEF Trusted, TypeOK, BecomePC, Members, Accounted
  <1> QED BY <1>1, <1>2, <1>3, <1>4, <1>5, <1>6

(* A new section names its creator and trusts nobody. *)
LEMMA SetupInv ==
    ASSUME IInv, NEW l \in Launcher, setup_broker_folder(l)
    PROVE  IInv'
  <1> USE DEF IInv, WritingPC, BrokerPC, faults
  <1> DEFINE new == [broker |-> l, members |-> {}]
  <1>a. l \in Launcher /\ pc[l] = "setup" /\ lock = l
    BY DEF setup_broker_folder, Holder
  <1>b. new \in Contents /\ new.broker = l
    BY DEF Contents
  <1>c. /\ pc' = [pc EXCEPT ![l] = "publish"]
        /\ section' = [section EXCEPT ![l] = new]
        /\ UNCHANGED <<tries, lock, json, watched, session, conns, exitWatch, timeouts, failures>>
    BY DEF setup_broker_folder, Goto, handles
  <1>d. /\ folder' = [folder EXCEPT ![l] = l]
        /\ named' = [named EXCEPT ![l] = l]
        /\ home' = [home EXCEPT ![l] = l]
        /\ jobOpen' = [jobOpen EXCEPT ![l] = TRUE]
    BY DEF setup_broker_folder
  <1>e. new.members = {}
    OBVIOUS
  <1> HIDE DEF new
  <1>f. \A m \in Launcher : pc[m] \in WritingPC => m = l
    BY <1>a DEF Holder
  <1>1. TypeOK'
    BY <1>a, <1>b, <1>c, <1>d DEF TypeOK, PC, BecomePC
  <1>2. Holder'
    BY <1>a, <1>c DEF Holder, TypeOK
  <1>3. Folders'
    BY <1>a, <1>b, <1>c, <1>d DEF Folders, TypeOK, Joined, HasFolder
  <1>4. Servers'
    BY <1>a, <1>b, <1>c, <1>d DEF Servers, TypeOK, Connection, HasFolder
  <1>5. Published'
    BY <1>b, <1>c, <1>d, <1>f DEF Published, TypeOK, BecomePC
  <1>6. Trusted'
    BY <1>c, <1>d, <1>e, <1>f DEF Trusted, TypeOK, Members, BecomePC
  <1> QED BY <1>1, <1>2, <1>3, <1>4, <1>5, <1>6

(* A rebuilt section names the winner and trusts only the winner. *)
LEMMA RebuildInv ==
    ASSUME IInv, NEW l \in Launcher, Rebuild(l)
    PROVE  IInv'
  <1> USE DEF IInv, WritingPC, BrokerPC, faults
  <1> DEFINE new == [broker |-> l, members |-> {l}]
  <1>a. folder[l] \in Launcher /\ pc[l] = "rebuild" /\ lock = l
    BY DEF Rebuild, Holder, Folders, HasFolder, BecomePC
  <1>b. new \in Contents /\ new.broker = l
    BY DEF Contents
  <1>c. /\ pc' = [pc EXCEPT ![l] = "publish"]
        /\ section' = [section EXCEPT ![folder[l]] = new]
        /\ UNCHANGED <<tries, lock, json, watched, session, conns, exitWatch, timeouts, failures>>
    BY DEF Rebuild, Goto, handles
  <1>d. UNCHANGED <<folder, named, home, jobOpen>>
    BY DEF Rebuild, handles
  <1>e. new.members = {l}
    OBVIOUS
  <1> HIDE DEF new
  <1>f. \A m \in Launcher : pc[m] \in WritingPC => m = l
    BY <1>a DEF Holder
  <1>1. TypeOK'
    BY <1>a, <1>b, <1>c, <1>d DEF TypeOK, PC, BecomePC
  <1>2. Holder'
    BY <1>a, <1>c DEF Holder, TypeOK
  <1>3. Folders'
    BY <1>a, <1>b, <1>c, <1>d DEF Folders, TypeOK, Joined, HasFolder
  <1>4. Servers'
    BY <1>a, <1>b, <1>c, <1>d DEF Servers, TypeOK, Connection, HasFolder
  <1>5. Published'
    BY <1>a, <1>b, <1>c, <1>d, <1>f DEF Published, TypeOK, BecomePC
  <1>6. Trusted'
    BY <1>a, <1>c, <1>d, <1>e, <1>f DEF Trusted, TypeOK, Members, BecomePC, Accounted
  <1> QED BY <1>1, <1>2, <1>3, <1>4, <1>5, <1>6

(* Only the holder of the lock publishes broker.json. *)
LEMMA WriteBrokerJsonInv ==
    ASSUME IInv, NEW l \in Launcher, write_broker_json(l)
    PROVE  IInv'
  <1> USE DEF IInv, WritingPC, BrokerPC, objects, handles, faults, role
  <1>a. /\ pc[l] = "publish" /\ pc' = [pc EXCEPT ![l] = "listen"]
        /\ json' = [pid |-> l, section |-> named[l]]
        /\ UNCHANGED <<tries, lock, section, folder, named, watched, home, jobOpen,
                       session, conns, exitWatch, timeouts, failures>>
    BY DEF write_broker_json, Goto
  <1>b. HasFolder(l) /\ lock = l
    BY <1>a DEF Folders, Holder, BecomePC
  <1>c. \A m \in Launcher : pc[m] \in WritingPC => m = l
    BY <1>b DEF Holder
  <1>1. TypeOK'
    <2>1. json' \in [pid : Launcher, section : Launcher]
      BY <1>a, <1>b DEF HasFolder
    <2> QED BY <2>1, <1>a DEF TypeOK, PC, BecomePC
  <1>2. Holder'
    BY <1>a, <1>b DEF Holder, TypeOK
  <1>3. Folders'
    BY <1>a DEF Folders, TypeOK, BecomePC, Joined, HasFolder
  <1>4. Servers'
    BY <1>a DEF Servers, TypeOK, Connection, HasFolder
  <1>5. Published'
    BY <1>a, <1>c DEF Published, TypeOK, BecomePC
  <1>6. Trusted'
    BY <1>a DEF Trusted, TypeOK, Members, Accounted
  <1> QED BY <1>1, <1>2, <1>3, <1>4, <1>5, <1>6

(* The pipe opens when section and broker.json are written. *)
LEMMA PipeAcceptLoopInv ==
    ASSUME IInv, NEW l \in Launcher, pipe_accept_loop(l)
    PROVE  IInv'
  <1> USE DEF IInv, WritingPC, BrokerPC, objects, handles, faults, role, pipe_accept_loop, Goto
  <1>1. TypeOK'
    BY DEF TypeOK, PC
  <1>2. Holder'
    BY DEF Holder, TypeOK, BecomePC
  <1>3. Folders'
    BY DEF Folders, TypeOK, BecomePC, Joined, HasFolder
  <1>4. Servers'
    BY DEF Servers, TypeOK, Connection, HasFolder
  <1>5. Published'
    BY DEF Published, TypeOK, BecomePC
  <1>6. Trusted'
    BY DEF Trusted, TypeOK, BecomePC, Members, Accounted
  <1> QED BY <1>1, <1>2, <1>3, <1>4, <1>5, <1>6

(* A failed winner gives the database back. *)
LEMMA BecomeFailsInv ==
    ASSUME IInv, NEW l \in Launcher, BecomeFails(l)
    PROVE  IInv'
  <1> USE DEF IInv, WritingPC, BrokerPC, objects, handles, faults, role
  <1>a. /\ pc[l] \in BecomePC /\ pc' = [pc EXCEPT ![l] = "gone"]
        /\ lock' = None
        /\ failures' \in 0 .. MaxFailures
        /\ UNCHANGED <<tries, json, section, folder, named, watched, home,
                       session, conns, exitWatch, timeouts>>
    BY ConstantsAssumption DEF BecomeFails, Goto, TypeOK
  <1>b. jobOpen' \in [Launcher -> BOOLEAN]
    BY DEF BecomeFails, TypeOK
  <1>c. \A m \in Launcher : pc[m] \in WritingPC => m = l
    BY <1>a DEF Holder
  <1>1. TypeOK'
    BY <1>a, <1>b DEF TypeOK, PC
  <1>2. Holder'
    BY <1>a, <1>c DEF Holder, TypeOK, BecomePC
  <1>3. Folders'
    BY <1>a DEF Folders, TypeOK, Joined, HasFolder, BecomePC
  <1>4. Servers'
    BY <1>a DEF Servers, TypeOK, Connection, HasFolder, BecomePC
  <1>5. Published'
    BY <1>a DEF Published, TypeOK, BecomePC
  <1>6. Trusted'
    BY <1>a DEF Trusted, TypeOK, Members, Accounted, BecomePC
  <1> QED BY <1>1, <1>2, <1>3, <1>4, <1>5, <1>6

(* A process that ends leaves the others' connections alone. *)
LEMMA ExitInv ==
    ASSUME IInv, NEW l \in Launcher, exit(l)
    PROVE  IInv'
  <1> USE DEF IInv, WritingPC, BrokerPC, objects, handles, faults, role
  <1>a. /\ pc' = [pc EXCEPT ![l] = "dead"]
        /\ tries' = [tries EXCEPT ![l] = 0]
        /\ session' = [session EXCEPT ![l] = "none"]
        /\ exitWatch' = [exitWatch EXCEPT ![l] = {}]
        /\ conns' = ConnsAfterExit(l)
        /\ UNCHANGED <<lock, json, section, folder, named, watched, home, jobOpen,
                       timeouts, failures>>
    BY DEF exit
  <1>b. conns \subseteq Connection
    BY DEF TypeOK
  <1>c. \A c \in conns' : /\ c \in Connection
                         /\ \E d \in conns : c.srv = d.srv
    BY <1>a, <1>b DEF ConnsAfterExit, Connection
  <1>d. ASSUME NEW c \in conns, c.srv # l, c.st = "added"
        PROVE  \E d \in conns' : d.cli = c.cli /\ d.srv = c.srv /\ d.st = "added"
    <2>1. CASE c.cli # l
      <3>1. c \in conns'
        BY <2>1, <1>a, <1>d DEF ConnsAfterExit
      <3> QED BY <3>1, <1>d
    <2>2. CASE c.cli = l
      <3>1. [c EXCEPT !.open = FALSE] \in conns'
        BY <2>2, <1>a, <1>d DEF ConnsAfterExit
      <3>2. /\ [c EXCEPT !.open = FALSE].cli = c.cli
            /\ [c EXCEPT !.open = FALSE].srv = c.srv
            /\ [c EXCEPT !.open = FALSE].st = c.st
        BY <1>b DEF Connection
      <3> QED BY <3>1, <3>2, <1>d
    <2> QED BY <2>1, <2>2
  <1>1. TypeOK'
    BY <1>a, <1>c, ConstantsAssumption DEF TypeOK, PC
  <1>2. Holder'
    BY <1>a DEF Holder, TypeOK, BecomePC
  <1>3. Folders'
    BY <1>a DEF Folders, TypeOK, Joined, HasFolder
  <1>4. Servers'
    BY <1>a, <1>b, <1>c DEF Servers, TypeOK, Connection, HasFolder
  <1>5. Published'
    BY <1>a DEF Published, TypeOK
  <1>6. Trusted'
    <2> SUFFICES ASSUME NEW b \in Launcher, pc'[b] \in BrokerPC, NEW m \in Members(b)'
                 PROVE  Accounted(b, m)'
      BY DEF Trusted
    <2>1. b # l /\ pc[b] \in BrokerPC /\ m \in Members(b)
      BY <1>a DEF TypeOK, Members
    <2>2. Accounted(b, m)
      BY <2>1 DEF Trusted
    <2> QED BY <2>1, <2>2, <1>a, <1>d DEF Accounted, TypeOK
  <1> QED BY <1>1, <1>2, <1>3, <1>4, <1>5, <1>6

(* A connection is made to a broker that serves. *)
LEMMA ClientAttachInv ==
    ASSUME IInv, NEW l \in Launcher, client_attach(l)
    PROVE  IInv'
  <1> USE DEF IInv, WritingPC, BrokerPC, objects, handles, faults, role
  <1> DEFINE new == [cli |-> l, srv |-> json.pid, st |-> "sent", open |-> TRUE]
  <1>a. /\ pc[l] = "attach" /\ pc' = [pc EXCEPT ![l] = "sent"]
        /\ conns' = conns \cup {new}
        /\ UNCHANGED <<tries, lock, json, section, folder, named, watched, home, jobOpen,
                       session, exitWatch, timeouts, failures>>
    BY DEF client_attach, Goto
  <1>b. json.pid \in Launcher /\ pc[json.pid] = "serving"
    BY DEF client_attach, NamedServes, Serving, TypeOK
  <1>c. HasFolder(json.pid)
    BY <1>b DEF Folders
  <1>d. new \in Connection /\ new.srv = json.pid
    BY <1>b DEF Connection
  <1> HIDE DEF new
  <1>1. TypeOK'
    BY <1>a, <1>d DEF TypeOK, PC, AttachPC
  <1>2. Holder'
    BY <1>a DEF Holder, TypeOK, BecomePC
  <1>3. Folders'
    BY <1>a DEF Folders, TypeOK, Joined, HasFolder
  <1>4. Servers'
    <2>1. \A c \in conns' : HasFolder(c.srv) /\ pc[c.srv] \in {"serving", "dead"} /\ c.srv \in Launcher
      BY <1>a, <1>b, <1>c, <1>d DEF Servers, TypeOK, Connection
    <2> QED BY <2>1, <1>a DEF Servers, TypeOK, HasFolder
  <1>5. Published'
    BY <1>a DEF Published, TypeOK
  <1>6. Trusted'
    BY <1>a DEF Trusted, TypeOK, Members, Accounted
  <1> QED BY <1>1, <1>2, <1>3, <1>4, <1>5, <1>6

(* A set of connections that leads to the same brokers, and still has every *)
(* registration whose answer a broker that serves has to write.             *)
KeepsAdded(new) ==
    /\ \A c \in new : c \in Connection /\ \E d \in conns : c.srv = d.srv
    /\ \A c \in conns : pc[c.srv] = "serving" /\ c.st = "added" =>
          \E d \in new : d.cli = c.cli /\ d.srv = c.srv /\ d.st = "added"

(* The client's side of a call of Attach that has failed. *)
LEMMA CallFails ==
    ASSUME IInv, NEW l \in Launcher, pc[l] \in AttachPC, AttachFailed(l),
           KeepsAdded(conns'), timeouts' \in 0 .. MaxTimeouts,
           UNCHANGED <<objects, handles, session, exitWatch, failures>>
    PROVE  IInv'
  <1> USE DEF IInv, WritingPC, BrokerPC, objects, handles, faults, role
  <1>a. PICK p \in {"attach", "wait", "dead"} : pc' = [pc EXCEPT ![l] = p]
    BY DEF AttachFailed, Goto, Enter
  <1>b. tries' \in [Launcher -> 0 .. Retries - 1]
    BY ConstantsAssumption DEF AttachFailed, Enter, TypeOK
  <1>c. pc[l] \notin WritingPC \cup {"dead"}
    BY DEF AttachPC, BecomePC
  <1>1. TypeOK'
    BY <1>a, <1>b DEF TypeOK, PC, AttachPC, KeepsAdded
  <1>2. Holder'
    BY <1>a DEF Holder, TypeOK, BecomePC
  <1>3. Folders'
    BY <1>a DEF Folders, TypeOK, Joined, HasFolder
  <1>4. Servers'
    BY <1>a, <1>c DEF Servers, TypeOK, Connection, HasFolder, KeepsAdded
  <1>5. Published'
    BY <1>a DEF Published, TypeOK
  <1>6. Trusted'
    <2> SUFFICES ASSUME NEW b \in Launcher, pc'[b] \in BrokerPC, NEW m \in Members(b)'
                 PROVE  Accounted(b, m)'
      BY DEF Trusted
    <2>1. pc[b] \in BrokerPC /\ m \in Members(b)
      BY <1>a DEF TypeOK, Members
    <2>2. Accounted(b, m)
      BY <2>1 DEF Trusted
    <2>3. CASE \E c \in conns : c.cli = m /\ c.srv = b /\ c.st = "added"
      BY <2>1, <2>3 DEF Accounted, KeepsAdded, Servers
    <2> QED BY <2>2, <2>3 DEF Accounted
  <1> QED BY <1>1, <1>2, <1>3, <1>4, <1>5, <1>6

(* No broker to connect to: only the retry counter moves. *)
LEMMA ConnectFailsInv ==
    ASSUME IInv, NEW l \in Launcher, ConnectFails(l)
    PROVE  IInv'
  <1>1. KeepsAdded(conns')
    BY DEF ConnectFails, KeepsAdded, IInv, TypeOK
  <1>2. timeouts' \in 0 .. MaxTimeouts
    BY DEF ConnectFails, faults, IInv, TypeOK
  <1> QED BY <1>1, <1>2, CallFails DEF ConnectFails, AttachPC, faults

(* What a refused client drops leads to a broker that is dead. *)
LEMMA AttachRefusedInv ==
    ASSUME IInv, NEW l \in Launcher, AttachRefused(l)
    PROVE  IInv'
  <1>1. KeepsAdded(conns')
    BY DEF AttachRefused, Alive, KeepsAdded, IInv, TypeOK
  <1>2. timeouts' \in 0 .. MaxTimeouts
    BY DEF AttachRefused, faults, IInv, TypeOK
  <1> QED BY <1>1, <1>2, CallFails DEF AttachRefused, AttachPC, faults

(* A timed-out client closes its end; a registration in progress remains. *)
LEMMA AttachTimesOutInv ==
    ASSUME IInv, NEW l \in Launcher, AttachTimesOut(l)
    PROVE  IInv'
  <1>1. KeepsAdded(conns')
    <2>1. PICK c \in conns :
             conns' = (conns \ {c}) \cup
                         (IF c.st = "replied" THEN {} ELSE {[c EXCEPT !.open = FALSE]})
      BY DEF AttachTimesOut
    <2> DEFINE closed == [c EXCEPT !.open = FALSE]
    <2>2. /\ closed \in Connection
          /\ closed.cli = c.cli /\ closed.srv = c.srv /\ closed.st = c.st
      BY DEF IInv, TypeOK, Connection
    <2>3. c.st = "replied" => conns' = conns \ {c}
      BY <2>1
    <2>4. c.st # "replied" => conns' = (conns \ {c}) \cup {closed}
      BY <2>1
    <2> HIDE DEF closed
    <2> QED BY <2>2, <2>3, <2>4 DEF KeepsAdded, IInv, TypeOK
  <1>2. timeouts' \in 0 .. MaxTimeouts
    BY ConstantsAssumption DEF AttachTimesOut, IInv, TypeOK
  <1> QED BY <1>1, <1>2, CallFails DEF AttachTimesOut, AttachPC

(* The answer is read: the client takes over the broker's folder. *)
LEMMA AttachedInv ==
    ASSUME IInv, NEW l \in Launcher, Attached(l)
    PROVE  IInv'
  <1> USE DEF IInv, WritingPC, BrokerPC, objects, handles, faults, role
  <1>a. PICK c \in conns :
           /\ c.st = "replied"
           /\ watched' = [watched EXCEPT ![l] = c.srv]
           /\ IF Joined(l) THEN reattach_as_client(l, c.srv) ELSE run_as_client(l, c.srv)
           /\ conns' = conns \ {c}
    BY DEF Attached
  <1>b. /\ pc[l] = "sent" /\ pc' = [pc EXCEPT ![l] = "wait"]
        /\ tries' = [tries EXCEPT ![l] = 0]
        /\ UNCHANGED <<lock, json, section, exitWatch, timeouts, failures>>
    BY DEF Attached, Enter, Goto
  <1>c. c \in Connection /\ c.srv \in Launcher /\ HasFolder(c.srv) /\ c.srv # l
    BY <1>b DEF TypeOK, Connection, Servers
  <1>d. folder' = [folder EXCEPT ![l] = folder[c.srv]]
    BY <1>a DEF reattach_as_client, run_as_client
  <1>e. PICK n \in Launcher : named' = [named EXCEPT ![l] = n]
    <2>1. CASE Joined(l)
      <3>1. named' = [named EXCEPT ![l] = named[l]] /\ named[l] \in Launcher
        BY <2>1, <1>a DEF reattach_as_client, TypeOK, Folders, HasFolder
      <3> QED BY <3>1
    <2>2. CASE ~Joined(l)
      BY <2>2, <1>a, <1>c DEF run_as_client, HasFolder
    <2> QED BY <2>1, <2>2
  <1>f. /\ home' \in [Launcher -> Launcher \cup {None}]
        /\ jobOpen' \in [Launcher -> BOOLEAN]
        /\ session' \in [Launcher -> {"none", "launch", "running"}]
    BY <1>a, <1>c DEF reattach_as_client, run_as_client, TypeOK, HasFolder
  <1>1. TypeOK'
    <2>1. /\ watched' \in [Launcher -> Launcher \cup {None}]
          /\ folder' \in [Launcher -> Launcher \cup {None}]
          /\ named' \in [Launcher -> Launcher \cup {None}]
      BY <1>a, <1>c, <1>d, <1>e DEF TypeOK, HasFolder
    <2>2. /\ pc' \in [Launcher -> PC]
          /\ tries' \in [Launcher -> 0 .. Retries - 1]
          /\ conns' \subseteq Connection
      BY <1>a, <1>b, ConstantsAssumption DEF TypeOK, PC
    <2> QED BY <2>1, <2>2, <1>b, <1>f DEF TypeOK
  <1>2. Holder'
    BY <1>b DEF Holder, TypeOK, BecomePC
  <1>3. Folders'
    BY <1>a, <1>b, <1>c, <1>d, <1>e DEF Folders, TypeOK, Joined, HasFolder
  <1>4. Servers'
    <2>1. \A d \in conns' : d \in conns /\ d.srv \in Launcher /\ d.srv # l
      BY <1>a, <1>b DEF Servers, TypeOK, Connection
    <2> QED BY <2>1, <1>b, <1>d, <1>e DEF Servers, TypeOK, HasFolder
  <1>5. Published'
    BY <1>b, <1>d, <1>e DEF Published, TypeOK
  <1>6. Trusted'
    <2> SUFFICES ASSUME NEW b \in Launcher, pc'[b] \in BrokerPC, NEW m \in Members(b)'
                 PROVE  Accounted(b, m)'
      BY DEF Trusted
    <2>1. b # l /\ pc[b] \in BrokerPC /\ m \in Members(b)
      BY <1>b, <1>d DEF TypeOK, Members
    <2>2. Accounted(b, m)
      BY <2>1 DEF Trusted
    <2> QED BY <2>2, <1>a, <1>b DEF Accounted
  <1> QED BY <1>1, <1>2, <1>3, <1>4, <1>5, <1>6

(* A broker's thread changes whom it trusts, and accounts for everyone it   *)
(* trusts afterwards.  No other launcher is a broker at that moment.        *)
LEMMA BrokerThread ==
    ASSUME IInv, NEW b \in Launcher, Serving(b),
           NEW S \in SUBSET Launcher,
           section' = [section EXCEPT ![folder[b]].members = S],
           \A m \in S : Accounted(b, m)',
           \A c \in conns' : c \in Connection /\ \E d \in conns : c.srv = d.srv,
           exitWatch' \in [Launcher -> SUBSET Launcher],
           UNCHANGED <<role, lock, json, handles, session, faults>>
    PROVE  IInv'
  <1> USE DEF IInv, WritingPC, BrokerPC, objects, handles, faults, role
  <1> DEFINE new == [section[folder[b]] EXCEPT !.members = S]
  <1>a. pc[b] = "serving" /\ lock = b /\ HasFolder(b) /\ section[folder[b]].broker = b
    BY DEF Serving, Holder, Folders, Published
  <1>b. new \in Contents /\ new.broker = b /\ new.members = S
    BY <1>a DEF HasFolder, Contents
  <1>c. folder[b] \in Launcher /\ section' = [section EXCEPT ![folder[b]] = new]
    BY <1>a DEF HasFolder
  <1> HIDE DEF new
  <1>d. \A m \in Launcher : pc[m] \in WritingPC => m = b
    BY <1>a DEF Holder
  <1>1. TypeOK'
    <2>1. section' \in [Launcher -> Contents \cup {None}]
      BY <1>b, <1>c DEF TypeOK
    <2> QED BY <2>1 DEF TypeOK
  <1>2. Holder'
    BY DEF Holder
  <1>3. Folders'
    BY <1>b, <1>c DEF Folders, TypeOK, Joined, HasFolder
  <1>4. Servers'
    BY <1>b, <1>c DEF Servers, TypeOK, HasFolder
  <1>5. Published'
    BY <1>b, <1>c, <1>d DEF Published, TypeOK, BecomePC
  <1>6. Trusted'
    <2> SUFFICES ASSUME NEW a \in Launcher, pc'[a] \in BrokerPC
                 PROVE  (\A m \in Members(a) : Accounted(a, m))'
      BY DEF Trusted
    <2>1. a = b
      BY <1>d DEF BecomePC
    <2>2. Members(b)' = S
      BY <1>b, <1>c DEF Members, TypeOK
    <2> QED BY <2>1, <2>2
  <1> QED BY <1>1, <1>2, <1>3, <1>4, <1>5, <1>6

(* A connection c whose handler goes from one state to the next. *)
LEMMA Advanced ==
    ASSUME NEW c \in Connection, NEW st \in {"sent", "added", "replied"}
    PROVE  LET d == [c EXCEPT !.st = st]
           IN  d \in Connection /\ d.cli = c.cli /\ d.srv = c.srv /\ d.st = st
  BY DEF Connection

(* The handler registers the client, and from then on answers for it. *)
LEMMA AttachAddsInv ==
    ASSUME IInv, NEW c \in conns, AttachAdds(c)
    PROVE  IInv'
  <1> USE DEF IInv
  <1> DEFINE b == c.srv
             d == [c EXCEPT !.st = "added"]
  <1>a. /\ c \in Connection /\ c.srv \in Launcher /\ c.cli \in Launcher
        /\ Serving(c.srv) /\ c.st = "sent"
        /\ UNCHANGED <<role, lock, json, handles, session, exitWatch, faults>>
    BY DEF AttachAdds, TypeOK, Connection
  <1>b. d \in Connection /\ d.cli = c.cli /\ d.srv = c.srv /\ d.st = "added"
    BY <1>a, Advanced
  <1>c. /\ Members(b) \in SUBSET Launcher
        /\ section[folder[b]] \in Contents
        /\ \A m \in Members(b) : Accounted(b, m)
        /\ folder[b] \in Launcher
    BY <1>a DEF Serving, Trusted, Folders, HasFolder, Members, Contents, BrokerPC
  <1> HIDE DEF d, b
  <1>1. CASE Alive(c.cli) /\ Addable(c.srv, c.cli)
    <2>1. /\ section' = [section EXCEPT ![folder[b]].members = Members(b) \cup {c.cli}]
          /\ conns' = (conns \ {c}) \cup {d}
      BY <1>1 DEF AttachAdds, SetMembers, b, d
    <2>2. \A m \in Members(b) \cup {c.cli} : Accounted(b, m)'
      BY <2>1, <1>a, <1>b, <1>c DEF Accounted, b
    <2>3. \A e \in conns' : e \in Connection /\ \E f \in conns : e.srv = f.srv
      BY <2>1, <1>b DEF TypeOK
    <2>4. exitWatch' \in [Launcher -> SUBSET Launcher]
      BY <1>a DEF TypeOK
    <2>5. Members(b) \cup {c.cli} \in SUBSET Launcher
      BY <1>a, <1>c
    <2> QED BY <2>1, <2>2, <2>3, <2>4, <2>5, <1>a, BrokerThread DEF b
  <1>2. CASE ~(Alive(c.cli) /\ Addable(c.srv, c.cli))
    <2>1. section' = section /\ conns' = conns \ {c}
      BY <1>2 DEF AttachAdds
    <2>2. section' = [section EXCEPT ![folder[b]].members = Members(b)]
      BY <2>1, <1>c DEF Members, TypeOK, Contents
    <2>3. \A m \in Members(b) : Accounted(b, m)'
      BY <2>1, <1>a, <1>c DEF Accounted
    <2>4. \A e \in conns' : e \in Connection /\ \E f \in conns : e.srv = f.srv
      BY <2>1 DEF TypeOK
    <2>5. exitWatch' \in [Launcher -> SUBSET Launcher]
      BY <1>a DEF TypeOK
    <2> QED BY <2>2, <2>3, <2>4, <2>5, <1>a, <1>c, BrokerThread DEF b
  <1> QED BY <1>1, <1>2

(* The handler hands the client over to the exit watch, or takes it out. *)
LEMMA AttachRepliesInv ==
    ASSUME IInv, NEW c \in conns, AttachReplies(c)
    PROVE  IInv'
  <1> USE DEF IInv
  <1> DEFINE b == c.srv
             d == [c EXCEPT !.st = "replied"]
  <1>a. /\ c \in Connection /\ c.srv \in Launcher /\ c.cli \in Launcher
        /\ Serving(c.srv) /\ c.st = "added"
        /\ UNCHANGED <<role, lock, json, handles, session, faults>>
    BY DEF AttachReplies, TypeOK, Connection
  <1>b. d \in Connection /\ d.cli = c.cli /\ d.srv = c.srv /\ d.st = "replied"
    BY <1>a, Advanced
  <1>c. /\ Members(b) \in SUBSET Launcher
        /\ section[folder[b]] \in Contents
        /\ \A m \in Members(b) : Accounted(b, m)
        /\ folder[b] \in Launcher
    BY <1>a DEF Serving, Trusted, Folders, HasFolder, Members, Contents, BrokerPC
  <1> HIDE DEF d, b
  <1>1. CASE c.open
    <2>1. /\ section' = section
          /\ conns' = (conns \ {c}) \cup {d}
          /\ exitWatch' = [exitWatch EXCEPT ![b] = @ \cup {c.cli}]
      BY <1>1 DEF AttachReplies, b, d
    <2>2. section' = [section EXCEPT ![folder[b]].members = Members(b)]
      BY <2>1, <1>c DEF Members, TypeOK, Contents
    <2>3. /\ exitWatch' \in [Launcher -> SUBSET Launcher]
          /\ exitWatch'[b] = exitWatch[b] \cup {c.cli}
      BY <2>1, <1>a DEF TypeOK, b
    <2>4. \A m \in Members(b) : Accounted(b, m)'
      BY <2>1, <2>3, <1>c DEF Accounted
    <2>5. \A e \in conns' : e \in Connection /\ \E f \in conns : e.srv = f.srv
      BY <2>1, <1>b DEF TypeOK
    <2> QED BY <2>2, <2>3, <2>4, <2>5, <1>a, <1>c, BrokerThread DEF b
  <1>2. CASE ~c.open
    <2>1. /\ section' = [section EXCEPT ![folder[b]].members = Members(b) \ {c.cli}]
          /\ conns' = conns \ {c}
          /\ exitWatch' = exitWatch
      BY <1>2 DEF AttachReplies, SetMembers, b
    <2>2. \A m \in Members(b) \ {c.cli} : Accounted(b, m)'
      BY <2>1, <1>c DEF Accounted
    <2>3. \A e \in conns' : e \in Connection /\ \E f \in conns : e.srv = f.srv
      BY <2>1 DEF TypeOK
    <2>4. exitWatch' \in [Launcher -> SUBSET Launcher]
      BY <2>1 DEF TypeOK
    <2>5. Members(b) \ {c.cli} \in SUBSET Launcher
      BY <1>c
    <2> QED BY <2>1, <2>2, <2>3, <2>4, <2>5, <1>a, BrokerThread DEF b
  <1> QED BY <1>1, <1>2

(* The exit watch ends with the client it has removed. *)
LEMMA ExitWatchInv ==
    ASSUME IInv, NEW b \in Launcher, NEW l \in Launcher, spawn_launcher_exit_watch(b, l)
    PROVE  IInv'
  <1> USE DEF IInv
  <1>a. /\ Serving(b)
        /\ section' = [section EXCEPT ![folder[b]].members = Members(b) \ {l}]
        /\ exitWatch' = [exitWatch EXCEPT ![b] = @ \ {l}]
        /\ UNCHANGED <<role, lock, json, handles, session, conns, faults>>
    BY DEF spawn_launcher_exit_watch, SetMembers
  <1>b. /\ Members(b) \in SUBSET Launcher
        /\ \A m \in Members(b) : Accounted(b, m)
    BY <1>a DEF Serving, Trusted, Folders, HasFolder, Members, Contents, BrokerPC
  <1>c. /\ exitWatch' \in [Launcher -> SUBSET Launcher]
        /\ exitWatch'[b] = exitWatch[b] \ {l}
    BY <1>a DEF TypeOK
  <1>d. \A m \in Members(b) \ {l} : Accounted(b, m)'
    BY <1>a, <1>b, <1>c DEF Accounted
  <1>e. \A e \in conns' : e \in Connection /\ \E f \in conns : e.srv = f.srv
    BY <1>a DEF TypeOK
  <1>f. Members(b) \ {l} \in SUBSET Launcher
    BY <1>b
  <1> QED BY <1>a, <1>c, <1>d, <1>e, <1>f, BrokerThread

(* The guest's launch touches nothing but the session, or ends the process. *)
LEMMA RunTargetSessionInv ==
    ASSUME IInv, NEW l \in Launcher, run_target_session(l)
    PROVE  IInv'
  <1>1. CASE jobOpen[l]
    <2>1. /\ session' = [session EXCEPT ![l] = "running"]
          /\ UNCHANGED <<role, objects, handles, conns, exitWatch, faults>>
      BY <1>1 DEF run_target_session
    <2> QED BY <2>1
        DEF IInv, role, objects, handles, faults, TypeOK, Holder, Folders, Servers, Published,
            Trusted, Joined, HasFolder, Members, Accounted
  <1>2. CASE ~jobOpen[l]
    BY <1>2, ExitInv DEF run_target_session
  <1> QED BY <1>1, <1>2

(* A stuttering step changes nothing. *)
LEMMA StutterInv ==
    ASSUME IInv, UNCHANGED vars
    PROVE  IInv'
  BY DEF IInv, vars, TypeOK, Holder, Folders, Servers, Published, Trusted, Joined, HasFolder,
         Members, Accounted

(* Every step preserves the invariant. *)
LEMMA NextInv == IInv /\ [Next]_vars => IInv'
  <1> SUFFICES ASSUME IInv, [Next]_vars PROVE IInv'
    OBVIOUS
  <1>1. CASE UNCHANGED vars
    BY <1>1, StutterInv
  <1>2. CASE ReleaseLock
    BY <1>2, ReleaseLockInv
  <1>3. ASSUME NEW l \in Launcher, open_policy_or_decide_role(l) \/ try_open(l)
        PROVE  IInv'
    <2>1. CASE BecameBroker(l)
      BY <2>1, <1>3, BecameBrokerInv DEF open_policy_or_decide_role, try_open
    <2>2. CASE ~BecameBroker(l)
      BY <2>2, <1>3, LookAround DEF open_policy_or_decide_role, try_open
    <2> QED BY <2>1, <2>2
  <1>4. ASSUME NEW l \in Launcher, Step(l)
        PROVE  IInv'
    BY <1>3, <1>4, LookAround, ClientAttachInv, ConnectFailsInv, AttachRefusedInv, AttachedInv,
       SetupInv, RebuildInv, WriteBrokerJsonInv, PipeAcceptLoopInv
    DEF Step
  <1>5. ASSUME NEW l \in Launcher, NEW open \in BOOLEAN, Handle(l, open)
        PROVE  IInv'
    BY <1>5, AttachAddsInv, AttachRepliesInv DEF Handle
  <1>6. ASSUME NEW l \in Launcher, Notice(l)
        PROVE  IInv'
    BY <1>6, ExitWatchInv DEF Notice
  <1>7. ASSUME NEW l \in Launcher,
               \/ Start(l) \/ ProcessDies(l) \/ run_target_session(l)
               \/ AttachTimesOut(l) \/ BecomeFails(l)
        PROVE  IInv'
    BY <1>7, LookAround, ExitInv, RunTargetSessionInv, AttachTimesOutInv, BecomeFailsInv
    DEF ProcessDies
  <1> QED BY <1>1, <1>2, <1>4, <1>5, <1>6, <1>7 DEF Next

(* The inductive invariant holds in every reachable state. *)
LEMMA Invariance == Spec => []IInv
  BY InitInv, NextInv, PTL DEF Spec

-----------------------------------------------------------------------------
(* The model's variables keep their types: no retry loop runs past its      *)
(* budget (broker.rs resolve_client_role, client.rs attach_with_retries),   *)
(* and nobody uses folder handles it does not have.                         *)
THEOREM TypeCorrect == Spec => []TypeOK
  BY Invariance, PTL DEF IInv

(* A broker that serves has published itself in broker.json and in the      *)
(* section (broker.rs setup_broker_folder, failover.rs                      *)
(* become_new_broker_inner).                                                *)
THEOREM BrokerPublished == Spec => []BrokerIsPublished
  <1>1. IInv => BrokerIsPublished
    BY ConstantsAssumption
    DEF IInv, BrokerIsPublished, Published, Folders, HasFolder, Serving, BrokerPC
  <1> QED BY <1>1, Invariance, PTL

(* A dead launcher stays trusted only while an exit watch or the rollback   *)
(* of an Attach handler is going to remove it (broker.rs                    *)
(* try_complete_attach, spawn_launcher_exit_watch).                         *)
THEOREM DeadWatched == Spec => []DeadAreWatched
  <1>1. IInv => DeadAreWatched
    BY DEF IInv, DeadAreWatched, Trusted, Accounted, Serving, BrokerPC
  <1> QED BY <1>1, Invariance, PTL

(* The writes of the folder section are those of the process that has       *)
(* policy.redb open: the single-writer contract of FolderSectionView.       *)
THEOREM OneWriter == Spec => SingleWriter
  <1> DEFINE Write(f) == section'[f] # section[f] =>
                            lock # None /\ Alive(lock) /\ section'[f].broker = lock
  <1>1. ASSUME IInv, IInv', NEW b \in Launcher, pc[b] \in WritingPC, pc'[b] \in BrokerPC,
               \A f \in Launcher : f # folder'[b] => section'[f] = section[f],
               NEW f \in Launcher
        PROVE  Write(f)
    <2>1. lock = b /\ Alive(b) /\ b # None
      BY <1>1, ConstantsAssumption DEF IInv, Holder, Alive, WritingPC, BecomePC
    <2>2. section'[folder'[b]].broker = b
      BY <1>1 DEF IInv, Published
    <2> QED BY <1>1, <2>1, <2>2
  <1>2. ASSUME IInv, IInv', [Next]_vars
        PROVE  \A f \in Launcher : Write(f)
    <2>1. CASE section' = section
      BY <2>1
    <2>2. ASSUME NEW l \in Launcher, setup_broker_folder(l)
          PROVE  \A f \in Launcher : Write(f)
      <3>1. /\ pc[l] = "setup" /\ pc'[l] = "publish" /\ folder'[l] = l
            /\ \A f \in Launcher : f # l => section'[f] = section[f]
        BY <1>2, <2>2 DEF setup_broker_folder, Goto, IInv, TypeOK
      <3> QED BY <3>1, <1>1, <1>2 DEF WritingPC, BrokerPC
    <2>3. ASSUME NEW l \in Launcher, Rebuild(l)
          PROVE  \A f \in Launcher : Write(f)
      <3>1. /\ pc[l] = "rebuild" /\ pc'[l] = "publish" /\ folder'[l] = folder[l]
            /\ \A f \in Launcher : f # folder[l] => section'[f] = section[f]
        BY <1>2, <2>3 DEF Rebuild, Goto, IInv, TypeOK, handles
      <3> QED BY <3>1, <1>1, <1>2 DEF WritingPC, BrokerPC, BecomePC
    <2>4. ASSUME NEW b \in Launcher, Serving(b), UNCHANGED <<pc, folder>>,
                 NEW S, SetMembers(b, S)
          PROVE  \A f \in Launcher : Write(f)
      <3>1. /\ pc[b] = "serving" /\ pc'[b] = "serving" /\ folder'[b] = folder[b]
            /\ \A f \in Launcher : f # folder[b] => section'[f] = section[f]
        BY <1>2, <2>4 DEF SetMembers, Serving, IInv, TypeOK
      <3> QED BY <3>1, <1>1, <1>2 DEF WritingPC, BrokerPC
    <2>5. ASSUME NEW c \in conns, AttachAdds(c) \/ AttachReplies(c)
          PROVE  \A f \in Launcher : Write(f)
      <3>1. c.srv \in Launcher
        BY <1>2, <2>5 DEF IInv, TypeOK, Connection
      <3> QED BY <3>1, <2>1, <2>4, <2>5 DEF AttachAdds, AttachReplies, role, handles
    <2>6. ASSUME NEW b \in Launcher, NEW l \in Launcher, spawn_launcher_exit_watch(b, l)
          PROVE  \A f \in Launcher : Write(f)
      BY <2>4, <2>6 DEF spawn_launcher_exit_watch, role, handles
    <2>7. ASSUME NEW l \in Launcher, Step(l)
          PROVE  \A f \in Launcher : Write(f)
      BY <2>1, <2>2, <2>3, <2>7
      DEF Step, open_policy_or_decide_role, BecameBroker, try_open, resolve_client_role,
          client_attach, ConnectFails, AttachRefused, Attached, write_broker_json,
          pipe_accept_loop, watch_loop, objects
    <2>8. CASE ReleaseLock \/ UNCHANGED vars
      BY <2>1, <2>8 DEF ReleaseLock, vars
    <2>9. ASSUME NEW l \in Launcher,
                 \/ Start(l) \/ ProcessDies(l) \/ run_target_session(l)
                 \/ AttachTimesOut(l) \/ BecomeFails(l)
          PROVE  \A f \in Launcher : Write(f)
      BY <2>1, <2>9
      DEF Start, ProcessDies, run_target_session, exit, AttachTimesOut, BecomeFails, objects
    <2> QED BY <1>2, <2>5, <2>6, <2>7, <2>8, <2>9 DEF Next, Handle, Notice
  <1>3. IInv /\ IInv' /\ [Next]_vars =>
            [\A f \in Launcher : section'[f] # section[f] =>
                /\ lock # None
                /\ Alive(lock)
                /\ section'[f].broker = lock]_vars
    BY <1>2
  <1> QED BY <1>3, Invariance, PTL DEF Spec, SingleWriter

-----------------------------------------------------------------------------
(* Who is in the folder: its broker, from the section on, its clients that  *)
(* can still follow a broker, and a dead broker whose answer to an Attach   *)
(* may still be read.                                                      *)
InFolder(l) ==
    \/ pc[l] \in BrokerPC
    \/ Joined(l) /\ pc[l] \notin {"gone", "dead"}
    \/ \E c \in conns : c.open /\ c.srv = l

(* A launcher joins once, with a guest that has not started.               *)
JoinedOnce == \A l \in Launcher : Joined(l) => pc[l] \notin {"off", "open", "setup"}

(* Only brokers and clients run guests.                                    *)
HasGuest == \A l \in Launcher :
    session[l] # "none" => pc[l] # "dead" /\ (Joined(l) \/ pc[l] = "serving")

(* All of them use one job and one section ...                             *)
OneFolder == \A a, b \in Launcher :
    InFolder(a) /\ InFolder(b) =>
        folder[a] = folder[b] /\ home[a] = folder[a] /\ named[a] = folder[a]

(* ... since a launcher makes new ones only when nobody is left.           *)
SetupAlone == \A l \in Launcher :
    pc[l] = "setup" => \A a \in Launcher : ~InFolder(a)

FolderInv == JoinedOnce /\ HasGuest /\ OneFolder /\ SetupAlone

(* A launcher that nothing new happens to stays in the folder or leaves it. *)
LEMMA NobodyEnters ==
    ASSUME OneFolder, SetupAlone, UNCHANGED <<folder, home, named>>,
           \A a \in Launcher : InFolder(a)' => InFolder(a),
           \A l \in Launcher : pc'[l] = "setup" => pc[l] = "setup"
    PROVE  OneFolder' /\ SetupAlone'
  BY DEF OneFolder, SetupAlone

(* Steps of one launcher that leave who has joined, the handles and the open *)
(* connections' brokers alone, and give no new role.                       *)
LEMMA RoleMoves ==
    ASSUME IInv, FolderInv, NEW l \in Launcher, NEW p \in PC,
           pc' = [pc EXCEPT ![l] = p],
           UNCHANGED <<folder, home, named, watched>>,
           \A c \in conns' : c.open => \E d \in conns : d.open /\ d.srv = c.srv,
           p # "setup", p \in BrokerPC => pc[l] \in BrokerPC \/ Joined(l),
           pc[l] # "dead", pc[l] = "gone" => p = "dead",
           \/ p \notin {"off", "open"}
           \/ p = "open" /\ ~Joined(l),
           \/ session' = [session EXCEPT ![l] = "none"]
           \/ /\ session' = session
              /\ p # "dead" \/ session[l] = "none"
              /\ pc[l] = "serving" => p = "serving"
           \/ /\ session' = [session EXCEPT ![l] = "launch"]
              /\ p = "serving"
    PROVE  FolderInv'
  <1> USE DEF FolderInv
  <1>0. /\ pc \in [Launcher -> PC]
        /\ session \in [Launcher -> {"none", "launch", "running"}]
    BY DEF IInv, TypeOK
  <1>1. \A a \in Launcher : pc'[a] = IF a = l THEN p ELSE pc[a]
    BY <1>0
  <1>2. \A a \in Launcher : Joined(a)' <=> Joined(a)
    BY DEF Joined
  <1>3. \A a \in Launcher : InFolder(a)' => InFolder(a)
    <2> SUFFICES ASSUME NEW a \in Launcher, InFolder(a)' PROVE InFolder(a)
      OBVIOUS
    <2>1. CASE \E c \in conns' : c.open /\ c.srv = a
      BY <2>1 DEF InFolder
    <2>2. CASE pc'[a] \in BrokerPC \/ (Joined(a)' /\ pc'[a] \notin {"gone", "dead"})
      <3>1. CASE a # l
        BY <1>1, <1>2, <2>2, <3>1 DEF InFolder
      <3>2. CASE a = l /\ Joined(l)
        <4>1. CASE pc[l] # "gone"
          BY <3>2, <4>1 DEF InFolder
        <4>2. CASE pc[l] = "gone"
          BY <1>1, <2>2, <3>2, <4>2 DEF BrokerPC
        <4> QED BY <4>1, <4>2
      <3>3. CASE a = l /\ ~Joined(l)
        BY <1>1, <1>2, <2>2, <3>3 DEF InFolder
      <3> QED BY <3>1, <3>2, <3>3
    <2> QED BY <2>1, <2>2 DEF InFolder
  <1>4. OneFolder' /\ SetupAlone'
    BY <1>1, <1>3, NobodyEnters
  <1>5. JoinedOnce'
    BY <1>1, <1>2 DEF JoinedOnce
  <1>6. HasGuest'
    <2> SUFFICES ASSUME NEW a \in Launcher, session'[a] # "none"
                 PROVE  pc'[a] # "dead" /\ (Joined(a)' \/ pc'[a] = "serving")
      BY DEF HasGuest
    <2>1. CASE a # l
      BY <1>0, <1>1, <1>2, <2>1 DEF HasGuest
    <2>2. CASE a = l
      BY <1>0, <1>1, <1>2, <2>2 DEF HasGuest
    <2> QED BY <2>1, <2>2
  <1> QED BY <1>4, <1>5, <1>6

(* Taking the database leads a watcher to the old folder; a launcher that is *)
(* starting finds nobody in a folder, since it would have waited for them.  *)
LEMMA BecameBrokerFolder ==
    ASSUME IInv, FolderInv, FreshYields, NEW l \in Launcher,
           pc[l] \in {"open", "race_open"}, BecameBroker(l)
    PROVE  FolderInv'
  <1> USE DEF FolderInv
  <1>0. /\ pc \in [Launcher -> PC] /\ conns \subseteq Connection
        /\ lock = None
        /\ UNCHANGED <<folder, home, named, watched, session, conns>>
        /\ pc' = [pc EXCEPT ![l] = IF Joined(l) THEN "rebuild" ELSE "setup"]
        /\ Joined(l) \/ ~\E m \in Launcher : Surviving(m)
    BY DEF IInv, TypeOK, BecameBroker, MayOpen, Enter, Goto, handles
  <1>1. CASE Joined(l)
    <2>1. pc' = [pc EXCEPT ![l] = "rebuild"] /\ "rebuild" \in PC
      BY <1>0, <1>1 DEF PC, BecomePC
    <2>2. session[l] = "none" \/ pc[l] # "serving"
      OBVIOUS
    <2> QED BY <1>0, <1>1, <2>1, RoleMoves DEF BrokerPC
  <1>2. CASE ~Joined(l)
    <2>1. ~\E m \in Launcher : Surviving(m)
      BY <1>0, <1>2
    <2>2. ASSUME NEW a \in Launcher, InFolder(a) PROVE FALSE
      <3>1. pc[a] \notin WritingPC
        BY <1>0, ConstantsAssumption DEF IInv, Holder
      <3>2. CASE Joined(a) /\ pc[a] \notin {"gone", "dead"}
        <4>1. pc[a] \in {"wait"} \cup RacePC \cup AttachPC
          BY <1>0, <3>1, <3>2 DEF JoinedOnce, PC, WritingPC
        <4> QED BY <2>1, <3>2, <4>1 DEF Surviving, Watching
      <3>3. CASE \E c \in conns : c.open /\ c.srv = a
        <4>1. PICK c \in conns : c.open
          BY <3>3
        <4>2. c.cli \in Launcher
          BY <1>0 DEF Connection
        <4> QED BY <2>1, <4>1, <4>2 DEF Surviving
      <3> QED BY <2>2, <3>1, <3>2, <3>3 DEF InFolder, WritingPC, BrokerPC, BecomePC
    <2>3. \A a \in Launcher : pc'[a] = IF a = l THEN "setup" ELSE pc[a]
      BY <1>0, <1>2
    <2>4. \A a \in Launcher : ~InFolder(a)'
      BY <1>0, <1>2, <2>2, <2>3 DEF InFolder, Joined, BrokerPC
    <2>5. OneFolder' /\ SetupAlone'
      BY <2>4 DEF OneFolder, SetupAlone
    <2>6. JoinedOnce'
      BY <1>0, <1>2, <2>3 DEF JoinedOnce, Joined
    <2>7. HasGuest'
      <3>1. session[l] = "none"
        BY <1>2 DEF HasGuest
      <3> QED BY <1>0, <2>3, <3>1 DEF HasGuest, Joined
    <2> QED BY <2>5, <2>6, <2>7
  <1> QED BY <1>1, <1>2

(* A new folder is made by a launcher that is alone.                       *)
LEMMA SetupFolder ==
    ASSUME IInv, FolderInv, NEW l \in Launcher, setup_broker_folder(l)
    PROVE  FolderInv'
  <1> USE DEF FolderInv
  <1>0. /\ pc \in [Launcher -> PC] /\ folder \in [Launcher -> Launcher \cup {None}]
        /\ named \in [Launcher -> Launcher \cup {None}]
        /\ home \in [Launcher -> Launcher \cup {None}]
        /\ pc[l] = "setup" /\ pc' = [pc EXCEPT ![l] = "publish"]
        /\ folder' = [folder EXCEPT ![l] = l]
        /\ named' = [named EXCEPT ![l] = l]
        /\ home' = [home EXCEPT ![l] = l]
        /\ UNCHANGED <<watched, session, conns>>
    BY DEF IInv, TypeOK, setup_broker_folder, Goto
  <1>1. \A a \in Launcher : pc'[a] = IF a = l THEN "publish" ELSE pc[a]
    BY <1>0
  <1>2. \A a \in Launcher : ~InFolder(a)
    BY <1>0 DEF SetupAlone
  <1>3. \A a \in Launcher : InFolder(a)' => a = l
    BY <1>0, <1>1, <1>2 DEF InFolder, Joined
  <1>4. folder'[l] = l /\ named'[l] = l /\ home'[l] = l
    BY <1>0
  <1>5. OneFolder'
    BY <1>3, <1>4 DEF OneFolder
  <1>6. \A a \in Launcher : pc'[a] # "setup"
    BY <1>0, <1>1 DEF IInv, Holder, WritingPC
  <1>7. SetupAlone'
    BY <1>6 DEF SetupAlone
  <1>8. JoinedOnce'
    BY <1>0, <1>1 DEF JoinedOnce, Joined
  <1>9. HasGuest'
    BY <1>0, <1>1 DEF HasGuest, Joined
  <1> QED BY <1>5, <1>7, <1>8, <1>9

(* A client connects to the broker that broker.json names, which serves.    *)
LEMMA ClientAttachFolder ==
    ASSUME IInv, FolderInv, NEW l \in Launcher, client_attach(l)
    PROVE  FolderInv'
  <1> USE DEF FolderInv
  <1> DEFINE b == json.pid
             c == [cli |-> l, srv |-> b, st |-> "sent", open |-> TRUE]
  <1>0. /\ pc \in [Launcher -> PC]
        /\ pc[l] = "attach" /\ pc' = [pc EXCEPT ![l] = "sent"]
        /\ pc[b] = "serving" /\ b \in Launcher
        /\ conns' = conns \cup {c}
        /\ UNCHANGED <<folder, named, home, watched, session>>
    BY DEF IInv, TypeOK, client_attach, NamedServes, Serving, Goto, handles
  <1>1. \A a \in Launcher : pc'[a] = IF a = l THEN "sent" ELSE pc[a]
    BY <1>0
  <1>2. c.srv = b
    OBVIOUS
  <1> HIDE DEF b, c
  <1>3. ASSUME NEW a \in Launcher, InFolder(a)' PROVE InFolder(a)
    BY <1>0, <1>1, <1>2, <1>3 DEF InFolder, Joined, BrokerPC
  <1>4. OneFolder' /\ SetupAlone'
    BY <1>0, <1>1, <1>3, NobodyEnters
  <1>5. JoinedOnce'
    BY <1>0, <1>1 DEF JoinedOnce, Joined
  <1>6. HasGuest'
    BY <1>0, <1>1 DEF HasGuest, Joined
  <1> QED BY <1>4, <1>5, <1>6

(* An answer leads to the folder of the broker that gave it; a launcher that *)
(* has joined before is in that folder already.                            *)
LEMMA AttachedFolder ==
    ASSUME IInv, FolderInv, NEW l \in Launcher, Attached(l)
    PROVE  FolderInv'
  <1> USE DEF FolderInv
  <1>1. PICK c \in conns :
          /\ c.cli = l /\ c.open /\ c.st = "replied"
          /\ watched' = [watched EXCEPT ![l] = c.srv]
          /\ IF Joined(l) THEN reattach_as_client(l, c.srv) ELSE run_as_client(l, c.srv)
          /\ conns' = conns \ {c}
    BY DEF Attached
  <1> DEFINE b == c.srv
  <1>0. /\ pc \in [Launcher -> PC] /\ conns \subseteq Connection
        /\ folder \in [Launcher -> Launcher \cup {None}]
        /\ named \in [Launcher -> Launcher \cup {None}]
        /\ home \in [Launcher -> Launcher \cup {None}]
        /\ watched \in [Launcher -> Launcher \cup {None}]
        /\ session \in [Launcher -> {"none", "launch", "running"}]
        /\ pc[l] = "sent" /\ pc' = [pc EXCEPT ![l] = "wait"]
    BY DEF IInv, TypeOK, Attached, Enter, Goto
  <1>2. b \in Launcher /\ InFolder(b) /\ pc[b] \in {"serving", "dead"} /\ b # None
    BY <1>0, <1>1, ConstantsAssumption DEF InFolder, Connection, IInv, Servers
  <1>3. /\ watched' = [watched EXCEPT ![l] = b]
        /\ \A a \in Launcher : /\ pc'[a] = IF a = l THEN "wait" ELSE pc[a]
                               /\ watched'[a] = IF a = l THEN b ELSE watched[a]
    BY <1>0, <1>1
  <1>4. /\ folder' = [folder EXCEPT ![l] = folder[b]]
        /\ \/ ~Joined(l) /\ home' = [home EXCEPT ![l] = folder[b]]
                         /\ named' = [named EXCEPT ![l] = named[b]]
                         /\ session' = [session EXCEPT ![l] = "launch"]
           \/ Joined(l) /\ UNCHANGED <<home, named, session>>
    BY <1>1 DEF run_as_client, reattach_as_client
  <1>5. \A a \in Launcher : InFolder(a)' => InFolder(a) \/ a = l
    <2>1. \A d \in conns' : d \in conns
      BY <1>1
    <2> QED BY <1>3, <2>1 DEF InFolder, Joined
  <1>6. named[b] = folder[b] /\ home[b] = folder[b]
    BY <1>2 DEF OneFolder
  <1>7. Joined(l) => InFolder(l)
    BY <1>0 DEF InFolder
  <1>8. folder'[l] = folder[b] /\ home'[l] = folder[b] /\ named'[l] = folder[b]
    <2>1. CASE Joined(l)
      <3>1. folder[l] = folder[b] /\ home[l] = folder[l] /\ named[l] = folder[l]
        BY <1>2, <1>7, <2>1 DEF OneFolder
      <3> QED BY <1>0, <1>4, <2>1, <3>1
    <2>2. CASE ~Joined(l)
      BY <1>0, <1>4, <1>6, <2>2
    <2> QED BY <2>1, <2>2
  <1>9. \A a \in Launcher : a # l =>
            folder'[a] = folder[a] /\ home'[a] = home[a] /\ named'[a] = named[a]
    BY <1>0, <1>4
  <1> HIDE DEF b
  <1>10. ASSUME NEW a \in Launcher, InFolder(a)'
         PROVE  folder'[a] = folder[b] /\ home'[a] = folder[b] /\ named'[a] = folder[b]
    <2>1. CASE a = l
      BY <1>8, <2>1
    <2>2. CASE a # l
      <3>1. InFolder(a)
        BY <1>5, <1>10, <2>2
      <3>2. folder[a] = folder[b] /\ home[a] = folder[a] /\ named[a] = folder[a]
        BY <1>2, <3>1 DEF OneFolder
      <3> QED BY <1>9, <2>2, <3>2
    <2> QED BY <2>1, <2>2
  <1>11. OneFolder'
    BY <1>10 DEF OneFolder
  <1>12. \A a \in Launcher : pc'[a] # "setup"
    BY <1>2, <1>3 DEF SetupAlone
  <1>13. SetupAlone'
    BY <1>12 DEF SetupAlone
  <1>14. JoinedOnce'
    BY <1>3 DEF JoinedOnce, Joined
  <1>15. HasGuest'
    <2> SUFFICES ASSUME NEW a \in Launcher, session'[a] # "none"
                 PROVE  pc'[a] # "dead" /\ (Joined(a)' \/ pc'[a] = "serving")
      BY DEF HasGuest
    <2>1. CASE a = l
      BY <1>2, <1>3, <2>1 DEF Joined
    <2>2. CASE a # l
      <3>1. session'[a] = session[a]
        BY <1>0, <1>4, <2>2
      <3> QED BY <1>3, <2>2, <3>1 DEF HasGuest, Joined
    <2> QED BY <2>1, <2>2
  <1> QED BY <1>11, <1>13, <1>14, <1>15

(* The steps of a role thread that only look, wait or fail.                *)
LEMMA LookAroundFolder ==
    ASSUME IInv, FolderInv, NEW l \in Launcher,
           \/ Start(l)
           \/ pc[l] = "open" /\ lock # None /\ Enter(l, "race_open")
              /\ UNCHANGED <<objects, handles, session, conns, exitWatch, faults>>
           \/ pc[l] = "race_open" /\ lock # None /\ Goto(l, "race_read")
              /\ UNCHANGED <<tries, objects, handles, session, conns, exitWatch, faults>>
           \/ resolve_client_role(l)
           \/ watch_loop(l)
    PROVE  FolderInv'
  <1>1. UNCHANGED <<folder, home, named, watched, session, conns>>
    BY DEF Start, resolve_client_role, watch_loop, handles
  <1>2. CASE Start(l)
    <2>1. /\ pc[l] = "off" /\ pc' = [pc EXCEPT ![l] = "open"] /\ "open" \in PC
          /\ ~Joined(l)
      BY <1>2 DEF Start, Goto, PC, FolderInv, JoinedOnce
    <2> QED BY <1>1, <2>1, RoleMoves DEF BrokerPC
  <1>3. CASE ~Start(l)
    <2>1. PICK p \in {"race_open", "race_read", "attach"} :
             pc' = [pc EXCEPT ![l] = p] /\ pc[l] \in {"open", "race_open", "race_read", "wait"}
      BY <1>3 DEF resolve_client_role, watch_loop, Enter, Goto
    <2>2. p \in PC
      BY DEF PC, RacePC, AttachPC
    <2> QED BY <1>1, <2>1, <2>2, RoleMoves DEF BrokerPC
  <1> QED BY <1>2, <1>3

(* An attempt to attach fails; a launcher without a guest may end with it.  *)
LEMMA AttachFailsFolder ==
    ASSUME IInv, FolderInv, NEW l \in Launcher,
           ConnectFails(l) \/ AttachRefused(l) \/ AttachTimesOut(l)
    PROVE  FolderInv'
  <1>1. /\ UNCHANGED <<folder, home, named, watched, session>>
        /\ pc[l] \in {"attach", "sent"}
    BY DEF ConnectFails, AttachRefused, AttachTimesOut, handles
  <1>2. \A c \in conns' : c.open => \E d \in conns : d.open /\ d.srv = c.srv
    <2>1. CASE ConnectFails(l) \/ AttachRefused(l)
      BY <2>1 DEF ConnectFails, AttachRefused
    <2>2. CASE AttachTimesOut(l)
      <3>1. conns \subseteq Connection
        BY DEF IInv, TypeOK
      <3>2. PICK c \in conns : conns' = (conns \ {c}) \cup
                    (IF c.st = "replied" THEN {} ELSE {[c EXCEPT !.open = FALSE]})
        BY <2>2 DEF AttachTimesOut
      <3>3. [c EXCEPT !.open = FALSE].open = FALSE
        BY <3>1 DEF Connection
      <3>4. \A d \in conns' : d.open => d \in conns
        BY <3>2, <3>3
      <3> QED BY <3>4
    <2> QED BY <2>1, <2>2
  <1>3. PICK p \in {"attach", "wait", "dead"} :
           pc' = [pc EXCEPT ![l] = p] /\ (p = "dead" => ~Joined(l))
    BY DEF ConnectFails, AttachRefused, AttachTimesOut, AttachFailed, Enter, Goto
  <1>4. p \in PC
    BY DEF PC, AttachPC
  <1>5. p = "dead" => session[l] = "none"
    BY <1>1, <1>3 DEF FolderInv, HasGuest
  <1> QED BY <1>1, <1>2, <1>3, <1>4, <1>5, RoleMoves DEF BrokerPC

(* The winner goes on to serve, or gives failover up.                      *)
LEMMA BecomesFolder ==
    ASSUME IInv, FolderInv, NEW l \in Launcher,
           Rebuild(l) \/ write_broker_json(l) \/ pipe_accept_loop(l) \/ BecomeFails(l)
    PROVE  FolderInv'
  <1>1. UNCHANGED <<folder, home, named, watched, conns>>
    BY DEF Rebuild, write_broker_json, pipe_accept_loop, BecomeFails, handles
  <1>2. CASE Rebuild(l) \/ write_broker_json(l) \/ BecomeFails(l)
    <2>1. PICK p \in {"publish", "listen", "gone"} :
             pc' = [pc EXCEPT ![l] = p] /\ pc[l] \in BecomePC
      BY <1>2 DEF Rebuild, write_broker_json, BecomeFails, Goto, BecomePC
    <2>2. p \in PC
      BY DEF PC, BecomePC
    <2>3. UNCHANGED session
      BY <1>2 DEF Rebuild, write_broker_json, BecomeFails
    <2>4. pc[l] \in BrokerPC \/ Joined(l)
      BY <2>1 DEF BecomePC, BrokerPC, IInv, Folders
    <2> QED BY <1>1, <2>1, <2>2, <2>3, <2>4, RoleMoves DEF BecomePC
  <1>3. CASE pipe_accept_loop(l)
    <2>1. /\ pc[l] = "listen" /\ pc' = [pc EXCEPT ![l] = "serving"] /\ "serving" \in PC
          /\ session' = [session EXCEPT ![l] = IF Joined(l) THEN @ ELSE "launch"]
      BY <1>3 DEF pipe_accept_loop, Goto, PC
    <2>2. session' = session \/ session' = [session EXCEPT ![l] = "launch"]
      BY <2>1 DEF IInv, TypeOK
    <2> QED BY <1>1, <2>1, <2>2, RoleMoves DEF BrokerPC
  <1> QED BY <1>2, <1>3

(* A process that ends takes nobody else out of the folder.                *)
LEMMA ExitFolder ==
    ASSUME IInv, FolderInv, NEW l \in Launcher, pc[l] # "dead", exit(l)
    PROVE  FolderInv'
  <1>1. /\ pc' = [pc EXCEPT ![l] = "dead"] /\ "dead" \in PC
        /\ session' = [session EXCEPT ![l] = "none"]
        /\ conns' = ConnsAfterExit(l)
        /\ UNCHANGED <<folder, home, named, watched>>
    BY DEF exit, handles, PC
  <1>2. conns \subseteq Connection
    BY DEF IInv, TypeOK
  <1>3. \A c \in conns' : c.open => c \in conns
    BY <1>1, <1>2 DEF ConnsAfterExit, Connection
  <1> QED BY <1>1, <1>3, RoleMoves DEF BrokerPC

(* The steps of handlers and exit watches, the release of the lock and the  *)
(* start of a guest move no role thread.                                   *)
LEMMA NobodyMoves ==
    ASSUME IInv, FolderInv, UNCHANGED <<pc, folder, home, named, watched>>,
           \A c \in conns' : c.open => \E d \in conns : d.open /\ d.srv = c.srv,
           \A l \in Launcher : session'[l] # "none" => session[l] # "none"
    PROVE  FolderInv'
  <1>1. \A a \in Launcher : InFolder(a)' => InFolder(a)
    BY DEF InFolder, Joined
  <1>2. OneFolder' /\ SetupAlone'
    BY <1>1, NobodyEnters DEF FolderInv
  <1>3. JoinedOnce' /\ HasGuest'
    BY DEF FolderInv, JoinedOnce, HasGuest, Joined
  <1> QED BY <1>2, <1>3 DEF FolderInv

(* The broker's handler keeps the connection's broker and its openness.     *)
LEMMA HandlerFolder ==
    ASSUME IInv, FolderInv, NEW c \in conns, AttachAdds(c) \/ AttachReplies(c)
    PROVE  FolderInv'
  <1>1. UNCHANGED <<pc, folder, home, named, watched, session>>
    BY DEF AttachAdds, AttachReplies, role, handles
  <1>2. conns \subseteq Connection
    BY DEF IInv, TypeOK
  <1>3. PICK st \in {"added", "replied"} :
           conns' = conns \ {c} \/ conns' = (conns \ {c}) \cup {[c EXCEPT !.st = st]}
    BY DEF AttachAdds, AttachReplies
  <1>4. [c EXCEPT !.st = st].open = c.open /\ [c EXCEPT !.st = st].srv = c.srv
    BY <1>2 DEF Connection
  <1>5. \A d \in conns' : d.open => \E e \in conns : e.open /\ e.srv = d.srv
    BY <1>3, <1>4
  <1> QED BY <1>1, <1>5, NobodyMoves

(* Every step preserves the invariant, if starting launchers yield.         *)
LEMMA FolderNext ==
    ASSUME FreshYields, IInv, FolderInv, [Next]_vars
    PROVE  FolderInv'
  <1>1. CASE UNCHANGED vars \/ ReleaseLock
    BY <1>1, NobodyMoves DEF vars, ReleaseLock, role, handles
  <1>2. ASSUME NEW l \in Launcher, open_policy_or_decide_role(l) \/ try_open(l)
        PROVE  FolderInv'
    <2>1. CASE BecameBroker(l)
      BY <2>1, <1>2, BecameBrokerFolder DEF open_policy_or_decide_role, try_open
    <2>2. CASE ~BecameBroker(l)
      BY <2>2, <1>2, LookAroundFolder DEF open_policy_or_decide_role, try_open
    <2> QED BY <2>1, <2>2
  <1>3. ASSUME NEW l \in Launcher, Step(l)
        PROVE  FolderInv'
    BY <1>2, <1>3, LookAroundFolder, ClientAttachFolder, AttachFailsFolder, AttachedFolder,
       SetupFolder, BecomesFolder
    DEF Step
  <1>4. ASSUME NEW l \in Launcher, NEW open \in BOOLEAN, Handle(l, open)
        PROVE  FolderInv'
    BY <1>4, HandlerFolder DEF Handle
  <1>5. ASSUME NEW l \in Launcher, Notice(l)
        PROVE  FolderInv'
    BY <1>5, NobodyMoves DEF Notice, spawn_launcher_exit_watch, role, handles
  <1>6. ASSUME NEW l \in Launcher, Start(l) \/ AttachTimesOut(l) \/ BecomeFails(l)
        PROVE  FolderInv'
    BY <1>6, LookAroundFolder, AttachFailsFolder, BecomesFolder
  <1>7. ASSUME NEW l \in Launcher, ProcessDies(l)
        PROVE  FolderInv'
    BY <1>7, ExitFolder DEF ProcessDies, Alive
  <1>8. ASSUME NEW l \in Launcher, run_target_session(l)
        PROVE  FolderInv'
    <2>1. session[l] = "launch" /\ pc[l] # "dead"
      BY <1>8 DEF run_target_session, FolderInv, HasGuest
    <2>2. CASE jobOpen[l]
      <3>1. session' = [session EXCEPT ![l] = "running"]
            /\ UNCHANGED <<role, objects, handles, conns, exitWatch, faults>>
        BY <1>8, <2>2 DEF run_target_session
      <3>2. \A a \in Launcher : session'[a] # "none" => session[a] # "none"
        BY <2>1, <3>1 DEF IInv, TypeOK
      <3> QED BY <3>1, <3>2, NobodyMoves DEF role, handles
    <2>3. CASE ~jobOpen[l]
      BY <1>8, <2>1, <2>3, ExitFolder DEF run_target_session
    <2> QED BY <2>2, <2>3
  <1> QED BY <1>1, <1>3, <1>4, <1>5, <1>6, <1>7, <1>8 DEF Next

(* Before anybody starts there is no folder.                               *)
LEMMA FolderInit == Init => FolderInv
  BY DEF Init, FolderInv, JoinedOnce, HasGuest, OneFolder, SetupAlone, InFolder, Joined, BrokerPC

(* Guests survive a failover with the job and the section they have, for    *)
(* any number of launchers, deaths, timeouts and failed take-overs: client.rs *)
(* run_as_client, failover.rs become_new_broker and reattach_as_client keep *)
(* all of them in one folder, provided that no starting launcher takes the  *)
(* database before them (the code leaves that to timing).                  *)
THEOREM GuestsKeepTheirBroker ==
    ASSUME FreshYields
    PROVE  Spec => []GuestsFollowTheBroker
  <1>1. IInv /\ FolderInv /\ [Next]_vars => FolderInv'
    BY FolderNext
  <1>2. IInv /\ FolderInv => GuestsFollowTheBroker
    <2> SUFFICES ASSUME IInv, FolderInv, NEW b \in Launcher, NEW l \in Launcher,
                        Serving(b), session[l] = "running", pc[l] # "gone"
                 PROVE  home[l] = folder[b] /\ named[l] = folder[b]
      BY DEF GuestsFollowTheBroker
    <2>1. InFolder(b)
      BY DEF InFolder, Serving, BrokerPC
    <2>2. InFolder(l)
      BY DEF InFolder, FolderInv, HasGuest, BrokerPC
    <2> QED BY <2>1, <2>2 DEF FolderInv, OneFolder
  <1> QED BY <1>1, <1>2, FolderInit, Invariance, PTL DEF Spec
=============================================================================
