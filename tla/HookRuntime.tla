----------------------------- MODULE HookRuntime ----------------------------
(***************************************************************************)
(* The life of hook.dll in one guest (winrsbox-hook/src/core/hooks/mod.rs, *)
(* lib.rs, core/anti_rec.rs): install_hooks puts the guards in one after   *)
(* the other, with the anti-recursion window open; then the guest's        *)
(* threads call hooked functions, decisions are taken inside the window,   *)
(* and some originals run guest code that calls hooked functions again;    *)
(* uninstall_hooks takes the guards out.  What a guard decides is          *)
(* GuardDecisions.                                                         *)
(***************************************************************************)
EXTENDS GuardDecisions, Sequences

CONSTANTS
    HookThread,     \* threads of the guest
    DisableChoices, \* sets of guards the session may have disabled
    MissingChoices, \* sets of entry points the system may lack
    MaxFrames       \* bound: nested hooked calls of a thread

ASSUME HookConstants == MaxFrames \in Nat /\ {} \in MissingChoices

VARIABLES
    guard,     \* guard level of the session
    allowRwx,  \* whether the session allows RWX memory
    skipped,   \* guards of DISABLED_HOOK_CATS
    phase,     \* "installing", "running", "detaching", "gone"
    step,      \* position in InstallOrder or TeardownOrder
    installed, \* guards put in so far
    absent,    \* entry points of installed guards that could not be hooked
    errors,    \* whether an install error was buffered
    ack,       \* what the launcher is told: "none", "ok", "degraded", "failed"
    window,    \* window[t]: the thread's anti_rec flag
    loader,    \* whether the loader's thread holds the window
    teardown,  \* MEMGUARD_UNINSTALLING
    frames,    \* frames[t]: hooked calls under way, the newest last
    ownFate    \* "alive", or "killed" by a guard for what the hook itself did

hookVars == <<guard, allowRwx, skipped, phase, step, installed, absent, errors, ack,
              window, loader, teardown, frames, ownFate>>

(* The order of install_hooks, and of uninstall_hooks after begin_teardown. *)
InstallOrder == <<"fs", "memory", "inject", "reg", "net", "alpc", "token", "ui", "proc", "com",
                  "service", "shell", "system">>

TeardownOrder == <<"begin_teardown", "system", "shell", "service", "com", "proc", "ui", "token",
                   "alpc", "net", "reg", "inject", "memory", "fs">>

GuardCategory == {InstallOrder[i] : i \in DOMAIN InstallOrder}
ApisOf(g) == IF g \in DOMAIN Api THEN Api[g] ELSE {}

Reported(g) == IF g \in DOMAIN Install THEN Install[g].reported ELSE {}
Silent(g) == IF g \in DOMAIN Install THEN Install[g].silent ELSE {}

(* The entry points whose detour is enabled.                                *)
Hooked == (UNION {ApisOf(g) : g \in installed}) \ absent

(***************************************************************************)
(* Patching a function: a trampoline is allocated RWX and the code page is *)
(* made writable.  Both calls reach the memory guard's hooks once it is    *)
(* in.                                                                     *)
(***************************************************************************)
(* A variant that does not excuse the hook's own window.                    *)
AllocKills_NoWindow == guard = "static" /\ ~allowRwx

AllocKills == guard = "static" /\ ~allowRwx /\ ~loader
ProtectKills == ~loader /\ ~teardown

Patched(g, putsIn) ==
    IF "memory" \in installed \cup (IF putsIn THEN {g} ELSE {}) /\ ((putsIn /\ AllocKills) \/ ProtectKills)
    THEN ownFate' = "killed"
    ELSE UNCHANGED ownFate

(***************************************************************************)
(* install_hooks                                                           *)
(***************************************************************************)
Enabled(g) == g \notin skipped /\ (g = "fs" \/ guard # "none")

OnLoad == phase = "installing" /\ ownFate = "alive"

SkipGuard ==
    /\ OnLoad
    /\ step <= Len(InstallOrder)
    /\ ~Enabled(InstallOrder[step])
    /\ step' = step + 1
    /\ UNCHANGED <<guard, allowRwx, skipped, phase, installed, absent, errors, ack, window, loader,
                   teardown, frames, ownFate>>

(* A variant that skips every missing entry point silently.                 *)
Buffers_Never(g, missing) == FALSE

Buffers(g, missing) == missing \cap Reported(g) # {}

InstallGuard(missing) ==
    /\ OnLoad
    /\ step <= Len(InstallOrder)
    /\ LET g == InstallOrder[step]
       IN  /\ Enabled(g)
           /\ loader = (g # "fs")                          \* anti_rec::enter after fs
           /\ missing \subseteq Reported(g) \cup Silent(g)
           /\ installed' = installed \cup {g}
           /\ absent' = absent \cup missing
           /\ errors' = (errors \/ Buffers(g, missing))
           /\ Patched(g, TRUE)
    /\ step' = step + 1
    /\ UNCHANGED <<guard, allowRwx, skipped, phase, ack, window, loader, teardown, frames>>

OpenInstallWindow ==
    /\ OnLoad
    /\ ~loader
    /\ guard # "none"
    /\ step > 1
    /\ step <= Len(InstallOrder)
    /\ loader' = TRUE
    /\ UNCHANGED <<guard, allowRwx, skipped, phase, step, installed, absent, errors, ack, window,
                   teardown, frames, ownFate>>

(* ui_guard is the one optional guard.                                      *)
FailOptional ==
    /\ OnLoad
    /\ step <= Len(InstallOrder)
    /\ InstallOrder[step] = "ui"
    /\ Enabled("ui")
    /\ errors' = TRUE
    /\ step' = step + 1
    /\ UNCHANGED <<guard, allowRwx, skipped, phase, installed, absent, ack, window, loader, teardown,
                   frames, ownFate>>

(* Any other error ends install_hooks; DllMain returns FALSE, and the       *)
(* system calls it again to detach.  apply_mitigations comes last.          *)
FailInstall ==
    /\ OnLoad
    /\ step <= Len(InstallOrder) + 1
    /\ step <= Len(InstallOrder) => Enabled(InstallOrder[step]) /\ InstallOrder[step] # "ui"
    /\ step > Len(InstallOrder) => guard = "static"
    /\ ack' = "failed"
    /\ phase' = "detaching"
    /\ step' = 1
    /\ loader' = FALSE
    /\ UNCHANGED <<guard, allowRwx, skipped, installed, absent, errors, window, teardown, frames, ownFate>>

(* apply_mitigations: what does not end the install is buffered; then       *)
(* signal_init_events.                                                      *)
apply_mitigations(enforced) ==
    /\ OnLoad
    /\ step = Len(InstallOrder) + 1
    /\ ~enforced => guard # "none"
    /\ errors' = (errors \/ ~enforced)
    /\ ack' = IF errors' THEN "degraded" ELSE "ok"
    /\ phase' = "running"
    /\ loader' = FALSE
    /\ UNCHANGED <<guard, allowRwx, skipped, step, installed, absent, window, teardown, frames, ownFate>>

(***************************************************************************)
(* A hooked call                                                           *)
(***************************************************************************)
OnGuest == phase = "running" /\ ownFate = "alive"
Top(t) == frames[t][Len(frames[t])]
GuestRuns(t) == frames[t] # <<>> => Top(t).pc = "callback"
SetTop(t, pc) == [frames EXCEPT ![t][Len(frames[t])].pc = pc]

(* A variant that keeps the window over an original that runs guest code.   *)
ClosesBefore_Never(api) == FALSE

(* Whether the window is closed before the original is called.              *)
ClosesBefore(api) == api \in CallbackCapable

(* The legacy process creators refuse before anti_rec::enter.               *)
RefusesAlways(api) == api \in Api.proc

(* The hooks of FindWindow* call the original first and decide about the    *)
(* window it found, q.                                                      *)
Searches(api) == api \in FindWindowCall

(* anti_rec::enter: Some opens the window, None passes the call through     *)
(* (and what a search found to the caller).                                 *)
Call(t, api, q) ==
    /\ OnGuest
    /\ GuestRuns(t)
    /\ api \in Hooked
    /\ Len(frames[t]) < MaxFrames
    /\ frames' = [frames EXCEPT ![t] = Append(@,
           [verdict |-> Decision(api, q), promised |-> Promised(api, q),
            calls |-> api \in CallbackCapable, closes |-> ClosesBefore(api), searches |-> Searches(api),
            pc |-> IF window[t] /\ ~RefusesAlways(api)
                   THEN (IF Searches(api) THEN "given" ELSE "original")
                   ELSE (IF Searches(api) THEN "search" ELSE "decide"),
            entered |-> ~window[t]])]
    /\ window' = [window EXCEPT ![t] = TRUE]
    /\ UNCHANGED <<guard, allowRwx, skipped, phase, step, installed, absent, errors, ack, loader,
                   teardown, ownFate>>

(* The original of a search returns, with the window still open.            *)
Search(t) ==
    /\ OnGuest
    /\ ~GuestRuns(t)
    /\ Top(t).pc = "search"
    /\ frames' = SetTop(t, "decide")
    /\ UNCHANGED <<guard, allowRwx, skipped, phase, step, installed, absent, errors, ack, window, loader,
                   teardown, ownFate>>

(* A search that is refused returns NULL, another call an error.            *)
Decide(t) ==
    /\ OnGuest
    /\ ~GuestRuns(t)
    /\ Top(t).pc = "decide"
    /\ \/ /\ Top(t).verdict = "pass"
          /\ frames' = SetTop(t, IF Top(t).searches THEN "given" ELSE "original")
          /\ window' = [window EXCEPT ![t] = ~Top(t).closes]
          /\ UNCHANGED phase
       \/ /\ Top(t).verdict = "refuse"
          /\ frames' = [frames EXCEPT ![t] = SubSeq(@, 1, Len(@) - 1)]
          /\ window' = [window EXCEPT ![t] = ~Top(t).entered]
          /\ UNCHANGED phase
       \/ /\ Top(t).verdict = "kill"
          /\ phase' = "gone"
          /\ frames' = [u \in HookThread |-> <<>>]
          /\ window' = [u \in HookThread |-> FALSE]
    /\ UNCHANGED <<guard, allowRwx, skipped, step, installed, absent, errors, ack, loader, teardown, ownFate>>

Callback(t) ==
    /\ OnGuest
    /\ ~GuestRuns(t)
    /\ Top(t).pc = "original"
    /\ Top(t).calls
    /\ frames' = SetTop(t, "callback")
    /\ UNCHANGED <<guard, allowRwx, skipped, phase, step, installed, absent, errors, ack, window, loader,
                   teardown, ownFate>>

(* The original, or a search with its window, returns.  The Guard's drop    *)
(* clears the flag for the call that entered and still holds it.            *)
Return(t) ==
    /\ OnGuest
    /\ frames[t] # <<>>
    /\ Top(t).pc \in {"original", "callback", "given"}
    /\ frames' = [frames EXCEPT ![t] = SubSeq(@, 1, Len(@) - 1)]
    /\ window' = IF Top(t).entered /\ ~Top(t).closes
                 THEN [window EXCEPT ![t] = FALSE] ELSE window
    /\ UNCHANGED <<guard, allowRwx, skipped, phase, step, installed, absent, errors, ack, loader,
                   teardown, ownFate>>

(***************************************************************************)
(* DLL_PROCESS_DETACH: the other threads are gone.                         *)
(***************************************************************************)
Detach ==
    /\ OnGuest
    /\ phase' = "detaching"
    /\ step' = 1
    /\ frames' = [t \in HookThread |-> <<>>]
    /\ window' = [t \in HookThread |-> FALSE]
    /\ UNCHANGED <<guard, allowRwx, skipped, installed, absent, errors, ack, loader, teardown, ownFate>>

UninstallGuard ==
    /\ phase = "detaching"
    /\ ownFate = "alive"
    /\ step <= Len(TeardownOrder)
    /\ LET g == TeardownOrder[step]
       IN  IF g = "begin_teardown"
           THEN teardown' = TRUE /\ UNCHANGED <<installed, absent, ownFate>>
           ELSE /\ IF g \in installed THEN Patched(g, FALSE) ELSE UNCHANGED ownFate
                /\ installed' = installed \ {g}
                /\ absent' = absent \ ApisOf(g)
                /\ UNCHANGED teardown
    /\ step' = step + 1
    /\ phase' = IF step = Len(TeardownOrder) THEN "gone" ELSE phase
    /\ UNCHANGED <<guard, allowRwx, skipped, errors, ack, window, loader, frames>>

(***************************************************************************)
(* Specification                                                           *)
(***************************************************************************)
HookInit ==
    /\ guard \in {"none", "scan", "full", "static"}
    /\ allowRwx \in BOOLEAN
    /\ skipped \in DisableChoices
    /\ phase = "installing"
    /\ step = 1
    /\ installed = {}
    /\ absent = {}
    /\ errors = FALSE
    /\ ack = "none"
    /\ window = [t \in HookThread |-> FALSE]
    /\ loader = FALSE
    /\ teardown = FALSE
    /\ frames = [t \in HookThread |-> <<>>]
    /\ ownFate = "alive"

HookNext ==
    \/ SkipGuard
    \/ \E missing \in MissingChoices : InstallGuard(missing)
    \/ OpenInstallWindow
    \/ FailOptional
    \/ FailInstall
    \/ \E enforced \in BOOLEAN : apply_mitigations(enforced)
    \/ \E t \in HookThread :
         \/ \E api \in Hooked : \E q \in Requests(api) : Call(t, api, q)
         \/ Search(t)
         \/ Decide(t)
         \/ Callback(t)
         \/ Return(t)
    \/ Detach
    \/ UninstallGuard

HookSpec == HookInit /\ [][HookNext]_hookVars

(***************************************************************************)
(* Properties                                                              *)
(***************************************************************************)
Frame == [verdict : {"pass", "refuse", "kill"}, promised : BOOLEAN, calls : BOOLEAN, closes : BOOLEAN,
          searches : BOOLEAN, pc : {"search", "decide", "given", "original", "callback"}, entered : BOOLEAN]

(* The values the variables range over.                                     *)
HookTypeOK ==
    /\ guard \in {"none", "scan", "full", "static"}
    /\ allowRwx \in BOOLEAN
    /\ skipped \in DisableChoices
    /\ phase \in {"installing", "running", "detaching", "gone"}
    /\ step \in 1..(Len(TeardownOrder) + 1)
    /\ installed \subseteq GuardCategory
    /\ absent \subseteq UNION {Api[g] : g \in DOMAIN Api}
    /\ errors \in BOOLEAN
    /\ ack \in {"none", "ok", "degraded", "failed"}
    /\ window \in [HookThread -> BOOLEAN]
    /\ loader \in BOOLEAN
    /\ teardown \in BOOLEAN
    /\ \A t \in HookThread : frames[t] \in Seq(Frame) /\ Len(frames[t]) <= MaxFrames
    /\ ownFate \in {"alive", "killed"}

(* No original of a hooked function runs, for a call guest code made, on a  *)
(* target the guards promise to keep from the guest, and no search, whose   *)
(* original runs before the decision, gives the guest a window they keep    *)
(* from it: whichever of the sibling functions it names, and also when the  *)
(* guest code runs inside another hooked call (anti_rec invariant 3: the    *)
(* window is closed before an original that can call back).                 *)
GuestCallsAreDecided ==
    \A t \in HookThread : \A i \in DOMAIN frames[t] :
        frames[t][i].pc \in {"original", "callback", "given"} => frames[t][i].promised

(* Putting the hooks in and taking them out never trips the memory guard on *)
(* the hook's own trampolines and patches, at any level, in any state of a  *)
(* failed install.                                                          *)
OwnNeverKilled == ownFate = "alive"

(* The launcher is told "ok" only if every entry point of every enabled     *)
(* guard is hooked, those aside that old systems lack and the guard skips;  *)
(* and "degraded" only if what is missing is optional.                      *)
AckTellsTheHooks ==
    phase = "running" =>
        \A g \in GuardCategory : Enabled(g) =>
            /\ ack = "ok" => ApisOf(g) \ Silent(g) \subseteq Hooked
            /\ ack = "degraded" => ApisOf(g) \ (Reported(g) \cup Silent(g)) \subseteq Hooked
==============================================================================
