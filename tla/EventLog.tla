------------------------------ MODULE EventLog ------------------------------
(***************************************************************************)
(* sandbox.log.jsonl of the broker (observe/jsonl_log.rs): the threads of  *)
(* the pipe server push lines into one buffer, and whoever finds that the  *)
(* interval is over, or logs an event that must not wait, writes it out.   *)
(* A line is its number; events below the level never become one.          *)
(***************************************************************************)
EXTENDS Integers, Sequences, SequencesExt

CONSTANTS
    Writer,    \* threads of the broker
    NoWriter,
    MaxLines   \* bound: lines logged

ASSUME LogAssumption == NoWriter \notin Writer /\ MaxLines \in Nat

VARIABLES
    pushed,    \* how many lines have been pushed
    pending,
    holder,    \* the thread that holds flush_lock
    wr,        \* wr[t]: the call t is in, its line, and the lines it took
    file,
    torn,      \* the file ends in a part of a line
    lost,      \* history: lines that are not in the file: it could not be opened or written
    promised   \* history: lines whose log_immediate has returned

logVars == <<pushed, pending, holder, wr, file, torn, lost, promised>>

Ready == [pc |-> "idle", line |-> 0, now |-> FALSE, lines |-> <<>>]

LogInit ==
    /\ pushed = 0 /\ pending = <<>> /\ holder = NoWriter
    /\ wr = [t \in Writer |-> Ready]
    /\ file = <<>> /\ torn \in BOOLEAN /\ lost = {} /\ promised = {}

Return(t) ==
    /\ wr' = [wr EXCEPT ![t] = Ready]
    /\ promised' = IF wr[t].now THEN promised \cup {wr[t].line} ELSE promised

(* push, push_raw (a line a client launcher forwarded) and push_and_flush.  *)
push(t, immediate) ==
    /\ wr[t].pc = "idle"
    /\ pushed < MaxLines
    /\ pushed' = pushed + 1
    /\ pending' = Append(pending, pushed + 1)
    /\ wr' = [wr EXCEPT ![t] = [pc |-> IF immediate THEN "lock" ELSE "maybe",
                                line |-> pushed + 1, now |-> immediate, lines |-> <<>>]]
    /\ UNCHANGED <<holder, file, torn, lost, promised>>

(* The interval is over, or it is not, or another thread looks at it.       *)
maybe_flush(t) ==
    /\ wr[t].pc = "maybe"
    /\ \/ wr' = [wr EXCEPT ![t].pc = "lock"] /\ UNCHANGED promised
       \/ Return(t)
    /\ UNCHANGED <<pushed, pending, holder, file, torn, lost>>

(* flush, when the session ends: force_flush without a line.                *)
force_flush(t) ==
    /\ wr[t].pc = "idle"
    /\ pending # <<>>
    /\ wr' = [wr EXCEPT ![t].pc = "lock"]
    /\ UNCHANGED <<pushed, pending, holder, file, torn, lost, promised>>

(* A variant without flush_lock.                                            *)
lock_flush_None(t) ==
    /\ wr[t].pc = "lock"
    /\ wr' = [wr EXCEPT ![t].pc = "take"]
    /\ UNCHANGED <<pushed, pending, holder, file, torn, lost, promised>>

(* do_flush: flush_lock, then the buffer is taken, then the file is opened  *)
(* and the lines are appended, all while flush_lock is held.                *)
lock_flush(t) ==
    /\ wr[t].pc = "lock"
    /\ holder = NoWriter
    /\ holder' = t
    /\ wr' = [wr EXCEPT ![t].pc = "take"]
    /\ UNCHANGED <<pushed, pending, file, torn, lost, promised>>

take_lines(t) ==
    /\ wr[t].pc = "take"
    /\ pending' = <<>>
    /\ IF pending = <<>>
       THEN Return(t) /\ holder' = NoWriter
       ELSE /\ wr' = [wr EXCEPT ![t].pc = "open", ![t].lines = pending]
            /\ UNCHANGED <<holder, promised>>
    /\ UNCHANGED <<pushed, file, torn, lost>>

open_log(t, ok) ==
    /\ wr[t].pc = "open"
    /\ IF ok
       THEN wr' = [wr EXCEPT ![t].pc = "write"] /\ UNCHANGED <<holder, lost, promised>>
       ELSE /\ lost' = lost \cup ToSet(wr[t].lines)
            /\ Return(t)
            /\ holder' = NoWriter
    /\ UNCHANGED <<pushed, pending, file, torn>>

(* writeln!, whose result is ignored: the line and its end reach the file,  *)
(* or a part of them, or nothing.  What follows a part without an end is on *)
(* the same line, and a reader of the log gets neither.                     *)
write_line(t, how) ==
    /\ wr[t].pc = "write"
    /\ IF how = "whole" /\ ~torn
       THEN file' = Append(file, Head(wr[t].lines)) /\ UNCHANGED lost
       ELSE lost' = lost \cup {Head(wr[t].lines)} /\ UNCHANGED file
    /\ torn' = IF how = "none" THEN torn ELSE how = "part"
    /\ IF Len(wr[t].lines) = 1
       THEN Return(t) /\ holder' = NoWriter
       ELSE wr' = [wr EXCEPT ![t].lines = Tail(@)] /\ UNCHANGED <<holder, promised>>
    /\ UNCHANGED <<pushed, pending>>

LogNext == \E t \in Writer :
    \/ \E immediate \in BOOLEAN : push(t, immediate)
    \/ maybe_flush(t)
    \/ force_flush(t)
    \/ lock_flush(t)
    \/ take_lines(t)
    \/ \E ok \in BOOLEAN : open_log(t, ok)
    \/ \E how \in {"whole", "part", "none"} : write_line(t, how)

LogSpec == LogInit /\ [][LogNext]_logVars

-----------------------------------------------------------------------------
(* Types, and where a line is: in the buffer, in the hand of the thread     *)
(* that holds flush_lock, in the file, or lost because the file could not   *)
(* be opened or written (push, do_flush).  None goes in any other way.      *)
LogTypeOK ==
    /\ pushed \in 0..MaxLines
    /\ \A t \in Writer : wr[t].pc \in {"take", "open", "write"} <=> holder = t
    /\ 1..pushed = ToSet(file) \cup lost \cup ToSet(pending)
                     \cup UNION {ToSet(wr[t].lines) : t \in Writer}
    /\ ToSet(file) \cap lost = {}

(* "Critical events (violations) flush immediately": when log_immediate     *)
(* returns, its line has been written out, also if another thread took it   *)
(* out of the buffer: it is in the file unless opening or writing the file  *)
(* has failed, whose errors do_flush ignores; and the file has its lines in *)
(* the order they were pushed, each once.                                   *)
ImmediateIsWritten ==
    /\ promised \subseteq ToSet(file) \cup lost
    /\ \A i, j \in DOMAIN file : i < j => file[i] < file[j]
=============================================================================
