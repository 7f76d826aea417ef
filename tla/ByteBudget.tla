----------------------------- MODULE ByteBudget -----------------------------
(***************************************************************************)
(* The byte budget that all connection handlers of the pipe server share   *)
(* (winrsbox-launcher/src/pipe_server/conn.rs).                            *)
(*                                                                         *)
(* A handler reads the length a guest declares, reserves as many bytes     *)
(* before it reads the body, and gives them back when the request has been *)
(* handled.  A handler that finds too little left waits on a condition     *)
(* variable, at most BYTE_BUDGET_WAIT.  A release takes the bytes off      *)
(* under the lock and notifies after it has dropped the lock.              *)
(***************************************************************************)
EXTENDS Naturals, FiniteSets

CONSTANTS
    Handler,   \* threads that serve a connection each
    Budget,    \* MAX_INFLIGHT_MSG_BYTES
    MaxMsg     \* MAX_MSG_LEN

ASSUME BudgetConstants == Budget \in Nat \ {0} /\ MaxMsg \in Nat

VARIABLES
    at,        \* at[h]: where handler h is in its loop
    declared,  \* declared[h]: the body length its client declared
    reserved,  \* reserved[h]: n of the ByteReservation it holds
    in_use     \* ByteBudget::in_use

budgetVars == <<at, declared, reserved, in_use>>

(* parked: in wait_timeout.  freed and failed: the bytes are off and        *)
(* notify_all is due, after a request or after a body that was not one.     *)
Places == {"prefix", "reserve", "parked", "body", "handle", "freed", "failed", "dropped"}

(* Single amounts above the whole budget are clamped to it.                 *)
Amount(h) == IF declared[h] < Budget THEN declared[h] ELSE Budget
Fits(h) == in_use + Amount(h) <= Budget

BudgetInit ==
    /\ at = [h \in Handler |-> "prefix"]
    /\ declared = [h \in Handler |-> 0]
    /\ reserved = [h \in Handler |-> 0]
    /\ in_use = 0

(* The 4-byte prefix; empty and oversized bodies need no budget, and        *)
(* read_msg rejects them.                                                   *)
read_request_with_budget(h, n) ==
    /\ at[h] = "prefix"
    /\ declared' = [declared EXCEPT ![h] = n]
    /\ at' = [at EXCEPT ![h] = IF n \in 1..MaxMsg THEN "reserve" ELSE "dropped"]
    /\ UNCHANGED <<reserved, in_use>>

(* One turn of reserve_timeout under the lock: the bytes are taken, or the  *)
(* thread waits, or its deadline has passed.                                *)
reserve_timeout(h) ==
    /\ at[h] = "reserve"
    /\ \/ /\ Fits(h)
          /\ in_use' = in_use + Amount(h)
          /\ reserved' = [reserved EXCEPT ![h] = Amount(h)]
          /\ at' = [at EXCEPT ![h] = "body"]
       \/ /\ ~Fits(h)
          /\ at' = [at EXCEPT ![h] = "parked"]
          /\ UNCHANGED <<reserved, in_use>>
       \/ /\ ~Fits(h)
          /\ at' = [at EXCEPT ![h] = "dropped"]
          /\ UNCHANGED <<reserved, in_use>>
    /\ UNCHANGED declared

(* wait_timeout returns: timed out, or woken for no reason.                 *)
WaitReturns(h) ==
    /\ at[h] = "parked"
    /\ at' = [at EXCEPT ![h] = "dropped"] \/ at' = [at EXCEPT ![h] = "reserve"]
    /\ UNCHANGED <<declared, reserved, in_use>>

(* The body was read and decoded; the reservation is held until the request *)
(* has been handled.                                                        *)
ReadBody(h) ==
    /\ at[h] = "body"
    /\ at' = [at EXCEPT ![h] = "handle"]
    /\ UNCHANGED <<declared, reserved, in_use>>

(* Dropping the reservation, first half: after the request, or because the  *)
(* body could not be read (then the connection is dropped too).             *)
DropReservation(h) ==
    /\ at[h] \in {"body", "handle"}
    /\ in_use' = in_use - reserved[h]
    /\ reserved' = [reserved EXCEPT ![h] = 0]
    /\ at' = [at EXCEPT ![h] = IF at[h] = "body" THEN "failed" ELSE "freed"]
    /\ UNCHANGED declared

(* A variant that wakes one waiting thread.                                 *)
Notify_One(h) ==
    /\ at[h] \in {"freed", "failed"}
    /\ \E w \in {g \in Handler : at[g] = "parked"} \cup {h} :
         /\ (w = h) => \A g \in Handler : at[g] # "parked"
         /\ at' = [g \in Handler |->
                     CASE g = h -> (IF at[h] = "freed" THEN "prefix" ELSE "dropped")
                       [] g = w /\ g # h -> "reserve"
                       [] OTHER -> at[g]]
    /\ UNCHANGED <<declared, reserved, in_use>>

(* notify_all, and the next turn of the handler's loop or its end.          *)
Notify(h) ==
    /\ at[h] \in {"freed", "failed"}
    /\ at' = [g \in Handler |->
                CASE g = h -> (IF at[h] = "freed" THEN "prefix" ELSE "dropped")
                  [] g # h /\ at[g] = "parked" -> "reserve"
                  [] OTHER -> at[g]]
    /\ UNCHANGED <<declared, reserved, in_use>>

(* The connection is gone; the handler's permit goes to a new one.          *)
Reconnect(h) ==
    /\ at[h] = "dropped"
    /\ at' = [at EXCEPT ![h] = "prefix"]
    /\ declared' = [declared EXCEPT ![h] = 0]
    /\ UNCHANGED <<reserved, in_use>>

BudgetNext == \E h \in Handler :
    \/ \E n \in 0..(MaxMsg + 1) : read_request_with_budget(h, n)
    \/ reserve_timeout(h)
    \/ WaitReturns(h)
    \/ ReadBody(h)
    \/ DropReservation(h)
    \/ Notify(h)
    \/ Reconnect(h)

BudgetSpec == BudgetInit /\ [][BudgetNext]_budgetVars

-----------------------------------------------------------------------------
(* The reserved bytes, each of them the n-th of its handler.                *)
Bytes == {b \in Handler \X (1..Budget) : b[2] <= reserved[b[1]]}

(* A handler holds bytes only while it reads or handles a request, and the  *)
(* bytes in use are those that are held: none is lost, none is counted      *)
(* twice.                                                                   *)
BudgetTypeOK ==
    /\ at \in [Handler -> Places]
    /\ declared \in [Handler -> 0..(MaxMsg + 1)]
    /\ reserved \in [Handler -> 0..Budget]
    /\ in_use \in 0..Budget
    /\ in_use = Cardinality(Bytes)
    /\ \A h \in Handler : reserved[h] # 0 => at[h] \in {"body", "handle"}

(* No lost wake-up: a handler sleeps on the condition variable only while   *)
(* its amount does not fit, unless a notify_all is under way; with several  *)
(* sleepers of different sizes one release must reach them all.             *)
ParkedDoesNotFit == \A h \in Handler :
    at[h] = "parked" => ~Fits(h) \/ \E g \in Handler : at[g] \in {"freed", "failed"}
=============================================================================
