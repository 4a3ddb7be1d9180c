--------------------------- MODULE CommandService ---------------------------
(***************************************************************************)
(* What lb_executeCommand promises its callers: a call sends one command,  *)
(* and ends with the acknowledgment of that very command, or with          *)
(* HCI_CONTROLLER_BUSY if the wait ran out before the acknowledgment.      *)
(***************************************************************************)
EXTENDS Naturals

CONSTANTS
  Threads,      \* the callers
  MaxCalls,     \* bound: calls per thread
  Busy,         \* the status of a call that timed out
  CanExpire     \* may a wait run out?

VARIABLES
  stage,        \* idle, called, sent, answered
  calls,        \* calls made
  answer,       \* the acknowledgment the controller gave to the call
  outcome       \* the status of the last call

vars == <<stage, calls, answer, outcome>>

Init ==
  /\ stage   = [t \in Threads |-> "idle"]
  /\ calls   = [t \in Threads |-> 0]
  /\ answer  = [t \in Threads |-> Busy]
  /\ outcome = [t \in Threads |-> Busy]

Move(t, from, to) == stage[t] = from /\ stage' = [stage EXCEPT ![t] = to]

Call(t) ==
  /\ Move(t, "idle", "called") /\ calls[t] < MaxCalls
  /\ calls'   = [calls EXCEPT ![t] = @ + 1]
  /\ UNCHANGED <<answer, outcome>>

Send(t) == Move(t, "called", "sent") /\ UNCHANGED <<calls, answer, outcome>>

(* The controller acknowledges the command of this call, and no other.     *)
Answer(t) ==
  /\ Move(t, "sent", "answered")
  /\ \E code \in {"ok", "failed"} :
       answer' = [answer EXCEPT ![t] = [call |-> <<t, calls[t]>>, code |-> code]]
  /\ UNCHANGED <<calls, outcome>>

Return(t) ==
  /\ Move(t, "answered", "idle")
  /\ outcome' = [outcome EXCEPT ![t] = answer[t]]
  /\ answer'  = [answer EXCEPT ![t] = Busy]
  /\ UNCHANGED calls

(* A wait runs out only before the acknowledgment.                         *)
Expire(t) ==
  /\ CanExpire
  /\ Move(t, "sent", "idle")
  /\ outcome' = [outcome EXCEPT ![t] = Busy]
  /\ UNCHANGED <<calls, answer>>

Next == \E t \in Threads :
          Call(t) \/ Send(t) \/ Answer(t) \/ Return(t) \/ Expire(t)

Spec == Init /\ [][Next]_vars
=============================================================================
