------------------------------ MODULE Transmit ------------------------------
(***************************************************************************)
(* Writing to the serial port: io_sendData and io_waitForTransmitComplete, *)
(* run by the threads that execute commands, and the write completions of  *)
(* the I/O thread (lib/osal/src/io_win32.c), for one channel.              *)
(*                                                                         *)
(* writeVariablesLock covers each section below as a whole; going to sleep *)
(* releases it in the same step.                                           *)
(***************************************************************************)
EXTENDS Naturals, FiniteSets

CONSTANTS
  Threads,      \* the threads that send
  Lengths,      \* the lengths of the commands
  Modulus,      \* 2^32, the range of the counters
  MaxSends,     \* bound: commands per thread
  MaxFailures   \* bound: calls of WriteFile that fail

ASSUME LengthAssumption  == Lengths \subseteq Nat \ {0}
ASSUME ModulusAssumption == Modulus \in Nat \ {0}
ASSUME BoundAssumption   == MaxSends \in Nat /\ MaxFailures \in Nat

VARIABLES
  pc,           \* where each thread is
  size,         \* the length of its command
  sends,        \* commands it has sent
  scheduled,    \* channel->writeScheduled
  completed,    \* channel->writeCompleted
  port,         \* the threads whose write the OS has not finished
  failures      \* failed calls of WriteFile

vars == <<pc, size, sends, scheduled, completed, port, failures>>

TypeOK ==
  /\ pc    \in [Threads -> {"idle", "write", "check", "asleep"}]
  /\ size  \in [Threads -> Lengths \cup {0}]
  /\ sends \in [Threads -> 0 .. MaxSends]
  /\ scheduled \in 0 .. Modulus - 1
  /\ completed \in 0 .. Modulus - 1
  /\ port \subseteq Threads
  /\ failures \in 0 .. MaxFailures

Init ==
  /\ pc = [t \in Threads |-> "idle"]
  /\ size = [t \in Threads |-> 0]
  /\ sends = [t \in Threads |-> 0]
  /\ scheduled = 0 /\ completed = 0
  /\ port = {} /\ failures = 0

Add(x, n) == (x + n) % Modulus

Go(t, from, to) == pc[t] = from /\ pc' = [pc EXCEPT ![t] = to]

(* io_sendData, up to the unlock.                                          *)
Schedule(t) ==
  /\ Go(t, "idle", "write")
  /\ sends[t] < MaxSends
  /\ \E n \in Lengths : /\ size' = [size EXCEPT ![t] = n]
                        /\ scheduled' = Add(scheduled, n)
  /\ sends' = [sends EXCEPT ![t] = @ + 1]
  /\ UNCHANGED <<completed, port, failures>>

(* WriteFile starts the transfer ...                                       *)
Write(t) ==
  /\ Go(t, "write", "check")
  /\ port' = port \cup {t}
  /\ UNCHANGED <<size, sends, scheduled, completed, failures>>

(* ... or fails, and writeScheduled keeps the bytes that never go out.     *)
WriteFails(t) ==
  /\ failures < MaxFailures
  /\ Go(t, "write", "check")
  /\ failures' = failures + 1
  /\ UNCHANGED <<size, sends, scheduled, completed, port>>

NotBehind == scheduled <= completed   \* mutant
AllSent   == completed = scheduled

(* io_waitForTransmitComplete returns ...                                  *)
Return(t) ==
  /\ AllSent
  /\ Go(t, "check", "idle")
  /\ UNCHANGED <<size, sends, scheduled, completed, port, failures>>

(* ... or sleeps on allWritesHaveCompleted.                                *)
Sleep(t) ==
  /\ ~AllSent
  /\ Go(t, "check", "asleep")
  /\ UNCHANGED <<size, sends, scheduled, completed, port, failures>>

Asleep == {t \in Threads : pc[t] = "asleep"}
Wake(ts) == pc' = [t \in Threads |-> IF t \in ts THEN "check" ELSE pc[t]]

WakeNone == Wake({})   \* mutant
(* WakeConditionVariable wakes one sleeper, if there is any.               *)
WakeOne  == IF Asleep = {} THEN UNCHANGED pc ELSE \E t \in Asleep : Wake({t})

(* The I/O thread handles the completion of a write.                       *)
Complete ==
  \E t \in port :
    /\ port' = port \ {t}
    /\ completed' = Add(completed, size[t])
    /\ IF completed' = scheduled THEN WakeOne ELSE UNCHANGED pc
    /\ UNCHANGED <<size, sends, scheduled, failures>>

SenderStep(t) == Write(t) \/ WriteFails(t) \/ Return(t) \/ Sleep(t)

(* Every command is sent; a sender that still sleeps hangs for ever.       *)
Finished ==
  /\ port = {}
  /\ \A t \in Threads : pc[t] = "asleep" \/ (pc[t] = "idle" /\ sends[t] = MaxSends)
  /\ UNCHANGED vars

Next == \/ \E t \in Threads : Schedule(t) \/ SenderStep(t)
        \/ Complete
        \/ Finished

Spec == Init /\ [][Next]_vars

(* The threads run and the OS finishes the writes it has accepted.         *)
FairSpec == Spec /\ (\A t \in Threads : WF_vars(SenderStep(t))) /\ WF_vars(Complete)

-----------------------------------------------------------------------------
(* A sender that returns has its command in the hands of the OS: the       *)
(* buffer of the command, on the stack of the caller, is free again only   *)
(* then (osal_io.h).                                                       *)
ReturnMeansSent == [][\A t \in Threads : Return(t) => t \notin port]_vars

(* io_waitForTransmitComplete comes back.                                  *)
SenderReturns == \A t \in Threads : pc[t] # "idle" ~> pc[t] = "idle"

(* It does for a sender that has the channel to itself, if WriteFile does  *)
(* not fail: the completion of its write always wakes it.                  *)
AloneReturns ==
  \A t \in Threads :
    [](failures = 0 /\ \A u \in Threads \ {t} : pc[u] = "idle")
      => (pc[t] # "idle" ~> pc[t] = "idle")
=============================================================================
