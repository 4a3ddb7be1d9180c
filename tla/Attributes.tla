----------------------------- MODULE Attributes -----------------------------
(***************************************************************************)
(* Attribute operations on one connected device: lb_startServiceDiscovery, *)
(* lb_writeCharValue and lb_readCharValue (commands.c), run by several     *)
(* threads, and the vendor events that answer them, run by the I/O thread  *)
(* (ti_hci.c, st_aci.c).                                                   *)
(*                                                                         *)
(* device->operationLock makes one operation wait for the other.  The I/O  *)
(* thread does not take it: it meets the operation through                 *)
(* pendingOperation, pendingRead and operationComplete only.  The device   *)
(* stays connected here; see Connections.                                  *)
(***************************************************************************)
EXTENDS Integers, Sequences

CONSTANTS
  Threads,       \* the threads that use the device
  Vendors,       \* the vendor modules: "TI", "ST"
  Handles,       \* attribute handles, 0 excluded
  Capacity,      \* Capacity[h]: the size of the buffer that reads of h pass
  ValueLengths,  \* lengths of the attributes
  MaxOps,        \* bound: MaxOps[t], the operations of thread t
  MaxLate,       \* bound: operations given up while their answer is to come
  NoCall         \* no operation

ASSUME HandleAssumption == 0 \notin Handles
ASSUME LengthAssumption == Capacity \in [Handles -> Nat] /\ ValueLengths \subseteq Nat
ASSUME BoundAssumption  == MaxOps \in [Threads -> Nat] /\ MaxLate \in Nat

Calls == UNION {{t} \X (1 .. MaxOps[t]) : t \in Threads}
ASSUME CallAssumption == NoCall \notin Calls \cup Threads

Kinds == {"discover", "read", "write"}
Codes == {"ok", "failed"}

VARIABLES
  vendor,        \* controller->vendorFunctions
  pc,            \* where each thread is
  op,            \* its operation: kind, handle and capacity
  ops,           \* operations it has begun
  outcome,       \* the answer its last operation returned
  data,          \* its read buffer: whose value, its length, the bytes written
  reported,      \* the attributeLength it was given
  lock,          \* the holder of device->operationLock
  pending,       \* device->pendingOperation
  pendingRead,   \* device->pendingRead
  complete,      \* device->operationComplete: the event and its status
  requests,      \* requests the peer has not answered
  events,        \* vendor events on their way to the I/O thread
  ioPc,          \* where the I/O thread is
  event,         \* the event it handles
  late,          \* operations given up too early
  fault          \* the assert that failed

device     == <<lock, pending, pendingRead, complete>>
callerData == <<op, ops, outcome, data, reported>>
ioVars     == <<events, ioPc, event>>
vars == <<vendor, pc, callerData, device, requests, ioVars, late, fault>>

Operations == [kind : Kinds, handle : Handles \cup {0}, capacity : Nat]
NoOp       == [kind |-> "idle", handle |-> 0, capacity |-> 0]
Answer     == [call : Calls, code : Codes]
NoAnswer   == [call |-> NoCall, code |-> "failed"]
Requests   == [call : Calls, kind : Kinds, handle : Handles \cup {0}]
Events     == [kind : {"ReadRsp", "WriteRsp", "ErrorRsp", "Complete"}, call : Calls,
               handle : Handles \cup {0}, code : Codes, length : ValueLengths \cup {0}]
Values     == [call : Calls \cup {NoCall}, length : Nat, written : Nat]
NoValue    == [call |-> NoCall, length |-> 0, written |-> 0]
NoEvent    == [kind |-> "none", call |-> NoCall, handle |-> 0, code |-> "ok", length |-> 0]

TypeOK ==
  /\ vendor \in Vendors
  /\ pc \in [Threads -> {"idle", "lock", "begin", "reset", "request", "ack",
                         "wait", "fetch", "finish", "release"}]
  /\ op \in [Threads -> Operations \cup {NoOp}]
  /\ ops \in [Threads -> Nat] /\ \A t \in Threads : ops[t] <= MaxOps[t]
  /\ outcome \in [Threads -> Answer \cup {NoAnswer}]
  /\ data \in [Threads -> Values]
  /\ reported \in [Threads -> Nat]
  /\ lock \in Threads \cup {NoCall}
  /\ pending \in [kind : Kinds \cup {"idle"}, handle : Handles \cup {0}]
  /\ pendingRead \in [call : Calls \cup {NoCall}, capacity : Nat, length : Nat]
  /\ complete \in [signaled : BOOLEAN, status : Answer \cup {NoAnswer}]
  /\ requests \in Seq(Requests)
  /\ events \in Seq(Events)
  /\ ioPc \in {"idle", "fill", "signal"}
  /\ event \in Events \cup {NoEvent}
  /\ late \in 0 .. MaxLate
  /\ fault \in {"none", "entry", "response"}

Init ==
  /\ vendor \in Vendors
  /\ pc = [t \in Threads |-> "idle"]
  /\ op = [t \in Threads |-> NoOp]
  /\ ops = [t \in Threads |-> 0]
  /\ outcome = [t \in Threads |-> NoAnswer]
  /\ data = [t \in Threads |-> NoValue]
  /\ reported = [t \in Threads |-> 0]
  /\ lock = NoCall
  /\ pending = [kind |-> "idle", handle |-> 0]
  /\ pendingRead = [call |-> NoCall, capacity |-> 0, length |-> 0]
  /\ complete = [signaled |-> FALSE, status |-> NoAnswer]
  /\ requests = <<>> /\ events = <<>>
  /\ ioPc = "idle" /\ event = NoEvent
  /\ late = 0 /\ fault = "none"

ThisCall(t) == <<t, ops[t]>>
Running == fault = "none"
Go(t, from, to) == Running /\ pc[t] = from /\ pc' = [pc EXCEPT ![t] = to]

-----------------------------------------------------------------------------
(* The caller.                                                             *)

OperationsOn(h) == {[kind |-> "discover", handle |-> 0, capacity |-> 0],
                    [kind |-> "write", handle |-> h, capacity |-> 0],
                    [kind |-> "read", handle |-> h, capacity |-> Capacity[h]]}

(* An operation on the device, which is connected and has a vendor.        *)
Call(t) ==
  /\ Go(t, "idle", "lock") /\ ops[t] < MaxOps[t]
  /\ \E h \in Handles : \E o \in OperationsOn(h) : op' = [op EXCEPT ![t] = o]
  /\ ops' = [ops EXCEPT ![t] = @ + 1]
  /\ outcome' = [outcome EXCEPT ![t] = NoAnswer]
  /\ data' = [data EXCEPT ![t] = NoValue]
  /\ reported' = [reported EXCEPT ![t] = 0]
  /\ UNCHANGED <<vendor, device, requests, ioVars, late, fault>>

(* os_lock, and the asserts that the device is idle.                       *)
Anyone == TRUE   \* mutant
Free == lock = NoCall
Lock(t) ==
  /\ Free
  /\ Go(t, "lock", "begin")
  /\ lock' = t
  /\ fault' = IF pending = [kind |-> "idle", handle |-> 0] THEN "none" ELSE "entry"
  /\ UNCHANGED <<vendor, callerData, pending, pendingRead, complete, requests, ioVars, late>>

NewCapacity(t) == op[t].capacity
Begin(t) ==
  /\ Go(t, "begin", "reset")
  /\ pending' = [kind |-> op[t].kind, handle |-> op[t].handle]
  /\ pendingRead' = IF op[t].kind # "read" THEN pendingRead
       ELSE [call |-> ThisCall(t), capacity |-> NewCapacity(t), length |-> 0]
  /\ UNCHANGED <<vendor, callerData, lock, complete, requests, ioVars, late, fault>>

KeepSignal == complete   \* mutant
Unsignaled == [signaled |-> FALSE, status |-> NoAnswer]
Reset(t) ==
  /\ Go(t, "reset", "request")
  /\ complete' = Unsignaled
  /\ UNCHANGED <<vendor, callerData, lock, pending, pendingRead, requests, ioVars, late, fault>>

(* The vendor's command is on its way ...                                  *)
Request(t) ==
  /\ Go(t, "request", "ack")
  /\ requests' = Append(requests, [call |-> ThisCall(t), kind |-> op[t].kind,
                                   handle |-> op[t].handle])
  /\ UNCHANGED <<vendor, callerData, device, ioVars, late, fault>>

(* ... or the controller refuses it: the operation fails.                  *)
Refused(t) ==
  /\ Go(t, "request", "finish")
  /\ UNCHANGED <<vendor, callerData, device, requests, ioVars, late, fault>>

(* lb_executeCommand returns LB_OK ...                                     *)
Acknowledged(t) ==
  /\ Go(t, "ack", "wait")
  /\ UNCHANGED <<vendor, callerData, device, requests, ioVars, late, fault>>

(* An answer to the operation of t may still come.                         *)
Expected(t) ==
  \/ \E i \in DOMAIN requests : requests[i].call = ThisCall(t)
  \/ \E i \in DOMAIN events : events[i].call = ThisCall(t)
  \/ ioPc # "idle" /\ event.call = ThisCall(t)

(* A wait that runs out before the answer that is on its way is bounded.   *)
RunsOut(t) == IF Expected(t) THEN late < MaxLate /\ late' = late + 1 ELSE late' = late

(* ... or its own wait runs out, although the command was received.        *)
AckTimeout(t) ==
  /\ Go(t, "ack", "finish")
  /\ RunsOut(t)
  /\ UNCHANGED <<vendor, callerData, device, requests, ioVars, fault>>

(* os_waitForCondition returns true, with the status of the event.         *)
Wake(t) ==
  /\ complete.signaled
  /\ Go(t, "wait", IF op[t].kind = "read" THEN "fetch" ELSE "finish")
  /\ outcome' = [outcome EXCEPT ![t] = complete.status]
  /\ UNCHANGED <<vendor, op, ops, data, reported, device, requests, ioVars, late, fault>>

Fetch(t) ==
  /\ Go(t, "fetch", "finish")
  /\ reported' = [reported EXCEPT ![t] = pendingRead.length]
  /\ UNCHANGED <<vendor, op, ops, outcome, data, device, requests, ioVars, late, fault>>

(* os_waitForCondition returns false.                                      *)
WaitAgain(t) ==   \* mutant
  /\ Running /\ pc[t] = "wait" /\ ~complete.signaled
  /\ UNCHANGED vars
Timeout(t) ==
  /\ ~complete.signaled
  /\ Go(t, "wait", "finish")
  /\ RunsOut(t)
  /\ UNCHANGED <<vendor, callerData, device, requests, ioVars, fault>>

(* done: the device is idle again.                                         *)
StillPending == pending   \* mutant
Idle == [kind |-> "idle", handle |-> 0]
Finish(t) ==
  /\ Go(t, "finish", "release")
  /\ pending' = Idle
  /\ UNCHANGED <<vendor, callerData, lock, pendingRead, complete, requests, ioVars, late, fault>>

Release(t) ==
  /\ Go(t, "release", "idle")
  /\ lock' = NoCall
  /\ UNCHANGED <<vendor, callerData, pending, pendingRead, complete, requests, ioVars, late, fault>>

-----------------------------------------------------------------------------
(* The peer answers the requests in order; each vendor in its own words.   *)
Answers(r) ==
  LET say(kind, code, n) == [kind |-> kind, call |-> r.call, handle |-> r.handle,
                             code |-> code, length |-> n]
  IN IF vendor = "TI"
     THEN {<<say("ErrorRsp", "failed", 0)>>} \cup
          CASE r.kind = "read"     -> {<<say("ReadRsp", "ok", n)>> : n \in ValueLengths}
            [] r.kind = "write"    -> {<<say("WriteRsp", "ok", 0)>>}
            [] r.kind = "discover" -> {<<say("Complete", "ok", 0)>>}
     ELSE {<<say("Complete", "failed", 0)>>} \cup
          IF r.kind = "read"
          THEN {<<say("ReadRsp", "ok", n), say("Complete", "ok", 0)>> : n \in ValueLengths}
          ELSE {<<say("Complete", "ok", 0)>>}

Serve ==
  /\ Running /\ requests # <<>>
  /\ \E answer \in Answers(Head(requests)) : events' = events \o answer
  /\ requests' = Tail(requests)
  /\ UNCHANGED <<vendor, pc, callerData, device, ioPc, event, late, fault>>

-----------------------------------------------------------------------------
(* The I/O thread: the vendor event handlers.                              *)

Takes(kind) ==
  /\ Running /\ ioPc = "idle" /\ events # <<>> /\ Head(events).kind = kind
  /\ event' = Head(events) /\ events' = Tail(events)
  /\ UNCHANGED <<vendor, pc, callerData, device, requests, late>>

(* The asserts of a handler hold, and it goes on; or the process dies.     *)
Asserting(holds, next) ==
  IF holds THEN ioPc' = next /\ fault' = fault
           ELSE ioPc' = "idle" /\ fault' = "response"

(* A read response is for the read in progress, whichever that is.         *)
ReadRsp == /\ Takes("ReadRsp")
           /\ Asserting(pending.kind = "read" /\ pending.handle # 0, "fill")

WriteRsp == /\ Takes("WriteRsp")
            /\ Asserting(pending.kind = "write" /\ pending.handle # 0, "signal")

(* TI: an error ends a read or a write, and is ignored otherwise.          *)
ErrorRsp ==
  /\ Takes("ErrorRsp")
  /\ IF pending.kind \in {"read", "write"}
     THEN Asserting(Head(events).handle = pending.handle, "signal")
     ELSE ioPc' = "idle" /\ fault' = fault

(* The end of a discovery; with ST of every procedure.                     *)
Complete ==
  /\ Takes("Complete")
  /\ Asserting(\/ vendor = "TI" \/ pending.kind = "discover"
               \/ pending.kind \in {"read", "write"} /\ pending.handle # 0, "signal")

(* memcpy into the reader's buffer: as many bytes as the value has, but no *)
(* fewer than the buffer has room for.                                     *)
Shortfall == event.length - pendingRead.capacity   \* mutant
Copied == IF event.length < pendingRead.capacity THEN pendingRead.capacity ELSE event.length
Fill ==
  /\ Running /\ ioPc = "fill"
  /\ data' = [t \in Threads |->
       IF pc[t] # "idle" /\ pendingRead.call = ThisCall(t)
       THEN [call |-> event.call, length |-> event.length, written |-> Copied] ELSE data[t]]
  /\ pendingRead' = [pendingRead EXCEPT !.length = Copied]
  /\ ioPc' = IF vendor = "TI" THEN "signal" ELSE "idle"
  /\ UNCHANGED <<vendor, pc, op, ops, outcome, reported, lock, pending, complete,
                 requests, events, event, late, fault>>

(* os_signalCondition; the end of a discovery is a success in any case.    *)
Code == IF event.kind = "Complete" /\ pending.kind \notin {"read", "write"}
        THEN "ok" ELSE event.code
Signal ==
  /\ Running /\ ioPc = "signal"
  /\ complete' = [signaled |-> TRUE, status |-> [call |-> event.call, code |-> Code]]
  /\ ioPc' = "idle" /\ event' = NoEvent
  /\ UNCHANGED <<vendor, pc, callerData, lock, pending, pendingRead, requests,
                 events, late, fault>>

-----------------------------------------------------------------------------
CallerStep(t) ==
  \/ Lock(t) \/ Begin(t) \/ Reset(t) \/ Request(t) \/ Refused(t) \/ Acknowledged(t)
  \/ AckTimeout(t) \/ Wake(t) \/ Fetch(t) \/ Timeout(t) \/ Finish(t) \/ Release(t)

IoStep == ReadRsp \/ WriteRsp \/ ErrorRsp \/ Complete \/ Fill \/ Signal

Finished ==
  /\ \/ ~Running
     \/ \A t \in Threads : pc[t] = "idle" /\ ops[t] = MaxOps[t]
  /\ UNCHANGED vars

Next == \/ \E t \in Threads : Call(t) \/ CallerStep(t)
        \/ Serve
        \/ IoStep
        \/ Finished

Spec == Init /\ [][Next]_vars

(* Threads run, and the peer answers; the waits of the callers end anyway. *)
FairSpec == /\ Spec
            /\ \A t \in Threads : WF_vars(CallerStep(t))
            /\ WF_vars(Serve) /\ WF_vars(IoStep)

-----------------------------------------------------------------------------
(* Every operation finds the device idle: the asserts behind os_lock hold, *)
(* whatever the operations before it ended with.                           *)
EntryIdle == fault # "entry"

(* As long as no operation was given up while its answer was to come, every*)
(* answer finds the operation it answers: the asserts of the vendor event  *)
(* handlers hold.  (A late answer fails them.)                             *)
ResponseExpected == late = 0 => fault # "response"

(* Up to then an operation that returns an answer returns its own, and a   *)
(* read that succeeds holds the value of its own attribute.  The length it *)
(* is told is that of the value, unless the value is shorter than the      *)
(* buffer; the buffer is overrun if the value is longer, and only then.    *)
OwnAnswer ==
  late = 0 => \A t \in Threads : pc[t] = "idle" /\ outcome[t] # NoAnswer =>
    /\ outcome[t].call = ThisCall(t)
    /\ outcome[t].code = "ok" /\ op[t].kind = "read" =>
         /\ data[t].call = ThisCall(t)
         /\ reported[t] = data[t].length \/ data[t].length < op[t].capacity
         /\ data[t].written > op[t].capacity <=> data[t].length > op[t].capacity

(* Every operation returns, or the process dies.                           *)
OperationsReturn ==
  \A t \in Threads : pc[t] # "idle" ~> (pc[t] = "idle" \/ ~Running)
=============================================================================
