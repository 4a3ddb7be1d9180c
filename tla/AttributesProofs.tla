-------------------------- MODULE AttributesProofs --------------------------
(***************************************************************************)
(* Proofs about Attributes, for every number of threads and operations and *)
(* with either vendor: an operation finds the device idle, whatever the    *)
(* ones before it ended with; and until one is given up before its answer  *)
(* (late = 0), each answer finds its operation and each operation its      *)
(* answer.                                                                 *)
(***************************************************************************)
EXTENDS Attributes, SequenceTheorems, TLAPS

(* A thread that is past os_lock and before os_unlock.                     *)
Inside == {"begin", "reset", "request", "ack", "wait", "fetch", "finish", "release"}

Typed == /\ pc \in [Threads -> {"idle", "lock"} \cup Inside]
         /\ lock \in Threads \cup {NoCall}

(* The threads inside hold the lock, so there is one at most ...           *)
HolderInside == \A t \in Threads : pc[t] \in Inside => lock = t

(* ... and pendingOperation is idle whenever the lock is free, just taken  *)
(* or about to be given back.                                              *)
IdleOutside ==
  (lock = NoCall \/ \E t \in Threads : lock = t /\ pc[t] \in {"begin", "release"})
    => (fault # "entry" => pending = Idle)

EntryInv == Typed /\ HolderInside /\ IdleOutside /\ EntryIdle

(* What the steps of the I/O thread and of the peer leave alone.           *)
LEMMA OthersStep ==
  ASSUME EntryInv, Serve \/ IoStep \/ Finished
  PROVE  /\ UNCHANGED <<pc, lock, pending>>
         /\ fault' # "entry"
<1>1. CASE Serve BY <1>1 DEF Serve, device, EntryInv, EntryIdle
<1>2. CASE Finished BY <1>2 DEF Finished, vars, device, EntryInv, EntryIdle
<1>3. CASE ReadRsp
  BY <1>3 DEF ReadRsp, Takes, Asserting, device, EntryInv, EntryIdle
<1>4. CASE WriteRsp
  BY <1>4 DEF WriteRsp, Takes, Asserting, device, EntryInv, EntryIdle
<1>5. CASE ErrorRsp
  BY <1>5 DEF ErrorRsp, Takes, Asserting, device, EntryInv, EntryIdle
<1>6. CASE Complete
  BY <1>6 DEF Complete, Takes, Asserting, device, EntryInv, EntryIdle
<1>7. CASE Fill BY <1>7 DEF Fill, device, EntryInv, EntryIdle
<1>8. CASE Signal BY <1>8 DEF Signal, EntryInv, EntryIdle
<1> QED BY <1>1, <1>2, <1>3, <1>4, <1>5, <1>6, <1>7, <1>8 DEF IoStep

(* A step that moves one thread within Inside, and leaves lock, pending    *)
(* and fault alone, keeps the invariant.                                   *)
LEMMA MoveInside ==
  ASSUME EntryInv, NEW t \in Threads, NEW from \in Inside, NEW to \in Inside \ {"begin", "release"},
         Go(t, from, to), UNCHANGED <<lock, fault>>
  PROVE  EntryInv'
<1>1. lock = t /\ lock' = t
  BY DEF Go, EntryInv, HolderInside
<1>2. Typed'
  BY DEF Go, EntryInv, Typed
<1>3. HolderInside'
  BY <1>1 DEF Go, EntryInv, HolderInside, Typed
<1>4. lock' # NoCall
  BY <1>1, CallAssumption
<1>5. IdleOutside'
  BY <1>1, <1>4 DEF Go, EntryInv, IdleOutside, Typed, Inside
<1> QED BY <1>2, <1>3, <1>5 DEF EntryInv, EntryIdle

LEMMA EntryInit == Init => EntryInv
  BY DEF Init, EntryInv, Typed, HolderInside, IdleOutside, EntryIdle, Idle, Inside

LEMMA EntryStep == EntryInv /\ [Next]_vars => EntryInv'
<1> SUFFICES ASSUME EntryInv, [Next]_vars PROVE EntryInv'
  OBVIOUS
<1>1. CASE UNCHANGED vars
  BY <1>1 DEF vars, device, EntryInv, Typed, HolderInside, IdleOutside, EntryIdle
<1>2. CASE Serve \/ IoStep \/ Finished
  BY <1>2, OthersStep DEF EntryInv, Typed, HolderInside, IdleOutside, EntryIdle
<1>3. ASSUME NEW t \in Threads, Call(t) PROVE EntryInv'
  <2>1. Go(t, "idle", "lock") /\ UNCHANGED <<lock, pending, fault>>
    BY <1>3 DEF Call, device
  <2> QED BY <2>1 DEF Go, EntryInv, Typed, HolderInside, IdleOutside, EntryIdle, Inside
<1>4. ASSUME NEW t \in Threads, Lock(t) PROVE EntryInv'
  <2>1. pending = Idle
    BY <1>4 DEF Lock, Free, EntryInv, IdleOutside, EntryIdle
  <2>2. fault' = "none" /\ pending' = Idle
    BY <1>4, <2>1 DEF Lock, Idle
  <2>3. Typed' /\ HolderInside'
    <3>1. \A u \in Threads : pc[u] \notin Inside
      BY <1>4, CallAssumption DEF Lock, Free, EntryInv, HolderInside
    <3> QED BY <1>4, <3>1 DEF Lock, Go, EntryInv, Typed, HolderInside, Inside
  <2> QED BY <2>2, <2>3 DEF EntryInv, IdleOutside, EntryIdle
<1>5. ASSUME NEW t \in Threads, Begin(t) PROVE EntryInv'
  BY <1>5, MoveInside DEF Begin, Inside
<1>6. ASSUME NEW t \in Threads, Reset(t) PROVE EntryInv'
  BY <1>6, MoveInside DEF Reset, Inside
<1>7. ASSUME NEW t \in Threads,
             Request(t) \/ Refused(t) \/ Acknowledged(t) \/ AckTimeout(t) \/ Fetch(t) \/ Timeout(t)
      PROVE EntryInv'
  <2>1. UNCHANGED <<lock, fault>>
    BY <1>7 DEF Request, Refused, Acknowledged, AckTimeout, Fetch, Timeout, device
  <2>2. \/ Go(t, "request", "ack") \/ Go(t, "request", "finish") \/ Go(t, "ack", "wait")
        \/ Go(t, "ack", "finish") \/ Go(t, "fetch", "finish") \/ Go(t, "wait", "finish")
    BY <1>7 DEF Request, Refused, Acknowledged, AckTimeout, Fetch, Timeout
  <2> QED BY <2>1, <2>2, MoveInside DEF Inside
<1>8. ASSUME NEW t \in Threads, Wake(t) PROVE EntryInv'
  <2>1. Go(t, "wait", "fetch") \/ Go(t, "wait", "finish")
    BY <1>8 DEF Wake
  <2>2. UNCHANGED <<lock, fault>>
    BY <1>8 DEF Wake, device
  <2> QED BY <2>1, <2>2, MoveInside DEF Inside
<1>9. ASSUME NEW t \in Threads, Finish(t) PROVE EntryInv'
  <2>1. lock = t /\ UNCHANGED <<lock, fault>> /\ pending' = Idle
    BY <1>9 DEF Finish, Go, EntryInv, HolderInside, Inside
  <2> QED
    BY <1>9, <2>1 DEF Finish, Go, EntryInv, Typed, HolderInside, IdleOutside, EntryIdle, Inside
<1>10. ASSUME NEW t \in Threads, Release(t) PROVE EntryInv'
  <2>1. lock = t /\ pending = Idle
    BY <1>10 DEF Release, Go, EntryInv, HolderInside, IdleOutside, EntryIdle, Inside
  <2>2. \A u \in Threads : pc'[u] \notin Inside
    BY <1>10, <2>1 DEF Release, Go, EntryInv, Typed, HolderInside, Inside
  <2>3. pending' = Idle /\ fault' = fault /\ Typed'
    BY <1>10, <2>1 DEF Release, Go, EntryInv, Typed
  <2> QED BY <2>2, <2>3 DEF EntryInv, HolderInside, IdleOutside, EntryIdle
<1> QED
  BY <1>1, <1>2, <1>3, <1>4, <1>5, <1>6, <1>7, <1>8, <1>9, <1>10 DEF Next, CallerStep

(* Whatever an operation ends with (an answer, a timeout, a refusal, an    *)
(* answer that comes too late), the next one finds the device idle: the    *)
(* asserts at the entry of the operations of commands.c never fail.        *)
THEOREM EntriesFindIdle == Spec => []EntryIdle
<1>1. EntryInv => EntryIdle
  BY DEF EntryInv
<1> QED BY <1>1, EntryInit, EntryStep, PTL DEF Spec

-----------------------------------------------------------------------------
(* Until an operation is given up before its answer.                       *)

(* What is on its way, from the request to the signal.                     *)
InFlight == requests # <<>> \/ events # <<>> \/ ioPc # "idle"

Tabled ==
  /\ late \in Nat
  /\ op = [t \in Threads |-> op[t]] /\ ops = [t \in Threads |-> ops[t]]
  /\ outcome = [t \in Threads |-> outcome[t]]
  /\ pendingRead = [call |-> pendingRead.call, capacity |-> pendingRead.capacity,
                    length |-> pendingRead.length]
  /\ data = [t \in Threads |-> data[t]] /\ reported = [t \in Threads |-> reported[t]]

Sensible(t) ==
  pc[t] # "idle" => \/ op[t].kind = "discover" /\ op[t].handle = 0
                    \/ op[t].kind = "write" /\ op[t].handle \in Handles
                    \/ /\ op[t].kind = "read" /\ op[t].handle \in Handles
                       /\ op[t].capacity = Capacity[op[t].handle]

(* The device knows the operation of the thread inside.                    *)
Noted(t) ==
  pc[t] \in {"reset", "request", "ack", "wait", "fetch", "finish"} =>
    /\ pending = [kind |-> op[t].kind, handle |-> op[t].handle]
    /\ op[t].kind = "read" => pendingRead.call = ThisCall(t) /\ pendingRead.capacity = op[t].capacity

(* The length n goes with the value in the buffer of t: it is right if the *)
(* value fills the buffer, and a value that fits does not overrun it.      *)
Measures(t, n) ==
  /\ n = data[t].length \/ data[t].length < op[t].capacity
  /\ data[t].written > op[t].capacity <=> data[t].length > op[t].capacity

Filled(t) == data[t].call = ThisCall(t) /\ Measures(t, pendingRead.length)
Right(t, answer) == /\ answer.call = ThisCall(t)
                    /\ answer.code = "ok" /\ op[t].kind = "read" => Filled(t)

(* The stages of an answer to the operation of t.                          *)
RequestOf(t) == [call |-> ThisCall(t), kind |-> op[t].kind, handle |-> op[t].handle]
EventOf(t, kind, code, n) == [kind |-> kind, call |-> ThisCall(t), handle |-> op[t].handle,
                              code |-> code, length |-> n]

Asked(t)    == ioPc = "idle" /\ events = <<>> /\ requests = <<RequestOf(t)>>
Answered(t) == ioPc = "idle" /\ requests = <<>> /\ events \in Answers(RequestOf(t))
Filling(t)  == /\ ioPc = "fill" /\ requests = <<>> /\ op[t].kind = "read"
               /\ \E n \in ValueLengths : event = EventOf(t, "ReadRsp", "ok", n)
               /\ events = IF vendor = "TI" THEN <<>> ELSE <<EventOf(t, "Complete", "ok", 0)>>
Completing(t) == /\ ioPc = "idle" /\ requests = <<>> /\ op[t].kind = "read" /\ Filled(t)
                 /\ vendor # "TI" /\ events = <<EventOf(t, "Complete", "ok", 0)>>
Signaling(t) == /\ ioPc = "signal" /\ requests = <<>> /\ events = <<>>
                /\ Right(t, event)

InStage(t) == Asked(t) \/ Answered(t) \/ Filling(t) \/ Completing(t) \/ Signaling(t)

(* What is on its way is for the thread inside, which waits for it ...     *)
OneAnswer ==
  InFlight => \E t \in Threads : /\ lock = t /\ pc[t] \in {"ack", "wait"}
                                 /\ complete = Unsignaled /\ InStage(t)

(* ... and what was signaled is right.                                     *)
Settled(t) ==
  /\ pc[t] = "request" => complete = Unsignaled
  /\ pc[t] \in {"ack", "wait"} /\ complete.signaled => Right(t, complete.status)
  /\ pc[t] = "fetch" => Right(t, outcome[t])
  /\ pc[t] \notin {"idle", "fetch", "finish", "release"} => outcome[t] = NoAnswer
  /\ pc[t] \in {"idle", "finish", "release"} /\ outcome[t] # NoAnswer =>
       /\ outcome[t].call = ThisCall(t)
       /\ outcome[t].code = "ok" /\ op[t].kind = "read" =>
            data[t].call = ThisCall(t) /\ Measures(t, reported[t])

Unsurprised == fault # "response"

AnswerInv ==
  /\ EntryInv /\ Tabled /\ OneAnswer /\ Unsurprised
  /\ \A t \in Threads : Sensible(t) /\ Noted(t) /\ Settled(t)

-----------------------------------------------------------------------------
(* Tuples of one or two events.                                            *)

LEMMA OneTuple ==
  ASSUME NEW a
  PROVE  /\ <<a>> # <<>> /\ Head(<<a>>) = a /\ Tail(<<a>>) = <<>> /\ <<>> \o <<a>> = <<a>>
         /\ Append(<<>>, a) = <<a>> /\ 1 \in DOMAIN <<a>> /\ <<a>>[1] = a
OBVIOUS

LEMMA TwoTuple ==
  ASSUME NEW a, NEW b
  PROVE  /\ <<a, b>> # <<>> /\ Head(<<a, b>>) = a /\ Tail(<<a, b>>) = <<b>>
         /\ <<>> \o <<a, b>> = <<a, b>> /\ 1 \in DOMAIN <<a, b>> /\ <<a, b>>[1] = a
OBVIOUS

(* The answers to the operation of t.                                      *)
LEMMA AnswerForms ==
  ASSUME NEW t \in Threads, Sensible(t), pc[t] # "idle", NEW a \in Answers(RequestOf(t))
  PROVE  \/ vendor = "TI" /\ a = <<EventOf(t, "ErrorRsp", "failed", 0)>>
         \/ vendor # "TI" /\ a = <<EventOf(t, "Complete", "failed", 0)>>
         \/ /\ vendor = "TI" /\ op[t].kind = "read"
            /\ \E n \in ValueLengths : a = <<EventOf(t, "ReadRsp", "ok", n)>>
         \/ vendor = "TI" /\ op[t].kind = "write" /\ a = <<EventOf(t, "WriteRsp", "ok", 0)>>
         \/ vendor = "TI" /\ op[t].kind = "discover" /\ a = <<EventOf(t, "Complete", "ok", 0)>>
         \/ /\ vendor # "TI" /\ op[t].kind = "read"
            /\ \E n \in ValueLengths : a = <<EventOf(t, "ReadRsp", "ok", n), EventOf(t, "Complete", "ok", 0)>>
         \/ vendor # "TI" /\ op[t].kind # "read" /\ a = <<EventOf(t, "Complete", "ok", 0)>>
BY DEF Answers, RequestOf, EventOf, Sensible

LEMMA StageExpected ==
  ASSUME NEW t \in Threads, Sensible(t), pc[t] # "idle", InStage(t)
  PROVE  Expected(t)
<1>1. CASE Asked(t)
  BY <1>1, OneTuple DEF Asked, RequestOf, Expected
<1>2. CASE Answered(t)
  <2>1. 1 \in DOMAIN events /\ events[1].call = ThisCall(t)
    BY <1>2, AnswerForms, OneTuple, TwoTuple DEF Answered, EventOf
  <2> QED BY <2>1 DEF Expected
<1>3. CASE Filling(t)
  BY <1>3 DEF Filling, EventOf, Expected
<1>4. CASE Completing(t)
  BY <1>4, OneTuple DEF Completing, EventOf, Expected
<1>5. CASE Signaling(t)
  BY <1>5 DEF Signaling, Right, Expected
<1> QED BY <1>1, <1>2, <1>3, <1>4, <1>5 DEF InStage

LEMMA StageInFlight ==
  ASSUME NEW t \in Threads, Sensible(t), pc[t] # "idle", InStage(t)
  PROVE  InFlight
<1>1. CASE Answered(t)
  BY <1>1, AnswerForms, OneTuple, TwoTuple DEF Answered, InFlight
<1> QED BY <1>1, OneTuple DEF InStage, Asked, Filling, Completing, Signaling, InFlight

(* A step that leaves the channel and the operation of t alone.            *)
LEMMA StageKept ==
  ASSUME NEW t \in Threads, InStage(t), UNCHANGED <<vendor, requests, ioVars, pendingRead>>,
         op'[t] = op[t], ops'[t] = ops[t], data'[t] = data[t]
  PROVE  InStage(t)'
BY DEF InStage, Asked, Answered, Filling, Completing, Signaling, Right, Filled, Measures, RequestOf, EventOf,
   ThisCall, Answers, ioVars

Untouched(u) == /\ pc'[u] = pc[u] /\ op'[u] = op[u] /\ ops'[u] = ops[u]
                /\ outcome'[u] = outcome[u] /\ data'[u] = data[u] /\ reported'[u] = reported[u]

(* A thread that a step does not touch keeps its part of the invariant, if *)
(* it is outside or the device is not touched either.                      *)
LEMMA OthersKept ==
  ASSUME AnswerInv, NEW u \in Threads, Untouched(u),
         pc[u] \notin Inside \/ UNCHANGED <<pending, pendingRead, complete>>
  PROVE  Sensible(u)' /\ Noted(u)' /\ Settled(u)'
<1>1. Sensible(u) /\ Noted(u) /\ Settled(u)
  BY DEF AnswerInv
<1>2. Sensible(u)'
  BY <1>1 DEF Sensible, Untouched
<1>3. Noted(u)'
  BY <1>1 DEF Noted, Untouched, ThisCall, Inside
<1>4. Settled(u)'
  BY <1>1 DEF Settled, Untouched, ThisCall, Inside, Right, Filled, Measures, Unsignaled
<1> QED BY <1>2, <1>3, <1>4

-----------------------------------------------------------------------------
(* A step of one thread that leaves the channel alone.                     *)
LEMMA CallerKeeps ==
  ASSUME AnswerInv, NEW t \in Threads, EntryInv', Tabled', Unsurprised',
         UNCHANGED <<vendor, requests, ioVars>>,
         \A u \in Threads \ {t} : Untouched(u),
         pc[t] \in Inside \/ UNCHANGED <<pending, pendingRead, complete>>,
         Sensible(t)', Noted(t)', Settled(t)',
         InFlight => /\ pc[t] \in {"ack", "wait"} => pc'[t] \in {"ack", "wait"}
                     /\ UNCHANGED <<lock, pendingRead, complete>>
                     /\ pc[t] # "idle" => op'[t] = op[t] /\ ops'[t] = ops[t] /\ data'[t] = data[t]
  PROVE  AnswerInv'
<1>1. \A u \in Threads : Sensible(u)' /\ Noted(u)' /\ Settled(u)'
  <2>1. ASSUME NEW u \in Threads \ {t} PROVE pc[u] \notin Inside \/ UNCHANGED <<pending, pendingRead, complete>>
    BY DEF AnswerInv, EntryInv, HolderInside
  <2> QED BY <2>1, OthersKept
<1>2. OneAnswer'
  <2> SUFFICES ASSUME InFlight' PROVE \E v \in Threads : /\ lock' = v /\ pc'[v] \in {"ack", "wait"}
                                 /\ complete' = Unsignaled /\ InStage(v)'
    BY DEF OneAnswer, Unsignaled
  <2>1. InFlight
    BY DEF InFlight, ioVars
  <2>2. PICK v \in Threads : /\ lock = v /\ pc[v] \in {"ack", "wait"}
                             /\ complete = Unsignaled /\ InStage(v)
    BY <2>1 DEF AnswerInv, OneAnswer
  <2>3. pc'[v] \in {"ack", "wait"} /\ op'[v] = op[v] /\ ops'[v] = ops[v] /\ data'[v] = data[v]
    BY <2>1, <2>2 DEF Untouched
  <2>4. UNCHANGED <<lock, pendingRead, complete>>
    BY <2>1
  <2>5. InStage(v)'
    BY <2>2, <2>3, <2>4, StageKept
  <2> QED BY <2>2, <2>3, <2>4, <2>5
<1> QED BY <1>1, <1>2 DEF AnswerInv

LEMMA AnswerCallers ==
  ASSUME late' = 0, AnswerInv, EntryInv', NEW t \in Threads, Call(t) \/ CallerStep(t)
  PROVE  AnswerInv'
<1> USE DEF Go, ThisCall
<1>1. EntryInv /\ Tabled /\ OneAnswer /\ Unsurprised /\ Sensible(t) /\ Noted(t) /\ Settled(t)
  BY DEF AnswerInv
<1>2. pc = [u \in Threads |-> pc[u]] /\ (pc[t] \in Inside => lock = t)
  BY <1>1 DEF EntryInv, Typed, HolderInside
<1>3. InFlight => \E h \in Threads : lock = h /\ pc[h] \in {"ack", "wait"} /\ complete = Unsignaled
  BY <1>1 DEF OneAnswer
<1>4. InFlight /\ pc[t] \in Inside => pc[t] \in {"ack", "wait"} /\ complete = Unsignaled /\ Expected(t)
  <2> SUFFICES ASSUME InFlight, pc[t] \in Inside
               PROVE pc[t] \in {"ack", "wait"} /\ complete = Unsignaled /\ Expected(t)
    OBVIOUS
  <2>1. PICK h \in Threads : lock = h /\ pc[h] \in {"ack", "wait"} /\ complete = Unsignaled /\ InStage(h)
    BY <1>1 DEF OneAnswer
  <2> QED BY <1>1, <1>2, <2>1, StageExpected
<1>5. CASE Call(t)
  <2>1. PICK h \in Handles : \E o \in OperationsOn(h) : op' = [op EXCEPT ![t] = o]
    BY <1>5 DEF Call
  <2>2. PICK o \in OperationsOn(h) : op' = [op EXCEPT ![t] = o]
    BY <2>1
  <2>3. Sensible(t)'
    BY <1>1, <1>5, <2>2 DEF Call, OperationsOn, Sensible, Tabled
  <2>4. Noted(t)' /\ Settled(t)' /\ Tabled'
    BY <1>1, <1>2, <1>5, <2>2 DEF Call, Noted, Settled, Tabled, device
  <2>5. /\ \A u \in Threads \ {t} : Untouched(u)
        /\ UNCHANGED <<vendor, requests, ioVars, lock, pending, pendingRead, complete>>
        /\ Unsurprised' /\ pc[t] = "idle"
    BY <1>1, <1>2, <1>5, <2>2 DEF Call, Untouched, Tabled, device, Unsurprised
  <2> QED BY <2>3, <2>4, <2>5, CallerKeeps
<1>6. CASE Lock(t)
  <2>1. ~InFlight
    BY <1>3, <1>6, CallAssumption DEF Lock, Free
  <2>2. /\ \A u \in Threads \ {t} : Untouched(u)
        /\ UNCHANGED <<vendor, requests, ioVars, pending, pendingRead, complete>>
        /\ Unsurprised' /\ Tabled'
    BY <1>1, <1>2, <1>6 DEF Lock, Untouched, Tabled, callerData, Unsurprised
  <2>3. Sensible(t)' /\ Noted(t)' /\ Settled(t)'
    BY <1>1, <1>2, <1>6 DEF Lock, callerData, Sensible, Noted, Settled
  <2> QED BY <2>1, <2>2, <2>3, CallerKeeps
<1>7. CASE Begin(t)
  <2>1. ~InFlight /\ pc[t] \in Inside
    BY <1>4, <1>7 DEF Begin, Inside
  <2>2. /\ \A u \in Threads \ {t} : Untouched(u)
        /\ UNCHANGED <<vendor, requests, ioVars>> /\ Unsurprised' /\ Tabled'
    BY <1>1, <1>2, <1>7 DEF Begin, Untouched, Tabled, callerData, Unsurprised
  <2>3. Sensible(t)' /\ Noted(t)' /\ Settled(t)'
    BY <1>1, <1>2, <1>7 DEF Begin, callerData, Sensible, Noted, Settled, NewCapacity
  <2> QED BY <2>1, <2>2, <2>3, CallerKeeps
<1>8. CASE Reset(t)
  <2>1. ~InFlight /\ pc[t] \in Inside
    BY <1>4, <1>8 DEF Reset, Inside
  <2>2. /\ \A u \in Threads \ {t} : Untouched(u)
        /\ UNCHANGED <<vendor, requests, ioVars>> /\ Unsurprised' /\ Tabled'
    BY <1>1, <1>2, <1>8 DEF Reset, Untouched, Tabled, callerData, Unsurprised
  <2>3. Sensible(t)' /\ Noted(t)' /\ Settled(t)'
    BY <1>1, <1>2, <1>8 DEF Reset, callerData, Sensible, Noted, Settled
  <2> QED BY <2>1, <2>2, <2>3, CallerKeeps
<1>9. CASE Request(t)
  <2>1. requests = <<>> /\ events = <<>> /\ ioPc = "idle" /\ complete = Unsignaled /\ lock = t
    BY <1>1, <1>2, <1>4, <1>9 DEF Request, Inside, InFlight, Settled
  <2>2. /\ \A u \in Threads : u # t => Untouched(u)
        /\ UNCHANGED <<callerData, device, ioVars>> /\ Unsurprised' /\ Tabled'
        /\ pc'[t] = "ack" /\ requests' = Append(requests, RequestOf(t))
    BY <1>1, <1>2, <1>9 DEF Request, RequestOf, Untouched, Tabled, callerData, device, Unsurprised
  <2>3. Sensible(t)' /\ Noted(t)' /\ Settled(t)'
    BY <1>1, <1>2, <1>9, <2>1 DEF Request, callerData, device, Sensible, Noted, Settled, Unsignaled
  <2>4. \A u \in Threads : Sensible(u)' /\ Noted(u)' /\ Settled(u)'
    BY <2>2, <2>3, OthersKept DEF device
  <2>5. Asked(t)'
    BY <2>1, <2>2, OneTuple DEF Asked, RequestOf, callerData, ioVars
  <2>6. OneAnswer'
    BY <2>1, <2>2, <2>5 DEF OneAnswer, InStage, device, Unsignaled
  <2> QED BY <2>2, <2>4, <2>6 DEF AnswerInv
<1>10. CASE Refused(t) \/ Acknowledged(t) \/ AckTimeout(t) \/ Timeout(t) \/ Wake(t) \/ Fetch(t) \/ Release(t)
  <2>1. /\ \A u \in Threads \ {t} : Untouched(u)
        /\ UNCHANGED <<vendor, op, ops, data, pending, pendingRead, complete, requests, ioVars, fault>>
        /\ Tabled' /\ Unsurprised' /\ pc[t] \in Inside
    BY <1>1, <1>2, <1>10 DEF Refused, Acknowledged, AckTimeout, Timeout, Wake, Fetch, Release, Untouched,
       Tabled, callerData, device, Unsurprised, Inside, RunsOut
  <2>2. Sensible(t)' /\ Noted(t)' /\ Settled(t)'
    <3>1. Sensible(t)' /\ Noted(t)'
      BY <1>1, <1>2, <1>10, <2>1 DEF Refused, Acknowledged, AckTimeout, Timeout, Wake, Fetch, Release,
         Sensible, Noted
    <3>2. ASSUME Refused(t) \/ Acknowledged(t) \/ AckTimeout(t) \/ Timeout(t) PROVE Settled(t)'
      BY <1>1, <1>2, <2>1, <3>2 DEF Refused, Acknowledged, AckTimeout, Timeout, callerData, Settled,
         Right, Filled, Measures
    <3>3. ASSUME Wake(t) PROVE Settled(t)'
      BY <1>1, <1>2, <2>1, <3>3 DEF Wake, Settled, Right, Filled, Measures, Tabled
    <3>4. ASSUME Fetch(t) PROVE Settled(t)'
      BY <1>1, <1>2, <2>1, <3>4 DEF Fetch, Settled, Right, Filled, Measures, Tabled
    <3>5. ASSUME Release(t) PROVE Settled(t)'
      BY <1>1, <1>2, <2>1, <3>5 DEF Release, callerData, Settled, Measures
    <3> QED BY <1>10, <3>1, <3>2, <3>3, <3>4, <3>5
  <2>3. InFlight => Acknowledged(t)
    BY <1>4, <1>10, <2>1 DEF Refused, AckTimeout, Timeout, Wake, Fetch, Release, RunsOut, Unsignaled,
       Tabled, AnswerInv
  <2>4. InFlight => pc'[t] \in {"ack", "wait"} /\ UNCHANGED lock
    BY <1>2, <2>3 DEF Acknowledged, device
  <2> QED BY <2>1, <2>2, <2>4, CallerKeeps
<1>11. CASE Finish(t)
  <2>1. ~InFlight /\ pc[t] \in Inside
    BY <1>4, <1>11 DEF Finish, Inside
  <2>2. /\ \A u \in Threads \ {t} : Untouched(u)
        /\ UNCHANGED <<vendor, requests, ioVars>> /\ Unsurprised' /\ Tabled'
    BY <1>1, <1>2, <1>11 DEF Finish, Untouched, Tabled, callerData, Unsurprised
  <2>3. Sensible(t)' /\ Noted(t)' /\ Settled(t)'
    BY <1>1, <1>2, <1>11 DEF Finish, callerData, Sensible, Noted, Settled, Measures
  <2> QED BY <2>1, <2>2, <2>3, CallerKeeps
<1> QED BY <1>5, <1>6, <1>7, <1>8, <1>9, <1>10, <1>11 DEF CallerStep

-----------------------------------------------------------------------------
(* The peer and the I/O thread.                                            *)

(* A step that leaves the callers and what was signaled alone.             *)
LEMMA ChannelKeeps ==
  ASSUME AnswerInv, EntryInv', Unsurprised', late' = late,
         UNCHANGED <<vendor, pc, callerData, device>>,
         NEW t \in Threads, lock = t, pc[t] \in {"ack", "wait"}, complete = Unsignaled,
         InFlight' => InStage(t)'
  PROVE  AnswerInv'
<1>1. \A u \in Threads : Untouched(u)
  BY DEF Untouched, callerData
<1>2. \A u \in Threads : Sensible(u)' /\ Noted(u)' /\ Settled(u)'
  BY <1>1, OthersKept DEF device
<1>3. OneAnswer'
  BY DEF OneAnswer, device, Unsignaled
<1>4. Tabled'
  BY DEF AnswerInv, Tabled, callerData, device
<1> QED BY <1>2, <1>3, <1>4 DEF AnswerInv

LEMMA AnswerServe == ASSUME AnswerInv, EntryInv', Serve PROVE AnswerInv'
<1>1. PICK t \in Threads : lock = t /\ pc[t] \in {"ack", "wait"} /\ complete = Unsignaled /\ InStage(t)
  BY DEF AnswerInv, OneAnswer, Serve, InFlight
<1>2. Asked(t)
  BY <1>1 DEF Serve, InStage, Answered, Filling, Completing, Signaling
<1>3. /\ Head(requests) = RequestOf(t) /\ Tail(requests) = <<>> /\ events = <<>> /\ ioPc = "idle"
      /\ Sensible(t)
  BY <1>2, OneTuple DEF Asked, AnswerInv
<1>4. PICK a \in Answers(RequestOf(t)) : events' = events \o a
  BY <1>3 DEF Serve
<1>5. <<>> \o a = a
  BY <1>1, <1>3, AnswerForms, OneTuple, TwoTuple
<1>6. Answered(t)'
  <2>1. UNCHANGED <<vendor, op, ops, ioPc>> /\ requests' = <<>> /\ events' = a
    BY <1>3, <1>4, <1>5 DEF Serve, callerData
  <2>2. a \in Answers(RequestOf(t))'
    BY <1>4, <2>1 DEF Answers, RequestOf, ThisCall
  <2> QED BY <1>3, <2>1, <2>2 DEF Answered
<1>7. Unsurprised' /\ UNCHANGED <<vendor, pc, callerData, device, late>>
  BY DEF Serve, AnswerInv, Unsurprised
<1> QED BY <1>1, <1>6, <1>7, ChannelKeeps DEF InStage

(* A handler that takes an event.                                          *)
LEMMA AnswerTakes ==
  ASSUME AnswerInv, EntryInv', ReadRsp \/ WriteRsp \/ ErrorRsp \/ Complete
  PROVE  AnswerInv'
<1>1. PICK t \in Threads : lock = t /\ pc[t] \in {"ack", "wait"} /\ complete = Unsignaled /\ InStage(t)
  BY DEF AnswerInv, OneAnswer, ReadRsp, WriteRsp, ErrorRsp, Complete, Takes, InFlight
<1>2. /\ ioPc = "idle" /\ events # <<>> /\ fault = "none"
      /\ event' = Head(events) /\ events' = Tail(events)
      /\ UNCHANGED <<vendor, pc, callerData, device, requests, late>>
  BY DEF ReadRsp, WriteRsp, ErrorRsp, Complete, Takes, Running
<1>3. Sensible(t) /\ pending = [kind |-> op[t].kind, handle |-> op[t].handle]
  BY <1>1 DEF AnswerInv, Noted
<1>4. Answered(t) \/ Completing(t)
  BY <1>1, <1>2 DEF InStage, Asked, Filling, Signaling
<1>5. requests = <<>>
  BY <1>4 DEF Answered, Completing
<1>6. ReadRsp => Head(events).kind = "ReadRsp"
  BY DEF ReadRsp, Takes
<1>7. WriteRsp => Head(events).kind = "WriteRsp"
  BY DEF WriteRsp, Takes
<1>8. ErrorRsp => Head(events).kind = "ErrorRsp"
  BY DEF ErrorRsp, Takes
<1>9. Complete => Head(events).kind = "Complete"
  BY DEF Complete, Takes
<1>10. ASSUME Right(t, event'), events' = <<>>, fault' = "none", ioPc' \in {"signal", "idle"}
      PROVE AnswerInv'
  <2>1. InFlight' => Signaling(t)'
    BY <1>2, <1>5, <1>10 DEF InFlight, Signaling, Right, Filled, Measures, ThisCall, callerData, device
  <2> QED BY <1>1, <1>2, <1>10, <2>1, ChannelKeeps DEF InStage, Unsurprised
<1>11. ASSUME NEW k \in {"ErrorRsp", "WriteRsp", "Complete"}, NEW c \in Codes,
             events = <<EventOf(t, k, c, 0)>>,
             c = "ok" => op[t].kind # "read" \/ Filled(t),
             k = "ErrorRsp" => vendor = "TI",
             k = "WriteRsp" => op[t].kind = "write",
             k = "Complete" => vendor # "TI" \/ op[t].kind = "discover"
      PROVE AnswerInv'
  <2>1. /\ Head(events) = EventOf(t, k, c, 0) /\ events' = <<>> /\ event' = EventOf(t, k, c, 0)
    BY <1>2, <1>11, OneTuple
  <2>2. Right(t, event')
    BY <1>11, <2>1 DEF Right, EventOf
  <2>3. fault' = "none" /\ ioPc' \in {"signal", "idle"}
    <3>1. CASE k = "ErrorRsp"
      <4>1. ErrorRsp
        BY <1>6, <1>7, <1>8, <1>9, <2>1, <3>1 DEF EventOf
      <4> QED BY <1>2, <1>3, <2>1, <4>1 DEF ErrorRsp, Asserting, EventOf
    <3>2. CASE k = "WriteRsp"
      <4>1. WriteRsp
        BY <1>6, <1>7, <1>8, <1>9, <2>1, <3>2 DEF EventOf
      <4> QED BY <1>1, <1>2, <1>3, <1>11, <3>2, <4>1, HandleAssumption DEF WriteRsp, Asserting, Sensible
    <3>3. CASE k = "Complete"
      <4>1. Complete
        BY <1>6, <1>7, <1>8, <1>9, <2>1, <3>3 DEF EventOf
      <4> QED BY <1>1, <1>2, <1>3, <1>11, <3>3, <4>1, HandleAssumption DEF Complete, Asserting, Sensible
    <3> QED BY <3>1, <3>2, <3>3
  <2> QED BY <1>10, <2>1, <2>2, <2>3
<1>12. ASSUME NEW n \in ValueLengths, op[t].kind = "read", Head(events) = EventOf(t, "ReadRsp", "ok", n),
             Tail(events) = IF vendor = "TI" THEN <<>> ELSE <<EventOf(t, "Complete", "ok", 0)>>
      PROVE AnswerInv'
  <2>1. ReadRsp
    BY <1>12, <1>7, <1>8, <1>9 DEF EventOf
  <2>2. fault' = "none" /\ ioPc' = "fill"
    BY <1>1, <1>2, <1>3, <1>12, <2>1, HandleAssumption DEF ReadRsp, Asserting, Sensible
  <2>3. event' = EventOf(t, "ReadRsp", "ok", n)
    BY <1>2, <1>12
  <2>4. Filling(t)'
    BY <1>2, <1>5, <1>12, <2>2, <2>3 DEF Filling, EventOf, ThisCall, callerData
  <2> QED BY <1>1, <1>2, <2>2, <2>4, ChannelKeeps DEF InStage, Unsurprised
<1>13. CASE Completing(t)
  <2>1. events = <<EventOf(t, "Complete", "ok", 0)>> /\ Filled(t) /\ vendor # "TI"
    BY <1>13 DEF Completing
  <2> QED BY <1>11, <2>1 DEF Codes
<1>14. CASE Answered(t)
  <2>1. events \in Answers(RequestOf(t)) /\ pc[t] # "idle"
    BY <1>1, <1>14 DEF Answered
  <2>2. CASE \E n \in ValueLengths : /\ vendor = "TI" /\ op[t].kind = "read"
                                     /\ events = <<EventOf(t, "ReadRsp", "ok", n)>>
    BY <1>12, <2>2, OneTuple
  <2>3. CASE \E n \in ValueLengths :
               /\ vendor # "TI" /\ op[t].kind = "read"
               /\ events = <<EventOf(t, "ReadRsp", "ok", n), EventOf(t, "Complete", "ok", 0)>>
    BY <1>12, <2>3, TwoTuple
  <2>4. CASE vendor = "TI" /\ events = <<EventOf(t, "ErrorRsp", "failed", 0)>>
    BY <1>11, <2>4 DEF Codes
  <2>5. CASE vendor # "TI" /\ events = <<EventOf(t, "Complete", "failed", 0)>>
    BY <1>11, <2>5 DEF Codes
  <2>6. CASE vendor = "TI" /\ op[t].kind = "write" /\ events = <<EventOf(t, "WriteRsp", "ok", 0)>>
    BY <1>11, <2>6 DEF Codes
  <2>7. CASE \/ vendor = "TI" /\ op[t].kind = "discover"
             \/ vendor # "TI" /\ op[t].kind # "read"
    <3>1. CASE events = <<EventOf(t, "Complete", "ok", 0)>>
      BY <1>11, <2>7, <3>1 DEF Codes
    <3> QED BY <1>3, <2>1, <2>2, <2>3, <2>4, <2>5, <2>6, <2>7, <3>1, AnswerForms
  <2> QED BY <1>3, <2>1, <2>2, <2>3, <2>4, <2>5, <2>6, <2>7, AnswerForms
<1> QED BY <1>4, <1>13, <1>14

(* The value is copied into the buffer of the thread inside.               *)
LEMMA AnswerFills ==
  ASSUME AnswerInv, EntryInv', Fill
  PROVE  AnswerInv'
<1>1. PICK t \in Threads : lock = t /\ pc[t] \in {"ack", "wait"} /\ complete = Unsignaled /\ InStage(t)
  BY DEF AnswerInv, OneAnswer, Fill, InFlight
<1>2. Filling(t)
  BY <1>1 DEF Fill, InStage, Asked, Answered, Completing, Signaling
<1>3. /\ Sensible(t) /\ Noted(t) /\ Settled(t) /\ Tabled /\ op[t].kind = "read"
      /\ op[t].capacity = Capacity[op[t].handle] /\ op[t].handle \in Handles
      /\ pendingRead.call = ThisCall(t) /\ pendingRead.capacity = op[t].capacity
  BY <1>1, <1>2 DEF AnswerInv, Filling, Sensible, Noted
<1>4. PICK n \in ValueLengths : event = EventOf(t, "ReadRsp", "ok", n)
  BY <1>2 DEF Filling
<1>5. /\ UNCHANGED <<vendor, pc, op, ops, outcome, reported, lock, pending, complete, requests, events,
                     event, late, fault>>
      /\ ioPc' = IF vendor = "TI" THEN "signal" ELSE "idle"
      /\ \A u \in Threads \ {t} : data'[u] = data[u]
      /\ data'[t] = [call |-> ThisCall(t), length |-> n, written |-> Copied]
      /\ data' = [u \in Threads |-> data'[u]]
  BY <1>1, <1>3, <1>4 DEF Fill, EventOf, ThisCall
<1>6. /\ Copied = n \/ n < op[t].capacity
      /\ Copied > op[t].capacity <=> n > op[t].capacity
  <2>1. event.length = n /\ n \in Nat /\ op[t].capacity \in Nat
    BY <1>3, <1>4, LengthAssumption DEF EventOf
  <2> QED BY <1>3, <2>1 DEF Copied
<1>7. Filled(t)'
  <2>1. pendingRead' = [pendingRead EXCEPT !.length = Copied]
    BY DEF Fill
  <2>2. (pendingRead.length)' = Copied
    BY <1>3, <2>1 DEF Tabled
  <2> QED BY <1>5, <1>6, <2>2 DEF Filled, Measures, ThisCall
<1>8. \A u \in Threads \ {t} : Sensible(u)' /\ Noted(u)' /\ Settled(u)'
  <2> TAKE u \in Threads \ {t}
  <2>1. Untouched(u) /\ pc[u] \notin Inside
    BY <1>1, <1>5 DEF Untouched, AnswerInv, EntryInv, HolderInside
  <2> QED BY <2>1, OthersKept
<1>9. Sensible(t)' /\ Noted(t)' /\ Settled(t)'
  <2>1. (pendingRead.call)' = pendingRead.call /\ (pendingRead.capacity)' = pendingRead.capacity
    BY <1>3 DEF Fill, Tabled
  <2> QED BY <1>1, <1>3, <1>5, <2>1 DEF Sensible, Noted, Settled, Unsignaled, ThisCall
<1>10. InStage(t)'
  <2>1. CASE vendor = "TI"
    <3>1. Signaling(t)'
      BY <1>2, <1>4, <1>5, <1>7, <2>1 DEF Filling, Signaling, Right, EventOf, ThisCall
    <3> QED BY <3>1 DEF InStage
  <2>2. CASE vendor # "TI"
    <3>1. Completing(t)'
      BY <1>2, <1>3, <1>5, <1>7, <2>2 DEF Filling, Completing, EventOf, ThisCall
    <3> QED BY <3>1 DEF InStage
  <2> QED BY <2>1, <2>2
<1>11. Tabled' /\ Unsurprised' /\ OneAnswer'
  BY <1>1, <1>3, <1>5, <1>10 DEF Fill, Tabled, Unsurprised, AnswerInv, OneAnswer, Unsignaled
<1> QED BY <1>8, <1>9, <1>11 DEF AnswerInv

(* The thread inside is told.                                              *)
LEMMA AnswerSignals == ASSUME AnswerInv, EntryInv', Signal PROVE AnswerInv'
<1>1. PICK t \in Threads : lock = t /\ pc[t] \in {"ack", "wait"} /\ complete = Unsignaled /\ InStage(t)
  BY DEF AnswerInv, OneAnswer, Signal, InFlight
<1>2. Signaling(t) /\ Sensible(t) /\ Noted(t) /\ Settled(t)
  BY <1>1 DEF Signal, InStage, Asked, Answered, Completing, Filling, AnswerInv
<1>3. /\ UNCHANGED <<vendor, pc, callerData, lock, pending, pendingRead, requests, events, late, fault>>
      /\ complete' = [signaled |-> TRUE, status |-> [call |-> event.call, code |-> Code]]
      /\ ioPc' = "idle"
  BY DEF Signal
<1>4. ~InFlight'
  BY <1>2, <1>3 DEF Signaling, InFlight
<1>5. \A u \in Threads \ {t} : Sensible(u)' /\ Noted(u)' /\ Settled(u)'
  <2> TAKE u \in Threads \ {t}
  <2>1. Untouched(u) /\ pc[u] \notin Inside
    BY <1>1, <1>3 DEF Untouched, callerData, AnswerInv, EntryInv, HolderInside
  <2> QED BY <2>1, OthersKept
<1>6. Right(t, [call |-> event.call, code |-> Code])
  <2>1. op[t].kind = "read" => Code = event.code
    BY <1>1, <1>2 DEF Code, Noted
  <2> QED BY <1>2, <2>1 DEF Signaling, Right
<1>7. Sensible(t)' /\ Noted(t)' /\ Settled(t)'
  BY <1>1, <1>2, <1>3, <1>6 DEF Sensible, Noted, Settled, Right, Filled, Measures, ThisCall, callerData
<1>8. Tabled' /\ Unsurprised' /\ OneAnswer'
  BY <1>3, <1>4 DEF Tabled, Unsurprised, AnswerInv, OneAnswer, callerData
<1> QED BY <1>5, <1>7, <1>8 DEF AnswerInv

-----------------------------------------------------------------------------
LEMMA AnswerInit == Init => AnswerInv
  BY EntryInit DEF Init, AnswerInv, Tabled, OneAnswer, InFlight, Unsurprised, Sensible, Noted,
     Settled, NoAnswer

LEMMA AnswerStep ==
  ASSUME AnswerInv, [Next]_vars, late' = 0
  PROVE  AnswerInv'
<1>1. EntryInv'
  BY EntryStep DEF AnswerInv
<1>2. CASE Finished \/ UNCHANGED vars
  <2>1. UNCHANGED vars
    BY <1>2 DEF Finished
  <2>2. \A u \in Threads : Untouched(u)
    BY <2>1 DEF vars, callerData, Untouched
  <2>3. \A u \in Threads : Sensible(u)' /\ Noted(u)' /\ Settled(u)'
    BY <2>1, <2>2, OthersKept DEF vars, device
  <2>4. OneAnswer'
    <3>1. ASSUME NEW t \in Threads, InStage(t) PROVE InStage(t)'
      BY <2>1, <2>2, <3>1, StageKept DEF vars, device, Untouched
    <3> QED BY <2>1, <3>1 DEF AnswerInv, OneAnswer, InFlight, vars, ioVars, device, Unsignaled
  <2>5. Tabled' /\ Unsurprised'
    BY <2>1 DEF AnswerInv, Tabled, Unsurprised, vars, callerData, device
  <2> QED BY <1>1, <2>3, <2>4, <2>5 DEF AnswerInv
<1>3. CASE \E t \in Threads : Call(t) \/ CallerStep(t)
  BY <1>1, <1>3, AnswerCallers
<1>4. CASE Serve
  BY <1>1, <1>4, AnswerServe
<1>5. CASE IoStep
  BY <1>1, <1>5, AnswerTakes, AnswerFills, AnswerSignals DEF IoStep
<1> QED BY <1>2, <1>3, <1>4, <1>5 DEF Next

(* The invariant of whole executions: AnswerInv, for as long as none of the*)
(* operations is given up too early.                                       *)
Timely == EntryInv /\ late \in Nat /\ (late = 0 => AnswerInv)

LEMMA TimelyInit == Init => Timely
  BY EntryInit, AnswerInit DEF Init, Timely

LEMMA TimelyStep == Timely /\ [Next]_vars => Timely'
<1> SUFFICES ASSUME Timely, [Next]_vars PROVE Timely'
  OBVIOUS
<1>1. EntryInv'
  BY EntryStep DEF Timely
<1>2. late' = late \/ late' = late + 1
  BY DEF Next, Call, CallerStep, Lock, Begin, Reset, Request, Refused, Acknowledged, AckTimeout, Wake,
     Fetch, Timeout, Finish, Release, RunsOut, Serve, IoStep, ReadRsp, WriteRsp, ErrorRsp, Complete, Takes,
     Fill, Signal, Finished, vars
<1>3. late \in Nat /\ late' \in Nat /\ (late' = 0 => late = 0)
  BY <1>2 DEF Timely
<1>4. late' = 0 => AnswerInv'
  BY <1>3, AnswerStep DEF Timely
<1> QED BY <1>1, <1>3, <1>4 DEF Timely

(* Until an operation is given up before its answer, the asserts of the    *)
(* vendor event handlers hold: every answer finds the operation it answers,*)
(* although the I/O thread looks at the device without its lock.           *)
THEOREM AnswersAreExpected == Spec => []ResponseExpected
<1>1. Timely => ResponseExpected
  BY DEF Timely, AnswerInv, Unsurprised, ResponseExpected
<1> QED BY <1>1, TimelyInit, TimelyStep, PTL DEF Spec

(* Until then each operation returns its own answer, and a read the value  *)
(* of its own attribute, with its length if the value fills the buffer; the*)
(* buffer is overrun only by a longer one.                                 *)
THEOREM AnswersAreOwn == Spec => []OwnAnswer
<1>1. Timely => OwnAnswer
  <2> SUFFICES ASSUME Timely, late = 0, NEW t \in Threads, pc[t] = "idle", outcome[t] # NoAnswer
               PROVE  /\ outcome[t].call = ThisCall(t)
                      /\ outcome[t].code = "ok" /\ op[t].kind = "read" =>
                           /\ data[t].call = ThisCall(t)
                           /\ reported[t] = data[t].length \/ data[t].length < op[t].capacity
                           /\ data[t].written > op[t].capacity <=> data[t].length > op[t].capacity
    BY DEF OwnAnswer
  <2>1. Settled(t)
    BY DEF Timely, AnswerInv
  <2> QED BY <2>1 DEF Settled, Measures
<1> QED BY <1>1, TimelyInit, TimelyStep, PTL DEF Spec

-----------------------------------------------------------------------------
(* Types: an operation in progress is a call with a kind, and the I/O      *)
(* thread handles an event that was sent.                                  *)
Places == {"idle", "lock", "begin", "reset", "request", "ack", "wait", "fetch", "finish", "release"}

CallersTyped ==
  /\ pc \in [Threads -> Places]
  /\ op \in [Threads -> Operations \cup {NoOp}]
  /\ ops \in [Threads -> Nat] /\ \A t \in Threads : ops[t] <= MaxOps[t]
  /\ outcome \in [Threads -> Answer \cup {NoAnswer}]
  /\ data \in [Threads -> Values]
  /\ reported \in [Threads -> Nat]

DeviceTyped ==
  /\ lock \in Threads \cup {NoCall}
  /\ pending \in [kind : Kinds \cup {"idle"}, handle : Handles \cup {0}]
  /\ pendingRead \in [call : Calls \cup {NoCall}, capacity : Nat, length : Nat]
  /\ complete \in [signaled : BOOLEAN, status : Answer \cup {NoAnswer}]

ChannelTyped ==
  /\ vendor \in Vendors
  /\ requests \in Seq(Requests) /\ events \in Seq(Events)
  /\ ioPc \in {"idle", "fill", "signal"} /\ event \in Events \cup {NoEvent}
  /\ late \in 0 .. MaxLate
  /\ fault \in {"none", "entry", "response"}

LEMMA TypeParts == TypeOK <=> CallersTyped /\ DeviceTyped /\ ChannelTyped
BY DEF TypeOK, CallersTyped, DeviceTyped, ChannelTyped, Places

TypeInv ==
  /\ TypeOK
  /\ \A t \in Threads : pc[t] # "idle" => op[t] \in Operations /\ ThisCall(t) \in Calls
  /\ ioPc # "idle" => event \in Events

LEMMA CallTyped ==
  ASSUME TypeInv, NEW t \in Threads, Call(t)
  PROVE  TypeInv'
<1>1. TypeOK /\ pc[t] = "idle" /\ pc' = [pc EXCEPT ![t] = "lock"]
  BY DEF TypeInv, Call, Go
<1> PICK h \in Handles : \E o \in OperationsOn(h) : op' = [op EXCEPT ![t] = o]
  BY DEF Call
<1>2. PICK o \in OperationsOn(h) : op' = [op EXCEPT ![t] = o]
  OBVIOUS
<1>3. o \in Operations
  BY LengthAssumption DEF OperationsOn, Operations, Kinds
<1>4. ops[t] + 1 \in 1 .. MaxOps[t] /\ ops' = [ops EXCEPT ![t] = @ + 1]
  <2>1. ops[t] \in Nat /\ MaxOps[t] \in Nat /\ ops[t] < MaxOps[t] /\ ops' = [ops EXCEPT ![t] = @ + 1]
    BY <1>1, BoundAssumption DEF Call, TypeOK
  <2> QED BY <2>1
<1>5. ops' \in [Threads -> Nat] /\ \A u \in Threads : ops'[u] <= MaxOps[u]
  BY <1>1, <1>4, BoundAssumption DEF TypeOK
<1>6. op' \in [Threads -> Operations \cup {NoOp}] /\ pc' \in [Threads -> Places]
  BY <1>1, <1>2, <1>3 DEF TypeOK, Places
<1>7. /\ outcome' \in [Threads -> Answer \cup {NoAnswer}] /\ reported' \in [Threads -> Nat]
      /\ data' \in [Threads -> Values]
  BY <1>1 DEF Call, TypeOK, Values, NoValue
<1>8. UNCHANGED <<vendor, device, requests, ioVars, late, fault>>
  BY DEF Call
<1>9. TypeOK'
  BY <1>1, <1>5, <1>6, <1>7, <1>8 DEF TypeOK, Places, device, ioVars
<1>10. op'[t] = o /\ <<t, ops'[t]>> \in Calls
  BY <1>1, <1>2, <1>4 DEF TypeOK, Calls
<1>11. \A u \in Threads \ {t} : pc'[u] = pc[u] /\ op'[u] = op[u] /\ ops'[u] = ops[u]
  BY <1>1, <1>2, <1>4 DEF TypeOK
<1> QED BY <1>3, <1>8, <1>9, <1>10, <1>11 DEF TypeInv, ThisCall, ioVars

LEMMA CallerTyped ==
  ASSUME TypeInv, NEW t \in Threads, CallerStep(t)
  PROVE  TypeInv'
<1>1. TypeOK /\ op[t] \in Operations /\ ThisCall(t) \in Calls
  BY DEF TypeInv, CallerStep, Lock, Begin, Reset, Request, Refused, Acknowledged, AckTimeout, Wake, Fetch,
     Timeout, Finish, Release, Go
<1>2. UNCHANGED <<vendor, op, ops, ioVars>>
  BY DEF CallerStep, Lock, Begin, Reset, Request, Refused, Acknowledged, AckTimeout, Wake, Fetch,
     Timeout, Finish, Release, callerData, Unsignaled
<1>3. pc' \in [Threads -> Places] /\ \A u \in Threads : pc'[u] # "idle" => pc[u] # "idle"
  BY <1>1 DEF CallerStep, Lock, Begin, Reset, Request, Refused, Acknowledged, AckTimeout, Wake, Fetch,
     Timeout, Finish, Release, Go, TypeOK, Places
<1>4. CallersTyped /\ DeviceTyped /\ ChannelTyped
  BY <1>1, TypeParts
<1>5. CallersTyped'
  <2>1. outcome' \in [Threads -> Answer \cup {NoAnswer}]
    <3>1. outcome' = outcome \/ outcome' = [outcome EXCEPT ![t] = complete.status]
      BY DEF CallerStep, Lock, Begin, Reset, Request, Refused, Acknowledged, AckTimeout, Wake, Fetch,
         Timeout, Finish, Release, callerData
    <3> QED BY <1>4, <3>1 DEF CallersTyped, DeviceTyped
  <2>2. reported' \in [Threads -> Nat]
    <3>1. reported' = reported \/ reported' = [reported EXCEPT ![t] = pendingRead.length]
      BY DEF CallerStep, Lock, Begin, Reset, Request, Refused, Acknowledged, AckTimeout, Wake, Fetch,
         Timeout, Finish, Release, callerData
    <3> QED BY <1>4, <3>1 DEF CallersTyped, DeviceTyped
  <2>3. data' = data
    BY DEF CallerStep, Lock, Begin, Reset, Request, Refused, Acknowledged, AckTimeout, Wake, Fetch,
       Timeout, Finish, Release, callerData
  <2> QED BY <1>2, <1>3, <1>4, <2>1, <2>2, <2>3 DEF CallersTyped
<1>6. DeviceTyped'
  <2>1. CASE Lock(t) \/ Release(t)
    BY <1>4, <2>1 DEF Lock, Release, DeviceTyped
  <2>2. CASE Begin(t)
    <3>1. pending' \in [kind : Kinds \cup {"idle"}, handle : Handles \cup {0}]
      BY <1>1, <2>2 DEF Begin, Operations
    <3>2. pendingRead' \in [call : Calls \cup {NoCall}, capacity : Nat, length : Nat]
      BY <1>1, <1>4, <2>2 DEF Begin, Operations, NewCapacity, DeviceTyped
    <3> QED BY <1>4, <2>2, <3>1, <3>2 DEF Begin, DeviceTyped
  <2>3. CASE Reset(t)
    BY <1>4, <2>3 DEF Reset, DeviceTyped, Unsignaled
  <2>4. CASE Finish(t)
    BY <1>4, <2>4 DEF Finish, DeviceTyped, Idle
  <2>5. CASE UNCHANGED device
    BY <1>4, <2>5 DEF device, DeviceTyped
  <2> QED BY <2>1, <2>2, <2>3, <2>4, <2>5
          DEF CallerStep, Request, Refused, Acknowledged, AckTimeout, Wake, Fetch, Timeout
<1>7. ChannelTyped'
  <2>1. requests' \in Seq(Requests)
    <3>1. CASE Request(t)
      <4>1. [call |-> ThisCall(t), kind |-> op[t].kind, handle |-> op[t].handle] \in Requests
        BY <1>1 DEF Operations, Requests
      <4> QED BY <1>4, <3>1, <4>1, AppendProperties DEF Request, ChannelTyped
    <3>2. CASE requests' = requests
      BY <1>4, <3>2 DEF ChannelTyped
    <3> QED BY <3>1, <3>2 DEF CallerStep, Lock, Begin, Reset, Refused, Acknowledged, AckTimeout, Wake,
            Fetch, Timeout, Finish, Release
  <2>2. late' \in 0 .. MaxLate
    <3>1. late' = late \/ (late < MaxLate /\ late' = late + 1)
      BY DEF CallerStep, Lock, Begin, Reset, Request, Refused, Acknowledged, AckTimeout, Wake, Fetch,
         Timeout, Finish, Release, RunsOut
    <3> QED BY <1>4, <3>1, BoundAssumption DEF ChannelTyped
  <2>3. fault' \in {"none", "entry", "response"}
    <3>1. fault' = fault \/ fault' \in {"none", "entry"}
      BY DEF CallerStep, Lock, Begin, Reset, Request, Refused, Acknowledged, AckTimeout, Wake, Fetch,
         Timeout, Finish, Release
    <3> QED BY <1>4, <3>1 DEF ChannelTyped
  <2> QED BY <1>2, <1>4, <2>1, <2>2, <2>3 DEF ChannelTyped, ioVars
<1>8. TypeOK'
  BY <1>5, <1>6, <1>7 DEF TypeOK, CallersTyped, DeviceTyped, ChannelTyped, Places
<1>9. \A u \in Threads : pc'[u] # "idle" => op'[u] \in Operations /\ ThisCall(u)' \in Calls
  BY <1>2, <1>3 DEF TypeInv, ThisCall
<1>10. ioPc' # "idle" => event' \in Events
  BY <1>2 DEF TypeInv, ioVars
<1> QED BY <1>8, <1>9, <1>10 DEF TypeInv

LEMMA ServeTyped == ASSUME TypeInv, Serve PROVE TypeInv'
<1>1. TypeOK /\ requests \in Seq(Requests) /\ requests # <<>>
  BY DEF TypeInv, TypeOK, Serve
<1>2. PICK r \in Requests : r = Head(requests)
  BY <1>1, HeadTailProperties
<1>3. PICK a \in Answers(r) : events' = events \o a
  BY <1>2 DEF Serve
<1>4. a \in Seq(Events)
  <2> DEFINE say(kind, code, n) == [kind |-> kind, call |-> r.call, handle |-> r.handle,
                                    code |-> code, length |-> n]
  <2>1. /\ say("ErrorRsp", "failed", 0) \in Events /\ say("WriteRsp", "ok", 0) \in Events
        /\ say("Complete", "ok", 0) \in Events /\ say("Complete", "failed", 0) \in Events
        /\ \A n \in ValueLengths : say("ReadRsp", "ok", n) \in Events
    BY DEF Requests, Events, Codes
  <2>2. r.kind \in Kinds
    BY DEF Requests
  <2>3. \A e \in Events, f \in Events : <<e>> \in Seq(Events) /\ <<e, f>> \in Seq(Events)
    OBVIOUS
  <2>4. \/ \E e \in Events : a = <<e>>
        \/ \E n \in ValueLengths : a = <<say("ReadRsp", "ok", n), say("Complete", "ok", 0)>>
    <3>1. CASE vendor = "TI"
      BY <2>1, <2>2, <3>1 DEF Answers, Kinds
    <3>2. CASE vendor # "TI"
      BY <2>1, <2>2, <3>2 DEF Answers, Kinds
    <3> QED BY <3>1, <3>2
  <2> HIDE DEF say
  <2> QED BY <2>1, <2>3, <2>4
<1>5. events' \in Seq(Events)
  BY <1>1, <1>3, <1>4, ConcatProperties DEF TypeOK
<1>6. requests' \in Seq(Requests)
  BY <1>1, HeadTailProperties DEF Serve
<1>7. TypeOK'
  BY <1>1, <1>5, <1>6 DEF Serve, TypeOK, callerData, device
<1> QED BY <1>7 DEF TypeInv, Serve, callerData, ThisCall

LEMMA IoTyped == ASSUME TypeInv, IoStep PROVE TypeInv'
<1>1. TypeOK
  BY DEF TypeInv
<1>2. UNCHANGED <<vendor, pc, op, ops, requests, late>>
  BY DEF IoStep, ReadRsp, WriteRsp, ErrorRsp, Complete, Takes, Fill, Signal, callerData
<1>3. CASE ReadRsp \/ WriteRsp \/ ErrorRsp \/ Complete
  <2>1. /\ event' = Head(events) /\ events' = Tail(events) /\ events # <<>>
        /\ UNCHANGED <<callerData, device>>
    BY <1>3 DEF ReadRsp, WriteRsp, ErrorRsp, Complete, Takes
  <2>2. event' \in Events /\ events' \in Seq(Events)
    BY <1>1, <2>1, HeadTailProperties DEF TypeOK
  <2>3. ioPc' \in {"idle", "fill", "signal"} /\ fault' \in {"none", "entry", "response"}
    BY <1>1, <1>3 DEF ReadRsp, WriteRsp, ErrorRsp, Complete, Asserting, TypeOK
  <2>4. TypeOK'
    BY <1>1, <1>2, <2>1, <2>2, <2>3 DEF TypeOK, callerData, device
  <2> QED BY <1>2, <2>2, <2>4 DEF TypeInv, ThisCall
<1>4. CASE Fill
  <2>1. event \in Events /\ event.length \in Nat
    <3>1. event \in Events
      BY <1>4 DEF Fill, TypeInv
    <3>2. event.length \in ValueLengths \cup {0}
      BY <3>1 DEF Events
    <3>3. ValueLengths \cup {0} \subseteq Nat
      BY LengthAssumption
    <3> QED BY <3>1, <3>2, <3>3
  <2>2. Copied \in Nat
    BY <1>1, <2>1 DEF Copied, TypeOK
  <2>3. data' \in [Threads -> Values]
    BY <1>1, <1>4, <2>1, <2>2 DEF Fill, Events, TypeOK, Values
  <2>4. pendingRead' \in [call : Calls \cup {NoCall}, capacity : Nat, length : Nat]
    BY <1>1, <1>4, <2>2 DEF Fill, TypeOK
  <2>5. UNCHANGED <<outcome, reported, lock, pending, complete, events, event, fault>>
    BY <1>4 DEF Fill
  <2>6. TypeOK'
    BY <1>1, <1>2, <1>4, <2>3, <2>4, <2>5 DEF Fill, TypeOK
  <2> QED BY <1>2, <2>1, <2>5, <2>6 DEF TypeInv, ThisCall
<1>5. CASE Signal
  <2>1. event \in Events
    BY <1>5 DEF Signal, TypeInv
  <2>2. complete' \in [signaled : BOOLEAN, status : Answer \cup {NoAnswer}]
    BY <1>5, <2>1 DEF Signal, Code, Events, Answer, Codes
  <2>3. UNCHANGED <<callerData, lock, pending, pendingRead, events, fault>> /\ ioPc' = "idle" /\ event' = NoEvent
    BY <1>5 DEF Signal
  <2>4. TypeOK'
    BY <1>1, <1>2, <2>2, <2>3 DEF TypeOK, callerData
  <2> QED BY <1>2, <2>3, <2>4 DEF TypeInv, ThisCall
<1> QED BY <1>3, <1>4, <1>5 DEF IoStep

(* Operations, requests, answers and the device stay within their types.   *)
THEOREM TypeCorrect == Spec => []TypeOK
<1>1. Init => TypeInv
  BY BoundAssumption DEF Init, TypeInv, TypeOK, Values, NoValue
<1>2. TypeInv /\ [Next]_vars => TypeInv'
  <2> SUFFICES ASSUME TypeInv, [Next]_vars PROVE TypeInv'
    OBVIOUS
  <2>1. CASE Finished \/ UNCHANGED vars
    BY <2>1 DEF Finished, vars, callerData, device, ioVars, TypeInv, TypeOK, ThisCall
  <2> QED BY <2>1, CallTyped, CallerTyped, ServeTyped, IoTyped DEF Next
<1>3. TypeInv => TypeOK
  BY DEF TypeInv
<1> QED BY <1>1, <1>2, <1>3, PTL DEF Spec
=============================================================================
