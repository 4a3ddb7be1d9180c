-------------------------- MODULE ConnectionsProofs --------------------------
(***************************************************************************)
(* Proofs about Connections, for every number of threads, devices, links,  *)
(* opens and failed connections. Until a wait runs out before its event, or*)
(* a close is refused (late = 0), no link is left without a device and no  *)
(* device in use without a thread; and until then or a lost link, the      *)
(* condition that opens, closes and all link events share is never         *)
(* mistaken.                                                               *)
(***************************************************************************)
EXTENDS Connections, SequenceTheorems, TLAPS

Outside == {"idle", "lock", "close"}

Shaped ==
  /\ pc = [t \in Threads |-> pc[t]] /\ held = [t \in Threads |-> held[t]]
  /\ handle = [d \in Devices |-> handle[d]]
  /\ drops \in Nat /\ late \in Nat
  /\ \A t \in Threads : pc[t] \notin Outside => lock = t

(* The link event that the thread inside waits for, from the controller to *)
(* the signal.                                                             *)
InFlight == connecting # {} \/ events # <<>> \/ ioPc # "idle"

Awaits(t, e) == \/ pc[t] = "wait" /\ e.kind = "up" /\ e.for = t
                \/ pc[t] = "closeWait" /\ e.kind = "down" /\ e.link = handle[held[t]]

Establishing(t) == pc[t] = "wait" /\ connecting = {t} /\ events = <<>> /\ ioPc = "idle"
Coming(t)       == /\ connecting = {} /\ ioPc = "idle"
                   /\ events # <<>> /\ events = <<events[1]>>
                   /\ Awaits(t, events[1])
Handling(t)     == /\ connecting = {} /\ events = <<>> /\ ioPc # "idle"
                   /\ Awaits(t, event) /\ (ioPc = "place" => event.kind = "up")

OneEvent ==
  InFlight => \E t \in Threads : /\ lock = t /\ pc[t] \in {"wait", "closeWait"}
                                 /\ complete = Unsignaled
                                 /\ Establishing(t) \/ Coming(t) \/ Handling(t)

Answered ==
  \A t \in Threads : /\ pc[t] \in {"request", "terminate"} => complete = Unsignaled
                     /\ pc[t] = "wait" /\ complete.signaled => complete.status \in Devices

SteadyInv == Shaped /\ (drops = 0 /\ late = 0 => OneEvent /\ Answered /\ fault = "none")

-----------------------------------------------------------------------------
LEMMA ShapedStep == Shaped /\ [Next]_vars => Shaped'
<1> SUFFICES ASSUME Shaped, [Next]_vars PROVE Shaped'
  OBVIOUS
<1> USE DEF Go, Outside
<1>1. ASSUME NEW t \in Threads, Open(t) \/ Close(t)
      PROVE Shaped'
  BY <1>1 DEF Open, Close, Shaped, bounded
<1>2. ASSUME NEW t \in Threads, Lock(t) \/ Unlock(t)
      PROVE Shaped'
  BY <1>2, NobodyAssumption DEF Lock, Unlock, Shaped, bounded
<1>3. ASSUME NEW t \in Threads, Reset(t) \/ Request(t) \/ Opened(t) \/ Terminate(t) \/ Closed(t) \/ FreeDevice(t)
      PROVE Shaped'
  BY <1>3 DEF Reset, Request, Opened, Terminate, Closed, FreeDevice, Shaped, bounded
<1>4. ASSUME NEW t \in Threads, OpenTimeout(t) \/ CloseTimeout(t) \/ Refused(t)
      PROVE Shaped'
  BY <1>4 DEF OpenTimeout, CloseTimeout, Refused, RunsOut, Shaped
<1>5. CASE (\E t \in Threads : Establish(t) \/ Fail(t)) \/ Drop
  <2>1. UNCHANGED <<pc, held, handle, late, lock>>
    BY <1>5 DEF Establish, Fail, Drop, bounded, callers
  <2>2. drops' = drops \/ drops' = drops + 1
    BY <1>5 DEF Establish, Fail, Drop, bounded
  <2> QED BY <2>1, <2>2 DEF Shaped
<1>6. CASE TakeEvent \/ Find \/ Signal \/ Finished \/ UNCHANGED vars
  <2>1. UNCHANGED <<pc, held, handle, drops, late, lock>>
    BY <1>6 DEF TakeEvent, Find, Signal, Finished, vars, bounded, callers
  <2> QED BY <2>1 DEF Shaped
<1>7. CASE Place
  BY <1>7 DEF Place, Shaped, bounded, callers
<1> QED BY <1>1, <1>2, <1>3, <1>4, <1>5, <1>6, <1>7 DEF IoStep, Next, CallerStep

(* An exception stays one.                                                 *)
LEMMA LateGrows ==
  ASSUME [Next]_vars, late \in Nat
  PROVE  late' \in Nat /\ (late' = 0 => late = 0)
<1>1. late' = late \/ late' = late + 1
  BY DEF Next, CallerStep, Open, Close, Lock, Reset, Request, Opened, OpenTimeout, Unlock, Terminate,
     Refused, Closed, CloseTimeout, FreeDevice, RunsOut, Establish, Fail, Drop, IoStep, TakeEvent, Place,
     Find, Signal, Finished, vars, bounded
<1> QED BY <1>1

LEMMA OneTuple ==
  ASSUME NEW a
  PROVE  /\ <<a>> # <<>> /\ <<a>>[1] = a /\ Head(<<a>>) = a /\ Tail(<<a>>) = <<>>
         /\ Append(<<>>, a) = <<a>> /\ 1 \in DOMAIN <<a>>
OBVIOUS

(* A thread that waits for an event under way does not give up.            *)
LEMMA StaysExpected ==
  ASSUME NEW t \in Threads, Establishing(t) \/ Coming(t) \/ Handling(t)
  PROVE  /\ pc[t] = "wait" => Expected(t, "up", Nobody)
         /\ pc[t] = "closeWait" => Expected(t, "down", handle[held[t]])
BY OneTuple DEF Establishing, Coming, Handling, Awaits, Expected

(* A step of one thread when nothing is under way.                         *)
LEMMA Waiting ==
  ASSUME Shaped, OneEvent, NEW t \in Threads, pc[t] \notin Outside, pc[t] \notin {"wait", "closeWait"}
  PROVE  connecting = {} /\ events = <<>> /\ ioPc = "idle"
BY DEF Shaped, OneEvent, InFlight

LEMMA SteadyStep == SteadyInv /\ [Next]_vars => SteadyInv'
<1> SUFFICES ASSUME SteadyInv, [Next]_vars, drops' = 0, late' = 0 PROVE OneEvent' /\ Answered' /\ fault' = "none"
  BY ShapedStep DEF SteadyInv
<1>1. Shaped /\ Shaped'
  BY ShapedStep DEF SteadyInv
<1>2. drops = 0 /\ late = 0 /\ ~Drop
  <2>1. Drop => drops' = drops + 1
    BY DEF Drop
  <2>2. ASSUME NEW t \in Threads, Open(t) \/ Close(t) \/ CallerStep(t) \/ Establish(t) \/ Fail(t)
        PROVE drops' = drops
    BY <2>2 DEF CallerStep, Open, Close, Lock, Reset, Request, Opened, OpenTimeout, Unlock,
       Terminate, Refused, Closed, CloseTimeout, FreeDevice, Establish, Fail, bounded
  <2>3. IoStep \/ Finished \/ UNCHANGED vars => drops' = drops
    BY DEF IoStep, TakeEvent, Place, Find, Signal, Finished, vars, bounded
  <2> QED BY <1>1, <2>1, <2>2, <2>3, LateGrows DEF Next, Shaped
<1>3. OneEvent /\ Answered /\ fault = "none"
  BY <1>2 DEF SteadyInv
<1> USE DEF Go
<1>4. ASSUME NEW t \in Threads, Open(t) \/ Close(t) \/ Lock(t) \/ Unlock(t) \/ Reset(t) \/ Closed(t)
                                \/ FreeDevice(t) \/ Opened(t)
      PROVE  OneEvent' /\ Answered' /\ fault' = "none"
  <2>1. UNCHANGED <<connecting, events, ioPc, event>>
    BY <1>4 DEF Open, Close, Lock, Unlock, Reset, Closed, FreeDevice, Opened, ioVars
  <2>2. CASE InFlight
    <3>1. PICK u \in Threads : /\ lock = u /\ pc[u] \in {"wait", "closeWait"} /\ complete = Unsignaled
                               /\ Establishing(u) \/ Coming(u) \/ Handling(u)
      BY <1>3, <2>2 DEF OneEvent
    <3>2. Open(t) \/ Close(t)
      BY <1>1, <1>4, <3>1, NobodyAssumption
         DEF Lock, Unlock, Reset, Closed, FreeDevice, Opened, Shaped, Outside, Unsignaled
    <3>3. /\ UNCHANGED <<held, lock, handle, complete, fault>>
          /\ pc'[u] = pc[u] /\ pc'[t] \notin {"wait", "request", "terminate"}
          /\ \A v \in Threads \ {t} : pc'[v] = pc[v]
      BY <1>1, <3>1, <3>2 DEF Open, Close, Shaped
    <3> QED BY <1>3, <2>1, <3>1, <3>3 DEF OneEvent, Answered, Establishing, Coming, Handling, Awaits, Unsignaled
  <2>3. CASE ~InFlight
    <3>1. OneEvent'
      BY <2>1, <2>3 DEF OneEvent, InFlight
    <3>2. Answered' /\ fault' = "none"
      BY <1>1, <1>3, <1>4 DEF Open, Close, Lock, Unlock, Reset, Closed, FreeDevice, Opened, Cleared,
         Answered, Shaped, Outside
    <3> QED BY <3>1, <3>2
  <2> QED BY <2>2, <2>3
<1>5. ASSUME NEW t \in Threads, OpenTimeout(t) \/ CloseTimeout(t)
      PROVE  OneEvent' /\ Answered' /\ fault' = "none"
  <2>1. late' # late + 1
    BY <1>2
  <2>2. \/ ~Expected(t, "up", Nobody) /\ pc[t] = "wait"
        \/ ~Expected(t, "down", handle[held[t]]) /\ pc[t] = "closeWait"
    BY <1>5, <2>1 DEF OpenTimeout, CloseTimeout, RunsOut
  <2>3. ~InFlight
    BY <1>1, <1>3, <2>2, StaysExpected DEF OneEvent, Shaped, Outside
  <2> QED BY <1>1, <1>3, <1>5, <2>3 DEF OpenTimeout, CloseTimeout, ioVars, OneEvent, InFlight, Answered, Shaped
<1>6. ASSUME NEW t \in Threads, Request(t)
      PROVE  OneEvent' /\ Answered' /\ fault' = "none"
  <2>1. connecting = {} /\ events = <<>> /\ ioPc = "idle" /\ complete = Unsignaled /\ lock = t
    BY <1>1, <1>3, <1>6, Waiting DEF Request, Answered, Shaped, Outside
  <2>2. connecting' = {} \/ Establishing(t)'
    BY <1>1, <1>6, <2>1 DEF Request, Establishing, ioVars, Shaped
  <2> QED BY <1>1, <1>3, <1>6, <2>1, <2>2
          DEF Request, OneEvent, InFlight, Answered, Shaped, ioVars, Unsignaled
<1>7. ASSUME NEW t \in Threads, Terminate(t)
      PROVE  OneEvent' /\ Answered' /\ fault' = "none"
  <2>1. connecting = {} /\ events = <<>> /\ ioPc = "idle" /\ complete = Unsignaled /\ lock = t
    BY <1>1, <1>3, <1>7, Waiting DEF Terminate, Answered, Shaped, Outside
  <2>2. events' = <<>> \/ Coming(t)'
    <3>1. \/ events' = <<>>
          \/ events' = <<[kind |-> "down", link |-> handle[held[t]], for |-> Nobody]>>
      BY <1>7, <2>1, OneTuple DEF Terminate
    <3> QED BY <1>1, <1>7, <2>1, <3>1, OneTuple DEF Terminate, Coming, Awaits, Shaped
  <2> QED BY <1>1, <1>3, <1>7, <2>1, <2>2
          DEF Terminate, OneEvent, InFlight, Answered, Shaped, Unsignaled
<1>8. ASSUME NEW t \in Threads, Establish(t) \/ Fail(t)
      PROVE  OneEvent' /\ Answered' /\ fault' = "none"
  <2>1. lock = t /\ pc[t] = "wait" /\ complete = Unsignaled /\ connecting = {t} /\ events = <<>> /\ ioPc = "idle"
    BY <1>3, <1>8 DEF Establish, Fail, OneEvent, InFlight, Establishing, Coming, Handling
  <2>2. \E l : events' = <<[kind |-> "up", link |-> l, for |-> t]>>
    BY <1>8, <2>1, OneTuple DEF Establish, Fail
  <2>3. Coming(t)'
    BY <1>8, <2>1, <2>2, OneTuple DEF Establish, Fail, Coming, Awaits, callers
  <2> QED BY <1>3, <1>8, <2>1, <2>3 DEF Establish, Fail, OneEvent, Answered, callers, Unsignaled
<1>9. CASE TakeEvent
  <2>1. PICK t \in Threads : lock = t /\ pc[t] \in {"wait", "closeWait"} /\ complete = Unsignaled /\ Coming(t)
    BY <1>3, <1>9 DEF TakeEvent, OneEvent, InFlight, Establishing, Handling
  <2>2. Head(events) = events[1] /\ Tail(events) = <<>>
    BY <2>1, OneTuple DEF Coming
  <2>3. Handling(t)'
    BY <1>9, <2>1, <2>2 DEF TakeEvent, Coming, Handling, Awaits, callers
  <2> QED BY <1>3, <1>9, <2>1, <2>3 DEF TakeEvent, OneEvent, Answered, callers, Unsignaled
<1>10. CASE Place \/ Find
  <2>1. PICK t \in Threads : lock = t /\ pc[t] \in {"wait", "closeWait"} /\ complete = Unsignaled /\ Handling(t)
    BY <1>3, <1>10 DEF Place, Find, OneEvent, InFlight, Establishing, Coming
  <2>2. Handling(t)'
    BY <1>10, <2>1 DEF Place, Find, Handling, Awaits, callers
  <2> QED BY <1>3, <1>10, <2>1, <2>2 DEF Place, Find, OneEvent, Answered, callers, Unsignaled
<1>11. CASE Signal
  <2>1. PICK t \in Threads : lock = t /\ pc[t] \in {"wait", "closeWait"} /\ Handling(t)
    BY <1>3, <1>11 DEF Signal, OneEvent, InFlight, Establishing, Coming
  <2>2. ~InFlight'
    BY <1>11, <2>1 DEF Signal, Handling, InFlight
  <2>3. Answered'
    <3>1. 0 \in Devices
      BY DeviceAssumption DEF Devices
    <3>2. \A u \in Threads : pc[u] \in {"request", "terminate", "wait"} => u = t /\ pc[t] = "wait"
      BY <1>1, <2>1 DEF Shaped, Outside
    <3>3. pc[t] = "wait" => event.kind = "up"
      BY <2>1 DEF Handling, Awaits
    <3> QED BY <1>11, <3>1, <3>2, <3>3 DEF Signal, Answered, callers
  <2> QED BY <1>3, <1>11, <2>2, <2>3 DEF Signal, OneEvent
<1>12. ~\E t \in Threads : Refused(t)
  BY <1>2 DEF Refused
<1>13. CASE Finished \/ UNCHANGED vars
  BY <1>3, <1>13 DEF Finished, vars, callers, ioVars, OneEvent, InFlight, Answered, Establishing, Coming,
     Handling, Awaits, Unsignaled
<1> QED BY <1>2, <1>4, <1>5, <1>6, <1>7, <1>8, <1>9, <1>10, <1>11, <1>12, <1>13 DEF Next, CallerStep, IoStep

(* The disconnection of a closed device, a failed connection or a command  *)
(* that was refused is never taken for the device of an open: that takes a *)
(* lost link, a wait that runs out while its event is under way, or a close*)
(* that was refused.                                                       *)
THEOREM OpensAreSteady == Spec => []SteadyOpens
<1>1. Init => SteadyInv
  BY DEF Init, SteadyInv, Shaped, OneEvent, InFlight, Answered, Outside
<1>2. SteadyInv /\ [Next]_vars => SteadyInv'
  BY SteadyStep
<1>3. SteadyInv => SteadyOpens
  BY DEF SteadyInv, SteadyOpens
<1> QED BY <1>1, <1>2, <1>3, PTL DEF Spec

-----------------------------------------------------------------------------
(* Types.                                                                  *)
Places == {"idle", "lock", "reset", "request", "wait", "unlock",
           "close", "closeReset", "terminate", "closeWait", "free", "closeUnlock"}

LEMMA TypeOfThreads ==
  ASSUME TypeOK, NEW t \in Threads, CallerStep(t) \/ Open(t) \/ Close(t)
  PROVE  /\ UNCHANGED <<drops, fails, ioPc, event>>
         /\ pc' \in [Threads -> Places]
         /\ opens' \in [Threads -> 0 .. MaxOpens]
         /\ held' \in [Threads -> Devices \cup {Nobody}]
         /\ lock' \in Threads \cup {Nobody}
         /\ handle' \in [Devices -> Links \cup {Invalid}]
         /\ complete' \in [signaled : BOOLEAN, status : Devices \cup {Nobody, Reason}]
         /\ connecting' \subseteq Threads /\ links' \subseteq Links
         /\ events' \in Seq(LinkEvents)
         /\ late' \in Nat /\ fault' \in {"none", "wild"}
<1> USE DEF TypeOK, Places, Go, ioVars, bounded
<1>1. CASE Open(t) \/ Close(t)
  <2>1. opens' \in [Threads -> 0 .. MaxOpens]
    <3>1. opens[t] < MaxOpens => opens[t] + 1 \in 0 .. MaxOpens
      BY BoundAssumption
    <3> QED BY <1>1, <3>1 DEF Open, Close
  <2>2. pc' \in [Threads -> Places]
    BY <1>1 DEF Open, Close
  <2> QED BY <1>1, <2>1, <2>2 DEF Open, Close
<1>2. CASE Lock(t) \/ Reset(t) \/ Request(t) \/ Unlock(t) \/ Closed(t)
  <2>1. pc' \in [Threads -> Places]
    BY <1>2 DEF Lock, Reset, Request, Unlock, Closed
  <2>2. CASE Lock(t) \/ Unlock(t)
    BY <2>1, <2>2 DEF Lock, Unlock
  <2>3. CASE Reset(t)
    BY <2>1, <2>3 DEF Reset, Cleared, Unsignaled
  <2>4. CASE Request(t) \/ Closed(t)
    BY <2>1, <2>4 DEF Request, Closed
  <2> QED BY <1>2, <2>2, <2>3, <2>4
<1>3. CASE Opened(t)
  BY <1>3 DEF Opened
<1>4. CASE OpenTimeout(t) \/ CloseTimeout(t)
  <2>1. late' \in Nat
    <3>1. late' = late \/ late' = late + 1
      BY <1>4 DEF OpenTimeout, CloseTimeout, RunsOut
    <3> QED BY <3>1, BoundAssumption
  <2>2. pc' \in [Threads -> Places]
    BY <1>4 DEF OpenTimeout, CloseTimeout
  <2> QED BY <1>4, <2>1, <2>2 DEF OpenTimeout, CloseTimeout
<1>5. CASE Terminate(t)
  <2>1. ASSUME handle[held[t]] \in links
        PROVE  Append(events, [kind |-> "down", link |-> handle[held[t]], for |-> Nobody]) \in Seq(LinkEvents)
    BY <2>1, AppendProperties DEF LinkEvents
  <2> QED BY <1>5, <2>1 DEF Terminate
<1>6. CASE FreeDevice(t)
  BY <1>6 DEF FreeDevice, Freed
<1>7. CASE Refused(t)
  <2>1. late' \in Nat /\ pc' \in [Threads -> Places]
    BY <1>7 DEF Refused
  <2> QED BY <1>7, <2>1 DEF Refused
<1> QED BY <1>1, <1>2, <1>3, <1>4, <1>5, <1>6, <1>7 DEF CallerStep

LEMMA TypeInductive == ASSUME TypeOK, [Next]_vars PROVE TypeOK'
<1> USE DEF TypeOK
<1>1. ASSUME NEW t \in Threads, CallerStep(t) \/ Open(t) \/ Close(t) PROVE TypeOK'
  BY <1>1, TypeOfThreads DEF Places
<1>2. ASSUME NEW t \in Threads, Establish(t) PROVE TypeOK'
  <2>1. PICK l \in Links : /\ links' = links \cup {l}
                           /\ events' = Append(events, [kind |-> "up", link |-> l, for |-> t])
    BY <1>2 DEF Establish
  <2>2. events' \in Seq(LinkEvents)
    BY <2>1, AppendProperties DEF LinkEvents
  <2> QED BY <1>2, <2>1, <2>2 DEF Establish, callers, bounded
<1>3. ASSUME NEW t \in Threads, Fail(t) PROVE TypeOK'
  <2>1. events' \in Seq(LinkEvents)
    BY <1>3, AppendProperties DEF Fail, LinkEvents
  <2> QED BY <1>3, <2>1, BoundAssumption DEF Fail, callers
<1>4. ASSUME Drop PROVE TypeOK'
  <2>1. PICK l \in links : /\ links' = links \ {l}
                           /\ events' = Append(events, [kind |-> "down", link |-> l, for |-> Nobody])
    BY <1>4 DEF Drop
  <2>2. events' \in Seq(LinkEvents)
    BY <2>1, AppendProperties DEF LinkEvents
  <2> QED BY <1>4, <2>1, <2>2, BoundAssumption DEF Drop, callers
<1>5. ASSUME TakeEvent PROVE TypeOK'
  <2>1. event' \in LinkEvents /\ events' \in Seq(LinkEvents)
    BY <1>5, HeadTailProperties DEF TakeEvent
  <2> QED BY <1>5, <2>1 DEF TakeEvent, callers, bounded
<1>6. ASSUME Place \/ Find PROVE TypeOK'
  <2>1. event.link \in Links \cup {Invalid}
    BY DEF LinkEvents, NoEvent
  <2> QED BY <1>6, <2>1 DEF Place, Find, callers, bounded
<1>7. ASSUME Signal PROVE TypeOK'
  <2>1. 0 \in Devices
    BY DeviceAssumption DEF Devices
  <2> QED BY <1>7, <2>1 DEF Signal, callers, bounded
<1>8. ASSUME Finished \/ UNCHANGED vars PROVE TypeOK'
  BY <1>8 DEF Finished, vars, callers, ioVars, bounded
<1> QED BY <1>1, <1>2, <1>3, <1>4, <1>5, <1>6, <1>7, <1>8 DEF Next, IoStep

LEMMA TypeInitially == Init => TypeOK
BY BoundAssumption DEF Init, TypeOK, Unsignaled

(* The threads, the table, the condition and the events stay within their  *)
(* types.                                                                  *)
THEOREM TypeCorrect == Spec => []TypeOK
BY TypeInitially, TypeInductive, PTL DEF Spec

-----------------------------------------------------------------------------
(* Links and devices. The queue q of link events holds no connection, that *)
(* of t only, or one that made the link l.                                 *)
Up(e)        == e.kind = "up"
NoneIn(q)    == \A i \in DOMAIN q : ~Up(q[i])
OnlyIn(q, t) == \E i \in DOMAIN q : /\ Up(q[i]) /\ q[i].for = t
                                    /\ \A j \in DOMAIN q \ {i} : ~Up(q[j])
LinkIn(q, l) == \E i \in DOMAIN q : Up(q[i]) /\ q[i].link = l

LEMMA QueueAppend ==
  ASSUME NEW q \in Seq(LinkEvents), NEW e \in LinkEvents
  PROVE  /\ ~Up(e) => /\ NoneIn(q) => NoneIn(Append(q, e))
                      /\ \A t : OnlyIn(q, t) => OnlyIn(Append(q, e), t)
         /\ Up(e) => /\ NoneIn(q) => OnlyIn(Append(q, e), e.for)
                     /\ LinkIn(Append(q, e), e.link)
         /\ \A l : LinkIn(q, l) => LinkIn(Append(q, e), l)
<1> DEFINE r == Append(q, e)
<1>1. PICK n \in Nat : n = Len(q) /\ DOMAIN q = 1 .. n
  OBVIOUS
<1>2. DOMAIN r = 1 .. n + 1 /\ r[n + 1] = e /\ \A i \in 1 .. n : r[i] = q[i]
  BY <1>1, AppendProperties
<1>3. DOMAIN r = DOMAIN q \cup {n + 1} /\ n + 1 \notin DOMAIN q
  BY <1>1, <1>2
<1> HIDE DEF r
<1> QED BY <1>1, <1>2, <1>3 DEF NoneIn, OnlyIn, LinkIn, r

LEMMA QueueTail ==
  ASSUME NEW q \in Seq(LinkEvents), q # <<>>
  PROVE  /\ NoneIn(q) => ~Up(Head(q)) /\ NoneIn(Tail(q))
         /\ \A t : OnlyIn(q, t) => IF Up(Head(q)) THEN Head(q).for = t /\ NoneIn(Tail(q))
                                                  ELSE OnlyIn(Tail(q), t)
         /\ \A l : LinkIn(q, l) => (Up(Head(q)) /\ Head(q).link = l) \/ LinkIn(Tail(q), l)
<1> DEFINE r == Tail(q)
<1>1. PICK n \in Nat : n = Len(q) /\ DOMAIN q = 1 .. n /\ n > 0
  OBVIOUS
<1>2. Head(q) = q[1] /\ DOMAIN r = 1 .. n - 1 /\ \A i \in 1 .. n - 1 : r[i] = q[i + 1]
  BY <1>1, HeadTailProperties
<1>3. /\ 1 \in DOMAIN q
      /\ \A i \in DOMAIN r : i + 1 \in DOMAIN q /\ i + 1 # 1
      /\ \A i \in DOMAIN q : i = 1 \/ \E j \in DOMAIN r : i = j + 1
  <2>1. \A i \in DOMAIN q : i = 1 \/ (i - 1 \in 1 .. n - 1 /\ i = (i - 1) + 1)
    BY <1>1
  <2> QED BY <1>1, <1>2, <2>1
<1>4. \A i \in DOMAIN r : r[i] = q[i + 1]
  BY <1>2
<1>5. Head(q) = q[1]
  BY <1>2
<1> HIDE DEF r
<1>6. NoneIn(q) => ~Up(q[1]) /\ NoneIn(r)
  BY <1>3, <1>4 DEF NoneIn
<1>7. \A t : OnlyIn(q, t) => IF Up(q[1]) THEN q[1].for = t /\ NoneIn(r) ELSE OnlyIn(r, t)
  <2> SUFFICES ASSUME NEW t, OnlyIn(q, t)
               PROVE  IF Up(q[1]) THEN q[1].for = t /\ NoneIn(r) ELSE OnlyIn(r, t)
    OBVIOUS
  <2>1. PICK i \in DOMAIN q : Up(q[i]) /\ q[i].for = t /\ \A j \in DOMAIN q \ {i} : ~Up(q[j])
    BY DEF OnlyIn
  <2>2. CASE i = 1
    BY <1>3, <1>4, <2>1, <2>2 DEF NoneIn
  <2>3. CASE i # 1
    <3>1. PICK k \in DOMAIN r : i = k + 1
      BY <1>3, <2>3
    <3>2. \A j \in DOMAIN r \ {k} : j + 1 \in DOMAIN q \ {i}
      BY <1>2, <1>3, <3>1
    <3>3. ~Up(q[1])
      BY <1>3, <2>1, <2>3
    <3> QED BY <1>4, <2>1, <3>1, <3>2, <3>3 DEF OnlyIn
  <2> QED BY <2>2, <2>3
<1>8. \A l : LinkIn(q, l) => (Up(q[1]) /\ q[1].link = l) \/ LinkIn(r, l)
  BY <1>3, <1>4 DEF LinkIn
<1> QED BY <1>5, <1>6, <1>7, <1>8 DEF r

(* The connection asked for, from the controller to the signal: there is   *)
(* none, or that of t only.                                                *)
Handled  == ioPc # "idle" /\ Up(event)
NoUp     == connecting = {} /\ NoneIn(events) /\ ~Handled
OneUp(t) == \/ connecting = {t} /\ NoneIn(events) /\ ~Handled
            \/ connecting = {} /\ OnlyIn(events, t) /\ ~Handled
            \/ connecting = {} /\ NoneIn(events) /\ Handled /\ event.for = t

Given == complete.signaled /\ complete.status \in Devices

(* The thread that asks for a connection waits for it, and is not given a  *)
(* device before.                                                          *)
Asked ==
  /\ NoUp \/ \E t \in Threads : pc[t] = "wait" /\ OneUp(t) /\ ~Given
  /\ \A t \in Threads : pc[t] = "request" => ~Given

(* Both searches stop at entry 0 or nowhere: no other one is ever used.    *)
FirstOnly ==
  /\ \A d \in Devices \ {0} : handle[d] = Invalid
  /\ \A t \in Threads : held[t] \in {0, Nobody}
  /\ complete.status \in {0, Nobody, Reason}
  /\ \A t \in Threads : pc[t] \in {"close", "closeReset", "terminate", "closeWait", "free"} => held[t] = 0
  /\ ioPc = "place" => Up(event)
  /\ ioPc = "find" => ~Up(event)

(* A link that is up is in entry 0 or on its way to it; it is down before  *)
(* a close forgets it; and who has been given the entry is known.          *)
LinkPlaced ==
  /\ \A l \in links : l = handle[0] \/ LinkIn(events, l) \/ (ioPc = "place" /\ event.link = l)
  /\ \A t \in Threads : pc[t] \in {"closeWait", "free"} => handle[0] \notin links
EntryOwned ==
  handle[0] # Invalid =>
    \E t \in Threads : \/ held[t] = 0
                       \/ pc[t] = "wait" /\ \/ complete.signaled
                                            \/ ioPc = "signal" /\ Up(event) /\ event.for = t

LinksInv == TypeOK /\ Shaped /\ (Running /\ late = 0 => Asked /\ FirstOnly /\ LinkPlaced /\ EntryOwned)

(* Only the holder of the lock asks, waits or terminates.                  *)
LEMMA OneInside ==
  ASSUME Shaped, NEW t \in Threads, NEW u \in Threads, pc[t] \notin Outside, pc[u] \notin Outside
  PROVE  t = u
BY DEF Shaped

LEMMA InvLocal ==
  ASSUME late = 0, LinksInv, Running, NEW t \in Threads,
         Open(t) \/ Close(t) \/ Lock(t) \/ Unlock(t) \/ Reset(t) \/ Request(t) \/ Closed(t)
  PROVE  Asked' /\ FirstOnly' /\ LinkPlaced' /\ EntryOwned'
<1>1. TypeOK /\ Shaped /\ Asked /\ FirstOnly /\ LinkPlaced /\ EntryOwned
  BY DEF LinksInv
<1>2. UNCHANGED <<held, handle, links, events, ioPc, event>>
  BY DEF Open, Close, Lock, Unlock, Reset, Request, Closed, ioVars
<1>3. pc[t] # "wait" /\ pc' = [pc EXCEPT ![t] = pc'[t]] /\ pc \in [Threads -> Places]
  BY <1>1 DEF Open, Close, Lock, Unlock, Reset, Request, Closed, Go, TypeOK, Places
<1>4. \A u \in Threads \ {t} : pc'[u] = pc[u]
  BY <1>3
<1>5. FirstOnly'
  <2>1. complete'.status \in {0, Nobody, Reason}
    BY <1>1 DEF Open, Close, Lock, Unlock, Reset, Request, Closed, Cleared, Unsignaled, FirstOnly
  <2>2. pc'[t] \in {"close", "closeReset", "terminate", "closeWait", "free"} => held[t] = 0
    BY <1>1, <1>3, NobodyAssumption
       DEF Open, Close, Lock, Unlock, Reset, Request, Closed, Go, FirstOnly, TypeOK
  <2> QED BY <1>1, <1>2, <1>4, <2>1, <2>2 DEF FirstOnly
<1>6. LinkPlaced'
  <2>1. pc'[t] \in {"closeWait", "free"} => pc[t] \in {"closeWait", "free"}
    BY <1>1, <1>3 DEF Open, Close, Lock, Unlock, Reset, Request, Closed, Go
  <2> QED BY <1>1, <1>2, <1>4, <2>1 DEF LinkPlaced
<1>7. EntryOwned'
  <2>1. CASE complete' = complete
    BY <1>1, <1>2, <1>3, <1>4, <2>1 DEF EntryOwned
  <2>2. CASE Reset(t)
    <3>1. \A u \in Threads : pc[u] # "wait"
      BY <1>1, <2>2, OneInside DEF Reset, Go, Outside
    <3> QED BY <1>1, <1>2, <3>1 DEF EntryOwned
  <2> QED BY <2>1, <2>2 DEF Open, Close, Lock, Unlock, Request, Closed
<1>8. Asked'
  <2>1. ASSUME NoUp, connecting' = connecting PROVE NoUp'
    BY <1>2, <2>1 DEF NoUp, Handled
  <2>2. CASE (Open(t) \/ Close(t) \/ Lock(t) \/ Unlock(t) \/ Closed(t)) /\ pc'[t] # "request"
    <3>1. connecting' = connecting /\ complete' = complete
      BY <2>2 DEF Open, Close, Lock, Unlock, Closed
    <3> QED BY <1>1, <1>2, <1>3, <1>4, <2>1, <2>2, <3>1 DEF Asked, OneUp, NoUp, Handled, Given
  <2>3. CASE Reset(t)
    <3>1. \A u \in Threads : pc[u] # "wait"
      BY <1>1, <2>3, OneInside DEF Reset, Go, Outside
    <3>2. NoUp /\ connecting' = connecting /\ ~Given'
      BY <1>1, <2>3, <3>1 DEF Asked, Reset, Cleared, Unsignaled, Given
    <3> QED BY <1>1, <2>1, <3>2 DEF Asked
  <2>4. CASE Request(t)
    <3>1. \A u \in Threads : pc[u] # "wait" /\ (u # t => pc[u] # "request")
      BY <1>1, <2>4, OneInside DEF Request, Go, Outside
    <3>2. NoUp /\ ~Given /\ complete' = complete /\ pc'[t] = "wait"
      BY <1>1, <1>3, <2>4, <3>1 DEF Asked, Request, Go, TypeOK
    <3>3. connecting' = {} \/ connecting' = {t}
      BY <2>4, <3>2 DEF Request, NoUp
    <3>4. \A u \in Threads : pc'[u] # "request"
      BY <1>4, <3>1, <3>2
    <3>5. NoUp' \/ OneUp(t)'
      BY <1>2, <3>2, <3>3 DEF NoUp, OneUp, Handled
    <3> QED BY <3>2, <3>4, <3>5 DEF Asked, Given
  <2> QED BY <1>1, <2>2, <2>3, <2>4 DEF Open, Close, Lock, Unlock, Closed, Go, TypeOK
<1> QED BY <1>5, <1>6, <1>7, <1>8

LEMMA InvEnds ==
  ASSUME late = 0, late' = 0, LinksInv, Running, Running', NEW t \in Threads,
         Opened(t) \/ OpenTimeout(t) \/ CloseTimeout(t)
  PROVE  Asked' /\ FirstOnly' /\ LinkPlaced' /\ EntryOwned'
<1>1. TypeOK /\ Shaped /\ Asked /\ FirstOnly /\ LinkPlaced /\ EntryOwned
  BY DEF LinksInv
<1>2. UNCHANGED <<handle, links, events, ioPc, event, connecting, complete>>
  BY DEF Opened, OpenTimeout, CloseTimeout, ioVars
<1>3. pc' = [pc EXCEPT ![t] = pc'[t]] /\ pc \in [Threads -> Places]
  BY <1>1 DEF Opened, OpenTimeout, CloseTimeout, Go, TypeOK, Places
<1>4. \A u \in Threads \ {t} : pc'[u] = pc[u] /\ pc[u] \notin {"wait", "request"}
  BY <1>1, <1>3, OneInside DEF Opened, OpenTimeout, CloseTimeout, Go, Outside
<1>5. pc'[t] \in {"unlock", "free"} /\ (pc'[t] = "free" <=> pc[t] = "closeWait")
  BY <1>3 DEF Opened, OpenTimeout, CloseTimeout, Go
<1>6. NoUp
  <2>1. CASE pc[t] = "closeWait"
    BY <1>1, <1>4, <2>1 DEF Asked
  <2>2. CASE Opened(t)
    BY <1>1, <1>4, <2>2 DEF Asked, Opened, Given, Running
  <2>3. CASE OpenTimeout(t)
    <3>1. ~Expected(t, "up", Nobody)
      <4>1. late' # late + 1
        OBVIOUS
      <4> QED BY <2>3, <4>1 DEF OpenTimeout, RunsOut
    <3>2. ~OneUp(t)
      BY <3>1 DEF OneUp, OnlyIn, Handled, Up, Expected
    <3> QED BY <1>1, <1>4, <3>2 DEF Asked
  <2> QED BY <2>1, <2>2, <2>3 DEF CloseTimeout, Go
<1>7. Asked'
  BY <1>2, <1>4, <1>5, <1>6 DEF Asked, NoUp, Handled
<1>8. FirstOnly'
  <2>1. CASE Opened(t)
    <3>1. held' = [held EXCEPT ![t] = 0]
      <4>1. complete.status \in Devices /\ held' = [held EXCEPT ![t] = complete.status]
        BY <2>1 DEF Opened, Running
      <4>2. complete.status = 0
        BY <1>1, <4>1, NobodyAssumption DEF FirstOnly
      <4> QED BY <4>1, <4>2
    <3>2. \A u \in Threads : held'[u] = 0 \/ held'[u] = held[u]
      BY <1>1, <3>1 DEF TypeOK
    <3> QED BY <1>1, <1>2, <1>4, <1>5, <2>1, <3>2 DEF FirstOnly, Opened, Go
  <2>2. CASE held' = held
    BY <1>1, <1>2, <1>4, <1>5, <2>2 DEF FirstOnly
  <2> QED BY <2>1, <2>2 DEF OpenTimeout, CloseTimeout
<1>9. LinkPlaced'
  BY <1>1, <1>2, <1>4, <1>5 DEF LinkPlaced
<1>10. EntryOwned'
  <2> SUFFICES ASSUME handle[0] # Invalid
               PROVE  \E u \in Threads : held'[u] = 0
    BY <1>2 DEF EntryOwned
  <2>1. CASE Opened(t)
    <3>1. complete.status \in Devices /\ held' = [held EXCEPT ![t] = complete.status]
      BY <2>1 DEF Opened, Running
    <3>2. complete.status = 0
      BY <1>1, <3>1, NobodyAssumption DEF FirstOnly
    <3>3. held'[t] = 0
      BY <1>1, <3>1, <3>2 DEF TypeOK
    <3> QED BY <3>3
  <2>2. CASE OpenTimeout(t) \/ CloseTimeout(t)
    <3>1. held' = held /\ ~complete.signaled
      BY <2>2 DEF OpenTimeout, CloseTimeout, RunsOut
    <3>2. ~(ioPc = "signal" /\ Up(event))
      BY <1>6 DEF NoUp, Handled
    <3> QED BY <1>1, <3>1, <3>2 DEF EntryOwned
  <2> QED BY <2>1, <2>2
<1> QED BY <1>7, <1>8, <1>9, <1>10

LEMMA InvCloses ==
  ASSUME late = 0, LinksInv, Running, NEW t \in Threads, Terminate(t) \/ FreeDevice(t)
  PROVE  Asked' /\ FirstOnly' /\ LinkPlaced' /\ EntryOwned'
<1>1. TypeOK /\ Shaped /\ Asked /\ FirstOnly /\ LinkPlaced /\ EntryOwned
  BY DEF LinksInv
<1>2. held[t] = 0 /\ 0 \in Devices
  BY <1>1, DeviceAssumption DEF Terminate, FreeDevice, Go, FirstOnly, Devices
<1>3. \A u \in Threads : pc[u] # "wait" /\ (u # t => pc'[u] = pc[u] /\ pc[u] \notin {"closeWait", "free"})
  BY <1>1, OneInside DEF Terminate, FreeDevice, Go, Outside, TypeOK
<1>4. pc'[t] \in {"closeWait", "closeUnlock"} /\ \A u \in Threads : pc'[u] = "request" => pc[u] = "request"
  BY <1>1 DEF Terminate, FreeDevice, Go, TypeOK
<1>5. NoUp
  BY <1>1, <1>3 DEF Asked
<1>6. UNCHANGED <<complete, connecting, ioPc, event>>
  BY DEF Terminate, FreeDevice, ioVars
<1>7. CASE Terminate(t)
  <2>1. UNCHANGED <<held, handle>>
    BY <1>7 DEF Terminate
  <2>2. \/ handle[0] \in links /\ links' = links \ {handle[0]}
           /\ events' = Append(events, [kind |-> "down", link |-> handle[0], for |-> Nobody])
        \/ handle[0] \notin links /\ UNCHANGED <<links, events>>
    BY <1>2, <1>7 DEF Terminate
  <2>3. NoneIn(events) => NoneIn(events')
    <3>1. ASSUME handle[0] \in links
          PROVE  /\ [kind |-> "down", link |-> handle[0], for |-> Nobody] \in LinkEvents
                 /\ ~Up([kind |-> "down", link |-> handle[0], for |-> Nobody])
                 /\ events \in Seq(LinkEvents)
      BY <1>1, <3>1 DEF LinkEvents, Up, TypeOK
    <3> QED BY <2>2, <3>1, QueueAppend
  <2>4. \A l : ~LinkIn(events, l)
    BY <1>5 DEF NoUp, NoneIn, LinkIn
  <2>5. links' = {}
    <3>1. ioPc # "place"
      BY <1>1, <1>5 DEF FirstOnly, NoUp, Handled
    <3> QED BY <1>1, <2>2, <2>4, <3>1 DEF LinkPlaced
  <2>6. LinkPlaced'
    BY <2>1, <2>5 DEF LinkPlaced
  <2>7. NoUp'
    BY <1>5, <1>6, <2>3 DEF NoUp, Handled
  <2>8. Asked'
    BY <1>1, <1>4, <1>6, <2>7 DEF Asked, Given
  <2>9. FirstOnly'
    BY <1>1, <1>2, <1>3, <1>6, <2>1 DEF FirstOnly
  <2>10. EntryOwned'
    BY <1>1, <1>3, <2>1 DEF EntryOwned
  <2> QED BY <2>6, <2>8, <2>9, <2>10
<1>8. CASE FreeDevice(t)
  <2>1. handle'[0] = Invalid /\ (\A d \in Devices \ {0} : handle'[d] = handle[d]) /\ UNCHANGED <<links, events>>
    BY <1>1, <1>2, <1>8 DEF FreeDevice, Freed, TypeOK, ioVars
  <2>2. \A u \in Threads : (held'[u] = Nobody \/ held'[u] = held[u]) /\ (u # t => held'[u] = held[u])
    BY <1>1, <1>8 DEF FreeDevice, TypeOK
  <2>3. links = {}
    <3>1. ioPc # "place"
      BY <1>1, <1>5 DEF FirstOnly, NoUp, Handled
    <3>2. handle[0] \notin links
      BY <1>1, <1>8 DEF LinkPlaced, FreeDevice, Go
    <3>3. \A l : ~LinkIn(events, l)
      BY <1>5 DEF NoUp, NoneIn, LinkIn
    <3> QED BY <1>1, <3>1, <3>2, <3>3 DEF LinkPlaced
  <2>4. NoUp'
    BY <1>5, <1>6, <2>1 DEF NoUp, Handled
  <2>5. Asked'
    BY <1>1, <1>4, <1>6, <2>4 DEF Asked, Given
  <2>6. pc'[t] = "closeUnlock"
    BY <1>1, <1>8 DEF FreeDevice, Go, TypeOK
  <2>7. FirstOnly'
    BY <1>1, <1>3, <1>6, <2>1, <2>2, <2>6 DEF FirstOnly
  <2> QED BY <2>1, <2>3, <2>5, <2>7 DEF LinkPlaced, EntryOwned
<1> QED BY <1>7, <1>8

LEMMA InvController ==
  ASSUME late = 0, LinksInv, Running, (\E t \in Threads : Establish(t) \/ Fail(t)) \/ Drop
  PROVE  Asked' /\ FirstOnly' /\ LinkPlaced' /\ EntryOwned'
<1>1. TypeOK /\ Shaped /\ Asked /\ FirstOnly /\ LinkPlaced /\ EntryOwned
  BY DEF LinksInv
<1>2. UNCHANGED <<pc, held, handle, complete, ioPc, event>>
  BY DEF Establish, Fail, Drop, callers
<1>3. FirstOnly' /\ EntryOwned'
  BY <1>1, <1>2 DEF FirstOnly, EntryOwned
<1>4. events \in Seq(LinkEvents)
  BY <1>1 DEF TypeOK
<1>5. ASSUME NEW t \in Threads, Establish(t) \/ Fail(t)
      PROVE  Asked' /\ LinkPlaced'
  <2>1. /\ pc[t] = "wait" /\ connecting = {t} /\ NoneIn(events) /\ ~Handled /\ ~Given
        /\ connecting' = {}
    BY <1>1, <1>5 DEF Establish, Fail, Asked, NoUp, OneUp
  <2>2. PICK l \in Links \cup {Invalid} :
          /\ events' = Append(events, [kind |-> "up", link |-> l, for |-> t])
          /\ links' \subseteq links \cup {l}
    BY <1>5 DEF Establish, Fail
  <2>3. PICK e : e = [kind |-> "up", link |-> l, for |-> t] /\ e \in LinkEvents
    <3>1. [kind |-> "up", link |-> l, for |-> t] \in LinkEvents
      BY DEF LinkEvents
    <3> QED BY <3>1
  <2>4. OnlyIn(events', t) /\ LinkIn(events', l) /\ \A k : LinkIn(events, k) => LinkIn(events', k)
    BY <1>4, <2>1, <2>2, <2>3, QueueAppend DEF Up
  <2>5. OneUp(t)'
    BY <1>2, <2>1, <2>4 DEF OneUp, Handled
  <2>6. Asked'
    BY <1>1, <1>2, <2>1, <2>5 DEF Asked, Given
  <2>7. \A u \in Threads : pc[u] \notin {"closeWait", "free"}
    BY <1>1, <2>1, OneInside DEF Outside
  <2>8. LinkPlaced'
    BY <1>1, <1>2, <2>2, <2>4, <2>7 DEF LinkPlaced
  <2> QED BY <2>6, <2>8
<1>6. CASE Drop
  <2>1. PICK l \in links : /\ links' = links \ {l}
                           /\ events' = Append(events, [kind |-> "down", link |-> l, for |-> Nobody])
    BY <1>6 DEF Drop
  <2>2. PICK e : e = [kind |-> "down", link |-> l, for |-> Nobody] /\ e \in LinkEvents /\ ~Up(e)
    <3>1. [kind |-> "down", link |-> l, for |-> Nobody] \in LinkEvents
      BY <1>1 DEF LinkEvents, TypeOK
    <3> QED BY <3>1 DEF Up
  <2>3. /\ NoneIn(events) => NoneIn(events')
        /\ \A t : OnlyIn(events, t) => OnlyIn(events', t)
        /\ \A k : LinkIn(events, k) => LinkIn(events', k)
    BY <1>4, <2>1, <2>2, QueueAppend
  <2>4. connecting' = connecting
    BY <1>6 DEF Drop
  <2>5. Asked'
    BY <1>1, <1>2, <2>3, <2>4 DEF Asked, NoUp, OneUp, Handled, Given
  <2>6. LinkPlaced'
    BY <1>1, <1>2, <2>1, <2>3 DEF LinkPlaced
  <2> QED BY <1>3, <2>5, <2>6
<1> QED BY <1>3, <1>5, <1>6

LEMMA InvTakes ==
  ASSUME late = 0, LinksInv, Running, TakeEvent
  PROVE  Asked' /\ FirstOnly' /\ LinkPlaced' /\ EntryOwned'
<1>1. TypeOK /\ Shaped /\ Asked /\ FirstOnly /\ LinkPlaced /\ EntryOwned
  BY DEF LinksInv
<1>2. UNCHANGED <<pc, held, handle, complete, connecting, links>> /\ ~Handled /\ ioPc = "idle"
  BY DEF TakeEvent, callers, Handled
<1>3. events \in Seq(LinkEvents) /\ events # <<>>
  BY <1>1 DEF TakeEvent, TypeOK
<1>4. event' = Head(events) /\ events' = Tail(events) /\ ioPc' = IF Up(event') THEN "place" ELSE "find"
  BY DEF TakeEvent, Up
<1>5. Handled' <=> Up(event')
  BY <1>4 DEF Handled
<1>6. FirstOnly' /\ EntryOwned'
  BY <1>1, <1>2, <1>4 DEF FirstOnly, EntryOwned
<1>7. LinkPlaced'
  BY <1>1, <1>2, <1>3, <1>4, QueueTail DEF LinkPlaced
<1>8. Asked'
  <2>1. NoUp => NoUp'
    BY <1>2, <1>3, <1>4, <1>5, QueueTail DEF NoUp
  <2>2. ASSUME NEW t \in Threads, OneUp(t) PROVE OneUp(t)'
    <3>1. CASE connecting = {t} /\ NoneIn(events)
      BY <1>2, <1>3, <1>4, <1>5, <3>1, QueueTail DEF OneUp
    <3>2. CASE connecting = {} /\ OnlyIn(events, t)
      BY <1>2, <1>3, <1>4, <1>5, <3>2, QueueTail DEF OneUp
    <3> QED BY <1>2, <2>2, <3>1, <3>2 DEF OneUp
  <2> QED BY <1>1, <1>2, <2>1, <2>2 DEF Asked, Given
<1> QED BY <1>6, <1>7, <1>8

LEMMA InvHandles ==
  ASSUME late = 0, LinksInv, Running, Place \/ Find \/ Signal
  PROVE  Asked' /\ FirstOnly' /\ LinkPlaced' /\ EntryOwned'
<1>1. TypeOK /\ Shaped /\ Asked /\ FirstOnly /\ LinkPlaced /\ EntryOwned
  BY DEF LinksInv
<1>2. UNCHANGED <<pc, held, connecting, links, events>>
  BY DEF Place, Find, Signal, callers
<1>3. ASSUME Handled
      PROVE  \E t \in Threads : /\ pc[t] = "wait" /\ OneUp(t) /\ ~Given /\ event.for = t
                                /\ connecting = {} /\ NoneIn(events)
                                /\ \A u \in Threads \ {t} : pc[u] \notin {"wait", "request", "closeWait", "free"}
  <2>1. PICK t \in Threads : pc[t] = "wait" /\ OneUp(t) /\ ~Given
    BY <1>1, <1>3 DEF Asked, NoUp
  <2>2. \A u \in Threads \ {t} : pc[u] \notin {"wait", "request", "closeWait", "free"}
    BY <1>1, <2>1, OneInside DEF Outside
  <2> QED BY <1>3, <2>1, <2>2 DEF OneUp
<1>4. CASE Place
  <2>1. Handled /\ Handled' /\ Up(event) /\ UNCHANGED <<event, complete>> /\ ioPc' = "signal"
    BY <1>1, <1>4 DEF Place, FirstOnly, Handled
  <2>2. PICK t \in Threads : /\ pc[t] = "wait" /\ OneUp(t) /\ ~Given /\ event.for = t
                             /\ connecting = {} /\ NoneIn(events)
                             /\ \A u \in Threads \ {t} : pc[u] \notin {"wait", "request", "closeWait", "free"}
    BY <1>3, <2>1
  <2>3. handle[0] = Invalid /\ handle' = [handle EXCEPT ![0] = event.link] /\ 0 \in Devices
    BY <1>4, DeviceAssumption DEF Place, Spinning, Devices
  <2>4. Asked'
    BY <1>1, <1>2, <2>1, <2>2 DEF Asked, OneUp, Given
  <2>5. FirstOnly'
    BY <1>1, <1>2, <2>1, <2>3 DEF FirstOnly, TypeOK
  <2>6. LinkPlaced'
    <3>1. \A l \in links : l # handle[0] /\ ~LinkIn(events, l)
      BY <1>1, <2>2, <2>3, LinkAssumption DEF TypeOK, NoneIn, LinkIn
    <3>2. \A l \in links : l = handle'[0]
      BY <1>1, <2>3, <3>1 DEF LinkPlaced, TypeOK
    <3> QED BY <1>2, <2>2, <3>2 DEF LinkPlaced
  <2>7. EntryOwned'
    BY <1>2, <2>1, <2>2 DEF EntryOwned
  <2> QED BY <2>4, <2>5, <2>6, <2>7
<1>5. CASE Find
  <2>1. ~Up(event) /\ UNCHANGED <<event, complete, handle>> /\ ioPc = "find" /\ ioPc' = "signal"
    BY <1>1, <1>5 DEF Find, FirstOnly
  <2>2. FirstOnly' /\ LinkPlaced' /\ EntryOwned'
    BY <1>1, <1>2, <2>1 DEF FirstOnly, LinkPlaced, EntryOwned
  <2>3. Asked'
    BY <1>1, <1>2, <2>1 DEF Asked, NoUp, OneUp, Handled, Given
  <2> QED BY <2>2, <2>3
<1>6. CASE Signal
  <2>1. /\ handle' = handle /\ ioPc = "signal" /\ ioPc' = "idle"
        /\ complete' = [signaled |-> TRUE, status |-> IF Up(event) THEN 0 ELSE Reason]
    BY <1>6 DEF Signal, Up
  <2>2. FirstOnly' /\ LinkPlaced'
    BY <1>1, <1>2, <2>1 DEF FirstOnly, LinkPlaced
  <2>3. EntryOwned'
    BY <1>1, <1>2, <2>1 DEF EntryOwned
  <2>4. Asked'
    <3>1. CASE Up(event)
      <4>1. Handled
        BY <2>1, <3>1 DEF Handled
      <4>2. NoUp' /\ \A u \in Threads : pc[u] # "request"
        BY <1>2, <1>3, <2>1, <4>1 DEF NoUp, Handled
      <4> QED BY <1>2, <4>2 DEF Asked
    <3>2. CASE ~Up(event)
      <4>1. ~Given'
        BY <2>1, <3>2, NobodyAssumption DEF Given
      <4>2. ~Handled /\ ~Handled'
        BY <2>1, <3>2 DEF Handled
      <4> QED BY <1>1, <1>2, <4>1, <4>2 DEF Asked, NoUp, OneUp
    <3> QED BY <3>1, <3>2
  <2> QED BY <2>2, <2>3, <2>4
<1> QED BY <1>4, <1>5, <1>6

LEMMA LinksStep == ASSUME LinksInv, [Next]_vars PROVE LinksInv'
<1>1. TypeOK' /\ Shaped'
  BY TypeInductive, ShapedStep DEF LinksInv
<1>2. ASSUME Running', late' = 0 PROVE Asked' /\ FirstOnly' /\ LinkPlaced' /\ EntryOwned'
  <2>1. late = 0 /\ ~\E t \in Threads : Refused(t)
    BY <1>2, LateGrows DEF LinksInv, Shaped, Refused
  <2>2. CASE \E t \in Threads : Open(t) \/ Close(t) \/ Lock(t) \/ Unlock(t) \/ Reset(t) \/ Request(t) \/ Closed(t)
    BY <2>2, <2>1, InvLocal DEF Open, Close, Lock, Unlock, Reset, Request, Closed, Go
  <2>3. CASE \E t \in Threads : Opened(t) \/ OpenTimeout(t) \/ CloseTimeout(t)
    BY <1>2, <2>3, <2>1, InvEnds DEF Opened, OpenTimeout, CloseTimeout, Go
  <2>4. CASE \E t \in Threads : Terminate(t) \/ FreeDevice(t)
    BY <2>4, <2>1, InvCloses DEF Terminate, FreeDevice, Go
  <2>5. CASE (\E t \in Threads : Establish(t) \/ Fail(t)) \/ Drop
    BY <2>5, <2>1, InvController DEF Establish, Fail, Drop
  <2>6. CASE IoStep
    BY <2>6, <2>1, InvTakes, InvHandles DEF IoStep, TakeEvent, Place, Find, Signal
  <2>7. CASE Finished \/ UNCHANGED vars
    <3>1. UNCHANGED vars
      BY <2>7 DEF Finished
    <3> QED BY <1>2, <2>1, <3>1 DEF LinksInv, Running, vars, callers, ioVars, Asked, FirstOnly, LinkPlaced,
            EntryOwned, NoUp, OneUp, Handled, Given
  <2> QED BY <2>1, <2>2, <2>3, <2>4, <2>5, <2>6, <2>7 DEF Next, CallerStep
<1> QED BY <1>1, <1>2 DEF LinksInv

(* Until a wait runs out while its event is under way, or a close is       *)
(* refused, a link that is up is in the device table or its event is still *)
(* to be handled, and a device in use belongs to a thread or to the open   *)
(* that waits for it: for any number of lost links and failed connections, *)
(* and also while the I/O thread searches for a second device for ever.    *)
THEOREM LinksAreOwned == Spec => []LinksOwned
<1>1. Init => LinksInv
  <2> SUFFICES ASSUME Init PROVE LinksInv
    OBVIOUS
  <2>1. NoUp
    BY DEF Init, NoUp, NoneIn, Handled
  <2>2. 0 \in Devices /\ handle[0] = Invalid
    BY DeviceAssumption DEF Init, Devices
  <2> QED BY <2>1, <2>2, TypeInitially DEF Init, LinksInv, Shaped, Outside, Asked, Given, FirstOnly,
          LinkPlaced, EntryOwned, Unsignaled, Up
<1>2. LinksInv /\ [Next]_vars => LinksInv'
  BY LinksStep
<1>3. LinksInv => LinksOwned
  <2> SUFFICES ASSUME LinksInv, Running, late = 0
               PROVE  /\ \A l \in links : Announced(l) \/ \E d \in Devices : handle[d] = l
                      /\ \A d \in Devices : handle[d] # Invalid =>
                           \E t \in Threads : \/ held[t] = d
                                              \/ /\ pc[t] = "wait"
                                                 /\ \/ complete.signaled
                                                    \/ ioPc = "signal" /\ Up(event) /\ event.for = t
    BY DEF LinksOwned, Up
  <2>1. FirstOnly /\ LinkPlaced /\ EntryOwned
    BY DEF LinksInv
  <2>2. 0 \in Devices
    BY DeviceAssumption DEF Devices
  <2>3. \A l \in links : l = handle[0] \/ Announced(l)
    BY <2>1 DEF LinkPlaced, LinkIn, Announced, Up
  <2>4. \A d \in Devices : handle[d] # Invalid => d = 0
    BY <2>1 DEF FirstOnly
  <2> QED BY <2>1, <2>2, <2>3, <2>4 DEF EntryOwned
<1> QED BY <1>1, <1>2, <1>3, PTL DEF Spec
=============================================================================
