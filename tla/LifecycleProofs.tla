-------------------------- MODULE LifecycleProofs --------------------------
(***************************************************************************)
(* Proofs about Lifecycle, for every number of channels, rounds, reads and *)
(* failures: what lb_connect and os_initialize take is given back, and     *)
(* os_cleanup returns after the I/O thread has ended.                      *)
(***************************************************************************)
EXTENDS Lifecycle, TLAPS

-----------------------------------------------------------------------------
(* Memory and handles.                                                     *)

GivenBack(c) == /\ channel[c] # "live"
                /\ controller[c] \in {"unused", "freed"}
                /\ serial[c] \in {"none", "closed"}
                /\ controller[c] = "unused" => serial[c] = "none" /\ channel[c] = "unused"

Connecting == {"open", "read", "done", "sleep", "await", "connected", "destroyLocks",
               "closeHandle", "freeChannel", "freeController"}

(* What the current channel holds at each point of lb_connect and          *)
(* lb_disconnect.                                                          *)
Held(c) ==
  /\ app = "open" => /\ controller[c] = "live"
                     /\ serial[c] \in {"none", "local"}
                     /\ step \in 1 .. 9
                     /\ IF step = 1 THEN channel[c] = "unused" /\ serial[c] = "none" ELSE channel[c] = "live"
  /\ app \in {"read", "connected", "sleep", "await"} =>
       channel[c] = "live" /\ controller[c] = "live" /\ serial[c] = "channel"
  /\ app = "done" =>
       channel[c] = "live" /\ controller[c] = "live" /\ serial[c] \in {"none", "local", "channel"}
  /\ app = "destroyLocks" =>
       /\ controller[c] = "live"
       /\ IF serial[c] = "channel" THEN channel[c] = "live"
                                   ELSE channel[c] # "live" /\ serial[c] \in {"none", "closed"}
  /\ app = "closeHandle" =>
       controller[c] = "unlocked" /\ channel[c] = "live" /\ serial[c] = "channel"
  /\ app = "freeChannel" =>
       controller[c] = "unlocked" /\ channel[c] = "live" /\ serial[c] = "closed"
  /\ app = "freeController" =>
       controller[c] = "unlocked" /\ channel[c] # "live" /\ serial[c] \in {"none", "closed"}

MemoryTyped ==
  /\ channel \in [Channels -> {"unused", "live", "freed"}]
  /\ controller \in [Channels -> {"unused", "live", "unlocked", "freed"}]
  /\ serial \in [Channels -> {"none", "local", "channel", "closed"}]

MemoryInv ==
  /\ MemoryTyped
  /\ app \in Connecting => current \in Channels /\ Held(current)
  /\ \A c \in Channels : (app \notin Connecting \/ c # current) => GivenBack(c)

(* Steps that do not touch memory, and stay inside or outside the states   *)
(* in which a channel is held.                                             *)
LEMMA MemoryKept ==
  ASSUME MemoryInv, UNCHANGED <<memory, current>>,
         \/ UNCHANGED <<app, step>>
         \/ app \notin Connecting /\ app' \notin Connecting
         \/ /\ app \in {"connected", "sleep", "await", "read"}
            /\ app' \in {"connected", "sleep", "await", "done", "destroyLocks"}
         \/ /\ app = "open"
            /\ app' = IF step = 1 THEN "destroyLocks" ELSE "done"
  PROVE  MemoryInv'
BY DEF MemoryInv, MemoryTyped, Held, GivenBack, Connecting, memory

LEMMA LastCall == OpenCalls[9] = "CreateIoCompletionPort" /\ Len(OpenCalls) = 9
                  /\ OpenCalls[1] = "malloc" /\ OpenCalls[2] = "CreateFile"
                  /\ \A s \in 1 .. 9 : /\ OpenCalls[s] = "malloc" <=> s = 1
                                       /\ OpenCalls[s] = "CreateIoCompletionPort" <=> s = 9
BY DEF OpenCalls

LEMMA MemoryInductive == MemoryInv /\ [Next]_vars => MemoryInv'
<1> SUFFICES ASSUME MemoryInv, [Next]_vars PROVE MemoryInv'
  OBVIOUS
<1> USE DEF Go
<1>1. ASSUME ThreadStep \/ CallbackWaits \/ (\E c \in Channels : ReadEnds(c)) \/ CtrlC
             \/ PostInterrupt \/ Finished \/ UNCHANGED vars
      PROVE  UNCHANGED <<memory, current, app, step>>
  BY <1>1 DEF ThreadStep, Take, Data, Restart, ThreadEnds, CallbackWaits, ReadEnds, CtrlC,
     PostInterrupt, Finished, vars, appVars
<1>2. ASSUME Initialize \/ CreatePort \/ RegisterHandler \/ BeginThread \/ InitFails \/ Cleanup
             \/ PostShutdown \/ Join
      PROVE  UNCHANGED <<memory, current>> /\ app \notin Connecting /\ app' \notin Connecting
  BY <1>2 DEF Initialize, CreatePort, RegisterHandler, BeginThread, InitFails, Cleanup, PostShutdown,
     Join, Connecting
<1>3. ASSUME Wait \/ TakePost \/ SleepEnds \/ Disconnect \/ StartRead
      PROVE  /\ UNCHANGED <<memory, current>>
             /\ app \in {"connected", "sleep", "await", "read"}
             /\ app' \in {"connected", "sleep", "await", "done", "destroyLocks"}
  BY <1>3 DEF Wait, TakePost, SleepEnds, Disconnect, StartRead
<1>4. CASE Connect
  <2>1. PICK c \in Channels : /\ controller[c] = "unused" /\ current' = c
                              /\ controller' = [controller EXCEPT ![c] = "live"]
    BY <1>4 DEF Connect
  <2>2. /\ app = "up" /\ app' = "open" /\ step' = 1 /\ UNCHANGED <<channel, serial>>
        /\ \A d \in Channels : GivenBack(d)
    BY <1>4 DEF Connect, MemoryInv, Connecting
  <2>3. MemoryTyped' /\ Held(c)'
    BY <2>1, <2>2 DEF MemoryInv, MemoryTyped, Held, GivenBack
  <2> QED
    BY <2>1, <2>2, <2>3 DEF MemoryInv, MemoryTyped, GivenBack, Connecting
<1>5. CASE OpenCall
  <2>1. /\ app = "open" /\ current \in Channels /\ Held(current) /\ step \in 1 .. 9
        /\ UNCHANGED <<current, controller>>
    BY <1>5 DEF OpenCall, MemoryInv, Connecting, Held
  <2>2. channel' = IF step = 1 THEN [channel EXCEPT ![current] = "live"] ELSE channel
    BY <1>5, <2>1, LastCall DEF OpenCall
  <2>3. CASE step = 9
    <3>1. /\ app' = "read" /\ serial' = [serial EXCEPT ![current] = "channel"]
          /\ channel' = channel /\ channel[current] = "live"
      BY <1>5, <2>1, <2>2, <2>3, LastCall DEF OpenCall, Holds, Held
    <3> QED
      BY <2>1, <3>1 DEF MemoryInv, MemoryTyped, Held, GivenBack, Connecting
  <2>4. CASE step # 9
    <3>1. /\ app' = "open" /\ step' = step + 1
          /\ serial' = serial \/ serial' = [serial EXCEPT ![current] = "local"]
      BY <1>5, <2>1, <2>4, LastCall DEF OpenCall, Holds, NextCall
    <3> QED
      BY <2>1, <2>2, <2>4, <3>1 DEF MemoryInv, MemoryTyped, Held, GivenBack, Connecting
  <2> QED
    BY <2>3, <2>4
<1>6. CASE OpenFails
  <2>1. app = "open" /\ step \in 1 .. 9 /\ UNCHANGED <<memory, current>>
    BY <1>6 DEF OpenFails, MemoryInv, Connecting, Held
  <2> QED BY <1>6, <2>1, LastCall, MemoryKept DEF OpenFails
<1>7. CASE Done
  BY <1>7 DEF Done, Attached, Closed, Freed, MemoryInv, MemoryTyped, Held, GivenBack, Connecting
<1>8. CASE DestroyLocks
  BY <1>8 DEF DestroyLocks, HasChannel, Attached, Unlocked, MemoryInv, MemoryTyped, Held, GivenBack, Connecting
<1>9. CASE ClosePort
  BY <1>9 DEF ClosePort, CloseHandle, Holds, Closed, MemoryInv, MemoryTyped, Held, GivenBack, Connecting
<1>10. CASE FreeChannel
  BY <1>10 DEF FreeChannel, Freed, MemoryInv, MemoryTyped, Held, GivenBack, Connecting
<1>11. CASE FreeController
  BY <1>11 DEF FreeController, Freed, MemoryInv, MemoryTyped, Held, GivenBack, Connecting
<1> QED
  BY <1>1, <1>2, <1>3, <1>4, <1>5, <1>6, <1>7, <1>8, <1>9, <1>10, <1>11, MemoryKept
     DEF Next, AppStep, Returning

-----------------------------------------------------------------------------
(* The end of the I/O thread.                                              *)

(* shutdownCompletePort has a post only of a thread that has ended: no     *)
(* thread is started before an older post is forgotten with its port.      *)
ShutdownInv ==
  /\ stopped \in Nat
  /\ app = "init" => step \in 1 .. 5 /\ thread \in {"none", "ended"} /\ (step > 3 => stopped = 0)
  /\ stopped > 0 => thread = "ended"
  /\ ThreadStopped

LEMMA InitCallAt ==
  ASSUME NEW s \in 1 .. 5
  PROVE  /\ InitCalls[s] \in Ports <=> s <= 3
         /\ InitCalls[s] = "shutdown" <=> s = 3
         /\ InitCalls[s] = "SetConsoleCtrlHandler" <=> s = 4
BY DEF InitCalls, Ports

(* The completion ports: asked for one after the other, closed together.   *)
PortInv ==
  /\ port \in [Ports -> {"none", "open", "null", "closed"}]
  /\ app = "init" => /\ step \in 1 .. 5
                     /\ step > 1 => port["completion"] \in {"open", "null"}
                     /\ step > 2 => port["sleep"] \in {"open", "null"}
                     /\ step > 3 => port["shutdown"] \in {"open", "null"}
  /\ app \notin {"out", "init", "failed"} => \A p \in Ports : port[p] \in {"open", "null"}
  /\ app = "out" => \A p \in Ports : port[p] # "open"

LEMMA PortsInductive == PortInv /\ [Next]_vars => PortInv'
<1> SUFFICES ASSUME PortInv, [Next]_vars PROVE PortInv'
  OBVIOUS
<1> USE DEF Go
<1>1. CASE Initialize
  BY <1>1 DEF Initialize, PortInv, osVars
<1>2. CASE CreatePort
  <2>1. /\ app = "init" /\ app' = "init" /\ step \in 1 .. 3 /\ step' = step + 1
        /\ InitCalls[step] = IF step = 1 THEN "completion" ELSE IF step = 2 THEN "sleep" ELSE "shutdown"
    BY <1>2, InitCallAt DEF CreatePort, PortInv, InitCalls
  <2>2. \/ port' = [port EXCEPT ![InitCalls[step]] = "open"]
        \/ port' = [port EXCEPT ![InitCalls[step]] = "null"]
    BY <1>2 DEF CreatePort
  <2>3. CASE step = 1
    BY <2>1, <2>2, <2>3 DEF PortInv, Ports
  <2>4. CASE step = 2
    BY <2>1, <2>2, <2>4 DEF PortInv, Ports
  <2>5. CASE step = 3
    BY <2>1, <2>2, <2>5 DEF PortInv, Ports
  <2> QED BY <2>1, <2>3, <2>4, <2>5
<1>3. CASE RegisterHandler
  <2>1. app = "init" /\ app' = "init" /\ step = 4 /\ step' = 5 /\ port' = port
    BY <1>3, InitCallAt DEF RegisterHandler, PortInv
  <2> QED BY <2>1 DEF PortInv
<1>4. CASE BeginThread
  <2>1. app = "init" /\ app' = "up" /\ step \in 1 .. 5 /\ InitCalls[step] = "_beginthread" /\ port' = port
    BY <1>4 DEF BeginThread, PortInv, osVars
  <2>2. step > 3
    BY <2>1, InitCallAt DEF Ports
  <2> QED BY <2>1, <2>2 DEF PortInv, Ports
<1>5. CASE Join
  <2>1. \A p \in Ports : port[p] \in {"open", "null"}
    BY <1>5 DEF Join, PortInv
  <2> QED BY <1>5, <2>1 DEF Join, Closed, PortInv
<1>6. CASE InitFails
  BY <1>6 DEF InitFails, PortInv, osVars
<1>7. CASE Connect \/ OpenCall \/ OpenFails \/ StartRead \/ Wait \/ TakePost \/ SleepEnds
           \/ Disconnect \/ Cleanup \/ Done \/ DestroyLocks \/ ClosePort \/ FreeChannel
           \/ FreeController \/ PostShutdown
  <2>1. port' = port /\ app \notin {"out", "init", "failed"} /\ app' \notin {"out", "init", "failed"}
    BY <1>7 DEF Connect, OpenCall, OpenFails, StartRead, Wait, TakePost, SleepEnds, Disconnect,
       Cleanup, Done, DestroyLocks, ClosePort, FreeChannel, FreeController, PostShutdown, osVars
  <2> QED BY <2>1 DEF PortInv
<1>8. CASE ThreadStep \/ CallbackWaits \/ (\E c \in Channels : ReadEnds(c)) \/ CtrlC \/ PostInterrupt
           \/ Finished \/ UNCHANGED vars
  <2>1. UNCHANGED <<port, app, step>>
    BY <1>8 DEF ThreadStep, Take, Data, Restart, ThreadEnds, CallbackWaits, ReadEnds, CtrlC, PostInterrupt,
       Finished, vars, appVars, osVars
  <2> QED BY <2>1 DEF PortInv
<1> QED
  BY <1>1, <1>2, <1>3, <1>4, <1>5, <1>6, <1>7, <1>8 DEF Next, AppStep, Returning

(* Whichever calls of an open fail and whenever the application            *)
(* disconnects a controller: between two calls of the library nothing is   *)
(* left over, and free and CloseHandle are never called for what is not    *)
(* held.  An os_initialize that fails, and leaves its ports open, ends the *)
(* process here.                                                           *)
THEOREM NothingLeaks == Spec => []NoLeak
<1>1. Init => MemoryInv /\ PortInv
  BY DEF Init, MemoryInv, MemoryTyped, GivenBack, Connecting, PortInv, Ports
<1>2. MemoryInv /\ PortInv => NoLeak
  <2> SUFFICES ASSUME MemoryInv, PortInv PROVE NoLeak
    OBVIOUS
  <2>1. \A c \in Channels : "twice" \notin {channel[c], controller[c], serial[c]}
    BY DEF MemoryInv, MemoryTyped
  <2>2. (\A p \in Ports : port[p] # "twice") /\ (app = "out" => \A p \in Ports : port[p] # "open")
    BY DEF PortInv
  <2> QED BY <2>1, <2>2 DEF MemoryInv, NoLeak, Held, GivenBack, Connecting
<1> QED
  BY <1>1, <1>2, MemoryInductive, PortsInductive, PTL DEF Spec

LEMMA ShutdownInductive == ShutdownInv /\ [Next]_vars => ShutdownInv'
<1> SUFFICES ASSUME ShutdownInv, [Next]_vars PROVE ShutdownInv'
  OBVIOUS
<1> USE DEF Go
<1>1. CASE Initialize
  BY <1>1 DEF Initialize, ShutdownInv, ThreadStopped, queues, ioVars
<1>2. CASE CreatePort
  <2>1. /\ app = "init" /\ app' = "init" /\ step \in 1 .. 5 /\ InitCalls[step] \in Ports
        /\ step' = step + 1 /\ thread' = thread
    BY <1>2 DEF CreatePort, ShutdownInv, ioVars
  <2>2. step <= 3 /\ stopped' = IF step = 3 THEN 0 ELSE stopped
    BY <1>2, <2>1, InitCallAt DEF CreatePort
  <2> QED
    BY <2>1, <2>2 DEF ShutdownInv, ThreadStopped
<1>3. CASE RegisterHandler
  BY <1>3, InitCallAt DEF RegisterHandler, ShutdownInv, ThreadStopped, queues, ioVars
<1>4. CASE BeginThread
  <2>1. /\ app = "init" /\ app' = "up" /\ step \in 1 .. 5 /\ InitCalls[step] = "_beginthread"
        /\ stopped' = stopped
    BY <1>4 DEF BeginThread, ShutdownInv, queues
  <2>2. step > 3
    BY <2>1, InitCallAt DEF Ports
  <2> QED
    BY <2>1, <2>2 DEF ShutdownInv, ThreadStopped
<1>5. CASE Join
  BY <1>5 DEF Join, Stopped, ShutdownInv, ThreadStopped, PortsCreated, Ports, ioVars
<1>6. CASE InitFails \/ Connect \/ OpenCall \/ OpenFails \/ StartRead \/ Wait \/ TakePost \/ SleepEnds
           \/ Disconnect \/ Cleanup \/ Done \/ DestroyLocks \/ ClosePort \/ FreeChannel
           \/ FreeController \/ PostShutdown
  <2>1. UNCHANGED <<stopped, thread>> /\ app' \notin {"out", "init"}
    BY <1>6 DEF InitFails, Connect, OpenCall, OpenFails, StartRead, Wait, TakePost, SleepEnds, Disconnect,
       Cleanup, Done, DestroyLocks, ClosePort, FreeChannel, FreeController, PostShutdown, queues, ioVars
  <2> QED
    BY <2>1 DEF ShutdownInv, ThreadStopped
<1>7. CASE Take \/ Data \/ Restart \/ CallbackWaits
  <2>1. /\ UNCHANGED <<stopped, app, step, port>> /\ thread \notin {"none", "ended"}
    BY <1>7 DEF Take, Data, Restart, CallbackWaits, appVars, osVars, queues
  <2> QED
    BY <2>1 DEF ShutdownInv, ThreadStopped, PortsCreated
<1>8. CASE ThreadEnds
  BY <1>8 DEF ThreadEnds, PostStopped, ShutdownInv, ThreadStopped, appVars, osVars
<1>9. CASE (\E c \in Channels : ReadEnds(c)) \/ CtrlC \/ PostInterrupt \/ Finished \/ UNCHANGED vars
  <2>1. UNCHANGED <<stopped, app, step, port, thread>>
    BY <1>9 DEF ReadEnds, CtrlC, PostInterrupt, Finished, vars, appVars, osVars, queues, ioVars
  <2> QED
    BY <2>1 DEF ShutdownInv, ThreadStopped, PortsCreated
<1> QED
  BY <1>1, <1>2, <1>3, <1>4, <1>5, <1>6, <1>7, <1>8, <1>9 DEF Next, AppStep, Returning, ThreadStep

(* os_cleanup returns after the I/O thread has run its last instruction,   *)
(* in every round, if its ports exist.                                     *)
THEOREM CleanupWaits == Spec => []ThreadStopped
<1>1. Init => ShutdownInv
  BY DEF Init, ShutdownInv, ThreadStopped
<1>2. ShutdownInv => ThreadStopped
  BY DEF ShutdownInv
<1> QED
  BY <1>1, <1>2, ShutdownInductive, PTL DEF Spec

-----------------------------------------------------------------------------
(* The reads of a port.                                                    *)

InUse == {"done", "connected", "sleep", "await"}

(* Only the packet that ends the thread has no channel.                    *)
Posted == {p \in Packets : p.kind = "shutdown" <=> p.of = None}

Handed(c) == c \in reading \/ Queued(c) \/ Serving(c)

ReadInv ==
  /\ packets \in Seq(Posted)
  /\ app \in InUse => /\ current \in Channels
                      /\ Attached(current) => current \in readFailed \/ Handed(current)

(* A packet that is queued stays so behind one that comes after it, and is *)
(* the first one or stays so when the first one is taken.                  *)
LEMMA QueuedAppend ==
  ASSUME packets \in Seq(Posted), NEW p \in Posted, packets' = Append(packets, p), NEW c
  PROVE  Queued(c)' <=> Queued(c) \/ (p.of = c /\ p.kind # "error")
<1>1. /\ Len(packets') = Len(packets) + 1 /\ Len(packets) \in Nat
      /\ DOMAIN packets = 1 .. Len(packets) /\ DOMAIN packets' = 1 .. Len(packets')
      /\ \A i \in 1 .. Len(packets) : packets'[i] = packets[i]
      /\ packets'[Len(packets) + 1] = p
  OBVIOUS
<1> QED BY <1>1 DEF Queued

LEMMA QueuedTail ==
  ASSUME packets \in Seq(Posted), packets # <<>>, packets' = Tail(packets), NEW c
  PROVE  LET p == Head(packets) IN
           /\ p \in Posted /\ packets' \in Seq(Posted)
           /\ Queued(c) <=> Queued(c)' \/ (p.of = c /\ p.kind # "error")
<1>1. /\ Len(packets') = Len(packets) - 1 /\ Len(packets) \in Nat \ {0}
      /\ DOMAIN packets = 1 .. Len(packets) /\ DOMAIN packets' = 1 .. Len(packets')
      /\ \A i \in 1 .. Len(packets') : packets'[i] = packets[i + 1]
      /\ Head(packets) = packets[1] /\ packets[1] \in Posted /\ packets' \in Seq(Posted)
  OBVIOUS
<1>2. \A i \in 1 .. Len(packets) : i = 1 \/ (i - 1 \in 1 .. Len(packets') /\ packets[i] = packets'[i - 1])
  BY <1>1
<1>3. \A i \in 1 .. Len(packets') : i + 1 \in 1 .. Len(packets) /\ 1 \in 1 .. Len(packets)
  BY <1>1
<1>4. 1 \in 1 .. Len(packets)
  BY <1>1
<1>5. ASSUME Queued(c) PROVE Queued(c)' \/ (Head(packets).of = c /\ Head(packets).kind # "error")
  <2>1. PICK i \in 1 .. Len(packets) : packets[i].of = c /\ packets[i].kind # "error"
    BY <1>1, <1>5 DEF Queued
  <2>2. CASE i = 1
    BY <1>1, <2>1, <2>2
  <2>3. CASE i # 1
    BY <1>1, <1>2, <2>1, <2>3 DEF Queued
  <2> QED BY <2>2, <2>3
<1>6. ASSUME Queued(c)' PROVE Queued(c)
  <2>1. PICK i \in 1 .. Len(packets') : packets'[i].of = c /\ packets'[i].kind # "error"
    BY <1>1, <1>6 DEF Queued
  <2> QED BY <1>1, <1>3, <2>1 DEF Queued
<1>7. Head(packets).of = c /\ Head(packets).kind # "error" => Queued(c)
  BY <1>1, <1>4 DEF Queued
<1> QED BY <1>1, <1>5, <1>6, <1>7

(* What the I/O thread does with the packets of a channel: a read that has *)
(* ended without error is handled, and then started again or failed.       *)
LEMMA ThreadHandsOn ==
  ASSUME packets \in Seq(Posted), ThreadStep \/ CallbackWaits, NEW c \in Channels, Handed(c)
  PROVE  c \in readFailed' \/ Handed(c)'
<1>1. CASE Take
  <2>1. /\ packets # <<>> /\ packets' = Tail(packets) /\ thread = "wait" /\ reading' = reading
        /\ thread' = After(Head(packets).kind) /\ serving' = Head(packets).of
    BY <1>1 DEF Take, lineVars
  <2>2. /\ Head(packets) \in Posted
        /\ Queued(c) <=> Queued(c)' \/ (Head(packets).of = c /\ Head(packets).kind # "error")
    BY <2>1, QueuedTail
  <2>3. c \in reading \/ Queued(c)
    BY <2>1 DEF Handed, Serving
  <2>4. Head(packets).of = c => Head(packets).kind \in {"bytes", "empty", "error"}
    BY <2>2, NoneAssumption DEF Posted, Packets
  <2>5. Head(packets).of = c /\ Head(packets).kind # "error" => Serving(c)'
    BY <2>1, <2>4 DEF Serving, After
  <2> QED BY <2>1, <2>2, <2>3, <2>5 DEF Handed
<1>2. CASE Restart
  <2>1. thread = "restart" /\ packets' = packets
    BY <1>2 DEF Restart, queues
  <2>2. Queued(c)' <=> Queued(c)
    BY <2>1 DEF Queued
  <2>3. /\ reading \subseteq reading'
        /\ serving = c => c \in reading' \/ c \in readFailed'
    BY <1>2 DEF Restart
  <2> QED BY <2>2, <2>3 DEF Handed, Serving
<1>3. CASE Data \/ ThreadEnds \/ CallbackWaits
  <2>1. /\ packets' = packets /\ reading' = reading /\ serving' = serving
        /\ thread \in {"data", "stop"} /\ (thread = "data" => thread' \in {"restart", "stuck"})
    BY <1>3 DEF Data, ThreadEnds, CallbackWaits, queues, lineVars
  <2>2. Queued(c)' <=> Queued(c)
    BY <2>1 DEF Queued
  <2> QED BY <2>1, <2>2 DEF Handed, Serving
<1> QED BY <1>1, <1>2, <1>3 DEF ThreadStep

LEMMA ReadInductive == MemoryInv /\ ReadInv /\ [Next]_vars => ReadInv'
<1> SUFFICES ASSUME MemoryInv, ReadInv, [Next]_vars PROVE ReadInv'
  OBVIOUS
<1> USE DEF Go
<1>1. packets \in Seq(Posted)
  BY DEF ReadInv
<1>2. \A k \in {"bytes", "empty", "error"}, c \in Channels : Packet(k, c) \in Posted
  BY NoneAssumption DEF Packet, Posted, Packets
<1>3. Packet("shutdown", None) \in Posted
  BY DEF Packet, Posted, Packets
<1>4. CASE ClosePort \/ PostShutdown \/ CreatePort
  <2>1. app' \notin InUse
    BY <1>4 DEF ClosePort, PostShutdown, CreatePort, InUse
  <2>2. app = "closeHandle" => current \in Channels
    BY DEF MemoryInv, Connecting
  <2>3. packets' \in Seq(Posted)
    <3>1. CASE ClosePort
      BY <1>1, <1>2, <2>2, <3>1 DEF ClosePort, CloseHandle
    <3>2. CASE PostShutdown
      BY <1>1, <1>3, <3>2 DEF PostShutdown
    <3>3. CASE CreatePort
      BY <1>1, <3>3 DEF CreatePort
    <3> QED BY <1>4, <3>1, <3>2, <3>3
  <2> QED BY <2>1, <2>3 DEF ReadInv
<1>5. CASE Initialize \/ RegisterHandler \/ BeginThread \/ InitFails \/ Connect \/ OpenCall
           \/ Disconnect \/ DestroyLocks \/ FreeChannel \/ FreeController \/ Cleanup \/ Join
  <2>1. app' \notin InUse /\ packets' = packets
    BY <1>5 DEF Initialize, RegisterHandler, BeginThread, InitFails, Connect, OpenCall, Disconnect,
       DestroyLocks, FreeChannel, FreeController, Cleanup, Join, InUse, queues
  <2> QED BY <1>1, <2>1 DEF ReadInv
<1>6. CASE StartRead
  <2>1. current \in Channels
    BY <1>6 DEF StartRead, MemoryInv, Connecting
  <2>2. UNCHANGED <<current, packets>> /\ (current \in reading' \/ current \in readFailed')
    BY <1>6 DEF StartRead, queues
  <2> QED BY <1>1, <2>1, <2>2 DEF ReadInv, Handed
<1>10. CASE OpenFails
  <2>1. app = "open" /\ UNCHANGED <<current, packets, serial>>
    BY <1>10 DEF OpenFails, queues, memory
  <2>2. current \in Channels /\ ~Attached(current)
    BY <2>1 DEF MemoryInv, Held, Connecting, Attached
  <2> QED BY <1>1, <2>1, <2>2 DEF ReadInv, Attached
<1>11. CASE Done
  <2>1. /\ UNCHANGED <<current, packets, reading, readFailed, thread, serving>> /\ current \in Channels
        /\ app = "done" /\ (app' \in InUse => Attached(current))
    BY <1>11 DEF Done, MemoryInv, Connecting, queues, ioVars, lineVars, InUse
  <2> QED BY <1>1, <2>1 DEF ReadInv, Handed, Queued, Serving, InUse
<1>7. CASE Wait \/ TakePost \/ SleepEnds \/ CtrlC \/ PostInterrupt \/ Finished \/ UNCHANGED vars
  <2>1. /\ UNCHANGED <<current, packets, reading, readFailed, thread, serving>>
        /\ app' \in InUse => app \in InUse
        /\ UNCHANGED serial
    BY <1>7 DEF memory, Wait, TakePost, SleepEnds, CtrlC, PostInterrupt, WakeSleeper, Finished, vars, appVars, queues,
       ioVars, lineVars, InUse
  <2> QED BY <2>1 DEF ReadInv, Handed, Queued, Serving, Attached
<1>8. CASE ThreadStep \/ CallbackWaits
  <2>1. UNCHANGED <<current, app, serial>> /\ readFailed \subseteq readFailed'
    BY <1>8 DEF ThreadStep, Take, Data, Restart, ThreadEnds, CallbackWaits, appVars, lineVars, memory
  <2>2. packets' \in Seq(Posted)
    <3>1. packets' = packets \/ (packets # <<>> /\ packets' = Tail(packets))
      BY <1>8 DEF ThreadStep, Take, Data, Restart, ThreadEnds, CallbackWaits, queues
    <3> QED BY <1>1, <3>1, QueuedTail
  <2> QED BY <1>1, <1>8, <2>1, <2>2, ThreadHandsOn DEF ReadInv, Attached
<1>9. ASSUME NEW c \in Channels, ReadEnds(c) PROVE ReadInv'
  <2>1. /\ UNCHANGED <<current, app, thread, serving, serial>> /\ reading' = reading \ {c}
        /\ readFailed \subseteq readFailed'
        /\ \/ \E k \in {"bytes", "empty"} : packets' = Append(packets, Packet(k, c))
           \/ packets' = Append(packets, Packet("error", c)) /\ c \in readFailed'
    BY <1>9 DEF ReadEnds, appVars, ioVars, memory
  <2>2. PICK k \in {"bytes", "empty", "error"} :
          packets' = Append(packets, Packet(k, c)) /\ (k = "error" => c \in readFailed')
    BY <2>1
  <2>3. packets' \in Seq(Posted)
    BY <1>1, <1>2, <2>2
  <2>4. Packet(k, c).kind = k /\ Packet(k, c).of = c
    BY DEF Packet
  <2>5. \A d : Queued(d)' <=> Queued(d) \/ (c = d /\ k # "error")
    BY <1>1, <1>2, <2>2, <2>4, QueuedAppend
  <2>6. \A d \in Channels : Handed(d) => d \in readFailed' \/ Handed(d)'
    BY <2>1, <2>2, <2>5 DEF Handed, Serving
  <2> QED BY <2>1, <2>3, <2>6 DEF ReadInv, Attached
<1> QED
  BY <1>4, <1>5, <1>6, <1>7, <1>8, <1>9, <1>10, <1>11 DEF Next, AppStep, Returning

(* The port of the connected controller is always being read, whatever the *)
(* I/O thread and the application do, until one of its reads fails.        *)
THEOREM PortIsRead == Spec => []ReadKept
<1>1. Init => MemoryInv
  BY DEF Init, MemoryInv, MemoryTyped, GivenBack, Connecting
<1>2. Init => ReadInv
  BY DEF Init, ReadInv, InUse
<1>3. MemoryInv /\ ReadInv => ReadKept
  BY DEF MemoryInv, Held, Connecting, ReadInv, ReadKept, InUse, Handed, Attached
<1> QED
  BY <1>1, <1>2, <1>3, MemoryInductive, ReadInductive, PTL DEF Spec

-----------------------------------------------------------------------------
(* What the I/O thread touches.                                            *)

Closing == {"destroyLocks", "closeHandle"}

(* A read is with the OS while its port is open; its end is in the hands   *)
(* of the I/O thread while the controller is in use, or it is a race.      *)
RaceInv ==
  /\ \A c \in Channels :
       /\ c \in reading => c = current /\ app \in InUse \cup Closing /\ serial[c] = "channel"
       /\ Queued(c) \/ Serving(c) => c \in raced \/ (c = current /\ app \in InUse /\ Attached(c))
       /\ c \in raced => controller[c] # "unused" /\ ~(c = current /\ app \in InUse \cup {"open", "read"})
  /\ thread \in {"data", "restart"} => serving \in Channels
  /\ FreedOnlyInRace

(* Steps that touch neither reads nor packets.                             *)
LEMMA RaceKept ==
  ASSUME RaceInv, UNCHANGED <<reading, packets, raced, thread, serving, serial>>,
         \A c \in Channels : controller[c] # "unused" => controller'[c] # "unused",
         fault' = "freed" => fault = "freed",
         \/ UNCHANGED <<app, current>>
         \/ app \in InUse /\ app' \in InUse /\ UNCHANGED current
         \/ /\ app \notin InUse \cup Closing /\ app' \notin InUse \cup {"open", "read"}
  PROVE  RaceInv'
BY DEF RaceInv, Attached, Queued, Serving, FreedOnlyInRace, InUse, Closing

LEMMA RaceInductive == MemoryInv /\ ReadInv /\ RaceInv /\ [Next]_vars => RaceInv'
<1> SUFFICES ASSUME MemoryInv, ReadInv, RaceInv, [Next]_vars PROVE RaceInv'
  OBVIOUS
<1> USE DEF Go
<1>1. packets \in Seq(Posted)
  BY DEF ReadInv
<1>2. \A k \in {"bytes", "empty", "error"}, c \in Channels : Packet(k, c) \in Posted
  BY NoneAssumption DEF Packet, Posted, Packets
<1>3. CASE Initialize \/ RegisterHandler \/ InitFails \/ Cleanup \/ Join \/ FreeChannel
  <2>1. /\ UNCHANGED <<reading, packets, raced, thread, serving, serial, controller, fault>>
        /\ app \notin InUse \cup Closing /\ app' \notin InUse \cup {"open", "read"}
    BY <1>3 DEF Initialize, RegisterHandler, InitFails, Cleanup, Join, FreeChannel, queues, memory, lineVars, ioVars,
       InUse, Closing
  <2> QED BY <2>1, RaceKept
<1>4. CASE OpenCall \/ OpenFails
  <2>1. /\ UNCHANGED <<reading, packets, raced, thread, serving, controller, current>> /\ fault' # "freed"
        /\ app = "open" /\ app' \in {"open", "read", "done", "destroyLocks"}
        /\ \A c \in Channels : c # current => serial'[c] = serial[c]
    BY <1>4 DEF OpenCall, OpenFails, Holds, MemoryInv, MemoryTyped, queues, memory, lineVars, ioVars, Running
  <2> QED BY <2>1 DEF RaceInv, Queued, Serving, FreedOnlyInRace, InUse, Closing
<1>5. CASE Connect
  <2>1. PICK c \in Channels : /\ controller[c] = "unused" /\ current' = c
                              /\ controller' = [controller EXCEPT ![c] = "live"]
    BY <1>5 DEF Connect
  <2>2. /\ UNCHANGED <<reading, packets, raced, thread, serving, serial, fault>>
        /\ app = "up" /\ app' = "open"
    BY <1>5 DEF Connect, queues, lineVars, ioVars
  <2> QED BY <2>1, <2>2 DEF RaceInv, Queued, Serving, FreedOnlyInRace, InUse, Closing, MemoryInv, MemoryTyped
<1>18. CASE Done
  <2>1. /\ UNCHANGED <<reading, packets, raced, thread, serving, controller, current, fault>>
        /\ current \in Channels /\ app = "done"
        /\ app' = IF Attached(current) THEN "connected" ELSE "destroyLocks"
        /\ \A c \in Channels : Attached(c)' <=> Attached(c)
    BY <1>18 DEF Done, Attached, Closed, queues, lineVars, ioVars, MemoryInv, MemoryTyped, Connecting
  <2>2. \A c : Queued(c)' \/ Serving(c)' => Queued(c) \/ Serving(c)
    BY <2>1 DEF Queued, Serving
  <2>3. CASE Attached(current)
    BY <2>1, <2>2, <2>3 DEF RaceInv, FreedOnlyInRace, InUse, Closing, Attached
  <2>4. CASE ~Attached(current)
    BY <2>1, <2>2, <2>4 DEF RaceInv, FreedOnlyInRace, InUse, Closing, Attached
  <2> QED BY <2>3, <2>4
<1>6. CASE DestroyLocks \/ FreeController
  <2>1. /\ UNCHANGED <<reading, packets, raced, thread, serving, fault>>
        /\ app' \notin InUse \cup {"open", "read"} /\ app \notin InUse
        /\ \/ app = "destroyLocks" /\ UNCHANGED <<current, serial>>
              /\ app' = IF serial[current] = "channel" THEN "closeHandle" ELSE "freeController"
           \/ app \notin Closing
        /\ current \in Channels
    BY <1>6 DEF DestroyLocks, HasChannel, Attached, FreeController, queues, lineVars, ioVars, InUse, Closing,
       MemoryInv, Connecting
  <2>2. \A c \in Channels : controller[c] # "unused" => controller'[c] # "unused"
    BY <1>6 DEF DestroyLocks, Unlocked, FreeController, Freed, MemoryInv, MemoryTyped
  <2> QED BY <2>1, <2>2 DEF RaceInv, Queued, Serving, FreedOnlyInRace, InUse, Closing
<1>7. CASE ClosePort
  <2>1. /\ current \in Channels /\ serial' = [serial EXCEPT ![current] = "closed"]
        /\ reading' = reading \ {current} /\ app = "closeHandle" /\ app' = "freeChannel"
        /\ UNCHANGED <<raced, thread, serving, controller, fault, current>>
    BY <1>7 DEF ClosePort, CloseHandle, Holds, Closed, MemoryInv, Connecting, Held, ioVars
  <2>2. \A c : Queued(c)' <=> Queued(c)
    <3>1. CASE packets' = packets
      BY <3>1 DEF Queued
    <3>2. CASE packets' = Append(packets, Packet("error", current))
      BY <1>1, <1>2, <2>1, <3>2, QueuedAppend DEF Packet
    <3> QED BY <1>7, <3>1, <3>2 DEF ClosePort, CloseHandle
  <2> QED BY <2>1, <2>2 DEF RaceInv, Serving, FreedOnlyInRace, InUse, Closing
<1>8. CASE PostShutdown
  <2>1. /\ UNCHANGED <<reading, raced, thread, serving, serial, controller, fault, current>>
        /\ app = "post" /\ app' = "join"
    BY <1>8 DEF PostShutdown, lineVars, ioVars, memory
  <2>2. \A c \in Channels : Queued(c)' <=> Queued(c)
    <3>1. CASE packets' = packets
      BY <3>1 DEF Queued
    <3>2. CASE packets' = Append(packets, Packet("shutdown", None))
      <4>1. Packet("shutdown", None) \in Posted
        BY DEF Packet, Posted, Packets
      <4> QED BY <1>1, <3>2, <4>1, NoneAssumption, QueuedAppend DEF Packet
    <3> QED BY <1>8, <3>1, <3>2 DEF PostShutdown
  <2> QED BY <2>1, <2>2 DEF RaceInv, Serving, FreedOnlyInRace, InUse, Closing
<1>9. CASE CreatePort \/ BeginThread
  <2>1. /\ UNCHANGED <<reading, raced, serial, controller, fault, current>>
        /\ app = "init" /\ app' \in {"init", "up"}
        /\ packets' \in {<<>>, packets}
        /\ UNCHANGED <<thread, serving>> \/ thread' = "wait"
    BY <1>9 DEF CreatePort, BeginThread, lineVars, ioVars, memory, queues
  <2>2. \A c : Queued(c)' => Queued(c)
    BY <2>1 DEF Queued
  <2>3. fault # "freed"
    BY <1>9 DEF CreatePort, BeginThread, Running
  <2> QED BY <2>1, <2>2, <2>3 DEF RaceInv, Serving, FreedOnlyInRace, InUse, Closing
<1>10. CASE StartRead
  <2>1. /\ UNCHANGED <<packets, raced, thread, serving, serial, controller, current, fault>>
        /\ app = "read" /\ app' = "done"
        /\ reading' \subseteq reading \cup {current}
    BY <1>10 DEF StartRead, queues, ioVars, memory
  <2>2. current \in Channels /\ serial[current] = "channel"
    BY <2>1 DEF MemoryInv, Held, Connecting
  <2> QED BY <2>1, <2>2 DEF RaceInv, Queued, Serving, FreedOnlyInRace, InUse, Closing
<1>11. CASE Disconnect
  <2>1. /\ UNCHANGED <<reading, packets, thread, serving, serial, controller, current, fault>>
        /\ app = "connected" /\ app' = "destroyLocks"
        /\ raced' = raced \cup {c \in {current} : Queued(c) \/ Serving(c)}
    BY <1>11 DEF Disconnect, queues, ioVars, memory
  <2>2. controller[current] = "live"
    BY <2>1 DEF MemoryInv, Held, Connecting
  <2> QED BY <2>1, <2>2 DEF RaceInv, Queued, Serving, FreedOnlyInRace, InUse, Closing
<1>12. CASE Wait \/ TakePost \/ SleepEnds
  <2>1. /\ UNCHANGED <<reading, packets, raced, thread, serving, serial, controller, fault, current>>
        /\ app \in InUse /\ app' \in InUse
    BY <1>12 DEF Wait, TakePost, SleepEnds, queues, ioVars, memory, lineVars, InUse
  <2> QED BY <2>1, RaceKept
<1>13. CASE CtrlC \/ PostInterrupt \/ Finished \/ UNCHANGED vars
  <2>1. UNCHANGED <<reading, packets, raced, thread, serving, serial, controller, fault, app, current>>
    BY <1>13 DEF CtrlC, PostInterrupt, WakeSleeper, Finished, vars, appVars, queues, ioVars, memory, lineVars
  <2> QED BY <2>1, RaceKept
<1>14. CASE Take
  <2>1. /\ packets # <<>> /\ packets' = Tail(packets) /\ thread = "wait"
        /\ thread' = After(Head(packets).kind) /\ serving' = Head(packets).of
        /\ UNCHANGED <<reading, raced, serial, controller, app, current>> /\ fault # "freed" /\ fault' = fault
    BY <1>14 DEF Take, appVars, memory, lineVars, Running
  <2>2. Head(packets) \in Posted
    BY <1>1, <2>1, QueuedTail
  <2>3. \A c : Queued(c)' => Queued(c)
    BY <1>1, <2>1, QueuedTail
  <2>4. \A c : Head(packets).of = c /\ Head(packets).kind # "error" => Queued(c)
    BY <1>1, <2>1, QueuedTail
  <2>5. thread' \in {"data", "restart", "stuck"} => /\ Head(packets).kind \in {"bytes", "empty"}
                                                  /\ serving' \in Channels
    BY <2>1, <2>2 DEF After, Posted, Packets
  <2>6. \A c \in Channels : Queued(c)' \/ Serving(c)' => Queued(c)
    BY <2>1, <2>3, <2>4, <2>5 DEF Serving
  <2>7. thread' \in {"data", "restart"} => serving' \in Channels
    BY <2>5
  <2> QED BY <2>1, <2>6, <2>7 DEF RaceInv, Attached, FreedOnlyInRace
<1>15. CASE Data \/ Restart
  <2>1. /\ UNCHANGED <<packets, raced, serving, serial, controller, app, current>>
        /\ thread \in {"data", "restart"} /\ thread' \in {"restart", "wait"}
        /\ reading' \subseteq reading \cup {serving}
        /\ reading' = reading \/ serial[serving] = "channel"
        /\ fault' = "freed" => ~(channel[serving] = "live" /\ controller[serving] = "live")
    BY <1>15 DEF Data, Restart, Touch, appVars, queues, memory, lineVars
  <2>2. serving \in Channels /\ Serving(serving)
    BY <2>1 DEF RaceInv, Serving
  <2>3. serving \in raced \/ (serving = current /\ app \in InUse)
    BY <2>2 DEF RaceInv
  <2>4. serial[serving] = "channel" => serving = current /\ app \in InUse \cup Closing
    BY <2>2, <2>3 DEF RaceInv, MemoryInv, GivenBack, Held, Connecting, InUse, Closing
  <2>5. fault' = "freed" => serving \in raced
    BY <2>1, <2>2, <2>3 DEF MemoryInv, Held, Connecting, InUse
  <2>6. \A c : (Queued(c) \/ Serving(c))' => Queued(c) \/ Serving(c)
    BY <2>1 DEF Queued, Serving
  <2> QED BY <2>1, <2>2, <2>4, <2>5, <2>6 DEF RaceInv, Attached, FreedOnlyInRace
<1>16. CASE CallbackWaits \/ ThreadEnds
  <2>1. /\ UNCHANGED <<reading, packets, raced, serving, serial, controller, app, current, fault>>
        /\ thread' = "ended" \/ (thread = "data" /\ thread' = "stuck")
    BY <1>16 DEF CallbackWaits, ThreadEnds, appVars, queues, memory, lineVars
  <2>2. \A c : (Queued(c) \/ Serving(c))' => Queued(c) \/ Serving(c)
    BY <2>1 DEF Queued, Serving
  <2> QED BY <2>1, <2>2 DEF RaceInv, Attached, FreedOnlyInRace
<1>17. ASSUME NEW c \in Channels, ReadEnds(c) PROVE RaceInv'
  <2>1. /\ UNCHANGED <<thread, serving, serial, controller, app, current, fault>>
        /\ c \in reading /\ reading' = reading \ {c}
    BY <1>17 DEF ReadEnds, appVars, ioVars, memory
  <2>2. PICK k \in {"bytes", "empty", "error"} :
          /\ packets' = Append(packets, Packet(k, c))
          /\ raced' = IF k # "error" /\ c = current /\ app \in Closing THEN raced \cup {c} ELSE raced
    BY <1>17 DEF ReadEnds, Closing
  <2>3. \A d : Queued(d)' <=> Queued(d) \/ (c = d /\ k # "error")
    BY <1>1, <1>2, <2>2, QueuedAppend DEF Packet
  <2>4. c = current /\ app \in InUse \cup Closing /\ controller[c] # "unused"
    BY <2>1 DEF RaceInv, MemoryInv, Held, Connecting, InUse, Closing
  <2>5. \A d \in Channels : Serving(d)' <=> Serving(d)
    BY <2>1 DEF Serving
  <2> QED BY <2>1, <2>2, <2>3, <2>4, <2>5 DEF RaceInv, Attached, FreedOnlyInRace, InUse, Closing
<1> QED
  BY <1>3, <1>4, <1>5, <1>6, <1>7, <1>8, <1>9, <1>10, <1>11, <1>12, <1>13, <1>14, <1>15, <1>16, <1>17,
     <1>18 DEF Next, AppStep, Returning, ThreadStep

(* Whenever the application disconnects: the I/O thread uses freed memory  *)
(* only for a read that ended just before or during lb_disconnect.         *)
THEOREM FreedMemoryNeedsRace == Spec => []FreedOnlyInRace
<1>1. Init => MemoryInv
  BY DEF Init, MemoryInv, MemoryTyped, GivenBack, Connecting
<1>2. Init => ReadInv
  BY DEF Init, ReadInv, InUse
<1>3. Init => RaceInv
  BY DEF Init, RaceInv, Queued, Serving, FreedOnlyInRace
<1>4. RaceInv => FreedOnlyInRace
  BY DEF RaceInv
<1> QED
  BY <1>1, <1>2, <1>3, <1>4, MemoryInductive, ReadInductive, RaceInductive, PTL DEF Spec

-----------------------------------------------------------------------------
(* Ctrl-C.                                                                 *)

(* os_initialize has created the sleep port, and forgets a Ctrl-C that     *)
(* came before.                                                            *)
Prepared == app \notin {"out", "init", "failed"} \/ (app = "init" /\ step = 5)

InterruptInv ==
  /\ posts \in Nat
  /\ Prepared /\ interrupted /\ console = "idle" /\ ~taken /\ port["sleep"] = "open" => posts > 0

LEMMA InterruptInductive == PortInv /\ InterruptInv /\ [Next]_vars => InterruptInv'
<1> SUFFICES ASSUME PortInv, InterruptInv, [Next]_vars PROVE InterruptInv'
  OBVIOUS
<1> USE DEF Go
<1>1. CASE Initialize
  BY <1>1 DEF Initialize, PortInv, InterruptInv, Prepared, osVars, queues
<1>2. CASE CreatePort
  <2>1. /\ app = "init" /\ app' = "init" /\ step \in 1 .. 5 /\ InitCalls[step] \in Ports
        /\ step' = step + 1 /\ UNCHANGED <<interrupted, console, taken>>
    BY <1>2 DEF CreatePort, PortInv, InterruptInv, keyVars
  <2>2. step <= 3 /\ (InitCalls[step] = "sleep" <=> step = 2)
    BY <2>1, InitCallAt DEF InitCalls, Ports
  <2>3. /\ port'["sleep"] \in IF step = 2 THEN {"open", "null"} ELSE {port["sleep"]}
        /\ posts' \in {0, posts}
    BY <1>2, <2>1, <2>2 DEF CreatePort, PortInv, InterruptInv, Ports
  <2> QED
    BY <2>1, <2>2, <2>3 DEF PortInv, InterruptInv, Prepared
<1>3. CASE RegisterHandler
  <2>1. app = "init" /\ app' = "init" /\ step = 4 /\ step' = 5
    BY <1>3, InitCallAt DEF RegisterHandler, PortInv
  <2> QED
    BY <1>3, <2>1 DEF RegisterHandler, PortInv, InterruptInv, Prepared, queues
<1>4. CASE BeginThread
  <2>1. app = "init" /\ app' = "up" /\ step = 5
    BY <1>4, InitCallAt DEF BeginThread, PortInv, InitCalls, Ports
  <2> QED
    BY <1>4, <2>1 DEF BeginThread, PortInv, InterruptInv, Prepared, queues, osVars, keyVars
<1>5. CASE InitFails \/ Join
  BY <1>5 DEF InitFails, Join, Closed, PortInv, InterruptInv, Prepared, osVars, queues, Ports
<1>6. CASE \/ Connect \/ OpenCall \/ OpenFails \/ StartRead \/ Wait \/ SleepEnds
           \/ Disconnect \/ Cleanup \/ Done \/ DestroyLocks \/ ClosePort \/ FreeChannel
           \/ FreeController
  <2>1. UNCHANGED <<posts, port, interrupted, console, taken>> /\ Prepared /\ app' \notin {"out", "init", "failed"}
    BY <1>6 DEF Connect, OpenCall, OpenFails, StartRead, Wait, SleepEnds, Prepared,
       Disconnect, Cleanup, Done, DestroyLocks, ClosePort, FreeChannel, FreeController, queues, osVars, keyVars
  <2> QED
    BY <2>1 DEF PortInv, InterruptInv, Prepared
<1>7. CASE TakePost
  BY <1>7 DEF TakePost, PortInv, InterruptInv, Prepared, osVars
<1>8. CASE PostShutdown
  BY <1>8 DEF PostShutdown, PortInv, InterruptInv, Prepared, osVars, keyVars
<1>9. CASE CtrlC
  BY <1>9 DEF CtrlC, PortInv, InterruptInv, Prepared, osVars, queues, appVars
<1>10. CASE PostInterrupt
  BY <1>10 DEF PostInterrupt, WakeSleeper, PortInv, InterruptInv, Prepared, osVars, appVars
<1>11. CASE ThreadStep \/ CallbackWaits \/ (\E c \in Channels : ReadEnds(c)) \/ Finished \/ UNCHANGED vars
  <2>1. UNCHANGED <<posts, port, interrupted, console, taken, app, step>>
    BY <1>11 DEF ThreadStep, Take, Data, Restart, ThreadEnds, CallbackWaits, ReadEnds, Finished, vars, appVars,
       osVars, queues, keyVars
  <2> QED
    BY <2>1 DEF PortInv, InterruptInv, Prepared
<1> QED
  BY <1>1, <1>2, <1>3, <1>4, <1>5, <1>6, <1>7, <1>8, <1>9, <1>10, <1>11 DEF Next, AppStep, Returning

(* os_waitForKeyboardInterrupt finds the post of a Ctrl-C that came before *)
(* it, in every round, unless a call took it away or a port is missing.    *)
THEOREM InterruptIsKept == Spec => []InterruptKept
<1>1. Init => PortInv /\ InterruptInv
  BY DEF Init, PortInv, InterruptInv, Prepared, Ports
<1>2. PortInv /\ InterruptInv => InterruptKept
  BY DEF PortInv, InterruptInv, InterruptKept, Prepared, PortsCreated, Ports
<1> QED
  BY <1>1, <1>2, PortsInductive, InterruptInductive, PTL DEF Spec

-----------------------------------------------------------------------------
(* Types: what the invariants above leave open.  The I/O thread serves a   *)
(* channel wherever it handles a packet that names one.                    *)

AppTyped ==
  /\ app \in {"out", "init", "failed", "up", "open", "read", "done", "sleep", "await", "connected",
              "destroyLocks", "closeHandle", "freeChannel", "freeController", "post", "join"}
  /\ step \in 0 .. 9 /\ rounds \in 0 .. MaxRounds /\ current \in Channels \cup {None}
ThreadTyped ==
  /\ thread \in {"none", "wait", "data", "restart", "stuck", "stop", "ended"}
  /\ serving \in Channels \cup {None}
  /\ thread \in {"data", "restart"} => serving \in Channels
LinesTyped ==
  reading \subseteq Channels /\ readFailed \subseteq Channels /\ raced \subseteq Channels
KeysTyped ==
  handler \in BOOLEAN /\ interrupted \in BOOLEAN /\ taken \in BOOLEAN /\ console \in {"idle", "post"}
CountersTyped ==
  /\ reads \in 0 .. MaxReads /\ failures \in 0 .. MaxFailures /\ interrupts \in 0 .. MaxInterrupts
  /\ fault \in {"none", "assert", "freed"}

TypeInv == AppTyped /\ ThreadTyped /\ LinesTyped /\ KeysTyped /\ CountersTyped

LEMMA AppKeepsTypes ==
  ASSUME MemoryInv, ShutdownInv, TypeInv, AppStep
  PROVE  AppTyped'
<1> USE DEF Go, TypeInv, AppTyped
<1>1. CASE Initialize \/ Connect
  BY <1>1, BoundAssumption DEF Initialize, Connect
<1>2. CASE CreatePort \/ RegisterHandler \/ BeginThread
  <2>1. app = "init" /\ step \in 1 .. 5 /\ UNCHANGED <<rounds, current>> /\ app' \in {"init", "up"}
    BY <1>2 DEF CreatePort, RegisterHandler, BeginThread, ShutdownInv
  <2>2. step' \in 0 .. 6
    BY <1>2, <2>1 DEF CreatePort, RegisterHandler, BeginThread
  <2> QED BY <2>1, <2>2
<1>3. CASE OpenCall
  <2>1. step' \in 0 .. 9
    BY <1>3, LastCall DEF OpenCall, NextCall
  <2> QED BY <1>3, <2>1 DEF OpenCall
<1>4. CASE InitFails \/ OpenFails \/ StartRead \/ Wait \/ TakePost \/ SleepEnds \/ Disconnect \/ Cleanup
  BY <1>4 DEF InitFails, OpenFails, StartRead, Wait, TakePost, SleepEnds, Disconnect, Cleanup
<1>5. CASE Returning
  BY <1>5 DEF Returning, Done, DestroyLocks, ClosePort, FreeChannel, FreeController, PostShutdown, Join
<1> QED BY <1>1, <1>2, <1>3, <1>4, <1>5 DEF AppStep

LEMMA AppKeepsOtherTypes ==
  ASSUME MemoryInv, TypeInv, AppStep
  PROVE  ThreadTyped' /\ LinesTyped' /\ KeysTyped' /\ CountersTyped'
<1> USE DEF Go, TypeInv
<1>1. ThreadTyped'
  <2>1. UNCHANGED ioVars \/ (thread' = "wait" /\ serving' = None)
    BY DEF AppStep, Initialize, CreatePort, RegisterHandler, BeginThread, InitFails, Connect, OpenCall, OpenFails,
       StartRead, Wait, TakePost, SleepEnds, Disconnect, Cleanup, Returning, Done, DestroyLocks, ClosePort,
       FreeChannel, FreeController, PostShutdown, Join
  <2> QED BY <2>1 DEF ThreadTyped, ioVars
<1>2. LinesTyped'
  <2>1. current \in Channels \/ app \notin {"connected", "read", "closeHandle"}
    BY DEF MemoryInv, Connecting
  <2>2. \/ UNCHANGED <<reading, readFailed, raced>>
        \/ reading' \in {reading, reading \cup {current}, reading \ {current}}
           /\ readFailed' \in {readFailed, readFailed \cup {current}}
           /\ raced' \subseteq raced \cup {current} /\ app \in {"connected", "read", "closeHandle"}
    BY DEF lineVars, AppStep, Initialize, CreatePort, RegisterHandler, BeginThread, InitFails, Connect,
       OpenCall, OpenFails, StartRead, Wait, TakePost, SleepEnds, Disconnect, Cleanup, Returning, Done,
       DestroyLocks, ClosePort, CloseHandle, FreeChannel, FreeController, PostShutdown, Join
  <2> QED BY <2>1, <2>2 DEF LinesTyped
<1>3. KeysTyped'
  BY DEF KeysTyped, keyVars, osVars, AppStep, Initialize, CreatePort, RegisterHandler, BeginThread, InitFails, Connect,
     OpenCall, OpenFails, StartRead, Wait, TakePost, SleepEnds, Disconnect, Cleanup, Returning, Done, DestroyLocks,
     ClosePort, FreeChannel, FreeController, PostShutdown, Join
<1>4. CountersTyped'
  <2>1. /\ UNCHANGED <<reads, interrupts>>
        /\ failures' = failures \/ (failures < MaxFailures /\ failures' = failures + 1)
        /\ fault' \in {fault, "none", "assert"}
    BY DEF MayFail, bounded, AppStep, Initialize, CreatePort, RegisterHandler, BeginThread, InitFails, Connect,
       OpenCall, OpenFails, StartRead, Wait, TakePost, SleepEnds, Disconnect, Cleanup, Returning, Done, DestroyLocks,
       ClosePort, FreeChannel, FreeController, PostShutdown, Join
  <2> QED BY <2>1, BoundAssumption DEF CountersTyped
<1> QED BY <1>1, <1>2, <1>3, <1>4

LEMMA OthersKeepTypes ==
  ASSUME ReadInv, TypeInv,
         ThreadStep \/ CallbackWaits \/ (\E c \in Channels : ReadEnds(c)) \/ CtrlC \/ PostInterrupt \/ UNCHANGED vars
  PROVE  TypeInv'
<1> USE DEF TypeInv
<1>1. AppTyped'
  BY DEF AppTyped, ThreadStep, Take, Data, Restart, ThreadEnds, CallbackWaits, ReadEnds, CtrlC, PostInterrupt,
     vars, appVars
<1>2. ThreadTyped'
  <2>1. CASE Take
    <3>1. packets \in Seq(Posted) /\ packets # <<>>
      BY <2>1 DEF ReadInv, Take
    <3>2. PICK p \in Posted : p = Head(packets)
      BY <3>1
    <3>3. thread' = After(p.kind) /\ serving' = p.of
      BY <2>1, <3>2 DEF Take
    <3>4. /\ p.kind \in {"shutdown", "bytes", "empty", "error"} /\ p.of \in Channels \cup {None}
          /\ p.kind # "shutdown" => p.of # None
      BY DEF Posted, Packets
    <3> QED BY <3>3, <3>4 DEF After, ThreadTyped
  <2>2. CASE Data \/ Restart \/ ThreadEnds \/ CallbackWaits
    BY <2>2 DEF Data, Restart, ThreadEnds, CallbackWaits, ThreadTyped
  <2>3. CASE (\E c \in Channels : ReadEnds(c)) \/ CtrlC \/ PostInterrupt \/ UNCHANGED vars
    BY <2>3 DEF ReadEnds, CtrlC, PostInterrupt, vars, ioVars, ThreadTyped
  <2> QED BY <2>1, <2>2, <2>3 DEF ThreadStep
<1>3. LinesTyped'
  BY DEF ThreadTyped, LinesTyped, lineVars, ThreadStep, Take, Data, Restart, ThreadEnds, CallbackWaits, ReadEnds,
     CtrlC, PostInterrupt, vars
<1>4. KeysTyped'
  BY DEF KeysTyped, keyVars, osVars, ThreadStep, Take, Data, Restart, ThreadEnds, CallbackWaits, ReadEnds, CtrlC,
     PostInterrupt, vars
<1>5. CountersTyped'
  <2>1. /\ reads' = reads \/ (reads < MaxReads /\ reads' = reads + 1)
        /\ failures' = failures \/ (failures < MaxFailures /\ failures' = failures + 1)
        /\ interrupts' = interrupts \/ (interrupts < MaxInterrupts /\ interrupts' = interrupts + 1)
        /\ fault' \in {fault, "none", "freed"}
    BY DEF MayFail, Touch, bounded, ThreadStep, Take, Data, Restart, ThreadEnds, CallbackWaits, ReadEnds, CtrlC,
       PostInterrupt, vars
  <2> QED BY <2>1, BoundAssumption DEF CountersTyped
<1> QED BY <1>1, <1>2, <1>3, <1>4, <1>5

(* The variables keep their types, for every number of channels, rounds,   *)
(* reads and failures: no call is made beyond the last one of an open, and *)
(* whatever the I/O thread reads again is a channel.                       *)
THEOREM TypeCorrect == Spec => []TypeOK
<1>1. Init => MemoryInv /\ PortInv /\ ReadInv /\ ShutdownInv /\ InterruptInv
  BY DEF Init, MemoryInv, MemoryTyped, GivenBack, Connecting, ReadInv, InUse, ShutdownInv, ThreadStopped,
     InterruptInv, PortInv, Prepared, Ports
<1>2. Init => TypeInv
  <2>1. 0 \in 0 .. MaxRounds /\ 0 \in 0 .. MaxReads /\ 0 \in 0 .. MaxFailures /\ 0 \in 0 .. MaxInterrupts
    BY BoundAssumption
  <2>2. Init => AppTyped /\ ThreadTyped
    BY <2>1 DEF Init, AppTyped, ThreadTyped
  <2>3. Init => LinesTyped /\ KeysTyped
    BY DEF Init, LinesTyped, KeysTyped
  <2>4. Init => CountersTyped
    BY <2>1 DEF Init, CountersTyped
  <2> QED BY <2>2, <2>3, <2>4 DEF TypeInv
<1>3. MemoryInv /\ ReadInv /\ ShutdownInv /\ TypeInv /\ [Next]_vars => TypeInv'
  BY AppKeepsTypes, AppKeepsOtherTypes, OthersKeepTypes DEF TypeInv, Next, Finished
<1>4. MemoryInv /\ PortInv /\ ReadInv /\ ShutdownInv /\ InterruptInv /\ TypeInv => TypeOK
  <2> SUFFICES ASSUME MemoryInv, PortInv, ReadInv, ShutdownInv, InterruptInv, TypeInv PROVE TypeOK
    OBVIOUS
  <2>1. packets \in Seq(Packets)
    <3>1. packets \in Seq(Posted) /\ Posted \subseteq Packets
      BY DEF ReadInv, Posted
    <3> QED BY <3>1
  <2> QED
    BY <2>1, LastCall DEF MemoryInv, MemoryTyped, PortInv, ShutdownInv, InterruptInv, TypeInv, AppTyped, ThreadTyped,
       LinesTyped, KeysTyped, CountersTyped, TypeOK
<1> QED
  BY <1>1, <1>2, <1>3, <1>4, MemoryInductive, PortsInductive, ReadInductive, ShutdownInductive, InterruptInductive,
     PTL DEF Spec
=============================================================================
