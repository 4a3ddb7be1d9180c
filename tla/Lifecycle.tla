----------------------------- MODULE Lifecycle -----------------------------
(***************************************************************************)
(* From lb_initialize to lb_cleanup: the application's thread, which sets  *)
(* the library up, connects controllers, sleeps and takes everything down  *)
(* again (controller.c), the I/O thread that serves the open ports, and    *)
(* the console handler (lib/osal/src/io_win32.c).                          *)
(*                                                                         *)
(* A channel stands for one call of lb_connect: its struct io_channel, the *)
(* LB_Controller that owns it and the handle of its serial port.  What the *)
(* handlers do with the bytes is in Framing; writes are in Transmit.  What *)
(* is given back without being held is "twice" from then on.               *)
(***************************************************************************)
EXTENDS Naturals, Sequences

CONSTANTS
  Channels,       \* the channels, one for every lb_connect
  None,           \* no channel
  MaxRounds,      \* bound: calls of lb_initialize
  MaxReads,       \* bound: reads that end, with or without bytes
  MaxFailures,    \* bound: calls of the OS that fail, and reads that do
  MaxInterrupts   \* bound: Ctrl-C

ASSUME NoneAssumption  == None \notin Channels
ASSUME BoundAssumption == /\ MaxRounds \in Nat /\ MaxReads \in Nat
                          /\ MaxFailures \in Nat /\ MaxInterrupts \in Nat

(* The calls of os_initialize and of io_openSerialPort, in order.          *)
InitCalls == <<"completion", "sleep", "shutdown", "SetConsoleCtrlHandler", "_beginthread">>
OpenCalls == <<"malloc", "CreateFile", "GetCommState", "SetCommState", "GetCommTimeouts",
               "SetCommTimeouts", "PurgeComm", "ClearCommError", "CreateIoCompletionPort">>
Ports == {"completion", "sleep", "shutdown"}

VARIABLES
  app,          \* where the application's thread is
  step,         \* the call it makes there
  rounds,       \* how often it has initialized the library
  current,      \* the channel of the connected controller
  port,         \* port[p]: a completion port, "null" if it was not created
  handler,      \* is consoleHandler registered?
  packets,      \* packets queued at completionPort
  posts,        \* posts queued at sleepPort
  stopped,      \* posts queued at shutdownCompletePort
  thread,       \* where the I/O thread is
  serving,      \* the channel of the packet it handles
  channel,      \* channel[c]: the memory of struct io_channel
  controller,   \* controller[c]: the memory of LB_Controller and what it owns
  serial,       \* serial[c]: the handle of the port, and who holds it
  reading,      \* channels with a read in the hands of the OS
  readFailed,   \* channels one of whose reads has failed
  raced,        \* channels with a read that ended while lb_disconnect ran
  interrupted,  \* Ctrl-C was pressed
  console,      \* where consoleHandler is
  taken,        \* a call has returned on a post of sleepPort
  reads, failures, interrupts,   \* how often the bounded events have happened
  fault         \* an assertion, or freed memory that was used

appVars  == <<app, step, rounds, current>>
osVars   == <<port, handler>>
queues   == <<packets, posts, stopped>>
ioVars   == <<thread, serving>>
memory   == <<channel, controller, serial>>
lineVars == <<reading, readFailed, raced>>
keyVars  == <<interrupted, console, taken>>
bounded  == <<reads, failures, interrupts>>
vars == <<appVars, osVars, queues, ioVars, memory, lineVars, keyVars, bounded, fault>>

Packets == [kind : {"shutdown", "bytes", "empty", "error"}, of : Channels \cup {None}]
Packet(k, c) == [kind |-> k, of |-> c]

TypeOK ==
  /\ app \in {"out", "init", "failed", "up", "open", "read", "done", "sleep", "await", "connected",
              "destroyLocks", "closeHandle", "freeChannel", "freeController", "post", "join"}
  /\ step \in 0 .. Len(OpenCalls)
  /\ rounds \in 0 .. MaxRounds
  /\ current \in Channels \cup {None}
  /\ port \in [Ports -> {"none", "open", "null", "closed", "twice"}]
  /\ handler \in BOOLEAN
  /\ packets \in Seq(Packets)
  /\ posts \in Nat /\ stopped \in Nat
  /\ thread \in {"none", "wait", "data", "restart", "stuck", "stop", "ended"}
  /\ serving \in Channels \cup {None}
  /\ channel \in [Channels -> {"unused", "live", "freed", "twice"}]
  /\ controller \in [Channels -> {"unused", "live", "unlocked", "freed", "twice"}]
  /\ serial \in [Channels -> {"none", "local", "channel", "closed", "twice"}]
  /\ reading \subseteq Channels /\ readFailed \subseteq Channels /\ raced \subseteq Channels
  /\ interrupted \in BOOLEAN /\ taken \in BOOLEAN
  /\ console \in {"idle", "post"}
  /\ reads \in 0 .. MaxReads /\ failures \in 0 .. MaxFailures
  /\ interrupts \in 0 .. MaxInterrupts
  /\ fault \in {"none", "assert", "freed"}

Init ==
  /\ app = "out" /\ step = 0 /\ rounds = 0 /\ current = None
  /\ port = [p \in Ports |-> "none"] /\ handler = FALSE
  /\ packets = <<>> /\ posts = 0 /\ stopped = 0
  /\ thread = "none" /\ serving = None
  /\ channel = [c \in Channels |-> "unused"]
  /\ controller = [c \in Channels |-> "unused"]
  /\ serial = [c \in Channels |-> "none"]
  /\ reading = {} /\ readFailed = {} /\ raced = {}
  /\ interrupted = FALSE /\ console = "idle" /\ taken = FALSE
  /\ reads = 0 /\ failures = 0 /\ interrupts = 0
  /\ fault = "none"

Running == fault = "none"
Go(from, to) == Running /\ app = from /\ app' = to
MayFail == failures < MaxFailures /\ failures' = failures + 1

(* free, CloseHandle and the destruction of the locks.                     *)
Freed(m)    == IF m \in {"live", "unlocked"} THEN "freed" ELSE "twice"
Closed(h)   == IF h \in {"local", "channel", "open"} THEN "closed" ELSE "twice"
Unlocked(m) == IF m = "live" THEN "unlocked" ELSE "twice"

-----------------------------------------------------------------------------
(* lb_initialize                                                           *)

(* The model has one I/O thread: no second one while the first still runs. *)
Initialize ==
  /\ rounds < MaxRounds /\ thread \in {"none", "ended"}
  /\ Go("out", "init")
  /\ rounds' = rounds + 1 /\ step' = 1
  /\ UNCHANGED <<current, osVars, queues, ioVars, memory, lineVars, keyVars, bounded, fault>>

(* CreateIoCompletionPort reports a failure with NULL; it is compared with *)
(* INVALID_HANDLE_VALUE and goes unnoticed.                                *)
CreatePort ==
  /\ Go("init", "init")
  /\ InitCalls[step] \in Ports
  /\ \/ port' = [port EXCEPT ![InitCalls[step]] = "open"] /\ UNCHANGED failures
     \/ port' = [port EXCEPT ![InitCalls[step]] = "null"] /\ MayFail
  /\ packets' = IF InitCalls[step] = "completion" THEN <<>> ELSE packets
  /\ posts' = IF InitCalls[step] = "sleep" THEN 0 ELSE posts
  /\ stopped' = IF InitCalls[step] = "shutdown" THEN 0 ELSE stopped
  /\ step' = step + 1
  /\ UNCHANGED <<rounds, current, handler, ioVars, memory, lineVars, keyVars, reads, interrupts, fault>>

RegisterHandler ==
  /\ Go("init", "init")
  /\ InitCalls[step] = "SetConsoleCtrlHandler"
  /\ handler' = TRUE
  /\ interrupted' = FALSE /\ taken' = FALSE
  /\ step' = step + 1
  /\ UNCHANGED <<rounds, current, port, queues, ioVars, memory, lineVars, console, bounded, fault>>

(* The thread starts; lb_initialize goes on to hci_initialize and returns. *)
BeginThread ==
  /\ Go("init", "up")
  /\ InitCalls[step] = "_beginthread"
  /\ thread' = "wait" /\ serving' = None
  /\ step' = 0
  /\ UNCHANGED <<rounds, current, osVars, queues, memory, lineVars, keyVars, bounded, fault>>

(* The applications end when lb_initialize returns less than 0.            *)
InitFails ==
  /\ Go("init", "failed")
  /\ InitCalls[step] \notin Ports
  /\ MayFail
  /\ interrupted' = FALSE
  /\ UNCHANGED <<step, rounds, current, osVars, queues, ioVars, memory, lineVars, console, taken,
                 reads, interrupts, fault>>

-----------------------------------------------------------------------------
(* lb_connect                                                              *)

Connect ==
  /\ \E c \in Channels :
       /\ controller[c] = "unused"
       /\ current' = c
       /\ controller' = [controller EXCEPT ![c] = "live"]
  /\ Go("up", "open")
  /\ step' = 1
  /\ UNCHANGED <<rounds, osVars, queues, ioVars, channel, serial, lineVars, keyVars, bounded, fault>>

PastLast == step + 1   \* mutant
NextCall == IF step = Len(OpenCalls) THEN 0 ELSE step + 1

Holds(c, who) == serial' = [serial EXCEPT ![c] = who]

(* One call of io_openSerialPort succeeds.  Associating the handle with a  *)
(* port that was never created makes a new port, which is asserted not to  *)
(* happen; from then on the channel holds the handle.                      *)
OpenCall ==
  /\ app = "open" /\ Running
  /\ LET c == current  call == OpenCalls[step] IN
       /\ channel' = IF call = "malloc" THEN [channel EXCEPT ![c] = "live"] ELSE channel
       /\ IF call = "CreateFile" THEN Holds(c, "local")
          ELSE IF call = "CreateIoCompletionPort" THEN Holds(c, "channel")
          ELSE UNCHANGED serial
       /\ fault' = IF call = "CreateIoCompletionPort" /\ port["completion"] # "open"
                   THEN "assert" ELSE "none"
       /\ app' = IF call = "CreateIoCompletionPort" THEN "read" ELSE "open"
  /\ step' = NextCall
  /\ UNCHANGED <<rounds, current, osVars, queues, ioVars, controller, lineVars, keyVars, bounded>>

(* One of the calls fails: goto done; malloc is the first and has nothing  *)
(* to undo.                                                                *)
OpenFails ==
  /\ Go("open", IF OpenCalls[step] = "malloc" THEN "destroyLocks" ELSE "done")
  /\ MayFail
  /\ step' = 0
  /\ UNCHANGED <<rounds, current, osVars, queues, ioVars, memory, lineVars, keyVars, reads, interrupts, fault>>

(* ReadFile starts the first read; the open goes on even if it fails.      *)
StartRead ==
  /\ Go("read", "done")
  /\ \/ reading' = reading \cup {current} /\ UNCHANGED <<readFailed, failures>>
     \/ readFailed' = readFailed \cup {current} /\ MayFail /\ UNCHANGED reading
  /\ UNCHANGED <<step, rounds, current, osVars, queues, ioVars, memory, raced, keyVars, reads,
                 interrupts, fault>>

Attached(c) == serial[c] = "channel"

(* The end of every open, failed or not: the handle is closed unless the   *)
(* channel holds it, and a channel without a handle is freed.  lb_connect  *)
(* returns the controller or disconnects it.                               *)
Done ==
  /\ Go("done", IF Attached(current) THEN "connected" ELSE "destroyLocks")
  /\ serial' = [serial EXCEPT ![current] = IF @ = "local" THEN Closed(@) ELSE @]
  /\ channel' = [channel EXCEPT ![current] = IF Attached(current) THEN @ ELSE Freed(@)]
  /\ UNCHANGED <<step, rounds, current, osVars, queues, ioVars, controller, lineVars, keyVars, bounded, fault>>

-----------------------------------------------------------------------------
(* The application waits: os_sleep_ms and os_waitForKeyboardInterrupt take *)
(* from the same port.                                                     *)

Wait ==
  /\ Go("connected", "sleep") \/ Go("connected", "await")
  /\ UNCHANGED <<step, rounds, current, osVars, queues, ioVars, memory, lineVars, keyVars, bounded, fault>>

TakePost ==
  /\ Go("sleep", "connected") \/ Go("await", "connected")
  /\ posts > 0
  /\ posts' = posts - 1 /\ taken' = TRUE
  /\ UNCHANGED <<step, rounds, current, osVars, packets, stopped, ioVars, memory, lineVars, interrupted,
                 console, bounded, fault>>

SleepEnds ==
  /\ Go("sleep", "connected")
  /\ UNCHANGED <<step, rounds, current, osVars, queues, ioVars, memory, lineVars, keyVars, bounded, fault>>

-----------------------------------------------------------------------------
(* lb_disconnect                                                           *)

Queued(c) == \E i \in DOMAIN packets : packets[i].of = c /\ packets[i].kind # "error"
Serving(c) == thread \in {"data", "restart", "stuck"} /\ serving = c

(* A read that has ended and is not handled yet makes this a race.         *)
Disconnect ==
  /\ Go("connected", "destroyLocks")
  /\ raced' = raced \cup {c \in {current} : Queued(c) \/ Serving(c)}
  /\ UNCHANGED <<step, rounds, current, osVars, queues, ioVars, memory, reading, readFailed, keyVars,
                 bounded, fault>>

AlwaysTrue(c) == TRUE   \* mutant
(* controller->channel is set only by an open that has succeeded.          *)
HasChannel(c) == Attached(c)

DestroyLocks ==
  /\ Go("destroyLocks", IF HasChannel(current) THEN "closeHandle" ELSE "freeController")
  /\ controller' = [controller EXCEPT ![current] = Unlocked(@)]
  /\ UNCHANGED <<step, rounds, current, osVars, queues, ioVars, channel, serial, lineVars, keyVars,
                 bounded, fault>>

KeepHandle(c)  == UNCHANGED <<serial, reading, packets>>   \* mutant
(* Closing the handle ends its reads; they reach the I/O thread as errors. *)
CloseHandle(c) ==
  /\ Holds(c, Closed(serial[c]))
  /\ reading' = reading \ {c}
  /\ packets' = IF c \in reading THEN Append(packets, Packet("error", c)) ELSE packets

ClosePort ==
  /\ Go("closeHandle", "freeChannel")
  /\ CloseHandle(current)
  /\ UNCHANGED <<step, rounds, current, osVars, posts, stopped, ioVars, channel, controller, readFailed,
                 raced, keyVars, bounded, fault>>

FreeChannel ==
  /\ Go("freeChannel", "freeController")
  /\ channel' = [channel EXCEPT ![current] = Freed(@)]
  /\ UNCHANGED <<step, rounds, current, osVars, queues, ioVars, controller, serial, lineVars, keyVars,
                 bounded, fault>>

FreeController ==
  /\ Go("freeController", "up")
  /\ controller' = [controller EXCEPT ![current] = Freed(@)]
  /\ current' = None
  /\ UNCHANGED <<step, rounds, osVars, queues, ioVars, channel, serial, lineVars, keyVars, bounded, fault>>

-----------------------------------------------------------------------------
(* lb_cleanup: hci_cleanup and os_cleanup.                                 *)

Cleanup ==
  /\ Go("up", "post")
  /\ UNCHANGED <<step, rounds, current, osVars, queues, ioVars, memory, lineVars, keyVars, bounded, fault>>

PostShutdown ==
  /\ Go("post", "join")
  /\ packets' = IF port["completion"] = "open" THEN Append(packets, Packet("shutdown", None)) ELSE packets
  /\ posts' = IF port["sleep"] = "open" THEN posts + 1 ELSE posts
  /\ UNCHANGED <<step, rounds, current, osVars, stopped, ioVars, memory, lineVars, keyVars, bounded, fault>>

NeverWait == TRUE   \* mutant
(* GetQueuedCompletionStatus waits for the I/O thread, if it has a port.   *)
Stopped   == stopped > 0 \/ port["shutdown"] = "null"

Join ==
  /\ Go("join", "out")
  /\ Stopped
  /\ stopped' = IF stopped > 0 THEN stopped - 1 ELSE stopped
  /\ port' = [p \in Ports |-> IF port[p] = "null" THEN "null" ELSE Closed(port[p])]
  /\ UNCHANGED <<step, rounds, current, handler, packets, posts, ioVars, memory, lineVars, keyVars,
                 bounded, fault>>

-----------------------------------------------------------------------------
(* ioThreadHandler                                                         *)

SkipEmpty(k)  == CASE k = "shutdown" -> "stop" [] k = "bytes" -> "data" [] OTHER -> "wait"   \* mutant
After(k) ==
  CASE k = "shutdown" -> "stop"
    [] k = "bytes"    -> "data"
    [] k = "empty"    -> "restart"
    [] k = "error"    -> "wait"

(* The channel is the key of the packet; an error is ignored, so a read    *)
(* that fails is not started again.                                        *)
Take ==
  /\ Running
  /\ thread = "wait" /\ port["completion"] = "open" /\ packets # <<>>
  /\ LET p == Head(packets) IN
       /\ thread' = After(p.kind)
       /\ serving' = p.of
  /\ packets' = Tail(packets)
  /\ UNCHANGED <<appVars, osVars, posts, stopped, memory, lineVars, keyVars, bounded, fault>>

Touch(live) == fault' = IF live THEN "none" ELSE "freed"

(* io_on_dataReceived: the channel, its controller and, for some events,   *)
(* the conditions of the controller.                                       *)
Data ==
  /\ Running
  /\ thread = "data"
  /\ thread' = "restart"
  /\ \E owned \in BOOLEAN :
       Touch(/\ channel[serving] = "live"
             /\ controller[serving] = "live" \/ (controller[serving] = "unlocked" /\ ~owned))
  /\ UNCHANGED <<appVars, osVars, queues, serving, memory, lineVars, keyVars, bounded>>

(* A callback that executes a command waits for the end of its write, which *)
(* this thread is to report.                                               *)
CallbackWaits ==
  /\ Running
  /\ thread = "data" /\ controller[serving] = "live"
  /\ thread' = "stuck"
  /\ UNCHANGED <<appVars, osVars, queues, serving, memory, lineVars, keyVars, bounded, fault>>

Restart ==
  /\ Running
  /\ thread = "restart"
  /\ thread' = "wait"
  /\ Touch(channel[serving] = "live")
  /\ \/ serial[serving] = "channel" /\ reading' = reading \cup {serving} /\ UNCHANGED <<readFailed, failures>>
     \/ readFailed' = readFailed \cup {serving} /\ UNCHANGED reading
        /\ IF serial[serving] = "channel" THEN MayFail ELSE UNCHANGED failures
  /\ UNCHANGED <<appVars, osVars, queues, serving, memory, raced, keyVars, reads, interrupts>>

EndSilently == UNCHANGED stopped   \* mutant
PostStopped == stopped' = IF port["shutdown"] = "open" THEN stopped + 1 ELSE stopped

ThreadEnds ==
  /\ Running
  /\ thread = "stop"
  /\ thread' = "ended"
  /\ PostStopped
  /\ UNCHANGED <<appVars, osVars, packets, posts, serving, memory, lineVars, keyVars, bounded, fault>>

-----------------------------------------------------------------------------
(* The OS and the line: a read ends with bytes, without (its time is over) *)
(* or with an error.                                                       *)
ReadEnds(c) ==
  /\ Running
  /\ c \in reading
  /\ reading' = reading \ {c}
  /\ \/ /\ reads < MaxReads /\ reads' = reads + 1
        /\ \E k \in {"bytes", "empty"} : packets' = Append(packets, Packet(k, c))
        /\ raced' = IF c = current /\ app \in {"destroyLocks", "closeHandle"} THEN raced \cup {c} ELSE raced
        /\ UNCHANGED <<readFailed, failures>>
     \/ /\ MayFail
        /\ packets' = Append(packets, Packet("error", c))
        /\ readFailed' = readFailed \cup {c}
        /\ UNCHANGED <<reads, raced>>
  /\ UNCHANGED <<appVars, osVars, posts, stopped, ioVars, memory, keyVars, interrupts, fault>>

(* consoleHandler, on a thread of the OS.                                  *)
CtrlC ==
  /\ Running
  /\ handler /\ console = "idle" /\ interrupts < MaxInterrupts
  /\ console' = "post" /\ interrupted' = TRUE
  /\ interrupts' = interrupts + 1
  /\ UNCHANGED <<appVars, osVars, queues, ioVars, memory, lineVars, taken, reads, failures, fault>>

StopThread == packets' = Append(packets, Packet("shutdown", None)) /\ UNCHANGED posts   \* mutant
WakeSleeper == posts' = (IF port["sleep"] = "open" THEN posts + 1 ELSE posts) /\ UNCHANGED packets

PostInterrupt ==
  /\ Running
  /\ console = "post" /\ console' = "idle"
  /\ WakeSleeper
  /\ UNCHANGED <<appVars, osVars, stopped, ioVars, memory, lineVars, interrupted, taken, bounded, fault>>

-----------------------------------------------------------------------------
(* The process has ended, the application waits for a Ctrl-C that does not *)
(* come, or a failure keeps the I/O thread from ending.                    *)
Finished ==
  /\ \/ ~Running
     \/ app \in {"out", "failed", "await", "join"}
  /\ UNCHANGED vars

Returning == Done \/ DestroyLocks \/ ClosePort \/ FreeChannel \/ FreeController \/ PostShutdown \/ Join
AppStep ==
  \/ Initialize \/ CreatePort \/ RegisterHandler \/ BeginThread \/ InitFails
  \/ Connect \/ OpenCall \/ OpenFails \/ StartRead
  \/ Wait \/ TakePost \/ SleepEnds \/ Disconnect \/ Cleanup
  \/ Returning
ThreadStep == Take \/ Data \/ Restart \/ ThreadEnds

Next == \/ AppStep
        \/ ThreadStep \/ CallbackWaits
        \/ \E c \in Channels : ReadEnds(c)
        \/ CtrlC \/ PostInterrupt
        \/ Finished

Spec == Init /\ [][Next]_vars

(* The threads run.                                                        *)
FairSpec == Spec /\ WF_vars(Returning) /\ WF_vars(ThreadStep)

-----------------------------------------------------------------------------
(* The ports that os_initialize has asked for exist.                       *)
PortsCreated == \A p \in Ports : port[p] # "null"

(* Between two calls of the library no handle and no memory is left over,  *)
(* whichever call of an open has failed: an open port belongs to the       *)
(* connected controller, and after os_cleanup no completion port is open.  *)
(* Nothing is ever given back that is not held.  An os_initialize that     *)
(* fails is not claimed to close the completion ports it has opened: it    *)
(* returns with them open.                                                 *)
NoLeak ==
  /\ \A c \in Channels : "twice" \notin {channel[c], controller[c], serial[c]}
  /\ \A p \in Ports : port[p] # "twice"
  /\ app = "out" => \A p \in Ports : port[p] # "open"
  /\ app \in {"up", "connected", "out"} =>
       \A c \in Channels :
         IF app = "connected" /\ c = current
         THEN channel[c] = "live" /\ controller[c] = "live" /\ serial[c] = "channel"
         ELSE channel[c] # "live" /\ controller[c] \in {"unused", "freed"} /\ serial[c] \in {"none", "closed"}

(* A port in use is always being read: a read is with the OS, its end is   *)
(* queued or the I/O thread handles it.  Only a read that fails ends this, *)
(* since nobody starts it again.                                           *)
ReadKept ==
  (Running /\ app \in {"connected", "sleep", "await"}) =>
    (current \in readFailed \/ current \in reading \/ Queued(current) \/ Serving(current))

(* The I/O thread touches a channel or a controller that lb_disconnect has *)
(* freed only when a read has ended just before or during lb_disconnect.   *)
FreedOnlyInRace == fault = "freed" => serving \in raced

(* When os_cleanup returns, the I/O thread has ended or runs nothing but   *)
(* its last instruction: "wait until all threads are shut down".           *)
ThreadStopped == (app = "out" /\ PortsCreated) => thread \in {"none", "ended"}

(* A Ctrl-C reaches the thread that waits for it, even if it came before   *)
(* the wait; unless a sleep has used it up.                                *)
InterruptKept ==
  (app = "await" /\ interrupted /\ console = "idle" /\ ~taken /\ PortsCreated) => posts > 0

(* lb_cleanup comes back, unless a port is missing, a callback waits for   *)
(* the thread it runs on, or freed memory was used.                        *)
CleanupReturns ==
  [](PortsCreated /\ thread # "stuck" /\ Running) => (app = "join" ~> app = "out")
=============================================================================
