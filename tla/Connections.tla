---------------------------- MODULE Connections ----------------------------
(***************************************************************************)
(* Connections of one controller: lb_openDeviceConnection and              *)
(* lb_closeDeviceConnection, run by the application's threads, and         *)
(* on_connectedToDevice and on_disconnectedFromDevice, run by the I/O      *)
(* thread for the link events (commands.c, lb_priv.h, ti_hci.c, st_aci.c). *)
(*                                                                         *)
(* controller->operationLock makes one open or close wait for the other;   *)
(* the I/O thread changes the device table and signals                     *)
(* controller->operationComplete without it.                               *)
(***************************************************************************)
EXTENDS Naturals, Sequences, FiniteSets

CONSTANTS
  Threads,      \* the threads of the application
  NumDevices,   \* length of controller->device: 8 in the code
  Links,        \* the connection handles the controller gives
  Invalid,      \* INVALID_CONNECTION_HANDLE
  MaxDevices,   \* devices the application opens at a time
  MaxOpens,     \* bound: opens per thread
  MaxDrops,     \* bound: links lost
  MaxFails,     \* bound: connections that cannot be established
  MaxLate,      \* bound: waits that run out before their event, and closes
                \* that the controller refuses
  Reason,       \* the reason of a disconnection, cast to a pointer
  Nobody        \* no thread, no device

ASSUME DeviceAssumption == NumDevices \in Nat \ {0}
ASSUME LinkAssumption   == Invalid \notin Links
ASSUME BoundAssumption  == /\ MaxDevices \in Nat /\ MaxOpens \in Nat /\ MaxDrops \in Nat
                           /\ MaxFails \in Nat /\ MaxLate \in Nat

Devices == 0 .. NumDevices - 1
ASSUME NobodyAssumption == Nobody \notin Threads /\ {Nobody, Reason} \cap Devices = {}

VARIABLES
  pc,           \* where each thread is
  opens,        \* opens it has begun
  held,         \* the device it has open
  lock,         \* the holder of controller->operationLock
  handle,       \* handle[d]: the connectionHandle of device d
  complete,     \* controller->operationComplete: the event and its status
  connecting,   \* threads whose connection the controller is to establish
  links,        \* links that are up
  events,       \* link events on their way to the I/O thread
  ioPc,         \* where the I/O thread is
  event,        \* the link event it handles
  drops, fails, late,  \* how often the bounded events have happened
  fault         \* "wild": an open has returned a pointer to no device

callers == <<pc, opens, held>>
ioVars  == <<events, ioPc, event>>
bounded == <<drops, fails, late>>
vars == <<callers, lock, handle, complete, connecting, links, ioVars, bounded, fault>>

LinkEvents == [kind : {"up", "down"}, link : Links \cup {Invalid}, for : Threads \cup {Nobody}]
NoEvent == [kind |-> "none", link |-> Invalid, for |-> Nobody]

TypeOK ==
  /\ pc \in [Threads -> {"idle", "lock", "reset", "request", "wait", "unlock",
                         "close", "closeReset", "terminate", "closeWait", "free", "closeUnlock"}]
  /\ opens \in [Threads -> 0 .. MaxOpens]
  /\ held \in [Threads -> Devices \cup {Nobody}]
  /\ lock \in Threads \cup {Nobody}
  /\ handle \in [Devices -> Links \cup {Invalid}]
  /\ complete \in [signaled : BOOLEAN, status : Devices \cup {Nobody, Reason}]
  /\ connecting \subseteq Threads
  /\ links \subseteq Links
  /\ events \in Seq(LinkEvents)
  /\ ioPc \in {"idle", "place", "find", "signal"}
  /\ event \in LinkEvents \cup {NoEvent}
  /\ drops \in 0 .. MaxDrops /\ fails \in 0 .. MaxFails /\ late \in Nat
  /\ fault \in {"none", "wild"}

Unsignaled == [signaled |-> FALSE, status |-> Nobody]

(* lb_connect: no device is connected.                                     *)
Init ==
  /\ pc = [t \in Threads |-> "idle"]
  /\ opens = [t \in Threads |-> 0]
  /\ held = [t \in Threads |-> Nobody]
  /\ lock = Nobody
  /\ handle = [d \in Devices |-> Invalid]
  /\ complete = Unsignaled
  /\ connecting = {} /\ links = {}
  /\ events = <<>> /\ ioPc = "idle" /\ event = NoEvent
  /\ drops = 0 /\ fails = 0 /\ late = 0
  /\ fault = "none"

Running == fault = "none"
Go(t, from, to) == Running /\ pc[t] = from /\ pc' = [pc EXCEPT ![t] = to]

(* Both searches of the device table leave their index at 0: the loop      *)
(* looks at device 0 again and again.                                      *)
Spinning ==
  \/ ioPc = "place" /\ handle[0] # Invalid
  \/ ioPc = "find" /\ handle[0] # event.link

Closing(t) == pc[t] \in {"close", "closeReset", "terminate", "closeWait", "free", "closeUnlock"}
Opening(t) == pc[t] # "idle" /\ ~Closing(t)

-----------------------------------------------------------------------------
(* lb_openDeviceConnection                                                 *)

(* The application opens a device when it has fewer than MaxDevices.       *)
Open(t) ==
  /\ held[t] = Nobody /\ opens[t] < MaxOpens
  /\ Cardinality({u \in Threads : Opening(u) \/ held[u] # Nobody}) < MaxDevices
  /\ Go(t, "idle", "lock")
  /\ opens' = [opens EXCEPT ![t] = @ + 1]
  /\ UNCHANGED <<held, lock, handle, complete, connecting, links, ioVars, bounded, fault>>

Lock(t) ==
  /\ lock = Nobody
  /\ Go(t, "lock", "reset") \/ Go(t, "close", "closeReset")
  /\ lock' = t
  /\ UNCHANGED <<opens, held, handle, complete, connecting, links, ioVars, bounded, fault>>

KeepSignal == complete   \* mutant
Cleared    == Unsignaled
Reset(t) ==
  /\ Go(t, "reset", "request") \/ Go(t, "closeReset", "terminate")
  /\ complete' = Cleared
  /\ UNCHANGED <<opens, held, lock, handle, connecting, links, ioVars, bounded, fault>>

(* The connect command is accepted, if the controller has a handle left, or*)
(* not; its status is not looked at.                                       *)
Request(t) ==
  /\ Go(t, "request", "wait")
  /\ \/ connecting' = connecting
     \/ /\ Cardinality(connecting) < Cardinality(Links \ links)
        /\ connecting' = connecting \cup {t}
  /\ UNCHANGED <<opens, held, lock, handle, complete, links, ioVars, bounded, fault>>

(* Signaled: what the event left in the condition is the device.           *)
Opened(t) ==
  /\ complete.signaled
  /\ Go(t, "wait", "unlock")
  /\ IF complete.status \in Devices
     THEN held' = [held EXCEPT ![t] = complete.status] /\ fault' = fault
     ELSE fault' = "wild" /\ held' = held
  /\ UNCHANGED <<opens, lock, handle, complete, connecting, links, ioVars, bounded>>

(* An event of the link of t may still come.                               *)
Expected(t, kind, link) ==
  \/ kind = "up" /\ t \in connecting
  \/ \E i \in DOMAIN events : /\ events[i].kind = kind
                              /\ events[i].for = t \/ events[i].link = link
  \/ ioPc # "idle" /\ event.kind = kind /\ (event.for = t \/ event.link = link)

(* Not signaled: a wait that runs out too early is a bounded event, unless *)
(* the I/O thread will not get to the one that is awaited.                 *)
RunsOut(t, kind, link) ==
  /\ ~complete.signaled
  /\ IF Expected(t, kind, link) THEN (late < MaxLate \/ Spinning) /\ late' = late + 1 ELSE late' = late

OpenTimeout(t) ==
  /\ Go(t, "wait", "unlock")
  /\ RunsOut(t, "up", Nobody)
  /\ UNCHANGED <<opens, held, lock, handle, complete, connecting, links, ioVars,
                 drops, fails, fault>>

Unlock(t) ==
  /\ Go(t, "unlock", "idle") \/ Go(t, "closeUnlock", "idle")
  /\ lock' = Nobody
  /\ UNCHANGED <<opens, held, handle, complete, connecting, links, ioVars, bounded, fault>>

-----------------------------------------------------------------------------
(* lb_closeDeviceConnection                                                *)

Close(t) ==
  /\ held[t] \in Devices
  /\ Go(t, "idle", "close")
  /\ UNCHANGED <<opens, held, lock, handle, complete, connecting, links, ioVars, bounded, fault>>

(* The controller ends the link, if there is one.                          *)
Terminate(t) ==
  /\ Go(t, "terminate", "closeWait")
  /\ LET link == handle[held[t]] IN
       IF link \in links
       THEN /\ links' = links \ {link}
            /\ events' = Append(events, [kind |-> "down", link |-> link, for |-> Nobody])
       ELSE UNCHANGED <<links, events>>
  /\ UNCHANGED <<opens, held, lock, handle, complete, connecting, ioPc, event, bounded, fault>>

(* The controller refuses, and the link stays up: lb_closeDeviceConnection *)
(* does not look at the status.                                            *)
Refused(t) ==
  /\ Go(t, "terminate", "closeWait")
  /\ handle[held[t]] \in links
  /\ late < MaxLate /\ late' = late + 1
  /\ UNCHANGED <<opens, held, lock, handle, complete, connecting, links, ioVars, drops, fails, fault>>

NoWait(t) ==   \* mutant
  /\ Go(t, "closeWait", "free")
  /\ UNCHANGED <<opens, held, lock, handle, complete, connecting, links, ioVars, bounded, fault>>
Closed(t) ==
  /\ complete.signaled
  /\ Go(t, "closeWait", "free")
  /\ UNCHANGED <<opens, held, lock, handle, complete, connecting, links, ioVars, bounded, fault>>

CloseTimeout(t) ==
  /\ Go(t, "closeWait", "free")
  /\ RunsOut(t, "down", handle[held[t]])
  /\ UNCHANGED <<opens, held, lock, handle, complete, connecting, links, ioVars,
                 drops, fails, fault>>

(* done: the device is free, whether it was disconnected or not.           *)
Keep(d)  == handle[d]   \* mutant
Zeroed(d) == 0         \* mutant
Freed(d) == Invalid
FreeDevice(t) ==
  /\ Go(t, "free", "closeUnlock")
  /\ handle' = [handle EXCEPT ![held[t]] = Freed(held[t])]
  /\ held' = [held EXCEPT ![t] = Nobody]
  /\ UNCHANGED <<opens, lock, complete, connecting, links, ioVars, bounded, fault>>

-----------------------------------------------------------------------------
(* The controller and the peer.                                            *)

Establish(t) ==
  /\ Running /\ t \in connecting
  /\ connecting' = connecting \ {t}
  /\ \E l \in Links \ links :
       /\ links' = links \cup {l}
       /\ events' = Append(events, [kind |-> "up", link |-> l, for |-> t])
  /\ UNCHANGED <<callers, lock, handle, complete, ioPc, event, bounded, fault>>

(* The event of a connection that failed: its status is not looked at, and *)
(* it carries no connection handle.                                        *)
Fail(t) ==
  /\ Running /\ t \in connecting /\ fails < MaxFails
  /\ fails' = fails + 1
  /\ connecting' = connecting \ {t}
  /\ events' = Append(events, [kind |-> "up", link |-> Invalid, for |-> t])
  /\ UNCHANGED <<callers, lock, handle, complete, links, ioPc, event, drops, late, fault>>

Drop ==
  /\ Running /\ drops < MaxDrops
  /\ drops' = drops + 1
  /\ \E l \in links :
       /\ links' = links \ {l}
       /\ events' = Append(events, [kind |-> "down", link |-> l, for |-> Nobody])
  /\ UNCHANGED <<callers, lock, handle, complete, connecting, ioPc, event, fails, late, fault>>

-----------------------------------------------------------------------------
(* The I/O thread.                                                         *)

TakeEvent ==
  /\ Running /\ ioPc = "idle" /\ events # <<>>
  /\ event' = Head(events) /\ events' = Tail(events)
  /\ ioPc' = IF Head(events).kind = "up" THEN "place" ELSE "find"
  /\ UNCHANGED <<callers, lock, handle, complete, connecting, links, bounded, fault>>

(* on_connectedToDevice: device 0 is free.                                 *)
Place ==
  /\ Running /\ ioPc = "place" /\ ~Spinning
  /\ handle' = [handle EXCEPT ![0] = event.link]
  /\ ioPc' = "signal"
  /\ UNCHANGED <<callers, lock, complete, connecting, links, events, event, bounded, fault>>

(* on_disconnectedFromDevice: device 0 has the link, and keeps it.         *)
Find ==
  /\ Running /\ ioPc = "find" /\ ~Spinning
  /\ ioPc' = "signal"
  /\ UNCHANGED <<callers, lock, handle, complete, connecting, links, events, event,
                 bounded, fault>>

Signal ==
  /\ Running /\ ioPc = "signal"
  /\ complete' = [signaled |-> TRUE, status |-> IF event.kind = "up" THEN 0 ELSE Reason]
  /\ ioPc' = "idle" /\ event' = NoEvent
  /\ UNCHANGED <<callers, lock, handle, connecting, links, events, bounded, fault>>

-----------------------------------------------------------------------------
CallerStep(t) ==
  \/ Lock(t) \/ Reset(t) \/ Request(t) \/ Opened(t) \/ OpenTimeout(t) \/ Unlock(t)
  \/ Terminate(t) \/ Refused(t) \/ Closed(t) \/ CloseTimeout(t) \/ FreeDevice(t)

IoStep == TakeEvent \/ Place \/ Find \/ Signal

(* The process has died, spins, or has nothing to do.                      *)
Finished ==
  /\ \/ ~Running
     \/ Spinning
     \/ events = <<>> /\ ioPc = "idle" /\ \A t \in Threads : pc[t] = "idle"
  /\ UNCHANGED vars

Next == \/ \E t \in Threads : Open(t) \/ Close(t) \/ CallerStep(t) \/ Establish(t) \/ Fail(t)
        \/ Drop
        \/ IoStep
        \/ Finished

Spec == Init /\ [][Next]_vars

(* Threads run, and the controller ends every connection attempt.          *)
FairSpec == /\ Spec
            /\ \A t \in Threads : WF_vars(CallerStep(t)) /\ WF_vars(Establish(t) \/ Fail(t))
            /\ WF_vars(IoStep)

-----------------------------------------------------------------------------
(* An open that returns LB_OK gives a device of the table, not the reason  *)
(* of some disconnection.                                                  *)
OpenGivesDevice == fault # "wild"

(* It does until a link is lost or a wait runs out while its event is under*)
(* way: a closed device's disconnection is never taken for the answer to an*)
(* open, and a failed connection gives a device, if not a connected one.   *)
SteadyOpens == drops = 0 /\ late = 0 => fault # "wild"

(* Its event of the link l is still to be handled.                         *)
Announced(l) == \/ \E i \in DOMAIN events : events[i].kind = "up" /\ events[i].link = l
                \/ ioPc = "place" /\ event.link = l

(* Until a wait runs out while its event is under way, or a close is       *)
(* refused, no link and no device is left to nobody: a link that is up is  *)
(* in the device table or will be, and a device in use belongs to a thread *)
(* or to the open that waits for it.                                       *)
LinksOwned ==
  Running /\ late = 0 =>
    /\ \A l \in links : Announced(l) \/ \E d \in Devices : handle[d] = l
    /\ \A d \in Devices : handle[d] # Invalid =>
         \E t \in Threads :
           \/ held[t] = d
           \/ /\ pc[t] = "wait"
              /\ \/ complete.signaled
                 \/ ioPc = "signal" /\ event.kind = "up" /\ event.for = t

(* Until then the I/O thread gets through every link event: getDevice finds*)
(* the device of the link, and on_connectedToDevice a free one, unless     *)
(* another one is in use.  (With a second device it searches for ever.)    *)
Excused == \/ ~Running
           \/ late > 0
           \/ ioPc = "place" /\ \E t \in Threads : held[t] = 0
LinkEventsHandled == ioPc \in {"place", "find"} ~> (ioPc = "idle" \/ Excused)

=============================================================================
