------------------------------ MODULE Bringup ------------------------------
(***************************************************************************)
(* Bringing a controller up: lb_initializeHCI, which finds out the vendor, *)
(* lb_configureAsCentral and the discovery of devices (commands.c), the    *)
(* command sequences of the two vendors and their vendor-specific events   *)
(* (ti_hci.c, st_aci.c), and the command table below them (hci.c).         *)
(*                                                                         *)
(* One thread of the application calls.  Its commands take slots of the    *)
(* table, in which the I/O thread looks for them and leaves the answers;   *)
(* only the choice of a slot is locked, so that the two meet there in any  *)
(* order of their reads and writes.                                        *)
(***************************************************************************)
EXTENDS Naturals, Sequences, FiniteSets, SequencesExt, FiniteSetsExt

CONSTANTS
  NumSlots,    \* length of pendingCommands: 4 in the code
  Chips,       \* the chips to choose from: "TI", "ST" and "other"
  None,        \* no vendor, no command, no answer
  MaxCalls,    \* bound: calls of the application
  MaxLost,     \* bound: commands or answers that get lost
  MaxLate,     \* bound: answers that come after the timeout
  MaxOdd       \* bound: Meta events and Command Completes without a command

ASSUME SlotAssumption  == NumSlots \in Nat \ {0}
ASSUME ChipAssumption  == Chips \subseteq {"TI", "ST", "other"}
ASSUME BoundAssumption == MaxCalls \in Nat /\ MaxLost \in Nat /\ MaxLate \in Nat /\ MaxOdd \in Nat

Slots   == 0 .. NumSlots - 1
Vendors == {"TI", "ST"}

(* What every call executes.  lb_initializeHCI begins with the same        *)
(* commands for all makers and then leaves the rest to the vendor.         *)
Common == <<"RESET", "READ_LOCAL_VERSION">>

Sequences ==
  [TI |-> [init    |-> Common,
           central |-> <<"GAP_DEVICE_INIT">>,
           start   |-> <<"GAP_DEVICE_DISC_REQ">>,
           stop    |-> <<"GAP_DEVICE_DISC_CANCEL">>],
   ST |-> [init    |-> Common \o <<"RESET", "WRITE_CONFIG_DATA", "GATT_INIT">>,
           central |-> <<"GAP_INIT">>,
           start   |-> <<"START_GENERAL_DISCOVERY_PROC">>,
           stop    |-> <<"TERMINATE_GAP_PROC">>]]

VendorSequence(v) == SubSeq(Sequences[v].init, Len(Common) + 1, Len(Sequences[v].init))

Standard == {"RESET", "READ_LOCAL_VERSION"}
Starting == {"GAP_DEVICE_DISC_REQ", "START_GENERAL_DISCOVERY_PROC"}
Stopping == {"GAP_DEVICE_DISC_CANCEL", "TERMINATE_GAP_PROC"}
Commands == Standard \cup Starting \cup Stopping
            \cup {"GAP_DEVICE_INIT", "WRITE_CONFIG_DATA", "GATT_INIT", "GAP_INIT"}
Calls    == {"init", "central", "start", "stop"}

ASSUME NoneAssumption == None \notin {"TI", "ST", "other", "ok", "error"} \cup Commands

VARIABLES
  pc,            \* where the application is
  call,          \* the call it makes, or made last
  calls,         \* how many it has made
  todo,          \* commands the call has yet to execute
  vendorPart,    \* is it in the vendor's part of lb_initializeHCI?
  own,           \* the slot of its command
  common,        \* history: how the common part of lb_initializeHCI ended
  status,        \* what the last call returned
  version,       \* the manufacturer in the buffer of READ_LOCAL_VERSION
  manufacturer,  \* controller->manufacturerId
  vendor,        \* controller->vendorFunctions
  slots,         \* pendingCommands: opcode, capacity and buffer for a result?,
                 \* status, is the condition signaled?
  chip,          \* the chip: who made it, what it has executed since the call began,
                 \* has it ever told its version, is it scanning?
  sent,          \* commands on their way to the chip
  events,        \* events on their way to the I/O thread, first the one it handles
  ioPc,          \* where the I/O thread is
  ioSlot,        \* the slot it looks at
  copies,        \* is the result to be copied?
  ignored,       \* has a vendor-specific event met no handler that knows it?
  lost, late, odd,   \* how often the bounded events have happened
  overtaken,     \* history: has a command taken the free slot that was found for
                 \* a Command Complete with opcode 0, before this was done?
  fault          \* how the process died

appVars == <<pc, call, calls, todo, vendorPart, own, common, status>>
ctlVars == <<version, manufacturer, vendor>>
bounded == <<lost, late, odd>>
ioVars  == <<ioPc, ioSlot, copies>>
vars == <<appVars, ctlVars, slots, chip, sent, events, ioVars, ignored, bounded, overtaken, fault>>

Events == [kind : {"complete", "vendorStatus"}, op : Commands, code : {"ok", "error"}]
          \cup [kind : {"nop", "meta", "found", "done"}]
Preparing == {"reset", "capacity", "buffer", "busy", "send"}

TypeOK ==
  /\ pc \in {"idle", "next", "full", "wait", "version", "select"} \cup Preparing
  /\ call \in Calls \cup {None}
  /\ calls \in 0 .. MaxCalls
  /\ todo \in Seq(Commands)
  /\ vendorPart \in BOOLEAN
  /\ own \in Slots
  /\ common \in {None, "ok", "failure"}
  /\ status \in {None, "ok", "failure", "unknown"}
  /\ version \in Chips \cup {None} /\ manufacturer \in Chips \cup {None}
  /\ vendor \in Vendors \cup {None}
  /\ slots \in [Slots -> [op : Commands \cup {None}, capacity : BOOLEAN, buffer : BOOLEAN,
                         status : {"busy", "ok", "error"}, signaled : BOOLEAN]]
  /\ chip \in [maker : Chips, did : Seq(Commands), told : BOOLEAN, scanning : BOOLEAN]
  /\ sent \in Seq(Commands) /\ events \in Seq(Events)
  /\ ioPc \in {"idle", "scan", "clip", "copy", "status", "signal"}
  /\ ioSlot \in 0 .. NumSlots /\ copies \in BOOLEAN
  /\ ignored \in BOOLEAN /\ overtaken \in BOOLEAN
  /\ lost \in 0 .. MaxLost /\ late \in 0 .. MaxLate /\ odd \in 0 .. MaxOdd
  /\ fault \in {"none", "full", "assert", "null", "memory"}

Init ==
  /\ pc = "idle" /\ call = None /\ calls = 0 /\ todo = <<>> /\ vendorPart = FALSE
  /\ own = 0 /\ common = None /\ status = None
  /\ version = None /\ manufacturer = None /\ vendor = None
  /\ slots = [s \in Slots |-> [op |-> None, capacity |-> FALSE, buffer |-> FALSE,
                               status |-> "ok", signaled |-> FALSE]]
  /\ \E m \in Chips : chip = [maker |-> m, did |-> <<>>, told |-> FALSE, scanning |-> FALSE]
  /\ sent = <<>> /\ events = <<>> /\ ignored = FALSE /\ overtaken = FALSE
  /\ ioPc = "idle" /\ ioSlot = 0 /\ copies = FALSE
  /\ lost = 0 /\ late = 0 /\ odd = 0
  /\ fault = "none"

Running == fault = "none"
At(p) == Running /\ pc = p

-----------------------------------------------------------------------------
(* The calls                                                               *)

Return(s) == pc' = "idle" /\ status' = s /\ todo' = <<>>

Begin(c) ==
  /\ At("idle") /\ calls < MaxCalls
  /\ calls' = calls + 1 /\ call' = c
  /\ vendorPart' = (c # "init") /\ common' = None
  /\ chip' = [chip EXCEPT !.did = <<>>]
  /\ CASE c = "init"    -> pc' = "next" /\ todo' = Common /\ status' = None
       [] vendor = None -> c # "init" /\ Return("unknown")
       [] OTHER         -> pc' = "next" /\ todo' = Sequences[vendor][c] /\ status' = None
  /\ UNCHANGED <<own, ctlVars, slots, sent, events, ioVars, ignored, bounded, overtaken, fault>>

-----------------------------------------------------------------------------
(* lb_executeCommand: allocateCondition reserves a slot under the lock and *)
(* fills it in after it, then the command is sent.                         *)

FreeSlots == {s \in Slots : slots[s].op = None}

(* Is the I/O thread about to write to a slot that it found to be free?    *)
Matched    == {"clip", "copy", "status", "signal"}
OnFreeSlot == ioPc \in Matched /\ Head(events).kind = "nop"

Reserve ==
  /\ At("next")
  /\ IF FreeSlots = {}
     THEN pc' = "full" /\ UNCHANGED <<own, slots, overtaken>>
     ELSE LET s == Min(FreeSlots) IN
          /\ pc' = "reset" /\ own' = s
          /\ slots' = [slots EXCEPT ![s].op = Head(todo)]
          /\ overtaken' = (overtaken \/ (OnFreeSlot /\ s = ioSlot))
  /\ UNCHANGED <<call, calls, todo, vendorPart, common, status, ctlVars, chip, sent, events, ioVars, ignored,
                 bounded, fault>>

OnlySlots ==
  UNCHANGED <<call, calls, todo, vendorPart, own, common, status, ctlVars, chip, sent, events, ioVars, ignored,
              bounded, overtaken, fault>>

KeepBuffer(c)  == c = "READ_LOCAL_VERSION" \/ slots[own].buffer   \* mutant
WantsResult(c) == c = "READ_LOCAL_VERSION"

ResetSlot ==
  /\ At("reset") /\ pc' = "capacity"
  /\ slots' = [slots EXCEPT ![own].signaled = FALSE]
  /\ OnlySlots

SetCapacity ==
  /\ At("capacity") /\ pc' = "buffer"
  /\ slots' = [slots EXCEPT ![own].capacity = WantsResult(Head(todo))]
  /\ OnlySlots

SetBuffer ==
  /\ At("buffer") /\ pc' = "busy"
  /\ slots' = [slots EXCEPT ![own].buffer = WantsResult(Head(todo))]
  /\ OnlySlots

SetBusy ==
  /\ At("busy") /\ pc' = "send"
  /\ slots' = [slots EXCEPT ![own].status = "busy"]
  /\ OnlySlots

Transmit ==
  /\ At("send") /\ pc' = "wait"
  /\ sent' = Append(sent, Head(todo))
  /\ UNCHANGED <<call, calls, todo, vendorPart, own, common, status, ctlVars, slots, chip, events, ioVars, ignored,
                 bounded, overtaken, fault>>

(* A full table leaves the command without a condition to wait for.        *)
TransmitAnyway ==
  /\ At("full")
  /\ sent' = Append(sent, Head(todo)) /\ fault' = "full"
  /\ UNCHANGED <<appVars, ctlVars, slots, chip, events, ioVars, ignored, bounded, overtaken>>

GoOnAnyway(ok) == TRUE   \* mutant
Succeeded(ok)  == ok

(* What follows a command: the next one, the choice of the vendor or the   *)
(* end of the call.  A failure ends the sequence; in the common part of    *)
(* lb_initializeHCI it still leads to the choice of the vendor.            *)
Proceed(c, ok) ==
  /\ IF Succeeded(ok)
     THEN /\ todo' = Tail(todo)
          /\ pc' = IF todo' # <<>> THEN "next"
                   ELSE IF c = "READ_LOCAL_VERSION" THEN "version" ELSE "idle"
     ELSE todo' = <<>> /\ pc' = IF vendorPart THEN "idle" ELSE "select"
  /\ status' = IF pc' = "idle" THEN (IF ok THEN "ok" ELSE "failure") ELSE None
  /\ common' = IF vendorPart THEN common ELSE IF ok THEN "ok" ELSE "failure"

KeepSlot(s) == slots   \* mutant
Freed(s)    == [slots EXCEPT ![s].op = None]

(* waitForCondition is signaled and gives the slot back ...                *)
Answered ==
  /\ At("wait") /\ slots[own].signaled
  /\ Proceed(slots[own].op, slots[own].status = "ok")
  /\ slots' = Freed(own)
  /\ UNCHANGED <<call, calls, vendorPart, own, ctlVars, chip, sent, events, ioVars, ignored, bounded, overtaken, fault>>

Coming == \/ slots[own].op \in {sent[i] : i \in DOMAIN sent}
          \/ \E i \in DOMAIN events : /\ events[i].kind \in {"complete", "vendorStatus"}
                                      /\ events[i].op = slots[own].op

(* ... or times out and does not.                                          *)
TimedOut ==
  /\ At("wait") /\ ~slots[own].signaled
  /\ IF Coming THEN late < MaxLate /\ late' = late + 1 ELSE UNCHANGED late
  /\ Proceed(slots[own].op, FALSE)
  /\ UNCHANGED <<call, calls, vendorPart, own, ctlVars, slots, chip, sent, events, ioVars, ignored, lost, odd,
                 overtaken, fault>>

ReadVersion ==
  /\ At("version") /\ pc' = "select"
  /\ manufacturer' = version
  /\ UNCHANGED <<call, calls, todo, vendorPart, own, common, status, version, vendor, slots, chip, sent, events,
                 ioVars, ignored, bounded, overtaken, fault>>

AnyMaker  == manufacturer                                 \* mutant
DefaultTI == IF manufacturer = "ST" THEN "ST" ELSE "TI"   \* mutant
(* An unknown manufacturer leaves the vendor as it was.                    *)
Selected  == IF manufacturer \in Vendors THEN manufacturer ELSE vendor

(* lb_initializeHCI goes on with the vendor's part, whatever its own       *)
(* commands returned.                                                      *)
Select ==
  /\ At("select")
  /\ vendor' = Selected
  /\ vendorPart' = TRUE
  /\ IF vendor' \notin Vendors THEN Return("unknown")
     ELSE LET s == VendorSequence(vendor') IN
          IF s = <<>> THEN Return("ok") ELSE pc' = "next" /\ todo' = s /\ UNCHANGED status
  /\ UNCHANGED <<call, calls, own, common, version, manufacturer, slots, chip, sent, events, ioVars, ignored,
                 bounded, overtaken, fault>>

-----------------------------------------------------------------------------
(* The chip: it executes a command and answers, refuses it, or one of the  *)
(* command and the answer gets lost.                                       *)

Answer(c, code) ==
  [kind |-> IF c \in Standard \/ chip.maker = "ST" THEN "complete" ELSE "vendorStatus", op |-> c, code |-> code]
Event(k) == [kind |-> k]

Executed(c) ==
  [chip EXCEPT !.did = Append(@, c),
               !.told = @ \/ c = "READ_LOCAL_VERSION",
               !.scanning = (c \in Starting) \/ (@ /\ c \notin Stopping \cup {"RESET"})]
Done(c) == IF chip.scanning /\ c \in Stopping THEN <<Event("done")>> ELSE <<>>

Serve ==
  /\ Running /\ sent # <<>>
  /\ sent' = Tail(sent)
  /\ LET c == Head(sent) IN
       \/ chip' = Executed(c) /\ events' = Append(events, Answer(c, "ok")) \o Done(c) /\ UNCHANGED lost
       \/ events' = Append(events, Answer(c, "error")) /\ UNCHANGED <<chip, lost>>
       \/ /\ lost < MaxLost /\ lost' = lost + 1
          /\ chip' \in {chip, Executed(c)} /\ UNCHANGED events
  /\ UNCHANGED <<appVars, ctlVars, slots, ioVars, ignored, late, odd, overtaken, fault>>

(* A scan sees a device, or ends.                                          *)
Scan ==
  /\ Running /\ chip.scanning
  /\ \/ events = <<>> /\ events' = Append(events, Event("found")) /\ UNCHANGED chip
     \/ events' = Append(events, Event("done")) /\ chip' = [chip EXCEPT !.scanning = FALSE]
  /\ UNCHANGED <<appVars, ctlVars, slots, sent, ioVars, ignored, bounded, overtaken, fault>>

(* A Meta event, or a Command Complete that only grants commands.          *)
Odd ==
  /\ Running /\ odd < MaxOdd /\ odd' = odd + 1
  /\ \E k \in {"meta", "nop"} : events' = Append(events, Event(k))
  /\ UNCHANGED <<appVars, ctlVars, slots, chip, sent, ioVars, ignored, lost, late, overtaken, fault>>

-----------------------------------------------------------------------------
(* The I/O thread: processBuffer and the event handlers.  An event stays   *)
(* in the buffer until its handler is done.                                *)

Opcode(e) == IF e.kind = "nop" THEN None ELSE e.op
Status(e) == IF e.kind = "nop" THEN "ok" ELSE e.code

(* The results that an event carries: the version, or, if its opcode is 0, *)
(* anything.  Such an event is shorter than its header, so that its length *)
(* wraps around and reaches what lies behind it.                           *)
Results(e) == IF e.kind = "nop" THEN Chips ELSE IF e.op = "READ_LOCAL_VERSION" THEN {chip.maker} ELSE {}

(* The vendor's handler takes its answers and calls the application back;  *)
(* without a vendor the event is not looked at.                            *)
IsAnswer(e) == e.kind \in {"complete", "nop"} \/ (e.kind = "vendorStatus" /\ vendor = chip.maker)

(* The TI table has no on_metaEvent.                                       *)
Handle ==
  /\ Running /\ ioPc = "idle" /\ events # <<>>
  /\ LET e == Head(events) IN
       \/ /\ IsAnswer(e)
          /\ ioPc' = "scan"
          /\ UNCHANGED <<events, ignored, fault>>
       \/ /\ e.kind = "meta"
          /\ events' = Tail(events)
          /\ fault' = IF vendor = "TI" THEN "null" ELSE "none"
          /\ UNCHANGED <<ioPc, ignored>>
       \/ /\ ~IsAnswer(e) /\ e.kind # "meta"
          /\ events' = Tail(events)
          /\ ignored' = (ignored \/ vendor # chip.maker)
          /\ UNCHANGED <<ioPc, fault>>
  /\ UNCHANGED <<appVars, ctlVars, slots, chip, sent, ioSlot, copies, bounded, overtaken>>

(* signalCondition looks for the opcode, without the lock, ...             *)
ScanSlot ==
  /\ Running /\ ioPc = "scan"
  /\ CASE ioSlot = NumSlots                            -> fault' = "assert" /\ UNCHANGED <<ioPc, ioSlot>>
       [] /\ ioSlot < NumSlots
          /\ slots[ioSlot].op = Opcode(Head(events))   -> ioPc' = "clip" /\ UNCHANGED <<ioSlot, fault>>
       [] OTHER                                        -> ioSlot' = ioSlot + 1 /\ UNCHANGED <<ioPc, fault>>
  /\ UNCHANGED <<appVars, ctlVars, slots, chip, sent, events, copies, ignored, bounded, overtaken>>

(* ... takes no more of the result than the slot has room for, ...         *)
ClipLength ==
  /\ Running /\ ioPc = "clip" /\ ioPc' = "copy"
  /\ copies' = (Results(Head(events)) # {} /\ slots[ioSlot].capacity)
  /\ UNCHANGED <<appVars, ctlVars, slots, chip, sent, events, ioSlot, ignored, bounded, overtaken, fault>>

(* ... copies it to the buffer, or to nowhere, ...                         *)
CopyResult ==
  /\ Running /\ ioPc = "copy" /\ ioPc' = "status"
  /\ IF copies /\ ~slots[ioSlot].buffer THEN fault' = "memory" ELSE UNCHANGED fault
  /\ version' \in IF copies /\ slots[ioSlot].buffer THEN Results(Head(events)) ELSE {version}
  /\ UNCHANGED <<appVars, manufacturer, vendor, slots, chip, sent, events, ioSlot, copies, ignored, bounded,
                 overtaken>>

(* ... leaves the status and signals the condition.                        *)
SetStatus ==
  /\ Running /\ ioPc = "status" /\ ioPc' = "signal"
  /\ slots' = [slots EXCEPT ![ioSlot].status = Status(Head(events))]
  /\ UNCHANGED <<appVars, ctlVars, chip, sent, events, ioSlot, copies, ignored, bounded, overtaken, fault>>

SignalSlot ==
  /\ Running /\ ioPc = "signal" /\ ioPc' = "idle"
  /\ slots' = [slots EXCEPT ![ioSlot].signaled = TRUE]
  /\ events' = Tail(events)
  /\ ioSlot' = 0 /\ copies' = FALSE
  /\ UNCHANGED <<appVars, ctlVars, chip, sent, ignored, bounded, overtaken, fault>>

-----------------------------------------------------------------------------
Finished ==
  /\ ~Running \/ (pc = "idle" /\ calls = MaxCalls /\ events = <<>> /\ sent = <<>>)
  /\ UNCHANGED vars

AppStep == \/ Reserve \/ ResetSlot \/ SetCapacity \/ SetBuffer \/ SetBusy
           \/ Transmit \/ TransmitAnyway
           \/ Answered \/ TimedOut
           \/ ReadVersion \/ Select
IoStep  == Handle \/ ScanSlot \/ ClipLength \/ CopyResult \/ SetStatus \/ SignalSlot

Next == \/ \E c \in Calls : Begin(c)
        \/ AppStep
        \/ Serve \/ Scan \/ Odd
        \/ IoStep
        \/ Finished

Spec == Init /\ [][Next]_vars

-----------------------------------------------------------------------------
(* LB_OK means that the chip has executed all commands of the call, in     *)
(* this order and as the last ones.  lb_initializeHCI overwrites the       *)
(* status of its common part: if this failed while the vendor is known,    *)
(* because the chip has told its version before, LB_OK is about the        *)
(* vendor's part alone.  And a command may take the slot that was found    *)
(* for a Command Complete with opcode 0: then LB_OK means nothing.         *)
OkMeansDone ==
  (pc = "idle" /\ status = "ok" /\ ~overtaken) =>
    IF call = "init" /\ common = "failure"
    THEN /\ IsSuffix(VendorSequence(vendor), chip.did)
         /\ chip.told
    ELSE IsSuffix(Sequences[vendor][call], chip.did)

CommandsOf(m) == UNION {Range(Sequences[v][c]) : v \in Vendors \cap {m}, c \in Calls}

(* Without a Command Complete for no command in the wrong moment, the      *)
(* vendor is the one that made the chip: no chip gets the commands of the  *)
(* other vendor and every event finds the handler that knows it.           *)
RightVendor ==
  odd = 0 => /\ vendor \in {None, chip.maker}
             /\ \A i \in DOMAIN chip.did :
                  chip.did[i] \in Standard \cup CommandsOf(chip.maker)
             /\ ~ignored

(* No sequence of calls and refusals ends the process: it takes an answer  *)
(* that is lost, late or met by the wrong vendor's handler, which leaves   *)
(* its slot taken for ever and makes every later command with the opcode   *)
(* time out as well; a Command Complete with opcode 0 whose free slot a    *)
(* command takes in the meantime, so that the answer finds no slot or the  *)
(* result no buffer; or a Meta event of a TI chip.                         *)
NoCrash ==
  fault # "none" => lost + late > 0 \/ ignored \/ overtaken \/ (fault = "null" /\ vendor = "TI")

(* A free slot keeps no pointer to the version on the stack of             *)
(* lb_initializeHCI once another command was executed, so that a Command   *)
(* Complete with opcode 0 has nothing to overwrite there.                  *)
NoStaleBuffer ==
  (pc = "idle" /\ call \in {"central", "start", "stop"} /\ status = "ok") =>
    \A s \in FreeSlots : ~slots[s].buffer
=============================================================================
