------------------------------ MODULE Framing ------------------------------
(***************************************************************************)
(* HCI events cut out of the byte stream of the serial port: the read loop *)
(* of the I/O thread (io_win32.c), io_on_dataReceived and processBuffer    *)
(* (commands.c).  The accumulator keeps its stale bytes, as the array of   *)
(* struct LB_Controller does.                                              *)
(***************************************************************************)
EXTENDS Naturals, Sequences

CONSTANTS
  Packets,      \* the events the controller may send: [opcode, payload]
  BufferSize,   \* size of the accumulator: 128 in the code
  MaxChunk,     \* most bytes of one read: the channel buffer has 256
  Event,        \* HCI_PACKET_EVENT, the first byte of every event: 4
  Noise,        \* a byte that starts no event
  MaxPackets,   \* bound: events sent
  MaxNoise      \* bound: noise bytes on the line

Header == 3     \* sizeof(struct HCI_EventHeader): type, opcode, length

ASSUME SizeAssumption   == BufferSize \in Nat /\ BufferSize > Header /\ MaxChunk \in Nat
ASSUME PacketAssumption == Packets \subseteq [opcode : Nat, payload : Seq(Nat)]
ASSUME ByteAssumption   == Event \in Nat /\ Noise \in Nat \ {Event}
ASSUME BoundAssumption  == MaxPackets \in Nat /\ MaxNoise \in Nat

VARIABLES
  sent,         \* the events sent so far
  noise,        \* noise bytes sent so far
  line,         \* bytes sent and not yet read
  buf,          \* controller->buffer
  length,       \* controller->length
  pc,           \* idle (waiting for a read) or process (in processBuffer)
  off,          \* the local "buffer": an offset into buf
  left,         \* the local "length": bytes from off on
  dispatched,   \* the events dispatched so far
  split,        \* history: events of which two bytes stayed behind another one
  fault         \* the assert of io_on_dataReceived has failed

ioVars == <<buf, length, pc, off, left, dispatched, split, fault>>
vars   == <<sent, noise, line, ioVars>>

Index == 0 .. BufferSize - 1

TypeOK ==
  /\ sent   \in Seq(Packets)
  /\ noise  \in 0 .. MaxNoise
  /\ line   \in Seq(Nat)
  /\ buf    \in [Index -> Nat]
  /\ length \in 0 .. BufferSize
  /\ pc     \in {"idle", "process"}
  /\ off    \in 0 .. BufferSize
  /\ left   \in 0 .. BufferSize
  /\ dispatched \in Seq([opcode : Nat, payload : Seq(Nat)])
  /\ split  \subseteq Nat
  /\ fault  \in BOOLEAN

Init ==
  /\ sent = <<>> /\ noise = 0 /\ line = <<>>
  /\ buf = [i \in Index |-> 0] /\ length = 0
  /\ pc = "idle" /\ off = 0 /\ left = 0
  /\ dispatched = <<>> /\ split = {} /\ fault = FALSE

Bytes(p) == <<Event, p.opcode, Len(p.payload)>> \o p.payload

(* The controller sends an event.                                          *)
SendEvent ==
  /\ Len(sent) < MaxPackets
  /\ \E p \in Packets : sent' = Append(sent, p) /\ line' = line \o Bytes(p)
  /\ UNCHANGED <<noise, ioVars>>

(* A byte that belongs to no event, between two of them.                   *)
SendNoise ==
  /\ noise < MaxNoise
  /\ noise' = noise + 1
  /\ line' = Append(line, Noise)
  /\ UNCHANGED <<sent, ioVars>>

NoCheck(n) == TRUE   \* mutant
Fits(n)    == n + length < BufferSize

(* A read completes with n bytes, which io_on_dataReceived appends.        *)
Receive(n) ==
  /\ ~fault /\ pc = "idle" /\ n <= Len(line)
  /\ Fits(n)
  /\ line' = SubSeq(line, n + 1, Len(line))
  /\ buf' = [i \in Index |-> IF i \in length .. length + n - 1
                             THEN line[i - length + 1] ELSE buf[i]]
  /\ length' = length + n
  /\ off' = 0 /\ left' = length + n /\ pc' = "process"
  /\ UNCHANGED <<sent, noise, dispatched, split, fault>>

(* The assert of io_on_dataReceived.                                       *)
Overflow(n) ==
  /\ ~fault /\ pc = "idle" /\ n <= Len(line)
  /\ ~Fits(n)
  /\ fault' = TRUE
  /\ UNCHANGED <<sent, noise, line, buf, length, pc, off, left, dispatched, split>>

-----------------------------------------------------------------------------
(* processBuffer: one step is one pass of its loop.                        *)

Processing == ~fault /\ pc = "process"
HasHeader  == Header <= left
IsEvent    == buf[off] = Event
Size       == Header + buf[off + 2]

AnySize == TRUE          \* mutant
Shorter == Size < left   \* mutant
Full    == Size <= left

(* controller->length = length, and back to the read.                      *)
Leave(n) == length' = n /\ left' = n /\ off' = 0 /\ pc' = "idle"

(* A full packet: hand it to its handler and go on behind it.              *)
Dispatch ==
  /\ Processing /\ HasHeader /\ IsEvent /\ Full
  /\ dispatched' = Append(dispatched,
       [opcode |-> buf[off + 1], payload |-> [i \in 1 .. buf[off + 2] |-> buf[off + 2 + i]]])
  /\ off' = off + Size
  /\ left' = left - Size
  /\ UNCHANGED <<sent, noise, line, buf, length, pc, split, fault>>

NoMove    == buf         \* mutant
MoveFront == [i \in Index |-> IF i < left THEN buf[off + i] ELSE buf[i]]

(* An incomplete packet: memmove it to the front.                          *)
Incomplete ==
  /\ Processing /\ HasHeader /\ IsEvent /\ ~Full
  /\ buf' = MoveFront
  /\ Leave(left)
  /\ UNCHANGED <<sent, noise, line, dispatched, split, fault>>

(* Anything but an event: forget everything received.                      *)
Corrupt ==
  /\ Processing /\ HasHeader /\ ~IsEvent
  /\ buf' = [i \in Index |-> 0]
  /\ Leave(0)
  /\ UNCHANGED <<sent, noise, line, dispatched, split, fault>>

(* Less than a header: the loop ends, and nothing is moved.  Of two bytes  *)
(* the second is an opcode; behind other events it stays where no one will *)
(* look for it, and the opcode of the first of them is found in its place. *)
Partial ==
  /\ Processing /\ ~HasHeader
  /\ Leave(left)
  /\ split' = IF off > 0 /\ left = 2 THEN split \cup {Len(dispatched) + 1} ELSE split
  /\ UNCHANGED <<sent, noise, line, buf, dispatched, fault>>

-----------------------------------------------------------------------------
Process == Dispatch \/ Incomplete \/ Corrupt \/ Partial

(* Nothing left to send or to read, or the process is dead.                *)
Finished ==
  /\ fault \/ (pc = "idle" /\ line = <<>> /\ Len(sent) = MaxPackets)
  /\ UNCHANGED vars

Read == \E n \in 1 .. MaxChunk : Receive(n) \/ Overflow(n)

Next == SendEvent \/ SendNoise \/ Read \/ Process \/ Finished

Spec == Init /\ [][Next]_vars

(* The I/O thread runs, and a read completes when there are bytes.         *)
FairSpec == Spec /\ WF_vars(Read) /\ WF_vars(Process)

-----------------------------------------------------------------------------
(* processBuffer never looks behind the bytes received, and memcpy never   *)
(* writes behind the accumulator, whatever the bytes are and however many  *)
(* of them one read brings: the assert of io_on_dataReceived ends the      *)
(* process before.  It does so only when a read and the bytes held fill    *)
(* the accumulator, and on a clean line those held between two reads are   *)
(* never more than one event that is not yet whole.                        *)
InBounds ==
  /\ length < BufferSize
  /\ pc = "process" => off + left = length
  /\ fault => \E n \in 1 .. MaxChunk : n <= Len(line) /\ BufferSize <= length + n
  /\ (noise = 0 /\ pc = "idle" /\ length >= Header) =>
       /\ Len(dispatched) < Len(sent)
       /\ length < Header + Len(sent[Len(dispatched) + 1].payload)

(* The events dispatched are the first of the events sent: no way to cut   *)
(* the stream into reads loses or repeats one or alters its payload.  The  *)
(* opcode is the one that was sent, unless two bytes of the header stayed  *)
(* behind other events: then it may be that of an event dispatched before, *)
(* whose handler gets this payload.                                        *)
Framed ==
  noise = 0 =>
    /\ Len(dispatched) <= Len(sent)
    /\ \A i \in 1 .. Len(dispatched) :
         /\ dispatched[i].payload = sent[i].payload
         /\ \/ dispatched[i].opcode = sent[i].opcode
            \/ i \in split /\ \E j \in 1 .. i - 1 : dispatched[i].opcode = dispatched[j].opcode

(* Every event sent on a clean line is dispatched at last, unless the      *)
(* assert of io_on_dataReceived fails.                                     *)
EventsArrive ==
  \A n \in 1 .. MaxPackets : Len(sent) >= n ~> Len(dispatched) >= n \/ noise > 0 \/ fault
=============================================================================
