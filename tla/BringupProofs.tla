--------------------------- MODULE BringupProofs ---------------------------
(***************************************************************************)
(* Proofs about bringing a controller up, for every number of slots, calls *)
(* and lost or late answers.  As long as no Command Complete comes for no  *)
(* command the controller gets the commands of its own vendor only         *)
(* (VendorInv).  The slots are taken in order, so that the command in      *)
(* progress has the last one (OrderInv).  Unless a command takes the slot  *)
(* that was found for such an event, LB_OK means that the chip has         *)
(* executed the call's commands (DoneInv), and, if every answer arrives in *)
(* time too, no call ends the process (TableInv).                          *)
(***************************************************************************)
EXTENDS Bringup, SequenceTheorems, WellFoundedInduction, TLAPS

Maker == chip.maker

(* The vendor is known to be the right one ...                             *)
Known == vendor = Maker

(* ... wherever a command is that only this vendor has.                    *)
Proper(c) == c \in Standard \/ (Known /\ c \in CommandsOf(Maker))

ChipRecord == [maker : Chips, did : Seq(Commands), told : BOOLEAN, scanning : BOOLEAN]
HasSlot    == Preparing \cup {"wait"}
Commanding == {"next", "full"} \cup HasSlot
Handled    == {"complete", "vendorStatus", "nop"}

Shape ==
  /\ odd \in Nat /\ chip \in ChipRecord
  /\ vendor \in Vendors \cup {None}
  /\ todo \in Seq(Commands) /\ sent \in Seq(Commands) /\ events \in Seq(Events)
  /\ pc \in Commanding => todo # <<>>
  /\ ioPc # "idle" => events # <<>> /\ Head(events).kind \in Handled

(* The version, the manufacturer and the vendor are unknown or right.      *)
Truthful ==
  /\ version \in {None, Maker} /\ manufacturer \in {None, Maker} /\ vendor \in {None, Maker}

CommandsProper ==
  /\ \A i \in DOMAIN todo : Proper(todo[i])
  /\ \A i \in DOMAIN sent : Proper(sent[i])
  /\ \A i \in DOMAIN chip.did : chip.did[i] \in Standard \cup CommandsOf(Maker)

EventsProper ==
  /\ chip.scanning => Known
  /\ \A i \in DOMAIN events :
       \/ events[i].kind = "complete"
       \/ Known /\ events[i].kind \in {"vendorStatus", "found", "done"}
  /\ ~ignored

VendorInv == Shape /\ (odd = 0 => Truthful /\ CommandsProper /\ EventsProper)

-----------------------------------------------------------------------------
(* The sequences of commands, element by element.                          *)
LEMMA Joined ==
  LET p == <<"RESET", "READ_LOCAL_VERSION">>
      q == <<"RESET", "WRITE_CONFIG_DATA", "GATT_INIT">>
      t == <<"RESET", "READ_LOCAL_VERSION", "RESET", "WRITE_CONFIG_DATA", "GATT_INIT">>
  IN  p \o q = t /\ SubSeq(t, 3, 5) = q
<1> DEFINE p == <<"RESET", "READ_LOCAL_VERSION">>
           q == <<"RESET", "WRITE_CONFIG_DATA", "GATT_INIT">>
           t == <<"RESET", "READ_LOCAL_VERSION", "RESET", "WRITE_CONFIG_DATA", "GATT_INIT">>
<1>1. p \in Seq(Commands) /\ q \in Seq(Commands) /\ t \in Seq(Commands) /\ Len(p) = 2 /\ Len(q) = 3 /\ Len(t) = 5
  BY DEF Commands, Standard
<1>2. p[1] = t[1] /\ p[2] = t[2] /\ q[1] = t[3] /\ q[2] = t[4] /\ q[3] = t[5]
  OBVIOUS
<1> HIDE DEF p, q, t
<1>3. /\ p \o q \in Seq(Commands) /\ Len(p \o q) = 2 + 3
      /\ \A i \in 1 .. 2 + 3 : (p \o q)[i] = IF i <= 2 THEN p[i] ELSE q[i - 2]
  <2>1. /\ p \o q \in Seq(Commands) /\ Len(p \o q) = Len(p) + Len(q)
        /\ \A i \in 1 .. Len(p) + Len(q) : (p \o q)[i] = IF i <= Len(p) THEN p[i] ELSE q[i - Len(p)]
    BY <1>1, ConcatProperties, Zenon
  <2> QED BY <1>1, <2>1, Zenon
<1>4. p \o q = t
  <2> DEFINE r == p \o q
  <2> HIDE DEF r
  <2>1. r \in Seq(Commands) /\ Len(r) = 5 /\ \A i \in 1 .. 5 : r[i] = IF i <= 2 THEN p[i] ELSE q[i - 2]
    BY <1>3 DEF r
  <2>2. r[1] = p[1] /\ r[2] = p[2] /\ r[3] = q[1] /\ r[4] = q[2] /\ r[5] = q[3]
    BY <2>1
  <2>3. \A i \in 1 .. 5 : i = 1 \/ i = 2 \/ i = 3 \/ i = 4 \/ i = 5
    OBVIOUS
  <2>4. \A i \in 1 .. 5 : r[i] = t[i]
    BY <1>2, <2>2, <2>3
  <2> QED BY <1>1, <2>1, <2>4, SeqEqual DEF r
<1>5. SubSeq(t, 3, 5) = q
  <2>1. \A i \in 3 .. 5 : t[i] \in Commands
    <3>1. \A i \in 1 .. Len(t) : t[i] \in Commands
      BY <1>1, ElementOfSeq
    <3> QED BY <1>1, <3>1
  <2> DEFINE r == SubSeq(t, 3, 5)
  <2>2. r \in Seq(Commands) /\ Len(r) = 3 /\ \A i \in 1 .. 3 : r[i] = t[3 + i - 1]
    <3>1. /\ r \in Seq(Commands) /\ Len(r) = IF 3 <= 5 THEN 5 - 3 + 1 ELSE 0
          /\ \A i \in 1 .. 5 - 3 + 1 : r[i] = t[3 + i - 1]
      BY <2>1, SubSeqProperties
    <3> QED BY <3>1
  <2> HIDE DEF r
  <2>3. r[1] = t[3] /\ r[2] = t[4] /\ r[3] = t[5]
    BY <2>2
  <2>4. \A i \in 1 .. 3 : i = 1 \/ i = 2 \/ i = 3
    OBVIOUS
  <2>5. \A i \in 1 .. 3 : r[i] = q[i]
    BY <1>2, <2>3, <2>4
  <2> QED BY <1>1, <2>2, <2>5, SeqEqual DEF r
<1> QED BY <1>4, <1>5 DEF p, q, t

LEMMA CommonIs ==
  Common \in Seq(Commands) /\ Common # <<>> /\ Len(Common) = 2 /\ \A i \in DOMAIN Common : Common[i] \in Standard
BY DEF Common, Commands, Standard

LEMMA SequencesAre ==
  /\ Sequences.TI.init = Common
  /\ Sequences.ST.init = <<"RESET", "READ_LOCAL_VERSION", "RESET", "WRITE_CONFIG_DATA", "GATT_INIT">>
  /\ VendorSequence("TI") = <<>>
  /\ VendorSequence("ST") = <<"RESET", "WRITE_CONFIG_DATA", "GATT_INIT">>
<1> DEFINE t == <<"RESET", "READ_LOCAL_VERSION", "RESET", "WRITE_CONFIG_DATA", "GATT_INIT">>
<1>1. Sequences.TI.init = Common /\ Sequences.ST.init = Common \o <<"RESET", "WRITE_CONFIG_DATA", "GATT_INIT">>
  BY DEF Sequences
<1>2. Common = <<"RESET", "READ_LOCAL_VERSION">> /\ Len(Common) = 2 /\ Len(t) = 5
  BY DEF Common
<1>3. /\ <<"RESET", "READ_LOCAL_VERSION">> \o <<"RESET", "WRITE_CONFIG_DATA", "GATT_INIT">> = t
      /\ SubSeq(t, 3, 5) = <<"RESET", "WRITE_CONFIG_DATA", "GATT_INIT">>
  BY Joined
<1>4. Sequences.ST.init = t
  BY <1>1, <1>2, <1>3
<1>5. VendorSequence("TI") = <<>>
  <2>1. VendorSequence("TI") = SubSeq(Common, 3, 2)
    <3>1. VendorSequence("TI") = SubSeq(Sequences["TI"].init, Len(Common) + 1, Len(Sequences["TI"].init))
      BY DEF VendorSequence
    <3>2. Sequences["TI"].init = Common /\ Len(Common) + 1 = 3
      BY <1>1, <1>2
    <3> QED BY <1>2, <3>1, <3>2, Zenon
  <2> QED BY <2>1, SubSeqEmpty
<1>6. VendorSequence("ST") = <<"RESET", "WRITE_CONFIG_DATA", "GATT_INIT">>
  <2>1. VendorSequence("ST") = SubSeq(t, 3, 5)
    <3>1. VendorSequence("ST") = SubSeq(Sequences["ST"].init, Len(Common) + 1, Len(Sequences["ST"].init))
      BY DEF VendorSequence
    <3>2. Sequences["ST"].init = t /\ Len(Common) + 1 = 3
      BY <1>2, <1>4
    <3> QED BY <1>2, <3>1, <3>2, Zenon
  <2> QED BY <1>3, <2>1
<1> QED BY <1>1, <1>4, <1>5, <1>6

LEMMA SequencesTyped ==
  ASSUME NEW v \in Vendors, NEW c \in Calls
  PROVE  /\ Sequences[v][c] \in Seq(Commands) /\ Sequences[v][c] # <<>>
         /\ \A i \in DOMAIN Sequences[v][c] : Sequences[v][c][i] \in CommandsOf(v)
         /\ c # "init" => \A i \in DOMAIN Sequences[v][c] : Sequences[v][c][i] # "READ_LOCAL_VERSION"
<1>1. Sequences[v][c] \in
        {Common, <<"RESET", "READ_LOCAL_VERSION", "RESET", "WRITE_CONFIG_DATA", "GATT_INIT">>,
         <<"GAP_DEVICE_INIT">>, <<"GAP_DEVICE_DISC_REQ">>, <<"GAP_DEVICE_DISC_CANCEL">>,
         <<"GAP_INIT">>, <<"START_GENERAL_DISCOVERY_PROC">>, <<"TERMINATE_GAP_PROC">>}
  <2>1. CASE c = "init"
    BY <2>1, SequencesAre DEF Vendors
  <2>2. CASE c # "init"
    BY <2>2 DEF Vendors, Calls, Sequences
  <2> QED BY <2>1, <2>2
<1>2. Sequences[v][c] \in Seq(Commands) /\ Sequences[v][c] # <<>>
  <2>1. \A a \in Commands : <<a>> \in Seq(Commands) /\ <<a>> # <<>>
    OBVIOUS
  <2>2. /\ <<"RESET", "READ_LOCAL_VERSION", "RESET", "WRITE_CONFIG_DATA", "GATT_INIT">> \in Seq(Commands)
        /\ <<"RESET", "READ_LOCAL_VERSION", "RESET", "WRITE_CONFIG_DATA", "GATT_INIT">> # <<>>
    BY DEF Commands, Standard
  <2>3. {"GAP_DEVICE_INIT", "GAP_DEVICE_DISC_REQ", "GAP_DEVICE_DISC_CANCEL", "GAP_INIT",
         "START_GENERAL_DISCOVERY_PROC", "TERMINATE_GAP_PROC"} \subseteq Commands
    BY DEF Commands, Starting, Stopping
  <2> QED BY Zenon, <1>1, <2>1, <2>2, <2>3, CommonIs
<1>3. \A i \in DOMAIN Sequences[v][c] : Sequences[v][c][i] \in CommandsOf(v)
  <2>1. Range(Sequences[v][c]) \in {Range(Sequences[w][d]) : w \in Vendors \cap {v}, d \in Calls}
    OBVIOUS
  <2>2. Range(Sequences[v][c]) \subseteq CommandsOf(v)
    BY <2>1 DEF CommandsOf
  <2> QED BY Zenon, <2>2 DEF Range
<1>4. ASSUME c # "init" PROVE \A i \in DOMAIN Sequences[v][c] : Sequences[v][c][i] # "READ_LOCAL_VERSION"
  BY <1>4 DEF Vendors, Calls, Sequences
<1> QED BY <1>2, <1>3, <1>4

(* The vendor's part of lb_initializeHCI is the rest of the whole.         *)
LEMMA VendorSequenceTyped ==
  ASSUME NEW v \in Vendors
  PROVE  LET s == VendorSequence(v)
             t == Sequences[v].init
         IN  /\ s \in Seq(Commands)
             /\ \A i \in DOMAIN s : s[i] \in CommandsOf(v) /\ s[i] # "READ_LOCAL_VERSION"
             /\ Len(s) = Len(t) - 2 /\ (\A i \in 1 .. Len(s) : s[i] = t[2 + i]) /\ t[1] = Common[1] /\ t[2] = Common[2]
             /\ v = "TI" => t = Common
<1>1. \A i \in DOMAIN Sequences[v].init : Sequences[v].init[i] \in CommandsOf(v)
  BY SequencesTyped DEF Calls
<1>2. CASE v = "TI"
  <2>1. VendorSequence(v) = <<>> /\ Sequences[v].init = Common
    BY <1>2, SequencesAre
  <2>2. Len(<<>>) = 0 /\ DOMAIN <<>> = {} /\ <<>> \in Seq(Commands) /\ 1 .. 0 = {}
    OBVIOUS
  <2> QED BY <2>1, <2>2, CommonIs
<1>3. CASE v = "ST"
  <2> DEFINE s == <<"RESET", "WRITE_CONFIG_DATA", "GATT_INIT">>
             t == <<"RESET", "READ_LOCAL_VERSION", "RESET", "WRITE_CONFIG_DATA", "GATT_INIT">>
  <2>1. s \in Seq(Commands) /\ \A i \in DOMAIN s : s[i] # "READ_LOCAL_VERSION"
    BY DEF Commands, Standard
  <2>2. /\ DOMAIN s = 1 .. 3 /\ Len(s) = 3 /\ Len(t) = 5 /\ 3 = 5 - 2 /\ DOMAIN t = 1 .. 5
        /\ t[1] = Common[1] /\ t[2] = Common[2]
        /\ \A i \in 1 .. 3 : s[i] = t[2 + i] /\ 2 + i \in 1 .. 5
    BY DEF Common
  <2>3. VendorSequence(v) = s /\ Sequences[v].init = t /\ v # "TI"
    BY <1>3, SequencesAre
  <2> HIDE DEF s, t
  <2>4. \A i \in DOMAIN s : s[i] \in CommandsOf(v)
    BY <1>1, <2>2, <2>3
  <2> QED BY <2>1, <2>2, <2>3, <2>4
<1> QED BY <1>2, <1>3 DEF Vendors

(* The rest of a sequence has its elements.                                *)
LEMMA TailElements ==
  ASSUME NEW S, NEW s \in Seq(S), s # <<>>
  PROVE  /\ Head(s) = s[1] /\ 1 \in DOMAIN s
         /\ Tail(s) \in Seq(S)
         /\ \A i \in DOMAIN Tail(s) : i + 1 \in DOMAIN s /\ Tail(s)[i] = s[i + 1]
OBVIOUS

(* A longer sequence has one element more, and it begins like the other.   *)
LEMMA AppendElements ==
  ASSUME NEW S, NEW s \in Seq(S), NEW x \in S
  PROVE  /\ Append(s, x) \in Seq(S) /\ Append(s, x) # <<>>
         /\ \A i \in DOMAIN Append(s, x) : (i \in DOMAIN s /\ Append(s, x)[i] = s[i]) \/ Append(s, x)[i] = x
         /\ s # <<>> => Head(Append(s, x)) = Head(s)
OBVIOUS

-----------------------------------------------------------------------------
LEMMA InitVendorInv == Init => VendorInv
<1> SUFFICES ASSUME Init PROVE VendorInv
  OBVIOUS
<1> USE DEF Init
<1>1. Shape
  BY DEF Shape, Vendors, ChipRecord, Commanding, HasSlot, Preparing
<1>2. Truthful /\ CommandsProper /\ EventsProper
  BY DEF Truthful, CommandsProper, EventsProper
<1> QED BY <1>1, <1>2 DEF VendorInv

(* The steps of the application that send nothing and read nothing keep    *)
(* the rest of the invariant, if the commands that are left are proper.    *)
LEMMA TodoStep ==
  ASSUME VendorInv,
         UNCHANGED <<version, manufacturer, vendor, sent, events, ioPc, ignored, odd>>,
         chip' \in {chip, [chip EXCEPT !.did = <<>>]},
         todo' \in Seq(Commands), pc' \in Commanding => todo' # <<>>,
         odd = 0 => \A i \in DOMAIN todo' : Proper(todo'[i])
  PROVE  VendorInv'
<1>1. /\ chip \in ChipRecord /\ chip' \in ChipRecord /\ Maker' = Maker /\ chip'.scanning = chip.scanning
      /\ chip'.did \in {chip.did, <<>>}
  <2>1. chip \in ChipRecord /\ <<>> \in Seq(Commands)
    BY DEF VendorInv, Shape
  <2> QED BY <2>1 DEF ChipRecord, Maker
<1>2. Shape'
  BY <1>1 DEF VendorInv, Shape
<1>3. ASSUME odd' = 0 PROVE Truthful' /\ CommandsProper' /\ EventsProper'
  <2>1. Truthful /\ CommandsProper /\ EventsProper /\ \A i \in DOMAIN todo' : Proper(todo'[i])
    BY <1>3 DEF VendorInv
  <2>2. Known' = Known /\ \A c : Proper(c)' = Proper(c)
    BY <1>1 DEF Proper, Known
  <2>3. CommandsProper'
    <3>1. \A i \in DOMAIN chip'.did : chip'.did[i] \in Standard \cup CommandsOf(Maker)
      BY <1>1, <2>1 DEF CommandsProper
    <3>2. \A i \in DOMAIN sent' : Proper(sent'[i])
      BY <2>1 DEF CommandsProper
    <3>3. (\A i \in DOMAIN todo : Proper(todo[i]))' /\ (\A i \in DOMAIN sent : Proper(sent[i]))'
      BY <1>1, <2>1, <3>2 DEF Proper, Known
    <3> QED BY <1>1, <3>1, <3>3 DEF CommandsProper
  <2> QED BY <1>1, <2>1, <2>2, <2>3 DEF Truthful, EventsProper
<1> QED BY <1>2, <1>3 DEF VendorInv

LEMMA BeginKeeps == ASSUME VendorInv, NEW c \in Calls, Begin(c) PROVE VendorInv'
<1>1. /\ UNCHANGED <<version, manufacturer, vendor, sent, events, ioPc, ignored, odd>>
      /\ chip' \in {chip, [chip EXCEPT !.did = <<>>]}
  BY DEF Begin, ctlVars, bounded, ioVars
<1>2. CASE c = "init"
  <2>1. todo' = Common
    BY <1>2 DEF Begin
  <2> QED BY <1>1, <2>1, CommonIs, TodoStep DEF Proper
<1>3. CASE c # "init" /\ vendor = None
  <2>1. todo' = <<>> /\ pc' = "idle"
    BY <1>3 DEF Begin, Return
  <2>2. todo' \in Seq(Commands) /\ pc' \notin Commanding /\ DOMAIN todo' = {}
    BY <2>1 DEF Commanding, HasSlot, Preparing
  <2> QED BY <1>1, <2>2, TodoStep
<1>4. CASE c # "init" /\ vendor # None
  <2>1. todo' = Sequences[vendor][c]
    BY <1>4 DEF Begin
  <2>2. vendor \in Vendors
    BY <1>4 DEF VendorInv, Shape
  <2>3. odd = 0 => \A i \in DOMAIN todo' : Proper(todo'[i])
    BY <1>4, <2>1, <2>2, SequencesTyped DEF VendorInv, Truthful, Proper, Known
  <2> QED BY <1>1, <2>1, <2>2, <2>3, SequencesTyped, TodoStep
<1> QED BY <1>2, <1>3, <1>4

(* The steps from the reservation of a slot up to the command's sending.   *)
LEMMA PrepareKeeps ==
  ASSUME VendorInv, Reserve \/ ResetSlot \/ SetCapacity \/ SetBuffer \/ SetBusy
  PROVE  VendorInv'
<1>1. UNCHANGED <<todo, version, manufacturer, vendor, chip, sent, events, ioPc, ignored, odd>>
  BY DEF Reserve, ResetSlot, SetCapacity, SetBuffer, SetBusy, OnlySlots, ctlVars, ioVars, bounded
<1>2. pc \in Commanding
  BY DEF Reserve, ResetSlot, SetCapacity, SetBuffer, SetBusy, At, Commanding, HasSlot, Preparing
<1>3. /\ todo \in Seq(Commands) /\ todo # <<>>
      /\ odd = 0 => \A i \in DOMAIN todo : Proper(todo[i])
  BY <1>2 DEF VendorInv, Shape, CommandsProper
<1> QED BY <1>1, <1>3, TodoStep

LEMMA TransmitKeeps == ASSUME VendorInv, Transmit \/ TransmitAnyway PROVE VendorInv'
<1> DEFINE c == Head(todo)
<1>1. todo \in Seq(Commands) /\ todo # <<>> /\ sent \in Seq(Commands)
  BY DEF VendorInv, Shape, Transmit, TransmitAnyway, At, Commanding, HasSlot, Preparing
<1>2. /\ c \in Commands /\ sent' = Append(sent, c)
      /\ UNCHANGED <<todo, version, manufacturer, vendor, chip, events, ioPc, ignored, odd>>
  BY <1>1 DEF Transmit, TransmitAnyway, appVars, ctlVars, ioVars, bounded
<1>3. Shape'
  BY <1>1, <1>2, AppendElements DEF VendorInv, Shape
<1>4. ASSUME odd' = 0 PROVE Truthful' /\ CommandsProper' /\ EventsProper'
  <2>1. Truthful /\ CommandsProper /\ EventsProper
    BY <1>2, <1>4 DEF VendorInv
  <2>2. Proper(c)
    BY <1>1, <2>1, TailElements DEF CommandsProper
  <2>3. \A i \in DOMAIN sent' : Proper(sent'[i])
    BY <1>1, <1>2, <2>1, <2>2, AppendElements DEF CommandsProper
  <2> QED BY <1>2, <2>1, <2>3 DEF Truthful, CommandsProper, EventsProper, Proper, Known, Maker
<1> QED BY <1>3, <1>4 DEF VendorInv

(* The next command, the choice of the vendor or the end of the call: what *)
(* is left was left before.                                                *)
LEMMA ProceedKeeps ==
  ASSUME VendorInv, NEW c, NEW ok, pc = "wait", Proceed(c, ok),
         UNCHANGED <<version, manufacturer, vendor, chip, sent, events, ioPc, ignored, odd>>
  PROVE  VendorInv'
<1>1. todo \in Seq(Commands) /\ todo # <<>>
  BY DEF VendorInv, Shape, Commanding, HasSlot
<1>2. CASE todo' = Tail(todo)
  <2>1. todo' \in Seq(Commands)
    BY <1>1, <1>2, TailElements
  <2>2. odd = 0 => \A i \in DOMAIN todo' : Proper(todo'[i])
    BY <1>1, <1>2, TailElements DEF VendorInv, CommandsProper
  <2>3. pc' \in Commanding => todo' # <<>>
    BY DEF Proceed, Succeeded, Commanding, HasSlot, Preparing
  <2> QED BY <2>1, <2>2, <2>3, TodoStep
<1>3. CASE todo' = <<>> /\ pc' \in {"idle", "select"}
  <2>1. todo' \in Seq(Commands) /\ pc' \notin Commanding /\ DOMAIN todo' = {}
    BY <1>3 DEF Commanding, HasSlot, Preparing
  <2> QED BY <2>1, TodoStep
<1> QED BY <1>2, <1>3 DEF Proceed, Succeeded

LEMMA SelectKeeps == ASSUME VendorInv, Select PROVE VendorInv'
<1>1. vendor' = Selected /\ UNCHANGED <<version, manufacturer, chip, sent, events, ioPc, ignored, odd>>
  BY DEF Select, bounded, ioVars
<1>2. vendor' \in Vendors \cup {None}
  BY <1>1 DEF VendorInv, Shape, Selected
<1>3. \/ todo' = <<>> /\ pc' = "idle"
      \/ vendor' \in Vendors /\ todo' = VendorSequence(vendor') /\ todo' # <<>>
  BY DEF Select, Return
<1>4. todo' \in Seq(Commands) /\ (pc' \in Commanding => todo' # <<>>)
  <2>1. CASE todo' = <<>> /\ pc' = "idle"
    BY <2>1 DEF Commanding, HasSlot, Preparing
  <2>2. CASE vendor' \in Vendors /\ todo' = VendorSequence(vendor') /\ todo' # <<>>
    BY <2>2, VendorSequenceTyped
  <2> QED BY <1>3, <2>1, <2>2
<1>5. Shape'
  BY <1>1, <1>2, <1>4 DEF VendorInv, Shape
<1>6. ASSUME odd' = 0 PROVE Truthful' /\ CommandsProper' /\ EventsProper'
  <2>1. Truthful /\ CommandsProper /\ EventsProper
    BY <1>1, <1>6 DEF VendorInv
  <2>2. vendor' \in {None, Maker} /\ (Known => Known')
    BY <1>1, <2>1, NoneAssumption DEF VendorInv, Shape, Truthful, Selected, Known, Maker, Vendors
  <2>3. Truthful'
    BY <1>1, <2>1, <2>2 DEF Truthful, Maker
  <2>4. (\A i \in DOMAIN todo : Proper(todo[i]))'
    <3>1. CASE todo' = <<>>
      BY <3>1
    <3>2. CASE vendor' \in Vendors /\ todo' = VendorSequence(vendor')
      <4>1. Known'
        BY <1>1, <2>2, <3>2, NoneAssumption DEF Known, Maker, Vendors
      <4>2. \A i \in DOMAIN todo' : todo'[i] \in CommandsOf(vendor')
        BY <3>2, VendorSequenceTyped
      <4> QED BY <4>1, <4>2 DEF Proper, Known
    <3> QED BY <1>3, <3>1, <3>2
  <2>5. CommandsProper'
    <3>1. \A d : Proper(d) => Proper(d)'
      BY <1>1, <2>2 DEF Proper, Maker
    <3>2. (\A i \in DOMAIN sent : Proper(sent[i]))'
      BY <1>1, <2>1, <3>1 DEF CommandsProper
    <3> QED BY <1>1, <2>1, <2>4, <3>2 DEF CommandsProper, Maker
  <2>6. EventsProper'
    BY <1>1, <2>1, <2>2 DEF EventsProper
  <2> QED BY <2>3, <2>5, <2>6
<1> QED BY <1>5, <1>6 DEF VendorInv

LEMMA AppKeeps == ASSUME VendorInv, AppStep PROVE VendorInv'
<1>1. CASE Reserve \/ ResetSlot \/ SetCapacity \/ SetBuffer \/ SetBusy
  BY <1>1, PrepareKeeps
<1>2. CASE Transmit \/ TransmitAnyway
  BY <1>2, TransmitKeeps
<1>3. CASE Answered
  BY <1>3, ProceedKeeps DEF Answered, At, ctlVars, ioVars, bounded
<1>4. CASE TimedOut
  BY <1>4, ProceedKeeps DEF TimedOut, At, ctlVars, ioVars
<1>5. CASE ReadVersion
  <2>1. Shape'
    BY <1>5 DEF ReadVersion, VendorInv, Shape, bounded, ioVars, Commanding, HasSlot, Preparing
  <2>2. odd' = 0 => Truthful' /\ CommandsProper' /\ EventsProper'
    BY <1>5 DEF ReadVersion, VendorInv, Truthful, CommandsProper, EventsProper, Proper, Known, Maker, bounded
  <2> QED BY <2>1, <2>2 DEF VendorInv
<1>6. CASE Select
  BY <1>6, SelectKeeps
<1> QED BY <1>1, <1>2, <1>3, <1>4, <1>5, <1>6 DEF AppStep

-----------------------------------------------------------------------------
(* What a command does to the chip.                                        *)
LEMMA ExecutedIs ==
  ASSUME chip \in ChipRecord, NEW c \in Commands
  PROVE  /\ Executed(c) \in ChipRecord /\ Executed(c).maker = Maker
         /\ Executed(c).did = Append(chip.did, c)
         /\ Executed(c).told = (chip.told \/ c = "READ_LOCAL_VERSION")
         /\ Executed(c).scanning => chip.scanning \/ c \in Starting
<1>1. Append(chip.did, c) \in Seq(Commands) /\ chip.told \in BOOLEAN /\ chip.scanning \in BOOLEAN
  BY DEF ChipRecord
<1> DEFINE b == (c \in Starting) \/ (chip.scanning /\ c \notin Stopping \cup {"RESET"})
           t == chip.told \/ c = "READ_LOCAL_VERSION"
<1>2. Executed(c) = [chip EXCEPT !.did = Append(chip.did, c), !.told = t, !.scanning = b]
  BY DEF Executed
<1>3. b \in BOOLEAN /\ t \in BOOLEAN /\ (b => chip.scanning \/ c \in Starting)
  OBVIOUS
<1> HIDE DEF b, t
<1>4. /\ Executed(c) \in ChipRecord /\ Executed(c).maker = chip.maker
      /\ Executed(c).did = Append(chip.did, c) /\ Executed(c).told = t /\ Executed(c).scanning = b
  <2> DEFINE d == Append(chip.did, c)
             q == [chip EXCEPT !.did = d, !.told = t, !.scanning = b]
  <2>1. chip \in ChipRecord /\ d \in Seq(Commands) /\ b \in BOOLEAN /\ t \in BOOLEAN
    BY <1>1, <1>3
  <2>2. q \in ChipRecord /\ q.maker = chip.maker /\ q.did = d /\ q.told = t /\ q.scanning = b
    <3> HIDE DEF d
    <3> QED BY <2>1 DEF ChipRecord
  <2> HIDE DEF q
  <2>3. Executed(c) = q
    BY <1>2 DEF q
  <2> QED BY <2>2, <2>3
<1> QED BY <1>3, <1>4 DEF Maker, t

(* The events that a chip which executes or refuses a command adds.        *)
LEMMA ServedEvents ==
  ASSUME events \in Seq(Events), NEW c \in Commands,
         \/ events' = Append(events, Answer(c, "ok")) \o Done(c)
         \/ events' = Append(events, Answer(c, "error"))
         \/ events' = events
  PROVE  /\ events' \in Seq(Events)
         /\ events # <<>> => events' # <<>> /\ Head(events') = Head(events)
         /\ \A i \in DOMAIN events' :
              \/ i \in DOMAIN events /\ events'[i] = events[i]
              \/ events'[i].kind = "complete"
              \/ events'[i].kind = "vendorStatus" /\ c \notin Standard
              \/ events'[i].kind = "done" /\ chip.scanning
<1>1. \A code \in {"ok", "error"} :
        /\ Answer(c, code) \in Events
        /\ Answer(c, code).kind = "complete" \/ (Answer(c, code).kind = "vendorStatus" /\ c \notin Standard)
  BY DEF Answer, Events
<1>2. Done(c) = <<>> \/ (Done(c) = <<Event("done")>> /\ chip.scanning)
  BY DEF Done
<1>3. Event("done") \in Events /\ Event("done").kind = "done"
  BY DEF Event, Events
<1>4. \A code \in {"ok", "error"} : Append(events, Answer(c, code)) \in Seq(Events)
  BY <1>1, AppendElements
<1>5. CASE events' = Append(events, Answer(c, "ok")) \o Done(c)
  <2>1. CASE Done(c) = <<>>
    <3>1. events' = Append(events, Answer(c, "ok"))
      BY <1>4, <1>5, <2>1
    <3> QED BY <1>1, <3>1, AppendElements
  <2>2. CASE Done(c) = <<Event("done")>> /\ chip.scanning
    <3> DEFINE q == Append(events, Answer(c, "ok"))
    <3>1. events' = Append(q, Event("done"))
      BY <1>3, <1>4, <1>5, <2>2, AppendIsConcat
    <3>2. /\ q \in Seq(Events) /\ q # <<>> /\ (events # <<>> => Head(q) = Head(events))
          /\ \A i \in DOMAIN q : \/ i \in DOMAIN events /\ q[i] = events[i]
                                 \/ q[i].kind = "complete"
                                 \/ q[i].kind = "vendorStatus" /\ c \notin Standard
      BY <1>1, AppendElements
    <3> HIDE DEF q
    <3>3. /\ Append(q, Event("done")) \in Seq(Events) /\ Append(q, Event("done")) # <<>>
          /\ Head(Append(q, Event("done"))) = Head(q)
          /\ \A i \in DOMAIN Append(q, Event("done")) :
               \/ i \in DOMAIN q /\ Append(q, Event("done"))[i] = q[i]
               \/ Append(q, Event("done"))[i] = Event("done")
      BY <1>3, <3>2, AppendElements
    <3>4. \A i \in DOMAIN events' : (i \in DOMAIN q /\ events'[i] = q[i]) \/ events'[i] = Event("done")
      BY <3>1, <3>3, Zenon
    <3> QED BY <1>3, <2>2, <3>1, <3>2, <3>3, <3>4
  <2> QED BY <1>2, <2>1, <2>2
<1>6. CASE events' = Append(events, Answer(c, "error"))
  BY <1>1, <1>6, AppendElements
<1>7. CASE events' = events
  BY <1>7
<1> QED BY <1>5, <1>6, <1>7

(* What a chip that executes or refuses a command puts on the line.        *)
LEMMA ServeKeeps == ASSUME VendorInv, Serve PROVE VendorInv'
<1> DEFINE c == Head(sent)
<1>1. sent \in Seq(Commands) /\ sent # <<>> /\ events \in Seq(Events) /\ chip \in ChipRecord
  BY DEF VendorInv, Shape, Serve
<1>2. /\ c \in Commands /\ sent' = Tail(sent)
      /\ UNCHANGED <<pc, todo, version, manufacturer, vendor, ioPc, ignored, odd>>
  BY <1>1 DEF Serve, appVars, ctlVars, ioVars
<1>3. /\ chip' \in {chip, Executed(c)}
      /\ \/ events' = Append(events, Answer(c, "ok")) \o Done(c)
         \/ events' = Append(events, Answer(c, "error"))
         \/ events' = events
  BY DEF Serve
<1>4. /\ events' \in Seq(Events)
      /\ events # <<>> => events' # <<>> /\ Head(events') = Head(events)
      /\ \A i \in DOMAIN events' :
           \/ i \in DOMAIN events /\ events'[i] = events[i]
           \/ events'[i].kind = "complete"
           \/ events'[i].kind = "vendorStatus" /\ c \notin Standard
           \/ events'[i].kind = "done" /\ chip.scanning
  BY <1>1, <1>2, <1>3, ServedEvents
<1>5. /\ Executed(c) \in ChipRecord /\ Executed(c).maker = Maker
      /\ Executed(c).did = Append(chip.did, c)
      /\ Executed(c).scanning => chip.scanning \/ c \in Starting
  BY <1>1, <1>2, ExecutedIs
<1>6. chip' \in ChipRecord /\ Maker' = Maker
  BY <1>1, <1>3, <1>5 DEF Maker
<1>7. Shape'
  <2>1. sent' \in Seq(Commands)
    BY <1>1, <1>2, TailElements
  <2> QED BY <1>2, <1>4, <1>6, <2>1 DEF VendorInv, Shape
<1>8. ASSUME odd' = 0 PROVE Truthful' /\ CommandsProper' /\ EventsProper'
  <2>1. Truthful /\ CommandsProper /\ EventsProper
    BY <1>2, <1>8 DEF VendorInv
  <2>2. Proper(c)
    BY <1>1, <2>1, TailElements DEF CommandsProper
  <2>3. Known' = Known
    BY <1>2, <1>6 DEF Known
  <2>4. Truthful'
    BY <1>2, <1>6, <2>1 DEF Truthful
  <2>5. CommandsProper'
    <3>1. \A i \in DOMAIN sent' : Proper(sent'[i])
      BY <1>1, <1>2, <2>1, TailElements DEF CommandsProper
    <3>2. c \in Standard \cup CommandsOf(Maker)
      BY <2>2 DEF Proper
    <3>3. \A i \in DOMAIN chip'.did : chip'.did[i] \in Standard \cup CommandsOf(Maker)
      <4>1. CASE chip' = chip
        BY <2>1, <4>1 DEF CommandsProper
      <4>2. CASE chip'.did = Append(chip.did, c)
        <5>1. chip.did \in Seq(Commands)
          BY <1>1 DEF ChipRecord
        <5>2. \A i \in DOMAIN Append(chip.did, c) :
                (i \in DOMAIN chip.did /\ Append(chip.did, c)[i] = chip.did[i]) \/ Append(chip.did, c)[i] = c
          BY <1>2, <5>1, AppendElements
        <5> QED BY Zenon, <2>1, <3>2, <4>2, <5>2 DEF CommandsProper
      <4> QED BY <1>3, <1>5, <4>1, <4>2
    <3> QED BY <1>2, <1>6, <2>1, <2>3, <3>1, <3>3 DEF CommandsProper, Proper
  <2>6. EventsProper'
    <3>1. c \notin Standard => Known
      BY <2>2 DEF Proper
    <3>2. c \in Starting => Known
      BY <3>1 DEF Starting, Standard
    <3>3. chip'.scanning => Known
      BY <1>3, <1>5, <2>1, <3>2 DEF EventsProper
    <3>4. \A i \in DOMAIN events' :
             events'[i].kind = "complete" \/ (Known /\ events'[i].kind \in {"vendorStatus", "found", "done"})
      BY <1>4, <2>1, <3>1 DEF EventsProper
    <3> QED BY <1>2, <2>1, <2>3, <3>3, <3>4 DEF EventsProper
  <2> QED BY <2>4, <2>5, <2>6
<1> QED BY <1>7, <1>8 DEF VendorInv

(* A scan finds devices and ends: only after its vendor's command.         *)
LEMMA ScanKeeps == ASSUME VendorInv, Scan PROVE VendorInv'
<1>1. /\ UNCHANGED <<pc, todo, version, manufacturer, vendor, sent, ioPc, ignored, odd>>
      /\ \E k \in {"found", "done"} : events' = Append(events, Event(k))
      /\ chip' \in {chip, [chip EXCEPT !.scanning = FALSE]} /\ chip.scanning
  BY DEF Scan, bounded, appVars, ctlVars, ioVars
<1>2. events \in Seq(Events) /\ chip \in ChipRecord
  BY DEF VendorInv, Shape
<1>3. PICK k \in {"found", "done"} : events' = Append(events, Event(k))
  BY <1>1
<1>4. Event(k) \in Events /\ Event(k).kind = k
  BY DEF Event, Events
<1>5. /\ events' \in Seq(Events) /\ events' # <<>> /\ (events # <<>> => Head(events') = Head(events))
      /\ \A i \in DOMAIN events' : (i \in DOMAIN events /\ events'[i] = events[i]) \/ events'[i] = Event(k)
  BY <1>2, <1>3, <1>4, AppendElements
<1>6. chip' \in ChipRecord /\ chip'.did = chip.did /\ Maker' = Maker
  BY <1>1, <1>2 DEF Maker, ChipRecord
<1>7. Shape'
  BY <1>1, <1>5, <1>6 DEF VendorInv, Shape
<1>8. ASSUME odd' = 0 PROVE Truthful' /\ CommandsProper' /\ EventsProper'
  <2>1. Truthful /\ CommandsProper /\ EventsProper /\ Known
    BY <1>1, <1>8 DEF VendorInv, EventsProper
  <2>2. Known' /\ Truthful'
    BY <1>1, <1>6, <2>1 DEF Known, Truthful
  <2>3. CommandsProper'
    BY <1>1, <1>6, <2>1 DEF CommandsProper, Proper, Known
  <2>4. EventsProper'
    BY <1>1, <1>4, <1>5, <2>1, <2>2 DEF EventsProper
  <2> QED BY <2>2, <2>3, <2>4
<1> QED BY <1>7, <1>8 DEF VendorInv

(* After an event that nobody asked for, the rest is about nothing.        *)
LEMMA OddKeeps == ASSUME VendorInv, Odd PROVE VendorInv'
<1>1. PICK k \in {"meta", "nop"} : events' = Append(events, Event(k))
  BY DEF Odd
<1>2. Event(k) \in Events
  BY DEF Event, Events
<1>3. Shape'
  BY <1>1, <1>2, AppendElements DEF Odd, VendorInv, Shape, appVars, ctlVars, ioVars
<1>4. odd' # 0
  BY DEF Odd, VendorInv, Shape
<1> QED BY <1>3, <1>4 DEF VendorInv

(* The vendor's events meet the vendor's handler.                          *)
LEMMA HandleKeeps == ASSUME VendorInv, Handle PROVE VendorInv'
<1> DEFINE e == Head(events)
<1>1. events \in Seq(Events) /\ events # <<>>
  BY DEF VendorInv, Shape, Handle
<1>2. /\ UNCHANGED <<pc, todo, version, manufacturer, vendor, chip, sent, odd>>
      /\ \/ IsAnswer(e) /\ UNCHANGED <<events, ignored>>
         \/ e.kind = "meta" /\ UNCHANGED <<ioPc, ignored>> /\ events' = Tail(events)
         \/ ~IsAnswer(e) /\ UNCHANGED ioPc /\ events' = Tail(events) /\ ignored' = (ignored \/ vendor # Maker)
      /\ ioPc = "idle"
  BY DEF Handle, appVars, ctlVars, bounded, Maker
<1>3. Shape'
  <2>1. IsAnswer(e) => e.kind \in Handled
    BY DEF IsAnswer, Handled
  <2>2. events' \in Seq(Events) /\ (ioPc' # "idle" => events' # <<>> /\ Head(events').kind \in Handled)
    BY <1>1, <1>2, <2>1, TailElements
  <2> QED BY <1>2, <2>2 DEF VendorInv, Shape
<1>4. ASSUME odd' = 0 PROVE Truthful' /\ CommandsProper' /\ EventsProper'
  <2>1. Truthful /\ CommandsProper /\ EventsProper
    BY <1>2, <1>4 DEF VendorInv
  <2>2. e.kind = "complete" \/ (Known /\ e.kind \in {"vendorStatus", "found", "done"})
    BY <1>1, <2>1, TailElements DEF EventsProper
  <2>3. ~ignored'
    <3>1. ~ignored
      BY <2>1 DEF EventsProper
    <3>2. CASE e.kind = "complete"
      BY <1>2, <3>1, <3>2 DEF IsAnswer
    <3>3. CASE vendor = Maker
      BY Zenon, <1>2, <3>1, <3>3
    <3> QED BY <2>2, <3>2, <3>3 DEF Known
  <2>4. Truthful' /\ Known' = Known
    BY <1>2, <2>1 DEF Truthful, Known, Maker
  <2>5. CommandsProper'
    BY <1>2, <2>1 DEF CommandsProper, Proper, Known, Maker
  <2>6. EventsProper'
    BY <1>1, <1>2, <2>1, <2>3, <2>4, TailElements DEF EventsProper
  <2> QED BY <2>4, <2>5, <2>6
<1> QED BY <1>3, <1>4 DEF VendorInv

(* The I/O thread reads the version from the chip's own answer.            *)
LEMMA SignalKeeps ==
  ASSUME VendorInv, ScanSlot \/ ClipLength \/ CopyResult \/ SetStatus \/ SignalSlot
  PROVE  VendorInv'
<1>1. /\ UNCHANGED <<pc, todo, manufacturer, vendor, chip, sent, ignored, odd>>
      /\ ioPc # "idle"
      /\ \/ UNCHANGED events
         \/ events' = Tail(events) /\ ioPc' = "idle"
      /\ version' = version \/ version' \in Results(Head(events))
  BY DEF ScanSlot, ClipLength, CopyResult, SetStatus, SignalSlot, appVars, ctlVars, bounded
<1>2. events \in Seq(Events) /\ events # <<>>
  BY <1>1 DEF VendorInv, Shape
<1>3. Shape'
  BY <1>1, <1>2, TailElements DEF VendorInv, Shape
<1>4. ASSUME odd' = 0 PROVE Truthful' /\ CommandsProper' /\ EventsProper'
  <2>1. Truthful /\ CommandsProper /\ EventsProper
    BY <1>1, <1>4 DEF VendorInv
  <2>2. Head(events).kind # "nop"
    BY <1>2, <2>1, TailElements DEF EventsProper
  <2>3. version' \in {version, Maker}
    BY <1>1, <2>2 DEF Results, Maker
  <2>4. Truthful' /\ Known' = Known
    BY <1>1, <2>1, <2>3 DEF Truthful, Known, Maker
  <2>5. CommandsProper'
    BY <1>1, <2>1 DEF CommandsProper, Proper, Known, Maker
  <2>6. EventsProper'
    BY <1>1, <1>2, <2>1, <2>4, TailElements DEF EventsProper
  <2> QED BY <2>4, <2>5, <2>6
<1> QED BY <1>3, <1>4 DEF VendorInv

LEMMA VendorInvInductive == VendorInv /\ [Next]_vars => VendorInv'
<1> SUFFICES ASSUME VendorInv, [Next]_vars PROVE VendorInv'
  OBVIOUS
<1>1. CASE \E c \in Calls : Begin(c)
  BY <1>1, BeginKeeps
<1>2. CASE AppStep
  BY <1>2, AppKeeps
<1>3. CASE Serve
  BY <1>3, ServeKeeps
<1>4. CASE Scan
  BY <1>4, ScanKeeps
<1>5. CASE Odd
  BY <1>5, OddKeeps
<1>6. CASE IoStep
  BY <1>6, HandleKeeps, SignalKeeps DEF IoStep
<1>7. CASE UNCHANGED vars
  BY <1>7 DEF vars, appVars, ctlVars, ioVars, bounded, VendorInv, Shape, Truthful, CommandsProper, EventsProper,
              Proper, Known, Maker
<1> QED BY <1>1, <1>2, <1>3, <1>4, <1>5, <1>6, <1>7 DEF Next, Finished

LEMMA VendorInvHolds == Spec => []VendorInv
BY InitVendorInv, VendorInvInductive, PTL DEF Spec

(* For every number of slots and calls and whatever is refused, lost or    *)
(* late: without a Command Complete for no command, lb_initializeHCI       *)
(* chooses the vendor of the chip or none, the chip gets no command of     *)
(* another vendor, and none of its events meets the wrong handler.         *)
THEOREM TheVendorIsRight == Spec => []RightVendor
<1>1. VendorInv => RightVendor
  BY Zenon DEF VendorInv, Truthful, CommandsProper, EventsProper, RightVendor, Maker
<1> QED BY <1>1, VendorInvHolds, PTL

-----------------------------------------------------------------------------
(* Types.  Every set of natural numbers that is not empty has a least      *)
(* element, so the first free slot is one.                                 *)

(* The least element of a set of slots that has one.                       *)
LEMMA MinIsLeast ==
  ASSUME NEW S \in SUBSET Nat, NEW m \in S, \A x \in S : m <= x
  PROVE  Min(S) = m
<1>1. Min(S) \in S /\ \A x \in S : Min(S) <= x
  BY DEF Min
<1>2. Min(S) \in Nat /\ m \in Nat /\ Min(S) <= m /\ m <= Min(S)
  BY <1>1
<1> QED BY <1>2

LEMMA Least ==
  ASSUME NEW T \in SUBSET Nat, T # {}
  PROVE  \E m \in T : \A n \in T : m <= n
<1> DEFINE R == OpToRel(<, Nat)
<1>1. IsWellFoundedOn(R, Nat)
  BY NatLessThanWellFounded
<1>2. PICK m \in T : \A n \in T : ~(<<n, m>> \in R)
  <2> HIDE DEF R
  <2> QED BY <1>1, WFMin
<1>3. \A n \in T : ~(n < m)
  BY <1>2 DEF OpToRel
<1> QED BY <1>3

LEMMA FirstSlot ==
  ASSUME NEW S \in SUBSET Slots, S # {}
  PROVE  Min(S) \in S /\ \A s \in S : Min(S) <= s
<1>1. S \in SUBSET Nat
  BY SlotAssumption DEF Slots
<1>2. PICK m \in S : \A s \in S : m <= s
  BY <1>1, Least
<1> QED BY <1>1, <1>2, MinIsLeast

SlotRecord ==
  [op : Commands \cup {None}, capacity : BOOLEAN, buffer : BOOLEAN, status : {"busy", "ok", "error"},
   signaled : BOOLEAN]

AppTyped ==
  /\ pc \in {"idle", "next", "full", "wait", "version", "select"} \cup Preparing
  /\ call \in Calls \cup {None} /\ calls \in 0 .. MaxCalls
  /\ vendorPart \in BOOLEAN /\ own \in Slots
  /\ common \in {None, "ok", "failure"} /\ status \in {None, "ok", "failure", "unknown"}
ValuesTyped == version \in Chips \cup {None} /\ manufacturer \in Chips \cup {None}
SlotsTyped  == slots \in [Slots -> SlotRecord]
IoTyped ==
  /\ ioPc \in {"idle", "scan", "clip", "copy", "status", "signal"}
  /\ ioSlot \in 0 .. NumSlots /\ (ioPc \in Matched => ioSlot \in Slots)
  /\ copies \in BOOLEAN
CountersTyped == lost \in 0 .. MaxLost /\ late \in 0 .. MaxLate /\ odd \in 0 .. MaxOdd
FlagsTyped ==
  /\ ignored \in BOOLEAN /\ overtaken \in BOOLEAN
  /\ fault \in {"none", "full", "assert", "null", "memory"}

TypeInv == AppTyped /\ ValuesTyped /\ SlotsTyped /\ IoTyped /\ CountersTyped /\ FlagsTyped

(* A slot with another value in one of its fields is a slot.               *)
LEMMA SlotChange ==
  ASSUME SlotsTyped, NEW s \in Slots
  PROVE  /\ \A o \in Commands \cup {None} : [slots EXCEPT ![s].op = o] \in [Slots -> SlotRecord]
         /\ \A b \in BOOLEAN : [slots EXCEPT ![s].capacity = b] \in [Slots -> SlotRecord]
         /\ \A b \in BOOLEAN : [slots EXCEPT ![s].buffer = b] \in [Slots -> SlotRecord]
         /\ \A b \in BOOLEAN : [slots EXCEPT ![s].signaled = b] \in [Slots -> SlotRecord]
         /\ \A st \in {"busy", "ok", "error"} : [slots EXCEPT ![s].status = st] \in [Slots -> SlotRecord]
BY DEF SlotsTyped, SlotRecord

LEMMA TypesInitially == Init => TypeInv
<1> SUFFICES ASSUME Init PROVE TypeInv
  OBVIOUS
<1>1. 0 \in Slots /\ 0 \in 0 .. MaxCalls /\ 0 \in 0 .. NumSlots
  BY SlotAssumption, BoundAssumption DEF Slots
<1>2. AppTyped /\ ValuesTyped /\ FlagsTyped /\ IoTyped
  BY <1>1 DEF Init, AppTyped, ValuesTyped, FlagsTyped, IoTyped, Matched
<1>3. SlotsTyped
  BY DEF Init, SlotsTyped, SlotRecord
<1>4. CountersTyped
  BY BoundAssumption DEF Init, CountersTyped
<1> QED BY <1>2, <1>3, <1>4 DEF TypeInv

LEMMA CallsTyped ==
  ASSUME TypeInv, (\E c \in Calls : Begin(c)) \/ ReadVersion \/ Select
  PROVE  TypeInv'
<1> USE DEF TypeInv
<1>1. UNCHANGED <<own, version, slots, ioPc, ioSlot, copies, ignored, lost, late, odd, overtaken, fault>>
  BY DEF Begin, ReadVersion, Select, bounded, ctlVars, ioVars
<1>2. SlotsTyped' /\ IoTyped' /\ CountersTyped' /\ FlagsTyped'
  BY <1>1 DEF SlotsTyped, IoTyped, Matched, CountersTyped, FlagsTyped
<1>3. CASE \E c \in Calls : Begin(c)
  <2>1. PICK c \in Calls : Begin(c)
    BY <1>3
  <2>2. calls' \in 0 .. MaxCalls
    BY <2>1, BoundAssumption DEF Begin, AppTyped
  <2>3. /\ pc' \in {"idle", "next"} /\ call' \in Calls /\ vendorPart' \in BOOLEAN /\ common' = None
        /\ status' \in {None, "unknown"} /\ UNCHANGED manufacturer
    BY <2>1 DEF Begin, Return, ctlVars
  <2> QED BY <1>1, <1>2, <2>2, <2>3 DEF AppTyped, ValuesTyped
<1>4. CASE ReadVersion \/ Select
  <2>1. UNCHANGED <<call, calls, common>> /\ manufacturer' \in {version, manufacturer}
    BY <1>4 DEF ReadVersion, Select
  <2>2. pc' \in {"idle", "next", "select"} /\ status' \in {status, "ok", "unknown"}
    BY <1>4 DEF ReadVersion, Select, Return
  <2>3. vendorPart' \in BOOLEAN
    BY <1>4 DEF ReadVersion, Select, AppTyped
  <2> QED BY <1>1, <1>2, <2>1, <2>2, <2>3 DEF AppTyped, ValuesTyped
<1> QED BY <1>3, <1>4

LEMMA PreparingTyped ==
  ASSUME VendorInv, TypeInv,
         Reserve \/ ResetSlot \/ SetCapacity \/ SetBuffer \/ SetBusy \/ Transmit \/ TransmitAnyway
  PROVE  TypeInv'
<1> USE DEF TypeInv
<1>1. UNCHANGED <<call, calls, vendorPart, common, status, version, manufacturer, ioPc, ioSlot, copies, ignored, lost,
                  late, odd>>
  BY DEF Reserve, ResetSlot, SetCapacity, SetBuffer, SetBusy, OnlySlots, Transmit, TransmitAnyway, appVars, ctlVars,
         ioVars, bounded
<1>2. ValuesTyped' /\ IoTyped' /\ CountersTyped'
  BY <1>1 DEF ValuesTyped, IoTyped, Matched, CountersTyped
<1>3. pc' \in {"full", "wait"} \cup Preparing /\ own' \in Slots /\ slots' \in [Slots -> SlotRecord]
  <2>1. CASE Reserve
    <3>1. CASE FreeSlots = {}
      BY <2>1, <3>1 DEF Reserve, AppTyped, SlotsTyped
    <3>2. CASE FreeSlots # {}
      <4>1. Min(FreeSlots) \in Slots
        BY <3>2, FirstSlot DEF FreeSlots
      <4>2. Head(todo) \in Commands
        BY <2>1 DEF Reserve, At, VendorInv, Shape, Commanding
      <4>3. pc' = "reset" /\ own' = Min(FreeSlots) /\ slots' = [slots EXCEPT ![Min(FreeSlots)].op = Head(todo)]
        BY <2>1, <3>2 DEF Reserve
      <4> QED BY <4>1, <4>2, <4>3, SlotChange DEF Preparing
    <3> QED BY <3>1, <3>2
  <2>2. CASE ResetSlot \/ SetCapacity \/ SetBuffer \/ SetBusy
    <3>1. own \in Slots /\ own' = own /\ pc' \in Preparing
      BY <2>2 DEF ResetSlot, SetCapacity, SetBuffer, SetBusy, OnlySlots, Preparing, AppTyped
    <3>2. slots' \in [Slots -> SlotRecord]
      <4>1. CASE ResetSlot
        BY <3>1, <4>1, SlotChange DEF ResetSlot
      <4>2. CASE SetCapacity
        <5>1. WantsResult(Head(todo)) \in BOOLEAN
          BY DEF WantsResult
        <5>2. slots' = [slots EXCEPT ![own].capacity = WantsResult(Head(todo))]
          BY <4>2 DEF SetCapacity
        <5> QED BY <3>1, <5>1, <5>2, SlotChange
      <4>3. CASE SetBuffer
        <5>1. WantsResult(Head(todo)) \in BOOLEAN
          BY DEF WantsResult
        <5>2. slots' = [slots EXCEPT ![own].buffer = WantsResult(Head(todo))]
          BY <4>3 DEF SetBuffer
        <5> QED BY <3>1, <5>1, <5>2, SlotChange
      <4>4. CASE SetBusy
        BY <3>1, <4>4, SlotChange DEF SetBusy
      <4> QED BY <2>2, <4>1, <4>2, <4>3, <4>4
    <3> QED BY <3>1, <3>2
  <2>3. CASE Transmit \/ TransmitAnyway
    BY <2>3 DEF Transmit, TransmitAnyway, At, appVars, AppTyped, SlotsTyped
  <2> QED BY <2>1, <2>2, <2>3
<1>4. overtaken' \in BOOLEAN /\ fault' \in {fault, "full"}
  BY DEF Reserve, ResetSlot, SetCapacity, SetBuffer, SetBusy, OnlySlots, Transmit, TransmitAnyway, FlagsTyped
<1> QED BY <1>1, <1>2, <1>3, <1>4 DEF AppTyped, SlotsTyped, FlagsTyped

LEMMA EndTyped == ASSUME TypeInv, Answered \/ TimedOut PROVE TypeInv'
<1> USE DEF TypeInv
<1>1. /\ UNCHANGED <<call, calls, vendorPart, own, version, manufacturer, ioPc, ioSlot, copies, ignored, lost, odd,
                     overtaken, fault>>
      /\ slots' \in {slots, Freed(own)}
  BY DEF Answered, TimedOut, ctlVars, ioVars, bounded
<1>2. /\ pc' \in {"idle", "next", "version", "select"} /\ status' \in {None, "ok", "failure"}
      /\ common' \in {common, "ok", "failure"}
  BY DEF Answered, TimedOut, Proceed
<1>3. Freed(own) \in [Slots -> SlotRecord]
  BY SlotChange DEF Freed, AppTyped
<1>4. late' \in 0 .. MaxLate
  <2>1. late' = late \/ (late < MaxLate /\ late' = late + 1)
    BY DEF Answered, TimedOut, bounded
  <2> QED BY <2>1, BoundAssumption DEF CountersTyped
<1> QED BY <1>1, <1>2, <1>3, <1>4 DEF AppTyped, ValuesTyped, SlotsTyped, IoTyped, Matched, CountersTyped, FlagsTyped

LEMMA OutsideTyped ==
  ASSUME TypeInv, Serve \/ Scan \/ Odd
  PROVE  TypeInv'
<1>1. UNCHANGED <<pc, call, calls, vendorPart, own, common, status, version, manufacturer, slots, ioPc, ioSlot, copies,
                  ignored, late, overtaken, fault>>
  BY DEF Serve, Scan, Odd, appVars, ctlVars, ioVars, bounded
<1>2. lost' \in 0 .. MaxLost /\ odd' \in 0 .. MaxOdd
  BY BoundAssumption DEF Serve, Scan, Odd, bounded, TypeInv, CountersTyped
<1> QED BY <1>1, <1>2 DEF TypeInv, AppTyped, ValuesTyped, SlotsTyped, IoTyped, Matched, CountersTyped, FlagsTyped

LEMMA IoTypedKept == ASSUME VendorInv, TypeInv, IoStep PROVE TypeInv'
<1> USE DEF TypeInv
<1>1. /\ UNCHANGED <<pc, call, calls, vendorPart, own, common, status, manufacturer, lost, late, odd, overtaken>>
      /\ fault' \in {fault, "none", "null", "assert", "memory"}
      /\ ignored' \in BOOLEAN
  BY DEF IoStep, Handle, ScanSlot, ClipLength, CopyResult, SetStatus, SignalSlot, appVars, ctlVars, bounded, FlagsTyped
<1>2. AppTyped' /\ CountersTyped' /\ FlagsTyped'
  BY <1>1 DEF AppTyped, CountersTyped, FlagsTyped
<1>3. ioPc # "idle" => Head(events) \in Events /\ Head(events).kind \in Handled
  BY DEF VendorInv, Shape
<1>4. ValuesTyped'
  <2>1. version' = version \/ (ioPc # "idle" /\ version' \in Results(Head(events)))
    BY DEF IoStep, Handle, ScanSlot, ClipLength, CopyResult, SetStatus, SignalSlot, ctlVars
  <2>2. chip.maker \in Chips
    BY DEF VendorInv, Shape, ChipRecord
  <2> QED BY <1>1, <2>1, <2>2 DEF ValuesTyped, Results
<1>5. SlotsTyped'
  <2>1. ioPc # "idle" => Status(Head(events)) \in {"busy", "ok", "error"}
    BY <1>3 DEF Status, Events, Handled
  <2>2. \/ slots' = slots
        \/ ioSlot \in Slots /\ slots' = [slots EXCEPT ![ioSlot].status = Status(Head(events))] /\ ioPc # "idle"
        \/ ioSlot \in Slots /\ slots' = [slots EXCEPT ![ioSlot].signaled = TRUE]
    BY DEF IoStep, Handle, ScanSlot, ClipLength, CopyResult, SetStatus, SignalSlot, IoTyped, Matched
  <2>3. CASE slots' = slots
    BY <2>3 DEF SlotsTyped
  <2>4. CASE ioSlot \in Slots /\ slots' = [slots EXCEPT ![ioSlot].status = Status(Head(events))] /\ ioPc # "idle"
    BY <2>1, <2>4, SlotChange DEF SlotsTyped
  <2>5. CASE ioSlot \in Slots /\ slots' = [slots EXCEPT ![ioSlot].signaled = TRUE]
    BY <2>5, SlotChange DEF SlotsTyped
  <2> QED BY <2>2, <2>3, <2>4, <2>5
<1>6. IoTyped'
  <2>1. CASE Handle
    BY <2>1 DEF Handle, IoTyped, Matched
  <2>2. CASE ScanSlot
    <3>1. NumSlots \in Nat \ {0} /\ ioSlot \in 0 .. NumSlots
      BY SlotAssumption DEF IoTyped
    <3>2. \/ UNCHANGED <<ioPc, ioSlot>>
          \/ ioSlot < NumSlots /\ ioPc' = "clip" /\ ioSlot' = ioSlot
          \/ ioSlot # NumSlots /\ ioPc' = ioPc /\ ioSlot' = ioSlot + 1
      BY <2>2 DEF ScanSlot
    <3>3. copies' = copies /\ ioPc = "scan"
      BY <2>2 DEF ScanSlot
    <3>4. ioSlot' \in 0 .. NumSlots /\ (ioPc' \in Matched => ioSlot' \in Slots)
      BY <3>1, <3>2, <3>3 DEF Slots, Matched
    <3> QED BY <3>2, <3>3, <3>4 DEF IoTyped
  <2>3. CASE ClipLength \/ CopyResult \/ SetStatus
    <3>1. /\ ioSlot' = ioSlot /\ ioPc \in Matched /\ ioPc' \in {"copy", "status", "signal"}
          /\ copies' \in BOOLEAN
      BY <2>3 DEF ClipLength, CopyResult, SetStatus, IoTyped, SlotsTyped, SlotRecord, Matched
    <3> QED BY <3>1 DEF IoTyped
  <2>4. CASE SignalSlot
    <3>1. 0 \in 0 .. NumSlots
      BY SlotAssumption
    <3> QED BY <2>4, <3>1 DEF SignalSlot, IoTyped, Matched
  <2> QED BY <2>1, <2>2, <2>3, <2>4 DEF IoStep
<1> QED BY <1>2, <1>4, <1>5, <1>6

LEMMA TypeInvHolds == Spec => []TypeInv
<1>1. VendorInv /\ TypeInv /\ [Next]_vars => TypeInv'
  <2> SUFFICES ASSUME VendorInv, TypeInv, [Next]_vars PROVE TypeInv'
    OBVIOUS
  <2>1. CASE (\E c \in Calls : Begin(c)) \/ ReadVersion \/ Select
    BY <2>1, CallsTyped
  <2>2. CASE Reserve \/ ResetSlot \/ SetCapacity \/ SetBuffer \/ SetBusy \/ Transmit \/ TransmitAnyway
    BY <2>2, PreparingTyped
  <2>3. CASE Answered \/ TimedOut
    BY <2>3, EndTyped
  <2>4. CASE Serve \/ Scan \/ Odd
    BY <2>4, OutsideTyped
  <2>5. CASE IoStep
    BY <2>5, IoTypedKept
  <2>6. CASE UNCHANGED vars
    BY <2>6 DEF vars, appVars, ctlVars, ioVars, bounded, TypeInv, AppTyped, ValuesTyped, SlotsTyped, IoTyped, Matched,
                CountersTyped, FlagsTyped
  <2> QED BY <2>1, <2>2, <2>3, <2>4, <2>5, <2>6 DEF Next, AppStep, Finished
<1> QED BY <1>1, TypesInitially, VendorInvHolds, PTL DEF Spec

(* The variables keep their types, for every number of slots and calls:    *)
(* every slot that is taken or written to exists, and every command and    *)
(* event is one.                                                           *)
THEOREM TypeCorrect == Spec => []TypeOK
<1>1. VendorInv /\ TypeInv => TypeOK
  BY DEF VendorInv, Shape, ChipRecord, TypeInv, AppTyped, ValuesTyped, SlotsTyped, IoTyped, CountersTyped, FlagsTyped,
         SlotRecord, TypeOK
<1> QED BY <1>1, VendorInvHolds, TypeInvHolds, PTL

-----------------------------------------------------------------------------
(* The order of the slots.  The slots in use are the first ones; a command *)
(* that waits for its slot to be filled in or signaled has the last one.   *)

Used(s) == slots[s].op # None

SlotsInOrder ==
  /\ \A s, u \in Slots : u < s /\ (Used(s) \/ slots[s].buffer) => Used(u)
  /\ pc \in HasSlot => Used(own) /\ \A s \in Slots : Used(s) \/ slots[s].buffer => s <= own

(* What the application has written to the slots.                          *)
SlotsFilled ==
  /\ pc \in HasSlot => slots[own].op = Head(todo)
  /\ pc = "buffer" => slots[own].capacity = WantsResult(Head(todo))
  /\ pc \in {"busy", "send", "wait"} => slots[own].buffer = WantsResult(Head(todo))
  /\ \A s \in Slots : slots[s].capacity # slots[s].buffer => pc = "buffer" /\ s = own

(* Which call is where.                                                    *)
CallInOrder ==
  /\ pc # "idle" => call \in Calls /\ (call # "init" => vendorPart)
  /\ pc \in {"version", "select"} => call = "init" /\ ~vendorPart /\ common \in {"ok", "failure"}
  /\ pc = "version" => common = "ok"
  /\ pc \in Commanding =>
       IF vendorPart THEN vendor \in Vendors /\ \A i \in DOMAIN todo : todo[i] # "READ_LOCAL_VERSION"
                     ELSE call = "init" /\ todo \in {Common, <<"READ_LOCAL_VERSION">>}
  /\ pc = "idle" /\ status = "ok" => vendor \in Vendors /\ call \in Calls /\ vendorPart

NoPointer == pc = "idle" /\ status = "ok" /\ call # "init" => \A s \in Slots : ~Used(s) => ~slots[s].buffer

OrderInv == SlotsInOrder /\ SlotsFilled /\ CallInOrder /\ NoPointer

LEMMA OrderInitially == Init => OrderInv
<1> SUFFICES ASSUME Init PROVE OrderInv
  OBVIOUS
<1>1. /\ pc = "idle" /\ status = None
      /\ \A s \in Slots : slots[s].op = None /\ slots[s].buffer = FALSE /\ slots[s].capacity = FALSE
  BY DEF Init
<1>2. pc \notin HasSlot /\ pc \notin Commanding /\ status # "ok"
  BY <1>1, NoneAssumption DEF HasSlot, Preparing, Commanding
<1> QED BY <1>1, <1>2 DEF OrderInv, SlotsInOrder, SlotsFilled, CallInOrder, NoPointer, Used

(* The slots are left alone while no command has one.                      *)
LEMMA SlotsLeft ==
  ASSUME SlotsInOrder, SlotsFilled, slots' = slots, pc' \notin HasSlot, pc # "buffer"
  PROVE  SlotsInOrder' /\ SlotsFilled'
<1>1. pc' \notin {"buffer", "busy", "send", "wait"}
  BY DEF HasSlot, Preparing
<1> QED BY <1>1 DEF SlotsInOrder, SlotsFilled, Used

LEMMA BeginInOrder == ASSUME VendorInv, OrderInv, NEW c \in Calls, Begin(c) PROVE OrderInv'
<1>1. /\ pc = "idle" /\ pc' \in {"idle", "next"} /\ UNCHANGED <<slots, vendor>>
      /\ call' = c /\ vendorPart' = (c # "init") /\ status' \in {None, "unknown"}
  BY DEF Begin, At, Return, ctlVars
<1>2. SlotsInOrder' /\ SlotsFilled' /\ NoPointer'
  <2>1. pc' \notin HasSlot /\ status' # "ok"
    BY <1>1, NoneAssumption DEF HasSlot, Preparing
  <2> QED BY <1>1, <2>1, SlotsLeft DEF OrderInv, NoPointer
<1>3. pc' = "next" => \/ c = "init" /\ todo' = Common
                      \/ c # "init" /\ vendor \in Vendors /\ todo' = Sequences[vendor][c]
  BY DEF Begin, Return, VendorInv, Shape
<1>4. CallInOrder'
  <2>1. pc' = "next" => IF vendorPart' THEN /\ vendor' \in Vendors
                                            /\ \A i \in DOMAIN todo' : todo'[i] # "READ_LOCAL_VERSION"
                                       ELSE call' = "init" /\ todo' \in {Common, <<"READ_LOCAL_VERSION">>}
    BY <1>1, <1>3, SequencesTyped
  <2>2. pc' \in Commanding => pc' = "next"
    BY <1>1 DEF Commanding, HasSlot, Preparing
  <2>3. status' # "ok"
    BY <1>1, NoneAssumption
  <2> QED BY <1>1, <2>1, <2>2, <2>3 DEF CallInOrder
<1> QED BY <1>2, <1>4 DEF OrderInv

LEMMA SelectInOrder == ASSUME VendorInv, OrderInv, ReadVersion \/ Select PROVE OrderInv'
<1>1. /\ pc \in {"version", "select"} /\ UNCHANGED <<slots, call, common>> /\ pc' \in {"idle", "next", "select"}
      /\ call = "init" /\ ~vendorPart /\ common \in {"ok", "failure"}
  BY DEF ReadVersion, Select, Return, At, OrderInv, CallInOrder
<1>2. SlotsInOrder' /\ SlotsFilled' /\ NoPointer'
  <2>1. pc' \notin HasSlot /\ pc # "buffer"
    BY <1>1 DEF HasSlot, Preparing
  <2> QED BY <1>1, <2>1, SlotsLeft DEF OrderInv, NoPointer
<1>3. CASE ReadVersion
  <2>1. pc' = "select" /\ UNCHANGED <<vendorPart, status>>
    BY <1>3 DEF ReadVersion
  <2> QED BY <1>1, <1>2, <2>1 DEF OrderInv, CallInOrder, Commanding, HasSlot, Preparing, Calls
<1>4. CASE Select
  <2>1. /\ vendorPart' = TRUE
        /\ \/ pc' = "idle" /\ status' = "unknown"
           \/ pc' = "idle" /\ vendor' \in Vendors
           \/ pc' = "next" /\ vendor' \in Vendors /\ todo' = VendorSequence(vendor')
    BY <1>4 DEF Select, Return
  <2>2. CASE pc' = "idle"
    BY <1>1, <1>2, <2>1, <2>2 DEF OrderInv, CallInOrder, Commanding, HasSlot, Preparing, Calls
  <2>3. CASE pc' = "next" /\ vendor' \in Vendors /\ todo' = VendorSequence(vendor')
    <3>1. \A i \in DOMAIN todo' : todo'[i] # "READ_LOCAL_VERSION"
      BY <2>3, VendorSequenceTyped
    <3> QED BY <1>1, <1>2, <2>1, <2>3, <3>1 DEF OrderInv, CallInOrder, Calls
  <2> QED BY <2>1, <2>2, <2>3
<1> QED BY <1>3, <1>4

(* The first free slot is behind all slots in use.                         *)
LEMMA FirstFree ==
  ASSUME SlotsInOrder, FreeSlots # {}
  PROVE  LET s == Min(FreeSlots) IN
         /\ s \in Slots /\ slots[s].op = None
         /\ \A u \in Slots : u < s => Used(u)
         /\ \A u \in Slots : Used(u) => u < s
         /\ \A u \in Slots : slots[u].buffer => u <= s
<1> DEFINE s == Min(FreeSlots)
<1>1. s \in FreeSlots /\ \A u \in FreeSlots : s <= u
  BY FirstSlot DEF FreeSlots
<1>2. \A u \in Slots : u \in Nat /\ (u \in FreeSlots <=> ~Used(u))
  BY SlotAssumption DEF Slots, FreeSlots, Used
<1>3. s \in Slots /\ slots[s].op = None
  BY <1>1 DEF FreeSlots
<1> HIDE DEF s
<1>4. \A u \in Slots : u < s => Used(u)
  BY <1>1, <1>2, <1>3
<1>5. ~Used(s)
  BY <1>3 DEF Used
<1>6. \A u \in Slots : Used(u) \/ slots[u].buffer => ~(s < u)
  BY <1>3, <1>5 DEF SlotsInOrder
<1>7. \A u \in Slots : Used(u) => u < s
  BY <1>2, <1>3, <1>5, <1>6
<1>8. \A u \in Slots : slots[u].buffer => u <= s
  BY <1>2, <1>3, <1>6
<1> QED BY <1>3, <1>4, <1>7, <1>8 DEF s

LEMMA ReserveInOrder == ASSUME VendorInv, TypeInv, OrderInv, Reserve PROVE OrderInv'
<1>1. /\ pc = "next" /\ UNCHANGED <<call, todo, vendorPart, common, status, vendor>>
      /\ SlotsInOrder /\ SlotsFilled /\ CallInOrder /\ todo # <<>> /\ todo \in Seq(Commands)
  BY DEF Reserve, At, ctlVars, OrderInv, VendorInv, Shape, Commanding
<1>2. CallInOrder' /\ NoPointer'
  <2>1. pc' \in {"full", "reset"}
    BY DEF Reserve
  <2> QED BY <1>1, <2>1 DEF CallInOrder, NoPointer, Commanding, HasSlot, Preparing
<1>3. CASE FreeSlots = {}
  <2>1. pc' = "full" /\ slots' = slots /\ pc' \notin HasSlot
    BY <1>3 DEF Reserve, HasSlot, Preparing
  <2> QED BY <1>1, <1>2, <2>1, SlotsLeft DEF OrderInv
<1>4. CASE FreeSlots # {}
  <2> DEFINE s == Min(FreeSlots)
             c == Head(todo)
  <2>1. pc' = "reset" /\ own' = s /\ slots' = [slots EXCEPT ![s].op = c]
    BY <1>4 DEF Reserve
  <2>2. /\ s \in Slots /\ slots[s].op = None
        /\ \A u \in Slots : u < s => Used(u)
        /\ \A u \in Slots : Used(u) => u < s
        /\ \A u \in Slots : slots[u].buffer => u <= s
    BY <1>1, <1>4, FirstFree
  <2>3. c \in Commands /\ c # None
    BY <1>1, NoneAssumption
  <2> HIDE DEF s, c
  <2>4. /\ slots'[s].op = c /\ \A u \in Slots : u # s => slots'[u] = slots[u]
        /\ \A u \in Slots : slots'[u].capacity = slots[u].capacity /\ slots'[u].buffer = slots[u].buffer
    BY <2>1, <2>2 DEF TypeInv, SlotsTyped, SlotRecord
  <2>5. \A u \in Slots : u \in Nat
    BY SlotAssumption DEF Slots
  <2>6. \A t, u \in Slots : u < t /\ (slots'[t].op # None \/ slots'[t].buffer) => slots'[u].op # None
    BY <1>1, <2>2, <2>3, <2>4, <2>5 DEF SlotsInOrder, Used
  <2>7. \A t \in Slots : slots'[t].op # None \/ slots'[t].buffer => t <= s
    BY <2>2, <2>4, <2>5 DEF Used
  <2>8. SlotsInOrder'
    BY <2>1, <2>2, <2>3, <2>4, <2>6, <2>7 DEF SlotsInOrder, Used
  <2>9. SlotsFilled'
    BY <1>1, <2>1, <2>4 DEF SlotsFilled, c
  <2> QED BY <1>2, <2>8, <2>9 DEF OrderInv
<1> QED BY <1>3, <1>4

LEMMA FillInOrder ==
  ASSUME VendorInv, TypeInv, OrderInv, ResetSlot \/ SetCapacity \/ SetBuffer \/ SetBusy \/ Transmit \/ TransmitAnyway
  PROVE  OrderInv'
<1>1. /\ UNCHANGED <<call, todo, vendorPart, own, common, status, vendor>>
      /\ SlotsInOrder /\ SlotsFilled /\ CallInOrder /\ own \in Slots /\ slots \in [Slots -> SlotRecord]
  BY DEF ResetSlot, SetCapacity, SetBuffer, SetBusy, OnlySlots, Transmit, TransmitAnyway, appVars, ctlVars, OrderInv,
         TypeInv, AppTyped, SlotsTyped
<1>2. CallInOrder' /\ NoPointer'
  <2>1. pc \in Commanding /\ pc' \in Commanding \ {"idle", "version", "select"}
    BY DEF ResetSlot, SetCapacity, SetBuffer, SetBusy, Transmit, TransmitAnyway, At, appVars, Commanding, HasSlot,
           Preparing
  <2> QED BY <1>1, <2>1 DEF CallInOrder, NoPointer, Commanding, HasSlot, Preparing
<1>3. CASE TransmitAnyway
  BY <1>1, <1>2, <1>3 DEF TransmitAnyway, appVars, OrderInv, SlotsInOrder, SlotsFilled, Used
<1>4. CASE ~TransmitAnyway
  <2>1. pc \in HasSlot /\ pc' \in HasSlot
    BY <1>4 DEF ResetSlot, SetCapacity, SetBuffer, SetBusy, Transmit, At, HasSlot, Preparing
  <2>2. \A s \in Slots : /\ slots'[s].op = slots[s].op
                         /\ s # own => slots'[s] = slots[s]
    BY <1>1, <1>4 DEF ResetSlot, SetCapacity, SetBuffer, SetBusy, Transmit, SlotRecord
  <2>3. slots'[own].buffer => slots[own].buffer \/ pc = "buffer"
    <3>1. CASE SetBuffer
      BY <3>1 DEF SetBuffer, At
    <3>2. CASE ~SetBuffer
      BY <1>1, <1>4, <3>2 DEF ResetSlot, SetCapacity, SetBusy, Transmit, SlotRecord
    <3> QED BY <3>1, <3>2
  <2>4. SlotsInOrder'
    <3>1. \A s \in Slots : s \in Nat
      BY SlotAssumption DEF Slots
    <3>2. Used(own) /\ \A s \in Slots : Used(s) \/ slots[s].buffer => s <= own
      BY <1>1, <2>1 DEF SlotsInOrder
    <3>3. \A s \in Slots : Used(s)' = Used(s)
      BY <2>2 DEF Used
    <3>4. \A s \in Slots : slots'[s].buffer => s = own \/ slots[s].buffer
      BY <2>2
    <3>5. \A s, u \in Slots : u < s /\ (Used(s)' \/ slots'[s].buffer) => Used(u)'
      BY <1>1, <3>1, <3>2, <3>3, <3>4 DEF SlotsInOrder
    <3>6. Used(own)' /\ \A s \in Slots : Used(s)' \/ slots'[s].buffer => s <= own
      BY <1>1, <2>2, <3>1, <3>2, <3>3, <3>4 DEF Used
    <3> QED BY <1>1, <3>5, <3>6 DEF SlotsInOrder, Used
  <2>5. SlotsFilled'
    <3>1. pc' \in HasSlot => slots'[own'].op = Head(todo')
      BY <1>1, <2>1, <2>2 DEF SlotsFilled
    <3>2. \A s \in Slots : s # own => slots'[s].capacity = slots'[s].buffer
      BY <1>1, <2>2 DEF SlotsFilled
    <3>3. /\ pc' = "buffer" => slots'[own].capacity = WantsResult(Head(todo))
          /\ pc' \in {"busy", "send", "wait"} => slots'[own].buffer = WantsResult(Head(todo))
          /\ slots'[own].capacity # slots'[own].buffer => pc' = "buffer"
      <4>1. CASE ResetSlot
        BY <1>1, <4>1 DEF ResetSlot, At, SlotsFilled, SlotRecord
      <4>2. CASE SetCapacity
        <5>1. pc' = "buffer" /\ slots' = [slots EXCEPT ![own].capacity = WantsResult(Head(todo))]
          BY <4>2 DEF SetCapacity
        <5>2. slots'[own].capacity = WantsResult(Head(todo))
          BY <1>1, <5>1 DEF SlotRecord
        <5> QED BY <5>1, <5>2
      <4>3. CASE SetBuffer
        <5>1. pc = "buffer" /\ pc' = "busy" /\ slots' = [slots EXCEPT ![own].buffer = WantsResult(Head(todo))]
          BY <4>3 DEF SetBuffer, At
        <5>2. slots'[own].buffer = WantsResult(Head(todo)) /\ slots'[own].capacity = slots[own].capacity
          BY <1>1, <5>1 DEF SlotRecord
        <5> QED BY <1>1, <5>1, <5>2 DEF SlotsFilled
      <4>4. CASE SetBusy
        BY <1>1, <4>4 DEF SetBusy, At, SlotsFilled, SlotRecord
      <4>5. CASE Transmit
        BY <1>1, <4>5 DEF Transmit, At, SlotsFilled
      <4> QED BY <1>4, <4>1, <4>2, <4>3, <4>4, <4>5
    <3> QED BY <1>1, <3>1, <3>2, <3>3 DEF SlotsFilled
  <2> QED BY <1>2, <2>4, <2>5 DEF OrderInv
<1> QED BY <1>3, <1>4

(* What follows a command, for the call it belongs to.                     *)
LEMMA ProceedInOrder ==
  ASSUME VendorInv, CallInOrder, pc = "wait", NEW ok \in BOOLEAN, Proceed(Head(todo), ok),
         UNCHANGED <<call, vendorPart, vendor>>
  PROVE  /\ CallInOrder' /\ pc' \notin HasSlot
         /\ pc' = "idle" /\ status' = "ok" => ok /\ Head(todo) # "READ_LOCAL_VERSION"
<1> DEFINE c == Head(todo)
<1>1. /\ todo \in Seq(Commands) /\ todo # <<>> /\ pc \in Commanding
      /\ c = todo[1] /\ 1 \in DOMAIN todo
  BY DEF VendorInv, Shape, Commanding, HasSlot
<1>2. /\ call \in Calls /\ (call # "init" => vendorPart)
      /\ IF vendorPart THEN vendor \in Vendors /\ \A i \in DOMAIN todo : todo[i] # "READ_LOCAL_VERSION"
                       ELSE call = "init" /\ todo \in {Common, <<"READ_LOCAL_VERSION">>}
  BY <1>1 DEF CallInOrder, Commanding, HasSlot
<1>3. vendorPart => c # "READ_LOCAL_VERSION" /\ \A i \in DOMAIN Tail(todo) : Tail(todo)[i] # "READ_LOCAL_VERSION"
  BY <1>1, <1>2, TailElements
<1>4. ~vendorPart => \/ c = "RESET" /\ Tail(todo) = <<"READ_LOCAL_VERSION">>
                     \/ c = "READ_LOCAL_VERSION" /\ Tail(todo) = <<>>
  <2>1. CASE todo = Common
    <3>1. todo = <<"RESET", "READ_LOCAL_VERSION">>
      BY <2>1 DEF Common
    <3>2. /\ Tail(todo) \in Seq(Commands) /\ Len(Tail(todo)) = 1 /\ Tail(todo)[1] = "READ_LOCAL_VERSION"
          /\ c = "RESET"
      BY <1>1, <3>1
    <3>3. <<"READ_LOCAL_VERSION">> \in Seq(Commands) /\ Len(<<"READ_LOCAL_VERSION">>) = 1
          /\ <<"READ_LOCAL_VERSION">>[1] = "READ_LOCAL_VERSION"
      BY DEF Commands, Standard
    <3>4. \A i \in 1 .. 1 : Tail(todo)[i] = <<"READ_LOCAL_VERSION">>[i]
      <4>1. \A i \in 1 .. 1 : i = 1
        OBVIOUS
      <4> QED BY <3>2, <3>3, <4>1, Zenon
    <3> QED BY <3>2, <3>3, <3>4, SeqEqual
  <2>2. CASE todo = <<"READ_LOCAL_VERSION">>
    <3>1. c = "READ_LOCAL_VERSION" /\ Len(Tail(todo)) = 0 /\ Tail(todo) \in Seq(Commands)
      BY <1>1, <2>2
    <3> QED BY <3>1, EmptySeq
  <2> QED BY <1>2, <2>1, <2>2
<1> HIDE DEF c
<1>5. CASE ok
  <2>1. /\ todo' = Tail(todo)
        /\ pc' = IF todo' # <<>> THEN "next"
                 ELSE IF c = "READ_LOCAL_VERSION" THEN "version" ELSE "idle"
        /\ common' = IF vendorPart THEN common ELSE "ok"
    BY <1>5 DEF Proceed, Succeeded, c
  <2>2. CASE todo' # <<>>
    <3>1. pc' = "next"
      BY <2>1, <2>2
    <3>2. IF vendorPart THEN \A i \in DOMAIN todo' : todo'[i] # "READ_LOCAL_VERSION"
                        ELSE todo' = <<"READ_LOCAL_VERSION">>
      BY <1>3, <1>4, <2>1, <2>2
    <3> QED BY <1>2, <3>1, <3>2 DEF CallInOrder, HasSlot, Preparing
  <2>3. CASE todo' = <<>> /\ c = "READ_LOCAL_VERSION"
    <3>1. pc' = "version" /\ ~vendorPart /\ common' = "ok"
      BY <1>3, <2>1, <2>3
    <3> QED BY <1>2, <3>1 DEF CallInOrder, HasSlot, Preparing, Commanding
  <2>4. CASE todo' = <<>> /\ c # "READ_LOCAL_VERSION"
    <3>1. pc' = "idle" /\ vendorPart
      BY <1>4, <2>1, <2>4
    <3> QED BY <1>2, <1>5, <2>4, <3>1 DEF CallInOrder, HasSlot, Preparing, Commanding, c
  <2> QED BY <2>2, <2>3, <2>4
<1>6. CASE ~ok
  <2>1. /\ pc' = IF vendorPart THEN "idle" ELSE "select"
        /\ common' = IF vendorPart THEN common ELSE "failure"
        /\ status' # "ok"
    BY <1>6, NoneAssumption DEF Proceed, Succeeded
  <2> QED BY <1>2, <2>1 DEF CallInOrder, HasSlot, Preparing, Commanding
<1> QED BY <1>5, <1>6

LEMMA EndInOrder == ASSUME VendorInv, TypeInv, OrderInv, Answered \/ TimedOut PROVE OrderInv'
<1> DEFINE c == Head(todo)
<1>1. /\ pc = "wait" /\ UNCHANGED <<call, vendorPart, own, vendor>>
      /\ SlotsInOrder /\ SlotsFilled /\ CallInOrder /\ own \in Slots /\ slots \in [Slots -> SlotRecord]
  BY DEF Answered, TimedOut, At, ctlVars, OrderInv, TypeInv, AppTyped, SlotsTyped
<1>2. slots[own].op = c
  BY <1>1 DEF SlotsFilled, HasSlot
<1>3. slots[own].buffer = WantsResult(c)
  BY <1>1 DEF SlotsFilled
<1>4. \/ slots' = [slots EXCEPT ![own].op = None] /\ \E ok \in BOOLEAN : Proceed(c, ok)
      \/ slots' = slots /\ Proceed(c, FALSE)
  <2>1. CASE Answered
    <3>1. Proceed(c, slots[own].status = "ok") /\ slots' = [slots EXCEPT ![own].op = None]
      BY <1>2, <2>1 DEF Answered, Freed
    <3>2. (slots[own].status = "ok") \in BOOLEAN
      OBVIOUS
    <3> QED BY <3>1, <3>2, Zenon
  <2>2. CASE TimedOut
    BY <1>2, <2>2 DEF TimedOut
  <2> QED BY <2>1, <2>2
<1>5. PICK ok \in BOOLEAN : /\ Proceed(c, ok)
                            /\ (slots' = slots /\ ~ok) \/ slots' = [slots EXCEPT ![own].op = None]
  BY <1>4
<1>6. /\ CallInOrder' /\ pc' \notin HasSlot
      /\ pc' = "idle" /\ status' = "ok" => ok /\ c # "READ_LOCAL_VERSION"
  BY <1>1, <1>5, ProceedInOrder
<1>7. CASE slots' = slots /\ ~ok
  <2>1. NoPointer'
    BY <1>6, <1>7 DEF NoPointer
  <2> QED BY <1>1, <1>6, <1>7, <2>1, SlotsLeft DEF OrderInv
<1>8. CASE slots' = [slots EXCEPT ![own].op = None]
  <2>1. /\ slots'[own].op = None /\ \A s \in Slots : s # own => slots'[s] = slots[s]
        /\ \A s \in Slots : slots'[s].capacity = slots[s].capacity /\ slots'[s].buffer = slots[s].buffer
    BY <1>1, <1>8 DEF SlotRecord
  <2>2. \A s \in Slots : s \in Nat
    BY SlotAssumption DEF Slots
  <2>3. /\ \A s, u \in Slots : u < s /\ (Used(s) \/ slots[s].buffer) => Used(u)
        /\ Used(own) /\ \A s \in Slots : Used(s) \/ slots[s].buffer => s <= own
    BY <1>1 DEF SlotsInOrder, HasSlot
  <2>4. \A s, u \in Slots : u < s /\ (slots'[s].op # None \/ slots'[s].buffer) => slots'[u].op # None
    BY <1>1, <2>1, <2>2, <2>3 DEF Used
  <2>5. SlotsInOrder'
    BY <1>6, <2>4 DEF SlotsInOrder, Used
  <2>6. SlotsFilled'
    <3>1. pc' \notin {"buffer", "busy", "send", "wait"}
      BY <1>6 DEF HasSlot, Preparing
    <3>2. \A s \in Slots : slots'[s].capacity = slots'[s].buffer
      BY <1>1, <2>1 DEF SlotsFilled
    <3> QED BY <1>6, <3>1, <3>2 DEF SlotsFilled
  <2>7. NoPointer'
    <3>1. ASSUME c # "READ_LOCAL_VERSION" PROVE \A s \in Slots : slots'[s].op = None => ~slots'[s].buffer
      <4>1. ~slots[own].buffer
        BY <1>3, <3>1 DEF WantsResult
      <4> QED BY <1>1, <2>1, <2>2, <2>3, <4>1 DEF Used
    <3> QED BY <1>6, <3>1 DEF NoPointer, Used
  <2> QED BY <1>6, <2>5, <2>6, <2>7 DEF OrderInv
<1> QED BY <1>5, <1>7, <1>8

(* The I/O thread leaves alone what the application has written.           *)
LEMMA IoKeeps ==
  ASSUME TypeInv, IoStep
  PROVE  /\ UNCHANGED <<pc, call, todo, vendorPart, own, common, status, vendor, manufacturer, chip, sent, overtaken,
                        lost, late>>
         /\ Running
         /\ \A s \in Slots : /\ slots'[s].op = slots[s].op
                             /\ slots'[s].capacity = slots[s].capacity
                             /\ slots'[s].buffer = slots[s].buffer
<1>1. UNCHANGED <<pc, call, todo, vendorPart, own, common, status, vendor, manufacturer, chip, sent, overtaken, lost,
                  late>>
      /\ Running
  BY DEF IoStep, Handle, ScanSlot, ClipLength, CopyResult, SetStatus, SignalSlot, appVars, ctlVars, bounded
<1>2. \/ slots' = slots
      \/ ioSlot \in Slots /\ slots' = [slots EXCEPT ![ioSlot].status = Status(Head(events))]
      \/ ioSlot \in Slots /\ slots' = [slots EXCEPT ![ioSlot].signaled = TRUE]
  BY DEF IoStep, Handle, ScanSlot, ClipLength, CopyResult, SetStatus, SignalSlot, TypeInv, IoTyped, Matched
<1>3. slots \in [Slots -> SlotRecord]
  BY DEF TypeInv, SlotsTyped
<1>4. \A s \in Slots : /\ slots'[s].op = slots[s].op
                       /\ slots'[s].capacity = slots[s].capacity
                       /\ slots'[s].buffer = slots[s].buffer
  <2>1. CASE slots' = slots
    BY <2>1
  <2>2. CASE ioSlot \in Slots /\ slots' = [slots EXCEPT ![ioSlot].status = Status(Head(events))]
    BY <1>3, <2>2 DEF SlotRecord
  <2>3. CASE ioSlot \in Slots /\ slots' = [slots EXCEPT ![ioSlot].signaled = TRUE]
    BY <1>3, <2>3 DEF SlotRecord
  <2> QED BY <1>2, <2>1, <2>2, <2>3
<1> QED BY <1>1, <1>4

LEMMA OthersInOrder == ASSUME TypeInv, OrderInv, Serve \/ Scan \/ Odd \/ IoStep PROVE OrderInv'
<1>1. /\ UNCHANGED <<pc, call, todo, vendorPart, own, common, status, vendor>>
      /\ \A s \in Slots : /\ slots'[s].op = slots[s].op
                          /\ slots'[s].capacity = slots[s].capacity
                          /\ slots'[s].buffer = slots[s].buffer
  <2>1. CASE Serve \/ Scan \/ Odd
    BY <2>1 DEF Serve, Scan, Odd, appVars, ctlVars
  <2>2. CASE IoStep
    BY <2>2, IoKeeps
  <2> QED BY <2>1, <2>2
<1>2. own \in Slots
  BY DEF TypeInv, AppTyped
<1>3. SlotsInOrder'
  BY <1>1, <1>2 DEF OrderInv, SlotsInOrder, Used
<1>4. SlotsFilled'
  BY <1>1, <1>2 DEF OrderInv, SlotsFilled
<1>5. CallInOrder' /\ NoPointer'
  BY <1>1 DEF OrderInv, CallInOrder, NoPointer, Used
<1> QED BY <1>3, <1>4, <1>5 DEF OrderInv

LEMMA OrderInvHolds == Spec => []OrderInv
<1>1. VendorInv /\ TypeInv /\ OrderInv /\ [Next]_vars => OrderInv'
  <2> SUFFICES ASSUME VendorInv, TypeInv, OrderInv, [Next]_vars PROVE OrderInv'
    OBVIOUS
  <2>1. CASE \E c \in Calls : Begin(c)
    BY <2>1, BeginInOrder
  <2>2. CASE AppStep
    BY <2>2, ReserveInOrder, FillInOrder, EndInOrder, SelectInOrder DEF AppStep
  <2>3. CASE Serve \/ Scan \/ Odd \/ IoStep
    BY <2>3, OthersInOrder
  <2>4. CASE UNCHANGED vars
    BY <2>4 DEF vars, appVars, ctlVars, OrderInv, SlotsInOrder, SlotsFilled, CallInOrder, NoPointer, Used
  <2> QED BY <2>1, <2>2, <2>3, <2>4 DEF Next, Finished
<1> QED BY <1>1, OrderInitially, VendorInvHolds, TypeInvHolds, PTL DEF Spec

(* For every number of slots and calls: after a call that configured the   *)
(* controller or started or stopped a discovery, no free slot points to    *)
(* the version on the stack of lb_initializeHCI.                           *)
THEOREM NoSlotPointsBack == Spec => []NoStaleBuffer
<1>1. OrderInv => NoStaleBuffer
  BY DEF OrderInv, NoPointer, NoStaleBuffer, FreeSlots, Used
<1> QED BY <1>1, OrderInvHolds, PTL

-----------------------------------------------------------------------------
(* What LB_OK means.  If an earlier command with the opcode of the one in  *)
(* progress still has a slot, the answers go there and it is never         *)
(* signaled.  Otherwise it is on its way, answered by one event, or        *)
(* settled, and executed if the answer says so.                            *)

Good == Running /\ ~overtaken

Answers(e) == e.kind \in {"complete", "vendorStatus"}

ProgramOf(part, v, c, m) ==
  IF ~part THEN Common ELSE IF c = "init" /\ m = "failure" THEN VendorSequence(v) ELSE Sequences[v][c]
Program == ProgramOf(vendorPart, vendor, call, common)

(* What is left after n commands of p; what was done ends with n of them.  *)
Left(q, p, n) == q \in Seq(Commands) /\ Len(q) = Len(p) - n /\ \A i \in 1 .. Len(q) : q[i] = p[n + i]
Ends(d, p, n) == n <= Len(d) /\ \A i \in 1 .. n : d[Len(d) - n + i] = p[i]

NoneOf(q, c) == \A i \in DOMAIN q : q[i] # c
AtEnd(q, c)  == q # <<>> /\ \A i \in DOMAIN q : q[i] = c <=> i = Len(q)

AnswersTo(e, c)         == Answers(e) /\ e.op = c
NoAnswerTo(q, c)        == \A i \in DOMAIN q : ~AnswersTo(q[i], c)
OneAnswerTo(q, c, code) ==
  \E i \in DOMAIN q :
    AnswersTo(q[i], c) /\ q[i].code = code /\ \A j \in DOMAIN q : j # i => ~AnswersTo(q[j], c)

(* The I/O thread has passed no slot with the opcode it looks for.         *)
Found ==
  /\ ioPc # "idle" /\ Answers(Head(events)) => \A s \in Slots : s < ioSlot => slots[s].op # Head(events).op
  /\ ioPc \in Matched => slots[ioSlot].op = Opcode(Head(events))
  /\ ioPc = "signal" /\ Answers(Head(events)) => slots[ioSlot].status = Head(events).code
  /\ ioPc = "idle" => ioSlot = 0

(* A command that has no slot is not on its way, and not answered.         *)
Unsettled ==
  \A c \in Commands : (\A s \in Slots : slots[s].op # c) => NoneOf(sent, c) /\ NoAnswerTo(events, c)

(* Command n + 1 of p is sent, answered or settled.                        *)
Stage(q, evs, signaled, st, d, p, n) ==
  LET c == p[n + 1] IN
  \/ /\ AtEnd(q, c) /\ NoAnswerTo(evs, c) /\ ~signaled
     /\ Ends(d, p, n) /\ (n > 0 => Len(q) = 1)
  \/ /\ q = <<>> /\ ~signaled
     /\ \E code \in {"ok", "error"} : OneAnswerTo(evs, c, code) /\ (code = "ok" => Ends(d, p, n + 1))
  \/ q = <<>> /\ NoAnswerTo(evs, c) /\ (signaled /\ st = "ok" => Ends(d, p, n + 1))

Doubled == \E s \in Slots : s # own /\ slots[s].op = slots[own].op

NextAt(n) == Left(todo, Program, n) /\ Ends(chip.did, Program, n) /\ (n > 0 => sent = <<>>)
PreparedAt(n) ==
  /\ NextAt(n)
  /\ Doubled \/ (NoneOf(sent, Program[n + 1]) /\ NoAnswerTo(events, Program[n + 1]))
  /\ pc # "reset" => ~slots[own].signaled
WaitAt(n) ==
  /\ Left(todo, Program, n)
  /\ IF Doubled THEN ~slots[own].signaled
                ELSE Stage(sent, events, slots[own].signaled, slots[own].status, chip.did, Program, n)

Calling ==
  /\ pc \in {"next", "full"} => \E n \in 0 .. Len(Program) - 1 : NextAt(n)
  /\ pc \in Preparing => \E n \in 0 .. Len(Program) - 1 : PreparedAt(n)
  /\ pc = "wait" => \E n \in 0 .. Len(Program) - 1 : WaitAt(n)
  /\ pc \in {"version", "select"} /\ common = "ok" => Ends(chip.did, Common, 2) /\ sent = <<>>

(* The version is known from the chip.                                     *)
Told ==
  /\ manufacturer # None \/ vendor # None => chip.told
  /\ \A i \in DOMAIN chip.did : chip.did[i] = "READ_LOCAL_VERSION" => chip.told

Returned ==
  pc = "idle" /\ status = "ok" => Ends(chip.did, Program, Len(Program)) /\ (Program # <<>> => sent = <<>>)

DoneInv == (Good => Found /\ Unsettled /\ Calling) /\ (~overtaken => Told /\ Returned)

(* The queues: a command or an event more, or the first one less.          *)
LEMMA SentMore ==
  ASSUME NEW q \in Seq(Commands), NEW d \in Commands, NEW c \in Commands, NoneOf(q, c)
  PROVE  /\ d # c => NoneOf(Append(q, d), c)
         /\ AtEnd(Append(q, c), c)
<1> DEFINE r(x) == Append(q, x)
<1>1. \A x \in Commands :
        /\ DOMAIN r(x) = 1 .. Len(q) + 1 /\ Len(r(x)) = Len(q) + 1 /\ r(x)[Len(q) + 1] = x
        /\ \A i \in 1 .. Len(q) : r(x)[i] = q[i]
  OBVIOUS
<1>2. Len(q) \in Nat /\ DOMAIN q = 1 .. Len(q)
  OBVIOUS
<1> HIDE DEF r
<1>3. \A x \in Commands : r(x) # <<>>
  BY <1>1, <1>2
<1> QED BY <1>1, <1>2, <1>3 DEF NoneOf, AtEnd, r

LEMMA SentLess ==
  ASSUME NEW q \in Seq(Commands), q # <<>>, NEW c \in Commands
  PROVE  /\ NoneOf(q, c) => NoneOf(Tail(q), c) /\ Head(q) # c
         /\ AtEnd(q, c) /\ Len(q) = 1 => Head(q) = c /\ Tail(q) = <<>>
         /\ AtEnd(q, c) /\ Len(q) # 1 => Head(q) # c /\ AtEnd(Tail(q), c)
<1> DEFINE r == Tail(q)
<1>1. /\ Len(q) \in Nat /\ Len(q) >= 1 /\ DOMAIN q = 1 .. Len(q) /\ Head(q) = q[1]
      /\ r \in Seq(Commands) /\ Len(r) = Len(q) - 1 /\ DOMAIN r = 1 .. Len(q) - 1
      /\ \A i \in 1 .. Len(q) - 1 : r[i] = q[i + 1]
  OBVIOUS
<1>2. Len(q) = 1 => r = <<>>
  BY <1>1
<1>3. Len(q) # 1 => r # <<>>
  BY <1>1
<1> HIDE DEF r
<1>4. 1 \in DOMAIN q /\ \A i \in DOMAIN r : i + 1 \in DOMAIN q /\ r[i] = q[i + 1] /\ (i = Len(r) <=> i + 1 = Len(q))
  BY <1>1
<1>5. NoneOf(q, c) => NoneOf(r, c) /\ Head(q) # c
  BY <1>1, <1>4 DEF NoneOf
<1>6. AtEnd(q, c) => (Head(q) = c <=> 1 = Len(q))
  BY <1>1, <1>4 DEF AtEnd
<1>7. AtEnd(q, c) /\ r # <<>> => AtEnd(r, c)
  BY <1>4 DEF AtEnd
<1> QED BY <1>2, <1>3, <1>5, <1>6, <1>7 DEF r

LEMMA EventsMore ==
  ASSUME NEW q \in Seq(Events), NEW e \in Events, NEW c
  PROVE  /\ ~AnswersTo(e, c) /\ NoAnswerTo(q, c) => NoAnswerTo(Append(q, e), c)
         /\ ~AnswersTo(e, c) => \A code : OneAnswerTo(q, c, code) => OneAnswerTo(Append(q, e), c, code)
         /\ AnswersTo(e, c) /\ NoAnswerTo(q, c) => OneAnswerTo(Append(q, e), c, e.code)
<1> DEFINE r == Append(q, e)
<1>1. /\ Len(q) \in Nat /\ DOMAIN q = 1 .. Len(q) /\ DOMAIN r = 1 .. Len(q) + 1
      /\ \A i \in 1 .. Len(q) : r[i] = q[i]
      /\ r[Len(q) + 1] = e
  OBVIOUS
<1> HIDE DEF r
<1>2. /\ Len(q) + 1 \in DOMAIN r /\ r[Len(q) + 1] = e
      /\ \A i \in DOMAIN q : i \in DOMAIN r /\ r[i] = q[i]
      /\ \A i \in DOMAIN r : i # Len(q) + 1 => i \in DOMAIN q /\ r[i] = q[i]
  BY <1>1
<1>3. ~AnswersTo(e, c) /\ NoAnswerTo(q, c) => NoAnswerTo(r, c)
  BY <1>2 DEF NoAnswerTo
<1>4. ~AnswersTo(e, c) => \A code : OneAnswerTo(q, c, code) => OneAnswerTo(r, c, code)
  BY <1>2 DEF OneAnswerTo
<1>5. AnswersTo(e, c) /\ NoAnswerTo(q, c) => OneAnswerTo(r, c, e.code)
  BY <1>2 DEF NoAnswerTo, OneAnswerTo
<1> QED BY <1>3, <1>4, <1>5 DEF r

LEMMA EventsLess ==
  ASSUME NEW q \in Seq(Events), q # <<>>, NEW c
  PROVE  /\ NoAnswerTo(q, c) => NoAnswerTo(Tail(q), c) /\ ~AnswersTo(Head(q), c)
         /\ \A code : OneAnswerTo(q, c, code) =>
              IF AnswersTo(Head(q), c) THEN NoAnswerTo(Tail(q), c) /\ Head(q).code = code
                                       ELSE OneAnswerTo(Tail(q), c, code)
<1> DEFINE r == Tail(q)
<1>1. /\ Len(q) \in Nat /\ DOMAIN q = 1 .. Len(q)
      /\ Len(q) >= 1 /\ DOMAIN r = 1 .. Len(q) - 1
      /\ \A i \in 1 .. Len(q) - 1 : r[i] = q[i + 1]
      /\ Head(q) = q[1] /\ 1 \in DOMAIN q
  OBVIOUS
<1> HIDE DEF r
<1>2. /\ \A i \in DOMAIN r : i + 1 \in DOMAIN q /\ i + 1 # 1 /\ r[i] = q[i + 1]
      /\ \A i \in DOMAIN q : i # 1 => i - 1 \in DOMAIN r /\ r[i - 1] = q[i] /\ i = (i - 1) + 1
      /\ \A i \in DOMAIN r, j \in DOMAIN q : i # j - 1 => i + 1 # j
  BY <1>1
<1>3. NoAnswerTo(q, c) => NoAnswerTo(r, c) /\ ~AnswersTo(Head(q), c)
  BY <1>1, <1>2 DEF NoAnswerTo
<1>4. ASSUME NEW code, OneAnswerTo(q, c, code)
      PROVE  IF AnswersTo(Head(q), c) THEN NoAnswerTo(r, c) /\ Head(q).code = code ELSE OneAnswerTo(r, c, code)
  <2>1. PICK i \in DOMAIN q :
          AnswersTo(q[i], c) /\ q[i].code = code /\ \A j \in DOMAIN q : j # i => ~AnswersTo(q[j], c)
    BY <1>4 DEF OneAnswerTo
  <2>2. CASE i = 1
    BY <1>1, <1>2, <2>1, <2>2 DEF NoAnswerTo
  <2>3. CASE i # 1
    <3>1. i - 1 \in DOMAIN r /\ r[i - 1] = q[i] /\ ~AnswersTo(Head(q), c)
      BY <1>1, <1>2, <2>1, <2>3
    <3>2. \A j \in DOMAIN r : j # i - 1 => ~AnswersTo(r[j], c)
      BY <1>2, <2>1
    <3> QED BY <2>1, <3>1, <3>2 DEF OneAnswerTo
  <2> QED BY <2>2, <2>3
<1> QED BY <1>3, <1>4 DEF r

(* What was done ends with one command more, when it is the next one.      *)
LEMMA EndsMore ==
  ASSUME NEW d \in Seq(Commands), NEW p \in Seq(Commands), NEW n \in Nat, n < Len(p), Ends(d, p, n)
  PROVE  Ends(Append(d, p[n + 1]), p, n + 1)
<1> DEFINE r == Append(d, p[n + 1])
<1>1. /\ Len(d) \in Nat /\ Len(r) = Len(d) + 1 /\ r[Len(d) + 1] = p[n + 1]
      /\ \A i \in 1 .. Len(d) : r[i] = d[i]
  OBVIOUS
<1> HIDE DEF r
<1>2. n <= Len(d)
  BY DEF Ends
<1>3. ASSUME NEW i \in 1 .. n + 1 PROVE r[Len(r) - (n + 1) + i] = p[i]
  <2>1. Len(r) - (n + 1) + i = Len(d) - n + i
    BY <1>1
  <2>2. CASE i = n + 1
    <3>1. Len(d) - n + i = Len(d) + 1
      BY <1>1, <2>2
    <3> QED BY <1>1, <2>1, <2>2, <3>1
  <2>3. CASE i # n + 1
    <3>1. i \in 1 .. n /\ Len(d) - n + i \in 1 .. Len(d)
      BY <1>1, <1>2, <2>3
    <3> QED BY <1>1, <2>1, <3>1 DEF Ends
  <2> QED BY <2>2, <2>3
<1>4. n + 1 <= Len(r)
  BY <1>1, <1>2
<1> QED BY <1>3, <1>4 DEF Ends, r

(* What the commands of a call are.                                        *)
LEMMA Programs ==
  ASSUME NEW part \in BOOLEAN, NEW v, NEW c \in Calls, NEW m, part => v \in Vendors
  PROVE  ProgramOf(part, v, c, m) \in Seq(Commands)
BY CommonIs, VendorSequenceTyped, SequencesTyped DEF ProgramOf

LEMMA DoneInitially == Init => DoneInv
<1> SUFFICES ASSUME Init PROVE DoneInv
  OBVIOUS
<1>1. /\ pc = "idle" /\ status = None /\ sent = <<>> /\ events = <<>> /\ chip.did = <<>>
      /\ manufacturer = None /\ vendor = None /\ ioPc = "idle" /\ ioSlot = 0
  BY DEF Init
<1>2. Found
  BY <1>1 DEF Found, Matched
<1>3. Unsettled
  BY <1>1 DEF Unsettled, NoneOf, NoAnswerTo
<1>4. Calling /\ Returned /\ Told
  BY <1>1, NoneAssumption DEF Calling, Preparing, Returned, Told
<1> QED BY <1>2, <1>3, <1>4 DEF DoneInv

(* Whatever the application does with its own state.                       *)
LEMMA TableLeft ==
  ASSUME UNCHANGED <<slots, sent, events, ioPc, ioSlot>>
  PROVE  (Found => Found') /\ (Unsettled => Unsettled')
<1>1. Found => Found'
  BY DEF Found
<1>2. Unsettled => Unsettled'
  BY DEF Unsettled
<1> QED BY <1>1, <1>2

(* All commands of a call are left to do when it begins.                   *)
LEMMA BeginIsDone == ASSUME VendorInv, TypeInv, DoneInv, NEW c \in Calls, Begin(c) PROVE DoneInv'
<1>1. /\ UNCHANGED <<slots, sent, events, ioPc, ioSlot, manufacturer, vendor, overtaken, fault>>
      /\ chip' = [chip EXCEPT !.did = <<>>] /\ status' # "ok" /\ pc' \in {"idle", "next"}
      /\ call' = c /\ vendorPart' = (c # "init") /\ common' = None
  BY NoneAssumption DEF Begin, Return, ctlVars, ioVars
<1>2. chip'.did = <<>> /\ chip'.told = chip.told
  BY <1>1 DEF VendorInv, Shape, ChipRecord
<1>3. Told => Told'
  BY <1>1, <1>2 DEF Told
<1>4. Returned'
  BY <1>1 DEF Returned
<1>5. ASSUME pc' = "next" PROVE NextAt(0)' /\ 0 \in 0 .. Len(Program') - 1
  <2>1. \/ c = "init" /\ todo' = Common
        \/ c # "init" /\ vendor \in Vendors /\ todo' = Sequences[vendor][c]
    BY <1>5 DEF Begin, Return, VendorInv, Shape
  <2>2. todo' = Program' /\ todo' \in Seq(Commands) /\ todo' # <<>>
    BY <1>1, <2>1, CommonIs, SequencesTyped DEF Program, ProgramOf
  <2>3. Left(todo', Program', 0)
    BY <2>2 DEF Left
  <2>4. Ends(chip'.did, Program', 0)
    BY <1>2 DEF Ends
  <2> QED BY <2>2, <2>3, <2>4 DEF NextAt
<1>6. Calling'
  BY <1>1, <1>5 DEF Calling, Preparing
<1> QED BY <1>1, <1>3, <1>4, <1>6, TableLeft DEF DoneInv, Good, Running

(* The vendor's part of lb_initializeHCI follows the common one.           *)
LEMMA SelectIsDone == ASSUME VendorInv, TypeInv, OrderInv, DoneInv, ReadVersion \/ Select PROVE DoneInv'
<1>1. UNCHANGED <<call, common, slots, chip, sent, events, ioPc, ioSlot, overtaken, fault>> /\ Running
  BY DEF ReadVersion, Select, At, ioVars
<1> SUFFICES ASSUME ~overtaken PROVE DoneInv'
  BY <1>1 DEF DoneInv, Good
<1>2. Found /\ Unsettled /\ Calling /\ Told /\ Returned
  BY <1>1 DEF DoneInv, Good
<1>3. /\ pc \in {"version", "select"} /\ call = "init" /\ ~vendorPart /\ common \in {"ok", "failure"}
      /\ pc = "version" => common = "ok"
  BY DEF ReadVersion, Select, At, OrderInv, CallInOrder
<1>4. common = "ok" => Ends(chip.did, Common, 2) /\ sent = <<>>
  BY <1>2, <1>3 DEF Calling
<1>5. chip.did \in Seq(Commands) /\ Len(chip.did) \in Nat /\ DOMAIN chip.did = 1 .. Len(chip.did)
  BY DEF VendorInv, Shape, ChipRecord
<1>6. Found' /\ Unsettled'
  BY <1>1, <1>2, TableLeft
<1>7. CASE ReadVersion
  <2>1. pc' = "select" /\ manufacturer' = version /\ UNCHANGED vendor /\ common = "ok"
    BY <1>3, <1>7 DEF ReadVersion, At
  <2>2. Common[2] = "READ_LOCAL_VERSION"
    BY DEF Common
  <2>3. 2 <= Len(chip.did) /\ chip.did[Len(chip.did) - 2 + 2] = Common[2]
    BY <1>4, <2>1 DEF Ends
  <2>4. Len(chip.did) \in DOMAIN chip.did /\ chip.did[Len(chip.did)] = "READ_LOCAL_VERSION"
    BY <1>5, <2>2, <2>3
  <2>5. Told'
    BY <1>1, <1>2, <2>4 DEF Told
  <2>6. Calling' /\ Returned'
    BY <1>1, <1>4, <2>1 DEF Calling, Returned, Preparing
  <2> QED BY <1>6, <2>5, <2>6 DEF DoneInv
<1>8. CASE Select
  <2> DEFINE p == Program'
             v == vendor'
  <2>1. /\ v \in {vendor, manufacturer} /\ vendorPart' = TRUE /\ UNCHANGED manufacturer
        /\ \/ pc' = "idle" /\ status' = "unknown"
           \/ pc' = "idle" /\ v \in Vendors /\ VendorSequence(v) = <<>>
           \/ pc' = "next" /\ v \in Vendors /\ todo' = VendorSequence(v) /\ todo' # <<>>
    BY <1>8 DEF Select, Selected, Return
  <2>2. Told'
    BY <1>1, <1>2, <2>1 DEF Told
  <2>3. CASE pc' = "idle" /\ status' = "unknown"
    <3>1. Calling' /\ Returned'
      BY <2>3 DEF Calling, Returned, Preparing
    <3> QED BY <1>6, <2>2, <3>1 DEF DoneInv
  <2>4. CASE v \in Vendors /\ pc' \in {"idle", "next"} /\ (pc' = "idle" => VendorSequence(v) = <<>>)
             /\ (pc' = "next" => todo' = VendorSequence(v) /\ todo' # <<>>)
    <3> DEFINE s == VendorSequence(v)
               t == Sequences[v].init
    <3>0. PICK n \in {0, 2} : n = IF common = "failure" THEN 0 ELSE 2
      OBVIOUS
    <3>1. /\ s \in Seq(Commands) /\ t \in Seq(Commands)
          /\ Len(s) = Len(t) - 2 /\ (\A i \in 1 .. Len(s) : s[i] = t[2 + i])
          /\ t[1] = Common[1] /\ t[2] = Common[2]
      BY <2>4, VendorSequenceTyped, SequencesTyped DEF Calls
    <3>2. p = IF common = "failure" THEN s ELSE t
      BY <1>1, <1>3, <2>1 DEF Program, ProgramOf
    <3>3. Left(s, p, n) /\ Len(s) = Len(p) - n /\ n \in 0 .. Len(p)
      <4>1. CASE common = "failure"
        BY <3>0, <3>1, <3>2, <4>1 DEF Left
      <4>2. CASE common # "failure"
        BY <3>0, <3>1, <3>2, <4>2 DEF Left
      <4> QED BY <4>1, <4>2
    <3>4. Ends(chip.did, p, n) /\ (n > 0 => sent = <<>>)
      <4>1. CASE common = "failure"
        BY <1>5, <3>0, <4>1 DEF Ends
      <4>2. CASE common # "failure"
        <5>1. Ends(chip.did, Common, 2) /\ sent = <<>> /\ p = t /\ n = 2
          BY <1>3, <1>4, <3>0, <3>2, <4>2
        <5>2. \A i \in 1 .. 2 : i = 1 \/ i = 2
          OBVIOUS
        <5>3. \A i \in 1 .. 2 : t[i] = Common[i]
          BY <3>1, <5>2
        <5> HIDE DEF s, t, p
        <5> QED BY <5>1, <5>3 DEF Ends
      <4> QED BY <4>1, <4>2
    <3> HIDE DEF s, t
    <3>5. CASE pc' = "next"
      <4>1. todo' = s /\ s # <<>>
        BY <2>4, <3>5 DEF s
      <4>2. n \in 0 .. Len(p) - 1
        BY <3>1, <3>3, <4>1
      <4>3. NextAt(n)'
        BY <1>1, <3>3, <3>4, <4>1 DEF NextAt
      <4>4. Calling'
        BY <3>5, <4>2, <4>3 DEF Calling, Preparing
      <4>5. Returned'
        BY <3>5 DEF Returned
      <4> QED BY <1>6, <2>2, <4>4, <4>5 DEF DoneInv
    <3>6. CASE pc' = "idle"
      <4>1. Len(s) = 0
        BY <2>4, <3>6 DEF s
      <4>2. n = Len(p) /\ (p # <<>> => n > 0)
        <5>1. p \in Seq(Commands)
          BY <3>1, <3>2
        <5> QED BY <3>3, <4>1, <5>1
      <4>3. Calling'
        BY <3>6 DEF Calling, Preparing
      <4>4. Returned'
        BY <1>1, <3>4, <4>2 DEF Returned
      <4> QED BY <1>6, <2>2, <4>3, <4>4 DEF DoneInv
    <3> QED BY <2>4, <3>5, <3>6
  <2> QED BY <2>1, <2>3, <2>4
<1> QED BY <1>7, <1>8

(* A command of the call that is in progress.                              *)
LEMMA InProgram ==
  ASSUME VendorInv, TypeInv, OrderInv, pc \in Commanding, NEW n \in 0 .. Len(Program) - 1, Left(todo, Program, n)
  PROVE  /\ Program \in Seq(Commands) /\ n \in Nat /\ n < Len(Program) /\ n + 1 \in DOMAIN Program
         /\ Program[n + 1] \in Commands /\ Head(todo) = Program[n + 1]
         /\ todo \in Seq(Commands) /\ todo # <<>>
<1>1. vendorPart \in BOOLEAN /\ call \in Calls /\ (vendorPart => vendor \in Vendors) /\ todo \in Seq(Commands)
      /\ todo # <<>>
  BY DEF TypeInv, AppTyped, OrderInv, CallInOrder, VendorInv, Shape, Commanding, HasSlot, Preparing
<1>2. Program \in Seq(Commands)
  BY <1>1, Programs DEF Program
<1>3. n \in Nat /\ n < Len(Program) /\ n + 1 \in DOMAIN Program /\ Program[n + 1] \in Commands
  BY <1>2
<1>4. Len(todo) >= 1 /\ Head(todo) = todo[1]
  BY <1>1
<1>5. todo[1] = Program[n + 1]
  BY <1>4 DEF Left
<1> QED BY <1>1, <1>2, <1>3, <1>4, <1>5

(* A command takes the first free slot: it is the last one in use, and     *)
(* nothing of the command was sent or answered unless an earlier one still *)
(* has a slot.                                                             *)
LEMMA ReserveIsDone == ASSUME VendorInv, TypeInv, OrderInv, DoneInv, Reserve PROVE DoneInv'
<1> DEFINE c == Head(todo)
           m == Min(FreeSlots)
<1>1. /\ pc = "next" /\ Running
      /\ UNCHANGED <<call, todo, vendorPart, common, status, manufacturer, vendor, chip, sent, events, ioPc, ioSlot,
                     fault>>
  BY DEF Reserve, At, ctlVars, ioVars
<1>2. overtaken => overtaken'
  BY DEF Reserve
<1> SUFFICES ASSUME ~overtaken' PROVE DoneInv'
  BY <1>2 DEF DoneInv, Good
<1>3. Found /\ Unsettled /\ Calling /\ Told /\ Returned
  BY <1>1, <1>2 DEF DoneInv, Good
<1>4. Told'
  BY <1>1, <1>3 DEF Told
<1>5. PICK n \in 0 .. Len(Program) - 1 : NextAt(n)
  BY <1>1, <1>3 DEF Calling
<1>6. /\ n \in Nat /\ Head(todo) = Program[n + 1] /\ c \in Commands /\ Program' = Program
  BY <1>1, <1>5, InProgram DEF NextAt, Commanding, Program
<1>7. NextAt(n)'
  BY <1>1, <1>5, <1>6 DEF NextAt
<1>8. CASE FreeSlots = {}
  <2>1. pc' = "full" /\ UNCHANGED slots
    BY <1>8 DEF Reserve
  <2>2. Found' /\ Unsettled'
    BY <1>1, <1>3, <2>1, TableLeft
  <2>3. Calling' /\ Returned'
    BY <1>5, <1>6, <1>7, <2>1 DEF Calling, Returned, Preparing
  <2> QED BY <1>4, <2>2, <2>3 DEF DoneInv
<1>9. CASE FreeSlots # {}
  <2>1. /\ m \in Slots /\ slots[m].op = None /\ \A u \in Slots : Used(u) => u < m
    BY <1>9, FirstFree DEF OrderInv
  <2>2. /\ pc' = "reset" /\ own' = m /\ slots' = [slots EXCEPT ![m].op = c]
        /\ ~(OnFreeSlot /\ m = ioSlot)
    BY <1>9 DEF Reserve
  <2> HIDE DEF m, c
  <2>3. /\ slots'[m].op = c /\ slots'[m].status = slots[m].status /\ \A u \in Slots : u # m => slots'[u] = slots[u]
    BY <2>1, <2>2 DEF TypeInv, SlotsTyped, SlotRecord
  <2>4. c # None
    BY <1>6, NoneAssumption
  <2>5. Found'
    <3> DEFINE e == Head(events)
    <3>1. ioPc # "idle" => events # <<>> /\ events \in Seq(Events) /\ e = events[1] /\ 1 \in DOMAIN events
      BY DEF VendorInv, Shape
    <3>2. ioPc # "idle" => e.kind \in Handled /\ (Answers(e) => e.op \in Commands)
      BY <3>1 DEF VendorInv, Shape, Answers, Events
    <3>3. \A u \in Slots : u \in Nat
      BY SlotAssumption DEF Slots
    <3>4. ioSlot \in Nat /\ (ioPc \in Matched => ioSlot \in Slots) /\ "idle" \notin Matched
      BY SlotAssumption DEF TypeInv, IoTyped, Matched
    <3> HIDE DEF e
    <3>5. ioPc # "idle" /\ Answers(e) /\ m < ioSlot => e.op # c
      <4> SUFFICES ASSUME ioPc # "idle", Answers(e), m < ioSlot, e.op = c PROVE FALSE
        OBVIOUS
      <4>1. ~NoAnswerTo(events, c)
        BY <3>1 DEF NoAnswerTo, AnswersTo
      <4>2. PICK u \in Slots : slots[u].op = c
        BY <1>3, <1>6, <4>1 DEF Unsettled, c
      <4>3. u < m
        BY <2>1, <2>4, <4>2 DEF Used
      <4>4. u < ioSlot
        BY <2>1, <3>3, <3>4, <4>3
      <4> QED BY <1>3, <4>2, <4>4 DEF Found, e
    <3>6. ioPc # "idle" /\ Answers(e) => \A s \in Slots : s < ioSlot => slots'[s].op # e.op
      BY <1>3, <2>3, <3>5 DEF Found, e
    <3>7. ioPc \in Matched => ioSlot # m
      <4> SUFFICES ASSUME ioPc \in Matched, ioSlot = m PROVE FALSE
        OBVIOUS
      <4>1. Opcode(e) = None
        BY <1>3, <2>1 DEF Found, e
      <4>2. e.kind = "nop"
        BY <3>2, <3>4, <4>1, NoneAssumption DEF Opcode, Answers, Handled
      <4> QED BY <2>2, <4>2 DEF OnFreeSlot, e
    <3>8. ioPc \in Matched => slots'[ioSlot] = slots[ioSlot]
      BY <2>3, <3>4, <3>7
    <3>9. "signal" \in Matched
      BY DEF Matched
    <3> QED BY <1>1, <1>3, <3>6, <3>8, <3>9 DEF Found, e
  <2>6. Unsettled'
    <3>1. \A d \in Commands : (\A u \in Slots : slots'[u].op # d) => \A u \in Slots : slots[u].op # d
      BY <2>1, <2>3, NoneAssumption
    <3> QED BY <1>1, <1>3, <3>1 DEF Unsettled
  <2>7. Doubled' \/ (NoneOf(sent, c) /\ NoAnswerTo(events, c))
    <3>1. ~Doubled' => \A u \in Slots : slots[u].op # c
      BY <2>1, <2>2, <2>3, <2>4 DEF Doubled
    <3> QED BY <1>3, <1>6, <3>1 DEF Unsettled, c
  <2>8. PreparedAt(n)'
    BY <1>1, <1>6, <1>7, <2>2, <2>7 DEF PreparedAt, c
  <2>9. Calling' /\ Returned'
    BY <1>5, <1>6, <2>2, <2>8 DEF Calling, Returned
  <2> QED BY <1>4, <2>5, <2>6, <2>9 DEF DoneInv
<1> QED BY <1>8, <1>9

(* An answer finds the slot of the command in progress only if no earlier  *)
(* one has the opcode.                                                     *)
LEMMA OwnIsFound ==
  ASSUME VendorInv, TypeInv, OrderInv, Found, pc \in HasSlot, ioPc \in Matched, ioSlot = own
  PROVE  Answers(Head(events)) /\ AnswersTo(Head(events), slots[own].op) /\ ~Doubled
<1> DEFINE e == Head(events)
<1>1. /\ ioPc # "idle" /\ e.kind \in Handled /\ own \in Slots
  BY DEF Matched, VendorInv, Shape, TypeInv, AppTyped
<1>2. slots[own].op = Opcode(e)
  BY DEF Found
<1>3. slots[own].op # None /\ \A s \in Slots : slots[s].op # None => s <= own
  BY DEF OrderInv, SlotsInOrder, Used
<1> HIDE DEF e
<1>4. Answers(e) /\ slots[own].op = e.op
  BY <1>1, <1>2, <1>3 DEF Opcode, Answers, Handled
<1>5. ~Doubled
  <2> SUFFICES ASSUME NEW s \in Slots, s # own, slots[s].op = slots[own].op PROVE FALSE
    BY DEF Doubled
  <2>1. s <= own
    BY <1>3
  <2>2. s < own
    BY <1>1, <2>1, SlotAssumption DEF Slots
  <2> QED BY <1>1, <1>4, <2>2 DEF Found, e
<1> QED BY <1>4, <1>5 DEF AnswersTo, e

(* Nothing answers a command before it is sent.                            *)
LEMMA FillIsDone ==
  ASSUME VendorInv, TypeInv, OrderInv, DoneInv, ResetSlot \/ SetCapacity \/ SetBuffer \/ SetBusy
  PROVE  DoneInv'
<1>1. /\ pc \in Preparing /\ pc' \in Preparing \ {"reset"} /\ Running
      /\ UNCHANGED <<call, todo, vendorPart, own, common, status, manufacturer, vendor, chip, sent, events,
                     ioPc, ioSlot, overtaken, fault>>
  BY DEF ResetSlot, SetCapacity, SetBuffer, SetBusy, OnlySlots, At, ctlVars, ioVars, Preparing
<1> SUFFICES ASSUME ~overtaken PROVE DoneInv'
  BY <1>1 DEF DoneInv, Good
<1>2. Found /\ Unsettled /\ Calling /\ Told /\ Returned
  BY <1>1 DEF DoneInv, Good
<1>3. own \in Slots /\ slots \in [Slots -> SlotRecord] /\ pc \in HasSlot /\ pc \in Commanding
  BY <1>1 DEF TypeInv, AppTyped, SlotsTyped, HasSlot, Commanding
<1>4. PICK n \in 0 .. Len(Program) - 1 : PreparedAt(n)
  BY <1>1, <1>2 DEF Calling
<1>5. slots[own].op = Program[n + 1] /\ Program' = Program
  <2>1. Left(todo, Program, n)
    BY <1>4 DEF PreparedAt, NextAt
  <2>2. Head(todo) = Program[n + 1]
    BY <1>3, <2>1, InProgram
  <2> QED BY <1>1, <1>3, <2>2 DEF OrderInv, SlotsFilled, Program
<1>6. /\ \A s \in Slots : slots'[s].op = slots[s].op /\ (s # own => slots'[s] = slots[s])
      /\ slots'[own].signaled => slots[own].signaled /\ pc # "reset"
  <2>1. CASE ResetSlot
    BY <1>3, <2>1 DEF ResetSlot, SlotRecord
  <2>2. CASE SetCapacity
    <3>1. pc # "reset" /\ slots' = [slots EXCEPT ![own].capacity = WantsResult(Head(todo))]
      BY <2>2 DEF SetCapacity, At
    <3> QED BY <1>3, <3>1 DEF SlotRecord
  <2>3. CASE SetBuffer
    <3>1. pc # "reset" /\ slots' = [slots EXCEPT ![own].buffer = WantsResult(Head(todo))]
      BY <2>3 DEF SetBuffer, At
    <3> QED BY <1>3, <3>1 DEF SlotRecord
  <2>4. CASE SetBusy
    BY <1>3, <2>4 DEF SetBusy, At, SlotRecord
  <2> QED BY <2>1, <2>2, <2>3, <2>4
<1>7. Found'
  <2>1. ioPc \in Matched => ioSlot \in Slots
    BY DEF TypeInv, IoTyped
  <2>2. ioPc = "signal" /\ Answers(Head(events)) => ioSlot # own
    <3> SUFFICES ASSUME ioPc = "signal", ioSlot = own PROVE ~Answers(Head(events))
      OBVIOUS
    <3>1. AnswersTo(Head(events), slots[own].op) /\ ~Doubled /\ events # <<>>
      BY <1>2, <1>3, OwnIsFound DEF Matched, VendorInv, Shape
    <3>2. NoAnswerTo(events, slots[own].op)
      BY <1>4, <1>5, <3>1 DEF PreparedAt
    <3>3. Head(events) = events[1] /\ 1 \in DOMAIN events
      BY <3>1 DEF VendorInv, Shape
    <3> QED BY <3>1, <3>2, <3>3 DEF NoAnswerTo
  <2>3. \A s \in Slots : slots'[s].op = slots[s].op
    BY <1>6
  <2>4. ioPc = "signal" /\ Answers(Head(events)) => slots'[ioSlot] = slots[ioSlot]
    BY <1>6, <2>1, <2>2 DEF Matched
  <2> QED BY <1>1, <1>2, <2>1, <2>3, <2>4 DEF Found
<1>8. Unsettled'
  BY <1>1, <1>2, <1>6 DEF Unsettled
<1>9. Told' /\ Returned'
  BY <1>1, <1>2 DEF Told, Returned, Preparing
<1>10. PreparedAt(n)'
  <2>1. NextAt(n)'
    BY <1>1, <1>4, <1>5 DEF PreparedAt, NextAt
  <2>2. Doubled' <=> Doubled
    BY <1>1, <1>3, <1>6 DEF Doubled
  <2>3. ~slots'[own].signaled
    BY <1>4, <1>6 DEF PreparedAt
  <2> QED BY <1>1, <1>4, <1>5, <2>1, <2>2, <2>3 DEF PreparedAt
<1>11. Calling'
  BY <1>1, <1>4, <1>5, <1>10 DEF Calling, Preparing
<1> QED BY <1>7, <1>8, <1>9, <1>11 DEF DoneInv

(* A command is sent after nothing else was, unless it has a double.       *)
LEMMA TransmitIsDone == ASSUME VendorInv, TypeInv, OrderInv, DoneInv, Transmit \/ TransmitAnyway PROVE DoneInv'
<1>1. /\ pc \in {"send", "full"} /\ Running
      /\ UNCHANGED <<call, todo, vendorPart, own, common, status, manufacturer, vendor, slots, chip, events,
                     ioPc, ioSlot, overtaken>>
      /\ sent' = Append(sent, Head(todo))
  BY DEF Transmit, TransmitAnyway, At, appVars, ctlVars, ioVars
<1> SUFFICES ASSUME ~overtaken PROVE DoneInv'
  BY <1>1 DEF DoneInv, Good
<1>2. Found /\ Unsettled /\ Calling /\ Told /\ Returned
  BY <1>1 DEF DoneInv, Good
<1>3. Told'
  BY <1>1, <1>2 DEF Told
<1>4. CASE TransmitAnyway
  <2>1. fault' = "full" /\ pc' = pc /\ pc = "full"
    BY <1>4 DEF TransmitAnyway, At, appVars
  <2> QED BY <1>3, <2>1 DEF DoneInv, Good, Running, Returned
<1>5. CASE Transmit
  <2>1. pc = "send" /\ pc' = "wait" /\ pc \in Preparing /\ pc \in HasSlot /\ pc \in Commanding
    BY <1>5 DEF Transmit, At, Preparing, HasSlot, Commanding
  <2>2. PICK n \in 0 .. Len(Program) - 1 : PreparedAt(n)
    BY <1>2, <2>1 DEF Calling
  <2> DEFINE c == Head(todo)
  <2>3. Left(todo, Program, n) /\ Ends(chip.did, Program, n) /\ (n > 0 => sent = <<>>) /\ ~slots[own].signaled
    BY <2>1, <2>2 DEF PreparedAt, NextAt
  <2>4. c = Program[n + 1] /\ c \in Commands /\ slots[own].op = c
    BY <2>1, <2>3, InProgram DEF OrderInv, SlotsFilled
  <2>5. sent \in Seq(Commands) /\ own \in Slots /\ Program' = Program /\ (Doubled' <=> Doubled)
    BY <1>1 DEF VendorInv, Shape, TypeInv, AppTyped, Program, Doubled
  <2> HIDE DEF c
  <2>6. Found'
    BY <1>1, <1>2 DEF Found
  <2>7. Unsettled'
    <3>1. ASSUME NEW d \in Commands, \A s \in Slots : slots[s].op # d
          PROVE  NoneOf(sent', d) /\ NoAnswerTo(events, d)
      <4>1. d # c /\ NoneOf(sent, d) /\ NoAnswerTo(events, d)
        BY <1>2, <2>4, <2>5, <3>1 DEF Unsettled
      <4> QED BY <1>1, <2>4, <2>5, <4>1, SentMore DEF c
    <3> QED BY <1>1, <3>1 DEF Unsettled
  <2>8. WaitAt(n)'
    <3>1. ASSUME ~Doubled PROVE Stage(sent', events, FALSE, slots[own].status, chip.did, Program, n)
      <4>1. NoneOf(sent, c) /\ NoAnswerTo(events, c)
        BY <2>2, <2>4, <3>1 DEF PreparedAt
      <4>2. AtEnd(sent', c)
        BY <1>1, <2>4, <2>5, <4>1, SentMore DEF c
      <4>3. n > 0 => Len(sent') = 1
        <5>1. Len(Append(<<>>, c)) = 1
          OBVIOUS
        <5> QED BY <1>1, <2>3, <5>1 DEF c
      <4> QED BY <2>3, <2>4, <4>1, <4>2, <4>3 DEF Stage
    <3>2. slots'[own'].signaled = FALSE
      BY <1>1, <2>3, <2>5 DEF TypeInv, SlotsTyped, SlotRecord
    <3> QED BY <1>1, <2>3, <2>5, <3>1, <3>2 DEF WaitAt
  <2>9. Calling' /\ Returned'
    BY <2>1, <2>2, <2>5, <2>8 DEF Calling, Returned, Preparing
  <2> QED BY <1>3, <2>6, <2>7, <2>9 DEF DoneInv
<1> QED BY <1>4, <1>5

(* A command that is given up leaves everything as it was, but its call.   *)
LEMMA TimeoutIsDone == ASSUME VendorInv, TypeInv, DoneInv, TimedOut PROVE DoneInv'
<1>1. /\ Running /\ pc = "wait"
      /\ UNCHANGED <<vendorPart, slots, chip, sent, events, ioPc, ioSlot, manufacturer, vendor, overtaken, fault>>
      /\ Proceed(slots[own].op, FALSE)
  BY DEF TimedOut, At, ctlVars, ioVars
<1>2. /\ pc' \in {"idle", "select"} /\ (pc' = "select" => common' = "failure")
      /\ status' # "ok"
  BY <1>1, NoneAssumption DEF Proceed, Succeeded
<1>3. Calling' /\ Returned'
  BY <1>2 DEF Calling, Returned, Preparing
<1>4. Told => Told'
  BY <1>1 DEF Told
<1>5. (Found => Found') /\ (Unsettled => Unsettled')
  BY <1>1, TableLeft
<1> QED BY <1>1, <1>3, <1>4, <1>5 DEF DoneInv, Good, Running

(* A command that is answered gives its slot back.  It was executed if the *)
(* answer says so.                                                         *)
LEMMA AnsweredIsDone == ASSUME VendorInv, TypeInv, OrderInv, DoneInv, Answered PROVE DoneInv'
<1> DEFINE p == Program
           c == slots[own].op
           ok == slots[own].status = "ok"
<1>1. /\ pc = "wait" /\ Running /\ pc \in HasSlot /\ pc \in Commanding
      /\ UNCHANGED <<call, vendorPart, vendor, own, chip, sent, events, ioPc, ioSlot, overtaken, fault, manufacturer>>
      /\ slots[own].signaled /\ Proceed(c, ok) /\ slots' = [slots EXCEPT ![own].op = None]
  BY DEF Answered, At, ctlVars, ioVars, Freed, HasSlot, Commanding
<1> SUFFICES ASSUME ~overtaken PROVE DoneInv'
  BY <1>1 DEF DoneInv, Good
<1>2. Found /\ Unsettled /\ Calling /\ Told /\ Returned
  BY <1>1 DEF DoneInv, Good
<1>3. /\ own \in Slots /\ slots \in [Slots -> SlotRecord]
      /\ \A i \in DOMAIN todo : vendorPart => todo[i] # "READ_LOCAL_VERSION"
  BY <1>1 DEF TypeInv, AppTyped, SlotsTyped, OrderInv, CallInOrder
<1>4. /\ \A s \in Slots : slots'[s].status = slots[s].status /\ (s # own => slots'[s] = slots[s])
      /\ slots'[own].op = None
  BY <1>1, <1>3 DEF SlotRecord
<1>5. PICK n \in 0 .. Len(p) - 1 : WaitAt(n)
  BY <1>1, <1>2 DEF Calling
<1>6. Left(todo, p, n)
  BY <1>5 DEF WaitAt
<1>7. /\ p \in Seq(Commands) /\ n \in Nat /\ n < Len(p) /\ todo \in Seq(Commands) /\ todo # <<>>
      /\ c = p[n + 1] /\ c = Head(todo) /\ c \in Commands /\ c # None
  BY <1>1, <1>6, InProgram, NoneAssumption DEF OrderInv, SlotsFilled
<1>8. ~Doubled /\ sent = <<>> /\ NoAnswerTo(events, c) /\ (ok => Ends(chip.did, p, n + 1))
  BY <1>1, <1>5, <1>7 DEF WaitAt, Stage
<1>9. c = "READ_LOCAL_VERSION" => ~vendorPart
  BY <1>3, <1>7, TailElements
<1>10. Program' = Program
  <2>1. vendorPart => common' = common
    BY <1>1 DEF Proceed
  <2> QED BY <1>1, <2>1 DEF Program, ProgramOf
<1> HIDE DEF p, c, ok
<1>11. Found'
  <2> DEFINE e == Head(events)
  <2>1. ioPc # "idle" => events # <<>> /\ events \in Seq(Events) /\ e = events[1] /\ 1 \in DOMAIN events
    BY DEF VendorInv, Shape
  <2>2. ioPc # "idle" /\ Answers(e) => e.op # None
    BY <2>1, NoneAssumption DEF Answers, Events
  <2>3. (ioPc \in Matched => ioSlot \in Slots) /\ "idle" \notin Matched /\ "signal" \in Matched
    BY DEF TypeInv, IoTyped, Matched
  <2>4. ioPc \in Matched => ioSlot # own
    <3> SUFFICES ASSUME ioPc \in Matched, ioSlot = own PROVE FALSE
      OBVIOUS
    <3>1. AnswersTo(e, c)
      BY <1>1, <1>2, OwnIsFound DEF c
    <3> QED BY <1>8, <2>1, <2>3, <3>1 DEF NoAnswerTo
  <2>5. ioPc \in Matched => slots'[ioSlot] = slots[ioSlot]
    BY <1>4, <2>3, <2>4
  <2>6. ioPc # "idle" /\ Answers(e) => \A s \in Slots : s < ioSlot => slots'[s].op # e.op
    BY <1>2, <1>4, <2>2 DEF Found, e
  <2> HIDE DEF e
  <2> QED BY <1>1, <1>2, <2>3, <2>5, <2>6 DEF Found, e
<1>12. Unsettled'
  <2>1. ASSUME NEW d \in Commands, \A s \in Slots : slots'[s].op # d
        PROVE  NoneOf(sent', d) /\ NoAnswerTo(events', d)
    <3>1. CASE d = c
      BY <1>1, <1>8, <3>1 DEF NoneOf
    <3>2. CASE d # c
      <4>1. \A s \in Slots : slots[s].op # d
        BY <1>3, <1>4, <2>1, <3>2 DEF c
      <4> QED BY <1>1, <1>2, <4>1 DEF Unsettled
    <3> QED BY <3>1, <3>2
  <2> QED BY <2>1 DEF Unsettled
<1>13. Told'
  BY <1>1, <1>2 DEF Told
<1>14. /\ ok => todo' = Tail(todo)
       /\ ok /\ todo' # <<>> => pc' = "next"
       /\ ok /\ todo' = <<>> => pc' = IF c = "READ_LOCAL_VERSION" THEN "version" ELSE "idle"
       /\ ~ok => pc' = IF vendorPart THEN "idle" ELSE "select"
       /\ ~ok => status' # "ok" /\ (~vendorPart => common' = "failure")
  <2>1. CASE ok
    BY <1>1, <2>1 DEF Proceed, Succeeded
  <2>2. CASE ~ok
    BY <1>1, <2>2, NoneAssumption DEF Proceed, Succeeded
  <2> QED BY <2>1, <2>2
<1>15. ASSUME ok PROVE Left(todo', p, n + 1) /\ Len(todo') = Len(p) - (n + 1) /\ Len(todo') \in Nat
  <2>1. /\ todo' \in Seq(Commands) /\ Len(todo') = Len(todo) - 1
        /\ \A i \in 1 .. Len(todo) - 1 : todo'[i] = todo[i + 1]
    BY <1>7, <1>14, <1>15
  <2>2. Len(todo) = Len(p) - n /\ \A i \in 1 .. Len(todo) : todo[i] = p[n + i]
    BY <1>6 DEF Left
  <2>3. Len(todo) \in Nat
    BY <1>7
  <2>4. \A i \in 1 .. Len(todo) - 1 : i + 1 \in 1 .. Len(todo) /\ n + (i + 1) = n + 1 + i
    BY <1>7, <2>3
  <2>5. \A i \in 1 .. Len(todo) - 1 : todo'[i] = p[n + 1 + i]
    BY <2>1, <2>2, <2>4
  <2>6. Len(todo') = Len(p) - (n + 1)
    BY <1>7, <2>1, <2>2
  <2> QED BY <2>1, <2>5, <2>6 DEF Left
<1>16. CASE ok /\ todo' # <<>>
  <2>1. n + 1 \in 0 .. Len(p) - 1
    <3>1. Len(todo') # 0
      BY <1>7, <1>14, <1>16, TailElements, EmptySeq
    <3> QED BY <1>7, <1>15, <1>16, <3>1
  <2>2. NextAt(n + 1)'
    BY <1>1, <1>8, <1>10, <1>15, <1>16 DEF NextAt, p
  <2>3. Calling' /\ Returned'
    BY <1>10, <1>14, <1>16, <2>1, <2>2 DEF Calling, Returned, Preparing, p
  <2> QED BY <1>11, <1>12, <1>13, <2>3 DEF DoneInv
<1>17. CASE ok /\ todo' = <<>>
  <2>1. n + 1 = Len(p)
    <3>1. Len(todo') = 0
      BY <1>17
    <3> QED BY <1>7, <1>15, <1>17, <3>1
  <2>2. Ends(chip.did, p, Len(p))
    BY <1>8, <1>17, <2>1
  <2>3. CASE c = "READ_LOCAL_VERSION"
    <3>1. pc' = "version" /\ ~vendorPart
      BY <1>9, <1>14, <1>17, <2>3
    <3>2. p = Common /\ Len(p) = 2
      BY <3>1, CommonIs DEF p, Program, ProgramOf
    <3>3. Calling' /\ Returned'
      BY <1>1, <1>8, <2>2, <3>1, <3>2 DEF Calling, Returned, Preparing
    <3> QED BY <1>11, <1>12, <1>13, <3>3 DEF DoneInv
  <2>4. CASE c # "READ_LOCAL_VERSION"
    <3>1. pc' = "idle"
      BY <1>14, <1>17, <2>4
    <3>2. Calling' /\ Returned'
      BY <1>1, <1>8, <1>10, <2>2, <3>1 DEF Calling, Returned, Preparing, p
    <3> QED BY <1>11, <1>12, <1>13, <3>2 DEF DoneInv
  <2> QED BY <2>3, <2>4
<1>18. CASE ~ok
  <2>1. pc' \in {"idle", "select"} /\ (pc' = "select" => common' = "failure") /\ status' # "ok"
    BY <1>14, <1>18
  <2>2. Calling' /\ Returned'
    BY <2>1 DEF Calling, Returned, Preparing
  <2> QED BY <1>11, <1>12, <1>13, <2>2 DEF DoneInv
<1> QED BY <1>16, <1>17, <1>18

(* The chip takes a command: it executes and answers it, refuses it, or    *)
(* one of the two gets lost.                                               *)
LEMMA StageServed ==
  ASSUME NEW q \in Seq(Commands), q # <<>>, NEW evs \in Seq(Events), NEW evs2 \in Seq(Events), NEW st,
         NEW d \in Seq(Commands), NEW d2 \in Seq(Commands), NEW p \in Seq(Commands), NEW n \in Nat, n < Len(p),
         Stage(q, evs, FALSE, st, d, p, n),
         \A b \in Commands : b # Head(q) /\ NoAnswerTo(evs, b) => NoAnswerTo(evs2, b),
         NoAnswerTo(evs, Head(q)) =>
           \/ d2 = Append(d, Head(q)) /\ OneAnswerTo(evs2, Head(q), "ok")
           \/ OneAnswerTo(evs2, Head(q), "error")
           \/ NoAnswerTo(evs2, Head(q))
  PROVE  Stage(Tail(q), evs2, FALSE, st, d2, p, n)
<1> DEFINE c == p[n + 1]
<1>1. c \in Commands /\ n + 1 \in DOMAIN p
  OBVIOUS
<1>2. /\ AtEnd(q, c) /\ NoAnswerTo(evs, c) /\ Ends(d, p, n) /\ (n > 0 => Len(q) = 1)
  BY DEF Stage
<1>3. CASE Len(q) = 1
  <2>1. Head(q) = c /\ Tail(q) = <<>>
    BY <1>1, <1>2, <1>3, SentLess
  <2>2. d2 = Append(d, c) => Ends(d2, p, n + 1)
    BY <1>2, EndsMore
  <2>3. \/ Ends(d2, p, n + 1) /\ OneAnswerTo(evs2, c, "ok")
        \/ OneAnswerTo(evs2, c, "error")
        \/ NoAnswerTo(evs2, c)
    BY <1>2, <2>1, <2>2
  <2> HIDE DEF c
  <2> QED BY <2>1, <2>3 DEF Stage, c
<1>4. CASE Len(q) # 1
  <2>1. Head(q) # c /\ AtEnd(Tail(q), c) /\ n = 0
    BY <1>1, <1>2, <1>4, SentLess
  <2>2. NoAnswerTo(evs2, c)
    BY <1>1, <1>2, <2>1
  <2>3. Ends(d2, p, 0)
    BY DEF Ends
  <2> QED BY <2>1, <2>2, <2>3 DEF Stage
<1> QED BY <1>3, <1>4

LEMMA ServedAnswers ==
  ASSUME events \in Seq(Events), NEW c \in Commands, NEW b \in Commands, NoAnswerTo(events, b),
         \/ chip' = Executed(c) /\ events' = Append(events, Answer(c, "ok")) \o Done(c)
         \/ chip' = chip /\ events' = Append(events, Answer(c, "error"))
         \/ chip' \in {chip, Executed(c)} /\ events' = events
  PROVE  IF b = c THEN \/ chip' = Executed(c) /\ OneAnswerTo(events', b, "ok")
                       \/ OneAnswerTo(events', b, "error")
                       \/ NoAnswerTo(events', b)
                  ELSE NoAnswerTo(events', b)
<1>1. Done(c) = <<>> \/ (Done(c) = <<Event("done")>> /\ Event("done") \in Events /\ ~AnswersTo(Event("done"), b))
  BY DEF Done, Event, Events, AnswersTo, Answers
<1>2. \A code \in {"ok", "error"} :
        LET q == Append(events, Answer(c, code)) IN
        q \in Seq(Events) /\ IF b = c THEN OneAnswerTo(q, b, code) ELSE NoAnswerTo(q, b)
  <2> SUFFICES ASSUME NEW code \in {"ok", "error"}
               PROVE  LET q == Append(events, Answer(c, code)) IN
                      q \in Seq(Events) /\ IF b = c THEN OneAnswerTo(q, b, code) ELSE NoAnswerTo(q, b)
    OBVIOUS
  <2> DEFINE a == Answer(c, code)
  <2>1. a \in Events /\ a.code = code /\ (AnswersTo(a, b) <=> b = c)
    BY DEF Answer, Events, AnswersTo, Answers
  <2> HIDE DEF a
  <2>2. Append(events, a) \in Seq(Events)
    BY <2>1
  <2>3. IF b = c THEN OneAnswerTo(Append(events, a), b, code) ELSE NoAnswerTo(Append(events, a), b)
    BY <2>1, EventsMore
  <2> QED BY <2>2, <2>3 DEF a
<1>3. CASE chip' = Executed(c) /\ events' = Append(events, Answer(c, "ok")) \o Done(c)
  <2> DEFINE q == Append(events, Answer(c, "ok"))
  <2>1. q \in Seq(Events) /\ IF b = c THEN OneAnswerTo(q, b, "ok") ELSE NoAnswerTo(q, b)
    BY <1>2
  <2> HIDE DEF q
  <2>2. CASE Done(c) = <<>>
    <3>1. events' = q
      BY <1>3, <2>1, <2>2 DEF q
    <3> QED BY <1>3, <2>1, <3>1
  <2>3. CASE Done(c) = <<Event("done")>> /\ Event("done") \in Events /\ ~AnswersTo(Event("done"), b)
    <3>1. events' = Append(q, Event("done"))
      BY <1>3, <2>1, <2>3, AppendIsConcat DEF q
    <3> QED BY <1>3, <2>1, <2>3, <3>1, EventsMore
  <2> QED BY <1>1, <2>2, <2>3
<1>4. CASE events' = Append(events, Answer(c, "error"))
  BY <1>2, <1>4
<1>5. CASE events' = events
  BY <1>5
<1> QED BY <1>3, <1>4, <1>5

LEMMA ServeIsDone == ASSUME VendorInv, TypeInv, OrderInv, DoneInv, Serve PROVE DoneInv'
<1> DEFINE c == Head(sent)
           p == Program
<1>1. /\ Running
      /\ UNCHANGED <<pc, call, todo, vendorPart, own, common, status, manufacturer, vendor, slots, ioPc, ioSlot,
                     overtaken, fault>>
      /\ sent # <<>> /\ sent' = Tail(sent)
  BY DEF Serve, appVars, ctlVars, ioVars
<1> SUFFICES ASSUME ~overtaken PROVE DoneInv'
  BY <1>1 DEF DoneInv, Good
<1>2. Found /\ Unsettled /\ Calling /\ Told /\ Returned
  BY <1>1 DEF DoneInv, Good
<1>3. /\ sent \in Seq(Commands) /\ c \in Commands /\ events \in Seq(Events)
      /\ chip \in ChipRecord /\ chip.did \in Seq(Commands)
      /\ events' \in Seq(Events) /\ chip'.did \in Seq(Commands)
  <2>1. VendorInv'
    BY ServeKeeps
  <2> QED BY <1>1, <2>1 DEF VendorInv, Shape, ChipRecord
<1>4. \/ chip' = Executed(c) /\ events' = Append(events, Answer(c, "ok")) \o Done(c)
      \/ chip' = chip /\ events' = Append(events, Answer(c, "error"))
      \/ chip' \in {chip, Executed(c)} /\ events' = events
  BY DEF Serve
<1>5. Executed(c).did = Append(chip.did, c) /\ Executed(c).told = (chip.told \/ c = "READ_LOCAL_VERSION")
  BY <1>3, ExecutedIs
<1>6. \A b \in Commands : NoAnswerTo(events, b) =>
        IF b = c THEN \/ chip'.did = Append(chip.did, c) /\ OneAnswerTo(events', b, "ok")
                      \/ OneAnswerTo(events', b, "error")
                      \/ NoAnswerTo(events', b)
                 ELSE NoAnswerTo(events', b)
  <2> SUFFICES ASSUME NEW b \in Commands, NoAnswerTo(events, b)
               PROVE  IF b = c THEN \/ chip'.did = Append(chip.did, c) /\ OneAnswerTo(events', b, "ok")
                                    \/ OneAnswerTo(events', b, "error")
                                    \/ NoAnswerTo(events', b)
                               ELSE NoAnswerTo(events', b)
    OBVIOUS
  <2>1. IF b = c THEN \/ chip' = Executed(c) /\ OneAnswerTo(events', b, "ok")
                      \/ OneAnswerTo(events', b, "error")
                      \/ NoAnswerTo(events', b)
                 ELSE NoAnswerTo(events', b)
    BY <1>3, <1>4, ServedAnswers
  <2> QED BY <1>5, <2>1
<1>7. events # <<>> => Head(events') = Head(events)
  BY <1>3, <1>4, ServedEvents
<1> HIDE DEF c
<1>8. Found'
  <2>1. ioPc # "idle" => Head(events') = Head(events)
    BY <1>7 DEF VendorInv, Shape
  <2>2. "idle" \notin Matched /\ "signal" # "idle"
    BY DEF Matched
  <2> QED BY <1>1, <1>2, <2>1, <2>2 DEF Found
<1>9. Unsettled'
  <2>1. ASSUME NEW d \in Commands, \A s \in Slots : slots[s].op # d
        PROVE  NoneOf(sent', d) /\ NoAnswerTo(events', d)
    <3>1. NoneOf(sent, d) /\ NoAnswerTo(events, d)
      BY <1>2, <2>1 DEF Unsettled
    <3>2. NoneOf(sent', d) /\ c # d
      BY <1>1, <1>3, <3>1, SentLess DEF c
    <3> QED BY <1>6, <3>1, <3>2
  <2> QED BY <1>1, <2>1 DEF Unsettled
<1>10. Told'
  <2>1. CASE chip' = chip
    BY <1>1, <1>2, <2>1 DEF Told
  <2>2. CASE chip' = Executed(c)
    <3>1. chip'.did = Append(chip.did, c) /\ (chip'.told <=> chip.told \/ c = "READ_LOCAL_VERSION")
      BY <1>5, <2>2
    <3>2. \A i \in DOMAIN chip'.did : (i \in DOMAIN chip.did /\ chip'.did[i] = chip.did[i]) \/ chip'.did[i] = c
      <4>1. \A i \in DOMAIN Append(chip.did, c) : \/ i \in DOMAIN chip.did /\ Append(chip.did, c)[i] = chip.did[i]
                                                  \/ Append(chip.did, c)[i] = c
        BY <1>3, AppendElements
      <4> QED BY <3>1, <4>1
    <3> QED BY <1>1, <1>2, <3>1, <3>2 DEF Told
  <2> QED BY <1>4, <2>1, <2>2
<1>11. Program' = p
  BY <1>1 DEF Program
<1>12. \A n \in Nat : NextAt(n) => NextAt(n)'
  <2> SUFFICES ASSUME NEW n \in Nat, NextAt(n) PROVE NextAt(n)'
    OBVIOUS
  <2>1. n = 0
    BY <1>1 DEF NextAt
  <2>2. Ends(chip'.did, p, 0)
    BY <1>3 DEF Ends
  <2> QED BY <1>1, <1>11, <2>1, <2>2 DEF NextAt
<1>13. Calling'
  <2>1. Doubled' <=> Doubled
    BY <1>1 DEF Doubled
  <2>2. pc \in {"next", "full"} => \E n \in 0 .. Len(p) - 1 : NextAt(n)'
    BY <1>2, <1>12 DEF Calling
  <2>3. ASSUME pc \in Preparing PROVE \E n \in 0 .. Len(p) - 1 : PreparedAt(n)'
    <3>1. PICK n \in 0 .. Len(p) - 1 : PreparedAt(n)
      BY <1>2, <2>3 DEF Calling
    <3>2. p[n + 1] \in Commands
      BY <2>3, <3>1, InProgram DEF PreparedAt, NextAt, Commanding, HasSlot
    <3>3. NoneOf(sent, p[n + 1]) /\ NoAnswerTo(events, p[n + 1]) =>
            NoneOf(sent', p[n + 1]) /\ NoAnswerTo(events', p[n + 1])
      BY <1>1, <1>3, <1>6, <3>2, SentLess DEF c
    <3>4. PreparedAt(n)'
      BY <1>1, <1>11, <1>12, <2>1, <3>1, <3>3 DEF PreparedAt
    <3> QED BY <3>1, <3>4
  <2>4. ASSUME pc = "wait" PROVE \E n \in 0 .. Len(p) - 1 : WaitAt(n)'
    <3>1. PICK n \in 0 .. Len(p) - 1 : WaitAt(n)
      BY <1>2, <2>4 DEF Calling
    <3>2. p \in Seq(Commands) /\ n \in Nat /\ n < Len(p)
      BY <2>4, <3>1, InProgram DEF WaitAt, Commanding, HasSlot
    <3>3. ASSUME ~Doubled PROVE Stage(sent', events', slots[own].signaled, slots[own].status, chip'.did, p, n)
      <4>1. Stage(sent, events, slots[own].signaled, slots[own].status, chip.did, p, n)
        BY <3>1, <3>3 DEF WaitAt
      <4>2. slots[own].signaled = FALSE
        BY <1>1, <4>1 DEF Stage, TypeInv, SlotsTyped, SlotRecord, AppTyped
      <4>3. NoAnswerTo(events, Head(sent)) =>
               \/ chip'.did = Append(chip.did, Head(sent)) /\ OneAnswerTo(events', Head(sent), "ok")
               \/ OneAnswerTo(events', Head(sent), "error")
               \/ NoAnswerTo(events', Head(sent))
        BY <1>3, <1>6 DEF c
      <4>4. \A b \in Commands : b # Head(sent) /\ NoAnswerTo(events, b) => NoAnswerTo(events', b)
        BY <1>6 DEF c
      <4>5. Stage(sent, events, FALSE, slots[own].status, chip.did, p, n)
        BY <4>1, <4>2
      <4>6. Stage(Tail(sent), events', FALSE, slots[own].status, chip'.did, p, n)
        BY <1>1, <1>3, <3>2, <4>3, <4>4, <4>5, StageServed
      <4> QED BY <1>1, <4>2, <4>6
    <3>4. WaitAt(n)'
      BY <1>1, <1>11, <2>1, <3>1, <3>3 DEF WaitAt
    <3> QED BY <3>1, <3>4
  <2>5. ~(pc \in {"version", "select"} /\ common = "ok")
    BY <1>1, <1>2 DEF Calling
  <2> QED BY <1>1, <1>11, <2>2, <2>3, <2>4, <2>5 DEF Calling
<1>14. Returned'
  <2>1. pc = "idle" /\ status = "ok" => p = <<>>
    BY <1>1, <1>2 DEF Returned
  <2>2. Ends(chip'.did, <<>>, Len(<<>>))
    BY <1>3 DEF Ends
  <2> QED BY <1>1, <1>11, <2>1, <2>2 DEF Returned
<1> QED BY <1>8, <1>9, <1>10, <1>13, <1>14 DEF DoneInv

(* Events that nobody asked for answer nothing, and no command is done.    *)
LEMMA OthersAreDone == ASSUME VendorInv, TypeInv, DoneInv, Scan \/ Odd PROVE DoneInv'
<1>1. /\ Running
      /\ UNCHANGED <<pc, call, todo, vendorPart, own, common, status, manufacturer, vendor, slots, sent, ioPc, ioSlot,
                     overtaken, fault>>
      /\ \E k \in {"found", "done", "meta", "nop"} : events' = Append(events, Event(k))
  BY DEF Scan, Odd, appVars, ctlVars, ioVars
<1> SUFFICES ASSUME ~overtaken PROVE DoneInv'
  BY <1>1 DEF DoneInv, Good
<1>2. Found /\ Unsettled /\ Calling /\ Told /\ Returned
  BY <1>1 DEF DoneInv, Good
<1>3. chip'.did = chip.did /\ chip'.told = chip.told
  BY DEF Scan, Odd, VendorInv, Shape, ChipRecord
<1>4. PICK k \in {"found", "done", "meta", "nop"} : events' = Append(events, Event(k))
  BY <1>1
<1>5. events \in Seq(Events) /\ Event(k) \in Events /\ \A c : ~AnswersTo(Event(k), c)
  BY DEF VendorInv, Shape, Event, Events, AnswersTo, Answers
<1>6. \A c : /\ NoAnswerTo(events, c) => NoAnswerTo(events', c)
             /\ \A code : OneAnswerTo(events, c, code) => OneAnswerTo(events', c, code)
  BY <1>4, <1>5, EventsMore
<1>7. Found'
  <2>1. ioPc # "idle" => Head(events') = Head(events)
    BY <1>4, <1>5, AppendElements DEF VendorInv, Shape
  <2>2. "idle" \notin Matched /\ "signal" # "idle"
    BY DEF Matched
  <2> QED BY <1>1, <1>2, <2>1, <2>2 DEF Found
<1>8. Unsettled'
  BY <1>1, <1>2, <1>6 DEF Unsettled
<1>9. Told' /\ Returned'
  BY <1>1, <1>2, <1>3 DEF Told, Returned, Program
<1>10. Program' = Program /\ (Doubled' <=> Doubled)
  BY <1>1 DEF Program, Doubled
<1>11. \A n : NextAt(n) => NextAt(n)'
  BY <1>1, <1>3, <1>10 DEF NextAt
<1>12. \A n : PreparedAt(n) => PreparedAt(n)'
  BY <1>1, <1>6, <1>10, <1>11 DEF PreparedAt
<1>13. \A n : WaitAt(n) => WaitAt(n)'
  <2> SUFFICES ASSUME NEW n, WaitAt(n) PROVE WaitAt(n)'
    OBVIOUS
  <2>1. Stage(sent, events, slots[own].signaled, slots[own].status, chip.did, Program, n) =>
        Stage(sent, events', slots[own].signaled, slots[own].status, chip.did, Program, n)
    BY <1>6 DEF Stage
  <2> QED BY <1>1, <1>3, <1>10, <2>1 DEF WaitAt
<1>14. Calling'
  BY <1>1, <1>2, <1>3, <1>10, <1>11, <1>12, <1>13 DEF Calling
<1> QED BY <1>7, <1>8, <1>9, <1>14 DEF DoneInv

(* The I/O thread takes an event from the queue.                           *)
LEMMA StageHandled ==
  ASSUME NEW evs \in Seq(Events), evs # <<>>, NEW q, NEW g \in BOOLEAN, NEW g2 \in BOOLEAN, NEW st, NEW st2, NEW d,
         NEW p, NEW n, Stage(q, evs, g, st, d, p, n),
         (g2 = g /\ st2 = st) \/ (AnswersTo(Head(evs), p[n + 1]) /\ st2 = Head(evs).code)
  PROVE  Stage(q, Tail(evs), g2, st2, d, p, n)
<1> DEFINE c == p[n + 1]
<1>1. /\ NoAnswerTo(evs, c) => NoAnswerTo(Tail(evs), c) /\ ~AnswersTo(Head(evs), c)
      /\ \A code : OneAnswerTo(evs, c, code) =>
           IF AnswersTo(Head(evs), c) THEN NoAnswerTo(Tail(evs), c) /\ Head(evs).code = code
                                      ELSE OneAnswerTo(Tail(evs), c, code)
  BY EventsLess
<1>2. CASE NoAnswerTo(evs, c)
  <2>1. g2 = g /\ st2 = st
    BY <1>1, <1>2
  <2>2. \A code : ~OneAnswerTo(evs, c, code)
    BY <1>2 DEF NoAnswerTo, OneAnswerTo
  <2> QED BY <1>1, <1>2, <2>1, <2>2 DEF Stage
<1>3. CASE ~NoAnswerTo(evs, c)
  <2>1. /\ q = <<>> /\ ~g
        /\ \E code \in {"ok", "error"} : OneAnswerTo(evs, c, code) /\ (code = "ok" => Ends(d, p, n + 1))
    BY <1>3 DEF Stage
  <2>2. PICK code \in {"ok", "error"} : OneAnswerTo(evs, c, code) /\ (code = "ok" => Ends(d, p, n + 1))
    BY <2>1
  <2>3. CASE AnswersTo(Head(evs), c)
    <3>1. NoAnswerTo(Tail(evs), c) /\ Head(evs).code = code
      BY <1>1, <2>2, <2>3
    <3>2. g2 /\ st2 = "ok" => Ends(d, p, n + 1)
      BY <2>1, <2>2, <3>1
    <3> QED BY <2>1, <3>1, <3>2 DEF Stage
  <2>4. CASE ~AnswersTo(Head(evs), c)
    <3>1. OneAnswerTo(Tail(evs), c, code) /\ g2 = FALSE
      BY <1>1, <2>1, <2>2, <2>4
    <3> QED BY <2>1, <2>2, <3>1 DEF Stage
  <2> QED BY <2>3, <2>4
<1> QED BY <1>2, <1>3

(* What the I/O thread may do to the slot of the command in progress while *)
(* it looks at an event: leave it alone, or write the answer there.        *)
AnswerTaken ==
  \/ slots'[own].signaled = slots[own].signaled /\ slots'[own].status = slots[own].status
  \/ pc \in HasSlot => AnswersTo(Head(events), slots[own].op) /\ slots'[own].status = Head(events).code /\ ~Doubled

LEMMA IoKeepsCalling ==
  ASSUME VendorInv, TypeInv, OrderInv, Unsettled, Calling, IoStep, events # <<>>, AnswerTaken,
         events' = Tail(events) \/ (events' = events /\ slots'[own].signaled = slots[own].signaled)
  PROVE  Unsettled' /\ Calling'
<1>1. /\ UNCHANGED <<pc, call, todo, vendorPart, own, common, status, vendor, manufacturer, chip, sent>>
      /\ \A s \in Slots : slots'[s].op = slots[s].op
  BY IoKeeps
<1>2. events \in Seq(Events) /\ own \in Slots /\ slots \in [Slots -> SlotRecord] /\ slots' \in [Slots -> SlotRecord]
  <2>1. TypeInv'
    BY IoTypedKept
  <2> QED BY <2>1 DEF VendorInv, Shape, TypeInv, AppTyped, SlotsTyped
<1>3. \A c : NoAnswerTo(events, c) => NoAnswerTo(events', c)
  BY <1>2, EventsLess
<1>4. Unsettled'
  BY <1>1, <1>3 DEF Unsettled
<1>5. Program' = Program /\ (Doubled' <=> Doubled)
  BY <1>1, <1>2 DEF Program, Doubled
<1>6. \A n : NextAt(n) => NextAt(n)'
  BY <1>1, <1>5 DEF NextAt
<1>7. Head(events) = events[1] /\ 1 \in DOMAIN events
  BY <1>2
<1>8. ASSUME pc \in Preparing, NEW n \in 0 .. Len(Program) - 1, PreparedAt(n) PROVE PreparedAt(n)'
  <2>1. slots[own].op = Program[n + 1]
    BY <1>8, InProgram DEF PreparedAt, NextAt, Commanding, HasSlot, OrderInv, SlotsFilled
  <2>2. ~(AnswersTo(Head(events), slots[own].op) /\ ~Doubled)
    BY <1>7, <1>8, <2>1 DEF PreparedAt, NoAnswerTo
  <2>3. slots'[own].signaled = slots[own].signaled
    BY <1>8, <2>2 DEF AnswerTaken, HasSlot
  <2> QED BY <1>1, <1>3, <1>5, <1>6, <1>8, <2>3 DEF PreparedAt
<1>9. ASSUME pc = "wait", NEW n \in 0 .. Len(Program) - 1, WaitAt(n) PROVE WaitAt(n)'
  <2>1. slots[own].op = Program[n + 1] /\ pc \in HasSlot
    BY <1>9, InProgram DEF WaitAt, Commanding, HasSlot, OrderInv, SlotsFilled
  <2>2. CASE Doubled
    BY <1>1, <1>5, <1>9, <2>1, <2>2 DEF WaitAt, AnswerTaken
  <2>3. CASE ~Doubled
    <3> DEFINE g  == slots[own].signaled
               g2 == slots'[own].signaled
               st == slots[own].status
               t2 == slots'[own].status
               S(evs, a, b) == Stage(sent, evs, a, b, chip.did, Program, n)
    <3>1. S(events, g, st)
      BY <1>9, <2>3 DEF WaitAt
    <3>2. g \in BOOLEAN /\ g2 \in BOOLEAN
      BY <1>2 DEF SlotRecord
    <3>3. (g2 = g /\ t2 = st) \/ (AnswersTo(Head(events), Program[n + 1]) /\ t2 = Head(events).code)
      BY <2>1 DEF AnswerTaken
    <3>4. CASE events' = Tail(events)
      <4>1. S(Tail(events), g2, t2)
        <5> HIDE DEF g, g2, st, t2
        <5> QED BY <1>2, <3>1, <3>2, <3>3, StageHandled
      <4> QED BY <1>1, <1>5, <1>9, <2>3, <3>4, <4>1 DEF WaitAt
    <3>5. CASE events' = events /\ g2 = g
      <4>1. S(events, g2, t2)
        <5>1. CASE t2 = st
          BY <3>1, <3>5, <5>1
        <5>2. CASE AnswersTo(Head(events), Program[n + 1])
          <6>1. ~NoAnswerTo(events, Program[n + 1])
            BY <1>7, <5>2 DEF NoAnswerTo
          <6> QED BY <3>1, <3>5, <6>1 DEF Stage
        <5> QED BY <3>3, <5>1, <5>2
      <4> QED BY <1>1, <1>5, <1>9, <2>3, <3>5, <4>1 DEF WaitAt
    <3> QED BY <3>4, <3>5
  <2> QED BY <2>2, <2>3
<1>10. Calling'
  <2>1. pc \in {"next", "full"} => \E n \in 0 .. Len(Program) - 1 : NextAt(n)'
    BY <1>6 DEF Calling
  <2>2. pc \in Preparing => \E n \in 0 .. Len(Program) - 1 : PreparedAt(n)'
    BY <1>8 DEF Calling
  <2>3. pc = "wait" => \E n \in 0 .. Len(Program) - 1 : WaitAt(n)'
    BY <1>9 DEF Calling
  <2> QED BY <1>1, <1>5, <2>1, <2>2, <2>3 DEF Calling
<1> QED BY <1>4, <1>10

LEMMA IoIsDone == ASSUME VendorInv, TypeInv, OrderInv, DoneInv, IoStep PROVE DoneInv'
<1> DEFINE e == Head(events)
<1>1. /\ UNCHANGED <<pc, call, todo, vendorPart, own, common, status, vendor, manufacturer, chip, sent, overtaken>>
      /\ Running /\ \A s \in Slots : slots'[s].op = slots[s].op
  BY IoKeeps
<1> SUFFICES ASSUME ~overtaken PROVE DoneInv'
  BY <1>1 DEF DoneInv, Good
<1>2. Found /\ Unsettled /\ Calling /\ Told /\ Returned
  BY <1>1 DEF DoneInv, Good
<1>3. Told' /\ Returned'
  BY <1>1, <1>2 DEF Told, Returned, Program
<1>4. /\ own \in Slots /\ slots \in [Slots -> SlotRecord] /\ (ioPc \in Matched => ioSlot \in Slots)
      /\ ioSlot \in Nat /\ ioPc' \in {"idle", "scan"} \cup Matched /\ events \in Seq(Events)
      /\ "idle" \notin Matched /\ "scan" \notin Matched
  <2>1. TypeInv'
    BY IoTypedKept
  <2> QED BY <2>1, SlotAssumption DEF TypeInv, AppTyped, SlotsTyped, IoTyped, Matched, VendorInv, Shape
<1>5. events # <<>> /\ (ioPc # "idle" => e.kind \in Handled)
  BY DEF IoStep, Handle, ScanSlot, ClipLength, CopyResult, SetStatus, SignalSlot, VendorInv, Shape
<1>6. e \in Events /\ (Answers(e) => e.op \in Commands /\ Opcode(e) = e.op /\ Status(e) = e.code)
  BY <1>4, <1>5 DEF Answers, Events, Opcode, Status
<1>7. ASSUME Found', AnswerTaken,
             events' = Tail(events) \/ (events' = events /\ slots'[own].signaled = slots[own].signaled)
      PROVE  DoneInv'
  BY <1>2, <1>3, <1>5, <1>7, IoKeepsCalling DEF DoneInv
<1>8. CASE Handle
  <2>1. ioPc = "idle" /\ ioSlot = 0 /\ UNCHANGED <<slots, ioSlot>>
    BY <1>2, <1>8 DEF Handle, Found
  <2>2. ioPc' \in {"idle", "scan"} /\ (events' = events \/ events' = Tail(events))
    BY <1>8, <2>1 DEF Handle
  <2>3. Found'
    BY <1>4, <2>1, <2>2, SlotAssumption DEF Found, Slots
  <2> QED BY <1>7, <2>1, <2>2, <2>3 DEF AnswerTaken
<1>9. CASE ScanSlot
  <2>1. ioPc = "scan" /\ UNCHANGED <<slots, events>>
    BY <1>9 DEF ScanSlot
  <2>2. CASE ioSlot = NumSlots
    <3>1. fault' = "assert"
      BY <1>9, <2>2, SlotAssumption DEF ScanSlot
    <3> QED BY <1>3, <3>1 DEF DoneInv, Good, Running
  <2>3. CASE ioSlot # NumSlots
    <3>1. ioSlot < NumSlots /\ ioSlot \in Slots
      BY <1>4, <2>3, SlotAssumption DEF TypeInv, IoTyped, Slots
    <3>2. \/ slots[ioSlot].op = Opcode(e) /\ ioPc' = "clip" /\ ioSlot' = ioSlot
          \/ slots[ioSlot].op # Opcode(e) /\ ioPc' = ioPc /\ ioSlot' = ioSlot + 1
      BY <1>9, <2>3, <3>1 DEF ScanSlot
    <3>3. \A s \in Slots : s < ioSlot + 1 => s < ioSlot \/ s = ioSlot
      BY <1>4, SlotAssumption DEF Slots
    <3>4. Answers(e) => \A s \in Slots : s < ioSlot' => slots[s].op # e.op
      BY <1>2, <1>6, <2>1, <3>2, <3>3 DEF Found
    <3>5. Found'
      <4> HIDE DEF e
      <4>1. Head(events') = e
        BY <2>1 DEF e
      <4> QED BY <1>4, <2>1, <3>2, <3>4, <4>1 DEF Found
    <3> QED BY <1>7, <2>1, <3>5 DEF AnswerTaken
  <2> QED BY <2>2, <2>3
<1>10. CASE ClipLength \/ CopyResult
  <2>1. UNCHANGED <<slots, events, ioSlot>> /\ ioPc \in Matched /\ ioPc' \in {"copy", "status"}
    BY <1>10 DEF ClipLength, CopyResult, Matched
  <2>2. Found'
    BY <1>2, <1>4, <2>1 DEF Found
  <2> QED BY <1>7, <2>1, <2>2 DEF AnswerTaken
<1>11. CASE SetStatus
  <2>1. UNCHANGED <<events, ioSlot>> /\ ioPc \in Matched /\ ioPc' = "signal" /\ ioSlot \in Slots
        /\ slots' = [slots EXCEPT ![ioSlot].status = Status(e)]
    BY <1>4, <1>11 DEF SetStatus, Matched
  <2>2. /\ slots'[ioSlot].status = Status(e)
        /\ \A s \in Slots : slots'[s].signaled = slots[s].signaled /\ (s # ioSlot => slots'[s] = slots[s])
    BY <1>4, <2>1 DEF SlotRecord
  <2>3. Found'
    <3> HIDE DEF e
    <3>1. Head(events') = e
      BY <2>1 DEF e
    <3> QED BY <1>1, <1>2, <1>4, <1>6, <2>1, <2>2, <3>1 DEF Found, e
  <2>4. AnswerTaken
    <3>1. CASE ioSlot = own /\ pc \in HasSlot
      <4>1. Answers(e) /\ AnswersTo(e, slots[own].op) /\ ~Doubled
        BY <1>2, <2>1, <3>1, OwnIsFound
      <4> QED BY <1>6, <2>2, <3>1, <4>1 DEF AnswerTaken
    <3>2. CASE ioSlot # own
      BY <1>4, <2>2, <3>2 DEF AnswerTaken
    <3>3. CASE pc \notin HasSlot
      BY <3>3 DEF AnswerTaken
    <3> QED BY <3>1, <3>2, <3>3
  <2> QED BY <1>4, <1>7, <2>1, <2>2, <2>3, <2>4
<1>12. CASE SignalSlot
  <2>1. ioPc = "signal" /\ ioPc \in Matched /\ ioPc' = "idle" /\ ioSlot \in Slots /\ ioSlot' = 0
        /\ slots' = [slots EXCEPT ![ioSlot].signaled = TRUE] /\ events' = Tail(events)
    BY <1>4, <1>12 DEF SignalSlot, Matched
  <2>2. \A s \in Slots : slots'[s].status = slots[s].status /\ (s # ioSlot => slots'[s] = slots[s])
    BY <1>4, <2>1 DEF SlotRecord
  <2>3. Found'
    BY <1>4, <2>1 DEF Found
  <2>4. AnswerTaken
    <3>1. CASE ioSlot = own /\ pc \in HasSlot
      <4>1. Answers(e) /\ AnswersTo(e, slots[own].op) /\ ~Doubled
        BY <1>2, <2>1, <3>1, OwnIsFound
      <4>2. slots[own].status = e.code
        BY <1>2, <2>1, <3>1, <4>1 DEF Found
      <4> QED BY <1>4, <2>2, <4>1, <4>2 DEF AnswerTaken
    <3>2. CASE ioSlot # own
      BY <1>4, <2>2, <3>2 DEF AnswerTaken
    <3>3. CASE pc \notin HasSlot
      BY <3>3 DEF AnswerTaken
    <3> QED BY <3>1, <3>2, <3>3
  <2> QED BY <1>7, <2>1, <2>3, <2>4
<1> QED BY <1>8, <1>9, <1>10, <1>11, <1>12 DEF IoStep

LEMMA DoneInvHolds == Spec => []DoneInv
<1>1. VendorInv /\ TypeInv /\ OrderInv /\ DoneInv /\ [Next]_vars => DoneInv'
  <2> SUFFICES ASSUME VendorInv, TypeInv, OrderInv, DoneInv, [Next]_vars PROVE DoneInv'
    OBVIOUS
  <2>1. CASE \E c \in Calls : Begin(c)
    BY <2>1, BeginIsDone
  <2>2. CASE AppStep
    BY <2>2, ReserveIsDone, FillIsDone, TransmitIsDone, AnsweredIsDone, TimeoutIsDone, SelectIsDone DEF AppStep
  <2>3. CASE Serve
    BY <2>3, ServeIsDone
  <2>4. CASE Scan \/ Odd
    BY <2>4, OthersAreDone
  <2>5. CASE IoStep
    BY <2>5, IoIsDone
  <2>6. CASE UNCHANGED vars
    <3>1. UNCHANGED <<pc, call, todo, vendorPart, own, common, status, manufacturer, vendor, slots, chip, sent,
                      events, ioPc, ioSlot, overtaken, fault>>
      BY <2>6 DEF vars, appVars, ctlVars, ioVars
    <3>2. (Found => Found') /\ (Unsettled => Unsettled')
      BY <3>1, TableLeft
    <3>3. (Told => Told') /\ (Returned => Returned')
      BY <3>1 DEF Told, Returned, Program
    <3>4. Calling => Calling'
      BY <3>1 DEF Calling, NextAt, PreparedAt, WaitAt, Doubled, Program
    <3> QED BY <3>1, <3>2, <3>3, <3>4 DEF DoneInv, Good, Running
  <2> QED BY <2>1, <2>2, <2>3, <2>4, <2>5, <2>6 DEF Next, Finished
<1> QED BY <1>1, DoneInitially, VendorInvHolds, TypeInvHolds, OrderInvHolds, PTL DEF Spec

(* What was done ends with all of a program.                               *)
LEMMA EndsIsSuffix ==
  ASSUME NEW d \in Seq(Commands), NEW p \in Seq(Commands), Ends(d, p, Len(p))
  PROVE  IsSuffix(p, d)
<1> DEFINE n == Len(p)
           k == Len(d)
<1>1. n \in Nat /\ k \in Nat /\ n <= k
  BY DEF Ends
<1>2. /\ Reverse(p) = [i \in 1 .. n |-> p[n - i + 1]]
      /\ Reverse(d) = [i \in 1 .. k |-> d[k - i + 1]]
  BY DEF Reverse
<1>3. ASSUME NEW s \in Seq(Commands)
      PROVE  /\ Reverse(s) \in Seq(Commands) /\ Len(Reverse(s)) = Len(s)
             /\ \A i \in 1 .. Len(s) : Reverse(s)[i] = s[Len(s) - i + 1]
  <2>1. Len(s) \in Nat /\ \A i \in 1 .. Len(s) : Len(s) - i + 1 \in 1 .. Len(s) /\ s[Len(s) - i + 1] \in Commands
    OBVIOUS
  <2> QED BY <2>1 DEF Reverse
<1>4. \A i \in 1 .. n : Reverse(p)[i] = Reverse(d)[i]
  <2> TAKE i \in 1 .. n
  <2>1. n - i + 1 \in 1 .. n /\ i \in 1 .. k
    BY <1>1
  <2>2. d[k - n + (n - i + 1)] = p[n - i + 1]
    BY <2>1 DEF Ends
  <2>3. k - n + (n - i + 1) = k - i + 1
    BY <1>1, <2>1
  <2> QED BY <1>3, <2>1, <2>2, <2>3
<1> DEFINE s == Reverse(p)
           t == Reverse(d)
<1>5. s \in Seq(Commands) /\ t \in Seq(Commands) /\ Len(s) = n /\ Len(t) = k
  BY <1>3
<1>6. \A i \in 1 .. n : s[i] = t[i]
  BY <1>4
<1> HIDE DEF n, k, s, t
<1>7. SubSeq(s, 1, n) = SubSeq(t, 1, n)
  <2>1. SubSeq(s, 1, n) \in Seq(Commands) /\ SubSeq(t, 1, n) \in Seq(Commands)
    BY <1>1, <1>5
  <2>2. /\ Len(SubSeq(s, 1, n)) = n /\ Len(SubSeq(t, 1, n)) = n
        /\ \A i \in 1 .. n : SubSeq(s, 1, n)[i] = s[i] /\ SubSeq(t, 1, n)[i] = t[i]
    BY <1>1, <1>5
  <2> QED BY <1>6, <2>1, <2>2
<1> QED BY <1>1, <1>5, <1>7 DEF IsSuffix, IsPrefix, s, t

(* For every number of slots and calls, and whatever is refused, lost or   *)
(* late: LB_OK means that the chip has executed the commands of the call,  *)
(* in order and as the last ones.  The exceptions are those of             *)
(* OkMeansDone, a common part of lb_initializeHCI that failed and a        *)
(* Command Complete for no command whose slot was taken by one.            *)
THEOREM OkIsDone == Spec => []OkMeansDone
<1>1. VendorInv /\ OrderInv /\ DoneInv => OkMeansDone
  <2> SUFFICES ASSUME VendorInv, OrderInv, DoneInv, pc = "idle", status = "ok", ~overtaken
               PROVE  IF call = "init" /\ common = "failure"
                      THEN IsSuffix(VendorSequence(vendor), chip.did) /\ chip.told
                      ELSE IsSuffix(Sequences[vendor][call], chip.did)
    BY DEF OkMeansDone
  <2>1. vendor \in Vendors /\ call \in Calls /\ vendorPart
    BY DEF OrderInv, CallInOrder
  <2>2. Told /\ Ends(chip.did, Program, Len(Program)) /\ chip.did \in Seq(Commands)
    BY DEF DoneInv, Returned, VendorInv, Shape, ChipRecord
  <2>3. Program = IF call = "init" /\ common = "failure" THEN VendorSequence(vendor) ELSE Sequences[vendor][call]
    BY <2>1 DEF Program, ProgramOf
  <2>4. Program \in Seq(Commands)
    BY <2>1, <2>3, SequencesTyped, VendorSequenceTyped
  <2>5. IsSuffix(Program, chip.did)
    BY <2>2, <2>4, EndsIsSuffix
  <2>6. chip.told
    BY <2>1, <2>2, NoneAssumption DEF Told, Vendors
  <2> QED BY <2>3, <2>5, <2>6
<1> QED BY <1>1, VendorInvHolds, OrderInvHolds, DoneInvHolds, PTL

-----------------------------------------------------------------------------
(* The table.  As long as every answer arrives in time, meets a handler    *)
(* that knows it and no command takes a slot that was found to be free,    *)
(* the command in progress has the only slot in use, the first one.        *)

Clean == lost = 0 /\ late = 0 /\ ~ignored /\ ~overtaken

NoAnswer(q) == \A i \in DOMAIN q : ~Answers(q[i])
OneAnswer(q, c) ==
  \E i \in DOMAIN q :
    Answers(q[i]) /\ q[i].op = c /\ \A j \in DOMAIN q : j # i => ~Answers(q[j])

Alone == \A s \in Slots : Used(s) => pc \in HasSlot /\ s = own

InProgress ==
  \/ sent = <<slots[own].op>> /\ NoAnswer(events) /\ ~slots[own].signaled
  \/ sent = <<>> /\ OneAnswer(events, slots[own].op) /\ ~slots[own].signaled
  \/ sent = <<>> /\ NoAnswer(events) /\ slots[own].signaled

(* The I/O thread stops at the first slot, or at the second one if it      *)
(* looks for a free one, and finds a buffer there for what it copies.      *)
Reaching ==
  /\ ioPc # "idle" => ioSlot < IF Answers(Head(events)) THEN 1 ELSE 2
  /\ ioPc = "copy" /\ copies => slots[ioSlot].buffer

Orderly ==
  /\ Alone /\ pc # "full"
  /\ IF pc = "wait" THEN InProgress ELSE sent = <<>> /\ NoAnswer(events)
  /\ Reaching

TableInv == Clean => IF Running THEN Orderly ELSE fault = "null" /\ vendor = "TI"

(* Events that answer nothing may come behind the answer.                  *)
LEMMA AppendOther ==
  ASSUME NEW q \in Seq(Events), NEW e \in Events, ~Answers(e)
  PROVE  /\ NoAnswer(q) => NoAnswer(Append(q, e))
         /\ \A c : OneAnswer(q, c) => OneAnswer(Append(q, e), c)
<1> DEFINE r == Append(q, e)
<1>1. /\ Len(q) \in Nat /\ DOMAIN q = 1 .. Len(q) /\ DOMAIN r = 1 .. Len(q) + 1
      /\ \A i \in 1 .. Len(q) : r[i] = q[i]
      /\ r[Len(q) + 1] = e
  OBVIOUS
<1>2. \A i \in DOMAIN q : i \in DOMAIN r /\ r[i] = q[i]
  BY <1>1
<1>3. \A i \in DOMAIN r : i \in DOMAIN q \/ ~Answers(r[i])
  BY <1>1
<1> QED BY <1>2, <1>3 DEF NoAnswer, OneAnswer

(* The answer comes behind events that are none.                           *)
LEMMA AppendAnswer ==
  ASSUME NEW q \in Seq(Events), NEW e \in Events, Answers(e), NoAnswer(q)
  PROVE  OneAnswer(Append(q, e), e.op)
<1> DEFINE r == Append(q, e)
<1>1. /\ Len(q) \in Nat /\ DOMAIN q = 1 .. Len(q) /\ DOMAIN r = 1 .. Len(q) + 1
      /\ \A i \in 1 .. Len(q) : r[i] = q[i]
      /\ r[Len(q) + 1] = e
  OBVIOUS
<1>2. Len(q) + 1 \in DOMAIN r
  BY <1>1
<1>3. \A i \in DOMAIN r : i # Len(q) + 1 => ~Answers(r[i])
  BY <1>1 DEF NoAnswer
<1> QED BY <1>1, <1>2, <1>3 DEF OneAnswer

(* The first event is the answer, or it is behind the first event.         *)
LEMMA TailAnswer ==
  ASSUME NEW q \in Seq(Events), q # <<>>
  PROVE  /\ NoAnswer(q) => NoAnswer(Tail(q)) /\ ~Answers(Head(q))
         /\ \A c : OneAnswer(q, c) => IF Answers(Head(q)) THEN Head(q).op = c /\ NoAnswer(Tail(q))
                                                         ELSE OneAnswer(Tail(q), c)
<1> DEFINE r == Tail(q)
<1>1. /\ Len(q) \in Nat /\ DOMAIN q = 1 .. Len(q)
      /\ Len(q) >= 1 /\ DOMAIN r = 1 .. Len(q) - 1
      /\ \A i \in 1 .. Len(q) - 1 : r[i] = q[i + 1]
      /\ Head(q) = q[1] /\ 1 \in DOMAIN q
  OBVIOUS
<1>2. \A i \in DOMAIN r : i + 1 \in DOMAIN q /\ i + 1 # 1 /\ r[i] = q[i + 1]
  BY <1>1
<1>3. NoAnswer(q) => NoAnswer(r) /\ ~Answers(q[1])
  BY <1>1, <1>2 DEF NoAnswer
<1>4. ASSUME NEW c, OneAnswer(q, c), Answers(q[1]) PROVE q[1].op = c /\ NoAnswer(r)
  BY <1>1, <1>2, <1>4 DEF OneAnswer, NoAnswer
<1>5. ASSUME NEW c, OneAnswer(q, c), ~Answers(q[1]) PROVE OneAnswer(r, c)
  <2>1. PICK i \in DOMAIN q :
          Answers(q[i]) /\ q[i].op = c /\ \A j \in DOMAIN q : j # i => ~Answers(q[j])
    BY <1>5 DEF OneAnswer
  <2>2. i - 1 \in DOMAIN r /\ r[i - 1] = q[i]
    BY <1>1, <1>5, <2>1
  <2>3. \A j \in DOMAIN r : j # i - 1 => j + 1 # i
    BY <1>1, <2>2
  <2>4. \A j \in DOMAIN r : j # i - 1 => ~Answers(r[j])
    BY <1>2, <2>1, <2>3
  <2> QED BY <2>1, <2>2, <2>4 DEF OneAnswer
<1> QED BY <1>1, <1>3, <1>4, <1>5

(* What is known while nothing was lost, late, ignored or overtaken.       *)
LEMMA WhenClean ==
  ASSUME VendorInv, TypeInv, OrderInv, DoneInv, TableInv, Clean, Running
  PROVE  /\ Orderly /\ Found /\ Calling
         /\ own \in Slots /\ slots \in [Slots -> SlotRecord] /\ (ioPc \in Matched => ioSlot \in Slots)
         /\ sent \in Seq(Commands) /\ events \in Seq(Events) /\ ioSlot \in Nat
         /\ ioPc # "idle" => events # <<>> /\ Head(events).kind \in Handled
         /\ pc \in HasSlot => own = 0
<1>1. /\ own \in Slots /\ slots \in [Slots -> SlotRecord] /\ (ioPc \in Matched => ioSlot \in Slots)
      /\ sent \in Seq(Commands) /\ events \in Seq(Events) /\ ioSlot \in Nat
      /\ ioPc # "idle" => events # <<>> /\ Head(events).kind \in Handled
  BY SlotAssumption DEF TypeInv, AppTyped, SlotsTyped, IoTyped, VendorInv, Shape
<1>2. Orderly /\ Found /\ Calling
  BY DEF TableInv, DoneInv, Good, Clean
<1>3. ASSUME pc \in HasSlot, own # 0 PROVE FALSE
  <2>1. 0 \in Slots /\ 0 < own
    BY <1>1, <1>3, SlotAssumption DEF Slots
  <2>2. Used(0)
    BY <1>1, <1>3, <2>1 DEF OrderInv, SlotsInOrder
  <2> QED BY <1>2, <1>3, <2>1, <2>2 DEF Orderly, Alone
<1> QED BY <1>1, <1>2, <1>3

(* The calls leave the table alone.                                        *)
LEMMA CallsKeepTable ==
  ASSUME VendorInv, TypeInv, OrderInv, DoneInv, TableInv, (\E c \in Calls : Begin(c)) \/ ReadVersion \/ Select
  PROVE  TableInv'
<1>1. /\ UNCHANGED <<slots, own, sent, events, ioPc, ioSlot, copies, lost, late, ignored, overtaken, fault>>
      /\ Running /\ pc \in {"idle", "version", "select"} /\ pc' \in {"idle", "next", "select"}
  <2>1. CASE \E c \in Calls : Begin(c)
    BY <2>1 DEF Begin, At, Return, bounded, ioVars
  <2>2. CASE ReadVersion
    BY <2>2 DEF ReadVersion, At, bounded, ioVars
  <2>3. CASE Select
    BY <2>3 DEF Select, At, Return, bounded, ioVars
  <2> QED BY <2>1, <2>2, <2>3
<1>2. pc \notin HasSlot
  BY <1>1 DEF HasSlot, Preparing
<1> QED BY <1>1, <1>2 DEF TableInv, Clean, Running, Orderly, Alone, Used, Reaching

(* A command takes the first slot; filling it in touches no other one.     *)
LEMMA PrepareKeepsTable ==
  ASSUME VendorInv, TypeInv, OrderInv, DoneInv, TableInv, Reserve \/ ResetSlot \/ SetCapacity \/ SetBuffer \/ SetBusy
  PROVE  TableInv'
<1>1. /\ Running /\ UNCHANGED <<sent, events, ioPc, ioSlot, copies, lost, late, ignored, fault>> /\ pc # "wait"
      /\ overtaken => overtaken'
  <2>1. CASE Reserve
    BY <2>1 DEF Reserve, At, bounded, ioVars
  <2>2. CASE ResetSlot \/ SetCapacity \/ SetBuffer \/ SetBusy
    BY <2>2 DEF ResetSlot, SetCapacity, SetBuffer, SetBusy, OnlySlots, At, bounded, ioVars
  <2> QED BY <2>1, <2>2
<1> SUFFICES ASSUME Clean' PROVE Orderly'
  BY <1>1 DEF TableInv, Running
<1>2. Clean
  BY <1>1 DEF Clean
<1>3. /\ Orderly /\ Found /\ own \in Slots /\ slots \in [Slots -> SlotRecord]
      /\ (ioPc \in Matched => ioSlot \in Slots) /\ (ioPc # "idle" => events \in Seq(Events) /\ events # <<>>)
  BY <1>1, <1>2, WhenClean
<1>4. sent = <<>> /\ NoAnswer(events) /\ Alone /\ Reaching
  BY <1>1, <1>3 DEF Orderly
<1>5. CASE Reserve
  <2>1. pc = "next" /\ pc \notin HasSlot
    BY <1>5 DEF Reserve, At, HasSlot, Preparing
  <2>2. FreeSlots = Slots /\ Slots # {}
    BY <1>3, <1>4, <2>1 DEF FreeSlots, Alone, Used
  <2>3. /\ Min(FreeSlots) \in Slots
        /\ pc' = "reset" /\ own' = Min(FreeSlots) /\ slots' = [slots EXCEPT ![Min(FreeSlots)].op = Head(todo)]
    BY <1>5, <2>2, FirstSlot DEF Reserve
  <2>4. \A s \in Slots : slots'[s].buffer = slots[s].buffer /\ (s # own' => slots'[s] = slots[s])
    BY <1>3, <2>3 DEF SlotRecord
  <2>5. Alone'
    BY <1>4, <2>1, <2>3, <2>4 DEF Alone, Used, HasSlot, Preparing
  <2>6. Reaching'
    BY <1>1, <1>3, <1>4, <2>4 DEF Reaching, Matched
  <2> QED BY <1>1, <1>4, <2>3, <2>5, <2>6 DEF Orderly
<1>6. CASE ResetSlot \/ SetCapacity \/ SetBuffer \/ SetBusy
  <2>1. pc \in HasSlot /\ pc' \in Preparing /\ own' = own
    BY <1>6 DEF ResetSlot, SetCapacity, SetBuffer, SetBusy, OnlySlots, At, HasSlot, Preparing
  <2>2. \A s \in Slots : slots'[s].op = slots[s].op /\ (s # own => slots'[s] = slots[s])
    BY <1>3, <1>6 DEF ResetSlot, SetCapacity, SetBuffer, SetBusy, SlotRecord
  <2>3. Alone'
    BY <1>3, <1>4, <2>1, <2>2 DEF Alone, Used, HasSlot
  <2>4. ioPc \in Matched => ioSlot # own
    <3> SUFFICES ASSUME ioPc \in Matched, ioSlot = own PROVE FALSE
      OBVIOUS
    <3>1. Answers(Head(events))
      BY <1>3, <2>1, OwnIsFound
    <3>2. events \in Seq(Events) /\ events # <<>>
      BY <1>3 DEF Matched
    <3>3. Head(events) = events[1] /\ 1 \in DOMAIN events
      BY <3>2
    <3> QED BY <1>4, <3>1, <3>3 DEF NoAnswer
  <2>5. Reaching'
    BY <1>1, <1>3, <1>4, <2>2, <2>4 DEF Reaching, Matched
  <2> QED BY <1>1, <1>4, <2>1, <2>3, <2>5 DEF Orderly, Preparing
<1> QED BY <1>5, <1>6

LEMMA TransmitKeepsTable ==
  ASSUME VendorInv, TypeInv, OrderInv, DoneInv, TableInv, Transmit \/ TransmitAnyway
  PROVE  TableInv'
<1>1. /\ Running
      /\ UNCHANGED <<todo, own, vendor, slots, events, ioPc, ioSlot, copies, lost, late, ignored, overtaken>>
      /\ sent' = Append(sent, Head(todo))
  BY DEF Transmit, TransmitAnyway, At, appVars, ctlVars, bounded, ioVars
<1> SUFFICES ASSUME Clean' PROVE Running' /\ Orderly'
  BY DEF TableInv
<1>2. Clean
  BY <1>1 DEF Clean
<1>3. Orderly /\ Calling /\ own \in Slots /\ slots \in [Slots -> SlotRecord]
  BY <1>1, <1>2, WhenClean
<1>4. Transmit
  BY <1>3 DEF TransmitAnyway, At, Orderly
<1>5. pc = "send" /\ pc' = "wait" /\ fault' = fault
  BY <1>4 DEF Transmit, At
<1>6. sent = <<>> /\ NoAnswer(events) /\ Alone /\ Reaching
  BY <1>3, <1>5 DEF Orderly
<1>7. slots[own].op = Head(todo) /\ ~slots[own].signaled
  BY <1>3, <1>5 DEF OrderInv, SlotsFilled, HasSlot, Preparing, Calling, PreparedAt
<1>8. Alone' /\ Reaching'
  BY <1>1, <1>5, <1>6 DEF Alone, Used, Reaching, HasSlot, Preparing
<1>9. sent' = <<slots[own].op>>
  <2>1. Append(<<>>, Head(todo)) = <<Head(todo)>>
    OBVIOUS
  <2> QED BY <1>1, <1>6, <1>7, <2>1
<1> QED BY <1>1, <1>5, <1>6, <1>7, <1>8, <1>9 DEF Orderly, InProgress, Running

(* An answered command gives its slot back; one whose answer is on its way *)
(* cannot time out without being late.                                     *)
LEMMA EndKeepsTable ==
  ASSUME VendorInv, TypeInv, OrderInv, DoneInv, TableInv, Answered \/ TimedOut
  PROVE  TableInv'
<1>1. /\ pc = "wait" /\ Running /\ pc' \in {"idle", "next", "version", "select"}
      /\ UNCHANGED <<own, sent, events, ioPc, ioSlot, copies, lost, ignored, overtaken, fault>>
  BY DEF Answered, TimedOut, At, Proceed, bounded, ioVars
<1> SUFFICES ASSUME Clean' PROVE Orderly'
  BY <1>1 DEF TableInv, Running
<1>2. Clean
  <2>1. late' = late \/ late' = late + 1
    BY DEF Answered, TimedOut, bounded
  <2>2. late \in Nat
    BY BoundAssumption DEF TypeInv, CountersTyped
  <2>3. late = 0
    BY <2>1, <2>2 DEF Clean
  <2> QED BY <1>1, <2>3 DEF Clean
<1>3. Orderly /\ own \in Slots /\ slots \in [Slots -> SlotRecord] /\ (ioPc \in Matched => ioSlot \in Slots)
  BY <1>1, <1>2, WhenClean
<1>4. InProgress /\ Alone /\ Reaching
  BY <1>1, <1>3 DEF Orderly
<1>5. CASE Answered
  <2>1. slots[own].signaled /\ slots' = [slots EXCEPT ![own].op = None]
    BY <1>5 DEF Answered, Freed
  <2>2. \A s \in Slots : slots'[s].buffer = slots[s].buffer /\ (s # own => slots'[s].op = slots[s].op)
    BY <1>3, <2>1 DEF SlotRecord
  <2>3. slots'[own].op = None
    BY <1>3, <2>1 DEF SlotRecord
  <2>4. Alone'
    BY <1>3, <1>4, <2>2, <2>3 DEF Alone, Used
  <2>5. Reaching'
    BY <1>1, <1>3, <1>4, <2>2 DEF Reaching, Matched
  <2> QED BY <1>1, <1>4, <2>1, <2>4, <2>5 DEF Orderly, InProgress
<1>6. CASE TimedOut
  <2>1. ~slots[own].signaled /\ IF Coming THEN late' = late + 1 ELSE late' = late
    BY <1>6 DEF TimedOut
  <2>2. ~Coming
    BY <1>2, <2>1 DEF Clean
  <2>3. CASE sent = <<slots[own].op>>
    <3>1. 1 \in DOMAIN sent /\ sent[1] = slots[own].op
      BY <2>3
    <3> QED BY <2>2, <3>1 DEF Coming
  <2>4. CASE OneAnswer(events, slots[own].op)
    BY <2>2, <2>4 DEF Coming, OneAnswer, Answers
  <2> QED BY <1>4, <2>1, <2>3, <2>4 DEF InProgress
<1> QED BY <1>5, <1>6

(* The chip answers the command, or command or answer is lost.             *)
LEMMA ServeKeepsTable == ASSUME VendorInv, TypeInv, OrderInv, DoneInv, TableInv, Serve PROVE TableInv'
<1> DEFINE c == Head(sent)
<1>1. /\ sent # <<>> /\ Running /\ sent' = Tail(sent)
      /\ UNCHANGED <<pc, own, slots, ioPc, ioSlot, copies, ignored, late, overtaken, fault>>
      /\ \/ events' = Append(events, Answer(c, "ok")) \o Done(c) /\ lost' = lost
         \/ events' = Append(events, Answer(c, "error")) /\ lost' = lost
         \/ lost' = lost + 1
  BY DEF Serve, appVars, ioVars
<1> SUFFICES ASSUME Clean' PROVE Orderly'
  BY <1>1 DEF TableInv, Running
<1>2. Clean /\ lost' = lost
  <2>1. lost \in Nat
    BY BoundAssumption DEF TypeInv, CountersTyped
  <2>2. lost' = lost /\ lost = 0
    BY <1>1, <2>1 DEF Clean
  <2> QED BY <1>1, <2>2 DEF Clean
<1>3. Orderly /\ own \in Slots /\ sent \in Seq(Commands) /\ events \in Seq(Events) /\ (ioPc # "idle" => events # <<>>)
  BY <1>1, <1>2, WhenClean
<1>4. /\ pc = "wait" /\ Alone /\ Reaching /\ sent = <<slots[own].op>> /\ NoAnswer(events) /\ ~slots[own].signaled
  BY <1>1, <1>3 DEF Orderly, InProgress
<1>5. c = slots[own].op /\ c \in Commands /\ sent' = <<>>
  <2>1. Head(sent) = slots[own].op /\ Head(sent) \in Commands /\ Tail(sent) = <<>>
    BY <1>3, <1>4, EmptySeq
  <2> QED BY <1>1, <2>1
<1> DEFINE ok == Append(events, Answer(c, "ok"))
           er == Append(events, Answer(c, "error"))
<1>6. events' = ok \o Done(c) \/ events' = er
  BY <1>1, <1>2 DEF TypeInv, CountersTyped, Clean
<1>7. \A code \in {"ok", "error"} : Answer(c, code) \in Events /\ Answer(c, code).op = c /\ Answers(Answer(c, code))
  BY <1>5 DEF Answer, Answers, Events
<1>8. /\ ok \in Seq(Events) /\ OneAnswer(ok, c)
      /\ er \in Seq(Events) /\ OneAnswer(er, c)
  BY <1>3, <1>4, <1>7, AppendAnswer, AppendElements
<1>9. events # <<>> => Head(events') = Head(events)
  BY <1>3, <1>5, <1>6, ServedEvents
<1> HIDE DEF ok, er
<1>10. OneAnswer(events', c)
  <2>1. CASE events' = er
    BY <1>8, <2>1
  <2>2. CASE events' = ok \o Done(c) /\ Done(c) = <<>>
    <3>1. events' = ok
      BY <1>8, <2>2
    <3> QED BY <1>8, <3>1
  <2>3. CASE events' = ok \o Done(c) /\ Done(c) = <<Event("done")>>
    <3>1. Event("done") \in Events /\ ~Answers(Event("done"))
      BY DEF Event, Events, Answers
    <3>2. events' = Append(ok, Event("done"))
      BY <1>8, <2>3, <3>1, AppendIsConcat
    <3> QED BY <1>8, <3>1, <3>2, AppendOther
  <2> QED BY <1>6, <2>1, <2>2, <2>3 DEF Done
<1>11. Alone' /\ Reaching'
  BY <1>1, <1>3, <1>4, <1>9 DEF Alone, Used, Reaching
<1> QED BY <1>1, <1>4, <1>5, <1>10, <1>11 DEF Orderly, InProgress

(* Events that nobody asked for answer nothing.                            *)
LEMMA OthersKeepTable == ASSUME VendorInv, TypeInv, OrderInv, DoneInv, TableInv, Scan \/ Odd PROVE TableInv'
<1>1. /\ UNCHANGED <<pc, own, slots, sent, ioPc, ioSlot, copies, ignored, lost, late, overtaken, fault>> /\ Running
      /\ \E k \in {"found", "done", "meta", "nop"} : events' = Append(events, Event(k))
  BY DEF Scan, Odd, appVars, bounded, ioVars
<1> SUFFICES ASSUME Clean' PROVE Orderly'
  BY <1>1 DEF TableInv, Running
<1>2. Clean
  BY <1>1 DEF Clean
<1>3. Orderly /\ own \in Slots /\ events \in Seq(Events) /\ (ioPc # "idle" => events # <<>>)
  BY <1>1, <1>2, WhenClean
<1>4. PICK k \in {"found", "done", "meta", "nop"} : events' = Append(events, Event(k))
  BY <1>1
<1>5. Event(k) \in Events /\ ~Answers(Event(k))
  BY DEF Event, Events, Answers
<1>6. /\ NoAnswer(events) => NoAnswer(events')
      /\ \A c : OneAnswer(events, c) => OneAnswer(events', c)
      /\ events # <<>> => Head(events') = Head(events)
  BY <1>3, <1>4, <1>5, AppendOther, AppendElements
<1>7. Alone' /\ Reaching'
  BY <1>1, <1>3, <1>6 DEF Orderly, Alone, Used, Reaching
<1>8. InProgress => InProgress'
  <2>1. OneAnswer(events, slots[own].op) => OneAnswer(events', slots[own].op)
    BY <1>6
  <2> QED BY <1>1, <1>6, <2>1 DEF InProgress
<1> QED BY <1>1, <1>3, <1>6, <1>7, <1>8 DEF Orderly

(* An answer finds the slot of its command, an event with opcode 0 the     *)
(* first free one, and no other event comes near the table.                *)
LEMMA IoKeepsTable ==
  ASSUME NumSlots > 1, VendorInv, TypeInv, OrderInv, DoneInv, TableInv, IoStep
  PROVE  TableInv'
<1> DEFINE e == Head(events)
<1>1. /\ UNCHANGED <<pc, todo, own, sent, vendor, chip, lost, late, overtaken>> /\ Running
      /\ \A s \in Slots : slots'[s].op = slots[s].op /\ slots'[s].buffer = slots[s].buffer
  BY IoKeeps
<1>2. ignored => ignored'
  BY DEF IoStep, Handle, ScanSlot, ClipLength, CopyResult, SetStatus, SignalSlot
<1> SUFFICES ASSUME Clean' PROVE IF Running' THEN Orderly' ELSE fault' = "null" /\ vendor' = "TI"
  BY DEF TableInv
<1>3. Clean
  BY <1>1, <1>2 DEF Clean
<1>4. /\ Orderly /\ Found
      /\ own \in Slots /\ slots \in [Slots -> SlotRecord] /\ (ioPc \in Matched => ioSlot \in Slots)
      /\ events \in Seq(Events) /\ ioSlot \in Nat
      /\ ioPc # "idle" => events # <<>> /\ e.kind \in Handled
      /\ pc \in HasSlot => own = 0
  BY <1>1, <1>3, WhenClean
<1>5. /\ Alone /\ Reaching /\ pc # "full"
      /\ IF pc = "wait" THEN InProgress ELSE sent = <<>> /\ NoAnswer(events)
  BY <1>4 DEF Orderly
<1>6. Alone'
  BY <1>1, <1>4, <1>5 DEF Alone, Used
<1>7. 0 \in Slots /\ 1 \in Slots
  BY SlotAssumption DEF Slots
<1>8. events # <<>> => e \in Events /\ (Answers(e) => e.op \in Commands)
  BY <1>4 DEF Answers, Events
(* An answer is the one to the command in progress.                        *)
<1>9. ASSUME events # <<>>, Answers(e)
      PROVE  /\ pc = "wait" /\ own = 0 /\ sent = <<>> /\ e.op = slots[own].op /\ ~slots[own].signaled
             /\ NoAnswer(Tail(events))
  <2>1. pc = "wait" /\ sent = <<>> /\ OneAnswer(events, slots[own].op) /\ ~slots[own].signaled
    BY <1>4, <1>5, <1>9, TailAnswer DEF InProgress
  <2> QED BY <1>4, <1>9, <2>1, TailAnswer DEF HasSlot
(* What an event that answers nothing leaves behind.                       *)
<1>10. ASSUME events # <<>>, ~Answers(e)
       PROVE  /\ NoAnswer(events) => NoAnswer(Tail(events))
              /\ \A c : OneAnswer(events, c) => OneAnswer(Tail(events), c)
  BY <1>4, <1>10, TailAnswer
<1>11. slots'[own].op = slots[own].op
  BY <1>1, <1>4
<1>12. ASSUME slots'[own].signaled = slots[own].signaled,
              events' = events \/ (events' = Tail(events) /\ events # <<>> /\ ~Answers(e)),
              Reaching'
       PROVE  Orderly'
  <2>1. /\ NoAnswer(events) => NoAnswer(events')
        /\ \A c : OneAnswer(events, c) => OneAnswer(events', c)
    BY <1>10, <1>12
  <2>2. InProgress => InProgress'
    <3>1. OneAnswer(events, slots[own].op) => OneAnswer(events', slots[own].op)
      BY <2>1
    <3> QED BY <1>1, <1>11, <1>12, <2>1, <3>1 DEF InProgress
  <2> QED BY <1>1, <1>5, <1>6, <1>12, <2>1, <2>2 DEF Orderly
<1>13. CASE Handle
  <2>1. ioPc = "idle" /\ ioSlot = 0 /\ events # <<>> /\ UNCHANGED <<slots, ioSlot, copies>>
    BY <1>4, <1>13 DEF Handle, Found
  <2>2. CASE IsAnswer(e)
    <3>1. ioPc' = "scan" /\ events' = events /\ fault' = fault
      BY <1>13, <2>2 DEF Handle, IsAnswer
    <3>2. Reaching'
      BY <2>1, <3>1 DEF Reaching
    <3> QED BY <1>1, <1>12, <2>1, <3>1, <3>2 DEF Running
  <2>3. CASE ~IsAnswer(e)
    <3>1. /\ ioPc' = ioPc /\ events' = Tail(events)
          /\ \/ fault' = IF vendor = "TI" THEN "null" ELSE "none"
             \/ fault' = fault
          /\ e.kind = "meta" \/ ignored' = (ignored \/ vendor # chip.maker)
      BY <1>13, <2>3 DEF Handle
    <3>2. ~Answers(e)
      <4>1. e.kind # "meta" => vendor = chip.maker
        BY <3>1 DEF Clean
      <4> QED BY <2>3, <4>1 DEF IsAnswer, Answers
    <3>3. Reaching'
      BY <2>1, <3>1 DEF Reaching
    <3>4. Orderly'
      BY <1>12, <2>1, <3>1, <3>2, <3>3
    <3> QED BY <1>1, <3>1, <3>4 DEF Running
  <2> QED BY <2>2, <2>3
<1>14. CASE ScanSlot
  <2>1. ioPc = "scan" /\ UNCHANGED <<slots, events, copies>> /\ events # <<>> /\ e.kind \in Handled
    BY <1>4, <1>14 DEF ScanSlot
  <2>2. ioSlot < 2 /\ (Answers(e) => ioSlot = 0) /\ ioSlot \in Slots /\ ioSlot # NumSlots /\ ioSlot < NumSlots
    BY <1>4, <1>5, <2>1, SlotAssumption DEF Reaching, Slots
  <2>3. \/ ioPc' = "clip" /\ ioSlot' = ioSlot /\ fault' = fault
        \/ slots[ioSlot].op # Opcode(e) /\ ioPc' = ioPc /\ ioSlot' = ioSlot + 1 /\ fault' = fault
    BY <1>14, <2>2 DEF ScanSlot
  <2>4. ASSUME slots[ioSlot].op # Opcode(e) PROVE ~Answers(e) /\ ioSlot = 0
    <3>1. ~Answers(e)
      <4> SUFFICES ASSUME Answers(e) PROVE FALSE
        OBVIOUS
      <4>1. slots[ioSlot].op = e.op /\ Opcode(e) = e.op
        BY <1>9, <2>1, <2>2 DEF Opcode, Answers
      <4> QED BY <2>4, <4>1
    <3>2. Opcode(e) = None
      BY <2>1, <3>1 DEF Opcode, Answers, Handled
    <3>3. ioSlot = own /\ pc \in HasSlot
      BY <1>5, <2>2, <2>4, <3>2 DEF Alone, Used
    <3> QED BY <1>4, <3>1, <3>3
  <2>5. Reaching'
    <3> HIDE DEF e
    <3>1. Head(events') = e
      BY <2>1 DEF e
    <3> QED BY <2>1, <2>2, <2>3, <2>4, <3>1 DEF Reaching
  <2> QED BY <1>1, <1>12, <2>1, <2>3, <2>5 DEF Running
<1>15. CASE ClipLength
  <2>1. /\ ioPc = "clip" /\ ioPc' = "copy" /\ UNCHANGED <<slots, events, ioSlot, fault>>
        /\ events # <<>> /\ e.kind \in Handled /\ ioSlot \in Slots
        /\ copies' => slots[ioSlot].capacity
    BY <1>4, <1>15 DEF ClipLength, Matched
  <2>2. ASSUME slots[ioSlot].capacity PROVE slots[ioSlot].buffer
    <3> SUFFICES ASSUME ~slots[ioSlot].buffer PROVE FALSE
      OBVIOUS
    <3>1. pc = "buffer" /\ ioSlot = own /\ pc \in HasSlot
      BY <2>1, <2>2 DEF OrderInv, SlotsFilled, HasSlot, Preparing
    <3>2. Answers(e)
      BY <1>4, <2>1, <3>1, OwnIsFound DEF Matched
    <3> QED BY <1>9, <2>1, <3>1, <3>2
  <2>3. Reaching'
    <3> HIDE DEF e
    <3>1. Head(events') = e
      BY <2>1 DEF e
    <3> QED BY <1>5, <2>1, <2>2, <3>1 DEF Reaching, e
  <2> QED BY <1>1, <1>12, <2>1, <2>3 DEF Running
<1>16. CASE CopyResult
  <2>1. ioPc = "copy" /\ ioPc' = "status" /\ UNCHANGED <<slots, events, ioSlot>>
    BY <1>16 DEF CopyResult
  <2>2. fault' = fault
    BY <1>5, <1>16 DEF CopyResult, Reaching
  <2>3. Reaching'
    <3> HIDE DEF e
    <3>1. Head(events') = e /\ ioPc # "idle"
      BY <2>1 DEF e
    <3> QED BY <1>5, <2>1, <3>1 DEF Reaching, e
  <2> QED BY <1>1, <1>12, <2>1, <2>2, <2>3 DEF Running
<1>17. CASE SetStatus
  <2>1. /\ ioPc = "status" /\ ioPc' = "signal" /\ UNCHANGED <<events, ioSlot, fault>> /\ ioSlot \in Slots
        /\ slots' = [slots EXCEPT ![ioSlot].status = Status(Head(events))]
    BY <1>4, <1>17 DEF SetStatus, Matched
  <2>2. slots'[own].signaled = slots[own].signaled
    BY <1>4, <2>1 DEF SlotRecord
  <2>3. Reaching'
    <3> HIDE DEF e
    <3>1. Head(events') = e /\ ioPc # "idle"
      BY <2>1 DEF e
    <3> QED BY <1>5, <2>1, <3>1 DEF Reaching, e
  <2> QED BY <1>1, <1>12, <2>1, <2>2, <2>3 DEF Running
<1>18. CASE SignalSlot
  <2>1. /\ ioPc = "signal" /\ ioPc' = "idle" /\ fault' = fault /\ ioSlot \in Slots /\ ioPc \in Matched
        /\ slots' = [slots EXCEPT ![ioSlot].signaled = TRUE] /\ events' = Tail(events) /\ events # <<>>
    BY <1>4, <1>18 DEF SignalSlot, Matched
  <2>2. Reaching'
    BY <2>1 DEF Reaching
  <2>3. CASE Answers(e)
    <3>1. pc = "wait" /\ own = 0 /\ sent = <<>> /\ NoAnswer(Tail(events))
      BY <1>9, <2>1, <2>3
    <3>2. ioSlot = own
      BY <1>4, <1>5, <2>1, <2>3, <3>1 DEF Reaching
    <3>3. slots'[own].signaled
      BY <1>4, <2>1, <3>2 DEF SlotRecord
    <3> QED BY <1>1, <1>5, <1>6, <2>1, <2>2, <3>1, <3>3 DEF Orderly, InProgress, Running
  <2>4. CASE ~Answers(e)
    <3>1. CASE ioSlot # own
      <4>1. slots'[own].signaled = slots[own].signaled
        BY <1>4, <2>1, <3>1
      <4> QED BY <1>1, <1>12, <2>1, <2>2, <2>4, <4>1 DEF Running
    <3>2. CASE ioSlot = own
      <4>1. pc \notin HasSlot
        BY <1>4, <2>1, <2>4, <3>2, OwnIsFound
      <4>2. pc # "wait" /\ NoAnswer(events')
        BY <1>5, <1>10, <2>1, <2>4, <4>1 DEF HasSlot
      <4> QED BY <1>1, <1>5, <1>6, <2>1, <2>2, <4>2 DEF Orderly, Running
    <3> QED BY <3>1, <3>2
  <2> QED BY <2>3, <2>4
<1> QED BY <1>13, <1>14, <1>15, <1>16, <1>17, <1>18 DEF IoStep

LEMMA TableInvInductive ==
  NumSlots > 1 /\ VendorInv /\ TypeInv /\ OrderInv /\ DoneInv /\ TableInv /\ [Next]_vars => TableInv'
<1> SUFFICES ASSUME NumSlots > 1, VendorInv, TypeInv, OrderInv, DoneInv, TableInv, [Next]_vars PROVE TableInv'
  OBVIOUS
<1>1. CASE (\E c \in Calls : Begin(c)) \/ ReadVersion \/ Select
  BY <1>1, CallsKeepTable
<1>2. CASE Reserve \/ ResetSlot \/ SetCapacity \/ SetBuffer \/ SetBusy
  BY <1>2, PrepareKeepsTable
<1>3. CASE Transmit \/ TransmitAnyway
  BY <1>3, TransmitKeepsTable
<1>4. CASE Answered \/ TimedOut
  BY <1>4, EndKeepsTable
<1>5. CASE Serve
  BY <1>5, ServeKeepsTable
<1>6. CASE Scan \/ Odd
  BY <1>6, OthersKeepTable
<1>7. CASE IoStep
  BY <1>7, IoKeepsTable
<1>8. CASE UNCHANGED vars
  BY <1>8 DEF vars, appVars, ctlVars, bounded, ioVars, TableInv, Clean, Orderly, Alone, Used, InProgress, Reaching,
     Running
<1> QED BY <1>1, <1>2, <1>3, <1>4, <1>5, <1>6, <1>7, <1>8 DEF Next, AppStep, Finished

(* For every sequence of calls and refusals, with two slots or more: the   *)
(* process dies only after an answer that was lost, late or met by another *)
(* vendor's handler, after a Command Complete for no command whose free    *)
(* slot a command took, or of a Meta event of a TI chip.                   *)
THEOREM NoCallCrashes ==
  ASSUME NumSlots > 1
  PROVE  Spec => []NoCrash
<1>1. Init => TableInv
  <2> SUFFICES ASSUME Init PROVE TableInv
    OBVIOUS
  <2>1. /\ pc = "idle" /\ sent = <<>> /\ events = <<>> /\ ioPc = "idle" /\ fault = "none"
        /\ \A s \in Slots : slots[s].op = None
    BY DEF Init
  <2> QED BY <2>1 DEF TableInv, Orderly, Alone, Used, NoAnswer, Reaching, Running
<1>2. TypeInv /\ TableInv => NoCrash
  <2> SUFFICES ASSUME TypeInv, TableInv, fault # "none", lost + late = 0, ~ignored, ~overtaken
               PROVE  fault = "null" /\ vendor = "TI"
    BY BoundAssumption DEF NoCrash, TypeInv, CountersTyped
  <2>1. lost = 0 /\ late = 0
    BY BoundAssumption DEF TypeInv, CountersTyped
  <2> QED BY <2>1 DEF TableInv, Clean, Running
<1>3. NumSlots > 1
  OBVIOUS
<1> QED BY <1>1, <1>2, <1>3, VendorInvHolds, TypeInvHolds, OrderInvHolds, DoneInvHolds, TableInvInductive, PTL DEF Spec
=============================================================================
