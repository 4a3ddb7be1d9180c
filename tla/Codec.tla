------------------------------- MODULE Codec -------------------------------
(***************************************************************************)
(* What the library makes of bytes, and bytes of what it is asked for:     *)
(* addresses as text (utils.c), advertising reports (ti_hci.c, st_aci.c)   *)
(* and their data (gap.c), discovered services (hci.c), the values of the  *)
(* SensorTag (sensor_tag.c) and the commands that open a connection and    *)
(* write an attribute (ti_hci.c, st_aci.c).                                *)
(*                                                                         *)
(* A job says what is to be told, Layout(job) which bytes tell it.  A step *)
(* is one pass of the loop that looks at them.                             *)
(***************************************************************************)
EXTENDS Integers, Sequences, SequencesExt

CONSTANTS
  Jobs,         \* what there is to decode or to encode
  CommandSize   \* size of the buffer of a write command: 64 in the code

(* The numbers that a byte, or some bytes, can hold.                       *)
Unsigned(range)       == 0 .. range - 1
TwosComplement(range) == -(range \div 2) .. range \div 2 - 1
Octet == Unsigned(256)
Word  == Unsigned(65536)

ASSUME SizeAssumption == CommandSize \in Octet

VARIABLES
  job,      \* the job
  input,    \* the bytes that tell it, and those behind them in memory
  at,       \* the byte the loop is at, counted from 0
  limit,    \* the bytes that may be looked at, or written
  reach,    \* the bytes up to the last one that was
  nibble,   \* the half of a byte that utl_parseAddress has
  out,      \* what has come out: a sequence of numbers per item
  end       \* running, returned true or false, failed an assert, overran

vars == <<job, input, at, limit, reach, nibble, out, end>>

Lo(n)       == n % 256
Hi(n)       == (n \div 256) % 256
Bytes16(n)  == <<Lo(n), Hi(n)>>
Bytes24(n)  == Append(Bytes16(n), (n \div 65536) % 256)
Byte(i)     == input[i + 1]
Value16(i)  == Byte(i) + 256 * Byte(i + 1)
Value24(i)  == Value16(i) + 65536 * Byte(i + 2)
Value(i, n) == SubSeq(input, i + 1, i + n)
Signed(n, range) == IF n < range \div 2 THEN n ELSE n - range

-----------------------------------------------------------------------------
(* Text: utl_printAddress.  Characters are their ASCII codes.              *)

Colon == 58
HexDigit(n) == IF n < 10 THEN 48 + n ELSE 87 + n

PrintAddress(a) ==
  [i \in 1 .. 17 |->
     LET byte == a[6 - (i - 1) \div 3]
     IN CASE i % 3 = 1 -> HexDigit(byte \div 16)
          [] i % 3 = 2 -> HexDigit(byte % 16)
          [] i % 3 = 0 -> Colon]

IsHex(c)    == c \in 48 .. 57 \cup 65 .. 70 \cup 97 .. 102
HexValue(c) == CASE c \in 48 .. 57  -> c - 48
                 [] c \in 65 .. 70  -> c - 55
                 [] c \in 97 .. 102 -> c - 87

-----------------------------------------------------------------------------
(* What peers and chips send.                                              *)

AD == [flags |-> 1, uuid16 |-> 2, shortName |-> 8, name |-> 9, power |-> 10,
       interval |-> 18, manufacturer |-> 255]
Units16 == {AD.uuid16, AD.interval}

(* An element <<type, values...>> of advertising data, as bytes.           *)
ElementBytes(e) ==
  LET value == IF e[1] \in Units16
               THEN FlattenSeq([i \in 1 .. Len(e) - 1 |-> Bytes16(e[i + 1])])
               ELSE IF e[1] = AD.manufacturer
               THEN Bytes16(e[2]) \o SubSeq(e, 3, Len(e))
               ELSE [i \in 1 .. Len(e) - 1 |-> Lo(e[i + 1])]
  IN <<Len(value) + 1, e[1]>> \o value

DataBytes(j) ==
  FlattenSeq([i \in 1 .. Len(j.elements) |-> ElementBytes(j.elements[i])])
  \o [i \in 1 .. j.padding |-> 0]

(* GAP_DeviceInformation of TI, ACI_GAP_DEVICE_FOUND_EVENT of ST.          *)
ReportBytes(j) ==
  LET data == DataBytes(j) IN
    IF j.vendor = "TI"
    THEN <<13, 6, 0, j.type, 0>> \o j.address \o <<Lo(j.rssi), Len(data)>> \o data
    ELSE <<6, 4, j.type, 0>> \o j.address \o <<Len(data)>> \o Append(data, Lo(j.rssi))

(* The event Read By Group Type Response; TI has its status in front.      *)
ServiceBytes(j) ==
  LET size == 4 + j.uuidLength IN
    (IF j.vendor = "TI" THEN <<17, 5, 0>> ELSE <<10, 12>>)
    \o Bytes16(j.link) \o <<1 + Len(j.entries) * size, size>>
    \o FlattenSeq([i \in 1 .. Len(j.entries) |->
         Bytes16(j.entries[i].first) \o Bytes16(j.entries[i].last) \o j.entries[i].uuid])

BarometerBytes(j) == Bytes24(j.values[1]) \o Bytes24(j.values[2])
ImuBytes(j) == FlattenSeq([i \in 1 .. 9 |-> Bytes16(j.values[i])])

Layout(j) ==
  CASE j.kind = "address"   -> Append(j.text, 0)
    [] j.kind = "report"    -> ReportBytes(j)
    [] j.kind = "air"       -> j.data
    [] j.kind = "services"  -> ServiceBytes(j)
    [] j.kind = "barometer" -> SubSeq(BarometerBytes(j), 1, 6 - j.missing)
    [] j.kind = "imu"       -> SubSeq(ImuBytes(j), 1, 18 - j.missing)
    [] OTHER                -> <<>>

(* The jobs there are: a number fits the bytes that tell it, a length the  *)
(* byte that counts it, and the buffers of reports and sensor values do    *)
(* not end with them.  The elements of a report have the length they say,  *)
(* and the values that the code looks at in any case.  Data from the air   *)
(* are any bytes: nobody checks that they are elements.                    *)
Vendors == {"TI", "ST"}
Address == [1 .. 6 -> Octet]

IsElement(e) ==
  /\ e \in Seq(Int) /\ Len(e) > 0 /\ e[1] \in Octet
  /\ e[1] = AD.power => Len(e) = 2
  /\ e[1] = AD.manufacturer => Len(e) > 1
  /\ \A i \in 2 .. Len(e) :
       e[i] \in IF e[1] = AD.power THEN TwosComplement(256)
               ELSE IF e[1] \in Units16 \/ (e[1] = AD.manufacturer /\ i = 2) THEN Word
               ELSE Octet
  /\ Len(ElementBytes(e)) <= 255

IsReport(j) ==
  /\ j.vendor \in Vendors /\ j.type \in 0 .. 4 /\ j.address \in Address /\ j.rssi \in TwosComplement(256)
  /\ j.elements \in Seq(Seq(Int)) /\ \A i \in 1 .. Len(j.elements) : IsElement(j.elements[i])
  /\ j.padding \in Nat
  /\ Len(DataBytes(j)) <= 255 /\ Len(j.behind) >= 3

IsServices(j) ==
  /\ j.vendor \in Vendors /\ j.link \in Word /\ j.uuidLength \in {2, 16}
  /\ j.entries \in Seq([first : Word, last : Word, uuid : [1 .. j.uuidLength -> Octet]])
  /\ 1 + Len(j.entries) * (4 + j.uuidLength) <= 255

WellFormed(j) ==
  /\ j.behind \in Seq(Octet)
  /\ \/ j.kind = "address" /\ j.text \in Seq(Octet \ {0})
     \/ j.kind = "report" /\ IsReport(j)
     \/ j.kind = "air" /\ j.data \in Seq(Octet) /\ Len(j.data) <= 255 /\ Len(j.behind) >= 255
     \/ j.kind = "services" /\ IsServices(j)
     \/ /\ j.kind = "barometer" /\ j.values \in Int \X Unsigned(16777216)
        /\ j.missing \in 0 .. 6 /\ Len(j.behind) >= j.missing
     \/ /\ j.kind = "imu" /\ j.values \in [1 .. 9 -> TwosComplement(65536)]
        /\ j.missing \in 0 .. 18 /\ Len(j.behind) >= j.missing
     \/ j.kind = "open" /\ j.vendor \in Vendors /\ j.address \in Address
     \/ /\ j.kind = "write" /\ j.vendor \in Vendors /\ j.link \in Word /\ j.handle \in Word
        /\ j.value \in Seq(Octet) /\ Len(j.value) <= 255

ASSUME JobAssumption == \A j \in Jobs : WellFormed(j)

-----------------------------------------------------------------------------
TypeOK ==
  /\ job \in Jobs
  /\ \A i \in DOMAIN input : input[i] \in Octet
  /\ at \in Nat /\ limit \in Nat /\ reach \in Nat
  /\ nibble \in Octet
  /\ out \in Seq(Seq(Int))
  /\ job.kind = "address" => out \in Seq(Address)
  /\ end \in {"running", "true", "false", "assert", "overrun"}

Init ==
  /\ job \in Jobs
  /\ input = Layout(job) \o job.behind
  /\ at = 0 /\ limit = Len(Layout(job)) /\ reach = 0 /\ nibble = 0
  /\ out = IF job.kind = "address" THEN <<<<0, 0, 0, 0, 0, 0>>>> ELSE <<>>
  /\ end = "running"

Does(kind) == end = "running" /\ job.kind = kind
Looks(n)   == reach' = IF reach < n THEN n ELSE reach
Ends(how)  == end' = how /\ UNCHANGED <<at, out>>

-----------------------------------------------------------------------------
(* utl_parseAddress                                                        *)

EndOfText == at >= 18 \/ Byte(at) = 0

FirstByteFirst == [out EXCEPT ![1][at \div 3 + 1] = nibble + HexValue(Byte(at))]   \* mutant
LastByteFirst  == [out EXCEPT ![1][6 - at \div 3] = nibble + HexValue(Byte(at))]

OneMore(c) == 16 * (HexValue(c) + 1)   \* mutant
High(c)    == 16 * HexValue(c)

ParseCharacter ==
  /\ Does("address") /\ ~EndOfText
  /\ Looks(at + 1)
  /\ LET c == Byte(at)  valid == IF (at + 1) % 3 = 0 THEN c = Colon ELSE IsHex(c) IN
       IF ~valid THEN Ends("false") /\ UNCHANGED nibble
       ELSE /\ at' = at + 1
            /\ CASE (at + 1) % 3 = 0 -> UNCHANGED <<nibble, out>>
                 [] (at + 1) % 3 = 1 -> nibble' = High(c) /\ UNCHANGED out
                 [] (at + 1) % 3 = 2 -> out' = LastByteFirst /\ nibble' = 0
            /\ end' = end
  /\ UNCHANGED <<job, input, limit>>

ParseEnds ==
  /\ Does("address") /\ EndOfText
  /\ IF at < 18 THEN Looks(at + 1) ELSE UNCHANGED reach
  /\ Ends(IF at = 17 THEN "true" ELSE "false")
  /\ UNCHANGED <<job, input, limit, nibble>>

-----------------------------------------------------------------------------
(* The report of a device: the vendor's part, then                         *)
(* gap_decodeAdvertisingData, which an application calls for its data.     *)

(* Where the vendors have the type of the report, the address, the number  *)
(* of bytes of data, and the data.                                         *)
Fields == [TI |-> [type |-> 3, address |-> 5, size |-> 12, data |-> 13],
           ST |-> [type |-> 2, address |-> 4, size |-> 10, data |-> 11]]

Report ==
  /\ Does("report") /\ at = 0
  /\ LET f == Fields[job.vendor]
         size == Byte(f.size)
         rssi == IF job.vendor = "TI" THEN Byte(11) ELSE Byte(f.data + size)
     IN IF Byte(f.type) > 4 THEN Ends("assert") /\ UNCHANGED <<limit, reach>>
        ELSE /\ out' = <<Append(Value(f.address, 6), Signed(rssi, 256))>>
             /\ at' = f.data /\ reach' = f.data
             /\ limit' = f.data + size
             /\ end' = end
  /\ UNCHANGED <<job, input, nibble>>

OneLength == [t \in {AD.flags, AD.uuid16, AD.interval} |->
                CASE t = AD.flags -> 2 [] t = AD.uuid16 -> 3 [] t = AD.interval -> 5]

WithType(length)   == length       \* mutant
NameLength(length) == length - 1

(* The values of an element of a type and a length, at i, and how many     *)
(* bytes are looked at for them.                                           *)
Told(type, length, i) ==
  CASE type = AD.flags        -> <<Byte(i)>>
    [] type = AD.power        -> <<Signed(Byte(i), 256)>>
    [] type = AD.interval     -> <<Value16(i), Value16(i + 2)>>
    [] type \in {AD.uuid16, AD.manufacturer}  -> <<Value16(i)>>
    [] type \in {AD.shortName, AD.name}       -> Value(i, NameLength(length))
    [] OTHER                  -> <<>>

Uses(type, length) ==
  CASE type \in {AD.flags, AD.power}          -> 1
    [] type \in {AD.uuid16, AD.manufacturer}  -> 2
    [] type = AD.interval                     -> 4
    [] type \in {AD.shortName, AD.name} /\ length > 0 -> NameLength(length)
    [] OTHER                                  -> 0

NextElement ==
  /\ at < limit
  /\ LET length == Byte(at)  type == Byte(at + 1) IN
       IF type \in DOMAIN OneLength /\ length # OneLength[type]
       THEN Ends("assert") /\ Looks(at + 2)
       ELSE /\ out' = Append(out, <<type>> \o Told(type, length, at + 2))
            /\ Looks(at + 2 + Uses(type, length))
            /\ at' = at + 1 + length
            /\ end' = end
  /\ UNCHANGED <<job, input, limit, nibble>>

Element    == Does("report") /\ at > 0 /\ NextElement
AirElement == Does("air") /\ NextElement

ReportEnds ==
  /\ Does("report") /\ at > 0 /\ at >= limit
  /\ Ends("true")
  /\ UNCHANGED <<job, input, limit, reach, nibble>>

AirEnds ==
  /\ Does("air") /\ at >= limit
  /\ Ends("true")
  /\ UNCHANGED <<job, input, limit, reach, nibble>>

-----------------------------------------------------------------------------
(* hci_on_ATT_READ_BY_GROUP_TYPE_RESP_EVENT; the callback prints the UUID  *)
(* as utl_printUUID does, the last byte first.                             *)

Start == IF job.vendor = "TI" THEN 3 ELSE 2
EntrySize == Byte(Start + 3)

Services ==
  /\ Does("services") /\ at = 0
  /\ LET length == limit - Start  told == Byte(Start + 2) - 1 IN
       IF /\ 4 <= length
          /\ EntrySize \in {6, 20} /\ told % EntrySize = 0 /\ 4 + told = length
       THEN at' = Start + 4 /\ UNCHANGED <<out, end>>
       ELSE Ends("assert")
  /\ reach' = Start + 4
  /\ UNCHANGED <<job, input, limit, nibble>>

PrintUUID(i, n) == Reverse(Value(i, n))

Service ==
  /\ Does("services") /\ at > 0 /\ at < limit
  /\ out' = Append(out, <<Value16(at), Value16(at + 2)>> \o PrintUUID(at + 4, EntrySize - 4))
  /\ Looks(at + EntrySize)
  /\ at' = at + EntrySize
  /\ UNCHANGED <<job, input, limit, nibble, end>>

ServicesEnd ==
  /\ Does("services") /\ at > 0 /\ at >= limit
  /\ Ends("true")
  /\ UNCHANGED <<job, input, limit, reach, nibble>>

-----------------------------------------------------------------------------
(* SensorTag_readBarometerData and SensorTag_readIMUData.  A read fills    *)
(* the buffer of its caller, with bytes from behind the value if that is   *)
(* shorter, so that the length they assert is always there.                *)

Decoded(told, n) ==
  /\ Looks(n)
  /\ IF Len(Layout(job)) <= n THEN out' = told /\ end' = "true" /\ UNCHANGED at
                              ELSE Ends("assert")
  /\ UNCHANGED <<job, input, limit, nibble>>

Barometer ==
  /\ Does("barometer")
  /\ Decoded(<<<<Value24(0), Value24(3)>>>>, 6)

Imu ==
  /\ Does("imu")
  /\ Decoded(<<[i \in 1 .. 9 |-> Signed(Value16(2 * (i - 1)), 65536)]>>, 18)

-----------------------------------------------------------------------------
(* Commands: the packet goes out as it is.                                 *)

(* lb_openDeviceConnection_ST has made room for the address twice: it      *)
(* sends six more bytes, which nothing has written.                        *)
Unwritten == 6

OpenPacket(junk) ==
  IF job.vendor = "TI"
  THEN <<1, 9, 254, 9, 0, 0, 0>> \o job.address
  ELSE <<1, 156, 252, 24, 208, 7, 208, 7, 0>> \o job.address
       \o <<0, 20, 0, 40, 0, 0, 0, 100, 0, 2, 0, 2, 0>> \o [i \in 1 .. Unwritten |-> junk]

Open ==
  /\ Does("open")
  /\ \E junk \in {0, 4} : out' = <<OpenPacket(junk)>>
  /\ end' = "true"
  /\ UNCHANGED <<job, input, at, limit, reach, nibble>>

Room == CommandSize - IF job.vendor = "TI" THEN 8 ELSE 9

AsTI(n)            == Lo(4 + n)   \* mutant
ParameterLength(n) == Lo(IF job.vendor = "TI" THEN 4 + n ELSE 5 + n)

WriteHead(n) ==
  LET handles == Bytes16(job.link) \o Bytes16(job.handle) IN
    IF job.vendor = "TI" THEN <<1, 146, 253, ParameterLength(n)>> \o handles
                         ELSE <<1, 28, 253, ParameterLength(n)>> \o handles \o <<n>>

(* lb_writeCharValue copies the value, however long it is.                 *)
Write ==
  /\ Does("write")
  /\ limit' = CommandSize
  /\ LET packet == WriteHead(Len(job.value)) \o job.value IN
       /\ reach' = Len(packet)
       /\ out' = <<packet>>
       /\ end' = IF Len(packet) <= CommandSize THEN "true" ELSE "overrun"
  /\ UNCHANGED <<job, input, at, nibble>>

-----------------------------------------------------------------------------
Finished == end # "running" /\ UNCHANGED vars

Next ==
  \/ ParseCharacter \/ ParseEnds
  \/ Report \/ Element \/ ReportEnds
  \/ AirElement \/ AirEnds
  \/ Services \/ Service \/ ServicesEnd
  \/ Barometer \/ Imu
  \/ Open \/ Write
  \/ Finished

Spec == Init /\ [][Next]_vars

-----------------------------------------------------------------------------
(* What each job should come to.                                           *)

Lower(c) == IF c \in 65 .. 70 THEN c + 32 ELSE c
IsAddress(text) ==
  Len(text) = 17 /\ \A i \in 1 .. 17 : IF i % 3 = 0 THEN text[i] = Colon ELSE IsHex(text[i])

(* What the code reports of an element: no more than the manufacturer of   *)
(* manufacturer data, nothing of unknown types.                            *)
Reported(e) ==
  CASE e[1] = AD.manufacturer -> SubSeq(e, 1, 2)
    [] e[1] \in {AD[f] : f \in DOMAIN AD \ {"manufacturer"}} -> e
    [] OTHER -> SubSeq(e, 1, 1)

Expected ==
  CASE job.kind = "report" ->
         <<Append(job.address, job.rssi)>> \o [i \in 1 .. Len(job.elements) |-> Reported(job.elements[i])]
    [] job.kind = "services" ->
         [i \in 1 .. Len(job.entries) |->
            LET e == job.entries[i] IN <<e.first, e.last>> \o Reverse(e.uuid)]
    [] job.kind = "barometer" -> <<<<job.values[1] % 16777216, job.values[2]>>>>
    [] job.kind = "imu"       -> <<job.values>>

(* Elements of the lengths that the code asserts.  The Bluetooth core      *)
(* specification allows more flags and more than one UUID.                 *)
Sound ==
  CASE job.kind = "report" ->
         /\ job.padding = 0
         /\ \A i \in DOMAIN job.elements : LET b == ElementBytes(job.elements[i]) IN
              b[2] \in DOMAIN OneLength => b[1] = OneLength[b[2]]
    [] job.kind \in {"barometer", "imu"} -> job.missing = 0
    [] job.kind = "write" -> Len(job.value) <= Room
    [] OTHER -> TRUE

(* utl_parseAddress accepts the addresses, in either case, and nothing     *)
(* else, and utl_printAddress prints what it has parsed.  Reports,         *)
(* services and sensor values come out as they were sent: every item, once *)
(* and in order.  Only a temperature below zero does not, it comes out     *)
(* 2^24 hundredths of a degree higher.                                     *)
ToldAsSent ==
  CASE job.kind = "address" ->
         /\ end = "true"  => /\ IsAddress(job.text)
                             /\ PrintAddress(out[1]) = [i \in 1 .. 17 |-> Lower(job.text[i])]
         /\ end = "false" => ~IsAddress(job.text)
    [] job.kind \in {"report", "services", "barometer", "imu"} ->
         end = "true" /\ Sound => out = Expected
    [] OTHER -> TRUE

(* The length in the header of a command is that of the bytes that follow, *)
(* or the chip takes the next command at the wrong byte: it is, but ST's   *)
(* connection command is sent with six bytes too many.  The parameters are *)
(* those asked for.                                                        *)
CommandsFramed ==
  (job.kind \in {"open", "write"} /\ end = "true") =>
    LET packet == out[1]  parameters == SubSeq(packet, 5, 4 + packet[4]) IN
      /\ Len(packet) = 4 + packet[4]
                       + (IF job.kind = "open" /\ job.vendor = "ST" THEN Unwritten ELSE 0)
      /\ IF job.kind = "open"
         THEN \E i \in {3, 5} : SubSeq(parameters, i + 1, i + 6) = job.address
         ELSE IsPrefix(Bytes16(job.link) \o Bytes16(job.handle), parameters)
              /\ IsSuffix(job.value, parameters)

(* Nothing is read behind the data and nothing written behind a command,   *)
(* and no assert fails, unless an element is padded or of a length the     *)
(* code does not know, a sensor value too short or a written one too long, *)
(* or the data come from the air as they are: the lengths in them are      *)
(* trusted.  If these say where the data end, at most three bytes behind   *)
(* are read, for the value of an element too short for its type; and at    *)
(* most 255, as many as a length can add, if they do not.                  *)
StaysInside ==
  IF job.kind = "air" THEN /\ end # "overrun"
                           /\ reach <= limit + 255
                           /\ at <= limit => reach <= limit + 3
                      ELSE Sound => reach <= limit /\ end \notin {"assert", "overrun"}
=============================================================================
