--------------------------- MODULE FramingProofs ---------------------------
(***************************************************************************)
(* Proofs about Framing, for every set of events, every size of the        *)
(* accumulator and of the reads, and every way to cut the bytes into       *)
(* reads.                                                                  *)
(***************************************************************************)
EXTENDS Framing, SequenceTheorems, TLAPS

-----------------------------------------------------------------------------
(* The accumulator                                                         *)

(* What processBuffer has not used ends where the bytes received end; the  *)
(* read loop goes on with all of it in front.                              *)
Window ==
  /\ off + left = length
  /\ pc = "idle" => off = 0
  /\ length < BufferSize

TypeInv == TypeOK /\ Window

LEMMA SentTyped ==
  ASSUME TypeOK
  PROVE  /\ Len(sent) \in Nat
         /\ \A k \in 1 .. Len(sent) :
              /\ sent[k] \in Packets /\ sent[k].opcode \in Nat
              /\ sent[k].payload \in Seq(Nat) /\ Len(sent[k].payload) \in Nat
<1>1. Len(sent) \in Nat /\ \A k \in 1 .. Len(sent) : sent[k] \in Packets
  BY LenProperties, ElementOfSeq DEF TypeOK
<1>2. \A p \in Packets : p.opcode \in Nat /\ p.payload \in Seq(Nat) /\ Len(p.payload) \in Nat
  BY PacketAssumption, LenProperties
<1> QED BY <1>1, <1>2

LEMMA BytesTyped ==
  ASSUME NEW p \in Packets
  PROVE  /\ Bytes(p) \in Seq(Nat)
         /\ Len(Bytes(p)) = Header + Len(p.payload)
         /\ Bytes(p)[1] = Event /\ Bytes(p)[2] = p.opcode /\ Bytes(p)[3] = Len(p.payload)
         /\ \A i \in 1 .. Len(p.payload) : Bytes(p)[Header + i] = p.payload[i]
<1>1. p.opcode \in Nat /\ p.payload \in Seq(Nat) /\ Len(p.payload) \in Nat
  BY PacketAssumption, LenProperties
<1> DEFINE head == <<Event, p.opcode, Len(p.payload)>>
<1>2. head \in Seq(Nat) /\ Len(head) = 3
  BY <1>1, ByteAssumption
<1>2a. head[1] = Event /\ head[2] = p.opcode /\ head[3] = Len(p.payload)
  OBVIOUS
<1>3. Bytes(p) = head \o p.payload
  BY DEF Bytes
<1> HIDE DEF head
<1> USE DEF Header
<1>4. \A h, t \in Seq(Nat) : /\ h \o t \in Seq(Nat)
                             /\ Len(h \o t) = Len(h) + Len(t)
                             /\ \A i \in 1 .. Len(h) + Len(t) :
                                  (h \o t)[i] = IF i <= Len(h) THEN h[i] ELSE t[i - Len(h)]
  BY ConcatProperties
<1>5. /\ head \o p.payload \in Seq(Nat)
      /\ Len(head \o p.payload) = 3 + Len(p.payload)
      /\ \A i \in 1 .. 3 + Len(p.payload) :
           (head \o p.payload)[i] = IF i <= 3 THEN head[i] ELSE p.payload[i - 3]
  <2>1. /\ head \o p.payload \in Seq(Nat)
        /\ Len(head \o p.payload) = Len(head) + Len(p.payload)
        /\ \A i \in 1 .. Len(head) + Len(p.payload) :
             (head \o p.payload)[i] = IF i <= Len(head) THEN head[i] ELSE p.payload[i - Len(head)]
    BY <1>1, <1>2, <1>4, Zenon
  <2> QED BY <1>2, <2>1
<1>6. \A i \in 1 .. Len(p.payload) : (head \o p.payload)[3 + i] = p.payload[i]
  <2> SUFFICES ASSUME NEW i \in 1 .. Len(p.payload)
               PROVE  (head \o p.payload)[3 + i] = p.payload[i]
    OBVIOUS
  <2>1. 3 + i \in 1 .. 3 + Len(p.payload) /\ ~(3 + i <= 3) /\ (3 + i) - 3 = i
    BY <1>1
  <2> QED BY <1>5, <2>1
<1>7. 1 \in 1 .. 3 + Len(p.payload) /\ 2 \in 1 .. 3 + Len(p.payload) /\ 3 \in 1 .. 3 + Len(p.payload)
  BY <1>1
<1>8. /\ (head \o p.payload)[1] = head[1] /\ (head \o p.payload)[2] = head[2]
      /\ (head \o p.payload)[3] = head[3]
  BY <1>5, <1>7
<1> QED BY <1>2a, <1>3, <1>5, <1>6, <1>8

LEMMA SequenceEnd ==
  ASSUME NEW s \in Seq(Nat), NEW e \in Seq(Nat), NEW t, t = s \o e,
         NEW k \in Nat, k = Len(s), NEW m \in Nat, m = Len(e)
  PROVE  /\ t \in Seq(Nat) /\ Len(t) = k + m
         /\ \A i \in 1 .. k : t[i] = s[i]
         /\ \A i \in 1 .. m : t[k + i] = e[i]
<1>1. /\ s \o e \in Seq(Nat) /\ Len(s \o e) = Len(s) + Len(e)
      /\ \A i \in 1 .. Len(s) + Len(e) :
           (s \o e)[i] = IF i <= Len(s) THEN s[i] ELSE e[i - Len(s)]
  BY ConcatProperties
<1>2. ASSUME NEW i \in 1 .. m PROVE t[k + i] = e[i]
  <2>1. k + i \in 1 .. k + m /\ ~(k + i <= k) /\ (k + i) - k = i
    OBVIOUS
  <2> QED BY <1>1, <2>1
<1> QED BY <1>1, <1>2

LEMMA TypeInductive == TypeInv /\ [Next]_vars => TypeInv'
<1> SUFFICES ASSUME TypeInv, [Next]_vars PROVE TypeInv'
  OBVIOUS
<1> USE SizeAssumption, BoundAssumption DEF Header
<1>0. TypeOK /\ Window /\ Len(line) \in Nat
  BY LenProperties DEF TypeInv, TypeOK
<1>1. CASE SendEvent
  <2>1. PICK p \in Packets : sent' = Append(sent, p) /\ line' = line \o Bytes(p)
    BY <1>1 DEF SendEvent
  <2>2. sent' \in Seq(Packets) /\ line' \in Seq(Nat)
    BY <1>0, <2>1, BytesTyped, ConcatProperties, AppendProperties DEF TypeOK
  <2> QED BY <1>0, <1>1, <2>2 DEF SendEvent, TypeInv, TypeOK, Window, ioVars
<1>2. CASE SendNoise
  <2>1. line' \in Seq(Nat)
    BY <1>0, <1>2, AppendProperties, ByteAssumption DEF SendNoise, TypeOK
  <2> QED BY <1>0, <1>2, <2>1 DEF SendNoise, TypeInv, TypeOK, Window, ioVars
<1>3. ASSUME NEW n \in 1 .. MaxChunk, Receive(n) PROVE TypeInv'
  <2>1. n \in Nat /\ n + length < BufferSize /\ n <= Len(line)
    BY <1>3 DEF Receive, Fits
  <2>2. line' \in Seq(Nat)
    <3>1. \A i \in n + 1 .. Len(line) : line[i] \in Nat
      BY <1>0, <2>1, ElementOfSeq DEF TypeOK
    <3> QED BY <1>0, <1>3, <2>1, <3>1, SubSeqProperties DEF Receive
  <2>3. \A i \in Index : i \in length .. length + n - 1 => line[i - length + 1] \in Nat
    BY <1>0, <2>1, ElementOfSeq DEF TypeOK, Index
  <2>4. buf' \in [Index -> Nat]
    BY <1>0, <1>3, <2>3 DEF Receive, TypeOK
  <2> QED BY <1>0, <1>3, <2>1, <2>2, <2>4 DEF Receive, TypeInv, TypeOK, Window
<1>4. ASSUME NEW n \in 1 .. MaxChunk, Overflow(n) PROVE TypeInv'
  BY <1>0, <1>4 DEF Overflow, TypeInv, TypeOK, Window
<1>5. CASE Dispatch
  <2>0. /\ off \in Nat /\ left \in Nat /\ length \in Nat /\ 3 <= left
        /\ 3 + buf[off + 2] <= left /\ off + left = length /\ length < BufferSize
        /\ buf \in [Index -> Nat]
    BY <1>0, <1>5 DEF Dispatch, HasHeader, Full, Size, TypeOK, Window
  <2>1. off + 2 \in Index /\ off + 1 \in Index /\ buf[off + 1] \in Nat /\ buf[off + 2] \in Nat
    BY <2>0 DEF Index
  <2>2. \A i \in 1 .. buf[off + 2] : buf[off + 2 + i] \in Nat
    BY <2>0, <2>1 DEF Index
  <2>3. [i \in 1 .. buf[off + 2] |-> buf[off + 2 + i]] \in Seq(Nat)
    BY <2>1, <2>2
  <2>4. dispatched' \in Seq([opcode : Nat, payload : Seq(Nat)])
    BY <1>0, <1>5, <2>1, <2>3 DEF Dispatch, TypeOK
  <2>5. off' \in 0 .. BufferSize /\ left' \in 0 .. BufferSize /\ off' + left' = length
    <3>1. PICK b \in Nat : b = buf[off + 2]
      BY <2>1
    <3>2. off' = off + (3 + b) /\ left' = left - (3 + b) /\ 3 + b <= left
      BY <1>5, <2>0, <3>1 DEF Dispatch, Size
    <3> QED BY <2>0, <3>2
  <2> QED BY <1>0, <1>5, <2>4, <2>5 DEF Dispatch, Processing, Size, TypeInv, TypeOK, Window
<1>6. CASE Incomplete \/ Corrupt
  <2>1. buf' \in [Index -> Nat]
    <3>1. /\ buf \in [Index -> Nat] /\ off \in Nat /\ left \in Nat
          /\ off + left < BufferSize
      BY <1>0 DEF TypeOK, Window
    <3>2. \A i \in Index : i < left => off + i \in Index
      BY <3>1 DEF Index
    <3>3. MoveFront \in [Index -> Nat]
      BY <3>1, <3>2 DEF MoveFront
    <3> QED BY <1>6, <3>3 DEF Incomplete, Corrupt
  <2>2. UNCHANGED <<sent, noise, line, dispatched, split, fault>> /\ pc' = "idle"
    BY <1>6 DEF Incomplete, Corrupt, Leave
  <2>3. /\ length' \in 0 .. BufferSize /\ off' \in 0 .. BufferSize /\ left' \in 0 .. BufferSize
        /\ Window'
    BY <1>0, <1>6 DEF Incomplete, Corrupt, Leave, TypeOK, Window
  <2> QED BY <1>0, <2>1, <2>2, <2>3 DEF TypeInv, TypeOK
<1>7. CASE Partial
  <2>1. Len(dispatched) \in Nat /\ split \subseteq Nat
    BY <1>0, LenProperties DEF TypeOK
  <2>2. split' = split \/ split' = split \cup {Len(dispatched) + 1}
    BY <1>7 DEF Partial
  <2>3. split' \subseteq Nat
    <3> SUFFICES ASSUME NEW x \in split' PROVE x \in Nat
      OBVIOUS
    <3>1. PICK k \in Nat : k = Len(dispatched) + 1
      BY <2>1
    <3>2. x \in split \/ x = k
      BY <2>2, <3>1
    <3>3. CASE x \in split
      BY <2>1, <3>3
    <3> QED BY <3>1, <3>2, <3>3
  <2> QED BY <1>0, <1>7, <2>3 DEF Partial, Leave, TypeInv, TypeOK, Window
<1>8. CASE Finished \/ UNCHANGED vars
  BY <1>0, <1>8 DEF Finished, TypeInv, TypeOK, Window, vars, ioVars
<1> QED BY <1>1, <1>2, <1>3, <1>4, <1>5, <1>6, <1>7, <1>8 DEF Next, Read, Process

LEMMA TypeInitially == ASSUME Init PROVE TypeInv
<1>1. buf \in [Index -> Nat]
    BY DEF Init
<1>2. sent \in Seq(Packets) /\ line \in Seq(Nat)
        /\ dispatched \in Seq([opcode : Nat, payload : Seq(Nat)])
    BY EmptySeq DEF Init
<1>3. noise \in 0 .. MaxNoise /\ length \in 0 .. BufferSize /\ off \in 0 .. BufferSize
        /\ left \in 0 .. BufferSize /\ Window
    BY SizeAssumption, BoundAssumption DEF Init, Window, Header
<1>4. pc \in {"idle", "process"} /\ fault \in BOOLEAN /\ split \subseteq Nat
    BY DEF Init
<1> QED BY <1>1, <1>2, <1>3, <1>4 DEF TypeInv, TypeOK

LEMMA TypeInvariant == Spec => []TypeInv
<1>1. Init => TypeInv
  BY TypeInitially
<1> QED BY <1>1, TypeInductive, PTL DEF Spec

(* The accumulator, its cursor and what has been dispatched stay in their  *)
(* types, whatever the bytes on the line are.                              *)
THEOREM TypeCorrect == Spec => []TypeOK
<1>1. TypeInv => TypeOK
  BY DEF TypeInv
<1> QED BY <1>1, TypeInvariant, PTL

-----------------------------------------------------------------------------
(* A clean line                                                            *)

(* The bytes sent so far are s; the k-th event begins behind the byte      *)
(* at[k], and the next one will behind at[Len(sent) + 1].                  *)
EventAt(s, a, p) ==
  /\ s[a + 1] = Event /\ s[a + 2] = p.opcode /\ s[a + 3] = Len(p.payload)
  /\ \A i \in 1 .. Len(p.payload) : s[a + 3 + i] = p.payload[i]

Stream(s, at) ==
  /\ s \in Seq(Nat)
  /\ at \in [1 .. Len(sent) + 1 -> 0 .. Len(s)]
  /\ at[Len(sent) + 1] = Len(s)
  /\ \A k \in 1 .. Len(sent) :
       /\ at[k + 1] = at[k] + 3 + Len(sent[k].payload)
       /\ EventAt(s, at[k], sent[k])

(* The bytes held and those on the line are the ones behind the events     *)
(* that were dispatched.  Only the opcode of a header that was left behind *)
(* another event may be the one of an event before: processBuffer does not *)
(* move it, and what it finds in its place is the header of the first      *)
(* event of that accumulator.                                              *)
Known(x) == \E j \in 1 .. Len(dispatched) : x = dispatched[j].opcode
HeldOpcode(x, s, c) == x = s[c + 2] \/ (Len(dispatched) + 1 \in split /\ Known(x))

Held(s, c) ==
  /\ \A i \in 1 .. left : i # 2 => buf[off + i - 1] = s[c + i]
  /\ left >= 2 => HeldOpcode(buf[off + 1], s, c)
  /\ off > 0 => buf[0] = Event /\ Known(buf[1])

Unread(s, c) ==
  /\ Len(s) = c + left + Len(line)
  /\ \A i \in 1 .. Len(line) : line[i] = s[c + left + i]

Dispatched ==
  /\ Len(dispatched) <= Len(sent)
  /\ \A i \in 1 .. Len(dispatched) :
       /\ dispatched[i].payload = sent[i].payload
       /\ \/ dispatched[i].opcode = sent[i].opcode
          \/ i \in split /\ \E j \in 1 .. i - 1 : dispatched[i].opcode = dispatched[j].opcode

(* What is held between two reads is no whole event.                       *)
Cut ==
  (pc = "idle" /\ left >= 3) => /\ Len(dispatched) < Len(sent)
                               /\ left < 3 + Len(sent[Len(dispatched) + 1].payload)

CutAt(s, at) == Stream(s, at) /\ Held(s, at[Len(dispatched) + 1]) /\ Unread(s, at[Len(dispatched) + 1])

StreamInv == noise = 0 => Dispatched /\ Cut /\ \E s, at : CutAt(s, at)

-----------------------------------------------------------------------------
(* Whatever is held, or comes next, belongs to the next event.             *)
LEMMA NextEvent ==
  ASSUME TypeInv, noise = 0, Dispatched, NEW s, NEW at, CutAt(s, at), left + Len(line) > 0
  PROVE  LET d == Len(dispatched) + 1 IN
           /\ d \in 1 .. Len(sent)
           /\ EventAt(s, at[d], sent[d])
           /\ at[d + 1] = at[d] + 3 + Len(sent[d].payload)
           /\ at[d + 1] <= Len(s)
<1>1. Len(dispatched) \in Nat /\ Len(sent) \in Nat /\ Len(line) \in Nat /\ left \in Nat /\ Len(s) \in Nat
  BY LenProperties DEF TypeInv, TypeOK, CutAt, Stream
<1>2. Len(dispatched) # Len(sent)
  BY <1>1 DEF CutAt, Stream, Unread
<1>3. Len(dispatched) + 1 \in 1 .. Len(sent) /\ Len(dispatched) + 2 \in 1 .. Len(sent) + 1
  BY <1>1, <1>2 DEF Dispatched
<1> QED BY <1>1, <1>3 DEF CutAt, Stream

(* A new event goes to the end of the stream.                              *)
LEMMA StreamSend ==
  ASSUME TypeInv, StreamInv, SendEvent
  PROVE  StreamInv'
<1> SUFFICES ASSUME noise = 0 PROVE Dispatched' /\ Cut' /\ \E s, at : CutAt(s, at)'
  BY DEF StreamInv, SendEvent
<1>a. PICK s, at : CutAt(s, at)
  BY DEF StreamInv
<1>b. PICK p \in Packets : sent' = Append(sent, p) /\ line' = line \o Bytes(p)
  BY DEF SendEvent
<1>c. PICK n \in Nat, len \in Nat, d \in Nat, l \in Nat, m \in Nat, w \in Nat :
        /\ n = Len(sent) /\ len = Len(p.payload) /\ d = Len(dispatched)
        /\ l = Len(line) /\ m = Len(s) /\ w = left
  <2>1. Len(sent) \in Nat /\ Len(dispatched) \in Nat /\ Len(line) \in Nat /\ left \in Nat
    BY LenProperties DEF TypeInv, TypeOK
  <2>2. Len(s) \in Nat /\ Len(p.payload) \in Nat
    BY <1>a, PacketAssumption, LenProperties DEF CutAt, Stream
  <2> QED BY <2>1, <2>2
<1>d. PICK t : t = s \o Bytes(p)
  OBVIOUS
<1>f. at \in [1 .. n + 1 -> 0 .. m] /\ at[n + 1] = m /\ d <= n
  BY <1>a, <1>c DEF CutAt, Stream, StreamInv, Dispatched
<1>g. PICK c \in Nat : c = at[d + 1]
  BY <1>f
<1>1. UNCHANGED <<buf, length, pc, off, left, dispatched, split, fault>>
  BY DEF SendEvent, ioVars
<1>2. s \in Seq(Nat) /\ line \in Seq(Nat)
  BY <1>a DEF TypeInv, TypeOK, CutAt, Stream
<1>3. /\ Len(sent') = n + 1 /\ sent'[n + 1] = p
      /\ \A k \in 1 .. n : sent'[k] = sent[k]
  BY <1>b, <1>c, AppendProperties DEF TypeInv, TypeOK
<1>4. /\ Bytes(p) \in Seq(Nat) /\ Len(Bytes(p)) = 3 + len
      /\ Bytes(p)[1] = Event /\ Bytes(p)[2] = p.opcode /\ Bytes(p)[3] = len
      /\ \A i \in 1 .. len : Bytes(p)[3 + i] = p.payload[i]
  BY <1>c, BytesTyped DEF Header
<1>4a. PICK e \in Seq(Nat), el \in Nat : e = Bytes(p) /\ el = 3 + len /\ el = Len(e)
  BY <1>4
<1>5. /\ t \in Seq(Nat) /\ Len(t) = m + el
      /\ \A i \in 1 .. m : t[i] = s[i]
      /\ \A i \in 1 .. el : t[m + i] = e[i]
  <2>1. t = s \o e
    BY <1>d, <1>4a
  <2>2. m = Len(s) /\ el = Len(e)
    BY <1>c, <1>4a
  <2> QED BY <1>2, <2>1, <2>2, SequenceEnd
<1>6. /\ Len(line') = l + el
      /\ \A i \in 1 .. l : line'[i] = line[i]
      /\ \A i \in 1 .. el : line'[l + i] = e[i]
  <2>1. line' = line \o e
    BY <1>b, <1>4a
  <2>2. l = Len(line) /\ el = Len(e)
    BY <1>c, <1>4a
  <2>3. PICK f : f = line'
    OBVIOUS
  <2> QED BY <1>2, <2>1, <2>2, <2>3, SequenceEnd
<1>e. PICK bt : bt = [k \in 1 .. n + 2 |-> IF k <= n + 1 THEN at[k] ELSE m + el]
  OBVIOUS
<1>7. Stream(t, bt)'
  <2>0. Stream(s, at)
    BY <1>a DEF CutAt
  <2>1. bt \in [1 .. n + 2 -> 0 .. m + el] /\ bt[n + 2] = m + el
    BY <1>e, <1>f
  <2>2. ASSUME NEW k \in 1 .. n
        PROVE  bt[k + 1] = bt[k] + 3 + Len(sent'[k].payload) /\ EventAt(t, bt[k], sent'[k])
    <3>1. PICK a \in Nat, b \in 0 .. m, z \in Nat :
            a = at[k] /\ b = at[k + 1] /\ z = Len(sent[k].payload)
      <4>1. at[k] \in 0 .. m /\ at[k + 1] \in 0 .. m
        BY <1>f
      <4>2. Len(sent[k].payload) \in Nat
        BY <1>c, SentTyped DEF TypeInv
      <4> QED BY <4>1, <4>2
    <3>2. b = a + 3 + z /\ EventAt(s, a, sent[k])
      BY <1>c, <2>0, <3>1 DEF Stream
    <3>3. EventAt(t, a, sent[k])
      <4>1. t[a + 1] = s[a + 1] /\ t[a + 2] = s[a + 2] /\ t[a + 3] = s[a + 3]
        <5>1. a + 1 \in 1 .. m /\ a + 2 \in 1 .. m /\ a + 3 \in 1 .. m
          BY <3>2
        <5> QED BY <1>5, <5>1
      <4>2. \A i \in 1 .. z : t[a + 3 + i] = s[a + 3 + i]
        BY <1>5, <3>2
      <4> QED BY <3>1, <3>2, <4>1, <4>2 DEF EventAt
    <3>4. bt[k] = a /\ bt[k + 1] = b
      BY <1>e, <3>1
    <3> QED BY <1>3, <3>1, <3>2, <3>3, <3>4
  <2>3. bt[n + 2] = bt[n + 1] + 3 + Len(sent'[n + 1].payload) /\ EventAt(t, bt[n + 1], sent'[n + 1])
    <3>1. bt[n + 1] = m
      BY <1>e, <1>f
    <3>2. EventAt(t, m, p)
      <4>1. t[m + 1] = e[1] /\ t[m + 2] = e[2] /\ t[m + 3] = e[3]
        <5>1. 1 \in 1 .. el /\ 2 \in 1 .. el /\ 3 \in 1 .. el
          BY <1>4a
        <5> QED BY <1>5, <5>1
      <4>2. \A i \in 1 .. len : t[m + 3 + i] = e[3 + i]
        <5> SUFFICES ASSUME NEW i \in 1 .. len PROVE t[m + 3 + i] = e[3 + i]
          OBVIOUS
        <5>1. 3 + i \in 1 .. el /\ m + (3 + i) = m + 3 + i
          BY <1>4a
        <5> QED BY <1>5, <5>1
      <4> QED BY <1>c, <1>4, <1>4a, <4>1, <4>2 DEF EventAt
    <3>3. Len(sent'[n + 1].payload) = len
      BY <1>c, <1>3
    <3>4. bt[n + 2] = bt[n + 1] + 3 + len
      <4>1. m + el = m + 3 + len
        BY <1>4a
      <4>2. bt[n + 2] = m + 3 + len
        BY <2>1, <4>1
      <4> QED BY <3>1, <4>2
    <3> QED BY <1>3, <3>1, <3>2, <3>3, <3>4
  <2>4. \A k \in 1 .. n + 1 : k \in 1 .. n \/ k = n + 1
    OBVIOUS
  <2>5. ASSUME NEW k \in 1 .. n + 1
        PROVE  bt[k + 1] = bt[k] + 3 + Len(sent'[k].payload) /\ EventAt(t, bt[k], sent'[k])
    <3>1. CASE k \in 1 .. n
      BY <2>2, <3>1
    <3>2. CASE k = n + 1
      BY <2>3, <3>2
    <3> QED BY <2>4, <3>1, <3>2
  <2>6. Len(sent') + 1 = n + 2
    BY <1>3
  <2> QED BY <1>3, <1>5, <2>1, <2>5, <2>6 DEF Stream
<1>8. c + w + l = m
  BY <1>a, <1>c, <1>g DEF CutAt, Unread
<1>8a. bt[d + 1] = c
  BY <1>e, <1>f, <1>g
<1>9. Held(t, c)'
  <2>1. \A i \in 1 .. w : t[c + i] = s[c + i]
    BY <1>5, <1>8
  <2>2. w >= 2 => t[c + 2] = s[c + 2]
    BY <2>1
  <2>3. Held(s, c)
    BY <1>a, <1>c, <1>g DEF CutAt
  <2> QED BY <1>c, <1>1, <2>1, <2>2, <2>3 DEF Held, HeldOpcode, Known
<1>10. Unread(t, c)'
  <2>1. ASSUME NEW i \in 1 .. l PROVE line'[i] = t[c + w + i]
    <3>1. line[i] = s[c + w + i]
      BY <1>a, <1>c, <1>g DEF CutAt, Unread
    <3>2. c + w + i \in 1 .. m
      BY <1>8
    <3> QED BY <1>5, <1>6, <3>1, <3>2
  <2>2. ASSUME NEW i \in l + 1 .. l + el PROVE line'[i] = t[c + w + i]
    <3>1. i - l \in 1 .. el /\ l + (i - l) = i /\ m + (i - l) = c + w + i
      BY <1>8
    <3> QED BY <1>5, <1>6, <3>1
  <2>3. ASSUME NEW i \in 1 .. l + el PROVE line'[i] = t[c + w + i]
    <3>1. i \in 1 .. l \/ i \in l + 1 .. l + el
      OBVIOUS
    <3> QED BY <2>1, <2>2, <3>1
  <2>4. Len(t) = c + w + Len(line')
    BY <1>5, <1>6, <1>8
  <2>5. left' = w
    BY <1>c, <1>1
  <2> QED BY <1>6, <2>3, <2>4, <2>5 DEF Unread
<1>11. Dispatched'
  <2>1. Dispatched /\ d <= n + 1
    BY <1>f DEF StreamInv
  <2>2. \A i \in 1 .. d : sent'[i] = sent[i]
    BY <1>3, <1>f
  <2> QED BY <1>c, <1>1, <1>3, <2>1, <2>2 DEF Dispatched
<1>12. Cut'
  BY <1>c, <1>f, <1>1, <1>3 DEF StreamInv, Dispatched, Cut
<1> QED BY <1>c, <1>1, <1>7, <1>8a, <1>9, <1>10, <1>11, <1>12 DEF CutAt

(* A read appends the first bytes of the line.                             *)
LEMMA StreamReceive ==
  ASSUME TypeInv, StreamInv, NEW r \in 1 .. MaxChunk, Receive(r)
  PROVE  StreamInv'
<1> SUFFICES ASSUME noise = 0 PROVE Dispatched' /\ Cut' /\ \E s, at : CutAt(s, at)'
  BY DEF StreamInv, Receive
<1>a. PICK s, at : CutAt(s, at)
  BY DEF StreamInv
<1>1. UNCHANGED <<sent, noise, dispatched, split>> /\ pc' = "process" /\ off' = 0 /\ off = 0
  BY DEF Receive, TypeInv, Window
<1>2. Dispatched /\ Dispatched' /\ Cut'
  BY <1>1 DEF StreamInv, Dispatched, Cut
<1>c. PICK n \in Nat, d \in Nat, l \in Nat, m \in Nat, w \in Nat, q \in Nat :
        /\ n = Len(sent) /\ d = Len(dispatched) /\ q = r
        /\ l = Len(line) /\ m = Len(s) /\ w = left
  <2>1. Len(sent) \in Nat /\ Len(dispatched) \in Nat /\ Len(line) \in Nat /\ left \in Nat
    BY LenProperties DEF TypeInv, TypeOK
  <2>2. Len(s) \in Nat
    BY <1>a, LenProperties DEF CutAt, Stream
  <2>3. r \in Nat
    BY SizeAssumption
  <2> QED BY <2>1, <2>2, <2>3
<1>d. at \in [1 .. n + 1 -> 0 .. m] /\ at[n + 1] = m /\ d <= n
  BY <1>a, <1>c, <1>2 DEF CutAt, Stream, Dispatched
<1>e. PICK c \in Nat : c = at[d + 1]
  BY <1>d
<1>3. q <= l /\ q + w < BufferSize /\ w = length /\ left' = w + q /\ c + w + l = m /\ q > 0
  <2>1. r <= Len(line) /\ r + length < BufferSize /\ left' = length + r /\ off + left = length
    BY DEF Receive, Fits, TypeInv, Window
  <2>2. length = w /\ r > 0
    BY <1>c, <1>1, <2>1
  <2> QED BY <1>a, <1>c, <1>e, <2>1, <2>2 DEF CutAt, Unread
<1>4. /\ Len(line') = l - q
      /\ \A i \in 1 .. l - q : line'[i] = line[q + i]
  <2>1. line' = SubSeq(line, q + 1, l)
    BY <1>c DEF Receive
  <2>2. \A i \in q + 1 .. l : line[i] \in Nat
    BY <1>c, ElementOfSeq DEF TypeInv, TypeOK
  <2>3. /\ Len(SubSeq(line, q + 1, l)) = IF q + 1 <= l THEN l - (q + 1) + 1 ELSE 0
        /\ \A i \in 1 .. l - (q + 1) + 1 : SubSeq(line, q + 1, l)[i] = line[q + 1 + i - 1]
    BY <2>2, SubSeqProperties
  <2>4. (IF q + 1 <= l THEN l - (q + 1) + 1 ELSE 0) = l - q /\ l - (q + 1) + 1 = l - q
    BY <1>3
  <2>5. \A i \in 1 .. l - q : q + 1 + i - 1 = q + i
    OBVIOUS
  <2> QED BY <2>1, <2>3, <2>4, <2>5
<1>5. /\ \A i \in 1 .. w : buf'[i - 1] = buf[i - 1]
      /\ \A i \in w + 1 .. w + q : buf'[i - 1] = line[i - w]
  <2>1. buf' = [i \in Index |-> IF i \in w .. w + q - 1 THEN line[i - w + 1] ELSE buf[i]]
    BY <1>c, <1>3 DEF Receive
  <2>2. ASSUME NEW i \in 1 .. w PROVE buf'[i - 1] = buf[i - 1]
    <3>1. i - 1 \in Index /\ i - 1 \notin w .. w + q - 1
      BY <1>3, SizeAssumption DEF Index
    <3> QED BY <2>1, <3>1
  <2>3. ASSUME NEW i \in w + 1 .. w + q PROVE buf'[i - 1] = line[i - w]
    <3>1. i - 1 \in Index /\ i - 1 \in w .. w + q - 1 /\ (i - 1) - w + 1 = i - w
      BY <1>3, SizeAssumption DEF Index
    <3> QED BY <2>1, <3>1
  <2> QED BY <2>2, <2>3
<1>6. \A i \in w + 1 .. w + q : buf'[i - 1] = s[c + i]
  <2> SUFFICES ASSUME NEW i \in w + 1 .. w + q PROVE buf'[i - 1] = s[c + i]
    OBVIOUS
  <2>1. i - w \in 1 .. l /\ c + w + (i - w) = c + i
    BY <1>3
  <2>2. line[i - w] = s[c + w + (i - w)]
    BY <1>a, <1>c, <1>e, <2>1 DEF CutAt, Unread
  <2> QED BY <1>5, <2>1, <2>2
<1>7. EventAt(s, c, sent[d + 1]) /\ d + 1 \in 1 .. n
  BY <1>a, <1>c, <1>e, <1>2, <1>3, NextEvent
<1>8. Held(s, c)'
  <2>1. ASSUME NEW i \in 1 .. w + q, i # 2 PROVE buf'[i - 1] = s[c + i]
    <3>1. CASE i \in 1 .. w
      BY <1>a, <1>c, <1>e, <1>1, <1>5, <2>1, <3>1 DEF CutAt, Held
    <3>2. CASE i \in w + 1 .. w + q
      BY <1>6, <3>2
    <3>3. i \in 1 .. w \/ i \in w + 1 .. w + q
      OBVIOUS
    <3> QED BY <3>1, <3>2, <3>3
  <2>2. w + q >= 2 => HeldOpcode(buf'[1], s, c)
    <3> SUFFICES ASSUME w + q >= 2 PROVE HeldOpcode(buf'[1], s, c)
      OBVIOUS
    <3>1. CASE w >= 2
      <4>1. HeldOpcode(buf[1], s, c)
        BY <1>a, <1>c, <1>e, <1>1, <3>1 DEF CutAt, Held
      <4>2. 2 \in 1 .. w /\ 2 - 1 = 1
        BY <3>1
      <4> QED BY <1>5, <4>1, <4>2
    <3>2. CASE ~(w >= 2)
      <4>1. 2 \in w + 1 .. w + q /\ 2 - 1 = 1
        BY <3>2
      <4>2. buf'[1] = s[c + 2]
        BY <1>6, <4>1
      <4> QED BY <4>2 DEF HeldOpcode
    <3> QED BY <3>1, <3>2
  <2>3. left' = w + q /\ off' = 0
    BY <1>1, <1>3
  <2>4. \A i \in 1 .. w + q : 0 + i - 1 = i - 1
    OBVIOUS
  <2>5. w + q >= 2 => HeldOpcode(buf[1], s, c)'
    BY <1>1, <2>2 DEF HeldOpcode, Known
  <2> QED BY <2>1, <2>3, <2>4, <2>5 DEF Held
<1>9. Unread(s, c)'
  <2>1. ASSUME NEW i \in 1 .. l - q PROVE line'[i] = s[c + (w + q) + i]
    <3>1. q + i \in 1 .. l /\ c + w + (q + i) = c + (w + q) + i
      BY <1>3
    <3>2. line[q + i] = s[c + w + (q + i)]
      BY <1>a, <1>c, <1>e, <3>1 DEF CutAt, Unread
    <3> QED BY <1>4, <3>1, <3>2
  <2>2. m = c + (w + q) + (l - q)
    BY <1>3
  <2> QED BY <1>c, <1>3, <1>4, <2>1, <2>2 DEF Unread
<1>10. Stream(s, at)'
  BY <1>a, <1>1 DEF CutAt, Stream
<1> QED BY <1>c, <1>e, <1>1, <1>2, <1>8, <1>9, <1>10 DEF CutAt

(* A whole event at the cursor is the next event that was sent.            *)
LEMMA StreamDispatch ==
  ASSUME TypeInv, StreamInv, Dispatch
  PROVE  StreamInv'
<1> SUFFICES ASSUME noise = 0 PROVE Dispatched' /\ Cut' /\ \E s, at : CutAt(s, at)'
  BY DEF StreamInv, Dispatch
<1>a. PICK s, at : CutAt(s, at)
  BY DEF StreamInv
<1>c. PICK n \in Nat, d \in Nat, m \in Nat, w \in Nat, o \in Nat :
        n = Len(sent) /\ d = Len(dispatched) /\ m = Len(s) /\ w = left /\ o = off
  <2>1. Len(sent) \in Nat /\ Len(dispatched) \in Nat /\ left \in Nat /\ off \in Nat
    BY LenProperties DEF TypeInv, TypeOK
  <2>2. Len(s) \in Nat
    BY <1>a, LenProperties DEF CutAt, Stream
  <2> QED BY <2>1, <2>2
<1>d. at \in [1 .. n + 1 -> 0 .. m] /\ at[n + 1] = m /\ d <= n
  BY <1>a, <1>c DEF CutAt, Stream, StreamInv, Dispatched
<1>e. PICK c \in Nat : c = at[d + 1]
  BY <1>d
<1>1. /\ UNCHANGED <<sent, line, buf, pc, split>> /\ pc = "process" /\ w >= 3
      /\ Dispatched /\ Len(line) \in Nat
  BY <1>c, LenProperties DEF Dispatch, Processing, HasHeader, Header, StreamInv, TypeInv, TypeOK
<1>2. d + 1 \in 1 .. n /\ EventAt(s, c, sent[d + 1]) /\ at[d + 2] = c + 3 + Len(sent[d + 1].payload)
  BY <1>a, <1>c, <1>e, <1>1, NextEvent
<1>3. PICK p \in Packets, len \in Nat : p = sent[d + 1] /\ len = Len(p.payload)
  BY <1>c, <1>2, SentTyped DEF TypeInv
<1>4. buf[o] = Event /\ HeldOpcode(buf[o + 1], s, c) /\ buf[o + 2] = len
  <2>1. Held(s, c)
    BY <1>a, <1>c, <1>e DEF CutAt
  <2>2. buf[o + 1 - 1] = s[c + 1] /\ buf[o + 3 - 1] = s[c + 3] /\ HeldOpcode(buf[o + 1], s, c)
    <3>1. 1 \in 1 .. w /\ 3 \in 1 .. w /\ 1 # 2 /\ 3 # 2
      BY <1>1
    <3>2. \A i \in 1 .. w : i # 2 => buf[o + i - 1] = s[c + i]
      BY <1>c, <2>1 DEF Held
    <3>3. HeldOpcode(buf[o + 1], s, c)
      BY <1>c, <1>1, <2>1 DEF Held
    <3> QED BY <3>1, <3>2, <3>3
  <2>3. o + 1 - 1 = o /\ o + 3 - 1 = o + 2
    OBVIOUS
  <2> QED BY <1>2, <1>3, <2>2, <2>3 DEF EventAt
<1>4a. buf[o + 1] \in Nat
  <2>1. buf \in [Index -> Nat] /\ o + w < BufferSize
    BY <1>c DEF TypeInv, TypeOK, Window
  <2>2. o + 1 \in Index
    BY <1>1, <2>1, SizeAssumption DEF Index
  <2> QED BY <2>1, <2>2
<1>4b. \/ buf[o + 1] = p.opcode
       \/ d + 1 \in split /\ \E j \in 1 .. d : buf[o + 1] = dispatched[j].opcode
  BY <1>c, <1>2, <1>3, <1>4 DEF HeldOpcode, Known, EventAt
<1>5. 3 + len <= w /\ off' = o + (3 + len) /\ left' = w - (3 + len)
  BY <1>c, <1>4 DEF Dispatch, Full, Size, Header
<1>6. \A i \in 1 .. len : buf[o + 2 + i] = p.payload[i]
  <2> SUFFICES ASSUME NEW i \in 1 .. len PROVE buf[o + 2 + i] = p.payload[i]
    OBVIOUS
  <2>1. 3 + i \in 1 .. w /\ 3 + i # 2 /\ o + (3 + i) - 1 = o + 2 + i /\ c + (3 + i) = c + 3 + i
    BY <1>5
  <2>2. buf[o + (3 + i) - 1] = s[c + (3 + i)]
    BY <1>a, <1>c, <1>e, <2>1 DEF CutAt, Held
  <2>3. s[c + 3 + i] = p.payload[i]
    BY <1>2, <1>3 DEF EventAt
  <2> QED BY <2>1, <2>2, <2>3
<1>7. PICK e : e = [opcode |-> buf[o + 1], payload |-> [i \in 1 .. len |-> buf[o + 2 + i]]]
  OBVIOUS
<1>8. e.opcode = buf[o + 1] /\ e.payload = p.payload
  <2>1. p.payload \in Seq(Nat)
    BY PacketAssumption
  <2>2. p.payload \in [1 .. len -> Nat]
    BY <1>3, <2>1, LenProperties
  <2>3. e.payload = [i \in 1 .. len |-> p.payload[i]]
    BY <1>6, <1>7
  <2> QED BY <1>4, <1>7, <2>2, <2>3
<1>9. /\ Len(dispatched') = d + 1 /\ dispatched'[d + 1] = e
      /\ \A i \in 1 .. d : dispatched'[i] = dispatched[i]
  <2>1. dispatched' = Append(dispatched, e)
    BY <1>c, <1>4, <1>7 DEF Dispatch
  <2>2. e \in [opcode : Nat, payload : Seq(Nat)]
    BY <1>3, <1>4a, <1>7, <1>8, PacketAssumption
  <2> QED BY <1>c, <2>1, <2>2, AppendProperties DEF TypeInv, TypeOK
<1>10. Dispatched'
  <2>1. ASSUME NEW i \in 1 .. d + 1
        PROVE  /\ dispatched'[i].payload = sent[i].payload
               /\ \/ dispatched'[i].opcode = sent[i].opcode
                  \/ i \in split /\ \E j \in 1 .. i - 1 : dispatched'[i].opcode = dispatched'[j].opcode
    <3>1. CASE i \in 1 .. d
      <4>1. \A j \in 1 .. i - 1 : dispatched'[j] = dispatched[j]
        BY <1>9, <3>1
      <4> QED BY <1>c, <1>1, <1>9, <3>1, <4>1 DEF Dispatched
    <3>2. CASE i = d + 1
      <4>1. dispatched'[i] = e /\ i - 1 = d
        BY <1>9, <3>2
      <4> QED BY <1>3, <1>4b, <1>8, <1>9, <3>2, <4>1
    <3>3. i \in 1 .. d \/ i = d + 1
      OBVIOUS
    <3> QED BY <3>1, <3>2, <3>3
  <2>2. d + 1 <= n
    BY <1>2
  <2> QED BY <1>c, <1>1, <1>9, <2>1, <2>2 DEF Dispatched
<1>11. Cut'
  BY <1>1 DEF Cut
<1>12. PICK x \in Nat : x = c + (3 + len) /\ x = at[d + 2]
  <2>1. at[d + 2] = c + 3 + len
    BY <1>2, <1>3
  <2> QED BY <2>1
<1>13. Stream(s, at)'
  BY <1>a, <1>1 DEF CutAt, Stream
<1>14. Unread(s, x)'
  <2>1. x + left' = c + w
    BY <1>5, <1>12
  <2>2. Unread(s, c)
    BY <1>a, <1>c, <1>e DEF CutAt
  <2> QED BY <1>c, <1>1, <2>1, <2>2 DEF Unread
<1>15. Held(s, x)'
  <2>0. Held(s, c)
    BY <1>a, <1>c, <1>e DEF CutAt
  <2>1. \A i \in 1 .. w - (3 + len) : buf[o + (3 + len) + i - 1] = s[x + i]
    <3> SUFFICES ASSUME NEW i \in 1 .. w - (3 + len) PROVE buf[o + (3 + len) + i - 1] = s[x + i]
      OBVIOUS
    <3>1. PICK j \in 1 .. w : j = 3 + len + i /\ j # 2
      BY <1>5
    <3>2. buf[o + j - 1] = s[c + j]
      BY <1>c, <2>0, <3>1 DEF Held
    <3>3. o + j - 1 = o + (3 + len) + i - 1 /\ c + j = x + i
      BY <1>12, <3>1
    <3> QED BY <3>2, <3>3
  <2>2. w - (3 + len) >= 2 => buf[o + (3 + len) + 1] = s[x + 2]
    <3> SUFFICES ASSUME w - (3 + len) >= 2 PROVE buf[o + (3 + len) + 1] = s[x + 2]
      OBVIOUS
    <3>1. 2 \in 1 .. w - (3 + len) /\ o + (3 + len) + 2 - 1 = o + (3 + len) + 1
      OBVIOUS
    <3> QED BY <2>1, <3>1
  <2>3. buf[0] = Event /\ Known(buf[1])'
    <3>1. CASE o = 0
      <4>1. dispatched'[d + 1].opcode = buf[1] /\ d + 1 \in 1 .. Len(dispatched')
        BY <1>8, <1>9, <3>1
      <4> QED BY <1>1, <1>4, <3>1, <4>1 DEF Known
    <3>2. CASE o > 0
      <4>1. buf[0] = Event /\ Known(buf[1])
        BY <1>c, <2>0, <3>2 DEF Held
      <4>2. PICK j \in 1 .. d : buf[1] = dispatched[j].opcode
        BY <1>c, <4>1 DEF Known
      <4>3. j \in 1 .. Len(dispatched') /\ buf'[1] = dispatched'[j].opcode
        BY <1>1, <1>9, <4>2
      <4> QED BY <4>1, <4>3 DEF Known
    <3> QED BY <3>1, <3>2
  <2> QED BY <1>1, <1>5, <2>1, <2>2, <2>3 DEF Held, HeldOpcode
<1>16. Len(dispatched') + 1 = d + 2
  BY <1>9
<1> QED BY <1>10, <1>11, <1>12, <1>13, <1>14, <1>15, <1>16 DEF CutAt

(* Back to the read: what is held goes to the front, or stays where it is  *)
(* if that is less than a header.                                          *)
LEMMA StreamLeave ==
  ASSUME TypeInv, StreamInv, Incomplete \/ Corrupt \/ Partial
  PROVE  StreamInv'
<1> SUFFICES ASSUME noise = 0 PROVE Dispatched' /\ Cut' /\ \E s, at : CutAt(s, at)'
  BY DEF StreamInv, Incomplete, Corrupt, Partial
<1>a. PICK s, at : CutAt(s, at)
  BY DEF StreamInv
<1>c. PICK n \in Nat, d \in Nat, m \in Nat, w \in Nat, o \in Nat :
        n = Len(sent) /\ d = Len(dispatched) /\ m = Len(s) /\ w = left /\ o = off
  <2>1. Len(sent) \in Nat /\ Len(dispatched) \in Nat /\ left \in Nat /\ off \in Nat
    BY LenProperties DEF TypeInv, TypeOK
  <2>2. Len(s) \in Nat
    BY <1>a, LenProperties DEF CutAt, Stream
  <2> QED BY <2>1, <2>2
<1>d. at \in [1 .. n + 1 -> 0 .. m] /\ at[n + 1] = m /\ d <= n
  BY <1>a, <1>c DEF CutAt, Stream, StreamInv, Dispatched
<1>e. PICK c \in Nat : c = at[d + 1]
  BY <1>d
<1>1. /\ UNCHANGED <<sent, line, dispatched>> /\ off' = 0 /\ Dispatched /\ Len(line) \in Nat
      /\ pc = "process" /\ pc' = "idle"
  BY LenProperties DEF Incomplete, Corrupt, Partial, Leave, Processing, StreamInv, TypeInv, TypeOK
<1>2. Held(s, c) /\ Unread(s, c) /\ Stream(s, at)
  BY <1>a, <1>c, <1>e DEF CutAt
<1>3. Dispatched' /\ Stream(s, at)'
  <2>1. split \subseteq split'
    BY DEF Incomplete, Corrupt, Partial
  <2> QED BY <1>1, <1>2, <2>1 DEF Dispatched, Stream
<1>4. w > 0 => /\ d + 1 \in 1 .. n /\ EventAt(s, c, sent[d + 1])
               /\ buf[o] = Event /\ sent[d + 1] \in Packets
  <2> SUFFICES ASSUME w > 0
               PROVE  /\ d + 1 \in 1 .. n /\ EventAt(s, c, sent[d + 1])
                      /\ buf[o] = Event /\ sent[d + 1] \in Packets
    OBVIOUS
  <2>1. d + 1 \in 1 .. n /\ EventAt(s, c, sent[d + 1])
    BY <1>a, <1>c, <1>e, <1>1, NextEvent
  <2>2. 1 \in 1 .. w /\ o + 1 - 1 = o
    OBVIOUS
  <2>3. buf[o] = s[c + 1]
    <3>1. \A i \in 1 .. w : i # 2 => buf[o + i - 1] = s[c + i]
      BY <1>c, <1>2 DEF Held
    <3> QED BY <2>2, <3>1
  <2> QED BY <1>c, <2>1, <2>3, SentTyped DEF EventAt, TypeInv
<1>5. ~Corrupt
  BY <1>c, <1>4 DEF Corrupt, HasHeader, Header, IsEvent
<1>6. left' = w
  BY <1>c, <1>5 DEF Incomplete, Partial, Leave
<1>7. Unread(s, c)'
  BY <1>c, <1>1, <1>2, <1>6 DEF Unread
<1>8. Cut' /\ Held(s, c)'
  <2>1. CASE Incomplete
    <3>1. w >= 3 /\ ~(3 + buf[o + 2] <= w) /\ o + w < BufferSize
      BY <1>c, <2>1 DEF Incomplete, HasHeader, Header, Full, Size, TypeInv, Window
    <3>2. \A i \in 1 .. w : buf'[i - 1] = buf[o + i - 1]
      <4>1. \A i \in 1 .. w : i - 1 \in Index /\ i - 1 < w /\ o + (i - 1) = o + i - 1
        BY <3>1, SizeAssumption DEF Index
      <4>2. buf' = [i \in Index |-> IF i < w THEN buf[o + i] ELSE buf[i]]
        BY <1>c, <2>1 DEF Incomplete, MoveFront
      <4>3. ASSUME NEW i \in 1 .. w PROVE buf'[i - 1] = buf[o + i - 1]
        BY <4>1, <4>2
      <4> QED BY <4>3
    <3>3. \A i \in 1 .. w : i # 2 => buf'[0 + i - 1] = s[c + i]
      <4>1. \A i \in 1 .. w : 0 + i - 1 = i - 1
        OBVIOUS
      <4> QED BY <1>c, <1>2, <3>2, <4>1 DEF Held
    <3>4. HeldOpcode(buf[0 + 1], s, c)'
      <4>1. 2 \in 1 .. w /\ 2 - 1 = 0 + 1 /\ o + 2 - 1 = o + 1
        BY <3>1
      <4>2. HeldOpcode(buf[o + 1], s, c)
        BY <1>c, <1>2, <3>1 DEF Held
      <4>3. split' = split
        BY <2>1 DEF Incomplete
      <4>4. buf'[0 + 1] = buf[o + 1]
        BY <3>2, <4>1
      <4> QED BY <1>1, <4>2, <4>3, <4>4 DEF HeldOpcode, Known
    <3>5. Held(s, c)'
      BY <1>1, <1>6, <3>3, <3>4 DEF Held
    <3>6. w < 3 + Len(sent[d + 1].payload) /\ d < n
      <4>1. buf[o + 2] = s[c + 3]
        <5>1. 3 \in 1 .. w /\ o + 3 - 1 = o + 2
          BY <3>1
        <5>2. \A i \in 1 .. w : i # 2 => buf[o + i - 1] = s[c + i]
          BY <1>c, <1>2 DEF Held
        <5> QED BY <5>1, <5>2
      <4>2. PICK len \in Nat : len = Len(sent[d + 1].payload)
        BY <1>c, <1>4, <3>1, SentTyped DEF TypeInv
      <4>3. buf[o + 2] = len
        BY <1>4, <3>1, <4>1, <4>2 DEF EventAt
      <4>4. d + 1 \in 1 .. n
        BY <1>4, <3>1
      <4> QED BY <3>1, <4>2, <4>3, <4>4
    <3> QED BY <1>c, <1>1, <1>6, <3>5, <3>6 DEF Cut
  <2>2. CASE Partial
    <3>1. w < 3 /\ UNCHANGED buf
      BY <1>c, <2>2 DEF Partial, HasHeader, Header
    <3>2. CASE o = 0
      <4>1. split' = split
        BY <1>c, <2>2, <3>2 DEF Partial
      <4>2. Held(s, c)'
        BY <1>c, <1>1, <1>2, <1>6, <3>1, <3>2, <4>1 DEF Held, HeldOpcode, Known
      <4> QED BY <1>1, <1>6, <3>1, <4>2 DEF Cut
    <3>3. CASE o > 0
      <4>1. buf[0] = Event /\ Known(buf[1])
        BY <1>c, <1>2, <3>3 DEF Held
      <4>2. w > 0 => buf[0] = s[c + 1]
        BY <1>4, <4>1 DEF EventAt
      <4>3. \A i \in 1 .. w : i # 2 => buf'[0 + i - 1] = s[c + i]
        <5> SUFFICES ASSUME NEW i \in 1 .. w, i # 2 PROVE buf'[0 + i - 1] = s[c + i]
          OBVIOUS
        <5>1. i = 1 /\ 0 + i - 1 = 0 /\ w > 0
          BY <3>1
        <5> QED BY <3>1, <4>2, <5>1
      <4>4. w >= 2 => HeldOpcode(buf[0 + 1], s, c)'
        <5> SUFFICES ASSUME w >= 2 PROVE HeldOpcode(buf[0 + 1], s, c)'
          OBVIOUS
        <5>1. d + 1 \in split'
          BY <1>c, <2>2, <3>1, <3>3 DEF Partial
        <5>2. buf'[0 + 1] = buf[1] /\ Len(dispatched') + 1 = d + 1
          BY <1>c, <1>1, <3>1
        <5> QED BY <1>1, <4>1, <5>1, <5>2 DEF HeldOpcode, Known
      <4> QED BY <1>1, <1>6, <3>1, <4>3, <4>4 DEF Held, Cut
    <3> QED BY <3>2, <3>3
  <2> QED BY <1>5, <2>1, <2>2
<1> QED BY <1>c, <1>e, <1>1, <1>3, <1>7, <1>8 DEF CutAt

LEMMA StreamKept ==
  ASSUME StreamInv, UNCHANGED <<sent, noise, line, buf, pc, off, left, dispatched, split>>
  PROVE  StreamInv'
<1> SUFFICES ASSUME noise = 0 PROVE Dispatched' /\ Cut' /\ \E s, at : CutAt(s, at)'
  BY DEF StreamInv
<1>1. PICK s, at : CutAt(s, at)
  BY DEF StreamInv
<1>2. Stream(s, at)'
  BY <1>1 DEF CutAt, Stream
<1>3. Held(s, at[Len(dispatched) + 1])' /\ Unread(s, at[Len(dispatched) + 1])'
  BY <1>1 DEF CutAt, Held, HeldOpcode, Known, Unread
<1>4. Dispatched' /\ Cut'
  BY DEF StreamInv, Dispatched, Cut
<1> QED BY <1>2, <1>3, <1>4 DEF CutAt

LEMMA StreamInductive == TypeInv /\ StreamInv /\ [Next]_vars => StreamInv'
<1> SUFFICES ASSUME TypeInv, StreamInv, [Next]_vars PROVE StreamInv'
  OBVIOUS
<1>1. ASSUME NEW n \in 1 .. MaxChunk, Overflow(n) PROVE StreamInv'
  BY <1>1, StreamKept DEF Overflow
<1>2. CASE SendNoise
  <2>1. noise' # 0
    BY <1>2, BoundAssumption DEF SendNoise, TypeInv, TypeOK
  <2> QED BY <2>1 DEF StreamInv
<1>3. CASE Finished \/ UNCHANGED vars
  BY <1>3, StreamKept DEF Finished, vars, ioVars
<1> QED BY <1>1, <1>2, <1>3, StreamSend, StreamReceive, StreamDispatch, StreamLeave
    DEF Next, Read, Process

LEMMA StreamInitially == Init => StreamInv
<1> SUFFICES ASSUME Init PROVE Dispatched /\ Cut /\ \E s, at : CutAt(s, at)
  BY DEF StreamInv
<1> USE DEF Init
<1>1. PICK at : at = [k \in 1 .. 1 |-> 0]
  OBVIOUS
<1>2. Len(sent) = 0 /\ Len(dispatched) = 0 /\ Len(line) = 0
  OBVIOUS
<1>3. Stream(<<>>, at) /\ at[1] = 0
  BY <1>1, <1>2, EmptySeq DEF Stream
<1>4. Held(<<>>, 0) /\ Unread(<<>>, 0)
  BY <1>2 DEF Held, Unread
<1> QED BY <1>2, <1>3, <1>4 DEF CutAt, Dispatched, Cut

LEMMA StreamInvariant == Spec => [](TypeInv /\ StreamInv)
<1>1. Init => StreamInv
  BY StreamInitially
<1>2. TypeInv /\ StreamInv /\ [Next]_vars => StreamInv'
  BY StreamInductive
<1> QED BY <1>1, <1>2, TypeInvariant, PTL DEF Spec

(* Nothing is read behind the bytes received and nothing written behind    *)
(* the accumulator, for every size of it and of the reads and whatever the *)
(* bytes are: the process ends before, and only when a read and the bytes  *)
(* held fill the accumulator, which on a clean line are less than one      *)
(* event.                                                                  *)
THEOREM StaysInBounds == Spec => []InBounds
<1> DEFINE Filled == fault => \E n \in 1 .. MaxChunk : n <= Len(line) /\ BufferSize <= length + n
<1> DEFINE Inv == TypeInv /\ StreamInv /\ Filled
<1>1. Init => Inv
  <2>1. Init => TypeInv
    BY TypeInitially
  <2>2. Init => Filled
    BY DEF Init
  <2> QED BY <2>1, <2>2, StreamInitially
<1>2. Inv /\ [Next]_vars => Inv'
  <2> SUFFICES ASSUME Inv, [Next]_vars PROVE Inv'
    OBVIOUS
  <2>1. TypeInv' /\ StreamInv'
    BY TypeInductive, StreamInductive
  <2>2. Filled'
    <3>1. ASSUME NEW n \in 1 .. MaxChunk, Overflow(n) PROVE Filled'
      <4>1. n <= Len(line) /\ ~(n + length < BufferSize) /\ UNCHANGED <<line, length>>
        BY <3>1 DEF Overflow, Fits
      <4>2. n \in Nat /\ length \in Nat /\ BufferSize \in Nat
        BY SizeAssumption DEF TypeInv, TypeOK
      <4>3. BufferSize <= length + n
        BY <4>1, <4>2
      <4> QED BY <4>1, <4>3
    <3>2. CASE SendEvent \/ SendNoise
      <4>1. Len(line) \in Nat /\ Len(line') \in Nat /\ Len(line) <= Len(line')
        <5>1. line \in Seq(Nat)
          BY DEF TypeInv, TypeOK
        <5>2. CASE SendEvent
          <6>1. PICK p \in Packets : line' = line \o Bytes(p)
            BY <5>2 DEF SendEvent
          <6>2. Bytes(p) \in Seq(Nat)
            BY BytesTyped
          <6> QED BY <5>1, <6>1, <6>2, LenProperties, ConcatProperties
        <5>3. CASE SendNoise
          <6>1. line' = Append(line, Noise) /\ Noise \in Nat
            BY <5>3, ByteAssumption DEF SendNoise
          <6> QED BY <5>1, <6>1, LenProperties, AppendProperties
        <5> QED BY <3>2, <5>2, <5>3
      <4>2. UNCHANGED <<fault, length>>
        BY <3>2 DEF SendEvent, SendNoise, ioVars
      <4> QED BY <4>1, <4>2
    <3>3. ASSUME NEW n \in 1 .. MaxChunk, Receive(n) PROVE Filled'
      BY <3>3 DEF Receive
    <3>4. CASE Process
      BY <3>4 DEF Process, Dispatch, Incomplete, Corrupt, Partial, Processing
    <3>5. CASE Finished \/ UNCHANGED vars
      BY <3>5 DEF Finished, vars, ioVars
    <3> QED BY <3>1, <3>2, <3>3, <3>4, <3>5 DEF Next, Read
  <2> QED BY <2>1, <2>2
<1>3. Inv => InBounds
  <2> SUFFICES ASSUME Inv PROVE InBounds
    OBVIOUS
  <2>1. pc = "idle" => left = length
    BY DEF TypeInv, TypeOK, Window
  <2> QED BY <2>1 DEF TypeInv, Window, StreamInv, Cut, InBounds, Header
<1> QED BY <1>1, <1>2, <1>3, PTL DEF Spec

(* The first events that were sent are dispatched, whole, once and in      *)
(* order, for every set of events and every way to cut the bytes into      *)
(* reads: each with its own payload, and with its own opcode unless two    *)
(* bytes of its header stayed behind other events.                         *)
THEOREM EventsAreFramed == Spec => []Framed
<1>1. StreamInv => Framed
  BY DEF StreamInv, Dispatched, Framed
<1> QED BY <1>1, StreamInvariant, PTL
=============================================================================
