---------------------------- MODULE CodecProofs ----------------------------
(***************************************************************************)
(* Proofs about Codec, for every set of jobs.                              *)
(***************************************************************************)
EXTENDS Codec, SequenceTheorems, WellFoundedInduction, TLAPS

-----------------------------------------------------------------------------
(* Induction, over sets: a set of numbers that is not empty has a least    *)
(* element.                                                                *)
LEMMA Least ==
  ASSUME NEW T \in SUBSET Nat, T # {}
  PROVE  \E m \in T : \A n \in T : m <= n
<1> DEFINE R == OpToRel(<, Nat)
<1>1. IsWellFoundedOn(R, Nat)
  BY NatLessThanWellFounded
<1>2. PICK m \in T : \A n \in T : ~(<<n, m>> \in R)
  <2> HIDE DEF R
  <2> QED BY <1>1, WFMin
<1>3. \A n \in T : ~(n < m)
  BY <1>2 DEF OpToRel
<1> QED BY <1>3

LEMMA Induction ==
  ASSUME NEW S, 0 \in S, \A n \in Nat : n \in S => n + 1 \in S
  PROVE  Nat \subseteq S
<1> SUFFICES ASSUME Nat \ S # {} PROVE FALSE
  OBVIOUS
<1>1. PICK m \in Nat \ S : \A n \in Nat \ S : m <= n
  BY Least
<1>2. m # 0 /\ m - 1 \in Nat /\ m = (m - 1) + 1
  BY <1>1
<1>3. m - 1 \in S
  BY <1>1, <1>2
<1> QED BY <1>1, <1>2, <1>3

-----------------------------------------------------------------------------
(* A number and its bytes.                                                 *)
LEMMA InUnsigned ==
  ASSUME NEW range \in Nat, NEW n
  PROVE  n \in Unsigned(range) <=> n \in Nat /\ n < range
BY DEF Unsigned

LEMMA InTwosComplement ==
  ASSUME NEW half \in Nat, NEW n
  PROVE  n \in TwosComplement(2 * half) <=> n \in Int /\ -half <= n /\ n < half
<1>1. (2 * half) \div 2 = half
  OBVIOUS
<1> QED BY <1>1 DEF TwosComplement

LEMMA Ranges ==
  ASSUME NEW n
  PROVE  /\ n \in Octet <=> n \in Nat /\ n < 256
         /\ n \in Word <=> n \in Nat /\ n < 65536
         /\ n \in Unsigned(16777216) <=> n \in Nat /\ n < 16777216
         /\ n \in TwosComplement(256) <=> n \in Int /\ -128 <= n /\ n < 128
         /\ n \in TwosComplement(65536) <=> n \in Int /\ -32768 <= n /\ n < 32768
<1>1. /\ n \in Octet <=> n \in Nat /\ n < 256
      /\ n \in Word <=> n \in Nat /\ n < 65536
      /\ n \in Unsigned(16777216) <=> n \in Nat /\ n < 16777216
  BY InUnsigned, SMT DEF Octet, Word
<1>2. /\ n \in TwosComplement(256) <=> n \in Int /\ -128 <= n /\ n < 128
      /\ n \in TwosComplement(65536) <=> n \in Int /\ -32768 <= n /\ n < 32768
  <2>1. 256 = 2 * 128 /\ 65536 = 2 * 32768
    BY SMT
  <2> QED BY <2>1, InTwosComplement, SMT
<1> QED BY <1>1, <1>2

LEMMA SmallOctets ==
  /\ 0 \in Octet /\ 4 \in Octet /\ 6 \in Octet /\ 13 \in Octet
  /\ \A n \in Nat : n < 256 => n \in Octet
BY InUnsigned, SMT DEF Octet

LEMMA Word16 ==
  ASSUME NEW n \in Int
  PROVE  /\ Lo(n) \in Octet /\ Hi(n) \in Octet
         /\ n \in Word => Lo(n) + 256 * Hi(n) = n
         /\ n \in TwosComplement(65536) => Signed(Lo(n) + 256 * Hi(n), 65536) = n
<1>1. Lo(n) \in Octet /\ Hi(n) \in Octet
  BY Ranges, SMT DEF Lo, Hi
<1>2. n \in Word => Lo(n) + 256 * Hi(n) = n
  BY Ranges, SMT DEF Lo, Hi
<1>3. n \in TwosComplement(65536) => Signed(Lo(n) + 256 * Hi(n), 65536) = n
  <2> SUFFICES ASSUME -32768 <= n, n < 32768 PROVE Signed(Lo(n) + 256 * Hi(n), 65536) = n
    BY Ranges
  <2>1. Lo(n) + 256 * Hi(n) = IF n < 0 THEN n + 65536 ELSE n
    BY SMT DEF Lo, Hi
  <2> QED BY <2>1, SMT DEF Signed
<1> QED BY <1>1, <1>2, <1>3

LEMMA Byte8 ==
  ASSUME NEW n \in Int
  PROVE  /\ n \in Octet => Lo(n) = n
         /\ n \in TwosComplement(256) => Signed(Lo(n), 256) = n
<1>1. n \in Octet => Lo(n) = n
  BY Ranges, SMT DEF Lo
<1>2. n \in TwosComplement(256) => Signed(Lo(n), 256) = n
  BY Ranges, SMT DEF Lo, Signed
<1> QED BY <1>1, <1>2

Third(n) == (n \div 65536) % 256

LEMMA ThirdByte ==
  ASSUME NEW n \in Int
  PROVE  Third(n) \in Octet
BY Ranges, SMT DEF Third

LEMMA Word24 ==
  ASSUME NEW n \in Int
  PROVE  Lo(n) + 256 * Hi(n) + 65536 * Third(n) = n % 16777216
BY SMT DEF Lo, Hi, Third

-----------------------------------------------------------------------------
(* A sequence of sequences, one behind the other: item i is behind the     *)
(* first pos[i - 1] elements of f.                                         *)
Marks(seqs, f, pos) ==
  /\ pos \in [0 .. Len(seqs) -> Nat] /\ pos[0] = 0 /\ pos[Len(seqs)] = Len(f)
  /\ \A i \in 1 .. Len(seqs) :
       /\ pos[i] = pos[i - 1] + Len(seqs[i]) /\ pos[i] <= Len(f)
       /\ \A k \in 1 .. Len(seqs[i]) : f[pos[i - 1] + k] = seqs[i][k]

LEMMA Joined ==
  ASSUME NEW S, NEW s \in Seq(S), NEW t \in Seq(S)
  PROVE  /\ s \o t \in Seq(S) /\ Len(s \o t) = Len(s) + Len(t)
         /\ \A i \in 1 .. Len(s) : (s \o t)[i] = s[i]
         /\ \A i \in 1 .. Len(t) : (s \o t)[Len(s) + i] = t[i]
<1>1. /\ s \o t \in Seq(S) /\ Len(s \o t) = Len(s) + Len(t)
      /\ \A i \in 1 .. Len(s) + Len(t) : (s \o t)[i] = IF i <= Len(s) THEN s[i] ELSE t[i - Len(s)]
  BY ConcatProperties
<1>2. Len(s) \in Nat /\ Len(t) \in Nat
  BY LenProperties
<1>3. ASSUME NEW i \in 1 .. Len(t) PROVE (s \o t)[Len(s) + i] = t[i]
  <2>1. Len(s) + i \in 1 .. Len(s) + Len(t) /\ ~(Len(s) + i <= Len(s)) /\ (Len(s) + i) - Len(s) = i
    BY <1>2
  <2> QED BY <1>1, <2>1
<1>4. ASSUME NEW i \in 1 .. Len(s) PROVE (s \o t)[i] = s[i]
  BY <1>1, <1>2
<1> QED BY <1>1, <1>3, <1>4

(* FlattenSeq is defined by recursion; there is a function that does it.   *)
Behind(seqs, g, i) == IF i = 1 THEN seqs[i] ELSE g[i - 1] \o seqs[i]

LEMMA FlattenExists ==
  ASSUME NEW S, NEW seqs \in Seq(Seq(S))
  PROVE  \E g : g = [i \in 1 .. Len(seqs) |-> Behind(seqs, g, i)]
<1> DEFINE Good(k) == \E g : g = [i \in 1 .. k |-> Behind(seqs, g, i)]
           T == {k \in Nat : Good(k)}
<1>1. Good(0)
  <2>1. \E g : g = [i \in 1 .. 0 |-> seqs]
    OBVIOUS
  <2>2. PICK g : g = [i \in 1 .. 0 |-> seqs]
    BY <2>1
  <2>3. g = [i \in 1 .. 0 |-> Behind(seqs, g, i)]
    BY <2>2
  <2> QED BY <2>3
<1>2. ASSUME NEW k \in Nat, Good(k) PROVE Good(k + 1)
  <2>1. PICK g : g = [i \in 1 .. k |-> Behind(seqs, g, i)]
    BY <1>2
  <2> DEFINE h == [i \in 1 .. k + 1 |-> IF i <= k THEN g[i] ELSE Behind(seqs, g, i)]
  <2>2. ASSUME NEW i \in 1 .. k + 1 PROVE h[i] = Behind(seqs, h, i)
    <3>1. h[i] = Behind(seqs, g, i)
      <4>1. CASE i <= k
        <5>1. i \in 1 .. k
          BY <4>1
        <5> QED BY <2>1, <4>1, <5>1
      <4>2. CASE ~(i <= k)
        BY <4>2
      <4> QED BY <4>1, <4>2
    <3>2. i # 1 => h[i - 1] = g[i - 1]
      OBVIOUS
    <3> QED BY <3>1, <3>2 DEF Behind
  <2>3. h = [i \in 1 .. k + 1 |-> h[i]]
    OBVIOUS
  <2> HIDE DEF h
  <2>4. h = [i \in 1 .. k + 1 |-> Behind(seqs, h, i)]
    BY <2>2, <2>3
  <2> QED BY <2>4
<1>3. \A k \in Nat : k \in T => k + 1 \in T
  BY <1>2
<1>4. 0 \in T
  BY <1>1
<1> HIDE DEF T
<1>5. Nat \subseteq T
  BY <1>3, <1>4, Induction
<1>6. Len(seqs) \in T
  BY <1>5, LenProperties
<1> QED BY <1>6 DEF T

LEMMA Flatten ==
  ASSUME NEW S, NEW seqs \in Seq(Seq(S))
  PROVE  /\ FlattenSeq(seqs) \in Seq(S)
         /\ \E pos : Marks(seqs, FlattenSeq(seqs), pos)
<1> DEFINE n == Len(seqs)
<1>a. n \in Nat /\ \A i \in 1 .. n : seqs[i] \in Seq(S) /\ Len(seqs[i]) \in Nat
  BY LenProperties, ElementOfSeq
<1>1. CASE n = 0
  <2>1. FlattenSeq(seqs) = seqs /\ seqs = <<>>
    BY <1>1, EmptySeq DEF FlattenSeq
  <2>2. PICK pos : pos = [i \in 0 .. 0 |-> 0]
    OBVIOUS
  <2>3. Marks(seqs, <<>>, pos)
    BY <1>1, <2>1, <2>2 DEF Marks
  <2> QED BY <2>1, <2>3
<1>2. CASE n # 0
  <2> DEFINE F == CHOOSE g : g = [i \in 1 .. n |-> Behind(seqs, g, i)]
  <2>1. FlattenSeq(seqs) = F[n]
    BY <1>2 DEF FlattenSeq, Behind
  <2>2. F = [i \in 1 .. n |-> Behind(seqs, F, i)]
    BY FlattenExists
  <2>3. PICK f : f = F
    OBVIOUS
  <2>4. f = [i \in 1 .. n |-> Behind(seqs, f, i)] /\ FlattenSeq(seqs) = f[n]
    BY <2>1, <2>2, <2>3
  <2> HIDE DEF F
  <2>5. \A i \in 1 .. n : f[i] = IF i = 1 THEN seqs[i] ELSE f[i - 1] \o seqs[i]
    BY <2>4 DEF Behind
  <2>6. PICK pos : pos = [i \in 0 .. n |-> IF i = 0 THEN 0 ELSE Len(f[i])]
    OBVIOUS
  <2> DEFINE Upto(k) ==
        /\ f[k] \in Seq(S)
        /\ \A i \in 1 .. k :
             /\ pos[i] \in Nat /\ pos[i - 1] \in Nat
             /\ pos[i] = pos[i - 1] + Len(seqs[i]) /\ pos[i] <= Len(f[k])
             /\ \A m \in 1 .. Len(seqs[i]) : f[k][pos[i - 1] + m] = seqs[i][m]
      T == {k \in Nat : k \in 1 .. n => Upto(k)}
  <2>7. Upto(1)
    <3>1. f[1] = seqs[1] /\ 1 \in 1 .. n
      BY <1>a, <1>2, <2>5
    <3>2. pos[1] = Len(f[1]) /\ pos[0] = 0 /\ 1 - 1 = 0
      BY <1>a, <2>6, <3>1
    <3> QED BY <1>a, <3>1, <3>2
  <2>8. ASSUME NEW k \in 1 .. n, k + 1 \in 1 .. n, Upto(k) PROVE Upto(k + 1)
    <3>1. f[k + 1] = f[k] \o seqs[k + 1]
      <4>1. k + 1 # 1 /\ (k + 1) - 1 = k
        OBVIOUS
      <4> QED BY <2>5, <2>8, <4>1
    <3>2. f[k] \in Seq(S) /\ seqs[k + 1] \in Seq(S)
      BY <1>a, <2>8
    <3>3. /\ f[k + 1] \in Seq(S) /\ Len(f[k + 1]) = Len(f[k]) + Len(seqs[k + 1])
          /\ \A i \in 1 .. Len(f[k]) : f[k + 1][i] = f[k][i]
          /\ \A i \in 1 .. Len(seqs[k + 1]) : f[k + 1][Len(f[k]) + i] = seqs[k + 1][i]
      <4> DEFINE a == f[k]  b == seqs[k + 1]
      <4>1. a \in Seq(S) /\ b \in Seq(S) /\ f[k + 1] = a \o b
        BY <3>1, <3>2
      <4> HIDE DEF a, b
      <4>2. /\ f[k + 1] \in Seq(S) /\ Len(f[k + 1]) = Len(a) + Len(b)
            /\ \A i \in 1 .. Len(a) : f[k + 1][i] = a[i]
            /\ \A i \in 1 .. Len(b) : f[k + 1][Len(a) + i] = b[i]
        BY <4>1, Joined
      <4> QED BY <4>2 DEF a, b
    <3>4. pos[k] = Len(f[k]) /\ pos[k + 1] = Len(f[k + 1])
      BY <2>6, <2>8
    <3>5. Len(f[k]) \in Nat /\ Len(seqs[k + 1]) \in Nat
      BY <3>2, LenProperties
    <3>5a. Len(f[k + 1]) \in Nat /\ Len(f[k]) <= Len(f[k + 1])
      <4>1. \A a, b \in Nat : a + b \in Nat /\ a <= a + b
        OBVIOUS
      <4> QED BY <3>3, <3>5, <4>1
    <3>6. ASSUME NEW i \in 1 .. k
          PROVE  /\ pos[i] \in Nat /\ pos[i - 1] \in Nat
                 /\ pos[i] = pos[i - 1] + Len(seqs[i]) /\ pos[i] <= Len(f[k + 1])
                 /\ \A m \in 1 .. Len(seqs[i]) : f[k + 1][pos[i - 1] + m] = seqs[i][m]
      <4>1. pos[i] \in Nat /\ pos[i - 1] \in Nat /\ pos[i] = pos[i - 1] + Len(seqs[i]) /\ pos[i] <= Len(f[k])
        BY <2>8
      <4>2. ASSUME NEW m \in 1 .. Len(seqs[i]) PROVE f[k + 1][pos[i - 1] + m] = seqs[i][m]
        <5>1. Len(seqs[i]) \in Nat
          BY <1>a
        <5>2. pos[i - 1] + m \in 1 .. Len(f[k])
          <6>1. \A a, b, c, d \in Nat : a = b + c /\ a <= d /\ m \in 1 .. c => b + m \in 1 .. d
            OBVIOUS
          <6> QED BY <3>5, <4>1, <5>1, <6>1
        <5> QED BY <2>8, <3>3, <5>2
      <4>3. \A a, b, c \in Nat : a <= b /\ b <= c => a <= c
        OBVIOUS
      <4>4. pos[i] <= Len(f[k + 1])
        BY <3>5, <3>5a, <4>1, <4>3
      <4> QED BY <4>1, <4>2, <4>4
    <3>7. \A i \in 1 .. k + 1 : i \in 1 .. k \/ i = k + 1
      OBVIOUS
    <3>8. (k + 1) - 1 = k
      OBVIOUS
    <3>9. /\ pos[k + 1] \in Nat /\ pos[k] \in Nat
          /\ pos[k + 1] = pos[k] + Len(seqs[k + 1]) /\ pos[k + 1] <= Len(f[k + 1])
          /\ \A m \in 1 .. Len(seqs[k + 1]) : f[k + 1][pos[k] + m] = seqs[k + 1][m]
      <4>1. \A a \in Nat : a <= a
        OBVIOUS
      <4> QED BY <3>3, <3>4, <3>5, <3>5a, <4>1
    <3> QED BY <3>3, <3>6, <3>7, <3>8, <3>9
  <2> HIDE DEF Upto
  <2>9. \A k \in Nat : k \in T => k + 1 \in T
    <3> SUFFICES ASSUME NEW k \in Nat, k \in T PROVE k + 1 \in T
      OBVIOUS
    <3>1. ASSUME k + 1 \in 1 .. n PROVE Upto(k + 1)
      <4>1. CASE k = 0
        BY <2>7, <4>1
      <4>2. CASE k # 0
        <5>1. k \in 1 .. n
          BY <3>1, <4>2
        <5> QED BY <2>8, <3>1, <5>1
      <4> QED BY <4>1, <4>2
    <3> QED BY <3>1
  <2>10. 0 \in T
    OBVIOUS
  <2> HIDE DEF T
  <2>11. Nat \subseteq T
    BY <2>9, <2>10, Induction
  <2>12. Upto(n)
    BY <1>a, <1>2, <2>11 DEF T
  <2>13. f[n] \in Seq(S) /\ pos[n] = Len(f[n]) /\ pos[0] = 0
    BY <1>a, <1>2, <2>6, <2>12 DEF Upto
  <2>14. pos \in [0 .. n -> Nat]
    <3>1. \A i \in 0 .. n : pos[i] \in Nat
      <4>1. \A i \in 0 .. n : i = 0 \/ i \in 1 .. n
        OBVIOUS
      <4> QED BY <2>12, <2>13, <4>1 DEF Upto
    <3> QED BY <2>6, <3>1
  <2>15. Marks(seqs, f[n], pos)
    BY <2>12, <2>13, <2>14 DEF Marks, Upto
  <2> QED BY <2>4, <2>13, <2>15
<1> QED BY <1>1, <1>2

(* Where all items have one length.                                        *)
LEMMA FlattenEqual ==
  ASSUME NEW S, NEW seqs \in Seq(Seq(S)), NEW d \in Nat,
         \A i \in 1 .. Len(seqs) : Len(seqs[i]) = d
  PROVE  /\ FlattenSeq(seqs) \in Seq(S) /\ Len(FlattenSeq(seqs)) = d * Len(seqs)
         /\ \A i \in 1 .. Len(seqs), k \in 1 .. d : FlattenSeq(seqs)[d * (i - 1) + k] = seqs[i][k]
<1> DEFINE n == Len(seqs)
<1>1. PICK pos : Marks(seqs, FlattenSeq(seqs), pos)
  BY Flatten
<1>2. n \in Nat /\ FlattenSeq(seqs) \in Seq(S)
  BY LenProperties, Flatten
<1> DEFINE T == {i \in Nat : i <= n => pos[i] = d * i}
<1>3. 0 \in T
  BY <1>1 DEF Marks
<1>4. ASSUME NEW i \in Nat, i \in T PROVE i + 1 \in T
  <2> SUFFICES ASSUME i + 1 <= n PROVE pos[i + 1] = d * (i + 1)
    OBVIOUS
  <2>1. pos[i] = d * i
    BY <1>2, <1>4
  <2>2. i + 1 \in 1 .. n /\ (i + 1) - 1 = i
    BY <1>2
  <2>3. pos[i + 1] = pos[i] + d
    BY <1>1, <2>2 DEF Marks
  <2>4. d * i + d = d * (i + 1)
    OBVIOUS
  <2> QED BY <2>1, <2>3, <2>4
<1> HIDE DEF T
<1>5. Nat \subseteq T
  BY <1>3, <1>4, Induction
<1>6. \A i \in 0 .. n : pos[i] = d * i
  BY <1>2, <1>5 DEF T
<1>7. Len(FlattenSeq(seqs)) = d * n
  BY <1>1, <1>2, <1>6 DEF Marks
<1>8. \A i \in 1 .. n, k \in 1 .. d : FlattenSeq(seqs)[d * (i - 1) + k] = seqs[i][k]
  <2> SUFFICES ASSUME NEW i \in 1 .. n, NEW k \in 1 .. d
               PROVE  FlattenSeq(seqs)[d * (i - 1) + k] = seqs[i][k]
    OBVIOUS
  <2>1. i - 1 \in 0 .. n
    BY <1>2
  <2> QED BY <1>1, <1>6, <2>1 DEF Marks
<1> QED BY <1>2, <1>7, <1>8

-----------------------------------------------------------------------------
(* The bytes of a job.                                                     *)
LEMMA Pair ==
  ASSUME NEW S, NEW a \in S, NEW b \in S
  PROVE  <<a, b>> \in Seq(S) /\ Len(<<a, b>>) = 2 /\ <<a, b>>[1] = a /\ <<a, b>>[2] = b
OBVIOUS

LEMMA Triple ==
  ASSUME NEW S, NEW a \in S, NEW b \in S, NEW c \in S
  PROVE  /\ Append(<<a, b>>, c) \in Seq(S) /\ Len(Append(<<a, b>>, c)) = 3
         /\ Append(<<a, b>>, c)[1] = a /\ Append(<<a, b>>, c)[2] = b /\ Append(<<a, b>>, c)[3] = c
<1>1. <<a, b>> \in Seq(S) /\ Len(<<a, b>>) = 2
  OBVIOUS
<1> QED BY <1>1

LEMMA TwoBytes ==
  ASSUME NEW n \in Int
  PROVE  /\ Bytes16(n) \in Seq(Octet) /\ Len(Bytes16(n)) = 2
         /\ Bytes16(n)[1] = Lo(n) /\ Bytes16(n)[2] = Hi(n)
BY Word16, Pair DEF Bytes16

LEMMA ThreeBytes ==
  ASSUME NEW n \in Int
  PROVE  /\ Bytes24(n) \in Seq(Octet) /\ Len(Bytes24(n)) = 3
         /\ Bytes24(n)[1] = Lo(n) /\ Bytes24(n)[2] = Hi(n) /\ Bytes24(n)[3] = Third(n)
<1>1. Bytes24(n) = Append(<<Lo(n), Hi(n)>>, Third(n))
  BY SMT DEF Bytes24, Bytes16, Third
<1>2. Lo(n) \in Octet /\ Hi(n) \in Octet /\ Third(n) \in Octet
  BY Word16, ThirdByte
<1> QED BY <1>1, <1>2, Triple

LEMMA Words ==
  ASSUME NEW n \in Nat, NEW v, \A i \in 1 .. n : v[i] \in Int
  PROVE  LET bytes == FlattenSeq([i \in 1 .. n |-> Bytes16(v[i])]) IN
           /\ bytes \in Seq(Octet) /\ Len(bytes) = 2 * n
           /\ \A i \in 1 .. n : bytes[2 * (i - 1) + 1] = Lo(v[i]) /\ bytes[2 * (i - 1) + 2] = Hi(v[i])
<1> DEFINE seqs == [i \in 1 .. n |-> Bytes16(v[i])]
<1>1. \A i \in 1 .. n : /\ Bytes16(v[i]) \in Seq(Octet) /\ Len(Bytes16(v[i])) = 2
                        /\ Bytes16(v[i])[1] = Lo(v[i]) /\ Bytes16(v[i])[2] = Hi(v[i])
  BY TwoBytes
<1>2. seqs \in Seq(Seq(Octet)) /\ Len(seqs) = n
  BY <1>1
<1>3. \A i \in 1 .. n : seqs[i] = Bytes16(v[i])
  OBVIOUS
<1> HIDE DEF seqs
<1>4. PICK d \in Nat : d = 2
  OBVIOUS
<1>4a. \A i \in 1 .. Len(seqs) : Len(seqs[i]) = d
  BY <1>1, <1>2, <1>3, <1>4
<1>5. /\ FlattenSeq(seqs) \in Seq(Octet) /\ Len(FlattenSeq(seqs)) = d * Len(seqs)
      /\ \A i \in 1 .. Len(seqs), k \in 1 .. d : FlattenSeq(seqs)[d * (i - 1) + k] = seqs[i][k]
  BY <1>2, <1>4a, FlattenEqual
<1>6. \A i \in 1 .. n : seqs[i][1] = Lo(v[i]) /\ seqs[i][2] = Hi(v[i])
  BY <1>1, <1>3
<1>7. \A i \in 1 .. n : /\ FlattenSeq(seqs)[2 * (i - 1) + 1] = seqs[i][1]
                        /\ FlattenSeq(seqs)[2 * (i - 1) + 2] = seqs[i][2]
  <2> SUFFICES ASSUME NEW i \in 1 .. n
               PROVE  /\ FlattenSeq(seqs)[2 * (i - 1) + 1] = seqs[i][1]
                      /\ FlattenSeq(seqs)[2 * (i - 1) + 2] = seqs[i][2]
    OBVIOUS
  <2>1. i \in 1 .. Len(seqs) /\ 1 \in 1 .. d /\ 2 \in 1 .. d
    BY <1>2, <1>4
  <2>2. /\ FlattenSeq(seqs)[d * (i - 1) + 1] = seqs[i][1]
        /\ FlattenSeq(seqs)[d * (i - 1) + 2] = seqs[i][2]
    BY <1>5, <2>1, Zenon
  <2> QED BY <1>4, <2>2
<1> QED BY <1>2, <1>4, <1>5, <1>6, <1>7 DEF seqs

-----------------------------------------------------------------------------
(* All kinds of jobs: the job stays, and so do the bytes.                  *)
FromJob == job \in Jobs /\ input = Layout(job) \o job.behind

Shaped ==
  /\ FromJob
  /\ at \in Nat /\ limit \in Nat /\ reach \in Nat
  /\ end \in {"running", "true", "false", "assert", "overrun"}

LEMMA JobsWellFormed == \A j \in Jobs : WellFormed(j)
BY JobAssumption

(* What is told and what is behind it.                                     *)
LEMMA InputIs ==
  ASSUME NEW j, NEW bytes \in Seq(Octet), j.behind \in Seq(Octet), input = bytes \o j.behind
  PROVE  /\ input \in Seq(Octet) /\ Len(input) = Len(bytes) + Len(j.behind)
         /\ Len(bytes) \in Nat /\ Len(j.behind) \in Nat
         /\ \A i \in 1 .. Len(bytes) : input[i] = bytes[i]
         /\ \A i \in 1 .. Len(input) : input[i] \in Octet
<1>1. /\ input \in Seq(Octet) /\ Len(input) = Len(bytes) + Len(j.behind)
      /\ \A i \in 1 .. Len(bytes) : input[i] = bytes[i]
  BY Joined
<1>2. Len(bytes) \in Nat /\ Len(j.behind) \in Nat
  BY LenProperties
<1>3. \A i \in 1 .. Len(input) : input[i] \in Octet
  BY <1>1, ElementOfSeq
<1> QED BY <1>1, <1>2, <1>3

-----------------------------------------------------------------------------
(* Addresses                                                               *)
LEMMA HexCharacter ==
  ASSUME NEW c, IsHex(c)
  PROVE  /\ c \in Nat /\ c # Colon
         /\ HexValue(c) \in Nat /\ HexValue(c) < 16
         /\ HexDigit(HexValue(c)) = Lower(c)
BY DEF IsHex, HexValue, HexDigit, Lower, Colon

LEMMA TwoDigits ==
  ASSUME NEW h \in Nat, NEW l \in Nat, h < 16, l < 16
  PROVE  /\ 16 * h \in Octet /\ 16 * h + l \in Octet
         /\ (16 * h + l) \div 16 = h /\ (16 * h + l) % 16 = l
<1>1. 16 * h < 256 /\ 16 * h + l < 256
  OBVIOUS
<1>2. (16 * h + l) \div 16 = h /\ (16 * h + l) % 16 = l
  OBVIOUS
<1> QED BY <1>1, <1>2, Ranges

(* The first n characters of t are those of an address, and the bytes they *)
(* complete are in a.                                                      *)
ValidUpto(t, n) == \A i \in 1 .. n : IF i % 3 = 0 THEN t[i] = Colon ELSE IsHex(t[i])

ParsedUpto(t, n, a) ==
  /\ a \in Address
  /\ \A i \in 0 .. 5 : 3 * i + 2 <= n => a[6 - i] = 16 * HexValue(t[3 * i + 1]) + HexValue(t[3 * i + 2])

AddressInv ==
  LET t == job.text IN
    /\ at <= 18 /\ at <= Len(t) /\ limit = Len(t) + 1 /\ reach <= limit
    /\ ValidUpto(t, at)
    /\ nibble = IF at % 3 = 1 THEN 16 * HexValue(t[at]) ELSE 0
    /\ \E a : out = <<a>> /\ ParsedUpto(t, at, a)
    /\ end \in {"running", "true", "false"}
    /\ end = "true" => at = 17 /\ Len(t) = 17
    /\ end = "false" => ~IsAddress(t)

(* The text in memory: its characters and a zero.                          *)
LEMMA TextIs ==
  ASSUME FromJob, job.kind = "address"
  PROVE  /\ job.text \in Seq(Octet \ {0}) /\ Len(job.text) \in Nat
         /\ Layout(job) \in Seq(Octet) /\ Len(Layout(job)) = Len(job.text) + 1
         /\ \A i \in 1 .. Len(job.text) : input[i] = job.text[i] /\ job.text[i] \in Nat \ {0}
         /\ input[Len(job.text) + 1] = 0
         /\ \A i \in DOMAIN input : input[i] \in Octet
<1> DEFINE t == job.text
<1>1. job.behind \in Seq(Octet) /\ t \in Seq(Octet \ {0}) /\ input = Layout(job) \o job.behind
  BY JobsWellFormed DEF FromJob, WellFormed
<1>2. Layout(job) = Append(t, 0)
  BY DEF Layout
<1>3. t \in Seq(Octet) /\ 0 \in Octet /\ Len(t) \in Nat
  BY <1>1, Ranges, LenProperties
<1> HIDE DEF t
<1>4. /\ Append(t, 0) \in Seq(Octet) /\ Len(Append(t, 0)) = Len(t) + 1
      /\ \A i \in 1 .. Len(t) : Append(t, 0)[i] = t[i]
      /\ Append(t, 0)[Len(t) + 1] = 0
  BY <1>3
<1>5. /\ input \in Seq(Octet) /\ \A i \in 1 .. Len(input) : input[i] \in Octet
      /\ \A i \in 1 .. Len(Layout(job)) : input[i] = Layout(job)[i]
  BY <1>1, <1>2, <1>4, InputIs
<1>6. \A i \in 1 .. Len(t) : t[i] \in Nat \ {0}
  BY <1>1, <1>3, ElementOfSeq, Ranges
<1>7. \A i \in 1 .. Len(t) + 1 : i \in 1 .. Len(t) \/ i = Len(t) + 1
  BY <1>3
<1>8. \A i \in 1 .. Len(t) : i \in 1 .. Len(t) + 1
  BY <1>3
<1>9. Len(t) + 1 \in 1 .. Len(t) + 1
  BY <1>3
<1>10. DOMAIN input = 1 .. Len(input)
  BY <1>5, LenProperties
<1> QED BY <1>1, <1>2, <1>3, <1>4, <1>5, <1>6, <1>8, <1>9, <1>10 DEF t

(* A change of an element of the only item.                                *)
LEMMA OnlyItem ==
  ASSUME NEW a, NEW k, NEW v
  PROVE  [<<a>> EXCEPT ![1][k] = v] = <<[a EXCEPT ![k] = v]>>
<1>1. PICK b : b = [a EXCEPT ![k] = v]
  OBVIOUS
<1>2. <<a>>[1] = a
  OBVIOUS
<1>3. [<<a>> EXCEPT ![1][k] = v] = [<<a>> EXCEPT ![1] = b]
  BY <1>1, <1>2
<1>4. [<<a>> EXCEPT ![1] = b] = <<b>>
  OBVIOUS
<1> QED BY <1>1, <1>3, <1>4

LEMMA CharacterParsed ==
  ASSUME Shaped, job.kind = "address", AddressInv, ParseCharacter
  PROVE  Shaped' /\ AddressInv'
<1> DEFINE t == job.text
<1>1. /\ Len(t) \in Nat /\ at \in Nat /\ reach \in Nat /\ limit \in Nat
      /\ \A i \in 1 .. Len(t) : input[i] = t[i] /\ t[i] \in Nat \ {0}
      /\ input[Len(t) + 1] = 0
  BY TextIs DEF Shaped
<1> DEFINE c     == input[at + 1]
           valid == IF (at + 1) % 3 = 0 THEN c = Colon ELSE IsHex(c)
<1>2. at < 18 /\ c # 0 /\ reach' = IF reach < at + 1 THEN at + 1 ELSE reach
  BY <1>1 DEF ParseCharacter, EndOfText, Looks, Byte
<1>2a. ASSUME ~valid PROVE end' = "false" /\ at' = at /\ out' = out /\ nibble' = nibble
  BY <1>2a DEF ParseCharacter, Ends, Byte
<1>2b. ASSUME valid PROVE at' = at + 1 /\ end' = end
  BY <1>2b DEF ParseCharacter, Byte
<1>2c. ASSUME valid, (at + 1) % 3 = 0 PROVE nibble' = nibble /\ out' = out
  <2>1. (at + 1) % 3 # 1 /\ (at + 1) % 3 # 2
    BY <1>2c
  <2> QED BY <1>2c, <2>1, Zenon DEF ParseCharacter, Byte
<1>2d. ASSUME valid, (at + 1) % 3 = 1 PROVE nibble' = High(c) /\ out' = out
  <2>1. (at + 1) % 3 # 0 /\ (at + 1) % 3 # 2
    BY <1>2d
  <2> QED BY <1>2d, <2>1, Zenon DEF ParseCharacter, Byte
<1>2e. ASSUME valid, (at + 1) % 3 = 2 PROVE nibble' = 0 /\ out' = LastByteFirst
  <2>1. (at + 1) % 3 # 0 /\ (at + 1) % 3 # 1
    BY <1>2e
  <2> QED BY <1>2e, <2>1, Zenon DEF ParseCharacter, Byte
<1>2f. valid <=> IF (at + 1) % 3 = 0 THEN c = Colon ELSE IsHex(c)
  OBVIOUS
<1>2g. c = input[at + 1]
  OBVIOUS
<1> HIDE DEF valid, c
<1>3. UNCHANGED <<job, input, limit>> /\ end = "running"
  BY DEF ParseCharacter, Does
<1>4. at < Len(t) /\ t[at + 1] = c /\ at + 1 \in 1 .. Len(t)
  <2>1. at <= Len(t)
    BY DEF AddressInv
  <2>2. at # Len(t)
    BY <1>1, <1>2, <1>2g
  <2>3. at + 1 \in 1 .. Len(t)
    BY <1>1, <2>1, <2>2
  <2> QED BY <1>1, <1>2g, <2>1, <2>2, <2>3
<1>5. reach' \in Nat /\ reach' <= Len(t) + 1
  BY <1>1, <1>2, <1>4 DEF AddressInv
<1>6. CASE ~valid
  <2>1. ~IsAddress(t)
    <3>1. CASE at = 17
      BY <1>1, <1>4, <3>1 DEF IsAddress
    <3>2. CASE at # 17
      <4>1. at + 1 \in 1 .. 17
        BY <1>1, <1>2, <3>2
      <4> QED BY <1>2f, <1>4, <1>6, <4>1 DEF IsAddress
    <3> QED BY <3>1, <3>2
  <2>2. Shaped'
    BY <1>2a, <1>3, <1>5, <1>6 DEF Shaped, FromJob
  <2>3. AddressInv'
    BY <1>2a, <1>3, <1>5, <1>6, <2>1 DEF AddressInv
  <2> QED BY <2>2, <2>3
<1>7. CASE valid
  <2>1. ValidUpto(t, at + 1)
    <3>1. ValidUpto(t, at)
      BY DEF AddressInv
    <3>2. \A i \in 1 .. at + 1 : i \in 1 .. at \/ i = at + 1
      BY <1>1
    <3> QED BY <1>2f, <1>4, <1>7, <3>1, <3>2 DEF ValidUpto
  <2>2. (at + 1) % 3 # 0 => IsHex(c)
    BY <1>2f, <1>7
  <2>3. PICK a : out = <<a>> /\ ParsedUpto(t, at, a)
    BY DEF AddressInv
  <2>4. nibble' = IF (at + 1) % 3 = 1 THEN 16 * HexValue(t[at + 1]) ELSE 0
    <3>1. CASE (at + 1) % 3 = 0
      <4>1. at % 3 # 1
        BY <1>1, <3>1
      <4> QED BY <1>2c, <1>7, <3>1, <4>1 DEF AddressInv
    <3>2. CASE (at + 1) % 3 = 1
      BY <1>2d, <1>4, <1>7, <3>2 DEF High
    <3>3. CASE (at + 1) % 3 = 2
      BY <1>2e, <1>7, <3>3
    <3> QED BY <1>1, <3>1, <3>2, <3>3
  <2>5. \E b : out' = <<b>> /\ ParsedUpto(t, at + 1, b)
    <3>1. CASE (at + 1) % 3 # 2
      <4>1. out' = out
        BY <1>1, <1>2c, <1>2d, <1>7, <3>1
      <4>2. \A i \in 0 .. 5 : 3 * i + 2 <= at + 1 => 3 * i + 2 <= at
        BY <1>1, <3>1
      <4>3. ParsedUpto(t, at + 1, a)
        BY <2>3, <4>2 DEF ParsedUpto
      <4> QED BY <2>3, <4>1, <4>3
    <3>2. CASE (at + 1) % 3 = 2
      <4>1. PICK q \in 0 .. 5 : at = 3 * q + 1
        <5>1. at \div 3 \in 0 .. 5 /\ at = 3 * (at \div 3) + 1
          BY <1>1, <1>2, <3>2
        <5> QED BY <5>1
      <4>2. at \div 3 = q /\ at % 3 = 1
        BY <4>1
      <4>3. PICK h \in Nat, l \in Nat : h = HexValue(t[at]) /\ l = HexValue(c) /\ h < 16 /\ l < 16
        <5>1. IsHex(c)
          BY <2>2, <3>2
        <5>2. at \in 1 .. at
          BY <4>1
        <5>3. IsHex(t[at])
          BY <4>2, <5>2 DEF AddressInv, ValidUpto
        <5> QED BY <5>1, <5>3, HexCharacter
      <4>4. nibble = 16 * h
        BY <4>2, <4>3 DEF AddressInv
      <4> DEFINE b == [a EXCEPT ![6 - q] = 16 * h + l]
      <4>5. out' = <<b>>
        <5>1. out' = [out EXCEPT ![1][6 - q] = 16 * h + l]
          <6>1. out' = LastByteFirst /\ Byte(at) = c
            BY <1>2e, <1>2g, <1>7, <3>2 DEF Byte
          <6> QED BY <4>2, <4>3, <4>4, <6>1 DEF LastByteFirst
        <5>2. [<<a>> EXCEPT ![1][6 - q] = 16 * h + l] = <<b>>
          <6> DEFINE k == 6 - q  v == 16 * h + l
          <6> HIDE DEF k, v
          <6>1. [<<a>> EXCEPT ![1][k] = v] = <<[a EXCEPT ![k] = v]>>
            BY OnlyItem
          <6> QED BY <6>1 DEF k, v
        <5> QED BY <2>3, <5>1, <5>2
      <4>6. 6 - q \in 1 .. 6 /\ a \in Address /\ 16 * h + l \in Octet
        <5>1. 6 - q \in 1 .. 6
          OBVIOUS
        <5>2. 16 * h + l \in Octet
          BY <4>3, TwoDigits
        <5> QED BY <2>3, <5>1, <5>2 DEF ParsedUpto
      <4>7. b \in Address
        BY <4>6 DEF Address
      <4>8. ASSUME NEW i \in 0 .. 5, 3 * i + 2 <= at + 1
            PROVE  b[6 - i] = 16 * HexValue(t[3 * i + 1]) + HexValue(t[3 * i + 2])
        <5>1. CASE i = q
          <6>1. 3 * i + 1 = at /\ 3 * i + 2 = at + 1
            BY <4>1, <5>1
          <6>2. b[6 - i] = 16 * h + l
            BY <4>6, <5>1 DEF Address
          <6> QED BY <1>4, <4>3, <6>1, <6>2
        <5>2. CASE i # q
          <6>1. 3 * i + 2 <= at
            BY <4>1, <4>8, <5>2
          <6>2. 6 - i \in 1 .. 6 /\ 6 - i # 6 - q
            BY <5>2
          <6>3. b[6 - i] = a[6 - i]
            BY <4>6, <6>2 DEF Address
          <6> QED BY <2>3, <6>1, <6>3 DEF ParsedUpto
        <5> QED BY <5>1, <5>2
      <4> QED BY <4>5, <4>7, <4>8 DEF ParsedUpto
    <3> QED BY <3>1, <3>2
  <2>6. Shaped'
    BY <1>1, <1>2b, <1>3, <1>5, <1>7 DEF Shaped, FromJob
  <2>7. at' = at + 1 /\ at + 1 <= 18 /\ at + 1 <= Len(t)
    BY <1>1, <1>2, <1>2b, <1>4, <1>7
  <2>8. AddressInv'
    BY <1>2b, <1>3, <1>5, <1>7, <2>1, <2>4, <2>5, <2>7 DEF AddressInv
  <2> QED BY <2>6, <2>8
<1> QED BY <1>6, <1>7

LEMMA TextEnded ==
  ASSUME Shaped, job.kind = "address", AddressInv, ParseEnds
  PROVE  Shaped' /\ AddressInv'
<1> DEFINE t == job.text
<1>1. /\ Len(t) \in Nat /\ at \in Nat /\ reach \in Nat /\ limit \in Nat
      /\ \A i \in 1 .. Len(t) : input[i] = t[i] /\ t[i] \in Nat \ {0}
      /\ at <= Len(t) /\ at <= 18 /\ limit = Len(t) + 1 /\ reach <= limit
  BY TextIs DEF Shaped, AddressInv
<1>2. /\ at >= 18 \/ input[at + 1] = 0
      /\ reach' = IF at < 18 THEN IF reach < at + 1 THEN at + 1 ELSE reach ELSE reach
      /\ end' = IF at = 17 THEN "true" ELSE "false"
      /\ at' = at /\ out' = out /\ nibble' = nibble
      /\ UNCHANGED <<job, input, limit>>
  BY <1>1 DEF ParseEnds, EndOfText, Byte, Looks, Ends
<1>3. reach' \in Nat /\ reach' <= Len(t) + 1
  BY <1>1, <1>2
<1>4. at < 18 => at = Len(t)
  <2> SUFFICES ASSUME at < Len(t), at < 18 PROVE FALSE
    BY <1>1
  <2>1. at + 1 \in 1 .. Len(t)
    BY <1>1
  <2> QED BY <1>1, <1>2, <2>1
<1>5. at # 17 => ~IsAddress(t)
  <2>1. at # 17 => Len(t) # 17
    <3>1. \A n, m \in Nat : m <= n /\ m <= 18 /\ (m < 18 => m = n) /\ m # 17 => n # 17
      OBVIOUS
    <3> QED BY <1>1, <1>4, <3>1
  <2> QED BY <2>1 DEF IsAddress
<1>6. Shaped'
  BY <1>1, <1>2, <1>3 DEF Shaped, FromJob
<1>7. AddressInv'
  <2>1. /\ at <= 18 /\ at <= Len(t) /\ limit = Len(t) + 1 /\ reach' <= limit
        /\ end' \in {"running", "true", "false"}
        /\ end' = "true" => at = 17 /\ Len(t) = 17
        /\ end' = "false" => ~IsAddress(t)
    <3>1. (at < 18 /\ at = Len(t)) \/ at >= 18
      BY <1>1, <1>4
    <3>2. at = 17 => Len(t) = 17
      BY <3>1
    <3> QED BY <1>1, <1>2, <1>3, <1>5, <3>2
  <2>2. /\ ValidUpto(t, at)
        /\ nibble = IF at % 3 = 1 THEN 16 * HexValue(t[at]) ELSE 0
        /\ \E a : out = <<a>> /\ ParsedUpto(t, at, a)
    BY DEF AddressInv
  <2> QED BY <1>2, <2>1, <2>2 DEF AddressInv
<1> QED BY <1>6, <1>7

(* What has been parsed prints as it was, in lower case.                   *)
LEMMA PrintsAsParsed ==
  ASSUME NEW t, NEW a, Len(t) = 17, ValidUpto(t, 17), ParsedUpto(t, 17, a)
  PROVE  IsAddress(t) /\ PrintAddress(a) = [i \in 1 .. 17 |-> Lower(t[i])]
<1>1. IsAddress(t)
  BY DEF IsAddress, ValidUpto
<1>2. ASSUME NEW i \in 1 .. 17 PROVE PrintAddress(a)[i] = Lower(t[i])
  <2>1. PICK q \in 0 .. 5 : q = (i - 1) \div 3 /\ (i = 3 * q + 1 \/ i = 3 * q + 2 \/ i = 3 * q + 3)
    <3>1. (i - 1) \div 3 \in 0 .. 5
      OBVIOUS
    <3> QED BY <3>1
  <2>2. CASE i = 3 * q + 3
    <3>1. i % 3 = 0 /\ i % 3 # 1 /\ i % 3 # 2
      BY <2>2
    <3>2. t[i] = Colon
      BY <3>1 DEF ValidUpto
    <3>3. PrintAddress(a)[i] = Colon
      BY <3>1 DEF PrintAddress
    <3> QED BY <3>2, <3>3 DEF Lower, Colon
  <2>3. CASE i # 3 * q + 3
    <3>1. 3 * q + 1 \in 1 .. 17 /\ 3 * q + 2 \in 1 .. 17 /\ 3 * q + 2 <= 17
      BY <2>1, <2>3
    <3>2. (3 * q + 1) % 3 = 1 /\ (3 * q + 2) % 3 = 2
      OBVIOUS
    <3>3. IsHex(t[3 * q + 1]) /\ IsHex(t[3 * q + 2])
      BY <3>1, <3>2 DEF ValidUpto
    <3>4. PICK h \in Nat, l \in Nat :
            /\ h = HexValue(t[3 * q + 1]) /\ l = HexValue(t[3 * q + 2]) /\ h < 16 /\ l < 16
            /\ HexDigit(h) = Lower(t[3 * q + 1]) /\ HexDigit(l) = Lower(t[3 * q + 2])
      BY <3>3, HexCharacter
    <3>5. a[6 - q] = 16 * h + l
      BY <3>1, <3>4 DEF ParsedUpto
    <3>6. a[6 - q] \div 16 = h /\ a[6 - q] % 16 = l
      BY <3>4, <3>5, TwoDigits
    <3>7. CASE i = 3 * q + 1
      <4>1. i % 3 = 1 /\ i % 3 # 0 /\ i % 3 # 2
        BY <3>7
      <4>2. PrintAddress(a)[i] = HexDigit(a[6 - q] \div 16)
        BY <2>1, <4>1 DEF PrintAddress
      <4> QED BY <3>4, <3>6, <3>7, <4>2
    <3>8. CASE i = 3 * q + 2
      <4>1. i % 3 = 2 /\ i % 3 # 0 /\ i % 3 # 1
        BY <3>8
      <4>2. PrintAddress(a)[i] = HexDigit(a[6 - q] % 16)
        BY <2>1, <4>1 DEF PrintAddress
      <4> QED BY <3>4, <3>6, <3>8, <4>2
    <3> QED BY <2>1, <2>3, <3>7, <3>8
  <2> QED BY <2>2, <2>3
<1>3. PrintAddress(a) = [i \in 1 .. 17 |-> PrintAddress(a)[i]]
  BY DEF PrintAddress
<1> QED BY <1>1, <1>2, <1>3

-----------------------------------------------------------------------------
(* Sensor values                                                           *)

(* The first bytes of a value, and what the buffer held behind them.       *)
LEMMA ValueIs ==
  ASSUME FromJob, NEW n \in Nat, NEW m \in 0 .. n, NEW bytes \in Seq(Octet), Len(bytes) = n,
         Layout(job) = SubSeq(bytes, 1, n - m), Len(job.behind) >= m
  PROVE  /\ Layout(job) \in Seq(Octet) /\ Len(Layout(job)) = n - m
         /\ Len(input) \in Nat /\ n <= Len(input) /\ DOMAIN input = 1 .. Len(input)
         /\ \A i \in 1 .. Len(input) : input[i] \in Octet
         /\ m = 0 => \A i \in 1 .. n : input[i] = bytes[i]
<1>1. job.behind \in Seq(Octet) /\ input = Layout(job) \o job.behind
  BY JobsWellFormed DEF FromJob, WellFormed
<1>2. /\ SubSeq(bytes, 1, n - m) \in Seq(Octet) /\ Len(SubSeq(bytes, 1, n - m)) = n - m
      /\ \A i \in 1 .. n - m : SubSeq(bytes, 1, n - m)[i] = bytes[i]
  OBVIOUS
<1>3. /\ input \in Seq(Octet) /\ Len(input) = Len(Layout(job)) + Len(job.behind)
      /\ Len(job.behind) \in Nat
      /\ \A i \in 1 .. Len(Layout(job)) : input[i] = Layout(job)[i]
      /\ \A i \in 1 .. Len(input) : input[i] \in Octet
  BY <1>1, <1>2, InputIs
<1>4. PICK w \in Nat : w = Len(job.behind) /\ Len(input) = (n - m) + w
  BY <1>2, <1>3
<1>5. Len(input) \in Nat /\ n <= Len(input)
  <2>1. m <= w
    BY <1>4
  <2>2. (n - m) + w \in Nat /\ n <= (n - m) + w
    BY <2>1
  <2> QED BY <1>4, <2>2
<1>6. DOMAIN input = 1 .. Len(input)
  BY <1>3, LenProperties
<1>7. m = 0 => \A i \in 1 .. n : input[i] = bytes[i]
  <2> SUFFICES ASSUME m = 0, NEW i \in 1 .. n PROVE input[i] = bytes[i]
    OBVIOUS
  <2>1. n - m = n /\ i \in 1 .. n - m
    OBVIOUS
  <2> QED BY <1>2, <1>3, <2>1
<1> QED BY <1>2, <1>3, <1>5, <1>6, <1>7

SensorInv(n, told) ==
  /\ limit = Len(Layout(job)) /\ nibble = 0
  /\ \/ end = "running" /\ out = <<>> /\ reach = 0
     \/ end = "true" /\ out = <<told>> /\ reach = n

BarometerTold == <<Value24(0), Value24(3)>>
ImuTold       == [i \in 1 .. 9 |-> Signed(Value16(2 * (i - 1)), 65536)]

LEMMA BarometerIs ==
  ASSUME FromJob, job.kind = "barometer"
  PROVE  /\ job.missing \in 0 .. 6
         /\ Layout(job) \in Seq(Octet) /\ Len(Layout(job)) = 6 - job.missing
         /\ \A i \in DOMAIN input : input[i] \in Octet
         /\ BarometerTold \in Seq(Int)
         /\ job.missing = 0 => BarometerTold = <<job.values[1] % 16777216, job.values[2]>>
<1>1. /\ job.missing \in 0 .. 6 /\ Len(job.behind) >= job.missing
      /\ job.values \in Int \X Unsigned(16777216)
  BY JobsWellFormed DEF FromJob, WellFormed
<1>2. PICK v1 \in Int, v2 \in Nat : /\ v1 = job.values[1] /\ v2 = job.values[2] /\ v2 \in Int
                                    /\ v2 % 16777216 = v2
  <2>1. job.values[1] \in Int /\ job.values[2] \in Unsigned(16777216)
    BY <1>1
  <2> QED BY <2>1, Ranges, SMT
<1> DEFINE bytes == BarometerBytes(job)
<1>3. /\ bytes \in Seq(Octet) /\ Len(bytes) = 6
      /\ bytes[1] = Lo(v1) /\ bytes[2] = Hi(v1) /\ bytes[3] = Third(v1)
      /\ bytes[4] = Lo(v2) /\ bytes[5] = Hi(v2) /\ bytes[6] = Third(v2)
  <2>1. bytes = Bytes24(v1) \o Bytes24(v2)
    BY <1>2 DEF BarometerBytes
  <2> DEFINE a == Bytes24(v1)  b == Bytes24(v2)
  <2>2. /\ a \in Seq(Octet) /\ Len(a) = 3 /\ a[1] = Lo(v1) /\ a[2] = Hi(v1) /\ a[3] = Third(v1)
        /\ b \in Seq(Octet) /\ Len(b) = 3 /\ b[1] = Lo(v2) /\ b[2] = Hi(v2) /\ b[3] = Third(v2)
    BY <1>2, ThreeBytes
  <2>3. a \in Seq(Octet) /\ b \in Seq(Octet) /\ bytes = a \o b
    BY <2>1, <2>2
  <2> HIDE DEF a, b, bytes
  <2>4. /\ bytes \in Seq(Octet) /\ Len(bytes) = Len(a) + Len(b)
        /\ \A i \in 1 .. Len(a) : bytes[i] = a[i]
        /\ \A i \in 1 .. Len(b) : bytes[Len(a) + i] = b[i]
    BY <2>3, Joined
  <2> QED BY <2>2, <2>4
<1>4. Layout(job) = SubSeq(bytes, 1, 6 - job.missing)
  BY DEF Layout
<1> HIDE DEF bytes
<1>5. /\ Layout(job) \in Seq(Octet) /\ Len(Layout(job)) = 6 - job.missing
      /\ Len(input) \in Nat /\ 6 <= Len(input) /\ DOMAIN input = 1 .. Len(input)
      /\ \A i \in 1 .. Len(input) : input[i] \in Octet
      /\ job.missing = 0 => \A i \in 1 .. 6 : input[i] = bytes[i]
  <2>1. PICK n \in Nat : n = 6
    OBVIOUS
  <2>2. PICK m \in 0 .. n : m = job.missing
    BY <1>1, <2>1
  <2>3. Len(bytes) = n /\ Layout(job) = SubSeq(bytes, 1, n - m) /\ Len(job.behind) >= m
    BY <1>1, <1>3, <1>4, <2>1, <2>2
  <2>4. /\ Layout(job) \in Seq(Octet) /\ Len(Layout(job)) = n - m
        /\ Len(input) \in Nat /\ n <= Len(input) /\ DOMAIN input = 1 .. Len(input)
        /\ \A i \in 1 .. Len(input) : input[i] \in Octet
        /\ m = 0 => \A i \in 1 .. n : input[i] = bytes[i]
    BY <1>3, <2>3, ValueIs
  <2> QED BY <2>1, <2>2, <2>4
<1>6. BarometerTold = <<input[1] + 256 * input[2] + 65536 * input[3],
                        input[4] + 256 * input[5] + 65536 * input[6]>>
  BY SMT DEF BarometerTold, Value24, Value16, Byte
<1>7. /\ input[1] \in Int /\ input[2] \in Int /\ input[3] \in Int
      /\ input[4] \in Int /\ input[5] \in Int /\ input[6] \in Int
  BY <1>5, Ranges, SMT
<1>8. BarometerTold \in Seq(Int)
  BY <1>6, <1>7, SMT
<1>9. ASSUME job.missing = 0 PROVE BarometerTold = <<job.values[1] % 16777216, job.values[2]>>
  <2>1. /\ input[1] = Lo(v1) /\ input[2] = Hi(v1) /\ input[3] = Third(v1)
        /\ input[4] = Lo(v2) /\ input[5] = Hi(v2) /\ input[6] = Third(v2)
    BY <1>3, <1>5, <1>9
  <2>2. /\ Lo(v1) + 256 * Hi(v1) + 65536 * Third(v1) = v1 % 16777216
        /\ Lo(v2) + 256 * Hi(v2) + 65536 * Third(v2) = v2 % 16777216
    BY <1>2, Word24, SMT
  <2> QED BY <1>2, <1>6, <2>1, <2>2, SMT
<1> QED BY <1>1, <1>5, <1>8, <1>9

LEMMA ImuIs ==
  ASSUME FromJob, job.kind = "imu"
  PROVE  /\ job.missing \in 0 .. 18
         /\ Layout(job) \in Seq(Octet) /\ Len(Layout(job)) = 18 - job.missing
         /\ \A i \in DOMAIN input : input[i] \in Octet
         /\ ImuTold \in Seq(Int)
         /\ job.missing = 0 => ImuTold = job.values
<1>1. /\ job.missing \in 0 .. 18 /\ Len(job.behind) >= job.missing
      /\ job.values \in [1 .. 9 -> TwosComplement(65536)]
  <2>1. WellFormed(job)
    BY JobsWellFormed DEF FromJob
  <2> QED BY <2>1, SMT DEF WellFormed
<1>2. PICK v : v = job.values
  OBVIOUS
<1>3. /\ v \in [1 .. 9 -> TwosComplement(65536)] /\ DOMAIN v = 1 .. 9
      /\ \A i \in 1 .. 9 : v[i] \in Int /\ v[i] \in TwosComplement(65536)
  <2>1. v \in [1 .. 9 -> TwosComplement(65536)] /\ DOMAIN v = 1 .. 9
    BY <1>1, <1>2
  <2>2. \A i \in 1 .. 9 : v[i] \in TwosComplement(65536)
    BY <2>1
  <2> QED BY <2>1, <2>2, Ranges
<1>4. PICK n \in Nat : n = 9
  OBVIOUS
<1> DEFINE bytes == ImuBytes(job)
<1>5. bytes = FlattenSeq([i \in 1 .. n |-> Bytes16(v[i])])
  BY <1>2, <1>4 DEF ImuBytes
<1>6. \A i \in 1 .. n : v[i] \in Int
  BY <1>3, <1>4
<1>7. Layout(job) = SubSeq(bytes, 1, 18 - job.missing)
  BY DEF Layout
<1> HIDE DEF bytes
<1>8. /\ bytes \in Seq(Octet) /\ Len(bytes) = 2 * n
      /\ \A i \in 1 .. n : bytes[2 * (i - 1) + 1] = Lo(v[i]) /\ bytes[2 * (i - 1) + 2] = Hi(v[i])
  BY <1>5, <1>6, Words
<1>9. /\ Layout(job) \in Seq(Octet) /\ Len(Layout(job)) = 18 - job.missing
      /\ Len(input) \in Nat /\ 18 <= Len(input) /\ DOMAIN input = 1 .. Len(input)
      /\ \A i \in 1 .. Len(input) : input[i] \in Octet
      /\ job.missing = 0 => \A i \in 1 .. 18 : input[i] = bytes[i]
  <2>1. PICK c \in Nat : c = 18
    OBVIOUS
  <2>2. PICK m \in 0 .. c : m = job.missing
    BY <1>1, <2>1
  <2>3. /\ bytes \in Seq(Octet) /\ Len(bytes) = c
        /\ Layout(job) = SubSeq(bytes, 1, c - m) /\ Len(job.behind) >= m
    BY <1>1, <1>4, <1>7, <1>8, <2>1, <2>2
  <2>4. /\ Layout(job) \in Seq(Octet) /\ Len(Layout(job)) = c - m
        /\ Len(input) \in Nat /\ c <= Len(input) /\ DOMAIN input = 1 .. Len(input)
        /\ \A i \in 1 .. Len(input) : input[i] \in Octet
        /\ m = 0 => \A i \in 1 .. c : input[i] = bytes[i]
    BY <2>3, ValueIs
  <2> QED BY <2>1, <2>2, <2>4
<1>10. \A i \in 1 .. n : /\ Value16(2 * (i - 1)) = input[2 * (i - 1) + 1] + 256 * input[2 * (i - 1) + 2]
                         /\ 2 * (i - 1) + 1 \in 1 .. 18 /\ 2 * (i - 1) + 2 \in 1 .. 18
  <2> SUFFICES ASSUME NEW i \in 1 .. n
               PROVE  /\ Value16(2 * (i - 1)) = input[2 * (i - 1) + 1] + 256 * input[2 * (i - 1) + 2]
                      /\ 2 * (i - 1) + 1 \in 1 .. 18 /\ 2 * (i - 1) + 2 \in 1 .. 18
    OBVIOUS
  <2>1. 2 * (i - 1) + 1 \in 1 .. 18 /\ 2 * (i - 1) + 2 \in 1 .. 18
    BY <1>4
  <2>2. (2 * (i - 1) + 1) + 1 = 2 * (i - 1) + 2
    BY <1>4
  <2> QED BY <2>1, <2>2 DEF Value16, Byte
<1>11. ASSUME NEW i \in 1 .. n PROVE Value16(2 * (i - 1)) \in Int
  <2>1. PICK a, b : a = 2 * (i - 1) + 1 /\ b = 2 * (i - 1) + 2 /\ a \in 1 .. 18 /\ b \in 1 .. 18
    BY <1>10
  <2>2. a \in 1 .. Len(input) /\ b \in 1 .. Len(input)
    BY <1>9, <2>1
  <2>3. input[a] \in Int /\ input[b] \in Int
    BY <1>9, <2>2, Ranges
  <2>4. \A x, y \in Int : x + 256 * y \in Int
    OBVIOUS
  <2>5. Value16(2 * (i - 1)) = input[a] + 256 * input[b]
    BY <1>10, <2>1
  <2> QED BY <2>3, <2>4, <2>5
<1>12. \A x \in Int : Signed(x, 65536) \in Int
  BY SMT DEF Signed
<1>13. ImuTold = [i \in 1 .. n |-> Signed(Value16(2 * (i - 1)), 65536)]
  BY <1>4, SMT DEF ImuTold
<1>14. ImuTold \in Seq(Int)
  <2>1. \A i \in 1 .. n : Signed(Value16(2 * (i - 1)), 65536) \in Int
    BY <1>11, <1>12
  <2> QED BY <1>13, <2>1
<1>15. ASSUME job.missing = 0 PROVE ImuTold = job.values
  <2>1. ASSUME NEW i \in 1 .. n PROVE Signed(Value16(2 * (i - 1)), 65536) = v[i]
    <3>1. Value16(2 * (i - 1)) = Lo(v[i]) + 256 * Hi(v[i])
      <4>1. PICK a, b : a = 2 * (i - 1) + 1 /\ b = 2 * (i - 1) + 2 /\ a \in 1 .. 18 /\ b \in 1 .. 18
        BY <1>10
      <4>2. input[a] = bytes[a] /\ input[b] = bytes[b]
        BY <1>9, <1>15, <4>1
      <4>3. bytes[a] = Lo(v[i]) /\ bytes[b] = Hi(v[i])
        BY <1>8, <4>1
      <4> QED BY <1>10, <4>1, <4>2, <4>3
    <3>2. v[i] \in Int /\ v[i] \in TwosComplement(65536)
      BY <1>3, <1>4
    <3> QED BY <3>1, <3>2, Word16
  <2>2. DOMAIN v = 1 .. n
    BY <1>3, <1>4
  <2>3. v = [i \in 1 .. n |-> v[i]]
    BY <1>3, <1>4
  <2>4. ImuTold = [i \in 1 .. n |-> v[i]]
    BY <1>13, <2>1
  <2> QED BY <1>2, <2>3, <2>4
<1> QED BY <1>1, <1>9, <1>14, <1>15

LEMMA BarometerDecoded ==
  ASSUME Shaped, job.kind = "barometer", SensorInv(6, BarometerTold), Barometer
  PROVE  Shaped' /\ SensorInv(6, BarometerTold)'
<1>1. job.missing \in 0 .. 6 /\ Len(Layout(job)) = 6 - job.missing
  BY BarometerIs, SMT DEF Shaped
<1>2. Len(Layout(job)) <= 6
  BY <1>1
<1>3. end = "running" /\ reach = 0
  BY DEF Barometer, Does, SensorInv
<1>4. /\ reach' = 6 /\ out' = <<BarometerTold>> /\ end' = "true"
      /\ UNCHANGED <<at, job, input, limit, nibble>>
  BY <1>2, <1>3, SMT DEF Barometer, Decoded, Looks, BarometerTold
<1>5. Shaped'
  BY <1>4 DEF Shaped, FromJob
<1>6. BarometerTold' = BarometerTold
  BY <1>4, SMT DEF BarometerTold, Value24, Value16, Byte
<1> QED BY <1>4, <1>5, <1>6 DEF SensorInv

LEMMA ImuDecoded ==
  ASSUME Shaped, job.kind = "imu", SensorInv(18, ImuTold), Imu
  PROVE  Shaped' /\ SensorInv(18, ImuTold)'
<1>1. job.missing \in 0 .. 18 /\ Len(Layout(job)) = 18 - job.missing
  BY ImuIs, SMT DEF Shaped
<1>2. Len(Layout(job)) <= 18
  BY <1>1
<1>3. end = "running" /\ reach = 0
  BY DEF Imu, Does, SensorInv
<1>4. /\ reach' = 18 /\ out' = <<ImuTold>> /\ end' = "true"
      /\ UNCHANGED <<at, job, input, limit, nibble>>
  BY <1>2, <1>3, SMT DEF Imu, Decoded, Looks, ImuTold
<1>5. Shaped'
  BY <1>4 DEF Shaped, FromJob
<1>6. ImuTold' = ImuTold
  BY <1>4, SMT DEF ImuTold, Value16, Byte
<1> QED BY <1>4, <1>5, <1>6 DEF SensorInv

-----------------------------------------------------------------------------
(* A part of a sequence, and its two ends.                                 *)
LEMMA Slice ==
  ASSUME NEW S, NEW s \in Seq(S), NEW t \in Seq(S), NEW k \in Nat, NEW n \in Nat,
         Len(t) = n, k + n <= Len(s), \A i \in 1 .. n : s[k + i] = t[i]
  PROVE  SubSeq(s, k + 1, k + n) = t
<1>1. PICK l \in Nat, m \in Nat : l = k + 1 /\ m = k + n
  OBVIOUS
<1>2. PICK w \in Nat : w = Len(s)
  BY LenProperties
<1>3. \A i \in l .. m : s[i] \in S
  <2>1. \A i \in l .. m : i \in 1 .. w
    BY <1>1, <1>2
  <2> QED BY <1>2, <2>1, ElementOfSeq
<1>4. /\ SubSeq(s, l, m) \in Seq(S) /\ Len(SubSeq(s, l, m)) = IF l <= m THEN m - l + 1 ELSE 0
      /\ \A i \in 1 .. m - l + 1 : SubSeq(s, l, m)[i] = s[l + i - 1]
  BY <1>3, SubSeqProperties
<1>5. PICK u \in Seq(S) : u = SubSeq(s, l, m)
  BY <1>4
<1>6. Len(u) = n
  BY <1>1, <1>4, <1>5
<1>7. ASSUME NEW i \in 1 .. n PROVE u[i] = t[i]
  <2>1. i \in 1 .. m - l + 1 /\ l + i - 1 = k + i
    BY <1>1
  <2> QED BY <1>4, <1>5, <2>1
<1>8. Len(u) = Len(t) /\ \A i \in 1 .. Len(u) : u[i] = t[i]
  BY <1>6, <1>7
<1>9. u = t
  BY <1>8, SeqEqual
<1> QED BY <1>1, <1>5, <1>9

LEMMA Reversed ==
  ASSUME NEW S, NEW s \in Seq(S), NEW n \in Nat, n = Len(s)
  PROVE  /\ Reverse(s) \in Seq(S) /\ Len(Reverse(s)) = n
         /\ \A i \in 1 .. n : Reverse(s)[i] = s[n - i + 1]
<1>1. Reverse(s) = [i \in 1 .. n |-> s[n - i + 1]]
  BY DEF Reverse
<1>2. \A i \in 1 .. n : n - i + 1 \in 1 .. n
  OBVIOUS
<1>3. \A i \in 1 .. n : s[n - i + 1] \in S
  BY <1>2, ElementOfSeq
<1> QED BY <1>1, <1>3

LEMMA Suffix ==
  ASSUME NEW S, NEW s \in Seq(S), NEW t \in Seq(S), NEW k \in Nat, NEW n \in Nat,
         Len(t) = n, Len(s) = k + n, \A i \in 1 .. n : s[k + i] = t[i]
  PROVE  IsSuffix(t, s)
<1>1. PICK w \in Nat : w = k + n /\ w = Len(s)
  OBVIOUS
<1>2. /\ Reverse(t) \in Seq(S) /\ Len(Reverse(t)) = n
      /\ \A i \in 1 .. n : Reverse(t)[i] = t[n - i + 1]
  BY Reversed
<1>3. /\ Reverse(s) \in Seq(S) /\ Len(Reverse(s)) = w
      /\ \A i \in 1 .. w : Reverse(s)[i] = s[w - i + 1]
  BY <1>1, Reversed
<1>4. PICK r \in Seq(S), z \in Nat : r = Reverse(s) /\ z = 0
  BY <1>3
<1>5. PICK u \in Seq(S) : u = Reverse(t)
  BY <1>2
<1>6. ASSUME NEW i \in 1 .. n PROVE r[z + i] = u[i]
  <2>1. PICK j \in 1 .. n : j = n - i + 1 /\ w - i + 1 = k + j /\ i \in 1 .. w /\ z + i = i
    <3>1. n - i + 1 \in 1 .. n /\ w - i + 1 = k + (n - i + 1) /\ i \in 1 .. w /\ z + i = i
      BY <1>1, <1>4
    <3> QED BY <3>1
  <2> QED BY <1>2, <1>3, <1>4, <1>5, <2>1
<1>7. Len(u) = n /\ z + n <= Len(r) /\ n <= Len(r)
  BY <1>1, <1>2, <1>3, <1>4, <1>5
<1>8. SubSeq(r, z + 1, z + n) = u
  BY <1>6, <1>7, Slice
<1>9. PICK y \in Nat : y = 0
  OBVIOUS
<1>10. Len(u) = n /\ y + n <= Len(u) /\ \A i \in 1 .. n : u[y + i] = u[i]
  BY <1>7, <1>9
<1>11. SubSeq(u, y + 1, y + n) = u
  BY <1>10, Slice
<1>12. z + 1 = 1 /\ z + n = n /\ y + 1 = 1 /\ y + n = n
  BY <1>4, <1>9
<1>13. IsPrefix(u, r)
  BY <1>7, <1>8, <1>11, <1>12 DEF IsPrefix
<1> QED BY <1>4, <1>5, <1>13 DEF IsSuffix

LEMMA Prefix ==
  ASSUME NEW S, NEW s \in Seq(S), NEW t \in Seq(S), NEW n \in Nat,
         Len(t) = n, n <= Len(s), \A i \in 1 .. n : s[i] = t[i]
  PROVE  IsPrefix(t, s)
<1>1. PICK z \in Nat : z = 0 /\ z + n = n /\ z + 1 = 1 /\ \A i \in 1 .. n : z + i = i
  OBVIOUS
<1>2. z + n <= Len(s) /\ \A i \in 1 .. n : s[z + i] = t[i]
  BY <1>1
<1>3. SubSeq(s, z + 1, z + n) = t
  BY <1>2, Slice
<1>4. z + n <= Len(t) /\ \A i \in 1 .. n : t[z + i] = t[i]
  BY <1>1
<1>5. SubSeq(t, z + 1, z + n) = t
  BY <1>4, Slice
<1> QED BY <1>1, <1>3, <1>5 DEF IsPrefix

-----------------------------------------------------------------------------
(* Commands                                                                *)
OpenInv ==
  /\ limit = 0 /\ reach = 0 /\ nibble = 0 /\ end \in {"running", "true"}
  /\ IF end = "running" THEN out = <<>> ELSE \E junk \in {0, 4} : out = <<OpenPacket(junk)>>

(* A sequence between two others.                                          *)
LEMMA Around ==
  ASSUME NEW S, NEW head \in Seq(S), NEW middle \in Seq(S), NEW tail \in Seq(S)
  PROVE  /\ head \o middle \o tail \in Seq(S)
         /\ Len(head \o middle \o tail) = Len(head) + Len(middle) + Len(tail)
         /\ \A i \in 1 .. Len(head) : (head \o middle \o tail)[i] = head[i]
         /\ \A i \in 1 .. Len(middle) : (head \o middle \o tail)[Len(head) + i] = middle[i]
<1>1. /\ head \o middle \in Seq(S) /\ Len(head \o middle) = Len(head) + Len(middle)
      /\ \A i \in 1 .. Len(head) : (head \o middle)[i] = head[i]
      /\ \A i \in 1 .. Len(middle) : (head \o middle)[Len(head) + i] = middle[i]
  BY Joined
<1>2. PICK q \in Seq(S) : q = head \o middle
  BY <1>1
<1>3. /\ q \o tail \in Seq(S) /\ Len(q \o tail) = Len(q) + Len(tail)
      /\ \A i \in 1 .. Len(q) : (q \o tail)[i] = q[i]
  BY Joined
<1>4. PICK h \in Nat, m \in Nat : h = Len(head) /\ m = Len(middle) /\ Len(q) = h + m
  BY <1>1, <1>2, LenProperties
<1>5. \A i \in 1 .. h : i \in 1 .. h + m
  OBVIOUS
<1>6. \A i \in 1 .. m : h + i \in 1 .. h + m
  OBVIOUS
<1>7. \A i \in 1 .. h : (q \o tail)[i] = head[i]
  BY <1>1, <1>2, <1>3, <1>4, <1>5
<1>8. \A i \in 1 .. m : (q \o tail)[h + i] = middle[i]
  BY <1>1, <1>2, <1>3, <1>4, <1>6
<1> QED BY <1>2, <1>1, <1>3, <1>4, <1>7, <1>8

(* The address is among the parameters of a packet.                        *)
LEMMA InParameters ==
  ASSUME NEW S, NEW p \in Seq(S), NEW address \in Seq(S), Len(address) = 6,
         NEW i \in Nat, NEW n \in Nat, i + 6 <= n, 4 + n <= Len(p),
         \A k \in 1 .. 6 : p[4 + i + k] = address[k]
  PROVE  SubSeq(SubSeq(p, 5, 4 + n), i + 1, i + 6) = address
<1>1. PICK e \in Nat, d \in Nat, m \in Nat : e = 6 /\ d = 5 /\ m = 4 + n
  OBVIOUS
<1>2. PICK w \in Nat : w = Len(p)
  BY LenProperties
<1>3. \A k \in d .. m : p[k] \in S
  <2>1. \A k \in d .. m : k \in 1 .. w
    BY <1>1, <1>2
  <2> QED BY <1>2, <2>1, ElementOfSeq
<1>4. /\ SubSeq(p, d, m) \in Seq(S) /\ Len(SubSeq(p, d, m)) = IF d <= m THEN m - d + 1 ELSE 0
      /\ \A k \in 1 .. m - d + 1 : SubSeq(p, d, m)[k] = p[d + k - 1]
  BY <1>3, SubSeqProperties
<1>5. PICK s \in Seq(S) : s = SubSeq(p, d, m)
  BY <1>4
<1>6. Len(s) = n
  BY <1>1, <1>4, <1>5
<1>7. ASSUME NEW k \in 1 .. e PROVE s[i + k] = address[k]
  <2>1. i + k \in 1 .. m - d + 1 /\ d + (i + k) - 1 = 4 + i + k /\ k \in 1 .. 6
    BY <1>1
  <2> QED BY <1>4, <1>5, <2>1
<1>8. Len(address) = e /\ i + e <= Len(s)
  BY <1>1, <1>6
<1>9. SubSeq(s, i + 1, i + e) = address
  BY <1>7, <1>8, Slice
<1> QED BY <1>1, <1>5, <1>9

Packet(head, a, tail) == head \o a \o tail
Holds(p, i, n, a)     == SubSeq(SubSeq(p, 5, 4 + n), i + 1, i + 6) = a

LEMMA PacketIs ==
  ASSUME NEW S, NEW head \in Seq(S), NEW a \in Seq(S), NEW tail \in Seq(S),
         NEW h \in Nat, NEW m \in Nat, NEW z \in Nat, NEW w \in Nat
  PROVE  Len(head) = h /\ Len(a) = m /\ Len(tail) = z /\ w = h + m + z
         => /\ Packet(head, a, tail) \in Seq(S) /\ Len(Packet(head, a, tail)) = w
            /\ \A k \in 1 .. h : Packet(head, a, tail)[k] = head[k]
            /\ \A k \in 1 .. m : Packet(head, a, tail)[h + k] = a[k]
<1>1. /\ head \o a \o tail \in Seq(S)
      /\ Len(head \o a \o tail) = Len(head) + Len(a) + Len(tail)
      /\ \A i \in 1 .. Len(head) : (head \o a \o tail)[i] = head[i]
      /\ \A i \in 1 .. Len(a) : (head \o a \o tail)[Len(head) + i] = a[i]
  BY Around
<1>2. PICK p \in Seq(S) : p = Packet(head, a, tail) /\ p = head \o a \o tail
  BY <1>1 DEF Packet
<1> SUFFICES ASSUME Len(head) = h, Len(a) = m, Len(tail) = z, w = h + m + z
             PROVE  /\ p \in Seq(S) /\ Len(p) = w
                    /\ \A k \in 1 .. h : p[k] = head[k]
                    /\ \A k \in 1 .. m : p[h + k] = a[k]
  BY <1>2
<1>3. Len(p) = w
  BY <1>1, <1>2
<1>4. \A k \in 1 .. h : p[k] = head[k]
  BY <1>1, <1>2
<1>5. \A k \in 1 .. m : p[h + k] = a[k]
  BY <1>1, <1>2
<1> QED BY <1>2, <1>3, <1>4, <1>5

LEMMA AddressAt ==
  ASSUME NEW S, NEW head \in Seq(S), NEW a \in Seq(S), NEW tail \in Seq(S),
         NEW z \in Nat, NEW i \in Nat, NEW n \in Nat, NEW w \in Nat,
         Len(head) = 4 + i, Len(a) = 6, Len(tail) = z, i + 6 <= n, n <= i + 6 + z, w = 10 + i + z
  PROVE  /\ Packet(head, a, tail) \in Seq(S) /\ Len(Packet(head, a, tail)) = w
         /\ \A k \in 1 .. 4 : Packet(head, a, tail)[k] = head[k]
         /\ Holds(Packet(head, a, tail), i, n, a)
<1>1. PICK h \in Nat, m \in Nat : h = 4 + i /\ m = 6
  OBVIOUS
<1>2. Len(head) = h /\ Len(a) = m /\ Len(tail) = z /\ w = h + m + z
  BY <1>1
<1>3. /\ Packet(head, a, tail) \in Seq(S) /\ Len(Packet(head, a, tail)) = w
      /\ \A k \in 1 .. h : Packet(head, a, tail)[k] = head[k]
      /\ \A k \in 1 .. m : Packet(head, a, tail)[h + k] = a[k]
  BY <1>2, PacketIs
<1>4. PICK p \in Seq(S) : p = Packet(head, a, tail)
  BY <1>3
<1>5. Len(p) = w
  BY <1>3, <1>4
<1>6. ASSUME NEW k \in 1 .. 6 PROVE p[4 + i + k] = a[k]
  BY <1>1, <1>3, <1>4
<1>7. i + 6 <= n /\ 4 + n <= Len(p) /\ Len(a) = 6
  BY <1>5
<1>8. SubSeq(SubSeq(p, 5, 4 + n), i + 1, i + 6) = a
  BY <1>6, <1>7, InParameters
<1>9. \A k \in 1 .. 4 : p[k] = head[k]
  BY <1>1, <1>3, <1>4
<1> QED BY <1>3, <1>4, <1>8, <1>9 DEF Holds

LEMMA AddressIs ==
  ASSUME NEW a \in Address
  PROVE  a \in Seq(Int) /\ a \in Seq(Octet) /\ Len(a) = 6 /\ \A i \in 1 .. 6 : a[i] \in Octet
<1>1. \A i \in 1 .. 6 : a[i] \in Octet
  BY DEF Address
<1>2. \A i \in 1 .. 6 : a[i] \in Int
  BY <1>1, Ranges
<1>3. a = [i \in 1 .. 6 |-> a[i]]
  BY DEF Address
<1> QED BY <1>1, <1>2, <1>3

(* A connection command and the address in it.                             *)
LEMMA OpenPacketIs ==
  ASSUME NEW junk \in {0, 4}, job.vendor \in Vendors, job.address \in Address
  PROVE  LET p == OpenPacket(junk)  i == IF job.vendor = "TI" THEN 3 ELSE 5 IN
           /\ p \in Seq(Int)
           /\ Len(p) = 4 + p[4] + (IF job.vendor = "ST" THEN Unwritten ELSE 0)
           /\ SubSeq(SubSeq(p, 5, 4 + p[4]), i + 1, i + 6) = job.address
<1>1. PICK I : I = Int
  OBVIOUS
<1>2. PICK a \in Seq(I) : a = job.address /\ Len(a) = 6
  BY <1>1, AddressIs
<1>3. PICK p : p = OpenPacket(junk)
  OBVIOUS
<1>4. CASE job.vendor = "TI"
  <2>1. PICK head : head = <<1, 9, 254, 9, 0, 0, 0>>
    OBVIOUS
  <2>2. head \in Seq(I) /\ Len(head) = 7 /\ head[4] = 9
    BY <1>1, <2>1
  <2>3. PICK tail \in Seq(I) : tail = <<>> /\ Len(tail) = 0
    <3>1. <<>> \in Seq(I) /\ Len(<<>>) = 0
      OBVIOUS
    <3> QED BY <3>1
  <2>4. p = Packet(head, a, tail)
    <3>1. p = head \o a
      BY <1>2, <1>3, <1>4, <2>1 DEF OpenPacket
    <3>2. head \o a \in Seq(I)
      BY <1>2, <2>2, Joined
    <3>3. \A q \in Seq(I) : q = q \o <<>>
      BY ConcatSimplifications
    <3> QED BY <2>3, <3>1, <3>2, <3>3 DEF Packet
  <2>5. PICK z \in Nat, i \in Nat, n \in Nat, w \in Nat : z = 0 /\ i = 3 /\ n = 9 /\ w = 13
    OBVIOUS
  <2>6. /\ Len(head) = 4 + i /\ Len(a) = 6 /\ Len(tail) = z
        /\ i + 6 <= n /\ n <= i + 6 + z /\ w = 10 + i + z
        /\ head \in Seq(I) /\ a \in Seq(I) /\ tail \in Seq(I)
        /\ z \in Nat /\ i \in Nat /\ n \in Nat /\ w \in Nat
    BY <1>2, <2>2, <2>3, <2>5
  <2>7. /\ Packet(head, a, tail) \in Seq(I) /\ Len(Packet(head, a, tail)) = w
        /\ \A k \in 1 .. 4 : Packet(head, a, tail)[k] = head[k]
        /\ Holds(Packet(head, a, tail), i, n, a)
    BY <2>6, AddressAt
  <2>8. p \in Seq(I) /\ Len(p) = 13 /\ p[4] = 9
    BY <2>2, <2>4, <2>5, <2>7
  <2>9. SubSeq(SubSeq(p, 5, 4 + 9), 3 + 1, 3 + 6) = a
    BY <2>4, <2>5, <2>7 DEF Holds
  <2> QED BY <1>1, <1>2, <1>3, <1>4, <2>8, <2>9
<1>5. CASE job.vendor = "ST"
  <2>0. job.vendor # "TI"
    BY <1>5
  <2>1. PICK head, middle, more :
          /\ head = <<1, 156, 252, 24, 208, 7, 208, 7, 0>>
          /\ middle = <<0, 20, 0, 40, 0, 0, 0, 100, 0, 2, 0, 2, 0>>
          /\ more = [i \in 1 .. Unwritten |-> junk]
    OBVIOUS
  <2>2. head \in Seq(I) /\ Len(head) = 9 /\ head[4] = 24
    BY <1>1, <2>1
  <2>2b. middle \in Seq(I) /\ Len(middle) = 13
    BY <1>1, <2>1
  <2>2c. more \in Seq(I) /\ Len(more) = 6
    BY <1>1, <2>1 DEF Unwritten
  <2>3. PICK tail \in Seq(I) : tail = middle \o more /\ Len(tail) = 19
    <3>1. middle \in Seq(I) /\ more \in Seq(I)
      BY <2>2b, <2>2c
    <3>2. middle \o more \in Seq(I) /\ Len(middle \o more) = Len(middle) + Len(more)
      BY <3>1, Joined
    <3>3. 13 + 6 = 19
      OBVIOUS
    <3> QED BY <2>2b, <2>2c, <3>2, <3>3
  <2>4. p = Packet(head, a, tail)
    <3>1. p = head \o a \o middle \o more
      BY <1>2, <1>3, <2>0, <2>1 DEF OpenPacket
    <3>2. PICK q \in Seq(I) : q = head \o a
      BY <1>2, <2>2, Joined
    <3>3. q \in Seq(I) /\ middle \in Seq(I) /\ more \in Seq(I)
      BY <2>2b, <2>2c, <3>2
    <3>4. q \o middle \o more = q \o (middle \o more)
      BY <3>3, ConcatAssociative
    <3> QED BY <2>3, <3>1, <3>2, <3>4 DEF Packet
  <2>5. PICK z \in Nat, i \in Nat, n \in Nat, w \in Nat : z = 19 /\ i = 5 /\ n = 24 /\ w = 34
    OBVIOUS
  <2>6. /\ Len(head) = 4 + i /\ Len(a) = 6 /\ Len(tail) = z
        /\ i + 6 <= n /\ n <= i + 6 + z /\ w = 10 + i + z
        /\ head \in Seq(I) /\ a \in Seq(I) /\ tail \in Seq(I)
        /\ z \in Nat /\ i \in Nat /\ n \in Nat /\ w \in Nat
    BY <1>2, <2>2, <2>3, <2>5
  <2>7. /\ Packet(head, a, tail) \in Seq(I) /\ Len(Packet(head, a, tail)) = w
        /\ \A k \in 1 .. 4 : Packet(head, a, tail)[k] = head[k]
        /\ Holds(Packet(head, a, tail), i, n, a)
    BY <2>6, AddressAt
  <2>8. p \in Seq(I) /\ Len(p) = 34 /\ p[4] = 24
    BY <2>2, <2>4, <2>5, <2>7
  <2>9. SubSeq(SubSeq(p, 5, 4 + 24), 5 + 1, 5 + 6) = a
    BY <2>4, <2>5, <2>7 DEF Holds
  <2>10. 4 + 24 + 6 = 34
    OBVIOUS
  <2> QED BY <1>1, <1>2, <1>3, <1>5, <2>0, <2>8, <2>9, <2>10 DEF Unwritten
<1> QED BY <1>4, <1>5 DEF Vendors

Glue(s, t) == s \o t

LEMMA GlueIs ==
  ASSUME NEW S, NEW s \in Seq(S), NEW t \in Seq(S), NEW n \in Nat, NEW m \in Nat, NEW w \in Nat
  PROVE  Len(s) = n /\ Len(t) = m /\ w = n + m
         => /\ Glue(s, t) \in Seq(S) /\ Len(Glue(s, t)) = w
            /\ \A k \in 1 .. n : Glue(s, t)[k] = s[k]
            /\ \A k \in 1 .. m : Glue(s, t)[n + k] = t[k]
<1>1. /\ s \o t \in Seq(S) /\ Len(s \o t) = Len(s) + Len(t)
      /\ \A i \in 1 .. Len(s) : (s \o t)[i] = s[i]
      /\ \A i \in 1 .. Len(t) : (s \o t)[Len(s) + i] = t[i]
  BY Joined
<1>2. PICK p \in Seq(S) : p = Glue(s, t) /\ p = s \o t
  BY <1>1 DEF Glue
<1> SUFFICES ASSUME Len(s) = n, Len(t) = m, w = n + m
             PROVE  /\ p \in Seq(S) /\ Len(p) = w
                    /\ \A k \in 1 .. n : p[k] = s[k]
                    /\ \A k \in 1 .. m : p[n + k] = t[k]
  BY <1>2
<1>3. Len(p) = w
  BY <1>1, <1>2
<1>4. \A k \in 1 .. n : p[k] = s[k]
  BY <1>1, <1>2
<1>5. \A k \in 1 .. m : p[n + k] = t[k]
  BY <1>1, <1>2
<1> QED BY <1>2, <1>3, <1>4, <1>5

Sized(s, t, n, m, w) == Len(s) = n /\ Len(t) = m /\ w = n + m

LEMMA GlueOf ==
  ASSUME NEW S, NEW s \in Seq(S), NEW t \in Seq(S), NEW n \in Nat, NEW m \in Nat, NEW w \in Nat,
         Sized(s, t, n, m, w)
  PROVE  /\ Glue(s, t) \in Seq(S) /\ Len(Glue(s, t)) = w
         /\ \A k \in 1 .. n : Glue(s, t)[k] = s[k]
         /\ \A k \in 1 .. m : Glue(s, t)[n + k] = t[k]
BY GlueIs DEF Sized

LEMMA GlueAssociates ==
  ASSUME NEW S, NEW s \in Seq(S), NEW t \in Seq(S), NEW u \in Seq(S)
  PROVE  Glue(Glue(s, t), u) = Glue(s, Glue(t, u))
BY ConcatAssociative DEF Glue

(* The parameters of a write command start with the handles and end with   *)
(* the value.                                                              *)
Written(pre, handles, rest, value, k, n, m, w) ==
  /\ Len(pre) = 4 /\ Len(handles) = 4 /\ m = 4 + k + n /\ w = 4 + m
  /\ Len(rest) = k + n /\ Len(value) = n /\ \A i \in 1 .. n : rest[k + i] = value[i]

LEMMA CommandIs ==
  ASSUME NEW S, NEW pre \in Seq(S), NEW handles \in Seq(S), NEW rest \in Seq(S), NEW value \in Seq(S),
         NEW k \in Nat, NEW n \in Nat, NEW m \in Nat, NEW w \in Nat
  PROVE  Written(pre, handles, rest, value, k, n, m, w)
         => /\ Glue(pre, Glue(handles, rest)) \in Seq(S) /\ Len(Glue(pre, Glue(handles, rest))) = w
            /\ \A i \in 1 .. 4 : Glue(pre, Glue(handles, rest))[i] = pre[i]
            /\ SubSeq(Glue(pre, Glue(handles, rest)), 5, w) = Glue(handles, rest)
            /\ IsPrefix(handles, Glue(handles, rest)) /\ IsSuffix(value, Glue(handles, rest))
<1>1. PICK f \in Nat, r \in Nat : f = 4 /\ r = k + n
  OBVIOUS
<1>2. Len(handles) = f /\ Len(rest) = r /\ m = f + r
      => /\ Glue(handles, rest) \in Seq(S) /\ Len(Glue(handles, rest)) = m
         /\ \A i \in 1 .. f : Glue(handles, rest)[i] = handles[i]
         /\ \A i \in 1 .. r : Glue(handles, rest)[f + i] = rest[i]
  BY GlueIs
<1>3. PICK b \in Seq(S) : b = Glue(handles, rest)
  <2>1. handles \o rest \in Seq(S)
    BY Joined
  <2> QED BY <2>1 DEF Glue
<1>4. Len(pre) = f /\ Len(b) = m /\ w = f + m
      => /\ Glue(pre, b) \in Seq(S) /\ Len(Glue(pre, b)) = w
         /\ \A i \in 1 .. f : Glue(pre, b)[i] = pre[i]
         /\ \A i \in 1 .. m : Glue(pre, b)[f + i] = b[i]
  BY GlueIs
<1> SUFFICES ASSUME Len(pre) = 4, Len(handles) = 4, m = 4 + k + n, w = 4 + m,
                    Len(rest) = k + n, Len(value) = n, \A i \in 1 .. n : rest[k + i] = value[i]
             PROVE  /\ Glue(pre, b) \in Seq(S) /\ Len(Glue(pre, b)) = w
                    /\ \A i \in 1 .. 4 : Glue(pre, b)[i] = pre[i]
                    /\ SubSeq(Glue(pre, b), 5, w) = b
                    /\ IsPrefix(handles, b) /\ IsSuffix(value, b)
  BY <1>3 DEF Written
<1>5. /\ Len(pre) = f /\ Len(b) = m /\ w = f + m /\ Len(handles) = f
      /\ \A i \in 1 .. f : b[i] = handles[i]
      /\ \A i \in 1 .. r : b[f + i] = rest[i]
  BY <1>1, <1>2, <1>3
<1>6. /\ Glue(pre, b) \in Seq(S) /\ Len(Glue(pre, b)) = w
      /\ \A i \in 1 .. f : Glue(pre, b)[i] = pre[i]
      /\ \A i \in 1 .. m : Glue(pre, b)[f + i] = b[i]
  BY <1>4, <1>5
<1>7. PICK p \in Seq(S) : p = Glue(pre, b)
  BY <1>6
<1>8. SubSeq(p, f + 1, f + m) = b
  <2>1. Len(b) = m /\ f + m <= Len(p) /\ \A i \in 1 .. m : p[f + i] = b[i]
    BY <1>5, <1>6, <1>7
  <2> QED BY <2>1, Slice
<1>9. SubSeq(p, 5, w) = b
  BY <1>1, <1>5, <1>8
<1>10. IsPrefix(handles, b)
  <2>1. Len(handles) = f /\ f <= Len(b) /\ \A i \in 1 .. f : b[i] = handles[i]
    BY <1>1, <1>5
  <2> QED BY <2>1, Prefix
<1>11. IsSuffix(value, b)
  <2>1. PICK q \in Nat : q = f + k
    OBVIOUS
  <2>2. ASSUME NEW i \in 1 .. n PROVE b[q + i] = value[i]
    <3>1. k + i \in 1 .. r /\ f + (k + i) = q + i
      BY <1>1, <2>1
    <3>2. b[f + (k + i)] = rest[k + i]
      BY <1>5, <3>1
    <3> QED BY <3>1, <3>2
  <2>3. Len(value) = n /\ Len(b) = q + n
    BY <1>1, <1>5, <2>1
  <2> QED BY <2>2, <2>3, Suffix
<1>12. \A i \in 1 .. 4 : p[i] = pre[i]
  BY <1>1, <1>6, <1>7
<1> QED BY <1>6, <1>7, <1>9, <1>10, <1>11, <1>12

WritePacket == WriteHead(Len(job.value)) \o job.value

WriteInv ==
  /\ nibble = 0 /\ at = 0
  /\ \/ end = "running" /\ out = <<>> /\ reach = 0 /\ limit = 0
     \/ /\ out = <<WritePacket>> /\ reach = Len(WritePacket) /\ limit = CommandSize
        /\ end = IF Len(WritePacket) <= CommandSize THEN "true" ELSE "overrun"

LEMMA OctetsAreInts == Seq(Octet) \subseteq Seq(Int)
<1> SUFFICES ASSUME NEW s \in Seq(Octet) PROVE s \in Seq(Int)
  OBVIOUS
<1>1. PICK n \in Nat : n = Len(s)
  BY LenProperties
<1>2. s = [i \in 1 .. n |-> s[i]] /\ \A i \in 1 .. n : s[i] \in Octet
  BY <1>1, LenProperties, ElementOfSeq
<1>3. \A i \in 1 .. n : s[i] \in Int
  BY <1>2, Ranges
<1> QED BY <1>2, <1>3

(* A write command, for a value of any length that a byte can tell.        *)
LEMMA WritePacketIs ==
  ASSUME job.vendor \in Vendors, job.link \in Word, job.handle \in Word,
         job.value \in Seq(Octet), Len(job.value) <= 255
  PROVE  LET p == WritePacket
             handles == Bytes16(job.link) \o Bytes16(job.handle)
             parameters == SubSeq(p, 5, 4 + p[4])
         IN /\ p \in Seq(Int)
            /\ Len(p) = Len(job.value) + IF job.vendor = "TI" THEN 8 ELSE 9
            /\ Len(p) <= 255 =>
                 /\ Len(p) = 4 + p[4]
                 /\ IsPrefix(handles, parameters) /\ IsSuffix(job.value, parameters)
<1>1. PICK I : I = Int
  OBVIOUS
<1>2. PICK value \in Seq(I), n \in Nat : value = job.value /\ Len(value) = n /\ n <= 255 /\ n \in I
  BY <1>1, OctetsAreInts, LenProperties
<1>3. PICK handles \in Seq(I) : handles = Bytes16(job.link) \o Bytes16(job.handle) /\ Len(handles) = 4
  <2>1. job.link \in Int /\ job.handle \in Int
    BY Ranges
  <2>2. PICK a, b \in Seq(Octet) : a = Bytes16(job.link) /\ b = Bytes16(job.handle) /\ Len(a) = 2 /\ Len(b) = 2
    BY <2>1, TwoBytes
  <2>3. a \o b \in Seq(Octet) /\ Len(a \o b) = Len(a) + Len(b)
    BY Joined
  <2>4. a \o b \in Seq(I)
    BY <1>1, <2>3, OctetsAreInts
  <2>5. Len(a \o b) = 4
    BY <2>2, <2>3
  <2> QED BY <2>2, <2>4, <2>5
<1>4. PICK l : l = ParameterLength(n)
  OBVIOUS
<1>5. l \in Int /\ l \in I
  BY <1>1, <1>4, SMT DEF ParameterLength, Lo
<1>6. PICK p : p = WritePacket
  OBVIOUS
<1>7a. PICK opcode : opcode = <<1, IF job.vendor = "TI" THEN 146 ELSE 28, 253, l>>
  OBVIOUS
<1>7b. opcode \in Seq(I) /\ Len(opcode) = 4 /\ opcode[4] = l
  BY <1>1, <1>5, <1>7a
<1>7c. PICK c : c = <<n>>
  OBVIOUS
<1>7d. c \in Seq(I) /\ Len(c) = 1
  BY <1>2, <1>7c
<1>7e. PICK k \in Nat : k = IF job.vendor = "TI" THEN 0 ELSE 1
  OBVIOUS
<1>7f. PICK rest : rest = IF job.vendor = "TI" THEN value ELSE Glue(c, value)
  OBVIOUS
<1>7. /\ rest \in Seq(I) /\ Len(rest) = k + n /\ \A i \in 1 .. n : rest[k + i] = value[i]
      /\ p = Glue(opcode, Glue(handles, rest))
  <2>1. CASE job.vendor = "TI"
    <3>1. rest = value /\ k = 0
      BY <1>7e, <1>7f, <2>1
    <3>2. p = (opcode \o handles) \o value
      BY <1>2, <1>3, <1>4, <1>6, <1>7a, <2>1 DEF WritePacket, WriteHead
    <3>3. opcode \in Seq(I) /\ handles \in Seq(I) /\ value \in Seq(I)
      BY <1>7b
    <3>4. (opcode \o handles) \o value = opcode \o (handles \o value)
      BY <3>3, ConcatAssociative
    <3>5. p = Glue(opcode, Glue(handles, rest))
      BY <3>1, <3>2, <3>4 DEF Glue
    <3>6. Len(value) = k + n /\ \A i \in 1 .. n : value[k + i] = value[i]
      BY <1>2, <3>1
    <3> QED BY <3>1, <3>5, <3>6
  <2>2. CASE job.vendor # "TI"
    <3>1. rest = Glue(c, value) /\ k = 1
      BY <1>7e, <1>7f, <2>2
    <3>2. PICK r \in Seq(I) : r = rest /\ r = c \o value
      <4>1. c \in Seq(I) /\ value \in Seq(I)
        BY <1>7d
      <4>2. c \o value \in Seq(I)
        BY <4>1, Joined
      <4> QED BY <3>1, <4>2 DEF Glue
    <3>3. p = ((opcode \o handles) \o c) \o value
      BY <1>2, <1>3, <1>4, <1>6, <1>7a, <1>7c, <2>2 DEF WritePacket, WriteHead
    <3>4. ((opcode \o handles) \o c) \o value = opcode \o (handles \o r)
      <4>1. opcode \in Seq(I) /\ handles \in Seq(I) /\ value \in Seq(I) /\ c \in Seq(I)
        BY <1>7b, <1>7d
      <4>2. opcode \o handles \in Seq(I)
        BY <4>1, Joined
      <4>3. PICK q \in Seq(I) : q = opcode \o handles
        BY <4>2
      <4>4. Glue(Glue(q, c), value) = Glue(q, Glue(c, value))
        BY <4>1, GlueAssociates
      <4>5. Glue(Glue(opcode, handles), r) = Glue(opcode, Glue(handles, r))
        BY <4>1, GlueAssociates
      <4> QED BY <3>2, <4>3, <4>4, <4>5 DEF Glue
    <3>5. p = Glue(opcode, Glue(handles, rest))
      BY <3>2, <3>3, <3>4 DEF Glue
    <3>6. PICK w \in Nat : w = k + n
      OBVIOUS
    <3>7. c \in Seq(I) /\ value \in Seq(I) /\ Len(c) = k /\ Len(value) = n /\ w = k + n
      BY <1>2, <1>7d, <3>1, <3>6
    <3>8. Len(Glue(c, value)) = w /\ \A i \in 1 .. n : Glue(c, value)[k + i] = value[i]
      BY <3>7, GlueIs
    <3> QED BY <3>1, <3>2, <3>5, <3>6, <3>8
  <2> QED BY <2>1, <2>2
<1>8. PICK m \in Nat, w \in Nat : m = 4 + k + n /\ w = 4 + m
  OBVIOUS
<1>9. /\ p \in Seq(I) /\ Len(p) = w
      /\ \A i \in 1 .. 4 : p[i] = opcode[i]
      /\ SubSeq(p, 5, w) = Glue(handles, rest)
      /\ IsPrefix(handles, Glue(handles, rest)) /\ IsSuffix(value, Glue(handles, rest))
  <2>1. opcode \in Seq(I) /\ rest \in Seq(I)
    BY <1>7b, <1>7
  <2>2. Written(opcode, handles, rest, value, k, n, m, w)
        => /\ Glue(opcode, Glue(handles, rest)) \in Seq(I) /\ Len(Glue(opcode, Glue(handles, rest))) = w
           /\ \A i \in 1 .. 4 : Glue(opcode, Glue(handles, rest))[i] = opcode[i]
           /\ SubSeq(Glue(opcode, Glue(handles, rest)), 5, w) = Glue(handles, rest)
           /\ IsPrefix(handles, Glue(handles, rest)) /\ IsSuffix(value, Glue(handles, rest))
    BY <2>1, CommandIs
  <2>3. Written(opcode, handles, rest, value, k, n, m, w)
    BY <1>2, <1>3, <1>7b, <1>7, <1>8 DEF Written
  <2> QED BY <1>7, <2>2, <2>3
<1>10. p \in Seq(I) /\ Len(p) = w /\ p[4] = l
  BY <1>7b, <1>9
<1>11. w = n + IF job.vendor = "TI" THEN 8 ELSE 9
  BY <1>7e, <1>8
<1>12. ASSUME w <= 255 PROVE w = 4 + l
  <2>1. l = Lo(m)
    BY <1>4, <1>7e, <1>8 DEF ParameterLength
  <2>2. m % 256 = m
    BY <1>8, <1>12
  <2> QED BY <1>8, <2>1, <2>2 DEF Lo
<1>13. ASSUME w <= 255 PROVE IsPrefix(handles, SubSeq(p, 5, 4 + l)) /\ IsSuffix(value, SubSeq(p, 5, 4 + l))
  BY <1>7, <1>9, <1>12, <1>13
<1> QED BY <1>1, <1>2, <1>3, <1>6, <1>10, <1>11, <1>12, <1>13

LEMMA CommandJobs ==
  ASSUME FromJob
  PROVE  /\ job.kind = "open" => job.vendor \in Vendors /\ job.address \in Address
         /\ job.kind = "write" => /\ job.vendor \in Vendors /\ job.link \in Word /\ job.handle \in Word
                                  /\ job.value \in Seq(Octet) /\ Len(job.value) <= 255
         /\ job.kind \in {"open", "write"} => input = job.behind /\ \A i \in DOMAIN input : input[i] \in Octet
<1>1. WellFormed(job) /\ job.behind \in Seq(Octet) /\ input = Layout(job) \o job.behind
  <2>1. WellFormed(job) /\ input = Layout(job) \o job.behind
    BY JobsWellFormed DEF FromJob
  <2>2. job.behind \in Seq(Octet)
    BY <2>1, SMT DEF WellFormed
  <2> QED BY <2>1, <2>2
<1>2. job.kind = "open" => job.vendor \in Vendors /\ job.address \in Address
  BY <1>1, SMT DEF WellFormed
<1>3. job.kind = "write" => /\ job.vendor \in Vendors /\ job.link \in Word /\ job.handle \in Word
                            /\ job.value \in Seq(Octet) /\ Len(job.value) <= 255
  BY <1>1, SMT DEF WellFormed
<1>4. job.kind \in {"open", "write"} => input = job.behind
  <2>1. job.kind \in {"open", "write"} => Layout(job) = <<>>
    BY SMT DEF Layout
  <2> QED BY <1>1, <2>1
<1>5. \A i \in 1 .. Len(job.behind) : job.behind[i] \in Octet
  BY <1>1, ElementOfSeq
<1>6. DOMAIN job.behind = 1 .. Len(job.behind)
  BY <1>1
<1> QED BY <1>2, <1>3, <1>4, <1>5, <1>6

LEMMA Opened ==
  ASSUME Shaped, job.kind = "open", OpenInv, Open
  PROVE  Shaped' /\ OpenInv'
<1>1. /\ \E junk \in {0, 4} : out' = <<OpenPacket(junk)>>
      /\ end' = "true" /\ UNCHANGED <<job, input, at, limit, reach, nibble>>
  BY DEF Open
<1>2. PICK junk \in {0, 4} : out' = <<OpenPacket(junk)>>
  BY <1>1
<1>3. OpenPacket(junk)' = OpenPacket(junk)
  BY <1>1 DEF OpenPacket
<1>4. Shaped'
  BY <1>1 DEF Shaped, FromJob
<1>5. (\E j \in {0, 4} : out = <<OpenPacket(j)>>)'
  BY <1>2, <1>3
<1> QED BY <1>1, <1>4, <1>5 DEF OpenInv

LEMMA ValueWritten ==
  ASSUME Shaped, job.kind = "write", WriteInv, Write
  PROVE  Shaped' /\ WriteInv'
<1>1. /\ limit' = CommandSize /\ reach' = Len(WritePacket) /\ out' = <<WritePacket>>
      /\ end' = IF Len(WritePacket) <= CommandSize THEN "true" ELSE "overrun"
      /\ UNCHANGED <<job, input, at, nibble>>
  BY DEF Write, WritePacket
<1>2. WritePacket' = WritePacket
  BY <1>1 DEF WritePacket, WriteHead, ParameterLength
<1>3. WritePacket \in Seq(Int)
  BY CommandJobs, WritePacketIs DEF Shaped
<1>4. Len(WritePacket) \in Nat /\ CommandSize \in Nat
  BY <1>3, SizeAssumption, Ranges, LenProperties
<1>5. Shaped'
  BY <1>1, <1>4 DEF Shaped, FromJob
<1>6. WriteInv'
  BY <1>1, <1>2 DEF WriteInv
<1> QED BY <1>5, <1>6

-----------------------------------------------------------------------------
(* Services                                                                *)
EntryBytes(e) == Bytes16(e.first) \o Bytes16(e.last) \o e.uuid
EntryTold(e)  == <<e.first, e.last>> \o Reverse(e.uuid)
Entry(u)      == [first : Word, last : Word, uuid : [1 .. u -> Octet]]

LEMMA EntryIs ==
  ASSUME NEW u \in Nat, NEW e \in Entry(u)
  PROVE  /\ e.first \in Word /\ e.last \in Word /\ e.uuid \in Seq(Octet) /\ Len(e.uuid) = u
         /\ EntryBytes(e) \in Seq(Octet) /\ Len(EntryBytes(e)) = 4 + u
         /\ EntryBytes(e)[1] = Lo(e.first) /\ EntryBytes(e)[2] = Hi(e.first)
         /\ EntryBytes(e)[3] = Lo(e.last) /\ EntryBytes(e)[4] = Hi(e.last)
         /\ \A k \in 1 .. u : EntryBytes(e)[4 + k] = e.uuid[k]
         /\ EntryTold(e) \in Seq(Int)
<1>1. e.first \in Word /\ e.last \in Word /\ e.uuid \in [1 .. u -> Octet]
  BY DEF Entry
<1>2. PICK uuid \in Seq(Octet) : uuid = e.uuid /\ Len(uuid) = u
  BY <1>1
<1>3. e.first \in Int /\ e.last \in Int
  BY <1>1, Ranges
<1>4. PICK a, b \in Seq(Octet) :
        /\ a = Bytes16(e.first) /\ Len(a) = 2 /\ a[1] = Lo(e.first) /\ a[2] = Hi(e.first)
        /\ b = Bytes16(e.last) /\ Len(b) = 2 /\ b[1] = Lo(e.last) /\ b[2] = Hi(e.last)
  BY <1>3, TwoBytes
<1>5. PICK n \in Nat, m \in Nat, w \in Nat : n = 2 /\ m = 4 /\ w = m + u
  OBVIOUS
<1>6. Sized(a, b, n, n, m) /\ a \in Seq(Octet) /\ b \in Seq(Octet)
  BY <1>4, <1>5 DEF Sized
<1>7. /\ Glue(a, b) \in Seq(Octet) /\ Len(Glue(a, b)) = m
      /\ \A k \in 1 .. n : Glue(a, b)[k] = a[k]
      /\ \A k \in 1 .. n : Glue(a, b)[n + k] = b[k]
  BY <1>6, GlueOf
<1>8. PICK c \in Seq(Octet) : c = Glue(a, b)
  BY <1>7
<1>9. Sized(c, uuid, m, u, w)
  BY <1>2, <1>5, <1>7, <1>8 DEF Sized
<1>10. /\ Glue(c, uuid) \in Seq(Octet) /\ Len(Glue(c, uuid)) = w
       /\ \A k \in 1 .. m : Glue(c, uuid)[k] = c[k]
       /\ \A k \in 1 .. u : Glue(c, uuid)[m + k] = uuid[k]
  BY <1>9, GlueOf
<1>11. EntryBytes(e) = Glue(c, uuid)
  BY <1>2, <1>4, <1>8 DEF EntryBytes, Glue
<1>12. c[1] = a[1] /\ c[2] = a[2] /\ c[3] = b[1] /\ c[4] = b[2]
  <2>1. 1 \in 1 .. n /\ 2 \in 1 .. n /\ n + 1 = 3 /\ n + 2 = 4
    BY <1>5
  <2> QED BY <1>7, <1>8, <2>1
<1>13. EntryTold(e) \in Seq(Int)
  <2>1. PICK I : I = Int
    OBVIOUS
  <2>2. uuid \in Seq(I)
    BY <2>1, OctetsAreInts
  <2>3. Reverse(uuid) \in Seq(I)
    BY <1>2, <2>2, Reversed
  <2>4. <<e.first, e.last>> \in Seq(I)
    BY <1>3, <2>1
  <2>5. <<e.first, e.last>> \o Reverse(uuid) \in Seq(I)
    BY <2>3, <2>4
  <2> QED BY <1>2, <2>1, <2>5 DEF EntryTold
<1> QED BY <1>1, <1>2, <1>4, <1>5, <1>10, <1>11, <1>12, <1>13

(* What is known of the entries of a job, and of the bytes that tell them. *)
EntriesIn(N, u, d, p) ==
  /\ N = Len(job.entries) /\ u = job.uuidLength /\ d = 4 + u /\ d \in {6, 20}
  /\ p = Start
  /\ \A i \in 1 .. N : job.entries[i] \in Entry(u)
  /\ Layout(job) \in Seq(Octet) /\ Len(Layout(job)) = p + 4 + d * N
  /\ \A i \in DOMAIN input : input[i] \in Octet
  /\ Len(input) \in Nat /\ input \in Seq(Octet) /\ p + 4 + d * N <= Len(input)
  /\ input[p + 3] = 1 + d * N /\ input[p + 4] = d
  /\ \A i \in 1 .. N, k \in 1 .. d : input[p + 4 + d * (i - 1) + k] = EntryBytes(job.entries[i])[k]

EntriesFit(E, N, u, d) == d = 4 + u /\ \A i \in 1 .. N : E[i] \in Entry(u)

LEMMA EntriesFlat ==
  ASSUME NEW E, NEW N \in Nat, NEW u \in Nat, NEW d \in Nat, EntriesFit(E, N, u, d)
  PROVE  LET data == FlattenSeq([i \in 1 .. N |-> EntryBytes(E[i])]) IN
           /\ data \in Seq(Octet) /\ Len(data) = d * N
           /\ \A i \in 1 .. N, k \in 1 .. d : data[d * (i - 1) + k] = EntryBytes(E[i])[k]
<1> DEFINE seqs == [i \in 1 .. N |-> EntryBytes(E[i])]
<1>1. \A i \in 1 .. N : EntryBytes(E[i]) \in Seq(Octet) /\ Len(EntryBytes(E[i])) = d
  BY EntryIs DEF EntriesFit
<1>2. seqs \in Seq(Seq(Octet)) /\ Len(seqs) = N
  BY <1>1
<1>3. \A i \in 1 .. N : seqs[i] = EntryBytes(E[i])
  OBVIOUS
<1> HIDE DEF seqs
<1>4. \A i \in 1 .. Len(seqs) : Len(seqs[i]) = d
  BY <1>1, <1>2, <1>3
<1>5. /\ FlattenSeq(seqs) \in Seq(Octet) /\ Len(FlattenSeq(seqs)) = d * Len(seqs)
      /\ \A i \in 1 .. Len(seqs), k \in 1 .. d : FlattenSeq(seqs)[d * (i - 1) + k] = seqs[i][k]
  BY <1>2, <1>4, FlattenEqual
<1>6. Len(FlattenSeq(seqs)) = d * N
  BY <1>2, <1>5
<1>7. \A i \in 1 .. N, k \in 1 .. d : FlattenSeq(seqs)[d * (i - 1) + k] = EntryBytes(E[i])[k]
  BY <1>2, <1>3, <1>5
<1> QED BY <1>5, <1>6, <1>7 DEF seqs

LEMMA ServicesAre ==
  ASSUME FromJob, job.kind = "services"
  PROVE  \E N \in Nat, u \in Nat, d \in Nat, p \in {2, 3} : EntriesIn(N, u, d, p)
<1>1. /\ job.behind \in Seq(Octet) /\ input = Layout(job) \o job.behind /\ IsServices(job)
      /\ Layout(job) = ServiceBytes(job)
  <2>1. WellFormed(job) /\ input = Layout(job) \o job.behind
    BY JobsWellFormed DEF FromJob
  <2>2. job.behind \in Seq(Octet) /\ IsServices(job)
    BY <2>1, SMT DEF WellFormed
  <2>3. Layout(job) = ServiceBytes(job)
    BY SMT DEF Layout
  <2> QED BY <2>1, <2>2, <2>3
<1>2. PICK E \in Seq(Entry(job.uuidLength)), N \in Nat : E = job.entries /\ N = Len(E)
  <2>1. job.entries \in Seq(Entry(job.uuidLength))
    BY <1>1 DEF IsServices, Entry
  <2> QED BY <2>1, LenProperties
<1>3. PICK u \in Nat, d \in Nat : u = job.uuidLength /\ d = 4 + u
  BY <1>1 DEF IsServices
<1>4. d \in {6, 20} /\ job.link \in Int /\ job.vendor \in Vendors
  <2>1. u \in {2, 16} /\ job.link \in Word /\ job.vendor \in Vendors
    BY <1>1, <1>3 DEF IsServices
  <2> QED BY <1>3, <2>1, Ranges
<1>5. \A i \in 1 .. N : E[i] \in Entry(u)
  BY <1>2, <1>3, ElementOfSeq
<1>6. 1 + d * N <= 255
  <2>1. 1 + N * d <= 255
    BY <1>1, <1>2, <1>3 DEF IsServices
  <2>2. N * d = d * N
    OBVIOUS
  <2> QED BY <2>1, <2>2
<1>7. PICK data : data = FlattenSeq([i \in 1 .. N |-> EntryBytes(E[i])])
  OBVIOUS
<1>8. /\ data \in Seq(Octet) /\ Len(data) = d * N
      /\ \A i \in 1 .. N, k \in 1 .. d : data[d * (i - 1) + k] = EntryBytes(E[i])[k]
  <2>1. EntriesFit(E, N, u, d)
    BY <1>3, <1>5 DEF EntriesFit
  <2> QED BY <1>7, <2>1, EntriesFlat
<1>9a. PICK pre, b, c :
         /\ pre = IF job.vendor = "TI" THEN <<17, 5, 0>> ELSE <<10, 12>>
         /\ b = Bytes16(job.link) /\ c = <<1 + N * d, d>>
  OBVIOUS
<1>9b. PICK p \in {2, 3} : p = IF job.vendor = "TI" THEN 3 ELSE 2
  OBVIOUS
<1>9. /\ pre = IF job.vendor = "TI" THEN <<17, 5, 0>> ELSE <<10, 12>>
      /\ b = Bytes16(job.link) /\ c = <<1 + N * d, d>>
      /\ p = IF job.vendor = "TI" THEN 3 ELSE 2
  BY <1>9a, <1>9b
<1>10. PICK m \in Nat : m = d * N
  OBVIOUS
<1>11. Layout(job) = Glue(Glue(Glue(pre, b), c), data)
  BY <1>1, <1>2, <1>3, <1>7, <1>9 DEF ServiceBytes, EntryBytes, Glue
<1>12. pre \in Seq(Octet) /\ Len(pre) = p /\ p \in Nat /\ p = Start
  <2>1. 17 \in Octet /\ 5 \in Octet /\ 0 \in Octet /\ 10 \in Octet /\ 12 \in Octet
    BY Ranges
  <2> QED BY <1>9, <2>1 DEF Start
<1>13. b \in Seq(Octet) /\ Len(b) = 2
  BY <1>4, <1>9, TwoBytes
<1>14. c \in Seq(Octet) /\ Len(c) = 2 /\ c[1] = 1 + m /\ c[2] = d
  <2>1. N * d = m /\ 1 + m \in Octet /\ d \in Octet
    BY <1>4, <1>6, <1>10, Ranges
  <2> QED BY <1>9, <2>1
<1>15. PICK t \in Nat, p2 \in Nat, p4 \in Nat, w \in Nat : t = 2 /\ p2 = p + 2 /\ p4 = p + 4 /\ w = p4 + m
  BY <1>12
<1>16. Sized(pre, b, p, t, p2)
  BY <1>12, <1>13, <1>15 DEF Sized
<1>17. Glue(pre, b) \in Seq(Octet) /\ Len(Glue(pre, b)) = p2
  BY <1>12, <1>13, <1>16, GlueOf
<1>18. PICK q \in Seq(Octet) : q = Glue(pre, b)
  BY <1>17
<1>19. /\ Sized(q, c, p2, t, p4) /\ q \in Seq(Octet) /\ c \in Seq(Octet)
       /\ p2 \in Nat /\ t \in Nat /\ p4 \in Nat
  BY <1>14, <1>15, <1>17, <1>18 DEF Sized
<1>20. /\ Glue(q, c) \in Seq(Octet) /\ Len(Glue(q, c)) = p4
       /\ \A k \in 1 .. p2 : Glue(q, c)[k] = q[k]
       /\ \A k \in 1 .. t : Glue(q, c)[p2 + k] = c[k]
  BY <1>19, GlueOf
<1>21. PICK r \in Seq(Octet) : r = Glue(q, c) /\ r[p + 3] = 1 + m /\ r[p + 4] = d
  <2>1. 1 \in 1 .. t /\ 2 \in 1 .. t /\ p2 + 1 = p + 3 /\ p2 + 2 = p + 4
    BY <1>12, <1>15
  <2> QED BY <1>14, <1>20, <2>1
<1>22. Sized(r, data, p4, m, w) /\ data \in Seq(Octet)
  BY <1>8, <1>10, <1>15, <1>20, <1>21 DEF Sized
<1>23. /\ Glue(r, data) \in Seq(Octet) /\ Len(Glue(r, data)) = w
       /\ \A k \in 1 .. p4 : Glue(r, data)[k] = r[k]
       /\ \A k \in 1 .. m : Glue(r, data)[p4 + k] = data[k]
  BY <1>22, GlueOf
<1>24. PICK l \in Seq(Octet) : l = Layout(job) /\ l = Glue(r, data)
  BY <1>11, <1>18, <1>21, <1>23
<1>25. PICK z \in Nat : z = Len(job.behind)
  BY <1>1, LenProperties
<1>26. /\ input \in Seq(Octet) /\ Len(input) = w + z
       /\ \A i \in 1 .. w : input[i] = l[i]
       /\ \A i \in 1 .. Len(input) : input[i] \in Octet
  BY <1>1, <1>23, <1>24, <1>25, InputIs
<1>27. Len(Layout(job)) = p + 4 + d * N /\ p + 4 + d * N <= Len(input) /\ Len(input) \in Nat
  BY <1>10, <1>12, <1>15, <1>23, <1>24, <1>26
<1>28. input[p + 3] = 1 + d * N /\ input[p + 4] = d
  <2>1. p + 3 \in 1 .. p4 /\ p + 4 \in 1 .. p4 /\ p + 3 \in 1 .. w /\ p + 4 \in 1 .. w
    BY <1>12, <1>15
  <2> QED BY <1>10, <1>21, <1>23, <1>24, <1>26, <2>1
<1>29. ASSUME NEW i \in 1 .. N, NEW k \in 1 .. d
       PROVE  input[p + 4 + d * (i - 1) + k] = EntryBytes(E[i])[k]
  <2>1. PICK x \in 1 .. m : x = d * (i - 1) + k
    <3>1. d * (i - 1) + k \in 1 .. d * N
      <4>1. CASE d = 6
        BY <4>1
      <4>2. CASE d = 20
        BY <4>2
      <4> QED BY <1>4, <4>1, <4>2
    <3> QED BY <1>10, <3>1
  <2>2. p4 + x \in 1 .. w /\ p4 + x = p + 4 + d * (i - 1) + k
    BY <1>12, <1>15, <2>1
  <2>3. input[p4 + x] = data[x]
    BY <1>23, <1>24, <1>26, <2>2
  <2> QED BY <1>8, <2>1, <2>2, <2>3
<1>30. DOMAIN input = 1 .. Len(input)
  BY <1>26, LenProperties
<1>31. EntriesIn(N, u, d, p)
  BY <1>2, <1>3, <1>4, <1>5, <1>12, <1>24, <1>26, <1>27, <1>28, <1>29, <1>30 DEF EntriesIn
<1> QED BY <1>31

(* The first n items of f, and one more.                                   *)
First(f, n) == [i \in 1 .. n |-> f[i]]

LEMMA FirstItems ==
  ASSUME NEW f, NEW n \in Nat
  PROVE  First(f, 0) = <<>> /\ Append(First(f, n), f[n + 1]) = First(f, n + 1)
<1>1. First(f, 0) = <<>>
  <2>1. First(f, 0) = [i \in 1 .. 0 |-> f[i]]
    BY DEF First
  <2>2. [i \in 1 .. 0 |-> f[i]] = <<>>
    OBVIOUS
  <2> QED BY <2>1, <2>2
<1>2. Append(First(f, n), f[n + 1]) = First(f, n + 1)
  <2>1. PICK S : \A i \in 1 .. n + 1 : f[i] \in S
    <3>1. \A i \in 1 .. n + 1 : f[i] \in {f[j] : j \in 1 .. n + 1}
      OBVIOUS
    <3> QED BY <3>1
  <2>2. First(f, n) \in Seq(S) /\ Len(First(f, n)) = n
    BY <2>1 DEF First
  <2>3. First(f, n + 1) \in Seq(S) /\ Len(First(f, n + 1)) = n + 1
    BY <2>1 DEF First
  <2>4. PICK s \in Seq(S), t \in Seq(S), v \in S : s = First(f, n) /\ t = First(f, n + 1) /\ v = f[n + 1]
    <3>1. n + 1 \in 1 .. n + 1
      OBVIOUS
    <3> QED BY <2>1, <2>2, <2>3, <3>1
  <2>5. /\ \A i \in 1 .. n : s[i] = f[i]
        /\ \A i \in 1 .. n + 1 : t[i] = f[i]
    BY <2>4 DEF First
  <2>6. /\ Append(s, v) \in Seq(S) /\ Len(Append(s, v)) = n + 1
        /\ \A i \in 1 .. n : Append(s, v)[i] = s[i]
        /\ Append(s, v)[n + 1] = v
    BY <2>2, <2>4
  <2>7. \A i \in 1 .. n + 1 : i \in 1 .. n \/ i = n + 1
    OBVIOUS
  <2>8. Len(Append(s, v)) = Len(t) /\ \A i \in 1 .. Len(Append(s, v)) : Append(s, v)[i] = t[i]
    <3>1. \A i \in 1 .. n + 1 : Append(s, v)[i] = t[i]
      BY <2>4, <2>5, <2>6, <2>7
    <3> QED BY <2>3, <2>4, <2>6, <3>1
  <2>9. PICK a \in Seq(S) : a = Append(s, v)
    BY <2>6
  <2>10. a = t
    BY <2>8, <2>9, SeqEqual
  <2> QED BY <2>4, <2>9, <2>10
<1> QED BY <1>1, <1>2

ServicesTold == [i \in 1 .. Len(job.entries) |-> EntryTold(job.entries[i])]

ServicesInv ==
  /\ nibble = 0 /\ limit = Len(Layout(job))
  /\ \/ end = "running" /\ at = 0 /\ reach = 0 /\ out = <<>>
     \/ \E n \in 0 .. Len(job.entries) :
          /\ at = Start + 4 + (4 + job.uuidLength) * n /\ reach = at /\ out = First(ServicesTold, n)
          /\ end = "running" \/ (end = "true" /\ n = Len(job.entries))

LEMMA ServicesFramed ==
  ASSUME Shaped, job.kind = "services", ServicesInv, Services
  PROVE  Shaped' /\ ServicesInv'
<1>1. PICK N \in Nat, u \in Nat, d \in Nat, p \in {2, 3} : EntriesIn(N, u, d, p)
  BY ServicesAre DEF Shaped
<1>2. /\ N = Len(job.entries) /\ u = job.uuidLength /\ d = 4 + u /\ d \in {6, 20} /\ p = Start
      /\ input[p + 3] = 1 + d * N /\ input[p + 4] = d /\ Len(Layout(job)) = p + 4 + d * N
  BY <1>1 DEF EntriesIn
<1>3. at = 0 /\ end = "running" /\ out = <<>> /\ limit = p + 4 + d * N
  <2>1. at = 0 /\ end = "running"
    BY DEF Services, Does
  <2>2. ~\E n \in 0 .. N : at = p + 4 + d * n
    <3> SUFFICES ASSUME NEW n \in 0 .. N, at = p + 4 + d * n PROVE FALSE
      OBVIOUS
    <3>1. CASE d = 6
      BY <2>1, <3>1
    <3>2. CASE d = 20
      BY <2>1, <3>2
    <3> QED BY <1>2, <3>1, <3>2
  <2> QED BY <1>2, <2>1, <2>2 DEF ServicesInv
<1>4. Byte(Start + 2) = 1 + d * N /\ EntrySize = d
  <2>1. (p + 2) + 1 = p + 3 /\ (p + 3) + 1 = p + 4
    BY <1>1
  <2> QED BY <1>2, <2>1 DEF Byte, EntrySize
<1>5. PICK m \in Nat : m = d * N /\ m % d = 0
  <2>1. CASE d = 6
    BY <2>1
  <2>2. CASE d = 20
    BY <2>2
  <2> QED BY <1>2, <2>1, <2>2
<1>6. 4 <= limit - Start /\ (Byte(Start + 2) - 1) % EntrySize = 0 /\ 4 + (Byte(Start + 2) - 1) = limit - Start
  <2>1. (1 + m) - 1 = m /\ (p + 4 + m) - p = 4 + m
    BY <1>1
  <2> QED BY <1>2, <1>3, <1>4, <1>5, <2>1
<1>7. at' = Start + 4 /\ out' = out /\ end' = end /\ reach' = Start + 4 /\ UNCHANGED <<job, input, limit, nibble>>
  BY <1>2, <1>4, <1>6 DEF Services
<1>8. Start \in Nat /\ Start + 4 + (4 + job.uuidLength) * 0 = Start + 4
  <2>1. p + 4 + d * 0 = p + 4 /\ p \in Nat
    BY <1>1
  <2> QED BY <1>2, <2>1
<1>9. Shaped'
  BY <1>7, <1>8 DEF Shaped, FromJob
<1>10. (\E n \in 0 .. Len(job.entries) :
          /\ at = Start + 4 + (4 + job.uuidLength) * n /\ reach = at /\ out = First(ServicesTold, n)
          /\ end = "running" \/ (end = "true" /\ n = Len(job.entries)))'
  <2>1. Start' = Start /\ ServicesTold' = ServicesTold
    BY <1>7 DEF Start, ServicesTold
  <2>2. out' = First(ServicesTold, 0) /\ 0 \in 0 .. Len(job.entries)
    BY <1>2, <1>3, <1>7, FirstItems
  <2>3. /\ at' = Start' + 4 + (4 + job'.uuidLength) * 0 /\ reach' = at'
        /\ out' = First(ServicesTold', 0) /\ end' = "running" /\ 0 \in 0 .. Len(job'.entries)
    BY <1>3, <1>7, <1>8, <2>1, <2>2
  <2> QED BY <2>3, Zenon
<1>11. (nibble = 0 /\ limit = Len(Layout(job)))'
  BY <1>7 DEF ServicesInv
<1> QED BY <1>9, <1>10, <1>11 DEF ServicesInv

LEMMA ServiceTold ==
  ASSUME Shaped, job.kind = "services", ServicesInv, Service
  PROVE  Shaped' /\ ServicesInv'
<1>1. PICK N \in Nat, u \in Nat, d \in Nat, p \in {2, 3} : EntriesIn(N, u, d, p)
  BY ServicesAre DEF Shaped
<1>0. d = 4 + u /\ (d = 6 \/ d = 20) /\ p \in Nat
  BY <1>1 DEF EntriesIn
<1>2. /\ N = Len(job.entries) /\ u = job.uuidLength /\ d = 4 + u /\ p = Start
      /\ Len(Layout(job)) = p + 4 + d * N
  BY <1>1 DEF EntriesIn
<1>2a. input[p + 4] = d /\ \A i \in 1 .. N : job.entries[i] \in Entry(u)
  BY <1>1 DEF EntriesIn
<1>2b. PICK L \in Nat : L = Len(input) /\ p + 4 + d * N <= L /\ input \in Seq(Octet)
  BY <1>1 DEF EntriesIn
<1>2c. /\ \A i \in 1 .. N, k \in 1 .. d : input[p + 4 + d * (i - 1) + k] = EntryBytes(job.entries[i])[k]
  BY <1>1 DEF EntriesIn
<1>3. at > 0 /\ at < limit /\ end = "running" /\ limit = p + 4 + d * N
  BY <1>2 DEF Service, Does, ServicesInv
<1>4. PICK n \in 0 .. N : at = p + 4 + d * n /\ reach = at /\ out = First(ServicesTold, n)
  <2>1. at # 0
    BY <1>3 DEF Shaped
  <2> QED BY <1>2, <2>1, <1>3 DEF ServicesInv
<1>5a. n < N
  <2>1. p + 4 + d * n < p + 4 + d * N
    BY <1>3, <1>4
  <2>2. CASE d = 6
    BY <1>0, <2>1, <2>2
  <2>3. CASE d = 20
    BY <1>0, <2>1, <2>3
  <2> QED BY <1>0, <2>2, <2>3
<1>5b. PICK a \in Nat : a = at /\ a = p + 4 + d * n
  <2>1. p + 4 + d * n \in Nat
    BY <1>0
  <2> QED BY <1>4, <2>1
<1>5. a + d <= L /\ a + d = p + 4 + d * (n + 1)
  <2>1. CASE d = 6
    BY <1>0, <1>2b, <1>5a, <1>5b, <2>1
  <2>2. CASE d = 20
    BY <1>0, <1>2b, <1>5a, <1>5b, <2>2
  <2> QED BY <1>0, <2>1, <2>2
<1>6. PICK e \in Entry(u) : /\ e = job.entries[n + 1]
                            /\ \A k \in 1 .. d : input[at + k] = EntryBytes(e)[k]
  <2>1. PICK m \in 1 .. N : m = n + 1 /\ m - 1 = n
    BY <1>5a
  <2>2. \A k \in 1 .. d : input[p + 4 + d * (m - 1) + k] = EntryBytes(job.entries[m])[k]
    BY <1>2c
  <2>3. job.entries[m] \in Entry(u)
    BY <1>2a
  <2> QED BY <1>4, <2>1, <2>2, <2>3
<1>7. EntrySize = d
  <2>1. (p + 3) + 1 = p + 4
    BY <1>1
  <2> QED BY <1>2, <1>2a, <2>1 DEF Byte, EntrySize
<1>8. Value16(at) = e.first /\ Value16(at + 2) = e.last
  <2>1. 1 \in 1 .. d /\ 2 \in 1 .. d /\ 3 \in 1 .. d /\ 4 \in 1 .. d
    BY <1>0
  <2>2. /\ input[at + 1] = Lo(e.first) /\ input[at + 2] = Hi(e.first)
        /\ input[at + 3] = Lo(e.last) /\ input[at + 4] = Hi(e.last)
    BY <1>6, <2>1, EntryIs
  <2>3. e.first \in Word /\ e.last \in Word /\ e.first \in Int /\ e.last \in Int
    BY EntryIs, Ranges
  <2>4. Lo(e.first) + 256 * Hi(e.first) = e.first /\ Lo(e.last) + 256 * Hi(e.last) = e.last
    BY <2>3, Word16
  <2>5. (at + 1) + 1 = at + 2 /\ (at + 2) + 1 = at + 3 /\ ((at + 2) + 1) + 1 = at + 4
    BY <1>5b
  <2>6. Value16(at) = input[at + 1] + 256 * input[at + 2] /\ Value16(at + 2) = input[at + 3] + 256 * input[at + 4]
    BY <2>5 DEF Value16, Byte
  <2> QED BY <2>2, <2>4, <2>6
<1>9. PrintUUID(at + 4, EntrySize - 4) = Reverse(e.uuid)
  <2>1. PICK b \in Nat : b = a + 4 /\ b = at + 4
    BY <1>5b
  <2>2. PICK t \in Seq(Octet) : t = e.uuid /\ Len(t) = u
    BY EntryIs
  <2>3. ASSUME NEW k \in 1 .. u PROVE input[b + k] = t[k]
    <3>1. 4 + k \in 1 .. d /\ a + (4 + k) = b + k
      BY <1>0, <2>1
    <3>2. EntryBytes(e)[4 + k] = e.uuid[k]
      BY EntryIs
    <3> QED BY <1>5b, <1>6, <2>2, <3>1, <3>2
  <2>4. Len(t) = u /\ b + u <= L /\ L = Len(input) /\ input \in Seq(Octet)
    BY <1>0, <1>2b, <1>5, <2>1, <2>2
  <2>5. SubSeq(input, b + 1, b + u) = t
    BY <2>3, <2>4, Slice
  <2>6. EntrySize - 4 = u
    BY <1>0, <1>7
  <2>7. Value(at + 4, EntrySize - 4) = t
    BY <2>1, <2>5, <2>6 DEF Value
  <2> QED BY <2>2, <2>7 DEF PrintUUID
<1>10. /\ out' = Append(out, EntryTold(e)) /\ reach' = at + d /\ at' = at + d
       /\ UNCHANGED <<job, input, limit, nibble, end>>
  <2>1. reach < at + d
    BY <1>0, <1>4, <1>5b
  <2> QED BY <1>7, <1>8, <1>9, <2>1 DEF Service, EntryTold, Looks
<1>11a. PICK m \in 0 .. N : m = n + 1
  BY <1>5a
<1>11. m = n + 1 /\ at' = p + 4 + d * m /\ at' \in Nat
  <2>1. at' = a + d
    BY <1>5b, <1>10
  <2>2. a + d \in Nat /\ a + d = p + 4 + d * m
    BY <1>5, <1>11a
  <2> QED BY <1>11a, <2>1, <2>2
<1>12. out' = First(ServicesTold, m)
  <2>1. ServicesTold[n + 1] = EntryTold(e)
    <3>1. n + 1 \in 1 .. Len(job.entries)
      BY <1>2, <1>5a
    <3> QED BY <1>6, <3>1 DEF ServicesTold
  <2>2. n \in Nat
    BY <1>4
  <2>3. Append(First(ServicesTold, n), ServicesTold[n + 1]) = First(ServicesTold, n + 1)
    BY <2>2, FirstItems
  <2> QED BY <1>4, <1>10, <1>11, <2>1, <2>3
<1>13. Shaped'
  BY <1>10, <1>11 DEF Shaped, FromJob
<1>14. (\E k \in 0 .. Len(job.entries) :
          /\ at = Start + 4 + (4 + job.uuidLength) * k /\ reach = at /\ out = First(ServicesTold, k)
          /\ end = "running" \/ (end = "true" /\ k = Len(job.entries)))'
  <2>1. Start' = Start /\ ServicesTold' = ServicesTold
    BY <1>10 DEF Start, ServicesTold
  <2>2. /\ at' = Start' + 4 + (4 + job'.uuidLength) * m /\ reach' = at'
        /\ out' = First(ServicesTold', m) /\ end' = "running" /\ m \in 0 .. Len(job'.entries)
    BY <1>2, <1>3, <1>10, <1>11, <1>12, <2>1
  <2> QED BY <2>2, Zenon
<1>15. (nibble = 0 /\ limit = Len(Layout(job)))'
  BY <1>10 DEF ServicesInv
<1> QED BY <1>13, <1>14, <1>15 DEF ServicesInv

LEMMA ServicesEnded ==
  ASSUME Shaped, job.kind = "services", ServicesInv, ServicesEnd
  PROVE  Shaped' /\ ServicesInv'
<1>1. PICK N \in Nat, u \in Nat, d \in Nat, p \in {2, 3} : EntriesIn(N, u, d, p)
  BY ServicesAre DEF Shaped
<1>0. d = 4 + u /\ (d = 6 \/ d = 20) /\ p \in Nat
  BY <1>1 DEF EntriesIn
<1>2. /\ N = Len(job.entries) /\ u = job.uuidLength /\ d = 4 + u /\ p = Start
      /\ Len(Layout(job)) = p + 4 + d * N
  BY <1>1 DEF EntriesIn
<1>3. at > 0 /\ at >= limit /\ end = "running" /\ limit = p + 4 + d * N
  BY <1>2 DEF ServicesEnd, Does, ServicesInv
<1>4. PICK n \in 0 .. N : at = p + 4 + d * n /\ reach = at /\ out = First(ServicesTold, n)
  <2>1. at # 0
    BY <1>3 DEF Shaped
  <2> QED BY <1>2, <2>1, <1>3 DEF ServicesInv
<1>5. n = N
  <2>1. p + 4 + d * n >= p + 4 + d * N
    BY <1>3, <1>4
  <2>2. CASE d = 6
    BY <1>0, <2>1, <2>2
  <2>3. CASE d = 20
    BY <1>0, <2>1, <2>3
  <2> QED BY <1>0, <2>2, <2>3
<1>6. end' = "true" /\ at' = at /\ out' = out /\ UNCHANGED <<job, input, limit, reach, nibble>>
  BY DEF ServicesEnd, Ends
<1>7. Shaped'
  BY <1>6 DEF Shaped, FromJob
<1>8. (\E k \in 0 .. Len(job.entries) :
         /\ at = Start + 4 + (4 + job.uuidLength) * k /\ reach = at /\ out = First(ServicesTold, k)
         /\ end = "running" \/ (end = "true" /\ k = Len(job.entries)))'
  <2>1. Start' = Start /\ ServicesTold' = ServicesTold
    BY <1>6 DEF Start, ServicesTold
  <2>2. /\ at' = Start' + 4 + (4 + job'.uuidLength) * n /\ reach' = at'
        /\ out' = First(ServicesTold', n) /\ end' = "true" /\ n \in 0 .. Len(job'.entries)
        /\ n = Len(job'.entries)
    BY <1>2, <1>4, <1>5, <1>6, <2>1
  <2> QED BY <2>2, Zenon
<1>9. (nibble = 0 /\ limit = Len(Layout(job)))'
  BY <1>6 DEF ServicesInv
<1> QED BY <1>7, <1>8, <1>9 DEF ServicesInv

-----------------------------------------------------------------------------
(* Reports                                                                 *)

(* The numbers of the types of elements, without their names.              *)
LEMMA Types ==
  /\ AD.flags = 1 /\ AD.uuid16 = 2 /\ AD.shortName = 8 /\ AD.name = 9 /\ AD.power = 10
  /\ AD.interval = 18 /\ AD.manufacturer = 255
  /\ Units16 = {2, 18} /\ DOMAIN OneLength = {1, 2, 18}
  /\ OneLength[1] = 2 /\ OneLength[2] = 3 /\ OneLength[18] = 5
  /\ {AD[f] : f \in DOMAIN AD \ {"manufacturer"}} = {1, 2, 8, 9, 10, 18}
<1>1. /\ AD.flags = 1 /\ AD.uuid16 = 2 /\ AD.shortName = 8 /\ AD.name = 9 /\ AD.power = 10
      /\ AD.interval = 18 /\ AD.manufacturer = 255
  BY DEF AD
<1>2. Units16 = {2, 18} /\ DOMAIN OneLength = {1, 2, 18}
  BY <1>1 DEF Units16, OneLength
<1>3. OneLength[1] = 2 /\ OneLength[2] = 3 /\ OneLength[18] = 5
  BY <1>1 DEF OneLength
<1>4. DOMAIN AD \ {"manufacturer"} = {"flags", "uuid16", "shortName", "name", "power", "interval"}
  BY DEF AD
<1>5. {AD[f] : f \in DOMAIN AD \ {"manufacturer"}} = {1, 2, 8, 9, 10, 18}
  BY <1>1, <1>4
<1> QED BY <1>1, <1>2, <1>3, <1>5

(* The bytes of an element of n values, w of them behind length and type.  *)
BlockIs(e, n, w) ==
  LET b == ElementBytes(e) IN
    /\ b \in Seq(Octet) /\ Len(b) = w + 2 /\ w <= 253 /\ b[1] = w + 1 /\ b[2] = e[1]
    /\ e[1] \in Units16 =>
         w = 2 * n /\ \A i \in 1 .. n : b[2 * i + 1] = Lo(e[i + 1]) /\ b[2 * i + 2] = Hi(e[i + 1])
    /\ e[1] = 255 => w >= 2 /\ b[3] = Lo(e[2]) /\ b[4] = Hi(e[2])
    /\ e[1] \notin Units16 \cup {255} => w = n /\ \A i \in 1 .. n : b[i + 2] = Lo(e[i + 1])

(* The same of the values alone.                                           *)
ValueOf(e) ==
  IF e[1] \in Units16
  THEN FlattenSeq([i \in 1 .. Len(e) - 1 |-> Bytes16(e[i + 1])])
  ELSE IF e[1] = AD.manufacturer
  THEN Bytes16(e[2]) \o SubSeq(e, 3, Len(e))
  ELSE [i \in 1 .. Len(e) - 1 |-> Lo(e[i + 1])]

Counted(e, n) == Len(e) = n + 1

LEMMA ValueOfElement ==
  ASSUME NEW e, IsElement(e), NEW n \in Nat, Counted(e, n)
  PROVE  \E w \in Nat :
           /\ ValueOf(e) \in Seq(Octet) /\ Len(ValueOf(e)) = w
           /\ e[1] \in Units16 =>
                w = 2 * n /\ \A i \in 1 .. n : /\ ValueOf(e)[2 * (i - 1) + 1] = Lo(e[i + 1])
                                               /\ ValueOf(e)[2 * (i - 1) + 2] = Hi(e[i + 1])
           /\ e[1] = 255 => w >= 2 /\ ValueOf(e)[1] = Lo(e[2]) /\ ValueOf(e)[2] = Hi(e[2])
           /\ e[1] \notin Units16 \cup {255} => w = n /\ \A i \in 1 .. n : ValueOf(e)[i] = Lo(e[i + 1])
<1>1. e \in Seq(Int) /\ \A i \in 1 .. n : e[i + 1] \in Int
  <2>1. e \in Seq(Int)
    BY DEF IsElement
  <2>2. \A i \in 1 .. n : i + 1 \in 1 .. n + 1
    OBVIOUS
  <2> QED BY <2>1, <2>2 DEF Counted
<1>2. CASE e[1] \in Units16
  <2>1. PICK v : v = [i \in 1 .. n |-> e[i + 1]]
    OBVIOUS
  <2>2. \A i \in 1 .. n : v[i] \in Int /\ v[i] = e[i + 1]
    BY <1>1, <2>1
  <2>3. PICK bytes : bytes = ValueOf(e) /\ bytes = FlattenSeq([i \in 1 .. n |-> Bytes16(v[i])])
    <3>1. ValueOf(e) = FlattenSeq([i \in 1 .. Len(e) - 1 |-> Bytes16(e[i + 1])])
      BY <1>2 DEF ValueOf
    <3>2. Len(e) - 1 = n
      BY DEF Counted
    <3>3. [i \in 1 .. n |-> Bytes16(e[i + 1])] = [i \in 1 .. n |-> Bytes16(v[i])]
      BY <2>2
    <3> QED BY <3>1, <3>2, <3>3
  <2>4a. \A i \in 1 .. n : v[i] \in Int
    BY <2>2
  <2>4b. LET b == FlattenSeq([i \in 1 .. n |-> Bytes16(v[i])]) IN
           /\ b \in Seq(Octet) /\ Len(b) = 2 * n
           /\ \A i \in 1 .. n : b[2 * (i - 1) + 1] = Lo(v[i]) /\ b[2 * (i - 1) + 2] = Hi(v[i])
    BY <2>4a, Words
  <2>4. /\ bytes \in Seq(Octet) /\ Len(bytes) = 2 * n
        /\ \A i \in 1 .. n : bytes[2 * (i - 1) + 1] = Lo(v[i]) /\ bytes[2 * (i - 1) + 2] = Hi(v[i])
    BY <2>3, <2>4b
  <2>5. PICK w \in Nat : w = 2 * n
    OBVIOUS
  <2>6. e[1] # 255
    BY <1>2, Types
  <2>7. \A i \in 1 .. n : /\ ValueOf(e)[2 * (i - 1) + 1] = Lo(e[i + 1])
                          /\ ValueOf(e)[2 * (i - 1) + 2] = Hi(e[i + 1])
    BY <2>2, <2>3, <2>4
  <2> QED BY <1>2, <2>3, <2>4, <2>5, <2>6, <2>7
<1>3. CASE e[1] = 255
  <2>1. e[1] \notin Units16 /\ e[1] = AD.manufacturer
    BY <1>3, Types
  <2>2. ValueOf(e) = Bytes16(e[2]) \o SubSeq(e, 3, Len(e))
    BY <2>1 DEF ValueOf
  <2>3. n >= 1 /\ e[2] \in Int
    <3>1. Len(e) > 1
      BY <2>1 DEF IsElement
    <3>2. n >= 1 /\ 1 \in 1 .. n
      BY <3>1 DEF Counted
    <3> QED BY <1>1, <3>2
  <2>4. PICK l \in Nat, m \in Nat : l = 3 /\ m = n + 1
    OBVIOUS
  <2>5. \A i \in l .. m : e[i] \in Octet
    <3>1. \A i \in l .. m : i \in 2 .. m /\ i # 2
      BY <2>4
    <3>2. e[1] # AD.power
      BY <1>3, Types
    <3>3. m = Len(e)
      BY <2>4 DEF Counted
    <3>4. \A i \in 2 .. Len(e) :
            e[i] \in IF e[1] = AD.power THEN TwosComplement(256)
                    ELSE IF e[1] \in Units16 \/ (e[1] = AD.manufacturer /\ i = 2) THEN Word
                    ELSE Octet
      BY DEF IsElement
    <3> SUFFICES ASSUME NEW i \in l .. m PROVE e[i] \in Octet
      OBVIOUS
    <3>5. i \in 2 .. Len(e) /\ i # 2
      BY <3>1, <3>3
    <3> QED BY <2>1, <3>2, <3>4, <3>5
  <2>6. /\ SubSeq(e, l, m) \in Seq(Octet) /\ Len(SubSeq(e, l, m)) = IF l <= m THEN m - l + 1 ELSE 0
    BY <2>5, SubSeqProperties
  <2>7. PICK a, c \in Seq(Octet) : a = Bytes16(e[2]) /\ c = SubSeq(e, l, m)
    BY <2>3, <2>6, TwoBytes
  <2>8. Len(a) = 2 /\ a[1] = Lo(e[2]) /\ a[2] = Hi(e[2])
    BY <2>3, <2>7, TwoBytes
  <2>9a. PICK z \in Nat : z = Len(c)
    BY <2>7, LenProperties
  <2>9. PICK t \in Nat, w \in Nat : t = 2 /\ w = t + z
    OBVIOUS
  <2>10. Sized(a, c, t, z, w) /\ a \in Seq(Octet) /\ c \in Seq(Octet)
    BY <2>7, <2>8, <2>9, <2>9a DEF Sized
  <2>11. /\ Glue(a, c) \in Seq(Octet) /\ Len(Glue(a, c)) = w
         /\ \A k \in 1 .. t : Glue(a, c)[k] = a[k]
         /\ \A k \in 1 .. z : Glue(a, c)[t + k] = c[k]
    BY <2>10, GlueOf
  <2>12. ValueOf(e) = Glue(a, c)
    BY <2>2, <2>4, <2>7 DEF Glue, Counted
  <2>13. ValueOf(e)[1] = Lo(e[2]) /\ ValueOf(e)[2] = Hi(e[2])
    <3>1. 1 \in 1 .. t /\ 2 \in 1 .. t
      BY <2>9
    <3> QED BY <2>8, <2>11, <2>12, <3>1
  <2>14. w >= 2
    BY <2>9
  <2> QED BY <1>3, <2>1, <2>11, <2>12, <2>13, <2>14
<1>4. CASE e[1] \notin Units16 \cup {255}
  <2>1. e[1] \notin Units16 /\ e[1] # AD.manufacturer /\ e[1] # 255
    BY <1>4, Types
  <2>2. ValueOf(e) = [i \in 1 .. Len(e) - 1 |-> Lo(e[i + 1])]
    BY <2>1 DEF ValueOf
  <2>3. Len(e) - 1 = n
    BY DEF Counted
  <2>4. ValueOf(e) = [i \in 1 .. n |-> Lo(e[i + 1])]
    BY <2>2, <2>3
  <2>5. \A i \in 1 .. n : Lo(e[i + 1]) \in Octet
    BY <1>1, Word16
  <2>6. ValueOf(e) \in Seq(Octet) /\ Len(ValueOf(e)) = n
    BY <2>4, <2>5
  <2>7. \A i \in 1 .. n : ValueOf(e)[i] = Lo(e[i + 1])
    BY <2>4
  <2> QED BY <2>1, <2>6, <2>7
<1> QED BY <1>2, <1>3, <1>4

LEMMA ElementIs ==
  ASSUME NEW e, IsElement(e), NEW n \in Nat, Counted(e, n)
  PROVE  \E w \in Nat : BlockIs(e, n, w)
<1>1. PICK w \in Nat :
        /\ ValueOf(e) \in Seq(Octet) /\ Len(ValueOf(e)) = w
        /\ e[1] \in Units16 =>
             w = 2 * n /\ \A i \in 1 .. n : /\ ValueOf(e)[2 * (i - 1) + 1] = Lo(e[i + 1])
                                            /\ ValueOf(e)[2 * (i - 1) + 2] = Hi(e[i + 1])
        /\ e[1] = 255 => w >= 2 /\ ValueOf(e)[1] = Lo(e[2]) /\ ValueOf(e)[2] = Hi(e[2])
        /\ e[1] \notin Units16 \cup {255} => w = n /\ \A i \in 1 .. n : ValueOf(e)[i] = Lo(e[i + 1])
  BY ValueOfElement
<1>2. PICK v \in Seq(Octet) : v = ValueOf(e) /\ Len(v) = w
  BY <1>1
<1>3. PICK l \in Nat, m \in Nat, t \in Nat : l = w + 1 /\ m = w + 2 /\ t = 2
  OBVIOUS
<1>4. PICK h : h = <<l, e[1]>>
  OBVIOUS
<1>5. ElementBytes(e) = Glue(h, v)
  BY <1>2, <1>3, <1>4 DEF ElementBytes, ValueOf, Glue
<1>6. e[1] \in Octet /\ e[1] \in Int
  <2>1. e[1] \in Octet
    BY DEF IsElement
  <2> QED BY <2>1, Ranges
<1>7. w <= 253 /\ l \in Octet
  <2>1. PICK I : I = Int
    OBVIOUS
  <2>2. h \in Seq(I) /\ Len(h) = 2 /\ v \in Seq(I)
    BY <1>3, <1>4, <1>6, <2>1, OctetsAreInts
  <2>3. Sized(h, v, t, w, m) /\ h \in Seq(I) /\ v \in Seq(I)
    BY <1>2, <1>3, <2>2 DEF Sized
  <2>4. /\ Glue(h, v) \in Seq(I) /\ Len(Glue(h, v)) = m
        /\ \A k \in 1 .. t : Glue(h, v)[k] = h[k]
        /\ \A k \in 1 .. w : Glue(h, v)[t + k] = v[k]
    BY <2>3, GlueOf
  <2>5. Len(ElementBytes(e)) <= 255
    BY DEF IsElement
  <2>6. m <= 255
    BY <1>5, <2>4, <2>5
  <2>7. w <= 253 /\ l < 256
    BY <1>3, <2>6
  <2>8. l \in Octet
    BY <2>7, Ranges
  <2> QED BY <2>7, <2>8
<1>8. Sized(h, v, t, w, m) /\ h \in Seq(Octet) /\ v \in Seq(Octet) /\ h[1] = l /\ h[2] = e[1]
  BY <1>2, <1>3, <1>4, <1>6, <1>7 DEF Sized
<1>9. /\ Glue(h, v) \in Seq(Octet) /\ Len(Glue(h, v)) = m
      /\ \A k \in 1 .. t : Glue(h, v)[k] = h[k]
      /\ \A k \in 1 .. w : Glue(h, v)[t + k] = v[k]
  BY <1>8, GlueOf
<1>10. PICK b \in Seq(Octet) : /\ b = ElementBytes(e) /\ Len(b) = m /\ b[1] = l /\ b[2] = e[1]
                               /\ \A k \in 1 .. w : b[t + k] = v[k]
  <2>1. 1 \in 1 .. t /\ 2 \in 1 .. t
    BY <1>3
  <2> QED BY <1>5, <1>8, <1>9, <2>1
<1>11. ASSUME e[1] \in Units16
       PROVE  w = 2 * n /\ \A i \in 1 .. n : b[2 * i + 1] = Lo(e[i + 1]) /\ b[2 * i + 2] = Hi(e[i + 1])
  <2>1. w = 2 * n
    BY <1>1, <1>11
  <2> SUFFICES ASSUME NEW i \in 1 .. n PROVE b[2 * i + 1] = Lo(e[i + 1]) /\ b[2 * i + 2] = Hi(e[i + 1])
    BY <2>1
  <2>2. PICK x \in 1 .. w, y \in 1 .. w : /\ x = 2 * (i - 1) + 1 /\ y = 2 * (i - 1) + 2
                                          /\ t + x = 2 * i + 1 /\ t + y = 2 * i + 2
    <3>1. /\ 2 * (i - 1) + 1 \in 1 .. w /\ 2 * (i - 1) + 2 \in 1 .. w
          /\ t + (2 * (i - 1) + 1) = 2 * i + 1 /\ t + (2 * (i - 1) + 2) = 2 * i + 2
      BY <1>3, <2>1
    <3> QED BY <3>1
  <2>3. v[x] = Lo(e[i + 1]) /\ v[y] = Hi(e[i + 1])
    BY <1>1, <1>2, <1>11, <2>2
  <2> QED BY <1>10, <2>2, <2>3
<1>12. ASSUME e[1] = 255 PROVE w >= 2 /\ b[3] = Lo(e[2]) /\ b[4] = Hi(e[2])
  <2>1. w >= 2 /\ v[1] = Lo(e[2]) /\ v[2] = Hi(e[2])
    BY <1>1, <1>2, <1>12
  <2>2. 1 \in 1 .. w /\ 2 \in 1 .. w /\ t + 1 = 3 /\ t + 2 = 4
    BY <1>3, <2>1
  <2> QED BY <1>10, <2>1, <2>2
<1>13. ASSUME e[1] \notin Units16 \cup {255}
       PROVE  w = n /\ \A i \in 1 .. n : b[i + 2] = Lo(e[i + 1])
  <2>1. w = n
    BY <1>1, <1>13
  <2> SUFFICES ASSUME NEW i \in 1 .. n PROVE b[i + 2] = Lo(e[i + 1])
    BY <2>1
  <2>2. i \in 1 .. w /\ t + i = i + 2
    BY <1>3, <2>1
  <2>3. v[i] = Lo(e[i + 1])
    BY <1>1, <1>2, <1>13
  <2> QED BY <1>10, <2>2, <2>3
<1>14. Len(b) = w + 2 /\ b[1] = w + 1
  BY <1>3, <1>10
<1> QED BY <1>7, <1>10, <1>11, <1>12, <1>13, <1>14 DEF BlockIs

(* An element in memory, at a.                                             *)
InMemory(a, e, w) ==
  /\ input \in Seq(Octet) /\ a + w + 2 <= Len(input)
  /\ \A k \in 1 .. w + 2 : input[a + k] = ElementBytes(e)[k]

LEMMA ElementInMemory ==
  ASSUME NEW a \in Nat, NEW e, NEW n \in Nat, NEW w \in Nat, BlockIs(e, n, w), InMemory(a, e, w)
  PROVE  /\ Byte(a) = w + 1 /\ Byte(a + 1) = e[1]
         /\ e[1] \in Units16 => \A i \in 1 .. n : /\ Byte(a + 2 * i) = Lo(e[i + 1])
                                                  /\ Byte(a + 2 * i + 1) = Hi(e[i + 1])
         /\ e[1] = 255 => Byte(a + 2) = Lo(e[2]) /\ Byte(a + 3) = Hi(e[2])
         /\ e[1] \notin Units16 \cup {255} => \A i \in 1 .. n : Byte(a + i + 1) = Lo(e[i + 1])
<1>1. PICK b : b = ElementBytes(e)
  OBVIOUS
<1>2. \A k \in 1 .. w + 2 : input[a + k] = b[k]
  BY <1>1 DEF InMemory
<1>3. Byte(a) = w + 1
  <2>1. 1 \in 1 .. w + 2
    OBVIOUS
  <2> QED BY <1>1, <1>2, <2>1 DEF Byte, BlockIs
<1>4. Byte(a + 1) = e[1]
  <2>1. 2 \in 1 .. w + 2 /\ (a + 1) + 1 = a + 2
    OBVIOUS
  <2> QED BY <1>1, <1>2, <2>1 DEF Byte, BlockIs
<1>5. ASSUME e[1] \in Units16, NEW i \in 1 .. n
      PROVE  Byte(a + 2 * i) = Lo(e[i + 1]) /\ Byte(a + 2 * i + 1) = Hi(e[i + 1])
  <2>1. w = 2 * n /\ b[2 * i + 1] = Lo(e[i + 1]) /\ b[2 * i + 2] = Hi(e[i + 1])
    BY <1>1, <1>5 DEF BlockIs
  <2>2. PICK x \in 1 .. w + 2, y \in 1 .. w + 2 : /\ x = 2 * i + 1 /\ y = 2 * i + 2
                                                  /\ a + x = a + 2 * i + 1 /\ a + y = a + 2 * i + 1 + 1
    <3>1. /\ 2 * i + 1 \in 1 .. w + 2 /\ 2 * i + 2 \in 1 .. w + 2
          /\ a + (2 * i + 1) = a + 2 * i + 1 /\ a + (2 * i + 2) = a + 2 * i + 1 + 1
      BY <2>1
    <3> QED BY <3>1
  <2> QED BY <1>2, <2>1, <2>2 DEF Byte
<1>6. ASSUME e[1] = 255 PROVE Byte(a + 2) = Lo(e[2]) /\ Byte(a + 3) = Hi(e[2])
  <2>1. w >= 2 /\ b[3] = Lo(e[2]) /\ b[4] = Hi(e[2])
    BY <1>1, <1>6 DEF BlockIs
  <2>2. 3 \in 1 .. w + 2 /\ 4 \in 1 .. w + 2 /\ (a + 2) + 1 = a + 3 /\ (a + 3) + 1 = a + 4
    BY <2>1
  <2> QED BY <1>2, <2>1, <2>2 DEF Byte
<1>7. ASSUME e[1] \notin Units16 \cup {255}, NEW i \in 1 .. n PROVE Byte(a + i + 1) = Lo(e[i + 1])
  <2>1. w = n /\ b[i + 2] = Lo(e[i + 1])
    BY <1>1, <1>7 DEF BlockIs
  <2>2. i + 2 \in 1 .. w + 2 /\ a + i + 1 + 1 = a + (i + 2)
    BY <2>1
  <2> QED BY <1>2, <2>1, <2>2 DEF Byte
<1> QED BY <1>3, <1>4, <1>5, <1>6, <1>7

(* What is told of an element, by its type.                                *)
LEMMA ToldOf ==
  ASSUME NEW length, NEW i
  PROVE  /\ Told(1, length, i) = <<Byte(i)>>
         /\ Told(10, length, i) = <<Signed(Byte(i), 256)>>
         /\ Told(18, length, i) = <<Value16(i), Value16(i + 2)>>
         /\ Told(2, length, i) = <<Value16(i)>>
         /\ Told(255, length, i) = <<Value16(i)>>
         /\ \A type \in {8, 9} : Told(type, length, i) = Value(i, length - 1)
BY Types DEF Told, NameLength

LEMMA NothingToldOf ==
  ASSUME NEW type, type \notin {1, 2, 8, 9, 10, 18, 255}, NEW length, NEW i
  PROVE  Told(type, length, i) = <<>>
BY Types DEF Told

LEMMA UsesOf ==
  ASSUME NEW length \in Nat, length > 0
  PROVE  /\ Uses(1, length) = 1 /\ Uses(10, length) = 1
         /\ Uses(2, length) = 2 /\ Uses(255, length) = 2 /\ Uses(18, length) = 4
         /\ \A type \in {8, 9} : Uses(type, length) = length - 1
BY Types DEF Uses, NameLength

LEMMA NothingUsedOf ==
  ASSUME NEW type, type \notin {1, 2, 8, 9, 10, 18, 255}, NEW length
  PROVE  Uses(type, length) = 0
BY Types DEF Uses

(* A sequence is its first element and the rest.                           *)
RestOf(e, t, n) == Len(e) = n + 1 /\ Len(t) = n /\ \A i \in 1 .. n : t[i] = e[i + 1]

LEMMA FirstAndRest ==
  ASSUME NEW S, NEW e \in Seq(S), NEW n \in Nat, NEW t \in Seq(S), RestOf(e, t, n)
  PROVE  <<e[1]>> \o t = e
<1>0. Len(e) = n + 1 /\ Len(t) = n /\ \A i \in 1 .. n : t[i] = e[i + 1]
  BY DEF RestOf
<1>1. PICK x \in S : x = e[1]
  <2>1. 1 \in 1 .. n + 1
    OBVIOUS
  <2> QED BY <1>0, <2>1
<1>2a. PICK h : h = <<x>>
  OBVIOUS
<1>2. h \in Seq(S) /\ h = <<x>> /\ Len(h) = 1 /\ h[1] = x
  BY <1>2a
<1>3. PICK k \in Nat, w \in Nat : k = 1 /\ w = n + 1
  OBVIOUS
<1>4. Sized(h, t, k, n, w) /\ h \in Seq(S)
  BY <1>0, <1>2, <1>3 DEF Sized
<1>5. /\ Glue(h, t) \in Seq(S) /\ Len(Glue(h, t)) = w
      /\ \A i \in 1 .. k : Glue(h, t)[i] = h[i]
      /\ \A i \in 1 .. n : Glue(h, t)[k + i] = t[i]
  BY <1>4, GlueOf
<1>6. PICK g \in Seq(S) : g = Glue(h, t)
  BY <1>5
<1>7. ASSUME NEW i \in 1 .. w PROVE g[i] = e[i]
  <2>1. CASE i = 1
    <3>1. 1 \in 1 .. k
      BY <1>3
    <3> QED BY <1>1, <1>2, <1>5, <1>6, <2>1, <3>1
  <2>2. CASE i # 1
    <3>1. PICK m \in 1 .. n : m = i - 1 /\ k + m = i /\ m + 1 = i
      <4>1. i - 1 \in 1 .. n /\ k + (i - 1) = i /\ (i - 1) + 1 = i
        BY <1>3, <2>2
      <4> QED BY <4>1
    <3> QED BY <1>0, <1>5, <1>6, <3>1
  <2> QED BY <2>1, <2>2
<1>8. Len(g) = w /\ Len(e) = w
  BY <1>0, <1>3, <1>5, <1>6
<1>9. g = e
  BY <1>7, <1>8, SeqEqual
<1> QED BY <1>1, <1>2, <1>6, <1>9 DEF Glue

(* The same of a sequence cut off behind some element.                     *)
SomeOf(e, t, m) == m + 1 <= Len(e) /\ Len(t) = m /\ \A i \in 1 .. m : t[i] = e[i + 1]

LEMMA FirstAndSome ==
  ASSUME NEW S, NEW e \in Seq(S), NEW m \in Nat, NEW t \in Seq(S), SomeOf(e, t, m)
  PROVE  <<e[1]>> \o t = SubSeq(e, 1, m + 1) /\ SubSeq(e, 1, m + 1) \in Seq(S)
<1>0. m + 1 <= Len(e) /\ Len(t) = m /\ \A i \in 1 .. m : t[i] = e[i + 1]
  BY DEF SomeOf
<1>1. PICK f : f = SubSeq(e, 1, m + 1)
  OBVIOUS
<1>2. \A i \in 1 .. m + 1 : e[i] \in S
  BY <1>0, LenProperties, ElementOfSeq
<1>3. /\ f \in Seq(S) /\ Len(f) = m + 1 /\ \A i \in 1 .. m + 1 : f[i] = e[i]
  <2>1. PICK k \in Nat, z \in Nat : k = m + 1 /\ z = 1 /\ z <= k /\ k - z + 1 = k
    OBVIOUS
  <2>2. /\ SubSeq(e, z, k) \in Seq(S) /\ Len(SubSeq(e, z, k)) = k
        /\ \A i \in 1 .. k : SubSeq(e, z, k)[i] = e[z + i - 1]
    <3>1. \A i \in z .. k : e[i] \in S
      BY <1>2, <2>1
    <3> QED BY <1>0, <2>1, <3>1, SubSeqProperties
  <2>3. \A i \in 1 .. k : z + i - 1 = i
    BY <2>1
  <2> QED BY <1>1, <2>1, <2>2, <2>3
<1>4. RestOf(f, t, m)
  <2>1. \A i \in 1 .. m : i + 1 \in 1 .. m + 1
    OBVIOUS
  <2> QED BY <1>0, <1>3, <2>1 DEF RestOf
<1>5. <<f[1]>> \o t = f
  BY <1>3, <1>4, FirstAndRest
<1>6. f[1] = e[1]
  <2>1. 1 \in 1 .. m + 1
    OBVIOUS
  <2> QED BY <1>3, <2>1
<1> QED BY <1>1, <1>3, <1>5, <1>6

(* What the code reports of elements, by their types.                      *)
LEMMA ReportedOf ==
  ASSUME NEW e
  PROVE  /\ e[1] \in {1, 2, 8, 9, 10, 18} => Reported(e) = e
         /\ e[1] = 255 => Reported(e) = SubSeq(e, 1, 2)
         /\ e[1] \notin {1, 2, 8, 9, 10, 18, 255} => Reported(e) = SubSeq(e, 1, 1)
<1>1. PICK known : known = {AD[f] : f \in DOMAIN AD \ {"manufacturer"}}
  OBVIOUS
<1>2. Reported(e) = CASE e[1] = 255 -> SubSeq(e, 1, 2)
                      [] e[1] \in known -> e
                      [] OTHER -> SubSeq(e, 1, 1)
  BY <1>1, Types, Zenon DEF Reported
<1>3. known = {1, 2, 8, 9, 10, 18}
  BY <1>1, Types, Zenon
<1>4. ASSUME e[1] \in {1, 2, 8, 9, 10, 18} PROVE e[1] \in known /\ e[1] # 255
  BY <1>3, <1>4
<1>5. ASSUME e[1] \notin {1, 2, 8, 9, 10, 18, 255} PROVE e[1] \notin known /\ e[1] # 255
  BY <1>3, <1>5
<1>6. e[1] = 255 => Reported(e) = SubSeq(e, 1, 2)
  BY <1>2, <1>3
<1>7. e[1] \in known /\ e[1] # 255 => Reported(e) = e
  BY <1>2, SMT
<1>8. e[1] \notin known /\ e[1] # 255 => Reported(e) = SubSeq(e, 1, 1)
  BY <1>2, SMT
<1> QED BY <1>4, <1>5, <1>6, <1>7, <1>8

(* The elements of which the code asserts the length have that length.     *)
LengthKnown(e, w) == e[1] \in DOMAIN OneLength => w + 1 = OneLength[e[1]]

LEMMA ElementTold ==
  ASSUME NEW a \in Nat, NEW e, NEW n \in Nat, NEW w \in Nat, BlockIs(e, n, w), InMemory(a, e, w),
         IsElement(e), Counted(e, n), LengthKnown(e, w)
  PROVE  /\ <<e[1]>> \o Told(e[1], w + 1, a + 2) = Reported(e) /\ Reported(e) \in Seq(Int)
         /\ Uses(e[1], w + 1) \in 0 .. w
<1>1. /\ Byte(a) = w + 1 /\ Byte(a + 1) = e[1]
      /\ e[1] \in Units16 => \A i \in 1 .. n : /\ Byte(a + 2 * i) = Lo(e[i + 1])
                                               /\ Byte(a + 2 * i + 1) = Hi(e[i + 1])
      /\ e[1] = 255 => Byte(a + 2) = Lo(e[2]) /\ Byte(a + 3) = Hi(e[2])
      /\ e[1] \notin Units16 \cup {255} => \A i \in 1 .. n : Byte(a + i + 1) = Lo(e[i + 1])
  BY ElementInMemory
<1>2. /\ e \in Seq(Int) /\ e[1] \in Int /\ \A i \in 1 .. n : e[i + 1] \in Int
  <2>1. e \in Seq(Int)
    BY DEF IsElement
  <2>2. 1 \in 1 .. n + 1 /\ \A i \in 1 .. n : i + 1 \in 1 .. n + 1
    OBVIOUS
  <2> QED BY <2>1, <2>2 DEF Counted
<1>3. /\ e[1] \in {1, 2, 8, 9, 10, 18} => Reported(e) = e
      /\ e[1] = 255 => Reported(e) = SubSeq(e, 1, 2)
      /\ e[1] \notin {1, 2, 8, 9, 10, 18, 255} => Reported(e) = SubSeq(e, 1, 1)
  BY ReportedOf, Zenon
<1>4. PICK l \in Nat, b \in Nat : l = w + 1 /\ b = a + 2 /\ l > 0
  OBVIOUS
<1>5. ASSUME NEW t, t \in Seq(Int), Len(t) = n, \A i \in 1 .. n : t[i] = e[i + 1]
      PROVE  <<e[1]>> \o t = e
  <2>1. PICK I : I = Int
    OBVIOUS
  <2>2. t \in Seq(I) /\ e \in Seq(I) /\ RestOf(e, t, n)
    BY <1>2, <1>5, <2>1 DEF Counted, RestOf
  <2> QED BY <1>5, <2>2, FirstAndRest
<1>6. e[1] \notin Units16 /\ e[1] # 255 => w = n
  BY DEF BlockIs
<1>7. CASE e[1] = 1
  <2>1. w = 1 /\ n = 1
    <3>1. w + 1 = 2
      BY <1>7, Types DEF LengthKnown
    <3> QED BY <1>6, <1>7, <3>1, Types
  <2>2. Byte(b) = e[2]
    <3>1. e[2] \in Octet
      <4>1. 2 \in 2 .. Len(e) /\ e[1] # AD.power /\ e[1] \notin Units16 /\ e[1] # AD.manufacturer
        BY <1>7, <2>1, Types DEF Counted
      <4> QED BY <4>1 DEF IsElement
    <3>2. Byte(a + 1 + 1) = Lo(e[1 + 1])
      BY <1>1, <1>7, <2>1, Types
    <3>3. a + 1 + 1 = b
      BY <1>4
    <3>4. e[2] \in Int
      BY <3>1, Ranges
    <3> QED BY <3>1, <3>2, <3>3, <3>4, Byte8
  <2>3. PICK t : t = Told(e[1], l, b) /\ t = <<e[2]>>
    BY <1>7, <2>2, ToldOf
  <2>4. t \in Seq(Int) /\ Len(t) = n /\ \A i \in 1 .. n : t[i] = e[i + 1]
    BY <1>2, <2>1, <2>3
  <2>5. <<e[1]>> \o t = e
    BY <1>5, <2>4
  <2>6. Uses(e[1], l) \in 0 .. w
    BY <1>4, <1>7, <2>1, UsesOf
  <2> QED BY <1>2, <1>3, <1>4, <1>7, <2>3, <2>5, <2>6
<1>8. CASE e[1] = 10
  <2>1. w = 1 /\ n = 1
    <3>1. Len(e) = 2
      BY <1>8, Types DEF IsElement
    <3>2. n + 1 = 2
      BY <3>1, Zenon DEF Counted
    <3>3. e[1] \notin Units16 /\ e[1] # 255
      BY <1>8, Types
    <3> QED BY <1>6, <3>2, <3>3
  <2>2. Signed(Byte(b), 256) = e[2]
    <3>1. e[2] \in TwosComplement(256)
      <4>1. 2 \in 2 .. Len(e) /\ e[1] = AD.power
        BY <1>8, <2>1, Types DEF Counted
      <4> QED BY <4>1 DEF IsElement
    <3>2. Byte(a + 1 + 1) = Lo(e[1 + 1])
      BY <1>1, <1>8, <2>1, Types
    <3>3. a + 1 + 1 = b
      BY <1>4
    <3>4. e[2] \in Int
      BY <3>1, Ranges
    <3> QED BY <3>1, <3>2, <3>3, <3>4, Byte8
  <2>3. PICK t : t = Told(e[1], l, b) /\ t = <<e[2]>>
    BY <1>8, <2>2, ToldOf
  <2>4. t \in Seq(Int) /\ Len(t) = n /\ \A i \in 1 .. n : t[i] = e[i + 1]
    BY <1>2, <2>1, <2>3
  <2>5. <<e[1]>> \o t = e
    BY <1>5, <2>4
  <2>6. Uses(e[1], l) \in 0 .. w
    BY <1>4, <1>8, <2>1, UsesOf
  <2> QED BY <1>2, <1>3, <1>4, <1>8, <2>3, <2>5, <2>6
<1>9. CASE e[1] \in {8, 9}
  <2>1. w = n /\ l - 1 = n /\ e[1] # AD.power /\ e[1] \notin Units16 /\ e[1] # AD.manufacturer /\ e[1] # 255
    BY <1>4, <1>6, <1>9, Types
  <2>2. PICK t : t = [i \in 1 .. n |-> e[i + 1]]
    OBVIOUS
  <2>3. ASSUME NEW i \in 1 .. n PROVE t[i] \in Octet /\ input[b + i] = t[i]
    <3>1. PICK k \in 2 .. Len(e) : k = i + 1
      BY DEF Counted
    <3>2. e[k] \in Octet
      BY <2>1 DEF IsElement
    <3>3. Lo(e[k]) = e[k]
      BY <1>2, <3>1, <3>2, Byte8
    <3>4. Byte(a + i + 1) = Lo(e[i + 1])
      BY <1>1, <2>1
    <3>5. a + i + 1 + 1 = b + i
      BY <1>4
    <3> QED BY <2>2, <3>1, <3>2, <3>3, <3>4, <3>5 DEF Byte
  <2>4. t \in Seq(Octet) /\ Len(t) = n
    BY <2>2, <2>3
  <2>5. b + n <= Len(input) /\ input \in Seq(Octet)
    BY <1>4, <2>1 DEF InMemory
  <2>6. SubSeq(input, b + 1, b + n) = t
    BY <2>3, <2>4, <2>5, Slice
  <2>7. Told(e[1], l, b) = t
    <3>1. Told(e[1], l, b) = Value(b, l - 1)
      BY <1>9, ToldOf
    <3> QED BY <2>1, <2>6, <3>1 DEF Value
  <2>8. t \in Seq(Int) /\ Len(t) = n /\ \A i \in 1 .. n : t[i] = e[i + 1]
    BY <2>2, <2>4, OctetsAreInts
  <2>9. <<e[1]>> \o t = e
    BY <1>5, <2>8
  <2>10. Uses(e[1], l) \in 0 .. w
    BY <1>4, <1>9, <2>1, UsesOf
  <2> QED BY <1>2, <1>3, <1>4, <1>9, <2>7, <2>9, <2>10
<1>10. CASE e[1] = 2
  <2>1. w = 2 /\ n = 1
    <3>1. w + 1 = 3
      BY <1>10, Types DEF LengthKnown
    <3>2. w = 2 * n
      BY <1>10, Types DEF BlockIs
    <3> QED BY <3>1, <3>2
  <2>2. Value16(b) = e[2]
    <3>1. e[2] \in Word
      <4>1. 2 \in 2 .. Len(e) /\ e[1] # AD.power /\ e[1] \in Units16
        BY <1>10, <2>1, Types DEF Counted
      <4> QED BY <4>1 DEF IsElement
    <3>2. Byte(a + 2 * 1) = Lo(e[1 + 1]) /\ Byte(a + 2 * 1 + 1) = Hi(e[1 + 1])
      BY <1>1, <1>10, <2>1, Types
    <3>3. a + 2 * 1 = b /\ a + 2 * 1 + 1 = b + 1
      BY <1>4
    <3>4. e[2] \in Int
      BY <3>1, Ranges
    <3> QED BY <3>1, <3>2, <3>3, <3>4, Word16 DEF Value16
  <2>3. PICK t : t = Told(e[1], l, b) /\ t = <<e[2]>>
    BY <1>10, <2>2, ToldOf
  <2>4. t \in Seq(Int) /\ Len(t) = n /\ \A i \in 1 .. n : t[i] = e[i + 1]
    BY <1>2, <2>1, <2>3
  <2>5. <<e[1]>> \o t = e
    BY <1>5, <2>4
  <2>6. Uses(e[1], l) \in 0 .. w
    BY <1>4, <1>10, <2>1, UsesOf
  <2> QED BY <1>2, <1>3, <1>4, <1>10, <2>3, <2>5, <2>6
<1>11. CASE e[1] = 18
  <2>1. w = 4 /\ n = 2
    <3>1. w + 1 = 5
      BY <1>11, Types DEF LengthKnown
    <3>2. w = 2 * n
      BY <1>11, Types DEF BlockIs
    <3> QED BY <3>1, <3>2
  <2>2. e[2] \in Word /\ e[3] \in Word /\ e[2] \in Int /\ e[3] \in Int
    <3>1. 2 \in 2 .. Len(e) /\ 3 \in 2 .. Len(e) /\ e[1] # AD.power /\ e[1] \in Units16
      BY <1>11, <2>1, Types DEF Counted
    <3>2. e[2] \in Word /\ e[3] \in Word
      BY <3>1 DEF IsElement
    <3> QED BY <3>2, Ranges
  <2>3. Value16(b) = e[2] /\ Value16(b + 2) = e[3]
    <3>1. /\ Byte(a + 2 * 1) = Lo(e[1 + 1]) /\ Byte(a + 2 * 1 + 1) = Hi(e[1 + 1])
          /\ Byte(a + 2 * 2) = Lo(e[2 + 1]) /\ Byte(a + 2 * 2 + 1) = Hi(e[2 + 1])
      BY <1>1, <1>11, <2>1, Types
    <3>2. /\ a + 2 * 1 = b /\ a + 2 * 1 + 1 = b + 1
          /\ a + 2 * 2 = b + 2 /\ a + 2 * 2 + 1 = (b + 2) + 1
      BY <1>4
    <3>3. /\ Byte(b) = Lo(e[2]) /\ Byte(b + 1) = Hi(e[2])
          /\ Byte(b + 2) = Lo(e[3]) /\ Byte((b + 2) + 1) = Hi(e[3])
      BY <3>1, <3>2
    <3>4. /\ Lo(e[2]) + 256 * Hi(e[2]) = e[2] /\ Lo(e[3]) + 256 * Hi(e[3]) = e[3]
      BY <2>2, Word16
    <3>5. /\ Value16(b) = Byte(b) + 256 * Byte(b + 1)
          /\ Value16(b + 2) = Byte(b + 2) + 256 * Byte((b + 2) + 1)
      BY DEF Value16
    <3> QED BY <3>3, <3>4, <3>5
  <2>4. PICK t : t = Told(e[1], l, b) /\ t = <<e[2], e[3]>>
    BY <1>11, <2>3, ToldOf
  <2>5. t \in Seq(Int) /\ Len(t) = n /\ \A i \in 1 .. n : t[i] = e[i + 1]
    BY <2>1, <2>2, <2>4
  <2>6. <<e[1]>> \o t = e
    BY <1>5, <2>5
  <2>7. Uses(e[1], l) \in 0 .. w
    BY <1>4, <1>11, <2>1, UsesOf
  <2> QED BY <1>2, <1>3, <1>4, <1>11, <2>4, <2>6, <2>7
<1>12. CASE e[1] = 255
  <2>1. w >= 2 /\ n >= 1
    <3>1. Len(e) > 1
      BY <1>12, Types DEF IsElement
    <3> QED BY <1>12, <3>1 DEF BlockIs, Counted
  <2>2. Value16(b) = e[2] /\ e[2] \in Int
    <3>1. e[2] \in Word
      <4>1. 2 \in 2 .. Len(e) /\ e[1] # AD.power /\ e[1] = AD.manufacturer
        BY <1>12, <2>1, Types DEF Counted
      <4> QED BY <4>1 DEF IsElement
    <3>2. Byte(a + 2) = Lo(e[2]) /\ Byte(a + 3) = Hi(e[2])
      BY <1>1, <1>12
    <3>3. a + 2 = b /\ a + 3 = b + 1
      BY <1>4
    <3>4. e[2] \in Int
      BY <3>1, Ranges
    <3> QED BY <3>1, <3>2, <3>3, <3>4, Word16 DEF Value16
  <2>3. Told(e[1], l, b) = <<e[2]>>
    BY <1>12, <2>2, ToldOf
  <2>4. PICK I : I = Int
    OBVIOUS
  <2>5. PICK t, m : t = <<e[2]>> /\ m = 1
    OBVIOUS
  <2>6. /\ m \in Nat /\ e \in Seq(I) /\ t \in Seq(I) /\ SomeOf(e, t, m)
    BY <1>2, <2>1, <2>2, <2>4, <2>5 DEF Counted, SomeOf
  <2>7. <<e[1]>> \o t = SubSeq(e, 1, m + 1) /\ SubSeq(e, 1, m + 1) \in Seq(I)
    BY <2>6, FirstAndSome
  <2>8. m + 1 = 2
    BY <2>5
  <2>9. Uses(e[1], l) = 2
    BY <1>4, <1>12, UsesOf
  <2>10. Uses(e[1], l) \in 0 .. w
    BY <2>1, <2>9
  <2>11. <<e[1]>> \o Told(e[1], l, b) = SubSeq(e, 1, 2) /\ SubSeq(e, 1, 2) \in Seq(Int)
    BY <2>3, <2>4, <2>5, <2>7, <2>8, Zenon
  <2> QED BY <1>3, <1>4, <1>12, <2>10, <2>11
<1>13. CASE e[1] \notin {1, 2, 8, 9, 10, 18, 255}
  <2>1. Told(e[1], l, b) = <<>>
    BY <1>13, NothingToldOf, Zenon
  <2>2. PICK I : I = Int
    OBVIOUS
  <2>3. PICK t, m : t = <<>> /\ m = 0
    OBVIOUS
  <2>4. /\ m \in Nat /\ e \in Seq(I) /\ t \in Seq(I) /\ SomeOf(e, t, m)
    BY <1>2, <2>2, <2>3 DEF Counted, SomeOf
  <2>5. <<e[1]>> \o t = SubSeq(e, 1, m + 1) /\ SubSeq(e, 1, m + 1) \in Seq(I)
    BY <2>4, FirstAndSome
  <2>6. m + 1 = 1
    BY <2>3
  <2>7. Uses(e[1], l) = 0
    BY <1>13, NothingUsedOf, Zenon
  <2>8. Uses(e[1], l) \in 0 .. w
    BY <2>7
  <2>9. <<e[1]>> \o Told(e[1], l, b) = SubSeq(e, 1, 1) /\ SubSeq(e, 1, 1) \in Seq(Int)
    BY <2>1, <2>2, <2>3, <2>5, <2>6, Zenon
  <2>10. Reported(e) = SubSeq(e, 1, 1)
    BY <1>3, <1>13, Zenon
  <2> QED BY <1>4, <2>8, <2>9, <2>10
<1> QED BY <1>7, <1>8, <1>9, <1>10, <1>11, <1>12, <1>13

(* Four sequences one behind the other.                                    *)
Parts(S, a, b, c, t, i, j, k, l, p, q, r) ==
  /\ a \in Seq(S) /\ b \in Seq(S) /\ c \in Seq(S) /\ t \in Seq(S)
  /\ i \in Nat /\ j \in Nat /\ k \in Nat /\ l \in Nat /\ p \in Nat /\ q \in Nat /\ r \in Nat
  /\ Len(a) = i /\ Len(b) = j /\ Len(c) = k /\ Len(t) = l
  /\ p = i + j /\ q = p + k /\ r = q + l

FourParts(a, b, c, t) == Glue(Glue(Glue(a, b), c), t)

(* Such a sequence f, as the lemmas below need it.                         *)
Joins(S, f, a, b, c, t, i, j, k, l, p, q, r) ==
  /\ f \in Seq(S) /\ Len(f) = r
  /\ \A n \in 1 .. i : f[n] = a[n]
  /\ \A n \in 1 .. j : f[i + n] = b[n]
  /\ \A n \in 1 .. k : f[p + n] = c[n]
  /\ \A n \in 1 .. l : f[q + n] = t[n]

LEMMA FourPartsAre ==
  ASSUME NEW S, NEW a, NEW b, NEW c, NEW t, NEW i, NEW j, NEW k, NEW l, NEW p, NEW q, NEW r,
         Parts(S, a, b, c, t, i, j, k, l, p, q, r)
  PROVE  Joins(S, FourParts(a, b, c, t), a, b, c, t, i, j, k, l, p, q, r)
<1>0. /\ a \in Seq(S) /\ b \in Seq(S) /\ c \in Seq(S) /\ t \in Seq(S)
      /\ i \in Nat /\ j \in Nat /\ k \in Nat /\ l \in Nat /\ p \in Nat /\ q \in Nat /\ r \in Nat
  BY DEF Parts
<1>1. p = i + j /\ q = p + k /\ r = q + l
  BY DEF Parts
<1>2. Sized(a, b, i, j, p)
  BY DEF Parts, Sized
<1>3. PICK g \in Seq(S) : /\ g = Glue(a, b) /\ Len(g) = p
                          /\ \A n \in 1 .. i : g[n] = a[n]
                          /\ \A n \in 1 .. j : g[i + n] = b[n]
  <2>1. /\ Sized(a, b, i, j, p) /\ a \in Seq(S) /\ b \in Seq(S)
        /\ i \in Nat /\ j \in Nat /\ p \in Nat
    BY <1>0, <1>2
  <2>2. /\ Glue(a, b) \in Seq(S) /\ Len(Glue(a, b)) = p
        /\ \A n \in 1 .. i : Glue(a, b)[n] = a[n]
        /\ \A n \in 1 .. j : Glue(a, b)[i + n] = b[n]
    BY <2>1, GlueOf
  <2> QED BY <2>2
<1>4. Sized(g, c, p, k, q)
  BY <1>3 DEF Parts, Sized
<1>5. PICK h \in Seq(S) : /\ h = Glue(g, c) /\ Len(h) = q
                          /\ \A n \in 1 .. p : h[n] = g[n]
                          /\ \A n \in 1 .. k : h[p + n] = c[n]
  <2>1. /\ Sized(g, c, p, k, q) /\ g \in Seq(S) /\ c \in Seq(S)
        /\ p \in Nat /\ k \in Nat /\ q \in Nat
    BY <1>0, <1>3, <1>4
  <2>2. /\ Glue(g, c) \in Seq(S) /\ Len(Glue(g, c)) = q
        /\ \A n \in 1 .. p : Glue(g, c)[n] = g[n]
        /\ \A n \in 1 .. k : Glue(g, c)[p + n] = c[n]
    BY <2>1, GlueOf
  <2> QED BY <2>2
<1>6. Sized(h, t, q, l, r) /\ h \in Seq(S) /\ t \in Seq(S) /\ q \in Nat /\ l \in Nat /\ r \in Nat
  BY <1>0, <1>5 DEF Parts, Sized
<1>7a. /\ Glue(h, t) \in Seq(S) /\ Len(Glue(h, t)) = r
       /\ \A n \in 1 .. q : Glue(h, t)[n] = h[n]
       /\ \A n \in 1 .. l : Glue(h, t)[q + n] = t[n]
  BY <1>6, GlueOf
<1>7. PICK f \in Seq(S) : /\ f = Glue(h, t) /\ Len(f) = r
                          /\ \A n \in 1 .. q : f[n] = h[n]
                          /\ \A n \in 1 .. l : f[q + n] = t[n]
  BY <1>7a
<1>8. f = FourParts(a, b, c, t)
  BY <1>3, <1>5, <1>7 DEF FourParts
<1>9. ASSUME NEW n \in 1 .. i PROVE f[n] = a[n]
  <2>1. n \in 1 .. p /\ n \in 1 .. q
    BY <1>0, <1>1
  <2> QED BY <1>3, <1>5, <1>7, <2>1
<1>10. ASSUME NEW n \in 1 .. j PROVE f[i + n] = b[n]
  <2>1. i + n \in 1 .. p /\ i + n \in 1 .. q
    BY <1>0, <1>1
  <2> QED BY <1>3, <1>5, <1>7, <2>1
<1>11. ASSUME NEW n \in 1 .. k PROVE f[p + n] = c[n]
  <2>1. p + n \in 1 .. q
    BY <1>0, <1>1
  <2> QED BY <1>5, <1>7, <2>1
<1>12. Joins(S, f, a, b, c, t, i, j, k, l, p, q, r)
  BY <1>7, <1>9, <1>10, <1>11 DEF Joins
<1> QED BY <1>8, <1>12

(* The data of a report: its elements, one behind the other, and zeros.    *)
Blocks == [i \in 1 .. Len(job.elements) |-> ElementBytes(job.elements[i])]
Placed(pos) == Marks(Blocks, FlattenSeq(Blocks), pos)

DataIn(N, pos, m, D) ==
  /\ N = Len(job.elements) /\ m = job.padding
  /\ \A i \in 1 .. N : IsElement(job.elements[i])
  /\ pos[N] + m = D /\ D <= 255 /\ DataBytes(job) \in Seq(Octet) /\ Len(DataBytes(job)) = D
  /\ \A i \in 1 .. N : /\ pos[i] = pos[i - 1] + Len(ElementBytes(job.elements[i])) /\ pos[i] <= pos[N]
                       /\ \A k \in 1 .. Len(ElementBytes(job.elements[i])) :
                            DataBytes(job)[pos[i - 1] + k] = ElementBytes(job.elements[i])[k]
  /\ \A k \in 1 .. m : DataBytes(job)[pos[N] + k] = 0

LEMMA BlocksAre ==
  ASSUME IsReport(job)
  PROVE  \E N \in Nat :
           /\ N = Len(job.elements) /\ Blocks \in Seq(Seq(Octet)) /\ Len(Blocks) = N
           /\ \A i \in 1 .. N : IsElement(job.elements[i]) /\ Blocks[i] = ElementBytes(job.elements[i])
<1>1. job.elements \in Seq(Seq(Int)) /\ \A i \in 1 .. Len(job.elements) : IsElement(job.elements[i])
  BY DEF IsReport
<1>2. PICK N \in Nat : N = Len(job.elements)
  BY <1>1, LenProperties
<1>3. ASSUME NEW i \in 1 .. N PROVE IsElement(job.elements[i]) /\ ElementBytes(job.elements[i]) \in Seq(Octet)
  <2>1. IsElement(job.elements[i])
    BY <1>1, <1>2
  <2>2. PICK e : e = job.elements[i]
    OBVIOUS
  <2>3. PICK n \in Nat : Counted(e, n)
    <3>1. e \in Seq(Int) /\ Len(e) > 0
      BY <2>1, <2>2 DEF IsElement
    <3>2. PICK z \in Nat : z = Len(e) /\ z > 0
      BY <3>1, LenProperties
    <3>3. z - 1 \in Nat /\ z = (z - 1) + 1
      BY <3>2
    <3> QED BY <3>2, <3>3 DEF Counted
  <2>4. IsElement(e)
    BY <2>1, <2>2
  <2>5. PICK w \in Nat : BlockIs(e, n, w)
    BY <2>3, <2>4, ElementIs
  <2> QED BY <2>1, <2>2, <2>5 DEF BlockIs
<1>4. Blocks = [i \in 1 .. N |-> ElementBytes(job.elements[i])]
  BY <1>2 DEF Blocks
<1>5. Blocks \in Seq(Seq(Octet)) /\ Len(Blocks) = N
  BY <1>3, <1>4
<1>6. \A i \in 1 .. N : Blocks[i] = ElementBytes(job.elements[i])
  BY <1>4
<1> QED BY <1>2, <1>3, <1>5, <1>6

LEMMA DataIs ==
  ASSUME IsReport(job)
  PROVE  /\ \E pos : Placed(pos)
         /\ \A pos : Placed(pos) => \E N \in Nat, m \in Nat, D \in Nat :
                                      pos \in [0 .. N -> Nat] /\ pos[0] = 0 /\ DataIn(N, pos, m, D)
<1>1. PICK N \in Nat :
        /\ N = Len(job.elements) /\ Blocks \in Seq(Seq(Octet)) /\ Len(Blocks) = N
        /\ \A i \in 1 .. N : IsElement(job.elements[i]) /\ Blocks[i] = ElementBytes(job.elements[i])
  BY BlocksAre
<1>2. PICK flat \in Seq(Octet) : flat = FlattenSeq(Blocks)
  BY <1>1, Flatten
<1>3. \E pos : Placed(pos)
  BY <1>1, Flatten DEF Placed
<1> SUFFICES ASSUME NEW pos, Placed(pos)
             PROVE  \E M \in Nat, m \in Nat, D \in Nat :
                      pos \in [0 .. M -> Nat] /\ pos[0] = 0 /\ DataIn(M, pos, m, D)
  BY <1>3
<1>4. /\ pos \in [0 .. N -> Nat] /\ pos[0] = 0 /\ pos[N] = Len(flat)
      /\ \A i \in 1 .. N :
           /\ pos[i] = pos[i - 1] + Len(Blocks[i]) /\ pos[i] <= Len(flat)
           /\ \A k \in 1 .. Len(Blocks[i]) : flat[pos[i - 1] + k] = Blocks[i][k]
  BY <1>1, <1>2, Zenon DEF Placed, Marks
<1>5. PICK m \in Nat, z \in Nat : m = job.padding /\ z = pos[N]
  BY <1>4 DEF IsReport
<1>6. PICK zeros : zeros = [i \in 1 .. m |-> 0]
  OBVIOUS
<1>7. zeros \in Seq(Octet) /\ Len(zeros) = m /\ \A k \in 1 .. m : zeros[k] = 0
  <2>1. 0 \in Octet
    BY Ranges
  <2> QED BY <1>6, <2>1
<1>8. PICK D \in Nat : D = z + m
  OBVIOUS
<1>9. Sized(flat, zeros, z, m, D) /\ flat \in Seq(Octet) /\ zeros \in Seq(Octet)
  BY <1>4, <1>5, <1>7, <1>8 DEF Sized
<1>10. PICK data \in Seq(Octet) : /\ data = Glue(flat, zeros) /\ Len(data) = D
                                  /\ \A k \in 1 .. z : data[k] = flat[k]
                                  /\ \A k \in 1 .. m : data[z + k] = zeros[k]
  BY <1>9, GlueOf
<1>11. data = DataBytes(job)
  BY <1>2, <1>5, <1>6, <1>10 DEF DataBytes, Blocks, Glue
<1>12. D <= 255
  BY <1>10, <1>11 DEF IsReport
<1>13. ASSUME NEW i \in 1 .. N
       PROVE  /\ pos[i] = pos[i - 1] + Len(ElementBytes(job.elements[i])) /\ pos[i] <= pos[N]
              /\ \A k \in 1 .. Len(ElementBytes(job.elements[i])) :
                   data[pos[i - 1] + k] = ElementBytes(job.elements[i])[k]
  <2>1. PICK b \in Seq(Octet), x \in Nat, y \in Nat, l \in Nat :
          b = Blocks[i] /\ x = pos[i - 1] /\ y = pos[i] /\ l = Len(b)
    <3>1. i - 1 \in 0 .. N /\ i \in 0 .. N
      OBVIOUS
    <3>2. Blocks[i] \in Seq(Octet)
      BY <1>1, ElementOfSeq
    <3> QED BY <1>4, <3>1, <3>2, LenProperties
  <2>2. y = x + l /\ y <= z /\ \A k \in 1 .. l : flat[x + k] = b[k]
    BY <1>4, <1>5, <2>1
  <2>3. ASSUME NEW k \in 1 .. l PROVE data[x + k] = b[k]
    <3>1. x + k \in 1 .. z
      BY <2>2
    <3> QED BY <1>10, <2>2, <3>1
  <2>4. b = ElementBytes(job.elements[i])
    BY <1>1, <2>1
  <2> QED BY <1>5, <2>1, <2>2, <2>3, <2>4
<1>14. \A k \in 1 .. m : data[pos[N] + k] = 0
  BY <1>5, <1>7, <1>10
<1>15. DataIn(N, pos, m, D)
  BY <1>1, <1>5, <1>8, <1>10, <1>11, <1>12, <1>13, <1>14 DEF DataIn
<1> QED BY <1>4, <1>15

(* The rest of a report, in memory.                                        *)
Rssi(f, D) == IF job.vendor = "TI" THEN Byte(11) ELSE Byte(f.data + D)

ReportIn(d, D) ==
  LET f == Fields[job.vendor] IN
    /\ d = f.data /\ d > 0 /\ input \in Seq(Octet) /\ d + D + 3 <= Len(input)
    /\ \A k \in 1 .. D : input[d + k] = DataBytes(job)[k]
    /\ Byte(f.type) = job.type /\ Byte(f.size) = D /\ Value(f.address, 6) = job.address
    /\ Signed(Rssi(f, D), 256) = job.rssi

LEMMA VendorFields ==
  /\ Fields["TI"].type = 3 /\ Fields["TI"].address = 5 /\ Fields["TI"].size = 12 /\ Fields["TI"].data = 13
  /\ Fields["ST"].type = 2 /\ Fields["ST"].address = 4 /\ Fields["ST"].size = 10 /\ Fields["ST"].data = 11
BY DEF Fields

DataHas(D) == DataBytes(job) \in Seq(Octet) /\ Len(DataBytes(job)) = D /\ D <= 255

LEMMA ReportOfTI ==
  ASSUME FromJob, job.kind = "report", IsReport(job), job.behind \in Seq(Octet), job.vendor = "TI",
         NEW D \in Nat, DataHas(D)
  PROVE  /\ Layout(job) \in Seq(Octet)
         /\ \E d \in Nat : ReportIn(d, D)
<1>1. PICK data \in Seq(Octet) : data = DataBytes(job) /\ Len(data) = D
  BY DEF DataHas
<1>2. PICK type \in Octet, rssi \in Octet : type = job.type /\ rssi = Lo(job.rssi) /\ Signed(rssi, 256) = job.rssi
  <2>1. job.type \in 0 .. 4 /\ job.rssi \in TwosComplement(256)
    BY DEF IsReport
  <2>2. job.type \in Octet
    <3>1. job.type \in Nat /\ job.type < 256
      BY <2>1
    <3> QED BY <3>1, Ranges
  <2>3. job.rssi \in Int
    BY <2>1, Ranges
  <2>4. Lo(job.rssi) \in Octet /\ Signed(Lo(job.rssi), 256) = job.rssi
    BY <2>1, <2>3, Byte8, Word16
  <2> QED BY <2>2, <2>4
<1>3. PICK addr \in Seq(Octet) : addr = job.address /\ Len(addr) = 6
  <2>1. job.address \in Address
    BY DEF IsReport
  <2> QED BY <2>1, AddressIs
<1>4. PICK a, c : a = <<13, 6, 0, type, 0>> /\ c = <<rssi, D>>
  OBVIOUS
<1>5. /\ a \in Seq(Octet) /\ Len(a) = 5 /\ a[4] = type
      /\ c \in Seq(Octet) /\ Len(c) = 2 /\ c[1] = rssi /\ c[2] = D
  <2>1. 13 \in Octet /\ 6 \in Octet /\ 0 \in Octet
    BY SmallOctets, Zenon
  <2>2. D < 256
    BY DEF DataHas
  <2>3. D \in Octet
    BY <2>2, SmallOctets, Zenon
  <2> QED BY <1>4, <2>1, <2>3
<1>6. Layout(job) = FourParts(a, addr, c, data)
  <2>1. Layout(job) = ReportBytes(job)
    BY SMT DEF Layout
  <2> QED BY <1>1, <1>2, <1>3, <1>4, <2>1 DEF ReportBytes, FourParts, Glue
<1>7. PICK i, j, k, p, q, r : i = 5 /\ j = 6 /\ k = 2 /\ p = 11 /\ q = 13 /\ r = 13 + D
  OBVIOUS
<1>8. i \in Nat /\ j \in Nat /\ k \in Nat /\ p \in Nat /\ q \in Nat /\ r \in Nat
  BY <1>7
<1>8a. Parts(Octet, a, addr, c, data, i, j, k, D, p, q, r)
  BY <1>1, <1>3, <1>5, <1>7, <1>8 DEF Parts
<1>9. Joins(Octet, FourParts(a, addr, c, data), a, addr, c, data, i, j, k, D, p, q, r)
  BY <1>8a, FourPartsAre
<1>10. PICK l \in Seq(Octet) :
         /\ l = Layout(job) /\ Len(l) = r
         /\ \A n \in 1 .. i : l[n] = a[n]
         /\ \A n \in 1 .. j : l[i + n] = addr[n]
         /\ \A n \in 1 .. k : l[p + n] = c[n]
         /\ \A n \in 1 .. D : l[q + n] = data[n]
  BY <1>6, <1>9 DEF Joins
<1>11. PICK z \in Nat : z = Len(job.behind) /\ z >= 3
  <2>1. Len(job.behind) \in Nat
    BY LenProperties
  <2> QED BY <2>1 DEF IsReport
<1>12. /\ input \in Seq(Octet) /\ Len(input) = r + z /\ \A n \in 1 .. r : input[n] = l[n]
  <2>1. input = l \o job.behind
    BY <1>10 DEF FromJob
  <2> QED BY <1>10, <1>11, <2>1, InputIs
<1>12b. Len(input) = r + z
  BY <1>12
<1>12c. PICK y \in Nat : y = Len(input)
  BY <1>12, LenProperties
<1>12d. y = r + z /\ z >= 3
  BY <1>11, <1>12b, <1>12c
<1>13. \A n \in 1 .. D : input[q + n] = data[n]
  <2> SUFFICES ASSUME NEW n \in 1 .. D PROVE input[q + n] = data[n]
    OBVIOUS
  <2>1. q + n \in 1 .. r
    BY <1>7
  <2> QED BY <1>10, <1>12, <2>1
<1>14. Byte(3) = type
  <2>1. 4 \in 1 .. r /\ 4 \in 1 .. i /\ 3 + 1 = 4
    BY <1>7
  <2> QED BY <1>5, <1>10, <1>12, <2>1 DEF Byte
<1>15. Byte(11) = rssi /\ Byte(12) = D
  <2>1. 12 \in 1 .. r /\ 13 \in 1 .. r /\ 11 + 1 = 12 /\ 12 + 1 = 13 /\ p + 1 = 12 /\ p + 2 = 13
    BY <1>7
  <2>2. 1 \in 1 .. k /\ 2 \in 1 .. k
    BY <1>7
  <2>3. l[12] = rssi /\ l[13] = D
    BY <1>5, <1>10, <2>1, <2>2
  <2> QED BY <1>12, <2>1, <2>3 DEF Byte
<1>16. Value(5, 6) = addr
  <2>1. \A n \in 1 .. j : input[i + n] = addr[n]
    <3> SUFFICES ASSUME NEW n \in 1 .. j PROVE input[i + n] = addr[n]
      OBVIOUS
    <3>1. i + n \in 1 .. r
      BY <1>7
    <3> QED BY <1>10, <1>12, <3>1
  <2>2. Len(addr) = j /\ i + j <= Len(input)
    <3>1. i + j <= y
      BY <1>7, <1>8, <1>12d
    <3> QED BY <1>3, <1>7, <1>12c, <3>1
  <2>3. SubSeq(input, i + 1, i + j) = addr
    BY <1>8, <1>12, <2>1, <2>2, Slice
  <2> QED BY <1>7, <2>3 DEF Value
<1>17. 13 + D + 3 <= Len(input)
  <2>1. 13 + D + 3 <= y
    BY <1>7, <1>8, <1>12d
  <2> QED BY <1>12c, <2>1
<1>17a. \A n \in 1 .. D : input[13 + n] = DataBytes(job)[n]
  BY <1>1, <1>7, <1>13
<1>17b. Byte(11) = rssi /\ Rssi(Fields["TI"], D) = rssi
  BY <1>15 DEF Rssi
<1>18. ReportIn(13, D)
  BY <1>2, <1>3, <1>12, <1>14, <1>15, <1>16, <1>17, <1>17a, <1>17b, VendorFields DEF ReportIn
<1> QED BY <1>10, <1>18

LEMMA ReportOfST ==
  ASSUME FromJob, job.kind = "report", IsReport(job), job.behind \in Seq(Octet), job.vendor = "ST",
         NEW D \in Nat, DataHas(D)
  PROVE  /\ Layout(job) \in Seq(Octet)
         /\ \E d \in Nat : ReportIn(d, D)
<1>1. PICK data \in Seq(Octet) : data = DataBytes(job) /\ Len(data) = D
  BY DEF DataHas
<1>2. PICK type \in Octet, rssi \in Octet : type = job.type /\ rssi = Lo(job.rssi) /\ Signed(rssi, 256) = job.rssi
  <2>1. job.type \in 0 .. 4 /\ job.rssi \in TwosComplement(256)
    BY DEF IsReport
  <2>2. job.type \in Octet
    <3>1. job.type \in Nat /\ job.type < 256
      BY <2>1
    <3> QED BY <3>1, Ranges
  <2>3. job.rssi \in Int
    BY <2>1, Ranges
  <2>4. Lo(job.rssi) \in Octet /\ Signed(Lo(job.rssi), 256) = job.rssi
    BY <2>1, <2>3, Byte8, Word16
  <2> QED BY <2>2, <2>4
<1>3. PICK addr \in Seq(Octet) : addr = job.address /\ Len(addr) = 6
  <2>1. job.address \in Address
    BY DEF IsReport
  <2> QED BY <2>1, AddressIs
<1>4. PICK a, c, t : a = <<6, 4, type, 0>> /\ c = <<D>> /\ t = Append(data, rssi)
  OBVIOUS
<1>5. /\ a \in Seq(Octet) /\ Len(a) = 4 /\ a[3] = type
      /\ c \in Seq(Octet) /\ Len(c) = 1 /\ c[1] = D
  <2>1. 4 \in Octet /\ 6 \in Octet /\ 0 \in Octet
    BY SmallOctets, Zenon
  <2>2. D < 256
    BY DEF DataHas
  <2>3. D \in Octet
    BY <2>2, SmallOctets, Zenon
  <2> QED BY <1>4, <2>1, <2>3
<1>5a. PICK s \in Nat : s = D + 1
  OBVIOUS
<1>5b. /\ t \in Seq(Octet) /\ Len(t) = s /\ t[s] = rssi /\ \A n \in 1 .. D : t[n] = data[n]
  BY <1>1, <1>4, <1>5a, AppendProperties
<1>6. Layout(job) = FourParts(a, addr, c, t)
  <2>1. Layout(job) = ReportBytes(job)
    BY SMT DEF Layout
  <2> QED BY <1>1, <1>2, <1>3, <1>4, <2>1 DEF ReportBytes, FourParts, Glue
<1>7. PICK i, j, k, p, q, r : i = 4 /\ j = 6 /\ k = 1 /\ p = 10 /\ q = 11 /\ r = 11 + s
  OBVIOUS
<1>8. i \in Nat /\ j \in Nat /\ k \in Nat /\ p \in Nat /\ q \in Nat /\ r \in Nat
  BY <1>5a, <1>7
<1>8a. Parts(Octet, a, addr, c, t, i, j, k, s, p, q, r)
  BY <1>1, <1>3, <1>5, <1>5b, <1>7, <1>8 DEF Parts
<1>9. Joins(Octet, FourParts(a, addr, c, t), a, addr, c, t, i, j, k, s, p, q, r)
  BY <1>8a, FourPartsAre
<1>10. PICK l \in Seq(Octet) :
         /\ l = Layout(job) /\ Len(l) = r
         /\ \A n \in 1 .. i : l[n] = a[n]
         /\ \A n \in 1 .. j : l[i + n] = addr[n]
         /\ \A n \in 1 .. k : l[p + n] = c[n]
         /\ \A n \in 1 .. s : l[q + n] = t[n]
  BY <1>6, <1>9 DEF Joins
<1>11. PICK z \in Nat : z = Len(job.behind) /\ z >= 3
  <2>1. Len(job.behind) \in Nat
    BY LenProperties
  <2> QED BY <2>1 DEF IsReport
<1>12. /\ input \in Seq(Octet) /\ Len(input) = r + z /\ \A n \in 1 .. r : input[n] = l[n]
  <2>1. input = l \o job.behind
    BY <1>10 DEF FromJob
  <2> QED BY <1>10, <1>11, <2>1, InputIs
<1>12b. Len(input) = r + z
  BY <1>12
<1>12c. PICK y \in Nat : y = Len(input)
  BY <1>12, LenProperties
<1>12d. y = r + z /\ z >= 3
  BY <1>11, <1>12b, <1>12c
<1>13a. \A n \in 1 .. s : input[q + n] = t[n]
  <2> SUFFICES ASSUME NEW n \in 1 .. s PROVE input[q + n] = t[n]
    OBVIOUS
  <2>1. q + n \in 1 .. r
    BY <1>5a, <1>7
  <2> QED BY <1>10, <1>12, <2>1
<1>13. \A n \in 1 .. D : input[q + n] = data[n]
  <2>1. \A n \in 1 .. D : n \in 1 .. s
    BY <1>5a
  <2> QED BY <1>5b, <1>13a, <2>1
<1>14. Byte(2) = type
  <2>1. 3 \in 1 .. r /\ 3 \in 1 .. i /\ 2 + 1 = 3
    BY <1>5a, <1>7
  <2> QED BY <1>5, <1>10, <1>12, <2>1 DEF Byte
<1>15. Byte(10) = D
  <2>1. 11 \in 1 .. r /\ 10 + 1 = 11 /\ p + 1 = 11
    BY <1>5a, <1>7
  <2>2. 1 \in 1 .. k
    BY <1>7
  <2>3. l[11] = D
    BY <1>5, <1>10, <2>1, <2>2
  <2> QED BY <1>12, <2>1, <2>3 DEF Byte
<1>15a. Byte(11 + D) = rssi
  <2>1. s \in 1 .. s /\ q + s = (11 + D) + 1
    BY <1>5a, <1>7
  <2> QED BY <1>5b, <1>13a, <2>1 DEF Byte
<1>16. Value(4, 6) = addr
  <2>1. \A n \in 1 .. j : input[i + n] = addr[n]
    <3> SUFFICES ASSUME NEW n \in 1 .. j PROVE input[i + n] = addr[n]
      OBVIOUS
    <3>1. i + n \in 1 .. r
      BY <1>5a, <1>7
    <3> QED BY <1>10, <1>12, <3>1
  <2>2. Len(addr) = j /\ i + j <= Len(input)
    <3>1. i + j <= y
      BY <1>5a, <1>7, <1>8, <1>12d
    <3> QED BY <1>3, <1>7, <1>12c, <3>1
  <2>3. SubSeq(input, i + 1, i + j) = addr
    BY <1>8, <1>12, <2>1, <2>2, Slice
  <2> QED BY <1>7, <2>3 DEF Value
<1>17. 11 + D + 3 <= Len(input)
  <2>1. 11 + D + 3 <= y
    BY <1>5a, <1>7, <1>8, <1>12d
  <2> QED BY <1>12c, <2>1
<1>18. ReportIn(11, D)
  BY <1>1, <1>2, <1>3, <1>7, <1>12, <1>13, <1>14, <1>15, <1>15a, <1>16, <1>17, VendorFields DEF ReportIn, Rssi
<1> QED BY <1>10, <1>18

ReportHas(N, m, D, d, pos) ==
  pos \in [0 .. N -> Nat] /\ pos[0] = 0 /\ DataIn(N, pos, m, D) /\ ReportIn(d, D)

LEMMA ReportJobs ==
  ASSUME FromJob, job.kind = "report"
  PROVE  IsReport(job) /\ job.behind \in Seq(Octet)
<1>1. WellFormed(job)
  BY JobsWellFormed DEF FromJob
<1> QED BY <1>1, SMT DEF WellFormed

LEMMA ReportIs ==
  ASSUME FromJob, job.kind = "report"
  PROVE  /\ Layout(job) \in Seq(Octet) /\ input \in Seq(Octet)
         /\ \E pos : Placed(pos)
         /\ \A pos : Placed(pos) => \E N \in Nat, m \in Nat, D \in Nat, d \in Nat : ReportHas(N, m, D, d, pos)
<1>1. IsReport(job) /\ job.behind \in Seq(Octet)
  BY ReportJobs
<1>2. /\ \E pos : Placed(pos)
      /\ \A pos : Placed(pos) => \E N \in Nat, m \in Nat, D \in Nat :
                                   pos \in [0 .. N -> Nat] /\ pos[0] = 0 /\ DataIn(N, pos, m, D)
  BY <1>1, DataIs
<1>3. ASSUME NEW pos, Placed(pos)
      PROVE  /\ Layout(job) \in Seq(Octet) /\ input \in Seq(Octet)
             /\ \E N \in Nat, m \in Nat, D \in Nat, d \in Nat : ReportHas(N, m, D, d, pos)
  <2>1. PICK N \in Nat, m \in Nat, D \in Nat : pos \in [0 .. N -> Nat] /\ pos[0] = 0 /\ DataIn(N, pos, m, D)
    BY <1>2, <1>3
  <2>2. DataHas(D)
    BY <2>1 DEF DataIn, DataHas
  <2>3. job.vendor \in {"TI", "ST"}
    BY <1>1 DEF IsReport, Vendors
  <2>4. Layout(job) \in Seq(Octet) /\ \E d \in Nat : ReportIn(d, D)
    <3>1. CASE job.vendor = "TI"
      BY <1>1, <2>2, <3>1, ReportOfTI
    <3>2. CASE job.vendor = "ST"
      BY <1>1, <2>2, <3>2, ReportOfST
    <3> QED BY <2>3, <3>1, <3>2
  <2>5. PICK d \in Nat : ReportIn(d, D)
    BY <2>4
  <2>6. input \in Seq(Octet)
    BY <2>5 DEF ReportIn
  <2>7. ReportHas(N, m, D, d, pos)
    BY <2>1, <2>5 DEF ReportHas
  <2> QED BY <2>4, <2>6, <2>7
<1> QED BY <1>2, <1>3

(* The element at the n-th place.                                          *)
ElementAt(e, c, w, a) ==
  IsElement(e) /\ Counted(e, c) /\ BlockIs(e, c, w) /\ InMemory(a, e, w)

LEMMA ElementOf ==
  ASSUME NEW N \in Nat, NEW m \in Nat, NEW D \in Nat, NEW d \in Nat, NEW pos, ReportHas(N, m, D, d, pos),
         job.kind = "report", IsReport(job), NEW n \in 0 .. N, n # N
  PROVE  \E c \in Nat, w \in Nat :
           /\ ElementAt(job.elements[n + 1], c, w, d + pos[n])
           /\ pos[n + 1] = pos[n] + w + 2 /\ d + pos[n + 1] <= d + D
           /\ Sound => LengthKnown(job.elements[n + 1], w)
<1>1. PICK i \in 1 .. N : i = n + 1 /\ i - 1 = n
  OBVIOUS
<1>2. PICK e, b : e = job.elements[i] /\ b = ElementBytes(e)
  OBVIOUS
<1>3. /\ N = Len(job.elements) /\ IsElement(e) /\ pos[N] + m = D /\ Len(DataBytes(job)) = D
      /\ pos[i] = pos[i - 1] + Len(b) /\ pos[i] <= pos[N]
      /\ \A k \in 1 .. Len(b) : DataBytes(job)[pos[i - 1] + k] = b[k]
  BY <1>2 DEF ReportHas, DataIn
<1>4. PICK c \in Nat : Counted(e, c)
  <2>1. e \in Seq(Int) /\ Len(e) > 0
    BY <1>3 DEF IsElement
  <2>2. PICK z \in Nat : z = Len(e) /\ z > 0
    BY <2>1, LenProperties
  <2>3. z - 1 \in Nat /\ z = (z - 1) + 1
    BY <2>2
  <2> QED BY <2>2, <2>3 DEF Counted
<1>5. PICK w \in Nat : BlockIs(e, c, w)
  BY <1>3, <1>4, ElementIs
<1>6. Len(b) = w + 2 /\ b[1] = w + 1 /\ b[2] = e[1]
  BY <1>2, <1>5 DEF BlockIs
<1>7. PICK x \in Nat, y \in Nat, z \in Nat : x = pos[n] /\ y = pos[i] /\ z = pos[N]
  <2>1. pos \in [0 .. N -> Nat] /\ i \in 0 .. N /\ N \in 0 .. N
    BY DEF ReportHas
  <2> QED BY <2>1
<1>8. y = x + (w + 2) /\ y <= z /\ z + m = D
  BY <1>1, <1>3, <1>6, <1>7
<1>9. d + y <= d + D /\ y = x + w + 2
  BY <1>8
<1>10. PICK a \in Nat : a = d + x
  OBVIOUS
<1>11. InMemory(a, e, w)
  <2>1. PICK l \in Nat : l = Len(input) /\ d + D + 3 <= l
    <3>1. input \in Seq(Octet) /\ d + D + 3 <= Len(input)
      BY DEF ReportHas, ReportIn
    <3> QED BY <3>1, LenProperties
  <2>2. a + w + 2 <= l
    BY <1>8, <1>10, <2>1
  <2>3. ASSUME NEW k \in 1 .. w + 2 PROVE input[a + k] = b[k]
    <3>1. x + k \in 1 .. D /\ d + (x + k) = a + k
      BY <1>8, <1>10
    <3>2. input[d + (x + k)] = DataBytes(job)[x + k]
      BY <3>1 DEF ReportHas, ReportIn
    <3>3. DataBytes(job)[x + k] = b[k]
      BY <1>1, <1>3, <1>6, <1>7
    <3> QED BY <3>1, <3>2, <3>3
  <2>4. input \in Seq(Octet)
    BY DEF ReportHas, ReportIn
  <2> QED BY <1>2, <2>1, <2>2, <2>3, <2>4 DEF InMemory
<1>12. Sound => LengthKnown(e, w)
  <2> SUFFICES ASSUME Sound PROVE LengthKnown(e, w)
    OBVIOUS
  <2>1. \A k \in DOMAIN job.elements : LET v == ElementBytes(job.elements[k]) IN
          v[2] \in DOMAIN OneLength => v[1] = OneLength[v[2]]
    BY SMT DEF Sound
  <2>2. i \in DOMAIN job.elements
    <3>1. job.elements \in Seq(Seq(Int))
      BY DEF IsReport
    <3> QED BY <1>3, <3>1, LenProperties
  <2>3. b[2] \in DOMAIN OneLength => b[1] = OneLength[b[2]]
    BY <1>2, <2>1, <2>2
  <2> QED BY <1>6, <2>3 DEF LengthKnown
<1>13. ElementAt(e, c, w, a)
  BY <1>3, <1>4, <1>5, <1>11 DEF ElementAt
<1>14. /\ ElementAt(job.elements[n + 1], c, w, d + pos[n])
       /\ pos[n + 1] = pos[n] + w + 2 /\ d + pos[n + 1] <= d + D
       /\ Sound => LengthKnown(job.elements[n + 1], w)
  BY <1>1, <1>2, <1>7, <1>9, <1>10, <1>12, <1>13
<1> QED BY <1>14

(* What a report should come to.                                           *)
ReportTold ==
  <<Append(job.address, job.rssi)>> \o [i \in 1 .. Len(job.elements) |-> Reported(job.elements[i])]

LEMMA ReportToldIs ==
  ASSUME IsReport(job), NEW N \in Nat, N = Len(job.elements)
  PROVE  /\ ReportTold[1] = Append(job.address, job.rssi)
         /\ \A i \in 1 .. N : ReportTold[i + 1] = Reported(job.elements[i])
         /\ First(ReportTold, N + 1) = ReportTold
<1>1. PICK top, items : /\ top = Append(job.address, job.rssi)
                        /\ items = [i \in 1 .. N |-> Reported(job.elements[i])]
  OBVIOUS
<1>2. PICK S : S = {top} \cup {items[i] : i \in 1 .. N}
  OBVIOUS
<1>3. PICK h, k, w : h = <<top>> /\ k = 1 /\ w = N + 1
  OBVIOUS
<1>4. top \in S /\ \A i \in 1 .. N : items[i] \in S
  BY <1>2
<1>5. /\ h \in Seq(S) /\ Len(h) = 1 /\ h[1] = top
      /\ items \in Seq(S) /\ Len(items) = N /\ \A i \in 1 .. N : items[i] = Reported(job.elements[i])
  <2>1. \A i \in 1 .. N : items[i] = Reported(job.elements[i])
    BY <1>1
  <2>2. \A i \in 1 .. N : Reported(job.elements[i]) \in S
    BY <1>4, <2>1
  <2>3. items \in Seq(S) /\ Len(items) = N
    BY <1>1, <2>2
  <2>4. h \in Seq(S) /\ Len(h) = 1 /\ h[1] = top
    BY <1>3, <1>4
  <2> QED BY <2>1, <2>3, <2>4
<1>6. Sized(h, items, k, N, w) /\ h \in Seq(S) /\ items \in Seq(S) /\ k \in Nat /\ w \in Nat
  BY <1>3, <1>5 DEF Sized
<1>7. /\ Glue(h, items) \in Seq(S) /\ Len(Glue(h, items)) = w
      /\ \A i \in 1 .. k : Glue(h, items)[i] = h[i]
      /\ \A i \in 1 .. N : Glue(h, items)[k + i] = items[i]
  BY <1>6, GlueOf
<1>8. PICK g \in Seq(S) : /\ g = ReportTold /\ g = Glue(h, items) /\ Len(g) = w
  <2>1. ReportTold = Glue(h, items)
    BY <1>1, <1>3 DEF ReportTold, Glue
  <2> QED BY <1>7, <2>1
<1>9. g[1] = top
  <2>1. 1 \in 1 .. k
    BY <1>3
  <2> QED BY <1>5, <1>7, <1>8, <2>1
<1>10. ASSUME NEW i \in 1 .. N PROVE g[i + 1] = items[i]
  <2>1. k + i = i + 1
    BY <1>3
  <2> QED BY <1>7, <1>8, <2>1
<1>11. g = [i \in 1 .. w |-> g[i]]
  BY <1>8, LenProperties
<1> QED BY <1>1, <1>3, <1>5, <1>8, <1>9, <1>10, <1>11 DEF First

(* Where the loop over the elements is: before element n + 1, or at a byte *)
(* of the padding.                                                         *)
DataAt == Fields[job.vendor].data

AtElement(pos, n) ==
  /\ at = DataAt + pos[n] /\ limit = DataAt + Len(DataBytes(job)) /\ at <= limit
  /\ out = First(ReportTold, n + 1)
  /\ \/ end = "running" /\ reach <= at
     \/ end = "true" /\ reach <= at /\ n = Len(job.elements) /\ job.padding = 0
     \/ end = "assert" /\ ~Sound

InPadding ==
  /\ limit = DataAt + Len(DataBytes(job)) /\ at > 0 /\ ~Sound /\ end \in {"running", "true", "assert"}
  /\ \A k \in at + 1 .. limit : input[k] = 0

ReportInv ==
  /\ nibble = 0 /\ out \in Seq(Seq(Int))
  /\ \/ at = 0 /\ reach = 0 /\ out = <<>> /\ end = "running"
     \/ \E pos : Placed(pos) /\ \E n \in 0 .. Len(job.elements) : AtElement(pos, n)
     \/ InPadding

LEMMA ElementBehindHead ==
  ASSUME FromJob, job.kind = "report", NEW pos, Placed(pos), NEW n \in 0 .. Len(job.elements), AtElement(pos, n)
  PROVE  at > 0
<1>1. PICK N \in Nat, m \in Nat, D \in Nat, d \in Nat : ReportHas(N, m, D, d, pos)
  BY ReportIs
<1>2. N = Len(job.elements) /\ pos \in [0 .. N -> Nat] /\ d = DataAt /\ d > 0
  BY <1>1 DEF ReportHas, DataIn, ReportIn, DataAt
<1>3. PICK x \in Nat : x = pos[n]
  BY <1>2
<1>4. d + x > 0
  BY <1>2
<1> QED BY <1>2, <1>3, <1>4 DEF AtElement

LEMMA ReportStarted ==
  ASSUME Shaped, job.kind = "report", ReportInv, Report
  PROVE  Shaped' /\ ReportInv'
<1>1. IsReport(job) /\ FromJob
  BY ReportJobs DEF Shaped
<1>2. PICK pos : Placed(pos)
  BY <1>1, ReportIs
<1>3. PICK N \in Nat, m \in Nat, D \in Nat, d \in Nat : ReportHas(N, m, D, d, pos)
  BY <1>1, <1>2, ReportIs
<1>4. PICK f : f = Fields[job.vendor]
  OBVIOUS
<1>5. /\ d = f.data /\ d > 0 /\ Byte(f.type) = job.type /\ Byte(f.size) = D
      /\ Value(f.address, 6) = job.address /\ Signed(Rssi(f, D), 256) = job.rssi
  BY <1>3, <1>4 DEF ReportHas, ReportIn
<1>6. Len(DataBytes(job)) = D /\ N = Len(job.elements) /\ pos[0] = 0
  BY <1>3 DEF ReportHas, DataIn
<1>7. at = 0 /\ reach = 0 /\ out = <<>> /\ end = "running" /\ nibble = 0
  <2>1. at = 0 /\ end = "running" /\ nibble = 0
    BY DEF Report, Does, ReportInv
  <2>2. ASSUME NEW q, Placed(q), NEW n \in 0 .. Len(job.elements), AtElement(q, n) PROVE at > 0
    BY <1>1, <2>2, ElementBehindHead
  <2>3. ~(0 > 0)
    OBVIOUS
  <2> QED BY <2>1, <2>2, <2>3 DEF ReportInv, InPadding
<1>8. ~(Byte(f.type) > 4)
  <2>1. job.type \in 0 .. 4
    BY <1>1 DEF IsReport
  <2> QED BY <1>5, <2>1
<1>9. /\ out' = <<Append(Value(f.address, 6), Signed(Rssi(f, D), 256))>>
      /\ at' = f.data /\ reach' = f.data /\ limit' = f.data + D /\ end' = end
      /\ UNCHANGED <<job, input, nibble>>
  BY <1>4, <1>5, <1>8 DEF Report, Rssi
<1>10. PICK top : top = Append(job.address, job.rssi)
  OBVIOUS
<1>11. /\ out' = <<top>> /\ at' = d /\ reach' = d /\ limit' = d + D /\ end' = "running"
       /\ UNCHANGED <<job, input, nibble>>
  BY <1>5, <1>7, <1>9, <1>10
<1>12. out' = First(ReportTold, 1)
  <2>1. ReportTold[1] = top
    BY <1>1, <1>6, <1>10, ReportToldIs
  <2>2. PICK z \in Nat : z = 0 /\ z + 1 = 1
    OBVIOUS
  <2>3. First(ReportTold, 0) = <<>> /\ Append(First(ReportTold, z), ReportTold[z + 1]) = First(ReportTold, z + 1)
    BY FirstItems
  <2>4. Append(<<>>, top) = <<top>>
    OBVIOUS
  <2> QED BY <1>11, <2>1, <2>2, <2>3, <2>4
<1>13. out' \in Seq(Seq(Int))
  <2>1. job.address \in Seq(Int)
    BY <1>1, AddressIs DEF IsReport
  <2>2. job.rssi \in Int
    <3>1. job.rssi \in TwosComplement(256)
      BY <1>1 DEF IsReport
    <3> QED BY <3>1, Ranges
  <2>3. top \in Seq(Int)
    BY <1>10, <2>1, <2>2, AppendProperties
  <2> QED BY <1>11, <2>3
<1>14. Shaped'
  BY <1>11 DEF Shaped, FromJob
<1>15. Placed(pos)'
  BY <1>2, <1>11 DEF Placed, Blocks
<1>16. AtElement(pos, 0)'
  <2>1. DataAt' = d /\ ReportTold' = ReportTold /\ Len(DataBytes(job))' = D
    BY <1>4, <1>5, <1>6, <1>11 DEF DataAt, ReportTold
  <2>2. d = d + pos[0] /\ d <= d + D
    BY <1>6
  <2>3. 0 + 1 = 1
    OBVIOUS
  <2> QED BY <1>11, <1>12, <2>1, <2>2, <2>3 DEF AtElement
<1>17. 0 \in 0 .. Len(job'.elements)
  BY <1>6, <1>11
<1>18. (\E p : Placed(p) /\ \E n \in 0 .. Len(job.elements) : AtElement(p, n))'
  BY <1>15, <1>16, <1>17
<1> QED BY <1>7, <1>11, <1>13, <1>14, <1>18 DEF ReportInv

LEMMA ElementKnown ==
  ASSUME Shaped, job.kind = "report", nibble = 0, out \in Seq(Seq(Int)), Element,
         NEW pos, Placed(pos), NEW n \in Nat, n < Len(job.elements), AtElement(pos, n)
  PROVE  Shaped' /\ ReportInv'
<1>1. IsReport(job) /\ FromJob
  BY ReportJobs DEF Shaped
<1>2. PICK N \in Nat, m \in Nat, D \in Nat, d \in Nat : ReportHas(N, m, D, d, pos)
  BY <1>1, ReportIs
<1>3. N = Len(job.elements) /\ d = DataAt /\ Len(DataBytes(job)) = D /\ d > 0
  BY <1>2 DEF ReportHas, DataIn, ReportIn, DataAt
<1>4. PICK i \in 1 .. N : i = n + 1 /\ n \in 0 .. N /\ n # N
  BY <1>3
<1>5a. \E c \in Nat, w \in Nat :
         /\ ElementAt(job.elements[n + 1], c, w, d + pos[n])
         /\ pos[n + 1] = pos[n] + w + 2 /\ d + pos[n + 1] <= d + D
         /\ Sound => LengthKnown(job.elements[n + 1], w)
  BY <1>1, <1>2, <1>4, ElementOf
<1>5b. PICK e : e = job.elements[i]
  OBVIOUS
<1>5. PICK c \in Nat, w \in Nat :
        /\ ElementAt(e, c, w, d + pos[n])
        /\ pos[i] = pos[n] + w + 2 /\ d + pos[i] <= d + D
        /\ Sound => LengthKnown(e, w)
  BY <1>4, <1>5a, <1>5b
<1>6. PICK x \in Nat, y \in Nat : x = pos[n] /\ y = pos[i]
  BY <1>2, <1>4 DEF ReportHas
<1>7. PICK a \in Nat : a = at /\ a = d + x
  <2>1. at = d + x
    BY <1>3, <1>6 DEF AtElement
  <2> QED BY <2>1
<1>8. y = x + w + 2 /\ d + y <= d + D
  BY <1>5, <1>6
<1>9. IsElement(e) /\ Counted(e, c) /\ BlockIs(e, c, w) /\ InMemory(a, e, w)
  BY <1>5, <1>6, <1>7 DEF ElementAt
<1>10. Byte(a) = w + 1 /\ Byte(a + 1) = e[1]
  BY <1>9, ElementInMemory
<1>11. PICK r \in Nat : r = reach
  BY DEF Shaped
<1>12. reach <= at /\ limit = d + D /\ out = First(ReportTold, i) /\ end = "running"
  <2>1. end = "running"
    BY DEF Element, NextElement, Does
  <2> QED BY <1>3, <1>4, <2>1 DEF AtElement
<1>13. PICK l \in Nat : l = w + 1
  OBVIOUS
<1>14. /\ UNCHANGED <<job, input, limit, nibble>>
       /\ IF e[1] \in DOMAIN OneLength /\ l # OneLength[e[1]]
          THEN Ends("assert") /\ Looks(a + 2)
          ELSE /\ out' = Append(out, <<e[1]>> \o Told(e[1], l, a + 2))
               /\ Looks(a + 2 + Uses(e[1], l)) /\ at' = a + 1 + l /\ end' = end
  BY <1>7, <1>10, <1>13 DEF Element, NextElement
<1>15. /\ DataAt' = DataAt /\ ReportTold' = ReportTold /\ DataBytes(job)' = DataBytes(job)
       /\ Placed(pos)' /\ Sound' = Sound
  BY <1>14 DEF DataAt, ReportTold, Placed, Blocks, Sound, Room
<1>16. CASE ~LengthKnown(e, w)
  <2>1. Ends("assert") /\ Looks(a + 2)
    BY <1>13, <1>14, <1>16 DEF LengthKnown
  <2>2. at' = at /\ out' = out /\ end' = "assert"
    BY <2>1 DEF Ends
  <2>3. reach' \in Nat
    BY <1>11, <2>1 DEF Looks
  <2>4. Shaped'
    BY <1>14, <2>2, <2>3 DEF Shaped, FromJob
  <2>5. ~Sound
    BY <1>5, <1>16
  <2>6. AtElement(pos, n)'
    BY <1>14, <1>15, <2>2, <2>5 DEF AtElement
  <2>7. n \in 0 .. Len(job'.elements)
    BY <1>3, <1>4, <1>14
  <2>8. (\E p : Placed(p) /\ \E k \in 0 .. Len(job.elements) : AtElement(p, k))'
    BY <1>15, <2>6, <2>7
  <2>9. nibble' = 0 /\ out' \in Seq(Seq(Int))
    BY <1>14, <2>2
  <2> QED BY <2>4, <2>8, <2>9 DEF ReportInv
<1>17. CASE LengthKnown(e, w)
  <2>1. /\ <<e[1]>> \o Told(e[1], w + 1, a + 2) = Reported(e) /\ Reported(e) \in Seq(Int)
        /\ Uses(e[1], w + 1) \in 0 .. w
    BY <1>9, <1>17, ElementTold
  <2>2. PICK u \in 0 .. w : u = Uses(e[1], l)
    BY <1>13, <2>1
  <2>3. ~(e[1] \in DOMAIN OneLength /\ l # OneLength[e[1]])
    BY <1>13, <1>17 DEF LengthKnown
  <2>4. out' = Append(out, Reported(e)) /\ Looks(a + 2 + u) /\ at' = a + 1 + l /\ end' = "running"
    BY <1>12, <1>13, <1>14, <2>1, <2>2, <2>3
  <2>5. at' = d + y /\ at' \in Nat /\ at' <= limit'
    <3>1. a + 1 + l = d + y /\ d + y \in Nat
      BY <1>7, <1>8, <1>13
    <3> QED BY <1>8, <1>12, <1>14, <2>4, <3>1
  <2>6. reach' \in Nat /\ reach' <= at'
    <3>1. r <= a /\ a + 2 + u <= d + y
      BY <1>7, <1>8, <1>11, <1>12
    <3>2. reach' = IF r < a + 2 + u THEN a + 2 + u ELSE r
      BY <1>11, <2>4 DEF Looks
    <3>3. (IF r < a + 2 + u THEN a + 2 + u ELSE r) \in Nat /\ (IF r < a + 2 + u THEN a + 2 + u ELSE r) <= d + y
      BY <3>1, <1>7, <1>8
    <3> QED BY <2>5, <3>2, <3>3
  <2>7. out' = First(ReportTold, i + 1)
    <3>1. ReportTold[i + 1] = Reported(e)
      BY <1>1, <1>3, <1>5b, ReportToldIs
    <3>2. i \in Nat
      OBVIOUS
    <3>3. Append(First(ReportTold, i), ReportTold[i + 1]) = First(ReportTold, i + 1)
      BY <3>2, FirstItems
    <3> QED BY <1>12, <2>4, <3>1, <3>3
  <2>8. out' \in Seq(Seq(Int)) /\ nibble' = 0
    BY <1>14, <2>1, <2>4, AppendProperties
  <2>9. Shaped'
    BY <1>14, <2>4, <2>5, <2>6 DEF Shaped, FromJob
  <2>10. AtElement(pos, i)'
    BY <1>3, <1>6, <1>12, <1>14, <1>15, <2>4, <2>5, <2>6, <2>7 DEF AtElement
  <2>11. i \in 0 .. Len(job'.elements)
    BY <1>3, <1>14
  <2>12. (\E p : Placed(p) /\ \E k \in 0 .. Len(job.elements) : AtElement(p, k))'
    BY <1>15, <2>10, <2>11
  <2> QED BY <2>8, <2>9, <2>12 DEF ReportInv
<1> QED BY <1>16, <1>17

(* Padding is decoded as elements of length 0, with the type that the byte *)
(* behind it makes.                                                        *)
LEMMA NothingTold ==
  ASSUME NEW type \in Octet, NEW b \in Nat, type \notin DOMAIN OneLength, b + 2 <= Len(input), input \in Seq(Octet)
  PROVE  Told(type, 0, b) \in Seq(Int) /\ Uses(type, 0) \in Nat
<1>1. Byte(b) \in Octet /\ Byte(b + 1) \in Octet
  <2>1. PICK l \in Nat : l = Len(input)
    BY LenProperties
  <2>2. b + 1 \in 1 .. l /\ b + 2 \in 1 .. l /\ (b + 1) + 1 = b + 2
    BY <2>1
  <2> QED BY <2>1, <2>2, ElementOfSeq DEF Byte
<1>2. PICK x \in Nat, y \in Nat : x = Byte(b) /\ y = Byte(b + 1)
  BY <1>1, Ranges
<1>3. type \notin {1, 2, 18}
  BY Types
<1>4. CASE type = 10
  <2>1. Signed(x, 256) \in Int
    BY DEF Signed
  <2>2. Told(type, 0, b) = <<Signed(x, 256)>>
    BY <1>2, <1>4, ToldOf
  <2>3. <<Signed(x, 256)>> \in Seq(Int)
    BY <2>1
  <2>4. Uses(type, 0) = 1
    BY <1>4, Types DEF Uses
  <2>5. Uses(type, 0) \in Nat
    BY <2>4
  <2> QED BY <2>2, <2>3, <2>5, Zenon
<1>5. CASE type = 255
  <2>1. Value16(b) = x + 256 * y
    BY <1>2 DEF Value16
  <2>2. Value16(b) \in Int
    BY <2>1
  <2>3. Told(type, 0, b) = <<Value16(b)>>
    BY <1>5, ToldOf
  <2>4. <<Value16(b)>> \in Seq(Int)
    BY <2>2
  <2>5. Uses(type, 0) = 2
    BY <1>5, Types DEF Uses
  <2>6. Uses(type, 0) \in Nat
    BY <2>5
  <2> QED BY <2>3, <2>4, <2>6, Zenon
<1>6. CASE type \in {8, 9}
  <2>1. Told(type, 0, b) = Value(b, 0 - 1)
    BY <1>6, ToldOf
  <2>2. PICK p, q : p = b + 1 /\ q = b + (0 - 1)
    OBVIOUS
  <2>3. Value(b, 0 - 1) = SubSeq(input, p, q)
    BY <2>2 DEF Value
  <2>4. p \in Int /\ q \in Int /\ q < p
    BY <2>2
  <2>5. \A i \in p .. q : input[i] \in Octet
    BY <2>4
  <2>6. SubSeq(input, p, q) \in Seq(Octet)
    BY <2>4, <2>5, SubSeqProperties
  <2>7. Uses(type, 0) = 0
    BY <1>6, Types DEF Uses
  <2>8. Uses(type, 0) \in Nat
    BY <2>7
  <2>9. SubSeq(input, p, q) \in Seq(Int)
    BY <2>6, OctetsAreInts, Zenon
  <2> QED BY <2>1, <2>3, <2>8, <2>9, Zenon
<1>7. CASE type \notin {1, 2, 8, 9, 10, 18, 255}
  <2>1. Told(type, 0, b) = <<>>
    BY <1>7, NothingToldOf, Zenon
  <2>2. Uses(type, 0) = 0
    BY <1>7, NothingUsedOf, Zenon
  <2>3. Uses(type, 0) \in Nat
    BY <2>2
  <2>4. <<>> \in Seq(Int)
    OBVIOUS
  <2> QED BY <2>1, <2>3, <2>4, Zenon
<1> QED BY <1>3, <1>4, <1>5, <1>6, <1>7

LEMMA PaddingTold ==
  ASSUME Shaped, job.kind = "report", nibble = 0, out \in Seq(Seq(Int)), Element, InPadding
  PROVE  Shaped' /\ ReportInv'
<1>1. IsReport(job) /\ FromJob
  BY ReportJobs DEF Shaped
<1>2. PICK pos : Placed(pos)
  BY <1>1, ReportIs
<1>3. PICK N \in Nat, m \in Nat, D \in Nat, d \in Nat : ReportHas(N, m, D, d, pos)
  BY <1>1, <1>2, ReportIs
<1>4. d = DataAt /\ Len(DataBytes(job)) = D /\ input \in Seq(Octet) /\ d + D + 3 <= Len(input)
  BY <1>3 DEF ReportHas, DataIn, ReportIn, DataAt
<1>5. PICK a \in Nat, r \in Nat, l \in Nat : a = at /\ r = reach /\ l = Len(input)
  BY <1>4, LenProperties DEF Shaped
<1>6. a > 0 /\ a < d + D /\ d + D + 3 <= l /\ limit = d + D /\ end = "running" /\ ~Sound
  BY <1>4, <1>5 DEF InPadding, Element, NextElement, Does
<1>7. Byte(a) = 0
  <2>1. a + 1 \in a + 1 .. d + D
    BY <1>6
  <2> QED BY <1>5, <1>6, <2>1 DEF InPadding, Byte
<1>8. PICK type \in Octet : type = Byte(a + 1)
  <2>1. a + 1 + 1 \in 1 .. l
    BY <1>6
  <2> QED BY <1>4, <1>5, <2>1, ElementOfSeq DEF Byte
<1>9. /\ UNCHANGED <<job, input, limit, nibble>>
      /\ IF type \in DOMAIN OneLength /\ 0 # OneLength[type]
         THEN Ends("assert") /\ Looks(a + 2)
         ELSE /\ out' = Append(out, <<type>> \o Told(type, 0, a + 2))
              /\ Looks(a + 2 + Uses(type, 0)) /\ at' = a + 1 + 0 /\ end' = end
  BY <1>5, <1>7, <1>8 DEF Element, NextElement
<1>10. DataAt' = DataAt /\ DataBytes(job)' = DataBytes(job) /\ Sound' = Sound
  BY <1>9 DEF DataAt, Sound, Room
<1>11. type \in DOMAIN OneLength => 0 # OneLength[type]
  BY Types
<1>12. CASE type \in DOMAIN OneLength
  <2>1. Ends("assert") /\ Looks(a + 2)
    BY <1>9, <1>11, <1>12
  <2>2. at' = at /\ out' = out /\ end' = "assert"
    BY <2>1 DEF Ends
  <2>3. reach' \in Nat
    BY <1>5, <2>1 DEF Looks
  <2>4. Shaped'
    BY <1>9, <2>2, <2>3 DEF Shaped, FromJob
  <2>5. InPadding'
    BY <1>9, <1>10, <2>2 DEF InPadding
  <2> QED BY <1>9, <2>2, <2>4, <2>5 DEF ReportInv
<1>13. CASE type \notin DOMAIN OneLength
  <2>1. /\ out' = Append(out, <<type>> \o Told(type, 0, a + 2))
        /\ Looks(a + 2 + Uses(type, 0)) /\ at' = a + 1 + 0 /\ end' = end
    BY <1>9, <1>13
  <2>2. PICK b \in Nat : b = a + 2 /\ b + 2 <= l
    BY <1>6
  <2>3. Told(type, 0, b) \in Seq(Int) /\ Uses(type, 0) \in Nat
    BY <1>4, <1>5, <1>13, <2>2, NothingTold
  <2>4. PICK t \in Seq(Int), u \in Nat : t = Told(type, 0, a + 2) /\ u = Uses(type, 0)
    BY <2>2, <2>3
  <2>5. <<type>> \o t \in Seq(Int)
    <3>1. type \in Int
      BY Ranges
    <3>2. <<type>> \in Seq(Int)
      BY <3>1
    <3> QED BY <3>2, ConcatProperties
  <2>6. out' \in Seq(Seq(Int))
    BY <2>1, <2>4, <2>5, AppendProperties
  <2>7. at' = a + 1 /\ end' = "running"
    BY <1>6, <2>1
  <2>8. reach' \in Nat
    <3>1. reach' = IF r < a + 2 + u THEN a + 2 + u ELSE r
      BY <1>5, <2>1, <2>4 DEF Looks
    <3> QED BY <3>1
  <2>9. Shaped'
    BY <1>9, <2>7, <2>8 DEF Shaped, FromJob
  <2>10. \A k \in (a + 1) + 1 .. d + D : input[k] = 0
    <3> SUFFICES ASSUME NEW k \in (a + 1) + 1 .. d + D PROVE input[k] = 0
      OBVIOUS
    <3>1. k \in a + 1 .. d + D
      OBVIOUS
    <3> QED BY <1>5, <1>6, <3>1 DEF InPadding
  <2>11. InPadding'
    <3>1. at' > 0
      BY <2>7
    <3> QED BY <1>4, <1>6, <1>9, <1>10, <2>7, <2>10, <3>1 DEF InPadding
  <2> QED BY <1>9, <2>6, <2>9, <2>11 DEF ReportInv
<1> QED BY <1>12, <1>13

LEMMA ElementDecoded ==
  ASSUME Shaped, job.kind = "report", ReportInv, Element
  PROVE  Shaped' /\ ReportInv'
<1>1. nibble = 0 /\ out \in Seq(Seq(Int)) /\ at > 0 /\ at < limit /\ end = "running"
  BY DEF ReportInv, Element, NextElement, Does
<1>2. at # 0
  BY <1>1
<1>3. CASE InPadding
  BY <1>1, <1>3, PaddingTold
<1>4. CASE ~InPadding
  <2>1. PICK pos : Placed(pos) /\ \E n \in 0 .. Len(job.elements) : AtElement(pos, n)
    BY <1>2, <1>4 DEF ReportInv
  <2>2. PICK n \in 0 .. Len(job.elements) : AtElement(pos, n)
    BY <2>1
  <2>3. IsReport(job) /\ FromJob
    BY ReportJobs DEF Shaped
  <2>4. PICK N \in Nat, m \in Nat, D \in Nat, d \in Nat : ReportHas(N, m, D, d, pos)
    BY <2>1, <2>3, ReportIs
  <2>5. /\ N = Len(job.elements) /\ d = DataAt /\ Len(DataBytes(job)) = D /\ m = job.padding
        /\ pos[N] + m = D /\ pos \in [0 .. N -> Nat]
        /\ \A k \in 1 .. m : DataBytes(job)[pos[N] + k] = 0
        /\ \A k \in 1 .. D : input[d + k] = DataBytes(job)[k]
    BY <2>4 DEF ReportHas, DataIn, ReportIn, DataAt
  <2>6. CASE n < N
    BY <1>1, <2>1, <2>2, <2>5, <2>6, ElementKnown
  <2>7. CASE n = N
    <3>1. PICK x \in Nat : x = pos[N]
      BY <2>5
    <3>2. at = d + x /\ limit = d + D /\ x + m = D
      BY <2>2, <2>5, <2>7, <3>1 DEF AtElement
    <3>3. m # 0
      BY <1>1, <3>2
    <3>4. ~Sound
      BY <2>5, <3>3, SMT DEF Sound
    <3>5. \A k \in at + 1 .. limit : input[k] = 0
      <4> SUFFICES ASSUME NEW k \in d + x + 1 .. d + D PROVE input[k] = 0
        BY <3>2
      <4>1. PICK q \in 1 .. m : k = d + (x + q)
        <5>1. k - d - x \in 1 .. m /\ k = d + (x + (k - d - x))
          BY <3>2
        <5> QED BY <5>1
      <4>2. x + q \in 1 .. D
        BY <3>2
      <4>3. DataBytes(job)[x + q] = 0
        BY <2>5, <3>1
      <4> QED BY <2>5, <4>1, <4>2, <4>3
    <3>6. InPadding
      BY <1>1, <2>5, <3>2, <3>4, <3>5 DEF InPadding
    <3> QED BY <1>4, <3>6
  <2>8. n < N \/ n = N
    BY <2>5
  <2> QED BY <2>6, <2>7, <2>8
<1> QED BY <1>3, <1>4

LEMMA ReportEnded ==
  ASSUME Shaped, job.kind = "report", ReportInv, ReportEnds
  PROVE  Shaped' /\ ReportInv'
<1>1. /\ nibble = 0 /\ out \in Seq(Seq(Int)) /\ at > 0 /\ at >= limit /\ end = "running"
      /\ end' = "true" /\ UNCHANGED <<job, input, at, limit, reach, nibble, out>>
  BY DEF ReportInv, ReportEnds, Does, Ends
<1>2. Shaped'
  BY <1>1 DEF Shaped, FromJob
<1>3. DataAt' = DataAt /\ ReportTold' = ReportTold /\ DataBytes(job)' = DataBytes(job) /\ Sound' = Sound
  BY <1>1 DEF DataAt, ReportTold, Sound, Room
<1>4. CASE InPadding
  <2>1. InPadding'
    BY <1>1, <1>3, <1>4 DEF InPadding
  <2> QED BY <1>1, <1>2, <2>1 DEF ReportInv
<1>5. CASE ~InPadding
  <2>1. at # 0
    BY <1>1
  <2>2. PICK pos : Placed(pos) /\ \E n \in 0 .. Len(job.elements) : AtElement(pos, n)
    BY <1>5, <2>1 DEF ReportInv
  <2>3. PICK n \in 0 .. Len(job.elements) : AtElement(pos, n)
    BY <2>2
  <2>4. IsReport(job) /\ FromJob
    BY ReportJobs DEF Shaped
  <2>5. PICK N \in Nat, m \in Nat, D \in Nat, d \in Nat : ReportHas(N, m, D, d, pos)
    BY <2>2, <2>4, ReportIs
  <2>6. /\ N = Len(job.elements) /\ d = DataAt /\ Len(DataBytes(job)) = D /\ m = job.padding
        /\ pos[N] + m = D /\ pos \in [0 .. N -> Nat]
    BY <2>5 DEF ReportHas, DataIn, ReportIn, DataAt
  <2>7. n = N /\ m = 0
    <3>1. CASE n # N
      <4>1. n \in 0 .. N
        BY <2>6
      <4>2. PICK c \in Nat, w \in Nat :
              /\ ElementAt(job.elements[n + 1], c, w, d + pos[n])
              /\ pos[n + 1] = pos[n] + w + 2 /\ d + pos[n + 1] <= d + D
              /\ Sound => LengthKnown(job.elements[n + 1], w)
        BY <2>4, <2>5, <3>1, <4>1, ElementOf
      <4>3. n + 1 \in 0 .. N
        BY <3>1, <4>1
      <4>4. PICK x \in Nat, y \in Nat : x = pos[n] /\ y = pos[n + 1]
        BY <2>6, <4>1, <4>3
      <4>5. d + x >= d + D
        BY <1>1, <2>3, <2>6, <4>4 DEF AtElement
      <4>6. y = x + w + 2 /\ d + y <= d + D
        BY <4>2, <4>4
      <4> QED BY <4>5, <4>6
    <3>2. CASE n = N
      <4>1. PICK x \in Nat : x = pos[N]
        BY <2>6
      <4>2. d + x >= d + D /\ x + m = D
        BY <1>1, <2>3, <2>6, <3>2, <4>1 DEF AtElement
      <4> QED BY <3>2, <4>2
    <3> QED BY <3>1, <3>2
  <2>8. AtElement(pos, n)'
    BY <1>1, <1>3, <2>3, <2>6, <2>7 DEF AtElement
  <2>9. Placed(pos)'
    BY <1>1, <2>2 DEF Placed, Blocks
  <2>10. n \in 0 .. Len(job'.elements)
    BY <1>1
  <2>11. (\E p : Placed(p) /\ \E k \in 0 .. Len(job.elements) : AtElement(p, k))'
    BY <2>8, <2>9, <2>10
  <2> QED BY <1>1, <1>2, <2>11 DEF ReportInv
<1> QED BY <1>4, <1>5

-----------------------------------------------------------------------------
(* Data from the air: any bytes, with enough behind them.                  *)
AirInv ==
  /\ nibble = 0 /\ out \in Seq(Seq(Int)) /\ end \in {"running", "true", "assert"}
  /\ limit = Len(job.data)
  /\ reach <= limit + 255 /\ reach <= at + 3

(* The value of an element is no more than 254 bytes, and hardly more than *)
(* its length says.                                                        *)
LEMMA UsesBounded ==
  ASSUME NEW type, NEW length \in Nat, length < 256, type = 18 => length = 5
  PROVE  Uses(type, length) \in Nat /\ Uses(type, length) <= 254 /\ Uses(type, length) <= length + 2
<1>1. CASE type \in {1, 10}
  <2>1. Uses(type, length) = 1
    BY <1>1, Types DEF Uses
  <2> QED BY <2>1
<1>2. CASE type \in {2, 255}
  <2>1. Uses(type, length) = 2
    BY <1>2, Types DEF Uses
  <2> QED BY <2>1
<1>3. CASE type = 18
  <2>1. Uses(type, length) = 4 /\ length = 5
    BY <1>3, Types DEF Uses
  <2> QED BY <2>1
<1>4. CASE type \in {8, 9}
  <2>1. Uses(type, length) = IF length > 0 THEN length - 1 ELSE 0
    BY <1>4, Types DEF Uses, NameLength
  <2> QED BY <2>1
<1>5. CASE type \notin {1, 2, 8, 9, 10, 18, 255}
  <2>1. Uses(type, length) = 0
    BY <1>5, NothingUsedOf
  <2> QED BY <2>1
<1> QED BY <1>1, <1>2, <1>3, <1>4, <1>5

(* What is told of an element are numbers, whatever its bytes are, as long *)
(* as they are there.                                                      *)
LEMMA AirTold ==
  ASSUME NEW type \in Nat, NEW length \in Nat, NEW b \in Nat, input \in Seq(Octet),
         b + 4 <= Len(input), b + length <= Len(input) + 1
  PROVE  Told(type, length, b) \in Seq(Int)
<1>1. PICK l \in Nat : l = Len(input) /\ b + 4 <= l /\ b + length <= l + 1
  BY LenProperties
<1>2. \A k \in 0 .. 3 : Byte(b + k) \in Int
  <2> SUFFICES ASSUME NEW k \in 0 .. 3 PROVE Byte(b + k) \in Int
    OBVIOUS
  <2>1. (b + k) + 1 \in 1 .. l
    BY <1>1
  <2>2. Byte(b + k) \in Octet
    BY <1>1, <2>1, ElementOfSeq DEF Byte
  <2> QED BY <2>2, Ranges
<1>3. PICK w \in Int, x \in Int, y \in Int, z \in Int :
        w = Byte(b) /\ x = Byte(b + 1) /\ y = Byte(b + 2) /\ z = Byte(b + 3)
  <2>1. b + 0 = b
    OBVIOUS
  <2> QED BY <1>2, <2>1
<1>4. Value16(b) \in Int /\ Value16(b + 2) \in Int
  <2>1. (b + 2) + 1 = b + 3
    OBVIOUS
  <2>2. Value16(b) = w + 256 * x /\ Value16(b + 2) = y + 256 * z
    BY <1>3, <2>1 DEF Value16
  <2> QED BY <2>2
<1>5. CASE type = 1
  <2>1. Told(type, length, b) = <<w>>
    BY <1>3, <1>5, ToldOf
  <2> QED BY <2>1
<1>6. CASE type = 10
  <2>1. Signed(w, 256) \in Int
    BY DEF Signed
  <2>2. Told(type, length, b) = <<Signed(w, 256)>>
    BY <1>3, <1>6, ToldOf
  <2>3. <<Signed(w, 256)>> \in Seq(Int)
    BY <2>1
  <2> QED BY <2>2, <2>3, Zenon
<1>7. CASE type = 18
  <2>1. Told(type, length, b) = <<Value16(b), Value16(b + 2)>>
    BY <1>7, ToldOf
  <2>2. <<Value16(b), Value16(b + 2)>> \in Seq(Int)
    BY <1>4
  <2> QED BY <2>1, <2>2, Zenon
<1>8. CASE type \in {2, 255}
  <2>1. Told(type, length, b) = <<Value16(b)>>
    BY <1>8, ToldOf
  <2>2. <<Value16(b)>> \in Seq(Int)
    BY <1>4
  <2> QED BY <2>1, <2>2, Zenon
<1>9. CASE type \in {8, 9}
  <2>1. Told(type, length, b) = Value(b, length - 1)
    BY <1>9, ToldOf
  <2>2. PICK p \in Int, q \in Int : p = b + 1 /\ q = b + (length - 1)
    OBVIOUS
  <2>3. Value(b, length - 1) = SubSeq(input, p, q)
    BY <2>2 DEF Value
  <2>4. \A i \in p .. q : input[i] \in Octet
    <3> SUFFICES ASSUME NEW i \in p .. q PROVE input[i] \in Octet
      OBVIOUS
    <3>1. i \in 1 .. l
      BY <1>1, <2>2
    <3> QED BY <1>1, <3>1, ElementOfSeq
  <2>5. SubSeq(input, p, q) \in Seq(Octet)
    BY <2>4, SubSeqProperties
  <2>6. SubSeq(input, p, q) \in Seq(Int)
    BY <2>5, OctetsAreInts, Zenon
  <2> QED BY <2>1, <2>3, <2>6, Zenon
<1>10. CASE type \notin {1, 2, 8, 9, 10, 18, 255}
  <2>1. Told(type, length, b) = <<>>
    BY <1>10, NothingToldOf, Zenon
  <2>2. <<>> \in Seq(Int)
    OBVIOUS
  <2> QED BY <2>1, <2>2, Zenon
<1> QED BY <1>5, <1>6, <1>7, <1>8, <1>9, <1>10

LEMMA AirIs ==
  ASSUME FromJob, job.kind = "air"
  PROVE  /\ Layout(job) = job.data /\ job.data \in Seq(Octet)
         /\ input \in Seq(Octet) /\ Len(input) >= Len(job.data) + 255
         /\ \A i \in 1 .. Len(input) : input[i] \in Octet
<1>1. /\ job.data \in Seq(Octet) /\ job.behind \in Seq(Octet) /\ Len(job.behind) >= 255
  BY JobsWellFormed, SMT DEF FromJob, WellFormed
<1>2. Layout(job) = job.data
  BY SMT DEF Layout
<1>3. input = job.data \o job.behind
  BY <1>2 DEF FromJob
<1>4. /\ input \in Seq(Octet) /\ Len(input) = Len(job.data) + Len(job.behind)
      /\ Len(job.data) \in Nat /\ Len(job.behind) \in Nat
      /\ \A i \in 1 .. Len(input) : input[i] \in Octet
  BY <1>1, <1>3, InputIs
<1>5. Len(input) >= Len(job.data) + 255
  BY <1>1, <1>4
<1> QED BY <1>1, <1>2, <1>4, <1>5

-----------------------------------------------------------------------------
(* The inductive invariant: that of the kind of the job.                   *)
KindInv ==
  /\ job.kind = "address"   => AddressInv
  /\ job.kind = "report"    => ReportInv
  /\ job.kind = "air"       => AirInv
  /\ job.kind = "services"  => ServicesInv
  /\ job.kind = "barometer" => SensorInv(6, BarometerTold)
  /\ job.kind = "imu"       => SensorInv(18, ImuTold)
  /\ job.kind = "open"      => OpenInv
  /\ job.kind = "write"     => WriteInv

CodecInv == Shaped /\ KindInv

KindsOfJobs == {"address", "report", "air", "services", "barometer", "imu", "open", "write"}

LEMMA KindIs ==
  ASSUME FromJob
  PROVE  job.kind \in KindsOfJobs
<1>1. WellFormed(job)
  BY JobsWellFormed DEF FromJob
<1> QED BY <1>1, SMT DEF WellFormed, KindsOfJobs

LEMMA LayoutIs ==
  ASSUME FromJob
  PROVE  Layout(job) \in Seq(Octet) /\ Len(Layout(job)) \in Nat
<1>1. CASE job.kind = "address"
  BY <1>1, TextIs, LenProperties
<1>2. CASE job.kind = "report"
  BY <1>2, ReportIs, LenProperties
<1>3. CASE job.kind = "services"
  <2>1. PICK N \in Nat, u \in Nat, d \in Nat, p \in {2, 3} : EntriesIn(N, u, d, p)
    BY <1>3, ServicesAre
  <2> QED BY <2>1, LenProperties DEF EntriesIn
<1>4. CASE job.kind = "barometer"
  BY <1>4, BarometerIs, LenProperties
<1>5. CASE job.kind = "imu"
  BY <1>5, ImuIs, LenProperties
<1>6. CASE job.kind \in {"open", "write"}
  <2>1. Layout(job) = <<>>
    BY <1>6, SMT DEF Layout
  <2> QED BY <2>1
<1>7. CASE job.kind = "air"
  BY <1>7, AirIs, LenProperties
<1> QED BY KindIs, <1>1, <1>2, <1>3, <1>4, <1>5, <1>6, <1>7 DEF KindsOfJobs

LEMMA Started == Init => CodecInv
<1> SUFFICES ASSUME Init PROVE CodecInv
  OBVIOUS
<1>1. /\ FromJob /\ at = 0 /\ limit = Len(Layout(job)) /\ reach = 0 /\ nibble = 0 /\ end = "running"
      /\ out = IF job.kind = "address" THEN <<<<0, 0, 0, 0, 0, 0>>>> ELSE <<>>
  BY DEF Init, FromJob
<1>2. Layout(job) \in Seq(Octet) /\ Len(Layout(job)) \in Nat
  BY <1>1, LayoutIs
<1>3. Shaped
  BY <1>1, <1>2 DEF Shaped
<1>4. ASSUME job.kind = "address" PROVE AddressInv
  <2>1. Len(job.text) \in Nat /\ limit = Len(job.text) + 1
    BY <1>1, <1>4, TextIs
  <2>2. PICK l \in Nat : l = Len(job.text) /\ limit = l + 1
    BY <2>1
  <2>3. ValidUpto(job.text, 0)
    BY DEF ValidUpto
  <2>4. PICK a : a = <<0, 0, 0, 0, 0, 0>>
    OBVIOUS
  <2>5. ParsedUpto(job.text, 0, a)
    <3>1. a \in Address
      <4>1. 0 \in Octet
        BY SmallOctets
      <4> QED BY <2>4, <4>1 DEF Address
    <3>2. \A i \in 0 .. 5 : ~(3 * i + 2 <= 0)
      OBVIOUS
    <3> QED BY <3>1, <3>2 DEF ParsedUpto
  <2>6. out = <<a>>
    BY <1>1, <1>4, <2>4
  <2>7. at <= 18 /\ at <= l /\ reach <= limit /\ 0 % 3 # 1
    BY <1>1, <2>2
  <2> QED BY <1>1, <2>2, <2>3, <2>5, <2>6, <2>7 DEF AddressInv
<1>5. ASSUME job.kind # "address" PROVE out = <<>>
  BY <1>1, <1>5
<1>6. ASSUME job.kind = "report" PROVE ReportInv
  BY <1>1, <1>5, <1>6 DEF ReportInv
<1>7. ASSUME job.kind = "services" PROVE ServicesInv
  BY <1>1, <1>5, <1>7 DEF ServicesInv
<1>8. ASSUME job.kind = "barometer" PROVE SensorInv(6, BarometerTold)
  BY <1>1, <1>5, <1>8 DEF SensorInv
<1>9. ASSUME job.kind = "imu" PROVE SensorInv(18, ImuTold)
  BY <1>1, <1>5, <1>9 DEF SensorInv
<1>10. ASSUME job.kind \in {"open", "write"} PROVE limit = 0
  <2>1. Layout(job) = <<>>
    BY <1>10, SMT DEF Layout
  <2> QED BY <1>1, <2>1
<1>11. ASSUME job.kind = "open" PROVE OpenInv
  BY <1>1, <1>5, <1>10, <1>11 DEF OpenInv
<1>12. ASSUME job.kind = "write" PROVE WriteInv
  BY <1>1, <1>5, <1>10, <1>12 DEF WriteInv
<1>13. ASSUME job.kind = "air" PROVE AirInv
  <2>1. limit = Len(job.data)
    BY <1>1, <1>13, AirIs
  <2>2. limit \in Nat
    BY <1>1, <1>2
  <2> QED BY <1>1, <1>5, <1>13, <2>1, <2>2 DEF AirInv
<1> QED BY <1>3, <1>4, <1>6, <1>7, <1>8, <1>9, <1>11, <1>12, <1>13 DEF CodecInv, KindInv

(* A step of one kind leaves the others alone.                             *)
LEMMA OfOneKind ==
  ASSUME job' = job, Shaped',
         \/ job.kind = "address" /\ AddressInv'
         \/ job.kind = "report" /\ ReportInv'
         \/ job.kind = "air" /\ AirInv'
         \/ job.kind = "services" /\ ServicesInv'
         \/ job.kind = "barometer" /\ SensorInv(6, BarometerTold)'
         \/ job.kind = "imu" /\ SensorInv(18, ImuTold)'
         \/ job.kind = "open" /\ OpenInv'
         \/ job.kind = "write" /\ WriteInv'
  PROVE  CodecInv'
<1>1. job'.kind = job.kind
  OBVIOUS
<1> QED BY <1>1 DEF CodecInv, KindInv

LEMMA StuttersKept ==
  ASSUME CodecInv, UNCHANGED vars
  PROVE  CodecInv'
<1>1. UNCHANGED <<job, input, at, limit, reach, nibble, out, end>>
  BY DEF vars
<1>2. Shaped'
  BY <1>1 DEF CodecInv, Shaped, FromJob
<1>3. AddressInv' = AddressInv
  BY <1>1 DEF AddressInv
<1>4. ReportInv' = ReportInv
  <2>1. /\ DataAt' = DataAt /\ ReportTold' = ReportTold /\ Blocks' = Blocks
        /\ (job.padding)' = job.padding /\ Sound' = Sound
    BY <1>1 DEF DataAt, ReportTold, Blocks, Sound, Room
  <2>2. \A pos : Placed(pos)' = Placed(pos)
    BY <2>1 DEF Placed
  <2>3. \A pos, n : AtElement(pos, n)' = AtElement(pos, n)
    BY <1>1, <2>1 DEF AtElement
  <2>4. InPadding' = InPadding
    BY <1>1, <2>1 DEF InPadding
  <2> QED BY <1>1, <2>2, <2>3, <2>4 DEF ReportInv
<1>5. ServicesInv' = ServicesInv
  BY <1>1 DEF ServicesInv, Start, ServicesTold
<1>6. SensorInv(6, BarometerTold)' = SensorInv(6, BarometerTold)
  <2>1. BarometerTold' = BarometerTold
    BY <1>1 DEF BarometerTold, Value24, Value16, Byte
  <2> QED BY <1>1, <2>1 DEF SensorInv
<1>7. SensorInv(18, ImuTold)' = SensorInv(18, ImuTold)
  <2>1. ImuTold' = ImuTold
    BY <1>1 DEF ImuTold, Value16, Byte
  <2> QED BY <1>1, <2>1 DEF SensorInv
<1>8. OpenInv' = OpenInv
  BY <1>1 DEF OpenInv, OpenPacket
<1>9. WriteInv' = WriteInv
  BY <1>1 DEF WriteInv, WritePacket, WriteHead, ParameterLength
<1>10. AirInv' = AirInv
  BY <1>1 DEF AirInv
<1> QED BY <1>1, <1>2, <1>3, <1>4, <1>5, <1>6, <1>7, <1>8, <1>9, <1>10 DEF CodecInv, KindInv

(* One pass of the loop over data from the air: the length and the type    *)
(* are bytes, so that the value is at most 254 bytes long.                 *)
LEMMA AirDecoded ==
  ASSUME Shaped, job.kind = "air", AirInv, AirElement
  PROVE  Shaped' /\ AirInv'
<1>1. /\ at < limit /\ at \in Nat /\ limit \in Nat /\ reach \in Nat /\ end = "running"
      /\ limit = Len(job.data) /\ FromJob /\ UNCHANGED <<job, input, limit, nibble>>
  BY DEF Shaped, AirInv, AirElement, NextElement, Does
<1>2. /\ input \in Seq(Octet) /\ Len(input) \in Nat /\ Len(input) >= limit + 255
      /\ \A i \in 1 .. Len(input) : input[i] \in Octet
  BY <1>1, AirIs, LenProperties
<1>3. PICK length \in Nat, type \in Nat : /\ length = Byte(at) /\ type = Byte(at + 1)
                                         /\ length < 256 /\ type < 256
  <2>1. Byte(at) \in Octet /\ Byte(at + 1) \in Octet
    <3>1. at + 1 \in 1 .. Len(input) /\ (at + 1) + 1 \in 1 .. Len(input)
      BY <1>1, <1>2
    <3> QED BY <1>2, <3>1 DEF Byte
  <2> QED BY <2>1, Ranges
<1>5. CASE type \in DOMAIN OneLength /\ length # OneLength[type]
  <2>1. Ends("assert") /\ Looks(at + 2)
    BY <1>3, <1>5 DEF AirElement, NextElement
  <2>2. /\ end' = "assert" /\ at' = at /\ out' = out
        /\ reach' = IF reach < at + 2 THEN at + 2 ELSE reach
    BY <2>1 DEF Ends, Looks
  <2> QED BY <1>1, <2>2 DEF Shaped, FromJob, AirInv
<1>6. CASE ~(type \in DOMAIN OneLength /\ length # OneLength[type])
  <2>1. /\ out' = Append(out, <<type>> \o Told(type, length, at + 2))
        /\ Looks(at + 2 + Uses(type, length))
        /\ at' = at + 1 + length /\ end' = end
    BY <1>3, <1>6 DEF AirElement, NextElement
  <2>2. reach' = IF reach < at + 2 + Uses(type, length) THEN at + 2 + Uses(type, length) ELSE reach
    BY <2>1 DEF Looks
  <2>3. /\ at' \in Nat /\ reach' \in Nat
        /\ reach' <= limit + 255 /\ reach' <= at' + 3
    <3>1. PICK u \in Nat : u = Uses(type, length) /\ u <= 254 /\ u <= length + 2
      <4>1. type = 18 => length = 5
        BY <1>6, Types
      <4> QED BY <1>3, <4>1, UsesBounded
    <3>2. reach <= limit + 255 /\ reach <= at + 3
      BY DEF AirInv
    <3> QED BY <1>1, <2>1, <2>2, <3>1, <3>2
  <2>4. Told(type, length, at + 2) \in Seq(Int)
    <3>1. PICK l \in Nat : l = Len(input) /\ l >= limit + 255
      BY <1>2
    <3>2. PICK a \in Nat, m \in Nat : a = at /\ m = limit /\ a < m
      BY <1>1
    <3>3. PICK b \in Nat : b = a + 2
      OBVIOUS
    <3>4. b + 4 <= l /\ b + length <= l + 1
      BY <1>3, <3>1, <3>2, <3>3
    <3> QED BY <1>2, <3>1, <3>2, <3>3, <3>4, AirTold
  <2>5. out' \in Seq(Seq(Int))
    <3>1. <<type>> \o Told(type, length, at + 2) \in Seq(Int)
      <4>1. <<type>> \in Seq(Int)
        BY <1>3
      <4> QED BY <2>4, <4>1
    <3>2. out \in Seq(Seq(Int))
      BY DEF AirInv
    <3> QED BY <2>1, <3>1, <3>2
  <2> QED BY <1>1, <2>1, <2>3, <2>5 DEF Shaped, FromJob, AirInv
<1> QED BY <1>5, <1>6

LEMMA AirEnded ==
  ASSUME Shaped, job.kind = "air", AirInv, AirEnds
  PROVE  Shaped' /\ AirInv'
<1>1. /\ end' = "true" /\ UNCHANGED <<job, input, at, limit, reach, nibble, out>>
  BY DEF AirEnds, Does, Ends
<1> QED BY <1>1 DEF Shaped, FromJob, AirInv

LEMMA StepsKept ==
  ASSUME CodecInv, Next
  PROVE  CodecInv'
<1>1. Shaped /\ KindInv
  BY DEF CodecInv
<1>2. CASE ParseCharacter
  <2>1. job.kind = "address" /\ job' = job
    BY <1>2 DEF ParseCharacter, Does
  <2>2. AddressInv
    BY <1>1, <2>1 DEF KindInv
  <2>3. Shaped' /\ AddressInv'
    BY <1>1, <1>2, <2>1, <2>2, CharacterParsed
  <2> QED BY <2>1, <2>3, OfOneKind
<1>3. CASE ParseEnds
  <2>1. job.kind = "address" /\ job' = job
    BY <1>3 DEF ParseEnds, Does
  <2>2. AddressInv
    BY <1>1, <2>1 DEF KindInv
  <2>3. Shaped' /\ AddressInv'
    BY <1>1, <1>3, <2>1, <2>2, TextEnded
  <2> QED BY <2>1, <2>3, OfOneKind
<1>4. CASE Report
  <2>1. job.kind = "report" /\ job' = job
    BY <1>4 DEF Report, Does
  <2>2. ReportInv
    BY <1>1, <2>1 DEF KindInv
  <2>3. Shaped' /\ ReportInv'
    BY <1>1, <1>4, <2>1, <2>2, ReportStarted
  <2> QED BY <2>1, <2>3, OfOneKind
<1>5. CASE Element
  <2>1. job.kind = "report" /\ job' = job
    BY <1>5 DEF Element, NextElement, Does
  <2>2. ReportInv
    BY <1>1, <2>1 DEF KindInv
  <2>3. Shaped' /\ ReportInv'
    BY <1>1, <1>5, <2>1, <2>2, ElementDecoded
  <2> QED BY <2>1, <2>3, OfOneKind
<1>6. CASE ReportEnds
  <2>1. job.kind = "report" /\ job' = job
    BY <1>6 DEF ReportEnds, Does
  <2>2. ReportInv
    BY <1>1, <2>1 DEF KindInv
  <2>3. Shaped' /\ ReportInv'
    BY <1>1, <1>6, <2>1, <2>2, ReportEnded
  <2> QED BY <2>1, <2>3, OfOneKind
<1>7. CASE Services
  <2>1. job.kind = "services" /\ job' = job
    BY <1>7 DEF Services, Does
  <2>2. ServicesInv
    BY <1>1, <2>1 DEF KindInv
  <2>3. Shaped' /\ ServicesInv'
    BY <1>1, <1>7, <2>1, <2>2, ServicesFramed
  <2> QED BY <2>1, <2>3, OfOneKind
<1>8. CASE Service
  <2>1. job.kind = "services" /\ job' = job
    BY <1>8 DEF Service, Does
  <2>2. ServicesInv
    BY <1>1, <2>1 DEF KindInv
  <2>3. Shaped' /\ ServicesInv'
    BY <1>1, <1>8, <2>1, <2>2, ServiceTold
  <2> QED BY <2>1, <2>3, OfOneKind
<1>9. CASE ServicesEnd
  <2>1. job.kind = "services" /\ job' = job
    BY <1>9 DEF ServicesEnd, Does
  <2>2. ServicesInv
    BY <1>1, <2>1 DEF KindInv
  <2>3. Shaped' /\ ServicesInv'
    BY <1>1, <1>9, <2>1, <2>2, ServicesEnded
  <2> QED BY <2>1, <2>3, OfOneKind
<1>10. CASE Barometer
  <2>1. job.kind = "barometer" /\ job' = job
    BY <1>10 DEF Barometer, Does, Decoded
  <2>2. SensorInv(6, BarometerTold)
    BY <1>1, <2>1 DEF KindInv
  <2>3. Shaped' /\ SensorInv(6, BarometerTold)'
    BY <1>1, <1>10, <2>1, <2>2, BarometerDecoded
  <2> QED BY <2>1, <2>3, OfOneKind
<1>11. CASE Imu
  <2>1. job.kind = "imu" /\ job' = job
    BY <1>11 DEF Imu, Does, Decoded
  <2>2. SensorInv(18, ImuTold)
    BY <1>1, <2>1 DEF KindInv
  <2>3. Shaped' /\ SensorInv(18, ImuTold)'
    BY <1>1, <1>11, <2>1, <2>2, ImuDecoded
  <2> QED BY <2>1, <2>3, OfOneKind
<1>12. CASE Open
  <2>1. job.kind = "open" /\ job' = job
    BY <1>12 DEF Open, Does
  <2>2. OpenInv
    BY <1>1, <2>1 DEF KindInv
  <2>3. Shaped' /\ OpenInv'
    BY <1>1, <1>12, <2>1, <2>2, Opened
  <2> QED BY <2>1, <2>3, OfOneKind
<1>13. CASE Write
  <2>1. job.kind = "write" /\ job' = job
    BY <1>13 DEF Write, Does
  <2>2. WriteInv
    BY <1>1, <2>1 DEF KindInv
  <2>3. Shaped' /\ WriteInv'
    BY <1>1, <1>13, <2>1, <2>2, ValueWritten
  <2> QED BY <2>1, <2>3, OfOneKind
<1>14. CASE Finished
  BY <1>14, StuttersKept DEF Finished
<1>15. CASE AirElement
  <2>1. job.kind = "air" /\ job' = job
    BY <1>15 DEF AirElement, NextElement, Does
  <2>2. AirInv
    BY <1>1, <2>1 DEF KindInv
  <2>3. Shaped' /\ AirInv'
    BY <1>1, <1>15, <2>1, <2>2, AirDecoded
  <2> QED BY <2>1, <2>3, OfOneKind
<1>16. CASE AirEnds
  <2>1. job.kind = "air" /\ job' = job
    BY <1>16 DEF AirEnds, Does
  <2>2. AirInv
    BY <1>1, <2>1 DEF KindInv
  <2>3. Shaped' /\ AirInv'
    BY <1>1, <1>16, <2>1, <2>2, AirEnded
  <2> QED BY <2>1, <2>3, OfOneKind
<1> QED BY <1>2, <1>3, <1>4, <1>5, <1>6, <1>7, <1>8, <1>9, <1>10, <1>11, <1>12, <1>13, <1>14, <1>15,
           <1>16 DEF Next

LEMMA CodecInvHolds == Spec => []CodecInv
<1>1. CodecInv /\ [Next]_vars => CodecInv'
  BY StepsKept, StuttersKept
<1> QED BY <1>1, Started, PTL DEF Spec
-----------------------------------------------------------------------------
(* What the invariant says of types.                                       *)
LEMMA InputTyped ==
  ASSUME FromJob
  PROVE  \A i \in DOMAIN input : input[i] \in Octet
<1>1. CASE job.kind = "address"
  BY <1>1, TextIs
<1>2. CASE job.kind = "report"
  <2>1. input \in Seq(Octet)
    BY <1>2, ReportIs
  <2>2. DOMAIN input = 1 .. Len(input)
    BY <2>1, LenProperties
  <2> QED BY <2>1, <2>2, ElementOfSeq
<1>3. CASE job.kind = "services"
  <2>1. PICK N \in Nat, u \in Nat, d \in Nat, p \in {2, 3} : EntriesIn(N, u, d, p)
    BY <1>3, ServicesAre
  <2> QED BY <2>1 DEF EntriesIn
<1>4. CASE job.kind = "barometer"
  BY <1>4, BarometerIs
<1>5. CASE job.kind = "imu"
  BY <1>5, ImuIs
<1>6. CASE job.kind \in {"open", "write"}
  BY <1>6, CommandJobs
<1>7. CASE job.kind = "air"
  <2>1. input \in Seq(Octet)
    BY <1>7, AirIs
  <2>2. DOMAIN input = 1 .. Len(input)
    BY <2>1, LenProperties
  <2> QED BY <2>1, <2>2, ElementOfSeq
<1> QED BY KindIs, <1>1, <1>2, <1>3, <1>4, <1>5, <1>6, <1>7 DEF KindsOfJobs

LEMMA NibbleTyped ==
  ASSUME Shaped, KindInv
  PROVE  nibble \in Octet
<1>1. CASE job.kind = "address"
  <2>1. /\ ValidUpto(job.text, at) /\ at \in Nat
        /\ nibble = IF at % 3 = 1 THEN 16 * HexValue(job.text[at]) ELSE 0
    BY <1>1 DEF KindInv, AddressInv, Shaped
  <2>2. CASE at % 3 = 1
    <3>1. at \in 1 .. at /\ at % 3 # 0
      BY <2>1, <2>2
    <3>2. IsHex(job.text[at])
      BY <2>1, <3>1 DEF ValidUpto
    <3>3. HexValue(job.text[at]) \in Nat /\ HexValue(job.text[at]) < 16
      BY <3>2, HexCharacter
    <3>4. 16 * HexValue(job.text[at]) \in Octet
      BY <3>3, TwoDigits
    <3> QED BY <2>1, <2>2, <3>4
  <2>3. CASE at % 3 # 1
    BY <2>1, <2>3, SmallOctets
  <2> QED BY <2>2, <2>3
<1>2. CASE job.kind # "address"
  <2>1. nibble = 0
    <3>1. FromJob
      BY DEF Shaped
    <3> QED BY <1>2, <3>1, KindIs
            DEF KindsOfJobs, KindInv, ReportInv, AirInv, ServicesInv, SensorInv, OpenInv, WriteInv
  <2> QED BY <2>1, SmallOctets
<1> QED BY <1>1, <1>2

LEMMA CommandTyped ==
  ASSUME FromJob
  PROVE  /\ job.kind = "open" => \A junk \in {0, 4} : OpenPacket(junk) \in Seq(Int)
         /\ job.kind = "write" => WritePacket \in Seq(Int)
<1>1. ASSUME job.kind = "open", NEW junk \in {0, 4} PROVE OpenPacket(junk) \in Seq(Int)
  <2>1. job.vendor \in Vendors /\ job.address \in Address
    BY <1>1, CommandJobs
  <2> QED BY <2>1, OpenPacketIs
<1>2. ASSUME job.kind = "write" PROVE WritePacket \in Seq(Int)
  <2>1. /\ job.vendor \in Vendors /\ job.link \in Word /\ job.handle \in Word
        /\ job.value \in Seq(Octet) /\ Len(job.value) <= 255
    BY <1>2, CommandJobs
  <2> QED BY <2>1, WritePacketIs
<1> QED BY <1>1, <1>2

LEMMA ServicesTyped ==
  ASSUME FromJob, job.kind = "services", NEW n \in 0 .. Len(job.entries)
  PROVE  First(ServicesTold, n) \in Seq(Seq(Int))
<1>1. PICK N \in Nat, u \in Nat, d \in Nat, p \in {2, 3} : EntriesIn(N, u, d, p)
  BY ServicesAre
<1>2. N = Len(job.entries) /\ \A i \in 1 .. N : job.entries[i] \in Entry(u)
  BY <1>1 DEF EntriesIn
<1>3. n \in Nat /\ \A i \in 1 .. n : i \in 1 .. N
  BY <1>2
<1>4. \A i \in 1 .. n : ServicesTold[i] \in Seq(Int)
  <2>1. \A i \in 1 .. N : EntryTold(job.entries[i]) \in Seq(Int)
    BY <1>2, EntryIs
  <2>2. \A i \in 1 .. N : ServicesTold[i] = EntryTold(job.entries[i])
    BY <1>2 DEF ServicesTold
  <2> QED BY <1>3, <2>1, <2>2
<1> QED BY <1>3, <1>4 DEF First

LEMMA OneItem ==
  ASSUME NEW S, NEW s, NEW x \in S, s = <<>> \/ s = <<x>>
  PROVE  s \in Seq(S)
<1>1. CASE s = <<>>
  BY <1>1
<1>2. CASE s = <<x>>
  <2>1. <<x>> \in Seq(S)
    OBVIOUS
  <2> QED BY <1>2, <2>1
<1> QED BY <1>1, <1>2

LEMMA OutTyped ==
  ASSUME Shaped, KindInv
  PROVE  out \in Seq(Seq(Int)) /\ (job.kind = "address" => out \in Seq(Address))
<1>1. FromJob
  BY DEF Shaped
<1>2. CASE job.kind = "address"
  <2>1. PICK a : out = <<a>> /\ ParsedUpto(job.text, at, a)
    BY <1>2 DEF KindInv, AddressInv
  <2>2. a \in Address
    BY <2>1 DEF ParsedUpto
  <2>3. a \in Seq(Int)
    BY <2>2, AddressIs
  <2> QED BY <2>1, <2>2, <2>3
<1>3. CASE job.kind = "report"
  BY <1>3 DEF KindInv, ReportInv
<1>4. CASE job.kind = "services"
  <2>1. ServicesInv
    BY <1>4 DEF KindInv
  <2>2. CASE out = <<>>
    BY <1>4, <2>2
  <2>3. CASE \E n \in 0 .. Len(job.entries) : out = First(ServicesTold, n)
    BY <1>1, <1>4, <2>3, ServicesTyped
  <2> QED BY <2>1, <2>2, <2>3 DEF ServicesInv
<1>5. CASE job.kind = "barometer"
  <2>1. BarometerTold \in Seq(Int)
    BY <1>1, <1>5, BarometerIs
  <2>2. out = <<>> \/ out = <<BarometerTold>>
    BY <1>5 DEF KindInv, SensorInv
  <2>3. out \in Seq(Seq(Int))
    BY <2>1, <2>2, OneItem
  <2> QED BY <1>5, <2>3
<1>6. CASE job.kind = "imu"
  <2>1. ImuTold \in Seq(Int)
    BY <1>1, <1>6, ImuIs
  <2>2. out = <<>> \/ out = <<ImuTold>>
    BY <1>6 DEF KindInv, SensorInv
  <2>3. out \in Seq(Seq(Int))
    BY <2>1, <2>2, OneItem
  <2> QED BY <1>6, <2>3
<1>7. CASE job.kind = "open"
  <2>1. out = <<>> \/ \E junk \in {0, 4} : out = <<OpenPacket(junk)>>
    BY <1>7 DEF KindInv, OpenInv
  <2>2. \A junk \in {0, 4} : OpenPacket(junk) \in Seq(Int)
    BY <1>1, <1>7, CommandTyped
  <2>3. PICK x \in Seq(Int) : out = <<>> \/ out = <<x>>
    BY <2>1, <2>2
  <2>4. out \in Seq(Seq(Int))
    BY <2>3, OneItem
  <2> QED BY <1>7, <2>4
<1>8. CASE job.kind = "write"
  <2>1. out = <<>> \/ out = <<WritePacket>>
    BY <1>8 DEF KindInv, WriteInv
  <2>2. WritePacket \in Seq(Int)
    BY <1>1, <1>8, CommandTyped
  <2>3. out \in Seq(Seq(Int))
    BY <2>1, <2>2, OneItem
  <2> QED BY <1>8, <2>3
<1>9. CASE job.kind = "air"
  BY <1>9 DEF KindInv, AirInv
<1> QED BY KindIs, <1>1, <1>2, <1>3, <1>4, <1>5, <1>6, <1>7, <1>8, <1>9 DEF KindsOfJobs

(* Every variable has its type: what comes out are numbers, the bytes of a *)
(* parsed address are bytes, and so is the half of one that               *)
(* utl_parseAddress has, and nothing else than a byte is in memory.        *)
THEOREM TypeCorrect == Spec => []TypeOK
<1>1. CodecInv => TypeOK
  <2> SUFFICES ASSUME CodecInv PROVE TypeOK
    OBVIOUS
  <2>1. /\ Shaped /\ KindInv /\ FromJob /\ job \in Jobs
        /\ at \in Nat /\ limit \in Nat /\ reach \in Nat
        /\ end \in {"running", "true", "false", "assert", "overrun"}
    BY DEF CodecInv, Shaped, FromJob
  <2>2. \A i \in DOMAIN input : input[i] \in Octet
    BY <2>1, InputTyped
  <2>3. nibble \in Octet
    BY <2>1, NibbleTyped
  <2>4. out \in Seq(Seq(Int)) /\ (job.kind = "address" => out \in Seq(Address))
    BY <2>1, OutTyped
  <2> QED BY <2>1, <2>2, <2>3, <2>4 DEF TypeOK
<1> QED BY <1>1, CodecInvHolds, PTL

-----------------------------------------------------------------------------
(* What the invariant says of what has come out.                           *)
LEMMA ExpectedIs ==
  /\ job.kind = "report"    => Expected = ReportTold
  /\ job.kind = "services"  => Expected = ServicesTold
  /\ job.kind = "barometer" => Expected = <<<<job.values[1] % 16777216, job.values[2]>>>>
  /\ job.kind = "imu"       => Expected = <<job.values>>
<1>1. ASSUME job.kind = "report" PROVE Expected = ReportTold
  BY <1>1, SMT DEF Expected, ReportTold
<1>2. ASSUME job.kind = "services" PROVE Expected = ServicesTold
  BY <1>2, SMT DEF Expected, ServicesTold, EntryTold
<1>3. ASSUME job.kind = "barometer"
      PROVE  Expected = <<<<job.values[1] % 16777216, job.values[2]>>>>
  BY <1>3, SMT DEF Expected
<1>4. ASSUME job.kind = "imu" PROVE Expected = <<job.values>>
  BY <1>4, SMT DEF Expected
<1> QED BY <1>1, <1>2, <1>3, <1>4, SMT

LEMMA AddressTold ==
  ASSUME Shaped, job.kind = "address", AddressInv
  PROVE  /\ end = "true"  => /\ IsAddress(job.text)
                             /\ PrintAddress(out[1]) = [i \in 1 .. 17 |-> Lower(job.text[i])]
         /\ end = "false" => ~IsAddress(job.text)
<1>1. ASSUME end = "true"
      PROVE  IsAddress(job.text) /\ PrintAddress(out[1]) = [i \in 1 .. 17 |-> Lower(job.text[i])]
  <2>1. /\ at = 17 /\ Len(job.text) = 17 /\ ValidUpto(job.text, 17)
        /\ \E a : out = <<a>> /\ ParsedUpto(job.text, 17, a)
    BY <1>1 DEF AddressInv
  <2>2. PICK a : out = <<a>> /\ ParsedUpto(job.text, 17, a)
    BY <2>1
  <2>3. IsAddress(job.text) /\ PrintAddress(a) = [i \in 1 .. 17 |-> Lower(job.text[i])]
    BY <2>1, <2>2, PrintsAsParsed
  <2>4. out[1] = a
    BY <2>2
  <2> QED BY <2>3, <2>4
<1>2. ASSUME end = "false" PROVE ~IsAddress(job.text)
  BY <1>2 DEF AddressInv
<1> QED BY <1>1, <1>2

LEMMA ReportIsTold ==
  ASSUME Shaped, job.kind = "report", ReportInv, end = "true", Sound
  PROVE  out = ReportTold
<1>1. PICK pos, n : n \in 0 .. Len(job.elements) /\ AtElement(pos, n)
  BY DEF ReportInv, InPadding
<1>2. n = Len(job.elements) /\ out = First(ReportTold, n + 1)
  BY <1>1 DEF AtElement
<1>3. IsReport(job)
  BY ReportJobs DEF Shaped
<1>4. n \in Nat
  BY <1>1
<1> QED BY <1>2, <1>3, <1>4, ReportToldIs

LEMMA ServicesAreTold ==
  ASSUME Shaped, job.kind = "services", ServicesInv, end = "true"
  PROVE  out = ServicesTold
<1>1. out = First(ServicesTold, Len(job.entries))
  BY DEF ServicesInv
<1>2. First(ServicesTold, Len(job.entries)) = ServicesTold
  BY DEF First, ServicesTold
<1> QED BY <1>1, <1>2

(* What the library tells is what was sent: utl_parseAddress accepts the   *)
(* addresses and nothing else, and its result prints as it was written;    *)
(* reports of elements that the code knows the lengths of, services and    *)
(* sensor values come out whole and in order, but a temperature below zero *)
(* 2^24 too high.                                                          *)
THEOREM TellsAsSent == Spec => []ToldAsSent
<1>1. CodecInv => ToldAsSent
  <2> SUFFICES ASSUME CodecInv PROVE ToldAsSent
    OBVIOUS
  <2>1. Shaped /\ KindInv /\ FromJob
    BY DEF CodecInv, Shaped
  <2>2. CASE job.kind = "address"
    <3>1. AddressInv
      BY <2>1, <2>2 DEF KindInv
    <3> QED BY <2>1, <2>2, <3>1, AddressTold DEF ToldAsSent
  <2>3. CASE job.kind \in {"report", "services", "barometer", "imu"}
    <3>1. ASSUME end = "true", Sound PROVE out = Expected
      <4>1. CASE job.kind = "report"
        BY <2>1, <3>1, <4>1, ReportIsTold, ExpectedIs DEF KindInv
      <4>2. CASE job.kind = "services"
        BY <2>1, <3>1, <4>2, ServicesAreTold, ExpectedIs DEF KindInv
      <4>3. CASE job.kind = "barometer"
        <5>1. out = <<BarometerTold>>
          BY <2>1, <3>1, <4>3 DEF KindInv, SensorInv
        <5>2. job.missing = 0
          BY <3>1, <4>3 DEF Sound
        <5>3. BarometerTold = <<job.values[1] % 16777216, job.values[2]>>
          BY <2>1, <4>3, <5>2, BarometerIs, SMT
        <5> QED BY <4>3, <5>1, <5>3, ExpectedIs, SMT
      <4>4. CASE job.kind = "imu"
        <5>1. out = <<ImuTold>>
          BY <2>1, <3>1, <4>4 DEF KindInv, SensorInv
        <5>2. job.missing = 0
          BY <3>1, <4>4 DEF Sound
        <5>3. ImuTold = job.values
          BY <2>1, <4>4, <5>2, ImuIs
        <5> QED BY <4>4, <5>1, <5>3, ExpectedIs, SMT
      <4> QED BY <2>3, <4>1, <4>2, <4>3, <4>4
    <3> QED BY <2>3, <3>1 DEF ToldAsSent
  <2>4. CASE job.kind \in {"air", "open", "write"}
    BY <2>4 DEF ToldAsSent
  <2> QED BY <2>1, <2>2, <2>3, <2>4, KindIs DEF KindsOfJobs
<1> QED BY <1>1, CodecInvHolds, PTL

-----------------------------------------------------------------------------
(* What the invariant says of commands.                                    *)
LEMMA OpenFramed ==
  ASSUME Shaped, job.kind = "open", OpenInv, end = "true"
  PROVE  /\ Len(out[1]) = 4 + out[1][4] + (IF job.vendor = "ST" THEN Unwritten ELSE 0)
         /\ \E i \in {3, 5} : SubSeq(SubSeq(out[1], 5, 4 + out[1][4]), i + 1, i + 6) = job.address
<1>1. PICK junk \in {0, 4} : out = <<OpenPacket(junk)>>
  BY DEF OpenInv
<1>2. job.vendor \in Vendors /\ job.address \in Address
  BY CommandJobs DEF Shaped
<1>3. PICK p, i : p = OpenPacket(junk) /\ i = IF job.vendor = "TI" THEN 3 ELSE 5
  OBVIOUS
<1>4. /\ Len(p) = 4 + p[4] + (IF job.vendor = "ST" THEN Unwritten ELSE 0)
      /\ SubSeq(SubSeq(p, 5, 4 + p[4]), i + 1, i + 6) = job.address
  BY <1>2, <1>3, OpenPacketIs
<1>5. out[1] = p
  BY <1>1, <1>3
<1>6. i \in {3, 5}
  BY <1>3
<1> QED BY <1>4, <1>5, <1>6

LEMMA WriteFramed ==
  ASSUME Shaped, job.kind = "write", WriteInv, end = "true"
  PROVE  LET parameters == SubSeq(out[1], 5, 4 + out[1][4]) IN
           /\ Len(out[1]) = 4 + out[1][4]
           /\ IsPrefix(Bytes16(job.link) \o Bytes16(job.handle), parameters)
           /\ IsSuffix(job.value, parameters)
<1>1. out = <<WritePacket>> /\ Len(WritePacket) <= CommandSize
  BY DEF WriteInv
<1>2. PICK p : p = WritePacket
  OBVIOUS
<1>3. /\ job.vendor \in Vendors /\ job.link \in Word /\ job.handle \in Word
      /\ job.value \in Seq(Octet) /\ Len(job.value) <= 255
  BY CommandJobs DEF Shaped
<1>4. p \in Seq(Int) /\ (Len(p) <= 255 =>
        /\ Len(p) = 4 + p[4]
        /\ IsPrefix(Bytes16(job.link) \o Bytes16(job.handle), SubSeq(p, 5, 4 + p[4]))
        /\ IsSuffix(job.value, SubSeq(p, 5, 4 + p[4])))
  BY <1>2, <1>3, WritePacketIs
<1>5. Len(p) <= 255
  <2>1. Len(p) \in Nat /\ Len(p) <= CommandSize
    BY <1>1, <1>2, <1>4, LenProperties
  <2>2. CommandSize \in Nat /\ CommandSize < 256
    BY SizeAssumption, Ranges
  <2> QED BY <2>1, <2>2
<1>6. out[1] = p
  BY <1>1, <1>2
<1> QED BY <1>4, <1>5, <1>6

(* The header of a command counts the bytes that follow it, except for the *)
(* six that lb_openDeviceConnection_ST sends too many, and the address,    *)
(* the handles and the value are where the chip looks for them.            *)
THEOREM CommandsAreFramed == Spec => []CommandsFramed
<1>1. CodecInv => CommandsFramed
  <2> SUFFICES ASSUME CodecInv PROVE CommandsFramed
    OBVIOUS
  <2>1. Shaped /\ KindInv
    BY DEF CodecInv
  <2>2. CASE job.kind = "open"
    <3>1. OpenInv
      BY <2>1, <2>2 DEF KindInv
    <3> QED BY <2>1, <2>2, <3>1, OpenFramed DEF CommandsFramed
  <2>3. CASE job.kind = "write"
    <3>1. WriteInv
      BY <2>1, <2>3 DEF KindInv
    <3>2. ASSUME end = "true"
          PROVE  /\ Len(out[1]) = 4 + out[1][4] + 0
                 /\ IsPrefix(Bytes16(job.link) \o Bytes16(job.handle), SubSeq(out[1], 5, 4 + out[1][4]))
                 /\ IsSuffix(job.value, SubSeq(out[1], 5, 4 + out[1][4]))
      BY <2>1, <2>3, <3>1, <3>2, WriteFramed
    <3> QED BY <2>3, <3>2 DEF CommandsFramed
  <2>4. CASE job.kind \notin {"open", "write"}
    BY <2>4 DEF CommandsFramed
  <2> QED BY <2>2, <2>3, <2>4
<1> QED BY <1>1, CodecInvHolds, PTL

-----------------------------------------------------------------------------
(* What the invariant says of the bytes that are looked at.                *)
LEMMA ReportInside ==
  ASSUME Shaped, job.kind = "report", ReportInv, Sound
  PROVE  reach <= limit /\ end \notin {"assert", "overrun"}
<1>1. at \in Nat /\ limit \in Nat /\ reach \in Nat
  BY DEF Shaped
<1>2. CASE reach = 0 /\ end = "running"
  BY <1>1, <1>2
<1>3. CASE \E pos, n : AtElement(pos, n)
  <2>1. at <= limit /\ reach <= at /\ end \in {"running", "true"}
    BY <1>3 DEF AtElement
  <2> QED BY <1>1, <2>1
<1> QED BY <1>2, <1>3 DEF ReportInv, InPadding

LEMMA ServicesInside ==
  ASSUME Shaped, job.kind = "services", ServicesInv
  PROVE  reach <= limit /\ end \notin {"assert", "overrun"}
<1>1. PICK N \in Nat, u \in Nat, d \in Nat, p \in {2, 3} : EntriesIn(N, u, d, p)
  BY ServicesAre DEF Shaped
<1>2. N = Len(job.entries) /\ d = 4 + job.uuidLength /\ d \in {6, 20} /\ p = Start /\ limit = p + 4 + d * N
  BY <1>1 DEF EntriesIn, ServicesInv
<1>3. CASE reach = 0 /\ end = "running"
  <2>1. limit \in Nat
    BY DEF Shaped
  <2> QED BY <1>3, <2>1
<1>4. CASE \E n \in 0 .. N : reach = p + 4 + d * n /\ end \in {"running", "true"}
  <2>1. PICK n \in 0 .. N : reach = p + 4 + d * n /\ end \in {"running", "true"}
    BY <1>4
  <2>2. p + 4 + d * n <= p + 4 + d * N
    <3>1. CASE d = 6
      BY <3>1
    <3>2. CASE d = 20
      BY <3>2
    <3> QED BY <1>2, <3>1, <3>2
  <2> QED BY <1>2, <2>1, <2>2
<1> QED BY <1>2, <1>3, <1>4 DEF ServicesInv

LEMMA SensorInside ==
  ASSUME Shaped, NEW n \in Nat, NEW told, SensorInv(n, told), Len(Layout(job)) = n
  PROVE  reach <= limit /\ end \notin {"assert", "overrun"}
<1>1. limit = n /\ end \in {"running", "true"} /\ reach \in {0, n}
  BY DEF SensorInv
<1> QED BY <1>1

LEMMA WriteInside ==
  ASSUME Shaped, job.kind = "write", WriteInv, Sound
  PROVE  reach <= limit /\ end \notin {"assert", "overrun"}
<1>1. CASE end = "running" /\ reach = 0 /\ limit = 0
  BY <1>1
<1>2. CASE /\ reach = Len(WritePacket) /\ limit = CommandSize
           /\ end = IF Len(WritePacket) <= CommandSize THEN "true" ELSE "overrun"
  <2>1. /\ job.vendor \in Vendors /\ job.link \in Word /\ job.handle \in Word
        /\ job.value \in Seq(Octet) /\ Len(job.value) <= 255
    BY CommandJobs DEF Shaped
  <2>2. Len(WritePacket) = Len(job.value) + IF job.vendor = "TI" THEN 8 ELSE 9
    BY <2>1, WritePacketIs
  <2>3. Len(job.value) <= CommandSize - IF job.vendor = "TI" THEN 8 ELSE 9
    BY DEF Sound, Room
  <2>4. PICK l \in Nat, c \in Nat, k \in Nat :
          l = Len(job.value) /\ c = CommandSize /\ k = IF job.vendor = "TI" THEN 8 ELSE 9
    BY <2>1, LenProperties, SizeAssumption, Ranges
  <2>5. l + k <= c
    <3>1. l <= c - k
      BY <2>3, <2>4
    <3> QED BY <3>1
  <2> QED BY <1>2, <2>2, <2>4, <2>5
<1> QED BY <1>1, <1>2 DEF WriteInv

(* Nothing is read behind the bytes that were sent, nothing is written     *)
(* behind the buffer of a command and no assert fails, for every job whose *)
(* elements, values and lengths are those that the code knows.  Any bytes  *)
(* from the air are read at most 255 bytes beyond their end, and at most   *)
(* three if the lengths in them add up.                                    *)
THEOREM StaysInBytes == Spec => []StaysInside
<1>0. ASSUME CodecInv, job.kind = "air" PROVE StaysInside
  <2>1. /\ at \in Nat /\ limit \in Nat /\ reach \in Nat /\ end # "overrun"
        /\ reach <= limit + 255 /\ reach <= at + 3
    BY <1>0 DEF CodecInv, KindInv, Shaped, AirInv
  <2> QED BY <1>0, <2>1 DEF StaysInside
<1>1. CodecInv => StaysInside
  <2> SUFFICES ASSUME CodecInv, Sound, job.kind # "air"
               PROVE  reach <= limit /\ end \notin {"assert", "overrun"}
    BY <1>0 DEF StaysInside
  <2>1. Shaped /\ KindInv /\ FromJob
    BY DEF CodecInv, Shaped
  <2>2. CASE job.kind = "address"
    BY <2>1, <2>2 DEF KindInv, AddressInv
  <2>3. CASE job.kind = "report"
    BY <2>1, <2>3, ReportInside DEF KindInv
  <2>4. CASE job.kind = "services"
    BY <2>1, <2>4, ServicesInside DEF KindInv
  <2>5. CASE job.kind = "barometer"
    <3>1. job.missing = 0
      BY <2>5 DEF Sound
    <3>2. Len(Layout(job)) = 6 - 0
      BY <2>1, <2>5, <3>1, BarometerIs
    <3>3. SensorInv(6, BarometerTold) /\ Len(Layout(job)) = 6
      BY <2>1, <2>5, <3>2 DEF KindInv
    <3> QED BY <2>1, <3>3, SensorInside
  <2>6. CASE job.kind = "imu"
    <3>1. job.missing = 0
      BY <2>6 DEF Sound
    <3>2. Len(Layout(job)) = 18 - 0
      BY <2>1, <2>6, <3>1, ImuIs
    <3>3. SensorInv(18, ImuTold) /\ Len(Layout(job)) = 18
      BY <2>1, <2>6, <3>2 DEF KindInv
    <3> QED BY <2>1, <3>3, SensorInside
  <2>7. CASE job.kind = "open"
    BY <2>1, <2>7 DEF KindInv, OpenInv
  <2>8. CASE job.kind = "write"
    BY <2>1, <2>8, WriteInside DEF KindInv
  <2> QED BY <2>1, <2>2, <2>3, <2>4, <2>5, <2>6, <2>7, <2>8, KindIs DEF KindsOfJobs
<1> QED BY <1>1, CodecInvHolds, PTL
=============================================================================
