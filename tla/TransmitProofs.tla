--------------------------- MODULE TransmitProofs ---------------------------
(***************************************************************************)
(* Theorems about Transmit.                                                *)
(***************************************************************************)
EXTENDS Transmit, Integers, FiniteSetTheorems, TLAPS

(* Arithmetic modulo m, and a product with a smaller factor.               *)
LEMMA SameResidue ==
  ASSUME NEW m \in Nat \ {0}, NEW k \in Int, NEW a \in 0 .. m - 1, NEW b \in 0 .. m - 1,
         a = b + k * m
  PROVE  a = b
<1>1. CASE k >= 1
  <2>1. k * m >= m
    BY <1>1
  <2> QED BY <2>1
<1>2. CASE k <= -1
  <2>1. k * m <= -m
    BY <1>2
  <2> QED BY <2>1
<1>3. CASE k = 0
  BY <1>3
<1> QED BY <1>1, <1>2, <1>3

LEMMA Remainder ==
  ASSUME NEW m \in Nat \ {0}, NEW x \in Nat
  PROVE  x % m \in 0 .. m - 1 /\ \E k \in Int : x = (x % m) + k * m
<1>1. x % m \in 0 .. m - 1
  OBVIOUS
<1>2. x \div m \in Int /\ x = (x % m) + (x \div m) * m
  OBVIOUS
<1> QED BY <1>1, <1>2

LEMMA ProductGrows ==
  ASSUME NEW a \in Nat, NEW b \in Nat, NEW m \in Nat, a <= b
  PROVE  a * m <= b * m
<1>1. (b - a) * m >= 0 /\ b * m = a * m + (b - a) * m
  OBVIOUS
<1> QED BY <1>1

LEMMA NextProduct ==
  ASSUME NEW a \in Nat, NEW m \in Nat
  PROVE  a * m \in Nat /\ (a + 1) * m = a * m + m
OBVIOUS

-----------------------------------------------------------------------------
LEMMA AddTyped ==
  ASSUME NEW x \in 0 .. Modulus - 1, NEW n \in Lengths \cup {0}
  PROVE  /\ n \in Nat /\ Add(x, n) \in 0 .. Modulus - 1
         /\ \E k \in Int : x + n = Add(x, n) + k * Modulus
<1>1. n \in Nat /\ x \in Nat /\ x + n \in Nat
  BY LengthAssumption, ModulusAssumption
<1> QED BY <1>1, Remainder, ModulusAssumption DEF Add

LEMMA TypeInductive == ASSUME TypeOK, [Next]_vars PROVE TypeOK'
<1> USE DEF TypeOK
<1>1. ASSUME NEW t \in Threads, Schedule(t) PROVE TypeOK'
  <2>1. scheduled' \in 0 .. Modulus - 1
    BY <1>1, AddTyped DEF Schedule
  <2>2. size' \in [Threads -> Lengths \cup {0}] /\ sends' \in [Threads -> 0 .. MaxSends]
    BY <1>1, BoundAssumption DEF Schedule
  <2> QED BY <1>1, <2>1, <2>2 DEF Schedule, Go
<1>2. ASSUME NEW t \in Threads, SenderStep(t) PROVE TypeOK'
  BY <1>2, BoundAssumption DEF SenderStep, Write, WriteFails, Return, Sleep, Go
<1>3. ASSUME Complete PROVE TypeOK'
  <2>1. pc' \in [Threads -> {"idle", "write", "check", "asleep"}]
    BY <1>3 DEF Complete, WakeOne, Wake
  <2>2. completed' \in 0 .. Modulus - 1
    <3>1. PICK t \in port : completed' = Add(completed, size[t])
      BY <1>3 DEF Complete
    <3> QED BY <3>1, AddTyped
  <2> QED BY <1>3, <2>1, <2>2 DEF Complete
<1>4. ASSUME Finished \/ UNCHANGED vars PROVE TypeOK'
  BY <1>4 DEF Finished, vars
<1> QED BY <1>1, <1>2, <1>3, <1>4 DEF Next

LEMMA TypeInitially == ASSUME Init PROVE TypeOK
BY ModulusAssumption, BoundAssumption DEF Init, TypeOK

(* The threads and the counters stay within their types.                   *)
THEOREM TypeCorrect == Spec => []TypeOK
BY TypeInitially, TypeInductive, PTL DEF Spec

-----------------------------------------------------------------------------
(* Who has a command under way, and the bytes of it that are scheduled and *)
(* not completed. sum[S] is the length of the commands of the threads S,   *)
(* waste the bytes of the failed writes, max no less than any length.      *)
Pending == port \cup {t \in Threads : pc[t] = "write"}

Sums(sum, max) ==
  /\ sum \in [SUBSET Threads -> Nat]
  /\ sum[{}] = 0
  /\ \A S \in SUBSET Threads : sum[S] <= Cardinality(S) * max
  /\ \A S \in SUBSET Threads : \A t \in Threads \ S : sum[S \cup {t}] = sum[S] + size[t]

Balanced(sum, waste, max) ==
  /\ waste <= failures * max
  /\ \E k \in Int : completed + sum[Pending] + waste = scheduled + k * Modulus

(* A write that the OS has not finished belongs to a thread in             *)
(* io_waitForTransmitComplete.                                             *)
Owned == \A t \in port : pc[t] \in {"check", "asleep"} /\ size[t] \in Lengths

Under == \A t \in Threads : pc[t] # "idle" => size[t] \in Lengths

TransmitInv(max) ==
  /\ TypeOK
  /\ Owned
  /\ Under
  /\ \E sum : Sums(sum, max) /\ \E waste \in Nat : Balanced(sum, waste, max)

(* A limit of all lengths that is small enough for the counters: with 2^32 *)
(* and commands of less than 2^8 bytes they do not come back to each other *)
(* before the threads and the failed writes are 2^24.                      *)
Limit(max) ==
  /\ max \in Nat
  /\ \A n \in Lengths : n <= max
  /\ (Cardinality(Threads) + MaxFailures) * max < Modulus

LEMMA SizeTyped ==
  ASSUME NEW max, Limit(max), TypeOK, NEW t, t \in Threads
  PROVE  size[t] \in Nat /\ size[t] <= max
<1>1. size[t] \in Lengths \cup {0} /\ max \in Nat
  BY DEF TypeOK, Limit
<1>2. CASE size[t] = 0
  BY <1>1, <1>2
<1>3. CASE size[t] \in Lengths
  BY <1>3, LengthAssumption DEF Limit
<1> QED BY <1>1, <1>2, <1>3

LEMMA SumOfPart ==
  ASSUME NEW max, NEW sum, TypeOK, Sums(sum, max),
         NEW S, S \subseteq Threads, NEW t, t \in S
  PROVE  S \ {t} \in SUBSET Threads /\ sum[S \ {t}] \in Nat /\ sum[S] = sum[S \ {t}] + size[t]
<1>1. S \ {t} \in SUBSET Threads /\ t \in Threads \ (S \ {t}) /\ (S \ {t}) \cup {t} = S
  OBVIOUS
<1> QED BY <1>1 DEF Sums

(* A command is being sent where all that was scheduled is not completed.  *)
LEMMA PendingNotSent ==
  ASSUME NEW max, Limit(max), IsFiniteSet(Threads), TransmitInv(max), NEW t \in port
  PROVE  ~AllSent
<1>0. TypeOK /\ Owned
  BY DEF TransmitInv
<1> USE <1>0
<1>1. PICK sum : Sums(sum, max) /\ \E waste \in Nat : Balanced(sum, waste, max)
  BY DEF TransmitInv
<1> PICK waste \in Nat : Balanced(sum, waste, max)
  BY <1>1
<1>2. Pending \in SUBSET Threads /\ t \in Pending /\ t \in Threads
  BY DEF Pending, TypeOK
<1>3. PICK n \in Nat, rest \in Nat, s \in Nat :
        n = size[t] /\ rest = sum[Pending \ {t}] /\ s = sum[Pending] /\ s = rest + n /\ n > 0
  <2>1. size[t] \in Nat \ {0}
    BY LengthAssumption DEF Owned
  <2>2. sum[Pending \ {t}] \in Nat /\ sum[Pending] = sum[Pending \ {t}] + size[t]
    <3>1. Pending \subseteq Threads
      BY <1>2
    <3>2. TypeOK /\ Sums(sum, max) /\ t \in Pending
      BY <1>0, <1>1, <1>2
    <3> QED BY <3>1, <3>2, SumOfPart
  <2> QED BY <2>1, <2>2
<1>4. PICK c \in Nat, all \in Nat : c = Cardinality(Pending) /\ all = Cardinality(Threads) /\ c <= all
  BY <1>2, FS_Subset, FS_CardinalityType
<1>5. PICK f \in Nat : f = failures /\ f <= MaxFailures
  BY BoundAssumption DEF TypeOK
<1>6. s <= c * max /\ waste <= f * max
  BY <1>1, <1>2, <1>3, <1>4, <1>5 DEF Sums, Balanced
<1>7. s + waste < Modulus
  <2>1. max \in Nat /\ (all + MaxFailures) * max < Modulus /\ MaxFailures \in Nat
    BY <1>4, BoundAssumption DEF Limit
  <2>2. c + f \in Nat /\ all + MaxFailures \in Nat /\ c + f <= all + MaxFailures
    BY <1>4, <1>5, <2>1
  <2>3. (c + f) * max <= (all + MaxFailures) * max
    BY <2>1, <2>2, ProductGrows
  <2>4. (c + f) * max = c * max + f * max /\ c * max \in Nat /\ f * max \in Nat
    BY <2>1
  <2>5. Modulus \in Nat /\ (all + MaxFailures) * max \in Nat
    BY <2>1, ModulusAssumption
  <2> QED BY <1>6, <2>1, <2>3, <2>4, <2>5
<1>8. ASSUME AllSent PROVE FALSE
  <2>1. PICK k \in Int : completed + s + waste = scheduled + k * Modulus
    BY <1>1, <1>3 DEF Balanced
  <2>2. completed \in Nat /\ scheduled = completed
    BY <1>8, ModulusAssumption DEF AllSent, TypeOK
  <2>3. s + waste = 0 + k * Modulus
    BY <2>1, <2>2, ModulusAssumption
  <2>4. s + waste = 0
    BY <1>7, <2>3, SameResidue, ModulusAssumption
  <2>5. s = rest + n /\ n > 0
    BY <1>3
  <2> QED BY <2>4, <2>5
<1> QED BY <1>8

-----------------------------------------------------------------------------
(* io_sendData: the bytes of one more thread are under way.                *)
LEMMA SumsWithNew ==
  ASSUME NEW max, Limit(max), IsFiniteSet(Threads), TypeOK, NEW sum, Sums(sum, max),
         NEW t \in Threads, NEW n \in Lengths, size' = [size EXCEPT ![t] = n],
         NEW new, new = [S \in SUBSET Threads |-> IF t \in S THEN sum[S \ {t}] + n ELSE sum[S]]
  PROVE  Sums(new, max)'
<1> n \in Nat /\ max \in Nat /\ n <= max
  BY LengthAssumption DEF Limit
<1>1. new \in [SUBSET Threads -> Nat] /\ new[{}] = 0
  BY DEF Sums
<1>2. ASSUME NEW S \in SUBSET Threads PROVE new[S] <= Cardinality(S) * max
  <2>1. CASE t \notin S
    BY <2>1 DEF Sums
  <2>2. CASE t \in S
    <3>1. PICK c \in Nat : c = Cardinality(S \ {t}) /\ Cardinality(S) = c + 1
      <4>1. IsFiniteSet(S) /\ IsFiniteSet(S \ {t})
        BY FS_Subset, FS_RemoveElement
      <4>2. Cardinality(S) \in Nat /\ Cardinality(S \ {t}) \in Nat
        BY <4>1, FS_CardinalityType
      <4>3. Cardinality(S \ {t}) = Cardinality(S) - 1
        BY <2>2, <4>1, FS_RemoveElement
      <4> QED BY <4>2, <4>3
    <3>2. PICK m \in Nat : m = sum[S \ {t}] /\ m <= c * max
      BY <3>1 DEF Sums
    <3>3. new[S] = m + n
      BY <2>2, <3>2
    <3>4. c * max \in Nat /\ (c + 1) * max = c * max + max
      BY NextProduct
    <3> QED BY <3>1, <3>2, <3>3, <3>4
  <2> QED BY <2>1, <2>2
<1>3. ASSUME NEW S \in SUBSET Threads, NEW u \in Threads \ S
      PROVE  new[S \cup {u}] = new[S] + size'[u]
  <2>1. S \cup {u} \in SUBSET Threads /\ S \ {t} \in SUBSET Threads
    OBVIOUS
  <2>2. CASE u = t
    <3>1. (S \cup {u}) \ {t} = S /\ size'[u] = n
      BY <2>2 DEF TypeOK
    <3> QED BY <2>1, <2>2, <3>1
  <2>3. CASE u # t /\ t \in S
    <3>1. (S \cup {u}) \ {t} = (S \ {t}) \cup {u} /\ size'[u] = size[u] /\ u \in Threads \ (S \ {t})
      BY <2>3 DEF TypeOK
    <3>2. sum[(S \ {t}) \cup {u}] = sum[S \ {t}] + size[u]
      BY <2>1, <3>1 DEF Sums
    <3>3. PICK m \in Nat, w \in Nat : m = sum[S \ {t}] /\ w = size[u]
      BY <2>1, LengthAssumption DEF Sums, TypeOK
    <3>4. new[S \cup {u}] = (m + w) + n /\ new[S] = m + n
      BY <2>1, <2>3, <3>1, <3>2, <3>3
    <3> QED BY <3>1, <3>3, <3>4
  <2>4. CASE u # t /\ t \notin S
    BY <2>1, <2>4 DEF Sums, TypeOK
  <2> QED BY <2>2, <2>3, <2>4
<1> QED BY <1>1, <1>2, <1>3 DEF Sums

-----------------------------------------------------------------------------
(* What a step leaves to the ghost sums: the same, one more, or one less.  *)
LEMMA BooksKept ==
  ASSUME NEW max, Limit(max), IsFiniteSet(Threads), TransmitInv(max), [Next]_vars
  PROVE  \E sum : Sums(sum, max)' /\ \E waste \in Nat : Balanced(sum, waste, max)'
<1>0. TypeOK /\ TypeOK' /\ Owned
  BY TypeInductive DEF TransmitInv
<1> USE <1>0
<1>1. PICK sum : Sums(sum, max) /\ \E waste \in Nat : Balanced(sum, waste, max)
  BY DEF TransmitInv
<1> PICK waste \in Nat : Balanced(sum, waste, max)
  BY <1>1
<1>2. PICK c \in Nat, f \in Nat, a \in Nat, k \in Int :
        /\ c = completed /\ a = scheduled /\ f = failures
        /\ waste <= f * max /\ c + sum[Pending] + waste = a + k * Modulus
  <2>1. completed \in Nat /\ scheduled \in Nat /\ failures \in Nat
    BY ModulusAssumption, BoundAssumption DEF TypeOK
  <2> QED BY <2>1 DEF Balanced
<1>3. Modulus \in Nat \ {0} /\ max \in Nat /\ Pending \in SUBSET Threads
  BY ModulusAssumption DEF Limit, Pending, TypeOK
<1>4. PICK s \in Nat : s = sum[Pending]
  BY <1>1, <1>3 DEF Sums
<1>5. ASSUME NEW t \in Threads, Schedule(t)
      PROVE  \E new : Sums(new, max)' /\ Balanced(new, waste, max)'
  <2>1. PICK n \in Lengths : size' = [size EXCEPT ![t] = n] /\ scheduled' = Add(scheduled, n)
    BY <1>5 DEF Schedule
  <2> DEFINE new == [S \in SUBSET Threads |-> IF t \in S THEN sum[S \ {t}] + n ELSE sum[S]]
  <2>2. Sums(new, max)'
    BY <1>1, <2>1, SumsWithNew
  <2>3. t \notin Pending /\ Pending' = Pending \cup {t}
    BY <1>5 DEF Schedule, Go, Pending, Owned, TypeOK
  <2>4. new[Pending'] = s + n
    <3>1. (Pending \cup {t}) \ {t} = Pending /\ Pending \cup {t} \in SUBSET Threads
      BY <1>3, <2>3
    <3> QED BY <1>4, <2>3, <3>1
  <2>5. PICK j \in Int, b \in Nat : n \in Nat /\ b = scheduled' /\ a + n = b + j * Modulus
    <3>1. a \in 0 .. Modulus - 1
      BY <1>2 DEF TypeOK
    <3>2. Add(a, n) \in Nat /\ n \in Nat /\ \E j \in Int : a + n = Add(a, n) + j * Modulus
      <4>1. n \in Lengths \cup {0} /\ \A i \in 0 .. Modulus - 1 : i \in Nat
        BY ModulusAssumption
      <4> QED BY <3>1, <4>1, AddTyped, Zenon
    <3> QED BY <1>2, <2>1, <3>2
  <2>6. c + (s + n) + waste = b + (j + k) * Modulus
    <3>1. (j + k) * Modulus = j * Modulus + k * Modulus /\ j * Modulus \in Int /\ k * Modulus \in Int
      BY <1>3
    <3> QED BY <1>2, <1>4, <2>5, <3>1
  <2>7. completed' = c /\ failures' = f
    BY <1>2, <1>5 DEF Schedule
  <2>8. Balanced(new, waste, max)'
    <3>1. j + k \in Int
      OBVIOUS
    <3>2. completed' + new[Pending'] + waste = scheduled' + (j + k) * Modulus
      BY <2>4, <2>5, <2>6, <2>7
    <3> HIDE DEF new
    <3> QED BY <1>2, <2>7, <3>1, <3>2 DEF Balanced
  <2> HIDE DEF new
  <2> QED BY <2>2, <2>8
<1>6. ASSUME NEW t \in Threads, WriteFails(t)
      PROVE  Sums(sum, max)' /\ \E w \in Nat : Balanced(sum, w, max)'
  <2>1. size' = size
    BY <1>6 DEF WriteFails
  <2>2. t \in Pending /\ (Pending' = Pending \ {t})
    BY <1>6 DEF WriteFails, Go, Pending, Owned, TypeOK
  <2>3. PICK n \in Nat, r \in Nat : n = size[t] /\ r = sum[Pending'] /\ s = r + n /\ n <= max
    <3>1. size[t] \in Nat /\ size[t] <= max
      BY <1>3, SizeTyped
    <3>2. sum[Pending \ {t}] \in Nat /\ sum[Pending] = sum[Pending \ {t}] + size[t]
      BY <1>0, <1>1, <1>3, <2>2, SumOfPart
    <3> QED BY <1>4, <2>2, <3>1, <3>2
  <2>4. failures' = f + 1 /\ completed' = c /\ scheduled' = a
    BY <1>2, <1>6 DEF WriteFails
  <2>5. waste + n \in Nat /\ waste + n <= (f + 1) * max
    BY <1>2, <1>3, <2>3, NextProduct
  <2>6. c + r + (waste + n) = a + k * Modulus
    <3>1. k * Modulus \in Int
      BY <1>3
    <3> QED BY <1>2, <1>4, <2>3, <3>1
  <2>7. Balanced(sum, waste + n, max)'
    BY <2>3, <2>4, <2>5, <2>6 DEF Balanced
  <2> QED BY <1>1, <2>1, <2>5, <2>7 DEF Sums
<1>7. ASSUME Complete
      PROVE  Sums(sum, max)' /\ Balanced(sum, waste, max)'
  <2>1. PICK t \in port : /\ port' = port \ {t} /\ completed' = Add(completed, size[t])
                          /\ size' = size /\ scheduled' = a /\ failures' = f
    BY <1>2, <1>7 DEF Complete
  <2>2. t \in Pending /\ Pending' = Pending \ {t} /\ t \in Threads
    <3>1. {u \in Threads : pc'[u] = "write"} = {u \in Threads : pc[u] = "write"}
      BY <1>7 DEF Complete, WakeOne, Wake, Asleep, TypeOK
    <3> QED BY <2>1, <3>1 DEF Pending, Owned, TypeOK
  <2>3. PICK n \in Nat, r \in Nat : n = size[t] /\ r = sum[Pending'] /\ s = r + n
    <3>1. size[t] \in Nat
      BY <1>3, <2>2, SizeTyped
    <3>2. sum[Pending \ {t}] \in Nat /\ sum[Pending] = sum[Pending \ {t}] + size[t]
      BY <1>0, <1>1, <1>3, <2>2, SumOfPart
    <3> QED BY <1>4, <2>2, <3>1, <3>2
  <2>4. PICK j \in Int, b \in Nat : b = completed' /\ c + n = b + j * Modulus
    <3>1. c \in 0 .. Modulus - 1 /\ size[t] \in Lengths \cup {0}
      BY <1>2, <2>2 DEF TypeOK
    <3>2. Add(c, size[t]) \in Nat /\ \E j \in Int : c + size[t] = Add(c, size[t]) + j * Modulus
      <4>1. \A i \in 0 .. Modulus - 1 : i \in Nat
        BY ModulusAssumption
      <4> QED BY <3>1, <4>1, AddTyped, Zenon
    <3> QED BY <1>2, <2>1, <2>3, <3>2
  <2>5. b + r + waste = a + (k - j) * Modulus
    <3>1. (k - j) * Modulus = k * Modulus - j * Modulus /\ j * Modulus \in Int /\ k * Modulus \in Int
      BY <1>3
    <3>2. c + s + waste = a + k * Modulus /\ s = r + n /\ c + n = b + j * Modulus
      BY <1>2, <1>4, <2>3, <2>4
    <3> QED BY <3>1, <3>2
  <2>6. k - j \in Int
    OBVIOUS
  <2>7. Balanced(sum, waste, max)'
    BY <1>2, <2>1, <2>3, <2>4, <2>5, <2>6 DEF Balanced
  <2> QED BY <1>1, <2>1, <2>7 DEF Sums
<1>8. ASSUME UNCHANGED <<size, scheduled, completed, failures>>, Pending' = Pending
      PROVE  Sums(sum, max)' /\ Balanced(sum, waste, max)'
  <2>1. Sums(sum, max)'
    BY <1>1, <1>8 DEF Sums
  <2> QED BY <1>8, <2>1 DEF Balanced
<1>9. ASSUME NEW t \in Threads, Write(t) \/ Return(t) \/ Sleep(t)
      PROVE  UNCHANGED <<size, scheduled, completed, failures>> /\ Pending' = Pending
  BY <1>9 DEF Write, Return, Sleep, Go, Pending, TypeOK
<1>10. ASSUME Finished \/ UNCHANGED vars
       PROVE  UNCHANGED <<size, scheduled, completed, failures>> /\ Pending' = Pending
  BY <1>10 DEF Finished, vars, Pending
<1>11. CASE \E t \in Threads : Schedule(t)
  BY <1>5, <1>11
<1>12. CASE \E t \in Threads : WriteFails(t)
  BY <1>6, <1>12
<1>13. CASE \E t \in Threads : Write(t) \/ Return(t) \/ Sleep(t)
  BY <1>8, <1>9, <1>13
<1>14. CASE Finished \/ UNCHANGED vars
  BY <1>8, <1>10, <1>14
<1> QED BY <1>7, <1>11, <1>12, <1>13, <1>14 DEF Next, SenderStep

LEMMA TransmitInductive ==
  ASSUME NEW max, Limit(max), IsFiniteSet(Threads), TransmitInv(max), [Next]_vars
  PROVE  TransmitInv(max)'
<1>1. TypeOK /\ Owned /\ Under /\ TypeOK'
  BY TypeInductive DEF TransmitInv
<1>2. Under'
  <2>1. ASSUME NEW t \in Threads, Schedule(t) PROVE Under'
    BY <1>1, <2>1 DEF Schedule, Go, Under, TypeOK
  <2>2. ASSUME NEW t \in Threads, SenderStep(t) PROVE Under'
    BY <1>1, <2>2 DEF SenderStep, Write, WriteFails, Return, Sleep, Go, Under, TypeOK
  <2>3. ASSUME Complete PROVE Under'
    BY <1>1, <2>3 DEF Complete, WakeOne, Wake, Asleep, Under, TypeOK
  <2>4. ASSUME Finished \/ UNCHANGED vars PROVE Under'
    BY <1>1, <2>4 DEF Finished, vars, Under
  <2> QED BY <2>1, <2>2, <2>3, <2>4 DEF Next
<1>3. Owned'
  <2>1. ASSUME NEW t \in Threads, Schedule(t) PROVE Owned'
    BY <1>1, <2>1 DEF Schedule, Go, Owned, TypeOK
  <2>2. ASSUME NEW t \in Threads, Write(t) \/ WriteFails(t) \/ Sleep(t) PROVE Owned'
    BY <1>1, <2>2 DEF Write, WriteFails, Sleep, Go, Owned, Under, TypeOK
  <2>3. ASSUME NEW t \in Threads, Return(t) PROVE Owned'
    <3>1. t \notin port
      BY <2>3, PendingNotSent DEF Return
    <3> QED BY <1>1, <2>3, <3>1 DEF Return, Go, Owned, TypeOK
  <2>4. ASSUME Complete PROVE Owned'
    BY <1>1, <2>4 DEF Complete, WakeOne, Wake, Asleep, Owned, TypeOK
  <2>5. ASSUME Finished \/ UNCHANGED vars PROVE Owned'
    BY <1>1, <2>5 DEF Finished, vars, Owned
  <2> QED BY <2>1, <2>2, <2>3, <2>4, <2>5 DEF Next, SenderStep
<1> QED BY <1>1, <1>2, <1>3, BooksKept DEF TransmitInv

LEMMA TransmitInitially ==
  ASSUME NEW max, Limit(max), IsFiniteSet(Threads), Init
  PROVE  TransmitInv(max)
<1> DEFINE none == [S \in SUBSET Threads |-> 0]
<1>1. TypeOK /\ Owned /\ Under
  BY TypeInitially DEF Init, Owned, Under
<1>2. Sums(none, max)
  <2>1. ASSUME NEW S \in SUBSET Threads PROVE 0 <= Cardinality(S) * max
    <3>1. Cardinality(S) \in Nat /\ max \in Nat
      BY FS_Subset, FS_CardinalityType DEF Limit
    <3>2. Cardinality(S) * max \in Nat
      BY <3>1, NextProduct
    <3> QED BY <3>2
  <2>2. \A S \in SUBSET Threads : \A t \in Threads \ S : none[S \cup {t}] = none[S] + size[t]
    BY DEF Init
  <2> QED BY <2>1, <2>2 DEF Sums
<1>3. Balanced(none, 0, max)
  <2>1. Pending \in SUBSET Threads
    BY <1>1 DEF Pending, TypeOK
  <2>2. completed + none[Pending] + 0 = scheduled + 0 * Modulus /\ 0 <= failures * max
    BY <2>1, ModulusAssumption DEF Init, Limit
  <2> QED BY <2>2 DEF Balanced
<1> HIDE DEF none
<1> QED BY <1>1, <1>2, <1>3 DEF TransmitInv

(* If the counters cannot come back to each other, a sender comes back     *)
(* from io_waitForTransmitComplete only when the OS has finished with its  *)
(* command: whichever write it finishes first, and whichever writes fail.  *)
THEOREM SendersWait ==
  ASSUME IsFiniteSet(Threads), \E max : Limit(max)
  PROVE  Spec => ReturnMeansSent
<1>1. PICK max : Limit(max)
  OBVIOUS
<1>2. Init => TransmitInv(max)
  BY <1>1, TransmitInitially
<1>3. TransmitInv(max) /\ [Next]_vars => TransmitInv(max)'
  BY <1>1, TransmitInductive
<1>4. TransmitInv(max) /\ [Next]_vars => [\A t \in Threads : Return(t) => t \notin port]_vars
  BY <1>1, PendingNotSent DEF Return
<1> QED BY <1>2, <1>3, <1>4, PTL DEF Spec, ReturnMeansSent
=============================================================================
