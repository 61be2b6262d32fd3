---------------------------- MODULE AcctTheorems ----------------------------
(***************************************************************************)
(* Facts about uint64 and ctmon's map of counters, for every width.        *)
(***************************************************************************)
EXTENDS Acct, TLAPS

(* Division with remainder, for remainders of any sign of the quotient.     *)
LEMMA RemainderIs ==
  ASSUME NEW m \in Nat, m > 0, NEW q \in Int, NEW r \in 0 .. m - 1
  PROVE  (q * m + r) % m = r
<1>1. PICK d \in Int, e \in 0 .. m - 1 : q * m + r = m * d + e /\ (q * m + r) % m = e
  <2>1. q * m + r \in Int
    OBVIOUS
  <2> QED BY <2>1
<1>2. (q - d) * m = e - r
  BY <1>1
<1>3. q - d = 0
  <2>1. CASE q - d >= 1
    <3>1. (q - d) * m >= m
      BY <2>1
    <3> QED BY <1>2, <3>1
  <2>2. CASE q - d <= -1
    <3>1. (q - d) * m <= -m
      BY <2>2
    <3> QED BY <1>2, <3>1
  <2> QED BY <2>1, <2>2
<1> QED BY <1>1, <1>2, <1>3

(* A uint64 sum is the exact sum or, once past the top, 2^64 less.          *)
LEMMA AddUCases ==
  ASSUME NEW a \in Word, NEW b \in Word
  PROVE  AddU(a, b) = IF a + b < Modulus THEN a + b ELSE a + b - Modulus
<1>1. Modulus \in Nat /\ Modulus > 0 /\ a \in 0 .. Modulus - 1 /\ b \in 0 .. Modulus - 1
  BY ModulusAssumption DEF Word
<1>2. CASE a + b < Modulus
  BY <1>1, <1>2 DEF AddU
<1>3. CASE a + b >= Modulus
  <2>1. a + b = Modulus * 1 + (a + b - Modulus) /\ a + b - Modulus \in 0 .. Modulus - 1
    BY <1>1, <1>3
  <2>2. (a + b) % Modulus = a + b - Modulus
    BY <1>1, <2>1
  <2> QED BY <1>1, <1>3, <2>2 DEF AddU
<1> QED BY <1>1, <1>2, <1>3

(* Wrapping addition stays within a word, forgets order and grouping, and   *)
(* has 0 as its neutral element.                                            *)
LEMMA AddULaws ==
  ASSUME NEW a \in Word, NEW b \in Word, NEW c \in Word
  PROVE  /\ 0 \in Word
         /\ AddU(a, b) \in Word
         /\ AddU(a, b) = AddU(b, a)
         /\ AddU(a, AddU(b, c)) = AddU(AddU(a, b), c)
         /\ AddU(a, 0) = a /\ AddU(0, a) = a
<1>1. Modulus \in Nat /\ Modulus > 0 /\ 0 \in Word
  BY ModulusAssumption DEF Word
<1>2. \A x, y \in Word : AddU(x, y) = IF x + y < Modulus THEN x + y ELSE x + y - Modulus
  BY AddUCases
<1>3. \A x, y \in Word : AddU(x, y) \in Word
  BY <1>1, <1>2 DEF Word
<1>4. AddU(a, AddU(b, c)) = AddU(AddU(a, b), c)
  <2>1. AddU(a, AddU(b, c)) = IF a + AddU(b, c) < Modulus THEN a + AddU(b, c)
                                                         ELSE a + AddU(b, c) - Modulus
    BY <1>2, <1>3
  <2>2. AddU(AddU(a, b), c) = IF AddU(a, b) + c < Modulus THEN AddU(a, b) + c
                                                         ELSE AddU(a, b) + c - Modulus
    BY <1>2, <1>3
  <2> QED BY <1>1, <1>2, <2>1, <2>2 DEF Word
<1>5. AddU(a, b) = AddU(b, a)
  <2>1. AddU(a, b) = IF a + b < Modulus THEN a + b ELSE a + b - Modulus
    BY <1>2
  <2>2. AddU(b, a) = IF b + a < Modulus THEN b + a ELSE b + a - Modulus
    BY <1>2
  <2> QED BY <1>1, <2>1, <2>2 DEF Word
<1>6. AddU(a, 0) = a
  <2>1. AddU(a, 0) = IF a + 0 < Modulus THEN a + 0 ELSE a + 0 - Modulus
    BY <1>1, <1>2
  <2> QED BY <1>1, <2>1 DEF Word
<1>7. AddU(0, a) = a
  <2>1. AddU(0, a) = IF 0 + a < Modulus THEN 0 + a ELSE 0 + a - Modulus
    BY <1>1, <1>2
  <2> QED BY <1>1, <2>1 DEF Word
<1>8. AddU(a, b) \in Word
  BY <1>3
<1> QED BY <1>1, <1>4, <1>5, <1>6, <1>7, <1>8

(* The same for a pair of counters.                                         *)
LEMMA PlusLaws ==
  ASSUME NEW x \in AcctData, NEW y \in AcctData, NEW z \in AcctData
  PROVE  /\ Zero \in AcctData
         /\ Plus(x, y) \in AcctData
         /\ Plus(x, y) = Plus(y, x)
         /\ Plus(x, Plus(y, z)) = Plus(Plus(x, y), z)
         /\ Plus(x, Zero) = x /\ Plus(Zero, x) = x
<1>1. /\ x.Packets \in Word /\ x.Bytes \in Word
      /\ y.Packets \in Word /\ y.Bytes \in Word
      /\ z.Packets \in Word /\ z.Bytes \in Word
  BY DEF AcctData
<1>2. 0 \in Word
  BY ModulusAssumption DEF Word
<1>3. Zero \in AcctData
  BY <1>2 DEF Zero, AcctData
<1>4. Plus(x, y) \in AcctData
  <2>1. AddU(x.Packets, y.Packets) \in Word /\ AddU(x.Bytes, y.Bytes) \in Word
    BY <1>1, AddULaws
  <2> QED BY <2>1 DEF Plus, AcctData
<1>5. Plus(x, y) = Plus(y, x)
  BY <1>1, AddULaws DEF Plus
<1>6. Plus(x, Plus(y, z)) = Plus(Plus(x, y), z)
  <2>1. \A a, b, c \in Word : AddU(a, AddU(b, c)) = AddU(AddU(a, b), c)
    BY AddULaws
  <2>2. AddU(x.Packets, AddU(y.Packets, z.Packets)) = AddU(AddU(x.Packets, y.Packets), z.Packets)
    BY ONLY <1>1, <2>1
  <2>3. AddU(x.Bytes, AddU(y.Bytes, z.Bytes)) = AddU(AddU(x.Bytes, y.Bytes), z.Bytes)
    BY ONLY <1>1, <2>1
  <2> QED BY <2>2, <2>3 DEF Plus
<1>7. Plus(x, Zero) = x /\ Plus(Zero, x) = x
  <2>1. /\ AddU(x.Packets, 0) = x.Packets /\ AddU(0, x.Packets) = x.Packets
        /\ AddU(x.Bytes, 0) = x.Bytes /\ AddU(0, x.Bytes) = x.Bytes
    BY <1>1, AddULaws
  <2>2. x = [Packets |-> x.Packets, Bytes |-> x.Bytes]
    BY DEF AcctData
  <2> QED BY <2>1, <2>2 DEF Plus, Zero
<1> QED BY <1>3, <1>4, <1>5, <1>6, <1>7

(* The orders in which the books are added up do not matter.               *)
LEMMA PlusSwaps ==
  ASSUME NEW a \in AcctData, NEW b \in AcctData, NEW c \in AcctData
  PROVE  /\ Plus(Plus(a, b), c) = Plus(Plus(a, c), b)
         /\ Plus(Plus(Zero, Plus(b, a)), c) = Plus(Plus(a, b), c)
         /\ Plus(Plus(Zero, b), Plus(c, a)) = Plus(Plus(a, b), c)
<1>1. \A x, y \in AcctData : Plus(x, y) \in AcctData /\ Plus(x, y) = Plus(y, x)
  BY PlusLaws
<1>2. \A x, y, z \in AcctData : Plus(x, Plus(y, z)) = Plus(Plus(x, y), z)
  BY PlusLaws
<1>3. \A x \in AcctData : Plus(Zero, x) = x
  BY PlusLaws
<1>4. Plus(Plus(a, b), c) = Plus(Plus(a, c), b)
  BY <1>1, <1>2
<1>5. Plus(Plus(Zero, Plus(b, a)), c) = Plus(Plus(a, b), c)
  BY <1>1, <1>3
<1>6. Plus(Plus(Zero, b), Plus(c, a)) = Plus(Plus(a, b), c)
  <2>1. Plus(Zero, b) = b /\ Plus(c, a) = Plus(a, c)
    BY <1>1, <1>3
  <2>2. Plus(b, Plus(a, c)) = Plus(Plus(b, a), c)
    BY <1>2
  <2> QED BY <1>1, <2>1, <2>2
<1> QED BY <1>4, <1>5, <1>6

(* The map ctmon starts from is empty and its counters are zero.            *)
LEMMA EmptyLaws ==
  /\ Zero \in AcctData
  /\ EmptyMap \in DataMap /\ DOMAIN EmptyMap = {}
  /\ \A j \in Prefix : At(EmptyMap, j) = Zero
<1>1. Zero \in AcctData
  BY ModulusAssumption DEF Zero, AcctData, Word
<1>2. EmptyMap \in [{} -> AcctData] /\ DOMAIN EmptyMap = {}
  BY DEF EmptyMap
<1>3. EmptyMap \in DataMap
  BY <1>2 DEF DataMap
<1> QED BY <1>1, <1>2, <1>3 DEF At

(* Reading and writing r.data: a read yields counters, a write is a map     *)
(* again, with one more key at most.                                        *)
LEMMA MapLaws ==
  ASSUME NEW m \in DataMap
  PROVE  /\ DOMAIN m \subseteq Prefix
         /\ \A j \in Prefix : At(m, j) \in AcctData
         /\ \A k \in Prefix, v \in AcctData :
              /\ Put(m, k, v) \in DataMap
              /\ DOMAIN Put(m, k, v) = DOMAIN m \cup {k}
<1>1. PICK S \in SUBSET Prefix : m \in [S -> AcctData]
  BY DEF DataMap
<1>2. \A j \in Prefix : At(m, j) \in AcctData
  BY <1>1, EmptyLaws DEF At
<1>3. ASSUME NEW k \in Prefix, NEW v \in AcctData
      PROVE  /\ Put(m, k, v) \in DataMap
             /\ DOMAIN Put(m, k, v) = DOMAIN m \cup {k}
  <2>1. Put(m, k, v) \in [S \cup {k} -> AcctData]
    BY <1>1 DEF Put
  <2>2. Put(m, k, v) \in DataMap
    BY <2>1 DEF DataMap
  <2> QED BY <1>1, <2>1, <2>2
<1> QED BY <1>1, <1>2, <1>3

(* What Record writes for a key is what the next read of that key yields,   *)
(* and no other key is touched.                                             *)
LEMMA AtPut ==
  ASSUME NEW m \in DataMap, NEW k \in Prefix, NEW v \in AcctData, NEW j \in Prefix
  PROVE  At(Put(m, k, v), j) = IF j = k THEN v ELSE At(m, j)
<1>1. PICK S \in SUBSET Prefix : m \in [S -> AcctData]
  BY DEF DataMap
<1> QED BY <1>1 DEF At, Put
=============================================================================
