------------------------- MODULE WyuanProtocolProofs -------------------------
(***************************************************************************)
(* Theorems about WyuanProtocol: what the checksum and the parsers compute *)
(* for every sequence of bytes.  The recursions of the code are loops over *)
(* a frame; each is first shown to have the values that its equation says, *)
(* and then reasoned about by induction on the position in the frame.      *)
(***************************************************************************)
EXTENDS WyuanProtocol, SequenceTheorems, WellFoundedInduction, TLAPS

-----------------------------------------------------------------------------
(***************************************************************************)
(* Induction.  The principle is stated for a set instead of a predicate:   *)
(* the numbers that are not in it have no smallest one.                    *)
(***************************************************************************)
LessThan == OpToRel(<, Nat)

LEMMA LessThanIs == \A k, m \in Nat : k < m => <<k, m>> \in LessThan
<1>1. \A k, m \in Nat : k < m => <<k, m>> \in OpToRel(<, Nat)
  BY DEF OpToRel
<1> QED BY <1>1, Zenon DEF LessThan

LEMMA SmallestOf ==
  ASSUME NEW T \in SUBSET Nat, T # {}
  PROVE  \E m \in T : \A k \in T : ~(k < m)
<1>1. IsWellFoundedOn(LessThan, Nat)
  BY NatLessThanWellFounded, Zenon DEF LessThan
<1>2. PICK m \in T : \A k \in T : <<k, m>> \notin LessThan
  BY <1>1, WFMin
<1>3. \A k \in T : ~(k < m)
  BY <1>2, LessThanIs
<1> QED BY <1>3

LEMMA Induction ==
  ASSUME NEW T, 0 \in T, \A n \in Nat : n \in T => n + 1 \in T
  PROVE  \A n \in Nat : n \in T
<1> SUFFICES ASSUME Nat \ T # {} PROVE FALSE
  OBVIOUS
<1>1. PICK m \in Nat \ T : \A k \in Nat \ T : ~(k < m)
  BY SmallestOf
<1>2. m # 0 /\ m - 1 \in Nat
  BY <1>1
<1>3. m - 1 \in T
  BY <1>1, <1>2
<1> QED BY <1>2, <1>3

(***************************************************************************)
(* A loop of n rounds has the values that its recursive equation says.     *)
(***************************************************************************)
LoopOf(f, S, c, n, step) ==
    f \in [0..n -> S] /\ f[0] = c /\ \A i \in 1..n : f[i] = step[i][f[i - 1]]

LEMMA LoopExists ==
  ASSUME NEW S, NEW c \in S, NEW n \in Nat, NEW step \in [1..n -> [S -> S]]
  PROVE  \E f : LoopOf(f, S, c, n, step)
<1> DEFINE Loop(f, k) == \A i \in 0..k : f[i] = IF i = 0 THEN c ELSE step[i][f[i - 1]]
           T == {k \in Nat : k <= n => \E f \in [0..k -> S] : Loop(f, k)}
<1>1. 0 \in T
  <2>1. [i \in 0..0 |-> c] \in [0..0 -> S] /\ Loop([i \in 0..0 |-> c], 0)
    OBVIOUS
  <2> QED BY <2>1
<1>2. ASSUME NEW k \in Nat, k \in T PROVE k + 1 \in T
  <2> SUFFICES ASSUME k + 1 <= n PROVE \E f \in [0..(k + 1) -> S] : Loop(f, k + 1)
    OBVIOUS
  <2>1. PICK f \in [0..k -> S] : Loop(f, k)
    BY <1>2
  <2> DEFINE v == step[k + 1][f[k]]
             g == [i \in 0..(k + 1) |-> IF i <= k THEN f[i] ELSE v]
  <2>2. v \in S
    BY <2>1
  <2>3. g \in [0..(k + 1) -> S]
    BY <2>2
  <2>4. ASSUME NEW i \in 0..(k + 1)
        PROVE  g[i] = IF i = 0 THEN c ELSE step[i][g[i - 1]]
    <3>1. CASE i = 0
      <4>1. 0 \in 0..k /\ 0 <= k /\ 0 \in 0..(k + 1)
        OBVIOUS
      <4>2. f[0] = c
        BY <2>1, <4>1
      <4>3. g[0] = f[0]
        BY <4>1
      <4> QED BY <3>1, <4>2, <4>3
    <3>2. CASE i # 0 /\ i <= k
      <4>1. i \in 0..k /\ i - 1 \in 0..k /\ i - 1 <= k
        BY <3>2
      <4>2. g[i] = f[i] /\ g[i - 1] = f[i - 1]
        BY <3>2, <4>1
      <4>3. f[i] = step[i][f[i - 1]]
        BY <2>1, <3>2, <4>1
      <4> QED BY <3>2, <4>2, <4>3
    <3>3. CASE i = k + 1
      <4>1. i # 0 /\ i - 1 = k /\ ~(i <= k) /\ k \in 0..(k + 1) /\ k <= k
        BY <3>3
      <4>2. g[i] = v /\ g[i - 1] = f[k]
        BY <3>3, <4>1
      <4> QED BY <3>3, <4>1, <4>2
    <3> QED BY <3>1, <3>2, <3>3
  <2> QED BY <2>3, <2>4
<1> HIDE DEF T
<1>3. n \in T
  BY <1>1, <1>2, Induction
<1>4. PICK f \in [0..n -> S] : Loop(f, n)
  BY <1>3 DEF T
<1>5. 0 \in 0..n /\ \A i \in 1..n : i \in 0..n /\ i # 0
  OBVIOUS
<1> QED BY <1>4, <1>5 DEF LoopOf
-----------------------------------------------------------------------------
(* Words and bytes as sets of bits. *)

Word == SUBSET (0..15)
Agree(x, y, A) == \A i \in A : i \in x <=> i \in y

LEMMA XorIs ==
  ASSUME NEW a, NEW b, NEW i
  PROVE  i \in Xor(a, b) <=> ~(i \in a <=> i \in b)
BY DEF Xor

LEMMA XorCancels ==
  ASSUME NEW a, NEW b, NEW c
  PROVE  Xor(a, b) = Xor(a, c) => b = c
BY Zenon DEF Xor

LEMMA BitsOfType == \A b : BitsOf(b) \in SUBSET (0..7)
BY DEF BitsOf

(***************************************************************************)
(* The number with given bits, as a sum.                                   *)
(***************************************************************************)
If(on, v) == IF on THEN v ELSE 0

ByteOf(x) ==
    If(0 \in x, 1) + If(1 \in x, 2) + If(2 \in x, 4) + If(3 \in x, 8)
        + If(4 \in x, 16) + If(5 \in x, 32) + If(6 \in x, 64) + If(7 \in x, 128)

LEMMA BitIs ==
  ASSUME NEW b \in Byte
  PROVE  /\ Bit(b, 0) <=> b % 2 = 1
         /\ Bit(b, 1) <=> (b \div 2) % 2 = 1
         /\ Bit(b, 2) <=> (b \div 4) % 2 = 1
         /\ Bit(b, 3) <=> (b \div 8) % 2 = 1
         /\ Bit(b, 4) <=> (b \div 16) % 2 = 1
         /\ Bit(b, 5) <=> (b \div 32) % 2 = 1
         /\ Bit(b, 6) <=> (b \div 64) % 2 = 1
         /\ Bit(b, 7) <=> (b \div 128) % 2 = 1
BY DEF Bit, Byte

LEMMA ByteOfType == \A x : ByteOf(x) \in Byte
BY DEF ByteOf, Byte, If

LEMMA BitsOfByteOf ==
  ASSUME NEW x \in SUBSET (0..7)
  PROVE  BitsOf(ByteOf(x)) = x
<1> DEFINE n(i) == IF i \in x THEN 1 ELSE 0
           b == ByteOf(x)
<1>b. b \in Byte
  BY ByteOfType
<1> HIDE DEF b
<1>3. /\ b % 2 = n(0) /\ (b \div 2) % 2 = n(1) /\ (b \div 4) % 2 = n(2) /\ (b \div 8) % 2 = n(3)
      /\ (b \div 16) % 2 = n(4) /\ (b \div 32) % 2 = n(5) /\ (b \div 64) % 2 = n(6)
      /\ (b \div 128) % 2 = n(7)
  BY DEF b, ByteOf, If
<1> HIDE DEF n
<1>4. \A i \in 0..7 : Bit(b, i) <=> n(i) = 1
  <2>1. Bit(b, 0) <=> n(0) = 1
    BY <1>3, <1>b, BitIs
  <2>2. Bit(b, 1) <=> n(1) = 1
    BY <1>3, <1>b, BitIs
  <2>3. Bit(b, 2) <=> n(2) = 1
    BY <1>3, <1>b, BitIs
  <2>4. Bit(b, 3) <=> n(3) = 1
    BY <1>3, <1>b, BitIs
  <2>5. Bit(b, 4) <=> n(4) = 1
    BY <1>3, <1>b, BitIs
  <2>6. Bit(b, 5) <=> n(5) = 1
    BY <1>3, <1>b, BitIs
  <2>7. Bit(b, 6) <=> n(6) = 1
    BY <1>3, <1>b, BitIs
  <2>8. Bit(b, 7) <=> n(7) = 1
    BY <1>3, <1>b, BitIs
  <2> QED BY <2>1, <2>2, <2>3, <2>4, <2>5, <2>6, <2>7, <2>8
<1>5. \A i \in 0..7 : Bit(b, i) <=> i \in x
  BY <1>4 DEF n
<1>6. BitsOf(b) = x
  BY <1>5 DEF BitsOf
<1> QED BY <1>6 DEF b

LEMMA ByteOfBitsOf ==
  ASSUME NEW b \in Byte
  PROVE  ByteOf(BitsOf(b)) = b
<1>1. \A i \in 0..7 : i \in BitsOf(b) <=> Bit(b, i)
  BY DEF BitsOf
<1>2. ByteOf(BitsOf(b)) = If(Bit(b, 0), 1) + If(Bit(b, 1), 2) + If(Bit(b, 2), 4) + If(Bit(b, 3), 8)
        + If(Bit(b, 4), 16) + If(Bit(b, 5), 32) + If(Bit(b, 6), 64) + If(Bit(b, 7), 128)
  BY <1>1 DEF ByteOf, If
<1>3. b = (b % 2) + 2 * ((b \div 2) % 2) + 4 * ((b \div 4) % 2) + 8 * ((b \div 8) % 2)
        + 16 * ((b \div 16) % 2) + 32 * ((b \div 32) % 2) + 64 * ((b \div 64) % 2)
        + 128 * ((b \div 128) % 2)
  BY DEF Byte
<1>4. /\ If(Bit(b, 0), 1) = b % 2 /\ If(Bit(b, 1), 2) = 2 * ((b \div 2) % 2)
      /\ If(Bit(b, 2), 4) = 4 * ((b \div 4) % 2) /\ If(Bit(b, 3), 8) = 8 * ((b \div 8) % 2)
      /\ If(Bit(b, 4), 16) = 16 * ((b \div 16) % 2) /\ If(Bit(b, 5), 32) = 32 * ((b \div 32) % 2)
      /\ If(Bit(b, 6), 64) = 64 * ((b \div 64) % 2) /\ If(Bit(b, 7), 128) = 128 * ((b \div 128) % 2)
  <2>0. \A m \in Nat : m % 2 = 0 \/ m % 2 = 1
    OBVIOUS
  <2>1. If(Bit(b, 0), 1) = b % 2
    <3>1. b \in Nat
      BY DEF Byte
    <3> QED BY <2>0, <3>1, BitIs DEF If
  <2>2. If(Bit(b, 1), 2) = 2 * ((b \div 2) % 2)
    <3>1. b \div 2 \in Nat
      BY DEF Byte
    <3> QED BY <2>0, <3>1, BitIs DEF If
  <2>3. If(Bit(b, 2), 4) = 4 * ((b \div 4) % 2)
    <3>1. b \div 4 \in Nat
      BY DEF Byte
    <3> QED BY <2>0, <3>1, BitIs DEF If
  <2>4. If(Bit(b, 3), 8) = 8 * ((b \div 8) % 2)
    <3>1. b \div 8 \in Nat
      BY DEF Byte
    <3> QED BY <2>0, <3>1, BitIs DEF If
  <2>5. If(Bit(b, 4), 16) = 16 * ((b \div 16) % 2)
    <3>1. b \div 16 \in Nat
      BY DEF Byte
    <3> QED BY <2>0, <3>1, BitIs DEF If
  <2>6. If(Bit(b, 5), 32) = 32 * ((b \div 32) % 2)
    <3>1. b \div 32 \in Nat
      BY DEF Byte
    <3> QED BY <2>0, <3>1, BitIs DEF If
  <2>7. If(Bit(b, 6), 64) = 64 * ((b \div 64) % 2)
    <3>1. b \div 64 \in Nat
      BY DEF Byte
    <3> QED BY <2>0, <3>1, BitIs DEF If
  <2>8. If(Bit(b, 7), 128) = 128 * ((b \div 128) % 2)
    <3>1. b \div 128 \in Nat
      BY DEF Byte
    <3> QED BY <2>0, <3>1, BitIs DEF If
  <2> QED BY <2>1, <2>2, <2>3, <2>4, <2>5, <2>6, <2>7, <2>8
<1> QED BY <1>2, <1>3, <1>4

LEMMA BitsOfInjective == \A a, b \in Byte : BitsOf(a) = BitsOf(b) => a = b
BY ByteOfBitsOf, Zenon
-----------------------------------------------------------------------------
(* The register of the checksum. *)

LEMMA ShiftIs ==
  ASSUME NEW x \in Word
  PROVE  /\ Shift[x] \in Word
         /\ \A i \in 0..15 : i \in Shift[x] <=> ~(i + 1 \in x <=> (0 \in x /\ i \in Poly))
<1>1. \A i \in 0..15 : i \in ShiftRight(x) <=> i + 1 \in x
  BY DEF ShiftRight, Word
<1>2. ShiftRight(x) \in Word
  BY DEF ShiftRight, Word
<1>3. Shift[x] = IF 0 \in x THEN Xor(ShiftRight(x), Poly) ELSE ShiftRight(x)
  BY DEF Shift, Word
<1>4. Poly \in Word
  BY DEF Poly, Word
<1>5. Shift[x] \in Word
  BY <1>2, <1>3, <1>4 DEF Xor, Word
<1>6. \A i \in 0..15 : i \in Shift[x] <=> ~(i + 1 \in x <=> (0 \in x /\ i \in Poly))
  BY <1>1, <1>3, XorIs
<1> QED BY <1>5, <1>6

(***************************************************************************)
(* Eight shifts lose nothing: the bits that fall out at the bottom are all *)
(* still to be read in the upper byte, for the polynomial's top bit is 1.  *)
(***************************************************************************)
Kept(j) == 0..(j - 1) \union (8 + j)..15

LEMMA ShiftAgree ==
  ASSUME NEW x \in Word, NEW y \in Word, NEW j \in 0..7, NEW k, k = j + 1,
         Agree(Shift[x], Shift[y], Kept(j))
  PROVE  Agree(x, y, Kept(k))
<1>1. 15 \in Shift[x] <=> 15 \in Shift[y]
  BY DEF Agree, Kept
<1>2. 16 \notin x /\ 16 \notin y /\ 15 \in Poly
  BY DEF Word, Poly
<1>3. 0 \in x <=> 0 \in y
  BY <1>1, <1>2, ShiftIs
<1>4. ASSUME NEW i \in Kept(k), i # 0 PROVE i \in x <=> i \in y
  <2>1. i - 1 \in 0..15 /\ i - 1 \in Kept(j) /\ (i - 1) + 1 = i
    BY <1>4 DEF Kept
  <2>2. i - 1 \in Shift[x] <=> i - 1 \in Shift[y]
    BY <2>1 DEF Agree
  <2>3. /\ i - 1 \in Shift[x] <=> ~(i \in x <=> (0 \in x /\ i - 1 \in Poly))
        /\ i - 1 \in Shift[y] <=> ~(i \in y <=> (0 \in y /\ i - 1 \in Poly))
    BY <2>1, ShiftIs
  <2> QED BY <1>3, <2>2, <2>3
<1> QED BY <1>3, <1>4 DEF Agree

LEMMA Shift8Injective ==
  ASSUME NEW x \in SUBSET (0..7), NEW y \in SUBSET (0..7), Agree(Shift8[x], Shift8[y], 8..15)
  PROVE  x = y
<1> DEFINE x1 == Shift[x]
           x2 == Shift[x1]
           x3 == Shift[x2]
           x4 == Shift[x3]
           x5 == Shift[x4]
           x6 == Shift[x5]
           x7 == Shift[x6]
           y1 == Shift[y]
           y2 == Shift[y1]
           y3 == Shift[y2]
           y4 == Shift[y3]
           y5 == Shift[y4]
           y6 == Shift[y5]
           y7 == Shift[y6]
<1>1. Agree(Shift[x7], Shift[y7], Kept(0))
  <2>1. Agree(Shift8[x], Shift8[y], Kept(0))
    BY DEF Agree, Kept
  <2> QED BY <2>1 DEF Shift8
<1>2. x \in Word /\ y \in Word
  BY DEF Word
<1>3. x1 \in Word /\ x2 \in Word /\ x3 \in Word /\ x4 \in Word /\ x5 \in Word /\ x6 \in Word /\ x7 \in Word
  BY <1>2, ShiftIs
<1>4. y1 \in Word /\ y2 \in Word /\ y3 \in Word /\ y4 \in Word /\ y5 \in Word /\ y6 \in Word /\ y7 \in Word
  BY <1>2, ShiftIs
<1> DEFINE Step(u, v, j, k) == Agree(Shift[u], Shift[v], Kept(j)) => Agree(u, v, Kept(k))
<1>5. \A u, v \in Word : /\ Step(u, v, 0, 1) /\ Step(u, v, 1, 2) /\ Step(u, v, 2, 3) /\ Step(u, v, 3, 4)
                        /\ Step(u, v, 4, 5) /\ Step(u, v, 5, 6) /\ Step(u, v, 6, 7) /\ Step(u, v, 7, 8)
  BY ShiftAgree
<1>6. Agree(x7, y7, Kept(1)) /\ Agree(x6, y6, Kept(2)) /\ Agree(x5, y5, Kept(3)) /\ Agree(x4, y4, Kept(4))
  BY <1>1, <1>3, <1>4, <1>5, Zenon
<1>7. Agree(x3, y3, Kept(5)) /\ Agree(x2, y2, Kept(6)) /\ Agree(x1, y1, Kept(7))
  BY <1>6, <1>3, <1>4, <1>5, Zenon
<1>8. Agree(x, y, Kept(8))
  BY <1>7, <1>2, <1>5, Zenon
<1>9. \A i \in 0..7 : i \in x <=> i \in y
  BY <1>8 DEF Agree, Kept
<1> QED BY <1>9

LEMMA Shift8Type == \A low \in SUBSET (0..7) : Shift8[low] \in Word
<1> TAKE low \in SUBSET (0..7)
<1>1. low \in Word
  BY DEF Word
<1>2. \A x \in Word : Shift[x] \in Word
  BY ShiftIs
<1> QED BY <1>1, <1>2 DEF Shift8

LEMMA Shift8OfEmpty == Shift8[{}] = {}
<1>1. Shift[{}] = {}
  BY DEF Shift, ShiftRight
<1> QED BY <1>1 DEF Shift8

\* What MixIn adds to the shifted lower byte: the upper one, moved down.
Upper(x) == {i - 8 : i \in x \ 0..7}

LEMMA MixInIs ==
  ASSUME NEW crc \in Word, NEW b \in Byte
  PROVE  LET mixed == Xor(crc, BitsOf(b))
         IN /\ MixIn(crc, b) = Xor(Shift8[mixed \intersect 0..7], Upper(mixed))
            /\ mixed \in Word
            /\ Upper(mixed) = Upper(crc)
            /\ Upper(crc) \in SUBSET (0..7)
            /\ MixIn(crc, b) \in Word
<1> DEFINE mixed == Xor(crc, BitsOf(b))
<1>1. MixIn(crc, b) = Xor(Shift8[mixed \intersect 0..7], Upper(mixed))
  BY DEF MixIn, Upper
<1>2. mixed \in Word
  <2>1. BitsOf(b) \in SUBSET (0..15)
    BY DEF BitsOf
  <2> QED BY <2>1 DEF Xor, Word
<1>3. mixed \ 0..7 = crc \ 0..7
  BY BitsOfType DEF Xor
<1>4. Upper(mixed) = Upper(crc)
  BY <1>3 DEF Upper
<1>5. Upper(crc) \in SUBSET (0..7)
  <2>1. \A i \in crc \ 0..7 : i - 8 \in 0..7
    BY DEF Word
  <2> QED BY <2>1 DEF Upper
<1>6. Shift8[mixed \intersect 0..7] \in Word
  BY Shift8Type
<1>7. Xor(Shift8[mixed \intersect 0..7], Upper(mixed)) \in Word
  BY <1>4, <1>5, <1>6 DEF Xor, Word
<1> QED BY <1>1, <1>2, <1>4, <1>5, <1>7

\* From what MixIn returns the low byte that it mixed can be told.
LEMMA MixInLow ==
  ASSUME NEW c \in Word, NEW d \in Word, NEW a \in Byte, NEW b \in Byte,
         Agree(MixIn(c, a), MixIn(d, b), 8..15)
  PROVE  Xor(c, BitsOf(a)) \intersect 0..7 = Xor(d, BitsOf(b)) \intersect 0..7
<1> DEFINE x == Xor(c, BitsOf(a)) \intersect 0..7
           y == Xor(d, BitsOf(b)) \intersect 0..7
<1>1. /\ MixIn(c, a) = Xor(Shift8[x], Upper(c)) /\ Upper(c) \in SUBSET (0..7)
      /\ MixIn(d, b) = Xor(Shift8[y], Upper(d)) /\ Upper(d) \in SUBSET (0..7)
  BY MixInIs, Zenon
<1> HIDE DEF x, y
<1>2. Agree(Shift8[x], Shift8[y], 8..15)
  BY <1>1 DEF Agree, Xor
<1>3. x \in SUBSET (0..7) /\ y \in SUBSET (0..7)
  BY DEF x, y
<1>4. x = y
  BY <1>2, <1>3, Shift8Injective
<1> QED BY <1>4 DEF x, y

LEMMA MixInInjective ==
  ASSUME NEW c \in Word, NEW d \in Word, NEW a \in Byte, NEW b \in Byte,
         MixIn(c, a) = MixIn(d, b)
  PROVE  Xor(c, BitsOf(a)) = Xor(d, BitsOf(b))
<1> DEFINE x == Xor(c, BitsOf(a))
           y == Xor(d, BitsOf(b))
<1>1. x \intersect 0..7 = y \intersect 0..7
  BY MixInLow DEF Agree
<1>2. /\ MixIn(c, a) = Xor(Shift8[x \intersect 0..7], Upper(x)) /\ x \in Word
      /\ MixIn(d, b) = Xor(Shift8[y \intersect 0..7], Upper(y)) /\ y \in Word
  BY MixInIs, Zenon
<1> HIDE DEF x, y
<1>3. Upper(x) = Upper(y)
  BY <1>1, <1>2, XorCancels, Zenon
<1>4. \A i \in 8..15 : i \in x <=> i \in y
  <2>1. \A i \in 8..15 : i \in x <=> i - 8 \in Upper(x)
    BY <1>2 DEF Upper, Word
  <2>2. \A i \in 8..15 : i \in y <=> i - 8 \in Upper(y)
    BY <1>2 DEF Upper, Word
  <2> QED BY <1>3, <2>1, <2>2
<1>5. x = y
  <2>1. \A i \in 0..7 : i \in x <=> i \in y
    BY <1>1
  <2>2. \A i \in 0..15 : i \in x <=> i \in y
    BY <1>4, <2>1
  <2> QED BY <1>2, <2>2 DEF Word
<1> QED BY <1>5 DEF x, y
-----------------------------------------------------------------------------
(* The checksum of a sequence of bytes, byte by byte. *)

CrcLoop(data) == CHOOSE f : f = [i \in 0..Len(data) |-> IF i = 0 THEN 0..15 ELSE MixIn(f[i - 1], data[i])]

LEMMA CrcLoopIs ==
  ASSUME NEW data \in Seq(Byte)
  PROVE  /\ Crc16(data) = CrcLoop(data)[Len(data)]
         /\ CrcLoop(data)[0] = 0..15
         /\ \A i \in 1..Len(data) : CrcLoop(data)[i] = MixIn(CrcLoop(data)[i - 1], data[i])
         /\ \A i \in 0..Len(data) : CrcLoop(data)[i] \in Word
<1> DEFINE n == Len(data)
           step == [i \in 1..n |-> [w \in Word |-> MixIn(w, data[i])]]
           Eq(f) == f = [i \in 0..n |-> IF i = 0 THEN 0..15 ELSE MixIn(f[i - 1], data[i])]
<1>1. n \in Nat /\ \A i \in 1..n : data[i] \in Byte
  BY LenProperties
<1>2. step \in [1..n -> [Word -> Word]]
  <2>1. \A w \in Word, i \in 1..n : MixIn(w, data[i]) \in Word
    BY <1>1, MixInIs
  <2> QED BY <2>1
<1>3. 0..15 \in Word
  BY DEF Word
<1>4. PICK g : LoopOf(g, Word, 0..15, n, step)
  BY <1>1, <1>2, <1>3, LoopExists, Zenon
<1>g. g \in [0..n -> Word] /\ g[0] = 0..15 /\ \A i \in 1..n : g[i] = step[i][g[i - 1]]
  BY <1>4 DEF LoopOf
<1>5. Eq(g)
  <2>1. \A i \in 1..n : g[i - 1] \in Word
    BY <1>1, <1>g
  <2>4. \A i \in 1..n : g[i] = MixIn(g[i - 1], data[i])
    BY <1>g, <2>1
  <2>2. \A i \in 0..n : i = 0 \/ i \in 1..n
    BY <1>1
  <2>3. \A i \in 0..n : g[i] = IF i = 0 THEN 0..15 ELSE MixIn(g[i - 1], data[i])
    BY <1>g, <2>4, <2>2
  <2> QED BY <1>g, <2>3
<1>6. Eq(CrcLoop(data))
  BY <1>5, Zenon DEF CrcLoop
<1> DEFINE h == CrcLoop(data)
<1> HIDE DEF h
<1>7. h[0] = 0..15 /\ \A i \in 1..n : h[i] = MixIn(h[i - 1], data[i])
  <2>1. h = [i \in 0..n |-> IF i = 0 THEN 0..15 ELSE MixIn(h[i - 1], data[i])]
    BY <1>6 DEF h
  <2>2. \A i \in 0..n : h[i] = IF i = 0 THEN 0..15 ELSE MixIn(h[i - 1], data[i])
    BY <2>1, Zenon
  <2>3. 0 \in 0..n /\ \A i \in 1..n : i \in 0..n /\ i # 0
    BY <1>1
  <2> QED BY <2>2, <2>3
<1>8. \A i \in 0..n : h[i] \in Word
  <2> DEFINE T == {i \in Nat : i <= n => h[i] \in Word}
  <2>1. 0 \in T
    BY <1>3, <1>7
  <2>2. ASSUME NEW i \in Nat, i \in T PROVE i + 1 \in T
    <3> SUFFICES ASSUME i + 1 <= n PROVE h[i + 1] \in Word
      OBVIOUS
    <3>1. h[i] \in Word /\ i + 1 \in 1..n /\ (i + 1) - 1 = i
      BY <1>1, <2>2
    <3>2. h[i + 1] = MixIn(h[i], data[i + 1])
      BY <1>7, <3>1
    <3> QED BY <1>1, <3>1, <3>2, MixInIs
  <2> HIDE DEF T
  <2>3. \A i \in Nat : i \in T
    BY <2>1, <2>2, Induction
  <2> QED BY <1>1, <2>3 DEF T
<1>9. Crc16(data) = h[n]
  BY DEF Crc16, CrcLoop, h
<1> QED BY <1>7, <1>8, <1>9 DEF h

\* The register after a prefix of data is that prefix's checksum.
LEMMA CrcLoopLocal ==
  ASSUME NEW d \in Seq(Byte), NEW e \in Seq(Byte), NEW n \in Nat,
         n <= Len(d), n <= Len(e), \A i \in 1..n : d[i] = e[i]
  PROVE  CrcLoop(d)[n] = CrcLoop(e)[n]
<1> DEFINE T == {k \in Nat : k <= n => CrcLoop(d)[k] = CrcLoop(e)[k]}
<1>1. 0 \in T
  BY CrcLoopIs
<1>2. ASSUME NEW k \in Nat, k \in T PROVE k + 1 \in T
  <2> SUFFICES ASSUME k + 1 <= n PROVE CrcLoop(d)[k + 1] = CrcLoop(e)[k + 1]
    OBVIOUS
  <2>1. /\ k + 1 \in 1..Len(d) /\ k + 1 \in 1..Len(e) /\ k + 1 \in 1..n /\ (k + 1) - 1 = k
        /\ CrcLoop(d)[k] = CrcLoop(e)[k]
    BY <1>2, LenProperties
  <2>2. /\ CrcLoop(d)[k + 1] = MixIn(CrcLoop(d)[k], d[k + 1])
        /\ CrcLoop(e)[k + 1] = MixIn(CrcLoop(e)[k], e[k + 1])
    BY <2>1, CrcLoopIs
  <2> QED BY <2>1, <2>2
<1> HIDE DEF T
<1>3. n \in T
  BY <1>1, <1>2, Induction
<1> QED BY <1>3 DEF T

LEMMA Crc16Type == \A data \in Seq(Byte) : Crc16(data) \in Word
<1> TAKE data \in Seq(Byte)
<1>1. Len(data) \in 0..Len(data)
  BY LenProperties
<1> QED BY <1>1, CrcLoopIs

LEMMA Crc16Append ==
  ASSUME NEW data \in Seq(Byte), NEW b \in Byte
  PROVE  Crc16(Append(data, b)) = MixIn(Crc16(data), b)
<1> DEFINE more == Append(data, b)
           n == Len(data)
<1>1. /\ more \in Seq(Byte) /\ Len(more) = n + 1 /\ n \in Nat
      /\ more[n + 1] = b /\ \A i \in 1..n : more[i] = data[i]
  BY AppendProperties, LenProperties
<1> HIDE DEF more
<1>2. n + 1 \in 1..Len(more) /\ (n + 1) - 1 = n
  BY <1>1
<1>3. Crc16(more) = MixIn(CrcLoop(more)[n], more[n + 1])
  BY <1>1, <1>2, CrcLoopIs
<1>4. CrcLoop(more)[n] = CrcLoop(data)[n]
  BY <1>1, CrcLoopLocal
<1>5. CrcLoop(data)[n] = Crc16(data)
  BY CrcLoopIs
<1>6. Crc16(more) = MixIn(Crc16(data), b)
  BY <1>1, <1>3, <1>4, <1>5
<1> QED BY <1>6 DEF more
-----------------------------------------------------------------------------
(* The checksum as two bytes. *)

\* The weights of the bits, summed up from the lowest.
SumLoop(x, n) ==
    CHOOSE f : f = [i \in 0..n |->
        IF i = 0 THEN 0 ELSE f[i - 1] + (IF i - 1 \in x THEN 2^(i - 1) ELSE 0)]

LEMMA PowersOfTwo == \A i \in 0..15 : 2^i \in Nat
<1> TAKE i \in 0..15
<1>1. CASE i = 0
  BY <1>1
<1>2. CASE i = 1
  BY <1>2
<1>3. CASE i = 2
  BY <1>3
<1>4. CASE i = 3
  BY <1>4
<1>5. CASE i = 4
  BY <1>5
<1>6. CASE i = 5
  BY <1>6
<1>7. CASE i = 6
  BY <1>7
<1>8. CASE i = 7
  BY <1>8
<1>9. CASE i = 8
  BY <1>9
<1>10. CASE i = 9
  BY <1>10
<1>11. CASE i = 10
  BY <1>11
<1>12. CASE i = 11
  BY <1>12
<1>13. CASE i = 12
  BY <1>13
<1>14. CASE i = 13
  BY <1>14
<1>15. CASE i = 14
  BY <1>15
<1>16. CASE i = 15
  BY <1>16
<1> QED BY <1>1, <1>2, <1>3, <1>4, <1>5, <1>6, <1>7, <1>8, <1>9, <1>10, <1>11, <1>12, <1>13,
           <1>14, <1>15, <1>16

LEMMA SumLoopIs ==
  ASSUME NEW x, NEW n \in 0..16
  PROVE  /\ SumLoop(x, n)[0] = 0
         /\ \A i \in 1..n : SumLoop(x, n)[i] = SumLoop(x, n)[i - 1] + (IF i - 1 \in x THEN 2^(i - 1) ELSE 0)
<1> DEFINE w(i) == IF i - 1 \in x THEN 2^(i - 1) ELSE 0
           step == [i \in 1..n |-> [m \in Nat |-> m + w(i)]]
           Eq(f) == f = [i \in 0..n |-> IF i = 0 THEN 0 ELSE f[i - 1] + w(i)]
<1>1. ASSUME NEW i \in 1..n PROVE w(i) \in Nat
  <2>1. i - 1 \in 0..15
    OBVIOUS
  <2>2. 2^(i - 1) \in Nat
    BY <2>1, PowersOfTwo, Zenon
  <2> QED BY <2>2
<1>2. n \in Nat /\ 0 \in Nat
  OBVIOUS
<1>3. step \in [1..n -> [Nat -> Nat]]
  <2> HIDE DEF w
  <2> QED BY <1>1
<1>4. PICK g : LoopOf(g, Nat, 0, n, step)
  BY <1>2, <1>3, LoopExists, Zenon
<1> HIDE DEF w
<1>5. Eq(g)
  <2>1. g \in [0..n -> Nat] /\ g[0] = 0 /\ \A i \in 1..n : g[i] = step[i][g[i - 1]]
    BY <1>4 DEF LoopOf
  <2>2. \A i \in 1..n : g[i - 1] \in Nat
    BY <2>1
  <2>3. \A i \in 1..n : g[i] = g[i - 1] + w(i)
    BY <2>1, <2>2
  <2>4. \A i \in 0..n : i = 0 \/ i \in 1..n
    OBVIOUS
  <2>5. \A i \in 0..n : g[i] = IF i = 0 THEN 0 ELSE g[i - 1] + w(i)
    BY <2>1, <2>3, <2>4
  <2> QED BY <2>1, <2>5
<1>6. Eq(SumLoop(x, n))
  BY <1>5, Zenon DEF SumLoop, w
<1> DEFINE h == SumLoop(x, n)
<1> HIDE DEF h
<1>7. h = [i \in 0..n |-> IF i = 0 THEN 0 ELSE h[i - 1] + w(i)]
  BY <1>6 DEF h
<1>8. \A i \in 0..n : h[i] = IF i = 0 THEN 0 ELSE h[i - 1] + w(i)
  BY <1>7, Zenon
<1>9. 0 \in 0..n /\ \A i \in 1..n : i \in 0..n /\ i # 0
  OBVIOUS
<1>10. h[0] = 0 /\ \A i \in 1..n : h[i] = h[i - 1] + w(i)
  BY <1>8, <1>9
<1> QED BY <1>10 DEF h, w

LEMMA NumberIs ==
  ASSUME NEW x
  PROVE  /\ Number(x, 8) = ByteOf(x)
         /\ Number(x, 16) = ByteOf(x) + 256 * (If(8 \in x, 1) + If(9 \in x, 2) + If(10 \in x, 4)
                + If(11 \in x, 8) + If(12 \in x, 16) + If(13 \in x, 32) + If(14 \in x, 64)
                + If(15 \in x, 128))
<1> DEFINE w(i) == IF i - 1 \in x THEN 2^(i - 1) ELSE 0
           high == If(8 \in x, 1) + If(9 \in x, 2) + If(10 \in x, 4) + If(11 \in x, 8)
                       + If(12 \in x, 16) + If(13 \in x, 32) + If(14 \in x, 64) + If(15 \in x, 128)
<1>1. ASSUME NEW h, h[0] = 0, \A i \in 1..8 : h[i] = h[i - 1] + w(i)
      PROVE  h[8] = ByteOf(x)
  <2>1. /\ h[1] = h[0] + If(0 \in x, 1) /\ h[2] = h[1] + If(1 \in x, 2)
        /\ h[3] = h[2] + If(2 \in x, 4) /\ h[4] = h[3] + If(3 \in x, 8)
        /\ h[5] = h[4] + If(4 \in x, 16) /\ h[6] = h[5] + If(5 \in x, 32)
        /\ h[7] = h[6] + If(6 \in x, 64) /\ h[8] = h[7] + If(7 \in x, 128)
    BY <1>1 DEF If
  <2> QED BY <1>1, <2>1 DEF If, ByteOf
<1>2. ASSUME NEW h, h[8] \in Nat, \A i \in 9..16 : h[i] = h[i - 1] + w(i)
      PROVE  h[16] = h[8] + 256 * high
  <2>1. /\ h[9] = h[8] + If(8 \in x, 256) /\ h[10] = h[9] + If(9 \in x, 512)
        /\ h[11] = h[10] + If(10 \in x, 1024) /\ h[12] = h[11] + If(11 \in x, 2048)
        /\ h[13] = h[12] + If(12 \in x, 4096) /\ h[14] = h[13] + If(13 \in x, 8192)
        /\ h[15] = h[14] + If(14 \in x, 16384) /\ h[16] = h[15] + If(15 \in x, 32768)
    BY <1>2 DEF If
  <2> QED BY <1>2, <2>1 DEF If
<1>3. Number(x, 8) = SumLoop(x, 8)[8] /\ Number(x, 16) = SumLoop(x, 16)[16]
  BY DEF Number, SumLoop
<1>4. SumLoop(x, 8)[0] = 0 /\ \A i \in 1..8 : SumLoop(x, 8)[i] = SumLoop(x, 8)[i - 1] + w(i)
  BY SumLoopIs
<1>5. SumLoop(x, 16)[0] = 0 /\ \A i \in 1..16 : SumLoop(x, 16)[i] = SumLoop(x, 16)[i - 1] + w(i)
  BY SumLoopIs
<1> HIDE DEF w, high
<1>6. SumLoop(x, 8)[8] = ByteOf(x)
  BY <1>1, <1>4
<1>7. SumLoop(x, 16)[8] = ByteOf(x)
  BY <1>1, <1>5
<1>8. SumLoop(x, 16)[8] \in Nat
  BY <1>7, ByteOfType DEF Byte
<1>9. SumLoop(x, 16)[16] = ByteOf(x) + 256 * high
  BY <1>2, <1>5, <1>7, <1>8
<1> QED BY <1>3, <1>6, <1>9 DEF high

LEMMA CrcBytesIs ==
  ASSUME NEW crc \in Word
  PROVE  CrcBytes(crc) = <<ByteOf(crc \intersect 0..7), ByteOf(Upper(crc))>>
<1> DEFINE n == Number(crc, 16)
           lo == ByteOf(crc \intersect 0..7)
           hi == ByteOf(Upper(crc))
<1>1. CrcBytes(crc) = <<n % 256, n \div 256>>
  BY DEF CrcBytes
<1>2. ByteOf(crc) = lo
  BY DEF ByteOf
<1>3. \A i \in 0..7 : i \in Upper(crc) <=> i + 8 \in crc
  BY DEF Upper, Word
<1>4. n = lo + 256 * hi
  <2>1. hi = If(8 \in crc, 1) + If(9 \in crc, 2) + If(10 \in crc, 4) + If(11 \in crc, 8)
             + If(12 \in crc, 16) + If(13 \in crc, 32) + If(14 \in crc, 64) + If(15 \in crc, 128)
    BY <1>3 DEF ByteOf, If
  <2> QED BY <1>2, <2>1, NumberIs
<1>5. lo \in Byte /\ hi \in Byte
  BY ByteOfType
<1>6. n % 256 = lo /\ n \div 256 = hi
  <2> HIDE DEF lo, hi, n
  <2> QED BY <1>4, <1>5 DEF Byte
<1> QED BY <1>1, <1>6

-----------------------------------------------------------------------------
(* Frames. *)

LEMMA FramedIs ==
  ASSUME NEW body \in Seq(Byte)
  PROVE  LET lo == ByteOf(Crc16(body) \intersect 0..7)
             hi == ByteOf(Upper(Crc16(body)))
         IN /\ Framed(body) = Append(Append(body, lo), hi)
            /\ lo \in Byte /\ hi \in Byte
            /\ Framed(body) \in Seq(Byte)
            /\ Len(Framed(body)) = Len(body) + 2
            /\ \A i \in 1..Len(body) : Framed(body)[i] = body[i]
<1> DEFINE lo == ByteOf(Crc16(body) \intersect 0..7)
           hi == ByteOf(Upper(Crc16(body)))
<1>1. Framed(body) = body \o <<lo, hi>>
  BY Crc16Type, CrcBytesIs DEF Framed
<1>2. lo \in Byte /\ hi \in Byte
  BY ByteOfType
<1> HIDE DEF lo, hi
<1>3. body \o <<lo, hi>> = Append(Append(body, lo), hi)
  BY <1>2
<1>4. /\ Append(Append(body, lo), hi) \in Seq(Byte)
      /\ Len(Append(Append(body, lo), hi)) = Len(body) + 2
      /\ \A i \in 1..Len(body) : Append(Append(body, lo), hi)[i] = body[i]
  BY <1>2
<1> QED BY <1>1, <1>2, <1>3, <1>4 DEF lo, hi

(***************************************************************************)
(* The two bytes that a sender puts behind a message bring the register to *)
(* zero, whatever the message: parse_frame takes it.                       *)
(***************************************************************************)
THEOREM FramedHasNoResidue ==
  ASSUME NEW body \in Seq(Byte)
  PROVE  Crc16(Framed(body)) = {}
<1> DEFINE c == Crc16(body)
           lo == ByteOf(c \intersect 0..7)
           hi == ByteOf(Upper(c))
<1>1. c \in Word /\ Upper(c) \in SUBSET (0..7)
  BY Crc16Type, MixInIs, ByteOfType
<1>2. lo \in Byte /\ hi \in Byte
  BY ByteOfType
<1>3. BitsOf(lo) = c \intersect 0..7 /\ BitsOf(hi) = Upper(c)
  BY <1>1, BitsOfByteOf
<1>4. Framed(body) = Append(Append(body, lo), hi)
  BY FramedIs
<1> HIDE DEF c, lo, hi
<1>5. MixIn(c, lo) = Upper(c)
  <2>1. Xor(c, BitsOf(lo)) \intersect 0..7 = {}
    BY <1>3 DEF Xor
  <2>2. /\ MixIn(c, lo) = Xor(Shift8[Xor(c, BitsOf(lo)) \intersect 0..7], Upper(Xor(c, BitsOf(lo))))
        /\ Upper(Xor(c, BitsOf(lo))) = Upper(c)
    BY <1>1, <1>2, MixInIs
  <2>3. MixIn(c, lo) = Xor({}, Upper(c))
    BY <2>1, <2>2, Shift8OfEmpty
  <2> QED BY <2>3 DEF Xor
<1>6. MixIn(Upper(c), hi) = {}
  <2>1. Xor(Upper(c), BitsOf(hi)) = {}
    BY <1>3 DEF Xor
  <2>2. Upper(c) \in Word
    BY <1>1 DEF Word
  <2>3. MixIn(Upper(c), hi) = Xor(Shift8[{} \intersect 0..7], Upper({}))
    BY <1>2, <2>1, <2>2, MixInIs
  <2>4. {} \intersect 0..7 = {} /\ Upper({}) = {}
    BY DEF Upper
  <2> QED BY <2>3, <2>4, Shift8OfEmpty DEF Xor
<1>7. Crc16(Append(body, lo)) = MixIn(c, lo) /\ Append(body, lo) \in Seq(Byte)
  BY <1>2, Crc16Append, AppendProperties DEF c
<1>8. Crc16(Append(Append(body, lo), hi)) = MixIn(Crc16(Append(body, lo)), hi)
  BY <1>2, <1>7, Crc16Append
<1> QED BY <1>4, <1>5, <1>6, <1>7, <1>8

(***************************************************************************)
(* A response comes apart as it was put together: parse_frame returns the  *)
(* address, the command, the status and the data that its sender framed.   *)
(***************************************************************************)
THEOREM ParseFrameOfResponse ==
  ASSUME NEW data \in Seq(Byte), Len(data) <= 250,
         NEW adr \in Byte, NEW cmd \in Byte, NEW status \in Byte
  PROVE  ParseFrame(Framed(<<Len(data) + 5, adr, cmd, status>> \o data))
             = [adr |-> adr, reCmd |-> cmd, status |-> status, data |-> data]
<1> DEFINE body == <<Len(data) + 5, adr, cmd, status>> \o data
           frame == Framed(body)
           n == Len(data)
<1>1. n \in Nat /\ n + 5 \in Byte
  <2>1. n \in Nat
    BY LenProperties
  <2> HIDE DEF n
  <2>2. n <= 250
    BY DEF n
  <2> QED BY <2>1, <2>2 DEF Byte
<1>2. /\ body \in Seq(Byte) /\ Len(body) = n + 4
      /\ body[1] = n + 5 /\ body[2] = adr /\ body[3] = cmd /\ body[4] = status
      /\ \A i \in 1..n : body[i + 4] = data[i]
  <2> HIDE DEF n
  <2>1. <<n + 5, adr, cmd, status>> \in Seq(Byte) /\ Len(<<n + 5, adr, cmd, status>>) = 4
    BY <1>1
  <2> QED BY <1>1, <2>1 DEF n
<1> HIDE DEF body
<1>3. /\ frame \in Seq(Byte) /\ Len(frame) = n + 6
      /\ \A i \in 1..(n + 4) : frame[i] = body[i]
  <2>1. /\ frame \in Seq(Byte) /\ Len(frame) = Len(body) + 2
        /\ \A i \in 1..Len(body) : frame[i] = body[i]
    BY <1>2, FramedIs
  <2> HIDE DEF frame, n
  <2> QED BY <1>1, <1>2, <2>1
<1>4. Crc16(frame) = {}
  BY <1>2, FramedHasNoResidue
<1> HIDE DEF frame, n
<1>5. frame[1] = n + 5 /\ frame[2] = adr /\ frame[3] = cmd /\ frame[4] = status
  BY <1>1, <1>2, <1>3
<1>6. SubSeq(frame, 5, Len(frame) - 2) = data
  <2>1. \A i \in 1..n : i + 4 \in 1..(n + 4) /\ frame[i + 4] = data[i]
    BY <1>1, <1>2, <1>3
  <2>2. Len(frame) - 2 = n + 4
    BY <1>1, <1>3
  <2> DEFINE s == SubSeq(frame, 5, n + 4)
  <2>3. s \in Seq(Byte) /\ Len(s) = n /\ \A i \in 1..n : s[i] = frame[i + 4]
    BY <1>1, <1>3, SubSeqProperties
  <2> HIDE DEF s
  <2>4. s = data
    BY <2>1, <2>3, SeqEqual DEF n
  <2> QED BY <2>2, <2>4 DEF s
<1>7. ~(Len(frame) < 5 \/ Len(frame) # frame[1] + 1 \/ Crc16(frame) # {})
  BY <1>1, <1>3, <1>4, <1>5
<1>8. ParseFrame(frame) = [adr |-> adr, reCmd |-> cmd, status |-> status, data |-> data]
  BY <1>5, <1>6, <1>7, Zenon DEF ParseFrame
<1> QED BY <1>8 DEF frame, body

(***************************************************************************)
(* Noise within two bytes that follow each other is always seen: of two    *)
(* messages that differ nowhere else, crc16 takes at most one.             *)
(***************************************************************************)
THEOREM BurstChangesCrc ==
  ASSUME NEW d \in Seq(Byte), NEW e \in Seq(Byte), Len(d) = Len(e),
         NEW k \in 1..(Len(d) - 1),
         \A i \in 1..Len(d) : i # k /\ i # k + 1 => d[i] = e[i],
         Crc16(d) = Crc16(e)
  PROVE  d = e
<1> DEFINE n == Len(d)
           p == CrcLoop(d)
           q == CrcLoop(e)
<1>1. n \in Nat /\ k \in 1..n /\ k + 1 \in 1..n /\ k - 1 \in 0..n /\ k \in Nat
  BY LenProperties
<1>2. /\ \A i \in 1..n : p[i] = MixIn(p[i - 1], d[i]) /\ q[i] = MixIn(q[i - 1], e[i])
      /\ \A i \in 0..n : p[i] \in Word /\ q[i] \in Word
      /\ p[n] = q[n]
      /\ \A i \in 1..n : d[i] \in Byte /\ e[i] \in Byte
  BY CrcLoopIs, LenProperties
<1>3. p[k - 1] = q[k - 1]
  <2>1. \A i \in 1..(k - 1) : d[i] = e[i]
    BY <1>1
  <2> QED BY <1>1, <2>1, CrcLoopLocal
<1> HIDE DEF n, p, q
<1>4. p[k + 1] = q[k + 1]
  <2> DEFINE T == {j \in Nat : k + 1 <= n - j => p[n - j] = q[n - j]}
  <2>1. 0 \in T
    BY <1>1, <1>2
  <2>2. ASSUME NEW j \in Nat, j \in T PROVE j + 1 \in T
    <3> SUFFICES ASSUME k + 1 <= n - (j + 1) PROVE p[n - (j + 1)] = q[n - (j + 1)]
      OBVIOUS
    <3> DEFINE i == n - j
    <3>1. i \in 1..n /\ i - 1 \in 0..n /\ i # k /\ i # k + 1 /\ n - (j + 1) = i - 1 /\ k + 1 <= i
      BY <1>1, <2>2
    <3>2. p[i] = q[i]
      BY <2>2, <3>1
    <3> HIDE DEF i
    <3>3. d[i] = e[i] /\ d[i] \in Byte
      BY <1>2, <3>1 DEF n
    <3>4. MixIn(p[i - 1], d[i]) = MixIn(q[i - 1], d[i]) /\ p[i - 1] \in Word /\ q[i - 1] \in Word
      BY <1>2, <3>1, <3>2, <3>3
    <3>5. Xor(p[i - 1], BitsOf(d[i])) = Xor(q[i - 1], BitsOf(d[i]))
      BY <3>3, <3>4, MixInInjective
    <3>6. p[i - 1] = q[i - 1]
      BY <3>5, Zenon DEF Xor
    <3> QED BY <3>1, <3>6
  <2> HIDE DEF T
  <2>3. n - (k + 1) \in T
    BY <1>1, <2>1, <2>2, Induction
  <2> QED BY <1>1, <2>3 DEF T
<1> DEFINE c == p[k - 1]
<1>5. /\ p[k] = MixIn(c, d[k]) /\ q[k] = MixIn(c, e[k])
      /\ p[k + 1] = MixIn(p[k], d[k + 1]) /\ q[k + 1] = MixIn(q[k], e[k + 1])
      /\ c \in Word /\ p[k] \in Word /\ q[k] \in Word
      /\ d[k] \in Byte /\ e[k] \in Byte /\ d[k + 1] \in Byte /\ e[k + 1] \in Byte
  <2>1. k \in 0..n /\ (k + 1) - 1 = k
    BY <1>1
  <2> QED BY <1>1, <1>2, <1>3, <2>1
<1> HIDE DEF c
<1>6. Xor(p[k], BitsOf(d[k + 1])) = Xor(q[k], BitsOf(e[k + 1]))
  <2>1. MixIn(p[k], d[k + 1]) = MixIn(q[k], e[k + 1])
    BY <1>4, <1>5
  <2> QED BY <1>5, <2>1, MixInInjective
<1>7. Agree(p[k], q[k], 8..15)
  <2>1. \A i \in 8..15 : i \notin BitsOf(d[k + 1]) /\ i \notin BitsOf(e[k + 1])
    BY DEF BitsOf
  <2> QED BY <1>6, <2>1 DEF Agree, Xor
<1>8. d[k] = e[k]
  <2>1. Xor(c, BitsOf(d[k])) \intersect 0..7 = Xor(c, BitsOf(e[k])) \intersect 0..7
    BY <1>5, <1>7, MixInLow
  <2>2. \A i \in 0..7 : i \in BitsOf(d[k]) <=> i \in BitsOf(e[k])
    BY <2>1 DEF Xor
  <2>3. BitsOf(d[k]) = BitsOf(e[k])
    BY <2>2, BitsOfType DEF BitsOf
  <2> QED BY <1>5, <2>3, BitsOfInjective
<1>9. d[k + 1] = e[k + 1]
  <2>1. p[k] = q[k]
    BY <1>5, <1>8
  <2>2. BitsOf(d[k + 1]) = BitsOf(e[k + 1])
    BY <1>6, <2>1, XorCancels, Zenon
  <2> QED BY <1>5, <2>2, BitsOfInjective
<1>10. \A i \in 1..n : d[i] = e[i]
  BY <1>8, <1>9 DEF n
<1> QED BY <1>10, SeqEqual DEF n
=============================================================================
