-------------------------- MODULE WyuanFramingProofs --------------------------
(***************************************************************************)
(* Theorems about WyuanFraming for every set of options, every scan that a *)
(* frame can hold, every noise and every number of frames and faults.      *)
(***************************************************************************)
EXTENDS WyuanFraming, WyuanProtocolProofs

-----------------------------------------------------------------------------
(* What the driver makes of a frame, by the kind of the response. *)

\* The tags that _drain_inventory yields of frame f on a reader of count ports.
TagsOf(f, count) ==
    LET resp == ParseFrame(f)
        tags == ParseInventory(resp.data, count)
        tag == ParseRealtimeTag(resp.data, count)
    IN IF resp = ProtocolError THEN <<>>
       ELSE IF resp.reCmd = REALTIME
       THEN IF resp.status = RT_TAG /\ tag # ProtocolError THEN <<tag.tag>> ELSE <<>>
       ELSE IF resp.reCmd = INVENTORY /\ resp.status \in TagStatuses /\ tags # ProtocolError
       THEN tags.tags
       ELSE <<>>

LEMMA TagsIs ==
  ASSUME NEW f
  PROVE  Drain(f).tags = TagsOf(f, opts.antennaCount)
BY DEF Drain, TagsOf

LEMMA TagsOfRealtime ==
  ASSUME NEW f, NEW count, NEW resp, resp = ParseFrame(f), resp # ProtocolError,
         resp.reCmd = REALTIME
  PROVE  LET tag == ParseRealtimeTag(resp.data, count)
         IN TagsOf(f, count) = IF resp.status = RT_TAG /\ tag # ProtocolError THEN <<tag.tag>> ELSE <<>>
BY DEF TagsOf

LEMMA TagsOfInventory ==
  ASSUME NEW f, NEW count, NEW resp, resp = ParseFrame(f), resp # ProtocolError,
         resp.reCmd = INVENTORY, resp.status \in TagStatuses,
         ParseInventory(resp.data, count) # ProtocolError
  PROVE  TagsOf(f, count) = ParseInventory(resp.data, count).tags
BY DEF TagsOf, INVENTORY, REALTIME

LEMMA TagsOfOther ==
  ASSUME NEW f, NEW count, NEW resp, resp = ParseFrame(f), resp # ProtocolError,
         resp.reCmd # REALTIME, resp.reCmd # INVENTORY \/ resp.status \notin TagStatuses
  PROVE  TagsOf(f, count) = <<>>
BY DEF TagsOf
-----------------------------------------------------------------------------
(* A tag's block. *)

TagOf == [epc : Seq(Byte), tid : Seq(Byte)]

\* What a block has room for.
Fits(t) ==
    /\ t \in TagOf
    /\ Len(t.epc) \in 1..(63 - FAST_ID_TID_LEN)
    /\ Len(t.tid) = FAST_ID_TID_LEN

Payload(t, fastId) == IF fastId THEN t.epc \o t.tid ELSE t.epc
BlockLen(t, fastId, phase) == Len(Payload(t, fastId)) + 2 + (IF phase THEN 7 ELSE 0)

\* The bytes of s are found in data from position i on.
Holds(data, i, s) == \A j \in 1..Len(s) : data[i + j - 1] = s[j]

LEMMA ConcatIs ==
  ASSUME NEW a \in Seq(Byte), NEW b \in Seq(Byte)
  PROVE  /\ a \o b \in Seq(Byte)
         /\ Len(a \o b) = Len(a) + Len(b)
         /\ Len(a) \in Nat /\ Len(b) \in Nat
         /\ \A j \in 1..Len(a) : (a \o b)[j] = a[j]
         /\ \A j \in 1..Len(b) : (a \o b)[Len(a) + j] = b[j]
<1>1. Len(a) \in Nat /\ Len(b) \in Nat
  BY LenProperties
<1>2. /\ a \o b \in Seq(Byte) /\ Len(a \o b) = Len(a) + Len(b)
      /\ \A i \in 1..(Len(a) + Len(b)) : (a \o b)[i] = IF i <= Len(a) THEN a[i] ELSE b[i - Len(a)]
  BY ConcatProperties
<1> DEFINE c == a \o b
<1> HIDE DEF c
<1>3. \A j \in 1..Len(a) : c[j] = a[j]
  BY <1>1, <1>2 DEF c
<1>4. ASSUME NEW j \in 1..Len(b) PROVE c[Len(a) + j] = b[j]
  <2>1. Len(a) + j \in 1..(Len(a) + Len(b)) /\ ~(Len(a) + j <= Len(a)) /\ (Len(a) + j) - Len(a) = j
    BY <1>1
  <2> QED BY <1>2, <2>1 DEF c
<1> QED BY <1>1, <1>2, <1>3, <1>4 DEF c

LEMMA SliceIs ==
  ASSUME NEW data \in Seq(Byte), NEW s \in Seq(Byte), NEW i \in Nat, i + Len(s) <= Len(data),
         \A j \in 1..Len(s) : data[i + j] = s[j]
  PROVE  SubSeq(data, i + 1, i + Len(s)) = s
<1> DEFINE n == Len(s)
           c == SubSeq(data, i + 1, i + n)
<1>1. n \in Nat /\ Len(data) \in Nat
  BY LenProperties
<1>2. c \in Seq(Byte) /\ Len(c) = n /\ \A j \in 1..n : c[j] = data[i + j]
  BY <1>1, SubSeqProperties
<1> HIDE DEF c
<1>3. c = s
  BY <1>2, SeqEqual
<1> QED BY <1>3 DEF c

LEMMA FitsIs ==
  ASSUME NEW t, Fits(t)
  PROVE  /\ t.epc \in Seq(Byte) /\ t.tid \in Seq(Byte)
         /\ Len(t.epc) \in 1..51 /\ Len(t.tid) = 12
BY DEF Fits, TagOf, FAST_ID_TID_LEN

LEMMA PayloadIs ==
  ASSUME NEW t, Fits(t), NEW fastId \in BOOLEAN
  PROVE  /\ Payload(t, fastId) \in Seq(Byte)
         /\ Len(Payload(t, fastId)) = Len(t.epc) + (IF fastId THEN 12 ELSE 0)
         /\ Len(Payload(t, fastId)) \in 1..63
         /\ \A j \in 1..Len(t.epc) : Payload(t, fastId)[j] = t.epc[j]
         /\ fastId => \A j \in 1..12 : Payload(t, fastId)[Len(t.epc) + j] = t.tid[j]
<1> DEFINE e == t.epc
           d == t.tid
           p == Payload(t, fastId)
           n == Len(e)
           m == Len(p)
<1>1. e \in Seq(Byte) /\ d \in Seq(Byte) /\ n \in 1..51 /\ Len(d) = 12
  BY FitsIs
<1>2. CASE fastId
  <2>1. p = e \o d
    BY <1>2 DEF Payload
  <2> HIDE DEF e, d, p
  <2>2. /\ p \in Seq(Byte) /\ m = n + Len(d)
        /\ \A j \in 1..n : p[j] = e[j]
        /\ \A j \in 1..Len(d) : p[n + j] = d[j]
    BY <1>1, <2>1, ConcatIs, Zenon
  <2> HIDE DEF n, m
  <2>3. m = n + (IF fastId THEN 12 ELSE 0) /\ m \in 1..63
    BY <1>1, <1>2, <2>2
  <2>4. \A j \in 1..12 : p[n + j] = d[j]
    BY <1>1, <2>2, Zenon
  <2> QED BY <2>2, <2>3, <2>4, Zenon DEF e, d, p, n, m
<1>3. CASE ~fastId
  <2>1. p = e
    BY <1>3 DEF Payload
  <2> HIDE DEF e, d, p
  <2>2. m = n
    BY <2>1
  <2> HIDE DEF n, m
  <2>3. m = n + (IF fastId THEN 12 ELSE 0) /\ m \in 1..63
    BY <1>1, <1>3, <2>2
  <2> QED BY <1>1, <1>3, <2>1, <2>3, Zenon DEF e, d, p, n, m
<1> QED BY <1>2, <1>3

LEMMA FlagIs == \A on \in BOOLEAN : /\ Flag(on, 7) = IF on THEN 128 ELSE 0
                                    /\ Flag(on, 6) = IF on THEN 64 ELSE 0
                                    /\ Flag(on, 5) = IF on THEN 32 ELSE 0
                                    /\ Flag(on, 4) = IF on THEN 16 ELSE 0
                                    /\ Flag(on, 0) = IF on THEN 1 ELSE 0
BY DEF Flag

\* The length byte.
FirstOf(n, fastId, phase) == n + (IF fastId THEN 128 ELSE 0) + (IF phase THEN 64 ELSE 0)

LEMMA FirstIs ==
  ASSUME NEW n \in 1..63, NEW fastId \in BOOLEAN, NEW phase \in BOOLEAN
  PROVE  /\ FirstOf(n, fastId, phase) \in Byte
         /\ FirstOf(n, fastId, phase) % 64 = n
         /\ Bit(FirstOf(n, fastId, phase), 6) = phase
         /\ Bit(FirstOf(n, fastId, phase), 7) = fastId
<1> DEFINE b == FirstOf(n, fastId, phase)
<1>1. /\ b \in Byte /\ b % 64 = n
      /\ (b \div 64) % 2 = 1 <=> phase
      /\ (b \div 128) % 2 = 1 <=> fastId
  BY DEF FirstOf, Byte
<1> HIDE DEF b
<1>2. (Bit(b, 6) <=> (b \div 64) % 2 = 1) /\ (Bit(b, 7) <=> (b \div 128) % 2 = 1)
  BY <1>1, BitIs
<1>3. Bit(b, 6) \in BOOLEAN /\ Bit(b, 7) \in BOOLEAN
  BY DEF Bit
<1>4. Bit(b, 6) = phase /\ Bit(b, 7) = fastId
  BY <1>1, <1>2, <1>3, Zenon
<1> QED BY <1>1, <1>4, Zenon DEF b

LEMMA BlockIs ==
  ASSUME NEW t, Fits(t), NEW fastId \in BOOLEAN, NEW phase \in BOOLEAN
  PROVE  /\ Block(t, fastId, phase) \in Seq(Byte)
         /\ Len(Block(t, fastId, phase)) = BlockLen(t, fastId, phase)
         /\ Block(t, fastId, phase)[1] = FirstOf(Len(Payload(t, fastId)), fastId, phase)
         /\ \A j \in 1..Len(Payload(t, fastId)) :
                Block(t, fastId, phase)[j + 1] = Payload(t, fastId)[j]
<1> DEFINE p == Payload(t, fastId)
           first == FirstOf(Len(p), fastId, phase)
           rest == IF phase THEN <<0, 0, 1, 2, 4, 0, 0>> ELSE <<>>
           b == <<first>> \o p \o <<80>> \o rest
<1>1. Block(t, fastId, phase) = b
  BY FlagIs DEF Block, Payload, FirstOf
<1>2. p \in Seq(Byte) /\ Len(p) \in 1..63
  BY PayloadIs, Zenon
<1> HIDE DEF p
<1>3. first \in Byte
  BY <1>2, FirstIs, Zenon
<1> HIDE DEF first
<1>4. rest \in Seq(Byte) /\ Len(rest) = IF phase THEN 7 ELSE 0
  <2>1. <<0, 0, 1, 2, 4, 0, 0>> \in Seq(Byte) /\ Len(<<0, 0, 1, 2, 4, 0, 0>>) = 7
    BY DEF Byte
  <2> QED BY <2>1
<1>5. 80 \in Byte
  BY DEF Byte
<1> HIDE DEF rest
<1>6. /\ b \in Seq(Byte) /\ Len(b) = 2 + Len(p) + Len(rest)
      /\ b[1] = first /\ \A j \in 1..Len(p) : b[j + 1] = p[j]
  <2> DEFINE f == <<first>>
             q == f \o p
             eighty == <<80>>
             r == q \o eighty
  <2>1. f \in Seq(Byte) /\ Len(f) = 1 /\ f[1] = first /\ eighty \in Seq(Byte) /\ Len(eighty) = 1
    BY <1>3, <1>5
  <2>2. b = r \o rest
    BY Zenon
  <2> HIDE DEF f, eighty, b
  <2>3. /\ q \in Seq(Byte) /\ Len(q) = Len(f) + Len(p)
        /\ \A j \in 1..Len(f) : q[j] = f[j]
        /\ \A j \in 1..Len(p) : q[Len(f) + j] = p[j]
    BY <1>2, <2>1, ConcatIs, Zenon
  <2> HIDE DEF q
  <2>4. r \in Seq(Byte) /\ Len(r) = Len(q) + Len(eighty) /\ \A j \in 1..Len(q) : r[j] = q[j]
    BY <2>1, <2>3, ConcatIs, Zenon
  <2> HIDE DEF r
  <2>5. b \in Seq(Byte) /\ Len(b) = Len(r) + Len(rest) /\ \A j \in 1..Len(r) : b[j] = r[j]
    BY <1>4, <2>2, <2>4, ConcatIs, Zenon
  <2>6. Len(p) \in Nat /\ Len(rest) \in Nat
    BY <1>2, <1>4
  <2>7. b[1] = first
    BY <2>1, <2>3, <2>4, <2>5, <2>6
  <2>8. \A j \in 1..Len(p) : b[j + 1] = p[j]
    <3> TAKE j \in 1..Len(p)
    <3>1. j + 1 \in 1..Len(q) /\ j + 1 \in 1..Len(r) /\ 1 + j = j + 1
      BY <2>1, <2>3, <2>4, <2>6
    <3> QED BY <2>1, <2>3, <2>4, <2>5, <3>1
  <2>9. Len(b) = 2 + Len(p) + Len(rest)
    BY <2>1, <2>3, <2>4, <2>5, <2>6
  <2> QED BY <2>5, <2>7, <2>8, <2>9
<1>7. BlockLen(t, fastId, phase) = 2 + Len(p) + Len(rest)
  BY <1>2, <1>4 DEF BlockLen, p
<1> HIDE DEF b
<1> QED BY <1>1, <1>6, <1>7, Zenon DEF p, first

\* Tag t's block is in data from position i on.
BlockAt(data, i, t, fastId, phase) ==
    /\ data \in Seq(Byte) /\ i \in Nat /\ 1 <= i
    /\ Fits(t) /\ fastId \in BOOLEAN /\ phase \in BOOLEAN
    /\ i + BlockLen(t, fastId, phase) <= Len(data) + 1
    /\ Holds(data, i, Block(t, fastId, phase))

\* The tag as the driver yields it.
SeenAt(t, fastId, antenna) ==
    [epc |-> t.epc, tid |-> IF fastId THEN t.tid ELSE <<>>, antenna |-> antenna]

LEMMA ParseTagBlockIs ==
  ASSUME NEW data, NEW i, NEW t, NEW fastId, NEW phase, BlockAt(data, i, t, fastId, phase),
         NEW antenna
  PROVE  ParseTagBlock(data, i, antenna)
             = [tag |-> SeenAt(t, fastId, antenna), next |-> i + BlockLen(t, fastId, phase)]
<1> SUFFICES ASSUME data \in Seq(Byte), i \in Nat, 1 <= i,
                    Fits(t), fastId \in BOOLEAN, phase \in BOOLEAN,
                    i + BlockLen(t, fastId, phase) <= Len(data) + 1,
                    Holds(data, i, Block(t, fastId, phase))
             PROVE  ParseTagBlock(data, i, antenna)
                        = [tag |-> [epc |-> t.epc, tid |-> IF fastId THEN t.tid ELSE <<>>,
                                    antenna |-> antenna],
                           next |-> i + BlockLen(t, fastId, phase)]
  BY DEF BlockAt, SeenAt
<1> DEFINE p == Payload(t, fastId)
           b == Block(t, fastId, phase)
           n == Len(p)
           e == Len(t.epc)
           size == BlockLen(t, fastId, phase)
           len == Len(data)
           seven == IF phase THEN 7 ELSE 0
<1>1. n \in 1..63 /\ e \in 1..51 /\ n = e + (IF fastId THEN 12 ELSE 0)
  BY PayloadIs, FitsIs, Zenon
<1>a. /\ p \in Seq(Byte) /\ t.epc \in Seq(Byte) /\ t.tid \in Seq(Byte) /\ Len(t.tid) = 12
      /\ \A j \in 1..e : p[j] = t.epc[j]
      /\ fastId => \A j \in 1..12 : p[e + j] = t.tid[j]
  BY PayloadIs, FitsIs, Zenon
<1>2. size = n + 2 + seven
  BY DEF BlockLen
<1>3. /\ Len(b) = size /\ b[1] = FirstOf(n, fastId, phase)
      /\ \A j \in 1..n : b[j + 1] = p[j]
      /\ \A j \in 1..Len(b) : data[i + j - 1] = b[j]
  BY BlockIs, Zenon DEF Holds
<1>4. len \in Nat /\ i + size <= len + 1
  BY LenProperties
<1> HIDE DEF p, b, n, e, size, len
<1>5. \A j \in 1..size : data[i + j - 1] = b[j]
  BY <1>3, Zenon
<1>6. data[i] = FirstOf(n, fastId, phase)
  <2>1. 1 \in 1..size /\ i + 1 - 1 = i
    BY <1>1, <1>2
  <2> QED BY <1>3, <1>5, <2>1
<1>7. ASSUME NEW j \in 1..n PROVE data[i + j] = p[j]
  <2>1. j + 1 \in 1..size /\ i + (j + 1) - 1 = i + j
    BY <1>1, <1>2
  <2>2. data[i + (j + 1) - 1] = b[j + 1]
    BY <1>5, <2>1
  <2> QED BY <1>3, <2>1, <2>2
<1>8. /\ data[i] % 64 = n
      /\ Bit(data[i], 6) = phase /\ Bit(data[i], 7) = fastId
  <2>1. /\ FirstOf(n, fastId, phase) % 64 = n
        /\ Bit(FirstOf(n, fastId, phase), 6) = phase
        /\ Bit(FirstOf(n, fastId, phase), 7) = fastId
    BY <1>1, FirstIs, Zenon
  <2> QED BY <1>6, <2>1, Zenon
<1>9. i <= len /\ i + 1 + n <= len /\ i + 1 + n + 1 + seven <= len + 1 /\ i + n <= len
  BY <1>1, <1>2, <1>4
<1>10. SubSeq(data, i + 1, i + n) = p
  BY <1>1, <1>a, <1>4, <1>7, <1>9, SliceIs DEF n, len
<1>11. SplitTid(p, fastId) = [epc |-> t.epc, tid |-> IF fastId THEN t.tid ELSE <<>>]
  <2>1. CASE ~fastId
    <3>1. p = t.epc
      BY <2>1 DEF p, Payload
    <3> QED BY <2>1, <3>1 DEF SplitTid
  <2>2. CASE fastId
    <3>1. n - 12 = e /\ e > 0 /\ n = e + 12
      BY <1>1, <2>2
    <3>2. SubSeq(p, 0 + 1, 0 + e) = t.epc
      <4>1. e = Len(t.epc) /\ n = Len(p)
        BY DEF e, n
      <4>2. \A j \in 1..e : p[0 + j] = t.epc[j]
        <5>1. \A j \in 1..e : 0 + j = j
          BY <1>1
        <5> QED BY <1>a, <5>1
      <4>3. 0 + e <= n /\ 0 \in Nat
        BY <1>1, <3>1
      <4> QED BY <1>a, <4>1, <4>2, <4>3, SliceIs
    <3>3. SubSeq(p, e + 1, e + 12) = t.tid
      <4>1. 12 = Len(t.tid) /\ n = Len(p)
        BY <1>a DEF n
      <4>2. e + 12 <= n /\ e \in Nat
        BY <1>1, <3>1
      <4>3. \A j \in 1..Len(t.tid) : p[e + j] = t.tid[j]
        BY <1>a, <2>2, <4>1, Zenon
      <4>4. e + Len(t.tid) <= Len(p)
        BY <4>1, <4>2
      <4>5. SubSeq(p, e + 1, e + Len(t.tid)) = t.tid
        BY <1>a, <4>2, <4>3, <4>4, SliceIs
      <4> QED BY <4>1, <4>5, Zenon
    <3>4. 0 + 1 = 1 /\ 0 + e = e /\ e + 12 = n
      BY <1>1, <3>1
    <3>5. SplitTid(p, fastId) = IF fastId /\ n - 12 > 0
                                THEN [epc |-> SubSeq(p, 1, n - 12), tid |-> SubSeq(p, n - 12 + 1, n)]
                                ELSE [epc |-> p, tid |-> <<>>]
      BY DEF SplitTid, FAST_ID_TID_LEN, n
    <3> QED BY <2>2, <3>1, <3>2, <3>3, <3>4, <3>5
  <2> QED BY <2>1, <2>2
<1> DEFINE parts == SplitTid(SubSeq(data, i + 1, i + (data[i] % 64)), Bit(data[i], 7))
           rssi == i + 1 + (data[i] % 64)
           next == rssi + 1 + (IF Bit(data[i], 6) THEN 7 ELSE 0)
<1>12. ParseTagBlock(data, i, antenna) =
        IF i > len \/ rssi > len \/ next > len + 1 THEN ProtocolError
        ELSE [tag |-> [epc |-> parts.epc, tid |-> parts.tid, antenna |-> antenna], next |-> next]
  BY Zenon DEF ParseTagBlock, len
<1>13. rssi = i + 1 + n /\ next = i + 1 + n + 1 + seven
  BY <1>8, Zenon
<1>14. parts = [epc |-> t.epc, tid |-> IF fastId THEN t.tid ELSE <<>>]
  BY <1>8, <1>10, <1>11, Zenon
<1> HIDE DEF parts, rssi, next
<1>15. ~(i > len) /\ ~(rssi > len) /\ ~(next > len + 1)
  BY <1>1, <1>4, <1>9, <1>13
<1>16. next = i + size
  BY <1>1, <1>2, <1>13
<1>17. parts.epc = t.epc /\ parts.tid = IF fastId THEN t.tid ELSE <<>>
  BY <1>14
<1> QED BY <1>12, <1>15, <1>16, <1>17, Zenon DEF size
-----------------------------------------------------------------------------
(* The blocks of a scan. *)

ScanLoop(s, fastId) ==
    CHOOSE f : f = [i \in 0..Len(s) |->
        IF i = 0 THEN <<>> ELSE f[i - 1] \o Block(s[i], fastId, FALSE)]

\* A scan whose tags have room in their blocks.
ScanFits(s) == s \in Seq(TagOf) /\ \A i \in 1..Len(s) : Fits(s[i])

LEMMA ScanLoopIs ==
  ASSUME NEW s, ScanFits(s), NEW fastId \in BOOLEAN
  PROVE  /\ ScanLoop(s, fastId)[0] = <<>>
         /\ \A i \in 0..Len(s) : ScanLoop(s, fastId)[i] \in Seq(Byte)
         /\ \A i \in 1..Len(s) : ScanLoop(s, fastId)[i]
                                     = ScanLoop(s, fastId)[i - 1] \o Block(s[i], fastId, FALSE)
<1> DEFINE n == Len(s)
           b(i) == Block(s[i], fastId, FALSE)
           step == [i \in 1..n |-> [m \in Seq(Byte) |-> m \o b(i)]]
           Eq(f) == f = [i \in 0..n |-> IF i = 0 THEN <<>> ELSE f[i - 1] \o b(i)]
<1>1. ASSUME NEW i \in 1..n PROVE b(i) \in Seq(Byte)
  <2>1. Fits(s[i])
    BY DEF ScanFits
  <2> QED BY <2>1, BlockIs, Zenon
<1>2. n \in Nat /\ <<>> \in Seq(Byte)
  BY LenProperties DEF ScanFits
<1>3. step \in [1..n -> [Seq(Byte) -> Seq(Byte)]]
  <2> HIDE DEF b
  <2>1. \A i \in 1..n : \A m \in Seq(Byte) : m \o b(i) \in Seq(Byte)
    BY <1>1, ConcatIs, Zenon
  <2> QED BY <2>1, Zenon
<1>4. PICK g : LoopOf(g, Seq(Byte), <<>>, n, step)
  BY <1>2, <1>3, LoopExists, Zenon
<1> HIDE DEF b, n
<1>5. g \in [0..n -> Seq(Byte)] /\ g[0] = <<>> /\ \A i \in 1..n : g[i] = g[i - 1] \o b(i)
  <2>1. g \in [0..n -> Seq(Byte)] /\ g[0] = <<>> /\ \A i \in 1..n : g[i] = step[i][g[i - 1]]
    BY <1>4 DEF LoopOf
  <2>2. \A i \in 1..n : i - 1 \in 0..n
    BY <1>2
  <2>3. \A i \in 1..n : g[i - 1] \in Seq(Byte)
    BY <2>1, <2>2, Zenon
  <2> QED BY <2>1, <2>3, Zenon
<1>6. Eq(g)
  <2>1. \A i \in 0..n : i = 0 \/ i \in 1..n
    BY <1>2
  <2>2. \A i \in 0..n : g[i] = IF i = 0 THEN <<>> ELSE g[i - 1] \o b(i)
    BY <1>5, <2>1, Zenon
  <2> QED BY <1>5, <2>2
<1>7. Eq(ScanLoop(s, fastId))
  BY <1>6, Zenon DEF ScanLoop, b, n
<1> DEFINE h == ScanLoop(s, fastId)
           T == {i \in Nat : i <= n => h[i] = g[i]}
<1> HIDE DEF h
<1>8. \A i \in 0..n : h[i] = IF i = 0 THEN <<>> ELSE h[i - 1] \o b(i)
  <2>1. h = [i \in 0..n |-> IF i = 0 THEN <<>> ELSE h[i - 1] \o b(i)]
    BY <1>7 DEF h
  <2> QED BY <2>1, Zenon
<1>9. 0 \in 0..n /\ \A i \in 1..n : i \in 0..n /\ i # 0
  BY <1>2
<1>10. h[0] = <<>> /\ \A i \in 1..n : h[i] = h[i - 1] \o b(i)
  BY <1>8, <1>9, Zenon
<1>11. 0 \in T
  BY <1>5, <1>10
<1>12. ASSUME NEW i \in Nat, i \in T PROVE i + 1 \in T
  <2> SUFFICES ASSUME i + 1 <= n PROVE h[i + 1] = g[i + 1]
    OBVIOUS
  <2>1. i + 1 \in 1..n /\ (i + 1) - 1 = i /\ i <= n
    BY <1>2
  <2>2. h[i] = g[i]
    BY <1>12, <2>1
  <2>3. h[i + 1] = h[(i + 1) - 1] \o b(i + 1) /\ g[i + 1] = g[(i + 1) - 1] \o b(i + 1)
    BY <1>5, <1>10, <2>1, Zenon
  <2> QED BY <2>1, <2>2, <2>3, Zenon
<1> HIDE DEF T
<1>13. \A i \in Nat : i \in T
  BY <1>11, <1>12, Induction
<1>14. \A i \in 0..n : h[i] \in Seq(Byte)
  <2>1. \A i \in 0..n : h[i] = g[i]
    BY <1>2, <1>13 DEF T
  <2> QED BY <1>5, <2>1, Zenon
<1> QED BY <1>10, <1>14, Zenon DEF h, b, n

LEMMA ScanBlocksIs ==
  ASSUME NEW s, NEW fastId
  PROVE  ScanBlocks(s, fastId) = ScanLoop(s, fastId)[Len(s)]
BY Zenon DEF ScanBlocks, ScanLoop
\* Where each block is among them.
LEMMA ScanPlaces ==
  ASSUME NEW s, ScanFits(s), NEW fastId \in BOOLEAN
  PROVE  LET L == ScanLoop(s, fastId)
             n == Len(s)
         IN \A k \in 1..n :
                /\ Len(L[k - 1]) \in Nat /\ Len(L[k]) \in Nat
                /\ Len(L[k]) = Len(L[k - 1]) + BlockLen(s[k], fastId, FALSE)
                /\ Len(L[k]) <= Len(L[n])
                /\ Holds(L[n], Len(L[k - 1]) + 1, Block(s[k], fastId, FALSE))
<1> DEFINE L == ScanLoop(s, fastId)
           n == Len(s)
           b(k) == Block(s[k], fastId, FALSE)
           size(k) == BlockLen(s[k], fastId, FALSE)
           len(k) == Len(L[k])
           Placed(k, j) == len(k) <= len(j) /\ Holds(L[j], len(k - 1) + 1, b(k))
           T == {j \in Nat : j <= n => \A k \in 1..j : Placed(k, j)}
<1>1. n \in Nat
  BY LenProperties DEF ScanFits
<1>2. \A k \in 1..n : b(k) \in Seq(Byte) /\ Len(b(k)) = size(k)
  BY BlockIs, Zenon DEF ScanFits
<1>3. /\ \A k \in 0..n : L[k] \in Seq(Byte)
      /\ \A k \in 1..n : L[k] = L[k - 1] \o b(k)
  BY ScanLoopIs, Zenon
<1> HIDE DEF L, n, b, size
<1>4. \A k \in 0..n : len(k) \in Nat
  BY <1>3, LenProperties
<1>5. \A k \in 1..n : k - 1 \in 0..n /\ k \in 0..n
  BY <1>1
<1>6. ASSUME NEW k \in 1..n
      PROVE  /\ len(k) = len(k - 1) + size(k) /\ len(k - 1) \in Nat /\ len(k) \in Nat /\ size(k) \in Nat
             /\ \A j \in 1..len(k - 1) : L[k][j] = L[k - 1][j]
             /\ \A j \in 1..size(k) : L[k][len(k - 1) + j] = b(k)[j]
  <2>1. L[k - 1] \in Seq(Byte) /\ b(k) \in Seq(Byte) /\ L[k] = L[k - 1] \o b(k) /\ Len(b(k)) = size(k)
    BY <1>2, <1>3, <1>5, Zenon
  <2> DEFINE c == L[k]
             p == L[k - 1]
             q == b(k)
  <2> HIDE DEF c, p, q
  <2>2. p \in Seq(Byte) /\ q \in Seq(Byte) /\ c = p \o q /\ Len(q) = size(k)
    BY <2>1 DEF c, p, q
  <2>3. /\ Len(c) = Len(p) + Len(q) /\ Len(p) \in Nat /\ Len(q) \in Nat
        /\ \A j \in 1..Len(p) : c[j] = p[j]
        /\ \A j \in 1..Len(q) : c[Len(p) + j] = q[j]
    BY <2>2, ConcatIs
  <2>4. Len(c) \in Nat
    BY <2>3
  <2> QED BY <2>2, <2>3, <2>4, Zenon DEF c, p, q
<1> HIDE DEF len
<1>7. 0 \in T
  OBVIOUS
<1>8. ASSUME NEW m \in Nat, m \in T PROVE m + 1 \in T
  <2> SUFFICES ASSUME m + 1 <= n, NEW k \in 1..(m + 1) PROVE Placed(k, m + 1)
    BY <1>1
  <2>1. m + 1 \in 1..n /\ (m + 1) - 1 = m /\ m <= n /\ k \in 1..n
    BY <1>1
  <2>2. /\ len(m + 1) = len(m) + size(m + 1) /\ len(m) \in Nat /\ size(m + 1) \in Nat
        /\ \A j \in 1..len(m) : L[m + 1][j] = L[m][j]
        /\ \A j \in 1..size(m + 1) : L[m + 1][len(m) + j] = b(m + 1)[j]
    BY <1>6, <2>1
  <2>3. /\ len(k) = len(k - 1) + size(k) /\ len(k - 1) \in Nat /\ size(k) \in Nat
        /\ Len(b(k)) = size(k)
    BY <1>2, <1>6, <2>1
  <2>4. CASE k = m + 1
    <3>1. len(k) <= len(m + 1)
      BY <2>2, <2>3, <2>4
    <3>2. ASSUME NEW j \in 1..Len(b(k)) PROVE L[m + 1][len(k - 1) + 1 + j - 1] = b(k)[j]
      <4>1. len(k - 1) + 1 + j - 1 = len(m) + j /\ j \in 1..size(m + 1)
        BY <2>1, <2>2, <2>3, <2>4
      <4> QED BY <2>2, <2>4, <4>1
    <3> QED BY <3>1, <3>2 DEF Holds
  <2>5. CASE k # m + 1
    <3>1. k \in 1..m
      BY <2>5
    <3>2. len(k) <= len(m) /\ Holds(L[m], len(k - 1) + 1, b(k))
      BY <1>8, <2>1, <3>1
    <3>3. len(k) <= len(m + 1)
      BY <2>2, <2>3, <3>2
    <3>4. ASSUME NEW j \in 1..Len(b(k)) PROVE L[m + 1][len(k - 1) + 1 + j - 1] = b(k)[j]
      <4>1. len(k - 1) + 1 + j - 1 \in 1..len(m)
        BY <2>2, <2>3, <3>2
      <4>2. L[m][len(k - 1) + 1 + j - 1] = b(k)[j]
        BY <3>2 DEF Holds
      <4> QED BY <2>2, <4>1, <4>2
    <3> QED BY <3>3, <3>4 DEF Holds
  <2> QED BY <2>4, <2>5
<1> HIDE DEF T
<1>9. n \in T
  BY <1>1, <1>7, <1>8, Induction
<1>10. \A k \in 1..n : Placed(k, n)
  BY <1>1, <1>9 DEF T
<1> QED BY <1>6, <1>10, Zenon DEF L, n, b, size, len
-----------------------------------------------------------------------------
(* The blocks of any data, as the driver takes them apart. *)

TagAt(antenna) == [epc : Seq(Byte), tid : Seq(Byte), antenna : {antenna}]

LEMMA SplitTidType ==
  ASSUME NEW payload \in Seq(Byte), NEW hasTid
  PROVE  /\ SplitTid(payload, hasTid).epc \in Seq(Byte)
         /\ SplitTid(payload, hasTid).tid \in Seq(Byte)
<1> DEFINE n == Len(payload)
           cut == n - FAST_ID_TID_LEN
           r == SplitTid(payload, hasTid)
<1>1. n \in Nat /\ cut = n - 12
  BY LenProperties DEF FAST_ID_TID_LEN
<1>2. r = IF hasTid /\ cut > 0
          THEN [epc |-> SubSeq(payload, 1, cut), tid |-> SubSeq(payload, cut + 1, n)]
          ELSE [epc |-> payload, tid |-> <<>>]
  BY DEF SplitTid
<1> HIDE DEF n, cut, r
<1>3. CASE hasTid /\ cut > 0
  <2>1. 1 \in 1..(n + 1) /\ cut \in 0..n /\ cut + 1 \in 1..(n + 1) /\ n \in 0..n
    BY <1>1, <1>3
  <2>2. SubSeq(payload, 1, cut) \in Seq(Byte) /\ SubSeq(payload, cut + 1, n) \in Seq(Byte)
    BY <2>1, SubSeqProperties DEF n
  <2> QED BY <1>2, <1>3, <2>2 DEF r
<1>4. CASE ~(hasTid /\ cut > 0)
  BY <1>2, <1>4 DEF r
<1> QED BY <1>3, <1>4

LEMMA ParseTagBlockType ==
  ASSUME NEW data \in Seq(Byte), NEW i \in Nat \ {0}, NEW antenna
  PROVE  \/ ParseTagBlock(data, i, antenna) = ProtocolError
         \/ /\ ParseTagBlock(data, i, antenna) \in [tag : TagAt(antenna), next : Nat \ {0}]
            /\ ParseTagBlock(data, i, antenna).next \in (i + 2)..(Len(data) + 1)
<1> DEFINE n == data[i] % 64
           rssi == i + 1 + n
           next == rssi + 1 + (IF Bit(data[i], 6) THEN 7 ELSE 0)
           payload == SubSeq(data, i + 1, i + n)
           parts == SplitTid(payload, Bit(data[i], 7))
           len == Len(data)
<1>1. ParseTagBlock(data, i, antenna) =
        IF i > len \/ rssi > len \/ next > len + 1 THEN ProtocolError
        ELSE [tag |-> [epc |-> parts.epc, tid |-> parts.tid, antenna |-> antenna], next |-> next]
  BY Zenon DEF ParseTagBlock
<1>2. len \in Nat
  BY LenProperties
<1>3. CASE ~(i > len \/ rssi > len \/ next > len + 1)
  <2>1. data[i] \in Byte
    BY <1>2, <1>3
  <2>2. n \in 0..63
    <3>1. \A d \in Byte : d % 64 \in 0..63
      BY DEF Byte
    <3> QED BY <2>1, <3>1, Zenon
  <2> HIDE DEF n
  <2>3. i + n \in 0..len /\ i + 1 \in 1..(len + 1) /\ next \in Nat \ {0} /\ next \in (i + 2)..(len + 1)
    BY <1>2, <1>3, <2>2
  <2>4. payload \in Seq(Byte)
    BY <2>3, SubSeqProperties
  <2> HIDE DEF payload, next, rssi, len
  <2>5. parts.epc \in Seq(Byte) /\ parts.tid \in Seq(Byte)
    BY <2>4, SplitTidType, Zenon
  <2> HIDE DEF parts
  <2>6. ParseTagBlock(data, i, antenna)
            = [tag |-> [epc |-> parts.epc, tid |-> parts.tid, antenna |-> antenna], next |-> next]
    BY <1>1, <1>3
  <2> QED BY <2>3, <2>5, <2>6 DEF TagAt, len
<1> QED BY <1>1, <1>3
-----------------------------------------------------------------------------
(* The loop of parse_inventory. *)

Parsed(antenna) == [tags : Seq(TagAt(antenna)), next : Nat \ {0}] \union {ProtocolError}
Start == [tags |-> <<>>, next |-> 3]

NextBlock(data, before, antenna) ==
    LET block == ParseTagBlock(data, before.next, antenna)
    IN IF before = ProtocolError \/ block = ProtocolError
       THEN ProtocolError
       ELSE [tags |-> Append(before.tags, block.tag), next |-> block.next]

InventoryLoop(data, antenna) ==
    CHOOSE f : f = [k \in Byte |-> IF k = 0 THEN Start ELSE NextBlock(data, f[k - 1], antenna)]

LEMMA ParsedIsNoError ==
  /\ \A tags, next : [tags |-> tags, next |-> next] # ProtocolError
  /\ \A tag, next : [tag |-> tag, next |-> next] # ProtocolError
  /\ \A adr, reCmd, status, data :
        [adr |-> adr, reCmd |-> reCmd, status |-> status, data |-> data] # ProtocolError
BY DEF ProtocolError

LEMMA NextBlockType ==
  ASSUME NEW data \in Seq(Byte), NEW antenna, NEW before \in Parsed(antenna)
  PROVE  NextBlock(data, before, antenna) \in Parsed(antenna)
<1> DEFINE block == ParseTagBlock(data, before.next, antenna)
           r == NextBlock(data, before, antenna)
<1>1. r = IF before = ProtocolError \/ block = ProtocolError
          THEN ProtocolError
          ELSE [tags |-> Append(before.tags, block.tag), next |-> block.next]
  BY Zenon DEF NextBlock
<1> HIDE DEF r
<1>2. CASE before = ProtocolError \/ block = ProtocolError
  BY <1>1, <1>2 DEF Parsed, r
<1>3. CASE before # ProtocolError /\ block # ProtocolError
  <2>1. before.tags \in Seq(TagAt(antenna)) /\ before.next \in Nat \ {0}
    BY <1>3 DEF Parsed
  <2>2. block \in [tag : TagAt(antenna), next : Nat \ {0}]
    BY <1>3, <2>1, ParseTagBlockType
  <2> HIDE DEF block
  <2>3. block.tag \in TagAt(antenna) /\ block.next \in Nat \ {0}
    BY <2>2
  <2>4. Append(before.tags, block.tag) \in Seq(TagAt(antenna))
    BY <2>1, <2>3, AppendProperties
  <2> QED BY <1>1, <1>3, <2>3, <2>4 DEF Parsed, r
<1> QED BY <1>2, <1>3

LEMMA InventoryLoopIs ==
  ASSUME NEW data \in Seq(Byte), NEW antenna
  PROVE  /\ InventoryLoop(data, antenna)[0] = Start
         /\ \A k \in 0..255 : InventoryLoop(data, antenna)[k] \in Parsed(antenna)
         /\ \A k \in 1..255 : InventoryLoop(data, antenna)[k]
                                  = NextBlock(data, InventoryLoop(data, antenna)[k - 1], antenna)
<1> DEFINE S == Parsed(antenna)
           nb(v) == NextBlock(data, v, antenna)
           step == [k \in 1..255 |-> [v \in S |-> nb(v)]]
           Eq(f) == f = [k \in 0..255 |-> IF k = 0 THEN Start ELSE nb(f[k - 1])]
           T == {k \in Nat : k <= 255 => InventoryLoop(data, antenna)[k] \in S}
<1>1. Start \in S
  BY DEF Start, Parsed
<1>2. \A v \in S : nb(v) \in S
  BY NextBlockType
<1> HIDE DEF S, nb
<1>3. step \in [1..255 -> [S -> S]]
  BY <1>2, Zenon
<1>4. PICK g : LoopOf(g, S, Start, 255, step)
  <2>1. 255 \in Nat
    OBVIOUS
  <2> QED BY <1>1, <1>3, <2>1, LoopExists, Zenon
<1>5. g \in [0..255 -> S] /\ g[0] = Start /\ \A k \in 1..255 : g[k] = nb(g[k - 1])
  <2>1. g \in [0..255 -> S] /\ g[0] = Start /\ \A k \in 1..255 : g[k] = step[k][g[k - 1]]
    BY <1>4, Zenon DEF LoopOf
  <2>2. \A k \in 1..255 : k - 1 \in 0..255
    OBVIOUS
  <2>3. \A k \in 1..255 : g[k - 1] \in S
    BY <2>1, <2>2, Zenon
  <2> QED BY <2>1, <2>3, Zenon
<1>6. Eq(g)
  <2>1. \A k \in 0..255 : k = 0 \/ k \in 1..255
    OBVIOUS
  <2>2. \A k \in 0..255 : g[k] = IF k = 0 THEN Start ELSE nb(g[k - 1])
    BY <1>5, <2>1, Zenon
  <2> QED BY <1>5, <2>2
<1> DEFINE h == InventoryLoop(data, antenna)
<1>7. Eq(h)
  BY <1>6, Zenon DEF InventoryLoop, nb, Byte
<1> HIDE DEF h
<1>8. \A k \in 0..255 : h[k] = IF k = 0 THEN Start ELSE nb(h[k - 1])
  BY <1>7, Zenon
<1>9. 0 \in 0..255 /\ \A k \in 1..255 : k \in 0..255 /\ k # 0
  OBVIOUS
<1>10. h[0] = Start /\ \A k \in 1..255 : h[k] = nb(h[k - 1])
  BY <1>8, <1>9, Zenon
<1>11. 0 \in T
  BY <1>1, <1>10 DEF h
<1>12. ASSUME NEW k \in Nat, k \in T PROVE k + 1 \in T
  <2> SUFFICES ASSUME k + 1 <= 255 PROVE h[k + 1] \in S
    BY DEF h
  <2>1. k + 1 \in 1..255 /\ (k + 1) - 1 = k /\ k <= 255
    OBVIOUS
  <2>2. h[k] \in S
    BY <1>12, <2>1 DEF h
  <2>3. h[k + 1] = nb(h[k])
    BY <1>10, <2>1
  <2> QED BY <1>2, <2>2, <2>3
<1> HIDE DEF T
<1>13. \A k \in Nat : k \in T
  BY <1>11, <1>12, Induction
<1>14. \A k \in 0..255 : h[k] \in S
  BY <1>13 DEF T, h
<1> QED BY <1>10, <1>14, Zenon DEF h, S, nb

LEMMA ParseInventoryIs ==
  ASSUME NEW data, NEW count
  PROVE  ParseInventory(data, count)
             = IF Len(data) < 2 THEN ProtocolError
               ELSE InventoryLoop(data, AntennaFromByte(data[1], count))[data[2]]
BY Zenon DEF ParseInventory, InventoryLoop, NextBlock, Start
(***************************************************************************)
(* Whatever the data of an INVENTORY frame: the driver takes as many tags  *)
(* from it as the frame says it holds, all from within the data and with   *)
(* the one antenna of the frame, or it takes none (parse_inventory raises).*)
(***************************************************************************)
THEOREM ParseInventoryTakesAll ==
  ASSUME NEW data \in Seq(Byte), NEW count,
         ParseInventory(data, count) # ProtocolError
  PROVE  /\ ParseInventory(data, count).tags \in Seq(TagAt(AntennaFromByte(data[1], count)))
         /\ Len(ParseInventory(data, count).tags) = data[2]
         /\ data[2] > 0 => ParseInventory(data, count).next <= Len(data) + 1
<1> DEFINE antenna == AntennaFromByte(data[1], count)
           L == InventoryLoop(data, antenna)
           len == Len(data)
           Good(k) == L[k] # ProtocolError =>
                         Len(L[k].tags) = k /\ (k > 0 => L[k].next <= len + 1)
           T == {k \in Nat : k <= 255 => Good(k)}
<1>1. /\ L[0] = Start
      /\ \A k \in 0..255 : L[k] \in Parsed(antenna)
      /\ \A k \in 1..255 : L[k] = NextBlock(data, L[k - 1], antenna)
  BY InventoryLoopIs, Zenon
<1>2. Len(data) >= 2 /\ ParseInventory(data, count) = L[data[2]] /\ data[2] \in 0..255
  <2>1. len \in Nat
    BY LenProperties
  <2>2. ~(len < 2)
    BY ParseInventoryIs, Zenon
  <2> HIDE DEF L, antenna
  <2>3. data[2] \in 0..255
    <3>1. data[2] \in Byte
      BY <2>1, <2>2, ElementOfSeq
    <3> QED BY <3>1 DEF Byte
  <2>4. ParseInventory(data, count) = L[data[2]]
    BY <2>2, ParseInventoryIs, Zenon DEF L, antenna
  <2> QED BY <2>1, <2>2, <2>3, <2>4
<1> HIDE DEF L, antenna, len
<1>3. 0 \in T
  <2>1. Len(L[0].tags) = 0
    BY <1>1 DEF Start
  <2> QED BY <2>1
<1>4. ASSUME NEW k \in Nat, k \in T PROVE k + 1 \in T
  <2> SUFFICES ASSUME k + 1 <= 255, L[k + 1] # ProtocolError
               PROVE  Len(L[k + 1].tags) = k + 1 /\ L[k + 1].next <= len + 1
    OBVIOUS
  <2> DEFINE before == L[k]
             block == ParseTagBlock(data, before.next, antenna)
             after == L[k + 1]
  <2>1. /\ k + 1 \in 1..255 /\ (k + 1) - 1 = k /\ k \in 0..255 /\ k <= 255
    OBVIOUS
  <2>2. before \in Parsed(antenna) /\ after = NextBlock(data, before, antenna)
    BY <1>1, <2>1
  <2>3. after # ProtocolError
    OBVIOUS
  <2>g. Good(k)
    BY <1>4, <2>1
  <2> HIDE DEF before, after
  <2>4. /\ before # ProtocolError /\ block # ProtocolError
        /\ after = [tags |-> Append(before.tags, block.tag), next |-> block.next]
    BY <2>2, <2>3, Zenon DEF NextBlock
  <2>5. before.tags \in Seq(TagAt(antenna)) /\ before.next \in Nat \ {0}
    BY <2>2, <2>4 DEF Parsed
  <2>6. /\ block \in [tag : TagAt(antenna), next : Nat \ {0}]
        /\ block.next <= len + 1
    BY <2>4, <2>5, ParseTagBlockType DEF len
  <2> HIDE DEF block
  <2>7. Len(Append(before.tags, block.tag)) = Len(before.tags) + 1
    BY <2>5, <2>6, AppendProperties
  <2>8. Len(before.tags) = k
    BY <2>g, <2>4 DEF before
  <2>9. after.tags = Append(before.tags, block.tag) /\ after.next = block.next
    BY <2>4
  <2> QED BY <2>6, <2>7, <2>8, <2>9 DEF after
<1> HIDE DEF T
<1>5. \A k \in Nat : k \in T
  BY <1>3, <1>4, Induction
<1>6. Good(data[2])
  <2> DEFINE d == data[2]
  <2>1. d \in Nat /\ d <= 255
    <3>1. \A j \in 0..255 : j \in Nat /\ j <= 255
      OBVIOUS
    <3> QED BY <1>2, <3>1, Zenon
  <2> HIDE DEF d
  <2>2. Good(d)
    BY <1>5, <2>1 DEF T
  <2> QED BY <2>2 DEF d
<1> DEFINE r == ParseInventory(data, count)
<1>7. r = L[data[2]] /\ r \in Parsed(antenna) /\ r # ProtocolError
  BY <1>1, <1>2
<1> HIDE DEF r
<1>8. r.tags \in Seq(TagAt(antenna))
  BY <1>7 DEF Parsed
<1> QED BY <1>6, <1>7, <1>8 DEF r, len, antenna

\* The data of a scan's frame, and what becomes of them.
ScanData(ant, s, fastId) == <<ant, Len(s)>> \o ScanBlocks(s, fastId)

(***************************************************************************)
(* The round trip of a scan: parse_inventory takes from the frame that the *)
(* reader made of it the tags as they were seen, one for one and in order, *)
(* the TID split off where FastID was asked for, and the frame's antenna.  *)
(***************************************************************************)
THEOREM ParseInventoryOfScan ==
  ASSUME NEW s, ScanFits(s), Len(s) \in Byte, NEW fastId \in BOOLEAN, NEW ant \in Byte, NEW count
  PROVE  /\ ParseInventory(ScanData(ant, s, fastId), count) # ProtocolError
         /\ ParseInventory(ScanData(ant, s, fastId), count).tags =
                [k \in 1..Len(s) |-> SeenAt(s[k], fastId, AntennaFromByte(ant, count))]
<1> DEFINE data == ScanData(ant, s, fastId)
           antenna == AntennaFromByte(ant, count)
           tag(k) == SeenAt(s[k], fastId, antenna)
           n == Len(s)
           B == ScanLoop(s, fastId)
           L == InventoryLoop(data, antenna)
           at(k) == 3 + Len(B[k])
           len == Len(data)
           T == {k \in Nat : k <= n => L[k] = [tags |-> [j \in 1..k |-> tag(j)], next |-> at(k)]}
<1>1. n \in 0..255 /\ n \in Byte
  BY DEF Byte
<1>2. /\ B[0] = <<>>
      /\ \A k \in 0..n : B[k] \in Seq(Byte)
  BY ScanLoopIs, Zenon
<1>3. \A k \in 1..n :
          /\ Len(B[k - 1]) \in Nat /\ Len(B[k]) \in Nat
          /\ Len(B[k]) = Len(B[k - 1]) + BlockLen(s[k], fastId, FALSE)
          /\ Len(B[k]) <= Len(B[n])
          /\ Holds(B[n], Len(B[k - 1]) + 1, Block(s[k], fastId, FALSE))
  BY ScanPlaces, Zenon
<1>a. data \in Seq(Byte)
  <2>1. n \in 0..n
    BY <1>1
  <2>2. ScanBlocks(s, fastId) \in Seq(Byte)
    BY <1>2, <2>1, ScanBlocksIs
  <2>3. <<ant, n>> \in Seq(Byte)
    BY <1>1
  <2> HIDE DEF n
  <2> QED BY <2>2, <2>3, ConcatIs, Zenon DEF ScanData, n
<1>4. /\ L[0] = Start
      /\ \A k \in 1..255 : L[k] = NextBlock(data, L[k - 1], antenna)
  BY <1>a, InventoryLoopIs, Zenon
<1>5. data = <<ant, n>> \o B[n]
  BY ScanBlocksIs DEF ScanData
<1>6. \A k \in 1..n : Fits(s[k])
  BY DEF ScanFits
<1>7. ScanLoop(s, fastId)[0] = <<>> /\ Len(<<>>) = 0
  BY <1>2
<1> HIDE DEF n, B, L, antenna, data
<1>8. /\ len = 2 + Len(B[n]) /\ Len(B[n]) \in Nat
      /\ data[1] = ant /\ data[2] = n
      /\ \A j \in 1..Len(B[n]) : data[2 + j] = B[n][j]
  <2> DEFINE h == <<ant, n>>
             b == B[n]
  <2>1. h \in Seq(Byte) /\ Len(h) = 2 /\ h[1] = ant /\ h[2] = n
    BY <1>1
  <2>2. b \in Seq(Byte)
    BY <1>1, <1>2
  <2>3. data = h \o b
    BY <1>5, Zenon
  <2> DEFINE c == h \o b
  <2> HIDE DEF h, b
  <2>c. /\ Len(c) = Len(h) + Len(b) /\ Len(b) \in Nat
        /\ \A j \in 1..Len(h) : c[j] = h[j]
        /\ \A j \in 1..Len(b) : c[Len(h) + j] = b[j]
    BY <2>1, <2>2, ConcatIs, Zenon
  <2> HIDE DEF c
  <2>4. /\ len = Len(h) + Len(b) /\ Len(b) \in Nat
        /\ \A j \in 1..Len(h) : data[j] = h[j]
        /\ \A j \in 1..Len(b) : data[Len(h) + j] = b[j]
    <3>1. data = c
      BY <2>3 DEF c
    <3> QED BY <2>c, <3>1
  <2>5. 1 \in 1..Len(h) /\ 2 \in 1..Len(h)
    BY <2>1
  <2> QED BY <2>1, <2>4, <2>5, Zenon DEF b
<1> HIDE DEF len
<1>9. 0 \in T
  <2>1. at(0) = 3
    BY <1>2
  <2>2. [j \in 1..0 |-> tag(j)] = <<>>
    OBVIOUS
  <2> QED BY <1>4, <2>1, <2>2, Zenon DEF Start
<1>10. ASSUME NEW k \in Nat, k \in T PROVE k + 1 \in T
  <2> DEFINE m == k + 1
  <2> SUFFICES ASSUME m <= n PROVE L[m] = [tags |-> [j \in 1..m |-> tag(j)], next |-> at(m)]
    OBVIOUS
  <2>1. m \in 1..n /\ m \in 1..255 /\ m - 1 = k /\ k <= n
    BY <1>1
  <2>2. L[k] = [tags |-> [j \in 1..k |-> tag(j)], next |-> at(k)]
    BY <1>10, <2>1
  <2>3. L[m] = NextBlock(data, L[k], antenna)
    BY <1>4, <2>1, Zenon
  <2> DEFINE size == BlockLen(s[m], fastId, FALSE)
             i == at(k)
             blk == Block(s[m], fastId, FALSE)
  <2>4. /\ Len(B[k]) \in Nat /\ Len(B[m]) \in Nat /\ Len(B[m]) = Len(B[k]) + size
        /\ Len(B[m]) <= Len(B[n]) /\ Holds(B[n], Len(B[k]) + 1, blk)
    BY <1>3, <2>1, Zenon
  <2>5. size \in Nat /\ Len(blk) = size
    <3>1. Fits(s[m]) /\ FALSE \in BOOLEAN
      BY <1>6, <2>1
    <3>2. Len(blk) = BlockLen(s[m], fastId, FALSE) /\ blk \in Seq(Byte)
      BY <3>1, BlockIs, Zenon
    <3> QED BY <3>2, LenProperties
  <2> HIDE DEF size, blk, m
  <2> DEFINE a == Len(B[k])
             z == Len(B[n])
             b == Len(B[m])
  <2>a. /\ a \in Nat /\ b \in Nat /\ b = a + size /\ b <= z /\ len = 2 + z /\ z \in Nat
        /\ i = 3 + a /\ at(m) = 3 + b /\ size \in Nat
    BY <1>8, <2>4, <2>5
  <2>b. Holds(B[n], a + 1, blk)
    BY <2>4
  <2> HIDE DEF a, b, z
  <2>6. i \in Nat /\ 1 <= i /\ i + size <= len + 1 /\ at(m) = i + size
    <3> HIDE DEF i, at
    <3> QED BY <2>a
  <2>7. Holds(data, i, blk)
    <3>1. ASSUME NEW j \in 1..Len(blk) PROVE data[i + j - 1] = blk[j]
      <4>1. B[n][a + 1 + j - 1] = blk[j]
        BY <2>b, <3>1 DEF Holds
      <4>2. a + 1 + j - 1 \in 1..z /\ i + j - 1 = 2 + (a + 1 + j - 1)
        <5>1. j \in 1..size
          BY <2>5
        <5> HIDE DEF i
        <5> QED BY <2>a, <5>1
      <4>3. data[2 + (a + 1 + j - 1)] = B[n][a + 1 + j - 1]
        BY <1>8, <4>2 DEF z
      <4> HIDE DEF i
      <4> QED BY <4>1, <4>2, <4>3
    <3> QED BY <3>1 DEF Holds
  <2>8. ParseTagBlock(data, i, antenna) = [tag |-> tag(m), next |-> i + size]
    <3>1. Fits(s[m]) /\ FALSE \in BOOLEAN
      BY <1>6, <2>1
    <3> DEFINE t == s[m]
    <3>2. size = BlockLen(t, fastId, FALSE) /\ blk = Block(t, fastId, FALSE) /\ Fits(t)
      BY <3>1 DEF size, blk
    <3>3. tag(m) = SeenAt(t, fastId, antenna)
      OBVIOUS
    <3> HIDE DEF i, t, tag
    <3>a. data \in Seq(Byte)
      BY <1>a
    <3>4. i + BlockLen(t, fastId, FALSE) <= Len(data) + 1
      BY <2>6, <3>2 DEF len
    <3>5. Holds(data, i, Block(t, fastId, FALSE))
      BY <2>7, <3>2
    <3>6. ParseTagBlock(data, i, antenna)
              = [tag |-> SeenAt(t, fastId, antenna), next |-> i + BlockLen(t, fastId, FALSE)]
      <4> DEFINE p == FALSE
      <4>1. BlockAt(data, i, t, fastId, p)
        BY <2>6, <3>a, <3>1, <3>2, <3>4, <3>5 DEF BlockAt
      <4> HIDE DEF p
      <4>2. ParseTagBlock(data, i, antenna)
                = [tag |-> SeenAt(t, fastId, antenna), next |-> i + BlockLen(t, fastId, p)]
        BY <4>1, ParseTagBlockIs
      <4> QED BY <4>2 DEF p
    <3> QED BY <3>2, <3>3, <3>6, Zenon
  <2> DEFINE tags == [j \in 1..k |-> tag(j)]
  <2> HIDE DEF at, tag
  <2>9. Append(tags, tag(m)) = [j \in 1..m |-> tag(j)]
    BY DEF m
  <2>10. L[m] = [tags |-> Append(tags, tag(m)), next |-> at(m)]
    <3>1. L[k].next = i /\ L[k].tags = tags /\ L[k] # ProtocolError
      BY <2>2, ParsedIsNoError
    <3>2. ParseTagBlock(data, i, antenna) # ProtocolError
      BY <2>8, ParsedIsNoError
    <3>3. /\ ParseTagBlock(data, i, antenna).tag = tag(m)
          /\ ParseTagBlock(data, i, antenna).next = at(m)
      BY <2>6, <2>8
    <3> HIDE DEF i, tags
    <3> QED BY <2>3, <3>1, <3>2, <3>3, Zenon DEF NextBlock
  <2> QED BY <2>9, <2>10
<1> HIDE DEF T
<1>11. L[n] = [tags |-> [j \in 1..n |-> tag(j)], next |-> at(n)]
  <2>1. \A k \in Nat : k \in T
    BY <1>9, <1>10, Induction
  <2>2. n \in T /\ n <= n
    BY <1>1, <2>1
  <2> QED BY <2>2 DEF T
<1> DEFINE r == ParseInventory(data, count)
<1>12. r = L[n]
  <2>1. ~(Len(data) < 2)
    BY <1>8 DEF len
  <2>2. r = InventoryLoop(data, AntennaFromByte(data[1], count))[data[2]]
    BY <2>1, ParseInventoryIs, Zenon
  <2> QED BY <1>8, <2>2 DEF L, antenna
<1> HIDE DEF r
<1>13. r # ProtocolError /\ r.tags = [j \in 1..n |-> tag(j)]
  <2> HIDE DEF tag, at
  <2> QED BY <1>11, <1>12, ParsedIsNoError
<1> QED BY <1>13, Zenon DEF r, n, antenna, data
-----------------------------------------------------------------------------
(* The antenna byte. *)

PowerOfTwo(n) ==
    IF n = 0 THEN 1 ELSE IF n = 1 THEN 2 ELSE IF n = 2 THEN 4 ELSE IF n = 3 THEN 8
    ELSE IF n = 4 THEN 16 ELSE IF n = 5 THEN 32 ELSE IF n = 6 THEN 64 ELSE IF n = 7 THEN 128 ELSE 256

LEMMA PowerOfTwoIs == \A n \in 0..8 : 2^n = PowerOfTwo(n)
<1> TAKE n \in 0..8
<1>1. CASE n = 0
  BY <1>1 DEF PowerOfTwo
<1>2. CASE n = 1
  BY <1>2 DEF PowerOfTwo
<1>3. CASE n = 2
  BY <1>3 DEF PowerOfTwo
<1>4. CASE n = 3
  BY <1>4 DEF PowerOfTwo
<1>5. CASE n = 4
  BY <1>5 DEF PowerOfTwo
<1>6. CASE n = 5
  BY <1>6 DEF PowerOfTwo
<1>7. CASE n = 6
  BY <1>7 DEF PowerOfTwo
<1>8. CASE n = 7
  BY <1>8 DEF PowerOfTwo
<1>9. CASE n = 8
  BY <1>9 DEF PowerOfTwo
<1> QED BY <1>1, <1>2, <1>3, <1>4, <1>5, <1>6, <1>7, <1>8, <1>9

\* The number of bits of a byte is what its highest bit says.
LEMMA AntennaOfBits ==
  ASSUME NEW count, ~(count > 8), NEW ant \in Byte, NEW n \in 0..8,
         PowerOfTwo(n) > ant, n > 0 => PowerOfTwo(n - 1) <= ant
  PROVE  AntennaFromByte(ant, count) = n
<1> DEFINE Is(m) == 2^m > ant /\ (m > 0 => 2^(m - 1) <= ant)
<1>1. ASSUME NEW m \in 0..8
      PROVE  Is(m) <=> PowerOfTwo(m) > ant /\ (m > 0 => PowerOfTwo(m - 1) <= ant)
  <2>1. m > 0 => m - 1 \in 0..8
    OBVIOUS
  <2> HIDE DEF PowerOfTwo
  <2>2. 2^m = PowerOfTwo(m) /\ (m > 0 => 2^(m - 1) = PowerOfTwo(m - 1))
    BY <2>1, PowerOfTwoIs, Zenon
  <2> QED BY <2>2
<1> HIDE DEF Is
<1>2. Is(n)
  BY <1>1
<1>3. ASSUME NEW m \in 0..8, Is(m) PROVE m = n
  BY <1>1, <1>3 DEF PowerOfTwo, Byte
<1>4. AntennaFromByte(ant, count) = CHOOSE m \in 0..8 : Is(m)
  BY Zenon DEF AntennaFromByte, Is
<1> QED BY <1>2, <1>3, <1>4

MaxOf(on) == IF on = {} THEN 0 ELSE CHOOSE a \in on : \A b \in on : b <= a

LEMMA AntennaRead ==
  ASSUME opts.antennaCount \in 1..16, NEW on \in Antennas
  PROVE  /\ AntennaByte(on) \in Byte
         /\ AntennaFromByte(AntennaByte(on), opts.antennaCount) = MaxOf(on)
<1> DEFINE count == opts.antennaCount
<1> HIDE DEF count
<1>1. count \in 1..16
  BY DEF count
<1>2. CASE count > 8
  <2>1. on = {count} /\ AntennaByte(on) = (CHOOSE a \in on : TRUE) - 1
    BY <1>2 DEF Antennas, AntennaByte, count
  <2>2. (CHOOSE a \in on : TRUE) = count
    BY <2>1
  <2>3. AntennaByte(on) = count - 1
    BY <2>1, <2>2
  <2>4. AntennaFromByte(count - 1, count) = count
    BY <1>1, <1>2 DEF AntennaFromByte
  <2>5. MaxOf(on) = count
    BY <1>1, <2>1 DEF MaxOf
  <2> QED BY <1>1, <2>3, <2>4, <2>5 DEF count, Byte
<1>3. CASE ~(count > 8)
  <2> DEFINE bits == {a - 1 : a \in on}
  <2>1. on \in {{}, {1, count}} /\ AntennaByte(on) = ByteOf(bits)
    BY <1>3, NumberIs DEF Antennas, AntennaByte, count
  <2>2. ByteOf(bits) \in Byte
    BY ByteOfType
  <2>3. CASE on = {}
    <3>1. ByteOf(bits) = 0
      BY <2>3 DEF ByteOf, If
    <3>2. PowerOfTwo(0) > 0 /\ 0 \in 0..8 /\ 0 \in Byte /\ ~(0 > 0)
      BY DEF PowerOfTwo, Byte
    <3>3. AntennaFromByte(0, count) = 0
      BY <1>3, <3>2, AntennaOfBits
    <3> QED BY <2>1, <2>2, <2>3, <3>1, <3>3 DEF MaxOf, count
  <2>4. CASE on = {1, count}
    <3>1. count \in 1..8
      BY <1>1, <1>3
    <3>2. \A i \in 0..7 : i \in bits <=> i = 0 \/ i = count - 1
      BY <2>4, <3>1
    <3> HIDE DEF bits
    <3>3. PowerOfTwo(count) > ByteOf(bits) /\ PowerOfTwo(count - 1) <= ByteOf(bits)
      BY <3>1, <3>2 DEF PowerOfTwo, ByteOf, If
    <3>4. count \in 0..8 /\ count > 0
      BY <3>1
    <3>5. AntennaFromByte(ByteOf(bits), count) = count
      BY <1>3, <2>2, <3>3, <3>4, AntennaOfBits
    <3>6. MaxOf(on) = count
      BY <2>4, <3>1 DEF MaxOf
    <3> QED BY <2>1, <2>2, <3>5, <3>6 DEF count
  <2> QED BY <2>1, <2>3, <2>4
<1> QED BY <1>2, <1>3
-----------------------------------------------------------------------------
(* What the reader sends, read back. *)

\* parse_frame takes f, and _read_frame finds its end.
IsFrame(f) ==
    /\ f \in Seq(Byte) /\ f # <<>> /\ Len(f) = f[1] + 1
    /\ Crc16(f) = {}
    /\ ParseFrame(f) # ProtocolError

\* The driver makes of r's bytes what r says is in them.
Encoded(r, count) ==
    /\ IsFrame(r.bytes)
    /\ TagsOf(r.bytes, count) = r.tags
    /\ Query(r.bytes) = r.level

TagRec == [epc : Seq(Byte), tid : Seq(Byte), antenna : 0..16]
SentRec == [bytes : Seq(Byte), tags : Seq(TagRec), level : {"none", "high", "low"}]

LEMMA CodesAreBytes ==
  /\ INVENTORY \in Byte /\ GPIO_GET \in Byte /\ SET_WORK_MODE \in Byte /\ REALTIME \in Byte
  /\ ST_DONE \in Byte /\ ST_MORE \in Byte /\ ST_STATISTIC \in Byte
  /\ RT_TAG \in Byte /\ RT_HEARTBEAT \in Byte
BY DEF INVENTORY, GPIO_GET, SET_WORK_MODE, REALTIME, ST_DONE, ST_MORE, ST_STATISTIC, RT_TAG,
       RT_HEARTBEAT, Byte

LEMMA ResponseIs ==
  ASSUME opts.adr \in Byte, NEW data \in Seq(Byte), Len(data) <= 250,
         NEW cmd \in Byte, NEW status \in Byte
  PROVE  /\ IsFrame(Response(cmd, status, data))
         /\ ParseFrame(Response(cmd, status, data))
                = [adr |-> opts.adr, reCmd |-> cmd, status |-> status, data |-> data]
<1> DEFINE n == Len(data)
           head == <<n + 5, opts.adr, cmd, status>>
           body == head \o data
           f == Framed(body)
<1>1. Response(cmd, status, data) = f
  BY DEF Response
<1>2. n \in Nat /\ n + 5 \in Byte
  <2>1. n \in Nat
    BY LenProperties
  <2> HIDE DEF n
  <2>2. n <= 250
    BY DEF n
  <2> QED BY <2>1, <2>2 DEF Byte
<1>3. head \in Seq(Byte) /\ Len(head) = 4 /\ head[1] = n + 5
  <2> HIDE DEF n
  <2> QED BY <1>2
<1>4. ParseFrame(f) = [adr |-> opts.adr, reCmd |-> cmd, status |-> status, data |-> data]
  BY ParseFrameOfResponse
<1> HIDE DEF head
<1>5. body \in Seq(Byte) /\ Len(body) = 4 + n /\ body[1] = n + 5
  <2>1. /\ body \in Seq(Byte) /\ Len(body) = Len(head) + Len(data)
        /\ \A j \in 1..Len(head) : body[j] = head[j]
    BY <1>3, ConcatIs, Zenon
  <2> HIDE DEF body
  <2>2. 1 \in 1..Len(head)
    BY <1>3
  <2> QED BY <1>3, <2>1, <2>2
<1> HIDE DEF body
<1>6. f \in Seq(Byte) /\ Len(f) = Len(body) + 2 /\ \A i \in 1..Len(body) : f[i] = body[i]
  BY <1>5, FramedIs
<1>7. Crc16(f) = {}
  BY <1>5, FramedHasNoResidue
<1> HIDE DEF f, n
<1>8. f[1] = n + 5 /\ Len(f) = f[1] + 1 /\ f # <<>>
  <2>1. 1 \in 1..Len(body) /\ Len(f) = n + 6
    BY <1>2, <1>5, <1>6
  <2>2. f[1] = n + 5
    BY <1>5, <1>6, <2>1
  <2>3. f # <<>>
    BY <1>2, <2>1
  <2> QED BY <1>2, <2>1, <2>2, <2>3
<1>9. ParseFrame(f) # ProtocolError
  BY <1>4, ParsedIsNoError
<1> QED BY <1>1, <1>4, <1>6, <1>7, <1>8, <1>9 DEF IsFrame

\* A response that is no scan's and no real-time tag's yields nothing.
LEMMA PlainResponse ==
  ASSUME opts.adr \in Byte, NEW data \in Seq(Byte), Len(data) <= 250,
         NEW cmd \in Byte, NEW status \in Byte,
         \/ cmd = REALTIME /\ status # RT_TAG
         \/ cmd = INVENTORY /\ status \notin TagStatuses
         \/ cmd \notin {REALTIME, INVENTORY}
  PROVE  TagsOf(Response(cmd, status, data), opts.antennaCount) = <<>>
<1> DEFINE f == Response(cmd, status, data)
           resp == ParseFrame(f)
<1>1. resp = [adr |-> opts.adr, reCmd |-> cmd, status |-> status, data |-> data] /\ resp # ProtocolError
  BY ResponseIs DEF IsFrame
<1>2. resp.reCmd = cmd /\ resp.status = status
  BY <1>1
<1> HIDE DEF f
<1>3. CASE cmd = REALTIME /\ status # RT_TAG
  BY <1>1, <1>2, <1>3, TagsOfRealtime DEF f
<1>4. CASE cmd # REALTIME
  <2>1. cmd # INVENTORY \/ status \notin TagStatuses
    BY <1>4
  <2> QED BY <1>1, <1>2, <1>4, <2>1, TagsOfOther DEF f
<1>5. INVENTORY # REALTIME
  BY DEF INVENTORY, REALTIME
<1> QED BY <1>3, <1>4, <1>5

\* A response that is no GPIO status tells no level.
LEMMA LevelOfOther ==
  ASSUME opts.adr \in Byte, NEW data \in Seq(Byte), Len(data) <= 250,
         NEW cmd \in Byte, NEW status \in Byte, cmd # GPIO_GET
  PROVE  Query(Response(cmd, status, data)) = "none"
<1>1. ParseFrame(Response(cmd, status, data)).reCmd = cmd
  BY ResponseIs
<1> QED BY <1>1 DEF Query
LEMMA ScansFit ==
  ASSUME NEW s \in Scans
  PROVE  /\ ScanFits(s) /\ Len(s) \in Byte
         /\ \A fastId \in BOOLEAN : Len(ScanBlocks(s, fastId)) <= 248
<1>1. /\ s \in Seq(TagOf) /\ Len(s) \in Byte
      /\ \A i \in DOMAIN s : /\ Len(s[i].epc) \in 1..(63 - FAST_ID_TID_LEN)
                            /\ Len(s[i].tid) = FAST_ID_TID_LEN
      /\ \A fastId \in BOOLEAN : Len(ScanBlocks(s, fastId)) <= 248
  BY ReaderAssumption, Zenon DEF TagOf
<1>2. DOMAIN s = 1..Len(s) /\ \A i \in 1..Len(s) : s[i] \in TagOf
  BY <1>1, LenProperties, ElementOfSeq
<1>3. \A i \in 1..Len(s) : Fits(s[i])
  BY <1>1, <1>2, Zenon DEF Fits
<1> QED BY <1>1, <1>3 DEF ScanFits

LEMMA SeenIs ==
  ASSUME NEW t, NEW fastId, NEW on
  PROVE  Seen(t, fastId, on) = SeenAt(t, fastId, MaxOf(on))
BY DEF Seen, SeenAt, MaxOf

LEMMA SeenType ==
  ASSUME opts.antennaCount \in 1..16, NEW on \in Antennas, NEW t, Fits(t), NEW fastId
  PROVE  Seen(t, fastId, on) \in TagRec
<1>1. MaxOf(on) \in 0..16
  <2>1. CASE opts.antennaCount > 8
    <3>1. on = {opts.antennaCount}
      BY <2>1 DEF Antennas
    <3> QED BY <3>1 DEF MaxOf
  <2>2. CASE ~(opts.antennaCount > 8)
    <3>1. on = {} \/ on = {1, opts.antennaCount}
      BY <2>2 DEF Antennas
    <3> QED BY <3>1 DEF MaxOf
  <2> QED BY <2>1, <2>2
<1>2. SeenAt(t, fastId, MaxOf(on)) \in TagRec
  BY <1>1 DEF SeenAt, TagRec, Fits, TagOf
<1> QED BY <1>2, SeenIs

LEMMA OptionsAre ==
  ASSUME opts \in Options
  PROVE  opts.adr \in Byte /\ opts.antennaCount \in 1..16
BY ReaderAssumption DEF MAX_ANTENNA

LEMMA EncodedInventory ==
  ASSUME opts \in Options, NEW s \in Scans, NEW fastId \in BOOLEAN, NEW on \in Antennas,
         NEW status \in {ST_DONE, ST_MORE}, NEW r,
         r = [bytes |-> Response(INVENTORY, status, <<AntennaByte(on), Len(s)>> \o ScanBlocks(s, fastId)),
              tags |-> [i \in DOMAIN s |-> Seen(s[i], fastId, on)], level |-> "none"]
  PROVE  r \in SentRec /\ Encoded(r, opts.antennaCount)
<1> DEFINE ant == AntennaByte(on)
           blocks == ScanBlocks(s, fastId)
           data == ScanData(ant, s, fastId)
           f == Response(INVENTORY, status, data)
           count == opts.antennaCount
           tags == [i \in DOMAIN s |-> Seen(s[i], fastId, on)]
<1>1. opts.adr \in Byte /\ count \in 1..16
  BY OptionsAre
<1>2. ant \in Byte /\ AntennaFromByte(ant, count) = MaxOf(on)
  BY <1>1, AntennaRead
<1>3. ScanFits(s) /\ Len(s) \in Byte /\ Len(blocks) <= 248
  BY ScansFit
<1>4. s \in Seq(TagOf) /\ Len(s) \in Nat /\ DOMAIN s = 1..Len(s)
  BY <1>3, LenProperties DEF ScanFits
<1>5. r = [bytes |-> f, tags |-> tags, level |-> "none"]
  BY DEF ScanData
<1>6. data \in Seq(Byte) /\ Len(data) <= 250
  <2> DEFINE h == <<ant, Len(s)>>
  <2> HIDE DEF ant
  <2>1. h \in Seq(Byte) /\ Len(h) = 2
    BY <1>2, <1>3
  <2>2. Len(s) \in 0..Len(s)
    BY <1>4
  <2>3. blocks \in Seq(Byte)
    BY <1>3, <2>2, ScanLoopIs, ScanBlocksIs
  <2>4. data = h \o blocks
    BY DEF ScanData
  <2> DEFINE c == h \o blocks
  <2> HIDE DEF h, blocks
  <2>5. c \in Seq(Byte) /\ Len(c) = Len(h) + Len(blocks) /\ Len(blocks) \in Nat
    BY <2>1, <2>3, ConcatIs, Zenon
  <2> HIDE DEF c
  <2>6. Len(c) <= 250
    BY <1>3, <2>1, <2>5
  <2>7. data = c
    BY <2>4 DEF c
  <2> QED BY <2>5, <2>6, <2>7
<1>7. INVENTORY \in Byte /\ status \in Byte /\ status \in TagStatuses /\ INVENTORY # GPIO_GET
  BY CodesAreBytes DEF TagStatuses, ST_DONE, ST_MORE, INVENTORY, GPIO_GET
<1> DEFINE p == ParseInventory(data, count)
<1>8. p # ProtocolError /\ p.tags = [k \in 1..Len(s) |-> SeenAt(s[k], fastId, MaxOf(on))]
  <2> HIDE DEF ant, count
  <2>1. /\ p # ProtocolError
        /\ p.tags = [k \in 1..Len(s) |-> SeenAt(s[k], fastId, AntennaFromByte(ant, count))]
    BY <1>2, <1>3, ParseInventoryOfScan
  <2> QED BY <1>2, <2>1
<1>9. p.tags = tags
  <2> HIDE DEF p
  <2> QED BY <1>4, <1>8, SeenIs
<1> HIDE DEF data, f, tags, p
<1>10. /\ IsFrame(f)
       /\ ParseFrame(f) = [adr |-> opts.adr, reCmd |-> INVENTORY, status |-> status, data |-> data]
  BY <1>1, <1>6, <1>7, ResponseIs DEF f
<1>11. TagsOf(f, count) = tags
  <2> DEFINE resp == ParseFrame(f)
  <2>1. resp.reCmd = INVENTORY /\ resp.status = status /\ resp.data = data /\ resp # ProtocolError
    BY <1>10 DEF IsFrame
  <2> HIDE DEF resp
  <2>2. ParseInventory(resp.data, count) = p
    BY <2>1 DEF p
  <2> QED BY <1>7, <1>8, <1>9, <2>1, <2>2, TagsOfInventory DEF resp
<1>12. Query(f) = "none"
  BY <1>1, <1>6, <1>7, LevelOfOther DEF f
<1>13. tags \in Seq(TagRec)
  <2>1. \A i \in 1..Len(s) : Seen(s[i], fastId, on) \in TagRec
    BY <1>1, <1>3, SeenType DEF ScanFits
  <2>2. tags \in [1..Len(s) -> TagRec]
    BY <1>4, <2>1 DEF tags
  <2> QED BY <1>4, <2>2, SeqDef
<1>14. r.bytes = f /\ r.tags = tags /\ r.level = "none"
  BY <1>5
<1> QED BY <1>5, <1>10, <1>11, <1>12, <1>13, <1>14 DEF Encoded, SentRec, IsFrame
LEMMA EncodedIs ==
  ASSUME NEW f, NEW tags \in Seq(TagRec), NEW lev \in {"none", "high", "low"}, NEW count,
         IsFrame(f), TagsOf(f, count) = tags, Query(f) = lev
  PROVE  /\ [bytes |-> f, tags |-> tags, level |-> lev] \in SentRec
         /\ Encoded([bytes |-> f, tags |-> tags, level |-> lev], count)
BY DEF Encoded, SentRec, IsFrame

LEMMA EncodedRealtime ==
  ASSUME opts \in Options, NEW s \in Scans, Len(s) = 1, NEW on \in Antennas, NEW phase \in BOOLEAN
  PROVE  LET r == [bytes |-> Response(REALTIME, RT_TAG, <<AntennaByte(on)>> \o Block(s[1], FALSE, phase)),
                   tags |-> <<Seen(s[1], FALSE, on)>>, level |-> "none"]
         IN r \in SentRec /\ Encoded(r, opts.antennaCount)
<1> DEFINE ant == AntennaByte(on)
           t == s[1]
           no == FALSE
           h == <<ant>>
           b == Block(t, no, phase)
           data == h \o b
           f == Response(REALTIME, RT_TAG, data)
           count == opts.antennaCount
           tag == Seen(t, no, on)
           size == BlockLen(t, no, phase)
           antenna == AntennaFromByte(ant, count)
<1>1. opts.adr \in Byte /\ count \in 1..16 /\ no \in BOOLEAN
  BY OptionsAre
<1>2. ant \in Byte /\ antenna = MaxOf(on)
  BY <1>1, AntennaRead
<1>3. Fits(t)
  <2>1. 1 \in 1..Len(s)
    OBVIOUS
  <2> QED BY <2>1, ScansFit DEF ScanFits
<1> HIDE DEF no, ant, t
<1>5. h \in Seq(Byte) /\ Len(h) = 1 /\ h[1] = ant
  BY <1>2
<1>6. b \in Seq(Byte) /\ Len(b) = size
  BY <1>1, <1>3, BlockIs, Zenon
<1>7. size \in 3..72
  <2>1. Len(Payload(t, no)) \in 1..63
    BY <1>1, <1>3, PayloadIs, Zenon
  <2> DEFINE m == Len(Payload(t, no))
  <2> HIDE DEF m
  <2>2. size = m + 2 + (IF phase THEN 7 ELSE 0) /\ m \in 1..63
    BY <2>1 DEF BlockLen, m
  <2> QED BY <2>2
<1> HIDE DEF h, b, size, data
<1>8. /\ data \in Seq(Byte) /\ Len(data) = 1 + size /\ data[1] = ant
      /\ \A j \in 1..size : data[1 + j] = b[j]
  <2> DEFINE c == h \o b
  <2>1. /\ c \in Seq(Byte) /\ Len(c) = Len(h) + Len(b)
        /\ \A j \in 1..Len(h) : c[j] = h[j]
        /\ \A j \in 1..Len(b) : c[Len(h) + j] = b[j]
    BY <1>5, <1>6, ConcatIs, Zenon
  <2> HIDE DEF c
  <2>2. 1 \in 1..Len(h)
    BY <1>5
  <2>3. data = c
    BY DEF data, c
  <2> QED BY <1>5, <1>6, <2>1, <2>2, <2>3
<1>9. BlockAt(data, 2, t, no, phase)
  <2>1. 2 + size <= Len(data) + 1
    BY <1>7, <1>8
  <2>2. Holds(data, 2, b)
    <3>1. ASSUME NEW j \in 1..Len(b) PROVE data[2 + j - 1] = b[j]
      <4>1. 2 + j - 1 = 1 + j /\ j \in 1..size
        BY <1>6, <1>7
      <4> QED BY <1>8, <4>1
    <3> QED BY <3>1 DEF Holds
  <2>3. 2 \in Nat /\ 1 <= 2
    OBVIOUS
  <2> QED BY <1>1, <1>3, <1>8, <2>1, <2>2, <2>3 DEF BlockAt, b, size
<1> DEFINE p == ParseRealtimeTag(data, count)
<1>10. p # ProtocolError /\ p.tag = tag
  <2>1. ~(Len(data) < 3)
    BY <1>7, <1>8
  <2>2. p = ParseTagBlock(data, 2, antenna)
    BY <1>8, <2>1 DEF ParseRealtimeTag
  <2>3. p = [tag |-> SeenAt(t, no, antenna), next |-> 2 + size]
    <3> HIDE DEF p, antenna, count
    <3> QED BY <1>9, <2>2, ParseTagBlockIs DEF size
  <2>4. tag = SeenAt(t, no, antenna)
    BY <1>2, SeenIs
  <2> HIDE DEF p, tag, antenna, count
  <2> QED BY <2>3, <2>4, ParsedIsNoError
<1>11. Len(data) <= 250 /\ REALTIME # GPIO_GET
  BY <1>7, <1>8 DEF REALTIME, GPIO_GET
<1> HIDE DEF f, tag, p, antenna
<1>12. /\ IsFrame(f)
       /\ ParseFrame(f) = [adr |-> opts.adr, reCmd |-> REALTIME, status |-> RT_TAG, data |-> data]
  BY <1>1, <1>8, <1>11, CodesAreBytes, ResponseIs DEF f
<1>13. TagsOf(f, count) = <<tag>>
  <2> DEFINE resp == ParseFrame(f)
  <2>1. resp.reCmd = REALTIME /\ resp.status = RT_TAG /\ resp.data = data /\ resp # ProtocolError
    BY <1>12 DEF IsFrame
  <2> HIDE DEF resp
  <2>2. ParseRealtimeTag(resp.data, count) = p
    BY <2>1 DEF p
  <2> QED BY <1>10, <2>1, <2>2, TagsOfRealtime DEF resp
<1>14. Query(f) = "none"
  BY <1>1, <1>8, <1>11, CodesAreBytes, LevelOfOther DEF f
<1>15. tag \in TagRec
  BY <1>1, <1>3, SeenType DEF tag
<1> DEFINE tags == <<tag>>
<1>16. tags \in Seq(TagRec)
  BY <1>15
<1> HIDE DEF tags
<1>17. /\ [bytes |-> f, tags |-> tags, level |-> "none"] \in SentRec
       /\ Encoded([bytes |-> f, tags |-> tags, level |-> "none"], count)
  BY <1>12, <1>13, <1>14, <1>16, EncodedIs DEF tags
<1> QED BY <1>17 DEF f, tags, tag, data, h, b, ant, t, no

LEMMA EncodedGpio ==
  ASSUME opts \in Options, NEW high \in BOOLEAN
  PROVE  LET r == [bytes |-> Response(GPIO_GET, 0, <<Flag(high, 0) + Flag(~high, 4) + 32>>),
                   tags |-> <<>>, level |-> IF high THEN "high" ELSE "low"]
         IN r \in SentRec /\ Encoded(r, opts.antennaCount)
<1> DEFINE pins == Flag(high, 0) + Flag(~high, 4) + 32
           data == <<pins>>
           f == Response(GPIO_GET, 0, data)
           lev == IF high THEN "high" ELSE "low"
<1>1. opts.adr \in Byte
  BY OptionsAre
<1>2. pins = IF high THEN 33 ELSE 48
  BY DEF Flag
<1> HIDE DEF pins
<1>4. pins \in Byte /\ 0 \in Byte
  BY <1>2 DEF Byte
<1>5. data \in Seq(Byte) /\ Len(data) = 1 /\ data[1] = pins /\ data # <<>> /\ Len(data) <= 250
  BY <1>4
<1>6. Bit(pins, 0) = high
  <2>1. Bit(pins, 0) <=> pins % 2 = 1
    BY <1>4, BitIs
  <2>2. pins % 2 = 1 <=> high
    BY <1>2
  <2>3. Bit(pins, 0) \in BOOLEAN
    BY DEF Bit
  <2> QED BY <2>1, <2>2, <2>3, Zenon
<1> HIDE DEF data, f
<1>7. /\ IsFrame(f)
      /\ ParseFrame(f) = [adr |-> opts.adr, reCmd |-> GPIO_GET, status |-> 0, data |-> data]
  BY <1>1, <1>4, <1>5, CodesAreBytes, ResponseIs DEF f
<1>8. TagsOf(f, opts.antennaCount) = <<>>
  <2>1. GPIO_GET \notin {REALTIME, INVENTORY}
    BY DEF GPIO_GET, REALTIME, INVENTORY
  <2> QED BY <1>1, <1>4, <1>5, <2>1, CodesAreBytes, PlainResponse DEF f
<1>9. Query(f) = lev
  <2> DEFINE resp == ParseFrame(f)
             status == ParseGpioStatus(resp.data)
  <2>1. resp.reCmd = GPIO_GET /\ resp.status = 0 /\ resp.data = data /\ resp # ProtocolError
    BY <1>7 DEF IsFrame
  <2>2. Query(f) = IF \/ resp = ProtocolError
                      \/ resp.reCmd # GPIO_GET \/ resp.status # 0
                      \/ status = ProtocolError
                   THEN "none"
                   ELSE IF status.in1High THEN "high" ELSE "low"
    BY Zenon DEF Query
  <2> HIDE DEF resp
  <2>3. status = [in1High |-> Bit(pins, 0), out1High |-> Bit(pins, 4), out2High |-> Bit(pins, 5)]
    BY <1>5, <2>1 DEF ParseGpioStatus
  <2> HIDE DEF status
  <2>4. status # ProtocolError /\ status.in1High = high
    BY <1>6, <2>3 DEF ProtocolError
  <2> QED BY <2>1, <2>2, <2>4
<1>10. lev \in {"none", "high", "low"} /\ <<>> \in Seq(TagRec)
  OBVIOUS
<1> HIDE DEF lev
<1>11. /\ [bytes |-> f, tags |-> <<>>, level |-> lev] \in SentRec
       /\ Encoded([bytes |-> f, tags |-> <<>>, level |-> lev], opts.antennaCount)
  BY <1>7, <1>8, <1>9, <1>10, EncodedIs
<1> QED BY <1>11 DEF f, data, pins, lev

LEMMA EncodedPlain ==
  ASSUME opts \in Options, NEW data \in Seq(Byte), Len(data) <= 250,
         NEW cmd \in Byte, NEW status \in Byte, cmd # GPIO_GET,
         \/ cmd = REALTIME /\ status # RT_TAG
         \/ cmd = INVENTORY /\ status \notin TagStatuses
         \/ cmd \notin {REALTIME, INVENTORY},
         NEW r, r = [bytes |-> Response(cmd, status, data), tags |-> <<>>, level |-> "none"]
  PROVE  r \in SentRec /\ Encoded(r, opts.antennaCount)
<1> DEFINE f == Response(cmd, status, data)
<1>1. opts.adr \in Byte
  BY OptionsAre
<1>2. IsFrame(f) /\ Query(f) = "none"
  BY <1>1, ResponseIs, LevelOfOther
<1>3. TagsOf(f, opts.antennaCount) = <<>>
  BY <1>1, PlainResponse
<1> HIDE DEF f
<1>4. r = [bytes |-> f, tags |-> <<>>, level |-> "none"]
  BY DEF f
<1>5. r.bytes = f /\ r.tags = <<>> /\ r.level = "none"
  BY <1>4
<1> QED BY <1>2, <1>3, <1>4, <1>5 DEF Encoded, SentRec, IsFrame
-----------------------------------------------------------------------------
(***************************************************************************)
(* The inductive invariant.  While the line was quiet since the last fault,*)
(* it can be cut into frames that were sent; every frame that was sent is  *)
(* one that the driver reads as the reader meant it.                       *)
(***************************************************************************)
Types ==
    /\ opts \in Options
    /\ line \in Seq(Byte) /\ got \in Seq(Byte)
    /\ sent \in Seq(SentRec)

AllEncoded == \A i \in DOMAIN sent : Encoded(sent[i], opts.antennaCount)

ReadIs ==
    /\ reports \in {<<>>, TagsOf(got, opts.antennaCount)}
    /\ level \in {"none", Query(got)}

\* Bytes l are frames in s, one after the other; they are cut at the places in C.
CutAt(l, s, C) ==
    /\ C \in SUBSET (0..Len(l)) /\ 0 \in C /\ Len(l) \in C
    /\ \A a \in C : a < Len(l) =>
        \E i \in DOMAIN s : a + Len(s[i].bytes) \in C /\ Holds(l, a + 1, s[i].bytes)

LineTiled == aligned => \E C : CutAt(line, sent, C)

GotAligned == aligned /\ got # <<>> => SentFrame(got) # {}

IInv == Types /\ AllEncoded /\ ReadIs /\ LineTiled /\ GotAligned
LEMMA CutAtEmpty ==
  ASSUME NEW s
  PROVE  CutAt(<<>>, s, {0})
BY DEF CutAt

LEMMA SentRecIs ==
  ASSUME NEW s \in Seq(SentRec), NEW i \in DOMAIN s
  PROVE  s[i].bytes \in Seq(Byte)
<1>1. s[i] \in SentRec
  BY LenProperties, ElementOfSeq
<1> QED BY <1>1 DEF SentRec

\* A frame that is sent comes behind the others.
LEMMA CutAtSend ==
  ASSUME NEW l \in Seq(Byte), NEW s \in Seq(SentRec), NEW r \in SentRec, NEW C, CutAt(l, s, C)
  PROVE  \E D : CutAt(l \o r.bytes, Append(s, r), D)
<1> DEFINE f == r.bytes
           n == Len(l)
           m == Len(f)
           c == l \o f
           t == Append(s, r)
           D == C \union {n + m}
<1>1. f \in Seq(Byte)
  BY DEF SentRec
<1>2. n \in Nat /\ m \in Nat /\ Len(s) \in Nat
  BY <1>1, LenProperties
<1>3. /\ Len(t) = Len(s) + 1 /\ DOMAIN t = 1..(Len(s) + 1) /\ DOMAIN s = 1..Len(s)
      /\ \A i \in 1..Len(s) : t[i] = s[i]
      /\ t[Len(s) + 1] = r
  BY AppendProperties, LenProperties
<1>4. /\ C \in SUBSET (0..n) /\ 0 \in C /\ n \in C
      /\ \A a \in C : a < n =>
           \E i \in 1..Len(s) : a + Len(s[i].bytes) \in C /\ Holds(l, a + 1, s[i].bytes)
  BY <1>3, Zenon DEF CutAt
<1> HIDE DEF f, t
<1>5. /\ Len(c) = n + m
      /\ \A j \in 1..n : c[j] = l[j]
      /\ \A j \in 1..m : c[n + j] = f[j]
  BY <1>1, ConcatIs, Zenon
<1> HIDE DEF c, n, m
<1>a. (\A a \in C : a \in 0..n) /\ 0 \in C /\ n \in C /\ Len(c) = n + m
  BY <1>4, <1>5
<1>6. ASSUME NEW a \in D, a < Len(c)
      PROVE  \E i \in DOMAIN t : a + Len(t[i].bytes) \in D /\ Holds(c, a + 1, t[i].bytes)
  <2>1. a \in C /\ a \in 0..n
    <3>1. a # n + m
      BY <1>2, <1>6, <1>a
    <3>2. a \in C
      BY <3>1
    <3> QED BY <1>a, <3>2
  <2>2. CASE a < n
    <3>1. PICK i \in 1..Len(s) : a + Len(s[i].bytes) \in C /\ Holds(l, a + 1, s[i].bytes)
      BY <1>4, <2>1, <2>2
    <3> DEFINE g == s[i].bytes
               k == Len(g)
    <3>2. g \in Seq(Byte) /\ k \in Nat
      BY <1>3, SentRecIs, LenProperties
    <3>3. t[i].bytes = g /\ i \in DOMAIN t
      BY <1>2, <1>3
    <3>4. a + k \in C /\ Holds(l, a + 1, g)
      BY <3>1
    <3> HIDE DEF g
    <3>5. ASSUME NEW j \in 1..k PROVE c[a + 1 + j - 1] = g[j]
      <4>1. l[a + 1 + j - 1] = g[j]
        BY <3>4 DEF Holds
      <4> HIDE DEF k
      <4>2. a + 1 + j - 1 \in 1..n
        BY <1>2, <1>4, <2>1, <3>2, <3>4
      <4> QED BY <1>5, <4>1, <4>2
    <3> QED BY <3>3, <3>4, <3>5 DEF Holds
  <2>3. CASE a = n
    <3> DEFINE i == Len(s) + 1
    <3>1. i \in DOMAIN t /\ t[i].bytes = f
      BY <1>2, <1>3 DEF f
    <3>2. ASSUME NEW j \in 1..m PROVE c[a + 1 + j - 1] = f[j]
      <4>1. a + 1 + j - 1 = n + j
        BY <1>2, <2>3
      <4> QED BY <1>5, <4>1
    <3> HIDE DEF i
    <3>3. a + Len(t[i].bytes) \in D /\ Holds(c, a + 1, t[i].bytes)
      BY <2>3, <3>1, <3>2 DEF Holds, m
    <3> QED BY <3>1, <3>3
  <2> QED BY <1>2, <2>1, <2>2, <2>3
<1>7. D \in SUBSET (0..Len(c)) /\ 0 \in D /\ Len(c) \in D
  <2>1. n + m \in 0..(n + m) /\ \A a \in 0..n : a \in 0..(n + m)
    BY <1>2
  <2> QED BY <1>a, <2>1
<1> HIDE DEF D
<1>8. CutAt(c, t, D)
  BY <1>6, <1>7 DEF CutAt
<1> QED BY <1>8 DEF c, t, f

\* What is read from such a line is the first of its frames.
LEMMA CutAtRead ==
  ASSUME NEW l \in Seq(Byte), NEW s \in Seq(SentRec), NEW C, CutAt(l, s, C), Whole(l),
         \A i \in DOMAIN s : IsFrame(s[i].bytes)
  PROVE  /\ \E i \in DOMAIN s : SubSeq(l, 1, l[1] + 1) = s[i].bytes
         /\ \E D : CutAt(SubSeq(l, l[1] + 2, Len(l)), s, D)
<1> DEFINE n == Len(l)
<1>1. n \in Nat /\ n > l[1] /\ l # <<>>
  BY LenProperties DEF Whole
<1>2. 1 \in 1..n /\ l[1] \in Nat
  <2>1. 1 \in 1..n
    BY <1>1
  <2>2. l[1] \in Byte
    BY <2>1, ElementOfSeq
  <2>3. \A d \in Byte : d \in Nat
    BY DEF Byte
  <2> QED BY <2>1, <2>2, <2>3, Zenon
<1>3. /\ C \in SUBSET (0..n) /\ 0 \in C /\ n \in C
      /\ \A a \in C : a < n =>
           \E i \in DOMAIN s : a + Len(s[i].bytes) \in C /\ Holds(l, a + 1, s[i].bytes)
  BY Zenon DEF CutAt
<1>4. PICK i \in DOMAIN s : 0 + Len(s[i].bytes) \in C /\ Holds(l, 0 + 1, s[i].bytes)
  <2>1. 0 < n
    BY <1>1, <1>2
  <2> QED BY <1>3, <2>1
<1> DEFINE f == s[i].bytes
           m == Len(f)
<1>5. f \in Seq(Byte) /\ m \in Nat
  BY SentRecIs, LenProperties
<1>6. f # <<>> /\ m = f[1] + 1
  BY DEF IsFrame
<1> HIDE DEF f
<1>7. m \in C /\ m \in 0..n /\ \A j \in 1..m : l[j] = f[j]
  <2>1. m \in C /\ Holds(l, 1, f)
    BY <1>4, <1>5 DEF f
  <2>2. \A j \in 1..m : l[1 + j - 1] = f[j]
    BY <2>1 DEF Holds
  <2>3. \A j \in 1..m : 1 + j - 1 = j
    BY <1>5
  <2> QED BY <1>3, <2>1, <2>2, <2>3
<1>8. l[1] + 1 = m /\ l[1] + 2 = m + 1 /\ m >= 1
  <2>1. m # 0
    BY <1>5, <1>6, EmptySeq
  <2>2. 1 \in 1..m
    BY <1>5, <2>1
  <2>3. l[1] = f[1]
    BY <1>7, <2>2
  <2> HIDE DEF m
  <2> QED BY <1>2, <1>5, <1>6, <2>1, <2>3
<1>9. SubSeq(l, 1, m) = f
  <2>1. \A j \in 1..m : 0 + j = j
    BY <1>5
  <2>2. \A j \in 1..m : l[0 + j] = f[j]
    BY <1>7, <2>1
  <2>3. 0 + m <= n /\ 0 + m = m /\ 0 + 1 = 1 /\ 0 \in Nat
    BY <1>5, <1>7
  <2>4. SubSeq(l, 0 + 1, 0 + m) = f
    BY <1>5, <2>2, <2>3, SliceIs
  <2> QED BY <2>3, <2>4
<1> DEFINE rest == SubSeq(l, m + 1, n)
           D == {a \in 0..(n - m) : a + m \in C}
<1> HIDE DEF m, n
<1>10. rest \in Seq(Byte) /\ Len(rest) = n - m /\ \A j \in 1..(n - m) : rest[j] = l[m + j]
  <2>1. m + 1 \in 1..(n + 1) /\ n \in 0..n
    BY <1>1, <1>5, <1>7
  <2>2. /\ rest \in Seq(Byte)
        /\ Len(rest) = IF m + 1 <= n THEN n - (m + 1) + 1 ELSE 0
        /\ \A j \in 1..(n - (m + 1) + 1) : rest[j] = l[(m + 1) + j - 1]
    BY <1>1, <1>5, <1>7, <2>1, SubSeqProperties DEF n
  <2> HIDE DEF rest
  <2>3. n - (m + 1) + 1 = n - m /\ (~(m + 1 <= n) => n - m = 0)
    BY <1>1, <1>5, <1>7
  <2>4. \A j \in 1..(n - m) : (m + 1) + j - 1 = m + j
    BY <1>1, <1>5
  <2> QED BY <2>2, <2>3, <2>4
<1> HIDE DEF rest
<1>11. ASSUME NEW a \in D, a < Len(rest)
       PROVE  \E k \in DOMAIN s : a + Len(s[k].bytes) \in D /\ Holds(rest, a + 1, s[k].bytes)
  <2>1. a + m \in C /\ a + m < n /\ a \in 0..(n - m)
    BY <1>1, <1>5, <1>7, <1>10, <1>11
  <2>2. PICK k \in DOMAIN s :
            (a + m) + Len(s[k].bytes) \in C /\ Holds(l, (a + m) + 1, s[k].bytes)
    BY <1>3, <2>1
  <2> DEFINE g == s[k].bytes
             h == Len(g)
  <2>3. h \in Nat
    BY SentRecIs, LenProperties
  <2>4. (a + m) + h \in C /\ Holds(l, (a + m) + 1, g)
    BY <2>2
  <2> HIDE DEF g
  <2>5. ASSUME NEW j \in 1..h PROVE rest[a + 1 + j - 1] = g[j]
    <3>1. l[(a + m) + 1 + j - 1] = g[j]
      BY <2>4 DEF Holds
    <3> HIDE DEF h
    <3>2. (a + m) + h \in 0..n
      BY <1>3, <2>4
    <3>3. /\ a + 1 + j - 1 \in 1..(n - m)
          /\ m + (a + 1 + j - 1) = (a + m) + 1 + j - 1
      BY <1>1, <1>5, <2>1, <2>3, <3>2
    <3> QED BY <1>10, <3>1, <3>3
  <2> HIDE DEF h
  <2>6. a + h \in D
    <3>1. (a + m) + h \in 0..n /\ (a + m) + h = (a + h) + m
      BY <1>3, <1>5, <2>1, <2>3, <2>4
    <3>2. a + h \in 0..(n - m)
      BY <1>1, <1>5, <2>1, <2>3, <3>1
    <3> QED BY <2>4, <3>1, <3>2
  <2> QED BY <2>5, <2>6 DEF Holds, g, h
<1>12. D \in SUBSET (0..Len(rest)) /\ 0 \in D /\ Len(rest) \in D
  <2>1. 0 + m = m /\ 0 \in 0..(n - m) /\ (n - m) + m = n /\ n - m \in 0..(n - m)
    BY <1>1, <1>5, <1>7
  <2> QED BY <1>3, <1>7, <1>10, <2>1
<1> HIDE DEF D
<1>13. CutAt(rest, s, D)
  BY <1>11, <1>12 DEF CutAt
<1> QED BY <1>8, <1>9, <1>13 DEF f, rest, n
-----------------------------------------------------------------------------
(* The invariant is kept. *)

LEMMA InitIInv == Init => IInv
<1> SUFFICES ASSUME Init PROVE IInv
  OBVIOUS
<1>1. line = <<>> /\ sent = <<>> /\ got = <<>> /\ reports = <<>> /\ level = "none" /\ opts \in Options
  BY DEF Init
<1>2. \E C : CutAt(line, sent, C)
  BY <1>1, CutAtEmpty
<1>3. Types /\ AllEncoded /\ ReadIs /\ GotAligned
  BY <1>1 DEF Types, AllEncoded, ReadIs, GotAligned
<1> QED BY <1>2, <1>3 DEF IInv, LineTiled

\* What a step leaves of the invariant that does not read a frame.
LineKept ==
    /\ opts' = opts
    /\ line' \in Seq(Byte) /\ sent' \in Seq(SentRec)
    /\ AllEncoded'
    /\ aligned => \E C : CutAt(line', sent', C)

LEMMA SendKeeps ==
  ASSUME IInv, opts' = opts, NEW bytes, NEW tags, NEW lev, Send(bytes, tags, lev),
         [bytes |-> bytes, tags |-> tags, level |-> lev] \in SentRec,
         Encoded([bytes |-> bytes, tags |-> tags, level |-> lev], opts.antennaCount)
  PROVE  LineKept
<1> DEFINE r == [bytes |-> bytes, tags |-> tags, level |-> lev]
<1>1. r \in SentRec /\ Encoded(r, opts.antennaCount) /\ r.bytes = bytes
  OBVIOUS
<1>2. sent' = Append(sent, r) /\ line' = line \o bytes
  BY DEF Send
<1> HIDE DEF r
<1>3. line \in Seq(Byte) /\ sent \in Seq(SentRec)
  BY DEF IInv, Types
<1>4. bytes \in Seq(Byte)
  BY <1>1 DEF SentRec
<1>5. line' \in Seq(Byte)
  BY <1>2, <1>3, <1>4, ConcatIs
<1>6. /\ sent' \in Seq(SentRec) /\ Len(sent) \in Nat /\ Len(sent') = Len(sent) + 1
      /\ DOMAIN sent' = 1..(Len(sent) + 1) /\ DOMAIN sent = 1..Len(sent)
      /\ \A i \in 1..Len(sent) : sent'[i] = sent[i]
      /\ sent'[Len(sent) + 1] = r
  BY <1>1, <1>2, <1>3, AppendProperties, LenProperties
<1>7. AllEncoded'
  <2>1. ASSUME NEW i \in DOMAIN sent' PROVE Encoded(sent'[i], opts.antennaCount)
    <3>1. CASE i \in 1..Len(sent)
      BY <1>6, <3>1 DEF IInv, AllEncoded
    <3>2. CASE i = Len(sent) + 1
      BY <1>1, <1>6, <3>2
    <3> QED BY <1>6, <3>1, <3>2
  <2> QED BY <2>1 DEF AllEncoded
<1>8. ASSUME aligned PROVE \E C : CutAt(line', sent', C)
  <2>1. PICK C : CutAt(line, sent, C)
    BY <1>8 DEF IInv, LineTiled
  <2>2. \E D : CutAt(line \o r.bytes, Append(sent, r), D)
    BY <1>1, <1>3, <2>1, CutAtSend
  <2> QED BY <1>1, <1>2, <2>2
<1> QED BY <1>5, <1>6, <1>7, <1>8 DEF LineKept

LEMMA SilenceKeeps ==
  ASSUME IInv, opts' = opts, line' = line, sent' = sent
  PROVE  LineKept
BY DEF IInv, Types, AllEncoded, LineTiled, LineKept

LEMMA AnswerKeeps ==
  ASSUME IInv, opts' = opts, NEW cmd, Answer(cmd)
  PROVE  LineKept
<1>1. opts \in Options /\ opts.adr \in Byte
  BY OptionsAre DEF IInv, Types
<1>2. CASE UNCHANGED <<line, sent>>
  BY <1>2, SilenceKeeps
<1>3. ASSUME NEW on \in Antennas, NEW status \in {ST_DONE, ST_MORE}, NEW s \in Scans,
             AnswerInventory(Bit(cmd[4], 5), s, on, status)
      PROVE  LineKept
  <2> DEFINE fastId == Bit(cmd[4], 5)
             bytes == Response(INVENTORY, status, <<AntennaByte(on), Len(s)>> \o ScanBlocks(s, fastId))
             tags == [i \in DOMAIN s |-> Seen(s[i], fastId, on)]
  <2>1. fastId \in BOOLEAN
    BY DEF Bit
  <2> HIDE DEF fastId
  <2>2. Send(bytes, tags, "none")
    BY <1>3 DEF AnswerInventory, fastId
  <2>3. /\ [bytes |-> bytes, tags |-> tags, level |-> "none"] \in SentRec
        /\ Encoded([bytes |-> bytes, tags |-> tags, level |-> "none"], opts.antennaCount)
    BY <1>1, <2>1, EncodedInventory
  <2> HIDE DEF bytes, tags
  <2> QED BY <2>2, <2>3, SendKeeps
<1>4. ASSUME NEW high \in BOOLEAN, AnswerGpio(high)
      PROVE  LineKept
  <2> DEFINE bytes == Response(GPIO_GET, 0, <<Flag(high, 0) + Flag(~high, 4) + 32>>)
             lev == IF high THEN "high" ELSE "low"
  <2>1. Send(bytes, <<>>, lev)
    BY <1>4 DEF AnswerGpio
  <2>2. /\ [bytes |-> bytes, tags |-> <<>>, level |-> lev] \in SentRec
        /\ Encoded([bytes |-> bytes, tags |-> <<>>, level |-> lev], opts.antennaCount)
    BY <1>1, EncodedGpio
  <2> HIDE DEF bytes, lev
  <2> QED BY <2>1, <2>2, SendKeeps
<1>5. CASE Send(Response(SET_WORK_MODE, 0, <<>>), <<>>, "none")
  <2> DEFINE bytes == Response(SET_WORK_MODE, 0, <<>>)
             r == [bytes |-> bytes, tags |-> <<>>, level |-> "none"]
  <2>1. /\ <<>> \in Seq(Byte) /\ Len(<<>>) <= 250
        /\ SET_WORK_MODE \in Byte /\ 0 \in Byte /\ SET_WORK_MODE # GPIO_GET
        /\ SET_WORK_MODE \notin {REALTIME, INVENTORY}
    BY CodesAreBytes DEF SET_WORK_MODE, GPIO_GET, REALTIME, INVENTORY, Byte
  <2>2. r \in SentRec /\ Encoded(r, opts.antennaCount)
    BY <1>1, <2>1, EncodedPlain
  <2> HIDE DEF bytes
  <2> QED BY <1>5, <2>2, SendKeeps DEF bytes
<1> QED BY <1>2, <1>3, <1>4, <1>5 DEF Answer

LEMMA PushKeeps ==
  ASSUME IInv, Push
  PROVE  LineKept
<1>1. opts \in Options /\ opts.adr \in Byte /\ opts' = opts
  BY OptionsAre DEF IInv, Types, Push, Quiet
<1>2. ASSUME NEW s \in Scans, NEW on \in Antennas, NEW phase \in BOOLEAN, Len(s) = 1,
             Send(Response(REALTIME, RT_TAG, <<AntennaByte(on)>> \o Block(s[1], FALSE, phase)),
                  <<Seen(s[1], FALSE, on)>>, "none")
      PROVE  LineKept
  <2> DEFINE bytes == Response(REALTIME, RT_TAG, <<AntennaByte(on)>> \o Block(s[1], FALSE, phase))
             tags == <<Seen(s[1], FALSE, on)>>
  <2>1. Send(bytes, tags, "none")
    BY <1>2
  <2>2. /\ [bytes |-> bytes, tags |-> tags, level |-> "none"] \in SentRec
        /\ Encoded([bytes |-> bytes, tags |-> tags, level |-> "none"], opts.antennaCount)
    BY <1>1, <1>2, EncodedRealtime
  <2> HIDE DEF bytes, tags
  <2> QED BY <1>1, <2>1, <2>2, SendKeeps
<1>3. ASSUME NEW data \in Seq(Byte), Len(data) <= 250, NEW cmd \in {REALTIME, INVENTORY},
             NEW status \in Byte,
             \/ cmd = REALTIME /\ status # RT_TAG
             \/ cmd = INVENTORY /\ status \notin TagStatuses,
             Send(Response(cmd, status, data), <<>>, "none")
      PROVE  LineKept
  <2> DEFINE bytes == Response(cmd, status, data)
             r == [bytes |-> bytes, tags |-> <<>>, level |-> "none"]
  <2>1. cmd \in Byte /\ cmd # GPIO_GET
    BY CodesAreBytes DEF GPIO_GET, REALTIME, INVENTORY
  <2>2. r \in SentRec /\ Encoded(r, opts.antennaCount)
    BY <1>1, <1>3, <2>1, EncodedPlain
  <2> HIDE DEF bytes
  <2> QED BY <1>1, <1>3, <2>2, SendKeeps DEF bytes
<1>4. CASE Send(Response(REALTIME, RT_HEARTBEAT, <<0, 0, 0, 1, 0, 0, 0, 0, 9>>), <<>>, "none")
  <2>1. /\ <<0, 0, 0, 1, 0, 0, 0, 0, 9>> \in Seq(Byte) /\ Len(<<0, 0, 0, 1, 0, 0, 0, 0, 9>>) <= 250
        /\ RT_HEARTBEAT \in Byte /\ RT_HEARTBEAT # RT_TAG
    BY DEF RT_HEARTBEAT, RT_TAG, Byte
  <2> QED BY <1>3, <1>4, <2>1
<1>5. CASE Send(Response(INVENTORY, ST_STATISTIC, <<1, 0, 4, 0, 0, 0, 4>>), <<>>, "none")
  <2>1. /\ <<1, 0, 4, 0, 0, 0, 4>> \in Seq(Byte) /\ Len(<<1, 0, 4, 0, 0, 0, 4>>) <= 250
        /\ ST_STATISTIC \in Byte /\ ST_STATISTIC \notin TagStatuses
    BY DEF ST_STATISTIC, TagStatuses, ST_DONE, ST_MORE, Byte
  <2> QED BY <1>3, <1>5, <2>1
<1> QED BY <1>2, <1>4, <1>5 DEF Push
LEMMA ReadNothingKeeps ==
  ASSUME ReadNothing, opts' \in Options, line' \in Seq(Byte), sent' \in Seq(SentRec), AllEncoded',
         aligned' => \E C : CutAt(line', sent', C)
  PROVE  IInv'
<1>1. got' = <<>> /\ reports' = <<>> /\ level' = "none"
  BY DEF ReadNothing
<1>2. Types' /\ ReadIs' /\ GotAligned'
  BY <1>1 DEF Types, ReadIs, GotAligned
<1> QED BY <1>2 DEF IInv, LineTiled

LEMMA SliceType ==
  ASSUME NEW l \in Seq(Byte), NEW a \in Nat, NEW b \in Nat, 1 <= a, b <= Len(l)
  PROVE  SubSeq(l, a, b) \in Seq(Byte)
<1>1. \A i \in a..b : l[i] \in Byte
  <2>1. Len(l) \in Nat
    BY LenProperties
  <2>2. \A i \in a..b : i \in 1..Len(l)
    BY <2>1
  <2> QED BY <2>2, ElementOfSeq
<1> QED BY <1>1, SubSeqProperties

LEMMA SameEncoded ==
  ASSUME AllEncoded, opts' = opts, sent' = sent
  PROVE  AllEncoded'
BY DEF AllEncoded

LEMMA GarbledType ==
  ASSUME NEW b \in Byte, NEW flip \in SUBSET (0..7)
  PROVE  Garbled(b, flip) \in Byte
<1> DEFINE x == Xor(BitsOf(b), flip)
<1>1. x \in SUBSET (0..7)
  BY BitsOfType DEF Xor
<1>2. ByteOf(x) \in Byte /\ BitsOf(ByteOf(x)) = x
  BY <1>1, ByteOfType, BitsOfByteOf
<1> HIDE DEF x
<1>3. (CHOOSE c \in Byte : BitsOf(c) = x) \in Byte
  BY <1>2
<1> QED BY <1>3 DEF Garbled, x

LEMMA NoiseType ==
  ASSUME line \in Seq(Byte), Noise
  PROVE  line' \in Seq(Byte)
<1>1. PICK i \in Upcoming :
        \/ \E flip \in Flips : line' = [line EXCEPT ![i] = Garbled(@, flip)]
        \/ line' = SubSeq(line, 1, i - 1) \o SubSeq(line, i + 1, Len(line))
        \/ \E b \in Inserts : line' = SubSeq(line, 1, i - 1) \o <<b>> \o SubSeq(line, i, Len(line))
  BY DEF Noise
<1> DEFINE n == Len(line)
<1>2. n \in Nat /\ DOMAIN line = 1..n
  BY LenProperties
<1>3. i \in 1..n
  <2>1. CASE Whole(line)
    <3>1. n > line[1] /\ line # <<>>
      BY <2>1 DEF Whole
    <3>2. 1 \in 1..n
      BY <1>2, <3>1
    <3>3. line[1] \in Byte
      BY <3>2, ElementOfSeq
    <3>4. i \in 1..(line[1] + 1)
      BY <2>1 DEF Upcoming
    <3> DEFINE b == line[1]
    <3> HIDE DEF b, n
    <3>5. b \in Byte /\ n > b /\ i \in 1..(b + 1)
      BY <3>1, <3>3, <3>4 DEF b
    <3> QED BY <1>2, <3>5 DEF Byte
  <2>2. CASE ~Whole(line)
    BY <1>2, <2>2 DEF Upcoming
  <2> QED BY <2>1, <2>2
<1>4. line[i] \in Byte
  BY <1>3, ElementOfSeq
<1> DEFINE before == SubSeq(line, 1, i - 1)
           after == SubSeq(line, i + 1, n)
           from == SubSeq(line, i, n)
<1>5. before \in Seq(Byte) /\ after \in Seq(Byte) /\ from \in Seq(Byte)
  <2>1. i \in Nat /\ i - 1 \in Nat /\ i + 1 \in Nat /\ 1 <= i /\ 1 <= i + 1 /\ i - 1 <= n /\ 1 \in Nat /\ 1 <= 1
    BY <1>2, <1>3
  <2> QED BY <1>2, <2>1, SliceType
<1>6. ASSUME NEW flip \in Flips, line' = [line EXCEPT ![i] = Garbled(@, flip)]
      PROVE  line' \in Seq(Byte)
  <2>1. Garbled(line[i], flip) \in Byte
    BY <1>4, FramingAssumption, GarbledType
  <2> QED BY <1>3, <1>6, <2>1
<1> HIDE DEF before, after, from
<1>7. CASE line' = before \o after
  BY <1>5, <1>7, ConcatIs
<1>8. ASSUME NEW b \in Inserts, line' = before \o <<b>> \o from
      PROVE  line' \in Seq(Byte)
  <2>1. <<b>> \in Seq(Byte)
    BY FramingAssumption
  <2> DEFINE one == <<b>>
             c == before \o one
  <2> HIDE DEF one
  <2>2. c \in Seq(Byte)
    BY <1>5, <2>1, ConcatIs DEF one
  <2> HIDE DEF c
  <2>3. c \o from \in Seq(Byte)
    BY <1>5, <2>2, ConcatIs
  <2> QED BY <1>8, <2>3 DEF c, one
<1> QED BY <1>1, <1>6, <1>7, <1>8 DEF before, after, from
LEMMA ReadFrameKeeps ==
  ASSUME IInv, ReadFrame
  PROVE  IInv'
<1> DEFINE f == SubSeq(line, 1, line[1] + 1)
           n == Len(line)
<1>1. /\ opts \in Options /\ line \in Seq(Byte) /\ sent \in Seq(SentRec)
      /\ AllEncoded /\ LineTiled
  BY DEF IInv, Types
<1>2. /\ Whole(line) /\ got' = f /\ line' = SubSeq(line, line[1] + 2, n)
      /\ reports' = (IF pc = "drain" THEN Drain(got').tags ELSE <<>>)
      /\ level' = (IF pc = "query" THEN Query(got') ELSE "none")
      /\ opts' = opts /\ sent' = sent /\ aligned' = aligned
  BY DEF ReadFrame
<1>3. n \in Nat /\ n > line[1] /\ line[1] \in Nat
  <2>1. n \in Nat /\ n > line[1] /\ line # <<>>
    BY <1>1, <1>2, LenProperties DEF Whole
  <2>2. 1 \in 1..n
    BY <1>1, <2>1
  <2>3. line[1] \in Byte
    BY <1>1, <2>2, ElementOfSeq
  <2>4. \A d \in Byte : d \in Nat
    BY DEF Byte
  <2> QED BY <2>1, <2>3, <2>4, Zenon
<1>4. f \in Seq(Byte) /\ line' \in Seq(Byte)
  <2> DEFINE a == line[1]
  <2>1. a \in Nat /\ n > a
    BY <1>3
  <2> HIDE DEF a, n
  <2>2. /\ a + 1 \in Nat /\ a + 2 \in Nat /\ 1 \in Nat /\ 1 <= 1 /\ 1 <= a + 2
        /\ a + 1 <= n /\ n <= n /\ n \in Nat
    BY <1>3, <2>1
  <2>3. SubSeq(line, 1, a + 1) \in Seq(Byte) /\ SubSeq(line, a + 2, n) \in Seq(Byte)
    BY <1>1, <2>2, SliceType DEF n
  <2> QED BY <1>2, <2>3 DEF a, n
<1> HIDE DEF f
<1>5. Types'
  BY <1>1, <1>2, <1>4 DEF Types
<1>6. AllEncoded'
  BY <1>1, <1>2, SameEncoded
<1>7. ReadIs'
  <2>1. Drain(got').tags = TagsOf(got', opts.antennaCount)
    <3>1. \A g : Drain(g).tags = TagsOf(g, opts.antennaCount)
      BY TagsIs
    <3> QED BY <3>1
  <2> QED BY <1>2, <2>1 DEF ReadIs
<1>8. ASSUME aligned
      PROVE  /\ \E i \in DOMAIN sent : f = sent[i].bytes
             /\ \E D : CutAt(line', sent', D)
  <2>1. PICK C : CutAt(line, sent, C)
    BY <1>1, <1>8 DEF LineTiled
  <2>2. \A i \in DOMAIN sent : IsFrame(sent[i].bytes)
    BY <1>1 DEF AllEncoded, Encoded
  <2>3. /\ \E i \in DOMAIN sent : SubSeq(line, 1, line[1] + 1) = sent[i].bytes
        /\ \E D : CutAt(SubSeq(line, line[1] + 2, Len(line)), sent, D)
    BY <1>1, <1>2, <2>1, <2>2, CutAtRead
  <2> QED BY <1>2, <2>3 DEF f
<1>9. LineTiled'
  BY <1>2, <1>8 DEF LineTiled
<1>10. GotAligned'
  <2>1. SUFFICES ASSUME aligned PROVE SentFrame(got)' # {}
    BY <1>2 DEF GotAligned
  <2> QED BY <1>2, <1>8, <2>1 DEF SentFrame
<1> QED BY <1>5, <1>6, <1>7, <1>9, <1>10 DEF IInv

LEMMA NextKeepsIInv == IInv /\ [Next]_vars => IInv'
<1> SUFFICES ASSUME IInv, [Next]_vars PROVE IInv'
  OBVIOUS
<1>1. /\ opts \in Options /\ line \in Seq(Byte) /\ sent \in Seq(SentRec)
      /\ AllEncoded /\ LineTiled
  BY DEF IInv, Types
<1>2. ASSUME LineKept, Quiet PROVE IInv'
  BY <1>1, <1>2, ReadNothingKeeps DEF LineKept, Quiet
<1>3. ASSUME NEW cmd, NEW next, Write(cmd, next) PROVE IInv'
  <2>1. Quiet /\ opts' = opts
    BY <1>3 DEF Write, Quiet
  <2>2. CASE cmd = ValueError
    <3>1. line' = line /\ sent' = sent
      BY <1>3, <2>2 DEF Write
    <3> QED BY <1>2, <2>1, <3>1, SilenceKeeps
  <2>3. CASE cmd # ValueError
    <3>1. Answer(cmd)
      BY <1>3, <2>3 DEF Write
    <3> QED BY <1>2, <2>1, <3>1, AnswerKeeps
  <2> QED BY <2>2, <2>3
<1>4. CASE WriteInventory
  BY <1>3, <1>4 DEF WriteInventory
<1>5. CASE WriteGpioGet
  BY <1>3, <1>5 DEF WriteGpioGet
<1>6. CASE WriteSetWorkMode
  BY <1>3, <1>6 DEF WriteSetWorkMode
<1>7. CASE ReadFrame
  BY <1>7, ReadFrameKeeps
<1>8. CASE TimeOut
  <2>1. /\ ReadNothing /\ line' = <<>> /\ opts' = opts /\ sent' = sent
    BY <1>8 DEF TimeOut, NoFrame
  <2>2. \E C : CutAt(line', sent', C)
    BY <2>1, CutAtEmpty
  <2> QED BY <1>1, <2>1, <2>2, SameEncoded, ReadNothingKeeps
<1>9. CASE TimeOutWithin
  <2>1. /\ ReadNothing /\ opts' = opts /\ sent' = sent /\ aligned' = FALSE
    BY <1>9 DEF TimeOutWithin, NoFrame
  <2>2. PICK k \in 1..(Len(line) - 1) : line' = SubSeq(line, k + 1, Len(line))
    BY <1>9 DEF TimeOutWithin
  <2>3. line' \in Seq(Byte)
    <3>1. Len(line) \in Nat
      BY <1>1, LenProperties
    <3>2. k + 1 \in Nat /\ 1 <= k + 1 /\ Len(line) <= Len(line)
      BY <3>1
    <3> QED BY <1>1, <2>2, <3>1, <3>2, SliceType
  <2> QED BY <1>1, <2>1, <2>3, SameEncoded, ReadNothingKeeps
<1>10. CASE Push
  <2>1. Quiet
    BY <1>10 DEF Push
  <2> QED BY <1>2, <1>10, <2>1, PushKeeps
<1>11. CASE Noise
  <2>1. ReadNothing /\ opts' = opts /\ sent' = sent /\ aligned' = FALSE
    BY <1>11 DEF Noise
  <2>2. line' \in Seq(Byte)
    BY <1>1, <1>11, NoiseType
  <2> QED BY <1>1, <2>1, <2>2, SameEncoded, ReadNothingKeeps
<1>12. CASE UNCHANGED vars
  BY <1>12 DEF vars, IInv, Types, AllEncoded, ReadIs, LineTiled, GotAligned, SentFrame
<1> QED BY <1>4, <1>5, <1>6, <1>7, <1>8, <1>9, <1>10, <1>11, <1>12 DEF Next, Worker
-----------------------------------------------------------------------------
(***************************************************************************)
(* The invariant holds: on a line that was quiet since the last fault the  *)
(* bytes are whole frames, and every frame that was sent is one that the   *)
(* driver reads as the reader meant it.                                    *)
(***************************************************************************)
THEOREM FramingInvariant == Spec => []IInv
<1> QED BY InitIInv, NextKeepsIInv, PTL DEF Spec

LEMMA ReadStep ==
  ASSUME IInv, [Next]_vars, aligned, got' # <<>>, ~UNCHANGED vars
  PROVE  \E i \in SentFrame(got') : pc = "drain" => reports' = sent[i].tags
<1>1. ASSUME ReadNothing PROVE FALSE
  BY <1>1 DEF ReadNothing
<1>2. ReadFrame
  BY <1>1 DEF Next, Worker, WriteInventory, WriteGpioGet, WriteSetWorkMode, Write, Quiet, TimeOut,
              TimeOutWithin, NoFrame, Push, Noise
<1>3. /\ line \in Seq(Byte) /\ sent \in Seq(SentRec) /\ AllEncoded
      /\ Whole(line) /\ got' = SubSeq(line, 1, line[1] + 1)
      /\ pc = "drain" => reports' = Drain(got').tags
  BY <1>2 DEF IInv, Types, ReadFrame
<1>4. PICK C : CutAt(line, sent, C)
  BY DEF IInv, LineTiled
<1>5. \A i \in DOMAIN sent : IsFrame(sent[i].bytes) /\ TagsOf(sent[i].bytes, opts.antennaCount) = sent[i].tags
  BY <1>3 DEF AllEncoded, Encoded
<1>6. PICK i \in DOMAIN sent : SubSeq(line, 1, line[1] + 1) = sent[i].bytes
  BY <1>3, <1>4, <1>5, CutAtRead
<1>7. \A g : Drain(g).tags = TagsOf(g, opts.antennaCount)
  BY TagsIs
<1>8. i \in SentFrame(got') /\ (pc = "drain" => reports' = sent[i].tags)
  BY <1>3, <1>5, <1>6, <1>7 DEF SentFrame
<1> QED BY <1>8

(***************************************************************************)
(* However often bytes were garbled, lost, inserted or late before: once a *)
(* read has timed out on a quiet line, the next frame is read whole, it is *)
(* one that was sent, and the driver yields its tags.                      *)
(***************************************************************************)
THEOREM QuietLineRealigns == Spec => QuietRealigns
<1>1. IInv /\ [Next]_vars =>
        [aligned /\ got' # <<>> =>
            \E i \in SentFrame(got') : pc = "drain" => reports' = sent[i].tags]_vars
  BY ReadStep
<1> QED BY <1>1, FramingInvariant, PTL DEF Spec, QuietRealigns

LEMMA ReportsOfSent ==
  ASSUME IInv, AcceptedWasSent
  PROVE  ReportsAsEncoded
<1> DEFINE count == opts.antennaCount
<1>1. /\ reports \in {<<>>, TagsOf(got, count)} /\ level \in {"none", Query(got)}
      /\ AllEncoded
  BY DEF IInv, ReadIs
<1>2. \A i \in SentFrame(got) : TagsOf(got, count) = sent[i].tags /\ Query(got) = sent[i].level
  BY <1>1 DEF SentFrame, AllEncoded, Encoded
<1>3. ParseFrame(<<>>) = ProtocolError
  BY DEF ParseFrame
<1>4. ASSUME ParseFrame(got) = ProtocolError
      PROVE  reports = <<>> /\ level = "none"
  <2>1. TagsOf(got, count) = <<>>
    BY <1>4 DEF TagsOf
  <2>2. Query(got) = "none"
    BY <1>4 DEF Query
  <2> QED BY <1>1, <2>1, <2>2
<1>5. CASE ParseFrame(got) = ProtocolError
  BY <1>4, <1>5 DEF ReportsAsEncoded
<1>6. CASE ParseFrame(got) # ProtocolError
  <2>1. got # <<>>
    BY <1>3, <1>6
  <2>2. PICK i : i \in SentFrame(got)
    BY <1>6, <2>1 DEF AcceptedWasSent
  <2> QED BY <1>1, <1>2, <2>2 DEF ReportsAsEncoded
<1> QED BY <1>5, <1>6

(***************************************************************************)
(* The parsers add no mistake to the checksum's: as long as parse_frame    *)
(* takes only frames that were sent, the tags and the level that the       *)
(* driver reports are those that the reader put into that very frame.      *)
(***************************************************************************)
THEOREM ReportsOnlyAsEncoded == Spec => [](AcceptedWasSent => ReportsAsEncoded)
<1>1. IInv => (AcceptedWasSent => ReportsAsEncoded)
  BY ReportsOfSent
<1> QED BY <1>1, FramingInvariant, PTL

(***************************************************************************)
(* While the line was quiet since the last fault, both hold.               *)
(***************************************************************************)
THEOREM QuietLineIsRead == Spec => [](aligned => AcceptedWasSent /\ ReportsAsEncoded)
<1>1. IInv => (aligned => AcceptedWasSent /\ ReportsAsEncoded)
  <2> SUFFICES ASSUME IInv, aligned PROVE AcceptedWasSent /\ ReportsAsEncoded
    OBVIOUS
  <2>1. AcceptedWasSent
    BY DEF IInv, GotAligned, AcceptedWasSent
  <2> QED BY <2>1, ReportsOfSent
<1> QED BY <1>1, FramingInvariant, PTL

\* f and g differ, if at all, in a byte and the byte behind it.
BurstApart(f, g) ==
    /\ Len(f) = Len(g)
    /\ \E k \in 1..Len(f) : \A j \in 1..Len(f) : j # k /\ j # k + 1 => f[j] = g[j]

(***************************************************************************)
(* What noise must do to a frame before parse_frame takes it for another:  *)
(* the line is not quiet since the last fault, and what was read is no     *)
(* frame that was sent with up to two adjacent bytes changed.              *)
(***************************************************************************)
THEOREM AcceptedIsFarFromSent ==
  Spec => [](got # <<>> /\ ParseFrame(got) # ProtocolError /\ SentFrame(got) = {}
                => ~aligned /\ \A i \in DOMAIN sent : ~BurstApart(got, sent[i].bytes))
<1>1. IInv => (got # <<>> /\ ParseFrame(got) # ProtocolError /\ SentFrame(got) = {}
                => ~aligned /\ \A i \in DOMAIN sent : ~BurstApart(got, sent[i].bytes))
  <2> SUFFICES ASSUME IInv, got # <<>>, ParseFrame(got) # ProtocolError, SentFrame(got) = {}
               PROVE  ~aligned /\ \A i \in DOMAIN sent : ~BurstApart(got, sent[i].bytes)
    OBVIOUS
  <2>1. ~aligned
    BY DEF IInv, GotAligned
  <2>2. got \in Seq(Byte) /\ sent \in Seq(SentRec) /\ AllEncoded
    BY DEF IInv, Types
  <2>3. ~(Len(got) < 5) /\ Crc16(got) = {}
    BY DEF ParseFrame
  <2>4. ASSUME NEW i \in DOMAIN sent, BurstApart(got, sent[i].bytes) PROVE FALSE
    <3> DEFINE g == sent[i].bytes
               n == Len(got)
    <3>1. g \in Seq(Byte) /\ Crc16(g) = {}
      BY <2>2, SentRecIs DEF AllEncoded, Encoded, IsFrame
    <3>2. n = Len(g) /\ n \in Nat
      BY <2>2, <2>4, LenProperties DEF BurstApart
    <3>3. got # g
      BY DEF SentFrame
    <3>4. PICK k \in 1..n : \A j \in 1..n : j # k /\ j # k + 1 => got[j] = g[j]
      BY <2>4 DEF BurstApart
    <3> HIDE DEF g
    <3>5. \E m \in 1..(n - 1) : \A j \in 1..n : j # m /\ j # m + 1 => got[j] = g[j]
      <4>1. CASE k = n
        <5>1. n - 1 \in 1..(n - 1) /\ (n - 1) + 1 = n
          BY <2>3, <3>2
        <5>2. \A j \in 1..n : j # n - 1 /\ j # (n - 1) + 1 => got[j] = g[j]
          BY <3>2, <3>4, <4>1, <5>1
        <5> QED BY <5>1, <5>2
      <4>2. CASE k # n
        <5>1. k \in 1..(n - 1)
          BY <3>2, <4>2
        <5> QED BY <3>4, <5>1
      <4> QED BY <4>1, <4>2
    <3>6. got = g
      BY <2>2, <2>3, <3>1, <3>2, <3>5, BurstChangesCrc
    <3> QED BY <3>3, <3>6
  <2> QED BY <2>1, <2>4
<1> QED BY <1>1, FramingInvariant, PTL
=============================================================================
