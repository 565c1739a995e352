---------------------------- MODULE WyuanProtocol ----------------------------
(***************************************************************************)
(* omnitag/drivers/wyuan/protocol.py: the codec of the reader's serial     *)
(* protocol, over sequences of bytes.  What the code raises is returned:   *)
(* ProtocolError or ValueError.  None is 0 for an antenna and <<>> for a   *)
(* TID.                                                                    *)
(***************************************************************************)
EXTENDS Naturals, Sequences

INVENTORY == 1
GPIO_GET == 71
SET_WORK_MODE == 118
REALTIME == 238

ST_DONE == 1
ST_MORE == 3
ST_STATISTIC == 38
TagStatuses == {ST_DONE, 2, ST_MORE, 4}
RT_TAG == 0
RT_HEARTBEAT == 40

MODE_ANSWERING == 0
FAST_ID_TID_LEN == 12
MAX_ANTENNA == 16

Byte == 0..255
ProtocolError == [error |-> "ProtocolError"]
ValueError == [error |-> "ValueError"]

Bit(b, i) == (b \div 2^i) % 2 = 1

-----------------------------------------------------------------------------
(***************************************************************************)
(* CRC16.  A word is the set of its bits that are 1, so that exclusive or  *)
(* is the symmetric difference; the polynomial is 16#8408, the preset      *)
(* 16#FFFF.                                                                *)
(***************************************************************************)
Xor(a, b) == (a \ b) \union (b \ a)
BitsOf(b) == {i \in 0..7 : Bit(b, i)}
Poly == {3, 10, 15}

ShiftRight(crc) == {i - 1 : i \in crc \ {0}}
Shift[crc \in SUBSET (0..15)] ==
    IF 0 \in crc THEN Xor(ShiftRight(crc), Poly) ELSE ShiftRight(crc)

\* Eight shifts; what the upper byte holds only moves down.
Shift8 == [low \in SUBSET (0..7) |->
              Shift[Shift[Shift[Shift[Shift[Shift[Shift[Shift[low]]]]]]]]]

MixIn(crc, byte) ==
    LET mixed == Xor(crc, BitsOf(byte))
    IN Xor(Shift8[mixed \intersect 0..7], {i - 8 : i \in mixed \ 0..7})

Crc16(data) ==
    LET Crc[i \in 0..Len(data)] == IF i = 0 THEN 0..15 ELSE MixIn(Crc[i - 1], data[i])
    IN Crc[Len(data)]

\* The number of n bits, of which those in word are 1.
Number(word, n) ==
    LET Sum[i \in 0..n] ==
            IF i = 0 THEN 0 ELSE Sum[i - 1] + (IF i - 1 \in word THEN 2^(i - 1) ELSE 0)
    IN Sum[n]

\* The two bytes at the end of a frame, the less significant one first.
CrcBytes(crc) == <<Number(crc, 16) % 256, Number(crc, 16) \div 256>>

Framed(body) == body \o CrcBytes(Crc16(body))

-----------------------------------------------------------------------------
(* Commands, from the host to the reader. *)

BuildCommand(cmd, data, adr) == Framed(<<Len(data) + 4, adr, cmd>> \o data)

Flag(on, i) == IF on THEN 2^i ELSE 0

\* o holds the driver's options; it asks for no phase and no statistics.
BuildInventory(o) ==
    IF \/ o.qValue \notin 0..15
       \/ o.session \notin 0..3 \union {255}
       \/ o.antenna \notin 0..MAX_ANTENNA
    THEN ValueError
    ELSE BuildCommand(INVENTORY,
             <<o.qValue + Flag(o.fastId, 5), o.session>>
                 \o (IF o.antenna = 0 THEN <<>>
                     ELSE <<0, 128 + o.antenna - 1, o.scanTime % 256>>),
             o.adr)

BuildGpioGet(adr) == BuildCommand(GPIO_GET, <<>>, adr)

BuildSetWorkMode(mode, adr) ==
    IF mode \in 0..2 THEN BuildCommand(SET_WORK_MODE, <<mode>>, adr) ELSE ValueError

-----------------------------------------------------------------------------
(* Responses, from the reader to the host. *)

\* Bug: the CRC of a frame is not looked at.
BugParseFrame(frame) ==
    IF Len(frame) < 5 \/ Len(frame) # frame[1] + 1
    THEN ProtocolError
    ELSE [adr |-> frame[2], reCmd |-> frame[3], status |-> frame[4],
          data |-> SubSeq(frame, 5, Len(frame) - 2)]

ParseFrame(frame) ==
    IF Len(frame) < 5 \/ Len(frame) # frame[1] + 1 \/ Crc16(frame) # {}
    THEN ProtocolError
    ELSE [adr |-> frame[2], reCmd |-> frame[3], status |-> frame[4],
          data |-> SubSeq(frame, 5, Len(frame) - 2)]

\* A bit mask up to eight antennas, its highest bit counts; an index beyond.
AntennaFromByte(ant, count) ==
    IF count > 8 THEN ant + 1
    ELSE CHOOSE n \in 0..8 : 2^n > ant /\ (n > 0 => 2^(n - 1) <= ant)

\* Bug: the TID is taken from the front of a FastID block.
BugSplitTid(payload, hasTid) ==
    IF hasTid /\ Len(payload) > FAST_ID_TID_LEN
    THEN [epc |-> SubSeq(payload, FAST_ID_TID_LEN + 1, Len(payload)),
          tid |-> SubSeq(payload, 1, FAST_ID_TID_LEN)]
    ELSE [epc |-> payload, tid |-> <<>>]

\* A FastID block ends in the TID, if it is long enough to hold one.
SplitTid(payload, hasTid) ==
    LET cut == Len(payload) - FAST_ID_TID_LEN
    IN IF hasTid /\ cut > 0
       THEN [epc |-> SubSeq(payload, 1, cut), tid |-> SubSeq(payload, cut + 1, Len(payload))]
       ELSE [epc |-> payload, tid |-> <<>>]

\* The block at data[i], and the index past it.
ParseTagBlock(data, i, antenna) ==
    LET n == data[i] % 64
        rssi == i + 1 + n
        next == rssi + 1 + (IF Bit(data[i], 6) THEN 7 ELSE 0)
        parts == SplitTid(SubSeq(data, i + 1, i + n), Bit(data[i], 7))
    IN IF i > Len(data) \/ rssi > Len(data) \/ next > Len(data) + 1
       THEN ProtocolError
       ELSE [tag |-> [epc |-> parts.epc, tid |-> parts.tid, antenna |-> antenna], next |-> next]

\* The tags of an INVENTORY frame: Ant, Num, then Num blocks.
ParseInventory(data, count) ==
    LET Blocks[k \in Byte] ==
            IF k = 0 THEN [tags |-> <<>>, next |-> 3]
            ELSE LET before == Blocks[k - 1]
                     block == ParseTagBlock(data, before.next, AntennaFromByte(data[1], count))
                 IN IF before = ProtocolError \/ block = ProtocolError
                    THEN ProtocolError
                    ELSE [tags |-> Append(before.tags, block.tag), next |-> block.next]
    IN IF Len(data) < 2 THEN ProtocolError ELSE Blocks[data[2]]

\* The one tag of a REALTIME frame: Ant, then a block.
ParseRealtimeTag(data, count) ==
    IF Len(data) < 3 THEN ProtocolError
    ELSE ParseTagBlock(data, 2, AntennaFromByte(data[1], count))

ParseGpioStatus(data) ==
    IF data = <<>> THEN ProtocolError
    ELSE [in1High |-> Bit(data[1], 0), out1High |-> Bit(data[1], 4), out2High |-> Bit(data[1], 5)]
=============================================================================
