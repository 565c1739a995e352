---------------------------- MODULE WyuanFraming ----------------------------
(***************************************************************************)
(* The bytes beneath WyuanReader: what _read_frame cuts from a serial line *)
(* that garbles, loses and delays bytes, what parse_frame accepts of it,   *)
(* and what the driver makes of that.  In which order commands follow each *)
(* other is WyuanReader's; here any command follows any.  The reader is    *)
(* external: it answers a command as docs/wyuan-protocol.md says.          *)
(***************************************************************************)
EXTENDS WyuanProtocol, FiniteSets

CONSTANTS
    Options,    \* what the driver may be constructed with
    Scans,      \* bound: the tags, [epc, tid], that a scan may find, in order
    Flips,      \* bound: which bits noise may invert in one byte
    Inserts,    \* bound: which bytes noise may insert
    MaxFrames,  \* bound: how many frames the reader sends
    MaxFaults   \* bound: how often the line or a deadline fails

ASSUME FramingAssumption ==
    /\ Flips \subseteq SUBSET (0..7)
    /\ Inserts \subseteq Byte
    /\ MaxFrames \in Nat /\ MaxFaults \in Nat

VARIABLES
    opts,     \* the driver's options
    pc,       \* what the worker reads a frame for, or that it does not
    line,     \* the bytes at the serial port, oldest first
    sent,     \* history: [bytes, tags, level] of each frame the reader sent
    got,      \* the frame that the last step read
    reports,  \* what the worker made of it: tags it yields
    level,    \* ... or the level of IN1
    faults,   \* how often the line failed
    aligned   \* history: the line was quiet since the last fault

vars == <<opts, pc, line, sent, got, reports, level, faults, aligned>>

Init ==
    /\ opts \in Options
    /\ pc = "idle"
    /\ line = <<>>
    /\ sent = <<>>
    /\ got = <<>>
    /\ reports = <<>>
    /\ level = "none"
    /\ faults = 0
    /\ aligned = TRUE

-----------------------------------------------------------------------------
(* The reader.  It sees tag t on a set of antennas and encodes it. *)

Response(cmd, status, data) == Framed(<<Len(data) + 5, opts.adr, cmd, status>> \o data)

AntennaByte(on) ==
    IF opts.antennaCount > 8 THEN (CHOOSE a \in on : TRUE) - 1 ELSE Number({a - 1 : a \in on}, 8)

Antennas ==
    IF opts.antennaCount > 8 THEN {{opts.antennaCount}} ELSE {{}, {1, opts.antennaCount}}

Block(t, fastId, phase) ==
    LET payload == IF fastId THEN t.epc \o t.tid ELSE t.epc
    IN <<Len(payload) + Flag(fastId, 7) + Flag(phase, 6)>> \o payload
           \o <<80>> \o (IF phase THEN <<0, 0, 1, 2, 4, 0, 0>> ELSE <<>>)

\* The blocks of a scan's frame, one after the other.
ScanBlocks(s, fastId) ==
    LET Blocks[i \in 0..Len(s)] ==
            IF i = 0 THEN <<>> ELSE Blocks[i - 1] \o Block(s[i], fastId, FALSE)
    IN Blocks[Len(s)]

\* A tag has an EPC and a TID of fixed length, and the six bits of a block's
\* length and the length of the frame can tell how long its content is.
ASSUME ReaderAssumption ==
    /\ \A o \in Options : o.adr \in Byte /\ o.antennaCount \in 1..MAX_ANTENNA
    /\ \A s \in Scans :
        /\ s \in Seq([epc : Seq(Byte), tid : Seq(Byte)])
        /\ Len(s) \in Byte
        /\ \A i \in DOMAIN s :
            /\ Len(s[i].epc) \in 1..(63 - FAST_ID_TID_LEN)
            /\ Len(s[i].tid) = FAST_ID_TID_LEN
        /\ \A fastId \in BOOLEAN : Len(ScanBlocks(s, fastId)) <= 248

Seen(t, fastId, on) ==
    [epc |-> t.epc, tid |-> IF fastId THEN t.tid ELSE <<>>,
     antenna |-> IF on = {} THEN 0 ELSE CHOOSE a \in on : \A b \in on : b <= a]

Send(bytes, tags, lev) ==
    /\ Len(sent) < MaxFrames
    /\ sent' = Append(sent, [bytes |-> bytes, tags |-> tags, level |-> lev])
    /\ line' = line \o bytes

\* A scan's frame with the tags in s.
AnswerInventory(fastId, s, on, status) ==
    Send(Response(INVENTORY, status, <<AntennaByte(on), Len(s)>> \o ScanBlocks(s, fastId)),
         [i \in DOMAIN s |-> Seen(s[i], fastId, on)], "none")

AnswerGpio(high) ==
    Send(Response(GPIO_GET, 0, <<Flag(high, 0) + Flag(~high, 4) + 32>>), <<>>,
         IF high THEN "high" ELSE "low")

ReadNothing ==
    /\ got' = <<>>
    /\ reports' = <<>>
    /\ level' = "none"

Quiet == ReadNothing /\ UNCHANGED <<faults, aligned, opts>>

\* A reader that takes the command sends a frame, or is silent.
Answer(cmd) ==
    \/ UNCHANGED <<line, sent>>
    \/ /\ cmd[3] = INVENTORY
       /\ \E on \in Antennas, status \in {ST_DONE, ST_MORE}, s \in Scans :
              AnswerInventory(Bit(cmd[4], 5), s, on, status)
    \/ /\ cmd[3] = GPIO_GET
       /\ \E high \in BOOLEAN : AnswerGpio(high)
    \/ /\ cmd[3] = SET_WORK_MODE
       /\ Send(Response(SET_WORK_MODE, 0, <<>>), <<>>, "none")

\* A reader in real-time mode pushes a tag or a heartbeat; or it is at the
\* end of a scan and sends a statistic packet.
Push ==
    /\ \/ \E s \in Scans, on \in Antennas, phase \in BOOLEAN :
            /\ Len(s) = 1
            /\ Send(Response(REALTIME, RT_TAG, <<AntennaByte(on)>> \o Block(s[1], FALSE, phase)),
                    <<Seen(s[1], FALSE, on)>>, "none")
       \/ Send(Response(REALTIME, RT_HEARTBEAT, <<0, 0, 0, 1, 0, 0, 0, 0, 9>>), <<>>, "none")
       \/ Send(Response(INVENTORY, ST_STATISTIC, <<1, 0, 4, 0, 0, 0, 4>>), <<>>, "none")
    /\ pc' = pc
    /\ Quiet

-----------------------------------------------------------------------------
(* The worker. *)

\* It writes a command, or building the inventory command raises.
Write(cmd, next) ==
    /\ pc = "idle"
    /\ IF cmd = ValueError THEN pc' = "raised" /\ UNCHANGED <<line, sent>>
       ELSE pc' = next /\ Answer(cmd)
    /\ Quiet

WriteInventory == Write(BuildInventory(opts), "drain")
WriteGpioGet == Write(BuildGpioGet(opts.adr), "query")
WriteSetWorkMode == Write(BuildSetWorkMode(MODE_ANSWERING, opts.adr), "ignore")

\* _drain_inventory: what it yields of a frame, and whether it reads on.
Drain(frame) ==
    LET resp == ParseFrame(frame)
        tags == ParseInventory(resp.data, opts.antennaCount)
        tag == ParseRealtimeTag(resp.data, opts.antennaCount)
        Yield(s, next) == [tags |-> s, next |-> next]
    IN IF resp = ProtocolError THEN Yield(<<>>, "idle")
       ELSE IF resp.reCmd = REALTIME
       THEN Yield(IF resp.status = RT_TAG /\ tag # ProtocolError THEN <<tag.tag>> ELSE <<>>, "drain")
       ELSE IF resp.reCmd = INVENTORY /\ resp.status \in TagStatuses /\ tags # ProtocolError
       THEN Yield(tags.tags, IF resp.status = ST_MORE THEN "drain" ELSE "idle")
       ELSE Yield(<<>>, "idle")

\* _query_gpio: the level of IN1 that a frame reports.
Query(frame) ==
    LET resp == ParseFrame(frame)
        status == ParseGpioStatus(resp.data)
    IN IF \/ resp = ProtocolError
          \/ resp.reCmd # GPIO_GET \/ resp.status # 0
          \/ status = ProtocolError
       THEN "none"
       ELSE IF status.in1High THEN "high" ELSE "low"

Reading == pc \in {"drain", "query", "ignore"}

\* Whether a frame that starts the line has come completely.
Whole(bytes) == bytes # <<>> /\ Len(bytes) > bytes[1]

\* _read_frame returns a frame: Len, and as many bytes as Len says.
ReadFrame ==
    /\ Reading
    /\ Whole(line)
    /\ got' = SubSeq(line, 1, line[1] + 1)
    /\ line' = SubSeq(line, line[1] + 2, Len(line))
    /\ reports' = IF pc = "drain" THEN Drain(got').tags ELSE <<>>
    /\ level' = IF pc = "query" THEN Query(got') ELSE "none"
    /\ pc' = IF pc = "drain" THEN Drain(got').next ELSE "idle"
    /\ UNCHANGED <<opts, sent, faults, aligned>>

NoFrame ==
    /\ ReadNothing
    /\ pc' = "idle"
    /\ UNCHANGED <<opts, sent>>

\* Bug: what came of a frame stays at the port when the read times out.
BugTimeOutKeeps ==
    /\ Reading
    /\ ~Whole(line)
    /\ aligned' = TRUE
    /\ UNCHANGED <<line, faults>>
    /\ NoFrame

\* The line is quiet: _read_exact gives up, with what came dropped.
TimeOut ==
    /\ Reading
    /\ ~Whole(line)
    /\ line' = <<>>
    /\ aligned' = TRUE
    /\ faults' = faults
    /\ NoFrame

\* The deadline passes while the rest of a frame is still to come.
TimeOutWithin ==
    /\ Reading
    /\ faults < MaxFaults
    /\ \E n \in 1..(Len(line) - 1) :
        /\ ~Whole(SubSeq(line, 1, n))
        /\ line' = SubSeq(line, n + 1, Len(line))
    /\ faults' = faults + 1
    /\ aligned' = FALSE
    /\ NoFrame

-----------------------------------------------------------------------------
(***************************************************************************)
(* Noise: a byte is garbled, lost, or too many.  It hits what is read      *)
(* next; what it could do to a later byte it can do later.                 *)
(***************************************************************************)
Upcoming == IF Whole(line) THEN 1..(line[1] + 1) ELSE DOMAIN line

\* Byte b with the bits in flip inverted.
Garbled(b, flip) == CHOOSE c \in Byte : BitsOf(c) = Xor(BitsOf(b), flip)

Noise ==
    /\ Reading
    /\ faults < MaxFaults
    /\ \E i \in Upcoming :
        \/ \E flip \in Flips : line' = [line EXCEPT ![i] = Garbled(@, flip)]
        \/ line' = SubSeq(line, 1, i - 1) \o SubSeq(line, i + 1, Len(line))
        \/ \E b \in Inserts : line' = SubSeq(line, 1, i - 1) \o <<b>> \o SubSeq(line, i, Len(line))
    /\ faults' = faults + 1
    /\ aligned' = FALSE
    /\ ReadNothing
    /\ UNCHANGED <<opts, pc, sent>>

Worker == WriteInventory \/ WriteGpioGet \/ WriteSetWorkMode \/ ReadFrame \/ TimeOut \/ TimeOutWithin
Next == Worker \/ Push \/ Noise

Spec == Init /\ [][Next]_vars

-----------------------------------------------------------------------------
SentFrame(bytes) == {i \in DOMAIN sent : sent[i].bytes = bytes}

(***************************************************************************)
(* A frame that parse_frame accepts is one that the reader sent: not one   *)
(* that noise changed, and not one that was cut from the middle of others  *)
(* after a byte was lost or a timeout had dropped the start of a frame.    *)
(***************************************************************************)
AcceptedWasSent == got # <<>> /\ ParseFrame(got) # ProtocolError => SentFrame(got) # {}

(***************************************************************************)
(* What the driver yields is what the reader saw: each tag of the frame,   *)
(* in order, with its EPC and TID apart and on the right antenna, and the  *)
(* level of IN1; or nothing, when the frame is not what it waits for.      *)
(***************************************************************************)
ReportsAsEncoded ==
    /\ reports # <<>> => \E i \in SentFrame(got) : reports = sent[i].tags
    /\ level # "none" => \E i \in SentFrame(got) : level = sent[i].level

(***************************************************************************)
(* A frame on a line that was quiet since the last fault is accepted, and  *)
(* its tags are yielded when the driver drains: a timeout on a quiet line  *)
(* brings the driver back to the start of a frame, whatever it had read.   *)
(***************************************************************************)
QuietRealigns == [][aligned /\ got' # <<>> =>
    \E i \in SentFrame(got') : pc = "drain" => reports' = sent[i].tags]_vars
=============================================================================
