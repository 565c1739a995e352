-------------------------- MODULE WyuanReaderProofs --------------------------
(***************************************************************************)
(* Theorems about WyuanReader for every number of frames in a scan, every  *)
(* number of faults and every size of the serial buffers.                  *)
(***************************************************************************)
EXTENDS WyuanReader, SequenceTheorems, TLAPS

Commands == {"setMode", "gpioGet", "inventory"}

-----------------------------------------------------------------------------
(* The serial buffers. *)

\* A full buffer loses what is written to it.
LEMMA BufferedIs ==
  ASSUME NEW S, NEW q \in Seq(S), NEW x \in S
  PROVE  /\ Buffered(q, x) \in Seq(S)
         /\ Buffered(q, x) = q \/ Buffered(q, x) = Append(q, x)
BY AppendProperties DEF Buffered

-----------------------------------------------------------------------------
(* Types, in two parts: the provers treat truth values apart. *)

Switches ==
    /\ gpiTrigger \in BOOLEAN /\ stop \in BOOLEAN /\ pin \in BOOLEAN
    /\ tagged \in BOOLEAN /\ window \in BOOLEAN /\ odd \in BOOLEAN /\ clean \in BOOLEAN

Values ==
    /\ pc \in {"start", "modeReply", "loop", "query", "scan", "drain", "ended"}
    /\ last \in Levels \union {"none"}
    /\ yields \in {"nothing", "edge", "tag"}
    /\ device \in {"answering", "realtime"}
    /\ left \in 0..(MaxMore + 1)
    /\ cmds \in Seq(Commands)
    /\ line \in Seq(Frames)
    /\ faults \in 0..MaxFaults

LEMMA TypeParts == TypeOK <=> Switches /\ Values
BY DEF TypeOK, Switches, Values, Commands

LEMMA InitTypeOK == Init => Switches /\ Values
<1>1. Init => Switches
  BY DEF Init, Switches
<1>2. Init => Values
  BY WyuanAssumption DEF Init, Values
<1> QED BY <1>1, <1>2

LEMMA NextSwitches == Switches /\ [Next]_vars => Switches'
<1> SUFFICES ASSUME Switches, [Next]_vars PROVE Switches'
  OBVIOUS
<1> USE DEF Switches, NoEdge, world, channel, trouble, host
<1>1. CASE QueryLevel
  BY <1>1 DEF QueryLevel, ReadFrame
<1>2. CASE SetWorkMode \/ Poll \/ Scan \/ End
  BY <1>2 DEF SetWorkMode, Poll, Scan, End
<1>3. CASE IgnoreReply \/ QueryNone \/ DrainReturns
  BY <1>3 DEF IgnoreReply, QueryNone, DrainReturns, TimeOut, ReadFrame
<1>4. CASE DrainContinues
  BY <1>4 DEF DrainContinues, ReadFrame
<1>5. CASE Device \/ Push
  BY <1>5 DEF Device, ObeyMode, AnswerLevel, StartScan, ScanFrame, Ignore, Push, Take
<1>6. CASE Garble \/ LoseCommand \/ AnswerLate
  BY <1>6 DEF Garble, LoseCommand, AnswerLate, Fault
<1>7. CASE PinMoves
  BY <1>7 DEF PinMoves
<1>8. CASE Stop
  BY <1>8 DEF Stop
<1>9. CASE UNCHANGED vars
  BY <1>9 DEF vars
<1> QED BY <1>1, <1>2, <1>3, <1>4, <1>5, <1>6, <1>7, <1>8, <1>9 DEF Next, Worker

\* A read takes the oldest frame, or runs into the timeout and changes nothing.
LEMMA ReadValues ==
  ASSUME Values, TimeOut \/ (cmds' = cmds /\ \E f \in Frames : ReadFrame(f))
  PROVE  /\ device' = device /\ left' = left /\ faults' = faults
         /\ cmds' \in Seq(Commands) /\ line' \in Seq(Frames)
<1>1. CASE TimeOut
  BY <1>1 DEF Values, TimeOut, channel, trouble
<1>2. CASE cmds' = cmds /\ \E f \in Frames : ReadFrame(f)
  BY <1>2 DEF Values, ReadFrame, trouble
<1> QED BY <1>1, <1>2

LEMMA WorkerValues ==
  ASSUME Values, Worker
  PROVE  Values'
<1>1. /\ Buffered(cmds, "setMode") \in Seq(Commands)
      /\ Buffered(cmds, "gpioGet") \in Seq(Commands)
      /\ Buffered(cmds, "inventory") \in Seq(Commands)
  BY BufferedIs DEF Commands, Values
<1> USE DEF Goto, NoEdge
<1>2. CASE SetWorkMode
  BY <1>1, <1>2 DEF SetWorkMode, Write, Values, trouble
<1>3. CASE IgnoreReply
  <2>1. pc' = "loop" /\ yields' = "nothing" /\ last' = last
    BY <1>3 DEF IgnoreReply
  <2> QED BY <1>3, <2>1, ReadValues DEF IgnoreReply, Values
<1>4. CASE Poll
  BY <1>1, <1>4 DEF Poll, Write, Values, trouble
<1>5. CASE QueryLevel
  BY <1>5 DEF QueryLevel, ReadFrame, Values, trouble
<1>6. CASE QueryNone
  <2>1. pc' = "loop" /\ yields' = "nothing" /\ last' = last
    BY <1>6 DEF QueryNone
  <2> QED BY <1>6, <2>1, ReadValues DEF QueryNone, Values
<1>7. CASE Scan
  BY <1>1, <1>7 DEF Scan, Write, Values, trouble
<1>8. CASE DrainContinues
  BY <1>8 DEF DrainContinues, ReadFrame, Values, trouble
<1>9. CASE DrainReturns
  <2>1. pc' = "loop" /\ yields' \in {"nothing", "tag"} /\ last' = last
    BY <1>9 DEF DrainReturns
  <2> QED BY <1>9, <2>1, ReadValues DEF DrainReturns, Values
<1>10. CASE End
  BY <1>10 DEF End, Values, channel, trouble
<1> QED BY <1>2, <1>3, <1>4, <1>5, <1>6, <1>7, <1>8, <1>9, <1>10 DEF Worker

LEMMA DeviceValues ==
  ASSUME Values, Device \/ Push
  PROVE  Values'
<1> USE DEF Values, host, trouble
<1>1. \A f \in Frames : Buffered(line, f) \in Seq(Frames)
  BY BufferedIs
<1>2. CASE ObeyMode
  BY <1>1, <1>2 DEF ObeyMode, Take, Reply, Frames
<1>3. CASE AnswerLevel
  BY <1>1, <1>3 DEF AnswerLevel, Take, Reply, Frames, Levels
<1>4. CASE StartScan
  BY <1>4, WyuanAssumption DEF StartScan, Take
<1>5. CASE ScanFrame
  BY <1>1, <1>5, WyuanAssumption DEF ScanFrame, Reply, Frames
<1>6. CASE Ignore
  BY <1>6 DEF Ignore, Take
<1>7. CASE Push
  BY <1>1, <1>7 DEF Push, Reply, Frames
<1> QED BY <1>2, <1>3, <1>4, <1>5, <1>6, <1>7 DEF Device

LEMMA NextValues == Values /\ [Next]_vars => Values'
<1> SUFFICES ASSUME Values, [Next]_vars PROVE Values'
  OBVIOUS
<1>1. CASE Worker
  BY <1>1, WorkerValues
<1>2. CASE Device \/ Push
  BY <1>2, DeviceValues
<1>3. CASE Garble
  <2>1. line' = [line EXCEPT ![Len(line)] = "bad"] /\ line \in Seq(Frames) /\ "bad" \in Frames
    BY <1>3 DEF Garble, Values, Frames
  <2>2. Len(line) \in 1..Len(line)
    BY <1>3 DEF Garble, Values
  <2>3. line' \in Seq(Frames)
    BY <2>1, <2>2, ExceptSeq
  <2> QED BY <1>3, <2>3, WyuanAssumption DEF Garble, Fault, Values, host
<1>4. CASE LoseCommand
  BY <1>4, WyuanAssumption DEF LoseCommand, Fault, Values, host
<1>5. CASE AnswerLate
  BY <1>5, WyuanAssumption DEF AnswerLate, Fault, Goto, NoEdge, Values, channel
<1>6. CASE PinMoves
  BY <1>6 DEF PinMoves, Values, host, channel, trouble
<1>7. CASE Stop
  BY <1>7 DEF Stop, Values, host, channel, trouble
<1>8. CASE UNCHANGED vars
  BY <1>8 DEF vars, Values
<1> QED BY <1>1, <1>2, <1>3, <1>4, <1>5, <1>6, <1>7, <1>8 DEF Next

(***************************************************************************)
(* Every variable of the worker, the line and the device stays in its type.*)
(***************************************************************************)
THEOREM ReaderTypeCorrect == Spec => []TypeOK
BY InitTypeOK, NextSwitches, NextValues, TypeParts, PTL DEF Spec

-----------------------------------------------------------------------------
(***************************************************************************)
(* The window follows the level seen last, and inventory is only asked for *)
(* while it is open: what the gated loop knows where it stands.            *)
(***************************************************************************)
WindowInv ==
    /\ pc \in {"start", "modeReply", "query", "scan"} => gpiTrigger
    /\ gpiTrigger /\ pc \in {"scan", "drain"} => window
    /\ TagsInWindow
    /\ EdgesAlternate
    /\ ~gpiTrigger => last = "none"

LEMMA InitWindowInv == Init => WindowInv
BY DEF Init, WindowInv, TagsInWindow, EdgesAlternate

LEMMA NextWindowInv == Switches /\ Values /\ WindowInv /\ [Next]_vars => WindowInv'
<1> SUFFICES ASSUME Switches, Values, WindowInv, [Next]_vars PROVE WindowInv'
  OBVIOUS
<1> USE DEF WindowInv, TagsInWindow, EdgesAlternate, Goto, NoEdge
<1>1. CASE SetWorkMode \/ Poll
  BY <1>1 DEF SetWorkMode, Poll, world
<1>2. CASE IgnoreReply \/ QueryNone
  <2>1. /\ pc' = "loop" /\ yields' = "nothing" /\ gpiTrigger' = gpiTrigger
        /\ UNCHANGED <<last, window, odd>>
    BY <1>2 DEF IgnoreReply, QueryNone, TimeOut, ReadFrame, world
  <2> QED BY <2>1
<1>3. CASE QueryLevel
  <2>1. PICK level \in Levels :
          /\ last' = level /\ gpiTrigger' = gpiTrigger /\ pc = "query"
          /\ IF IsEdge(level) THEN window' = (level = "active") /\ odd' = ~odd
                              ELSE UNCHANGED <<window, odd>>
          /\ pc' = (IF level = "active" THEN "scan" ELSE "loop")
          /\ yields' \in {"edge", "nothing"}
    BY <1>3 DEF QueryLevel, ReadFrame, world
  <2>2. gpiTrigger /\ window = odd /\ window = (last = "active")
    BY <2>1
  <2>3. last \in {"none", "active", "idle"} /\ level \in {"active", "idle"}
    BY DEF Values, Levels
  <2>4. window' = (level = "active") /\ window' = odd'
    <3>1. CASE IsEdge(level)
      BY <2>1, <2>2, <2>3, <3>1 DEF IsEdge, Switches
    <3>2. CASE ~IsEdge(level)
      BY <2>1, <2>2, <2>3, <3>2 DEF IsEdge, Switches
    <3> QED BY <3>1, <3>2
  <2> QED BY <2>1, <2>2, <2>4
<1>4. CASE Scan
  BY <1>4 DEF Scan, world
<1>5. CASE DrainContinues
  <2>1. /\ pc = "drain" /\ pc' \in {"loop", "drain"} /\ gpiTrigger' = gpiTrigger
        /\ UNCHANGED <<last, window, odd>>
    BY <1>5 DEF DrainContinues, ReadFrame, world
  <2> QED BY <2>1
<1>6. CASE DrainReturns
  <2>1. /\ pc = "drain" /\ pc' = "loop" /\ gpiTrigger' = gpiTrigger
        /\ UNCHANGED <<last, window, odd>>
    BY <1>6 DEF DrainReturns, TimeOut, ReadFrame, world
  <2> QED BY <2>1
<1>7. CASE End \/ AnswerLate
  BY <1>7 DEF End, AnswerLate, world
<1>8. CASE UNCHANGED <<gpiTrigger, host>>
  BY <1>8 DEF host
<1>9. CASE Device \/ Push \/ Garble \/ LoseCommand \/ PinMoves \/ Stop
  BY <1>8, <1>9 DEF Device, ObeyMode, AnswerLevel, StartScan, ScanFrame, Ignore, Take, Push,
                    Garble, LoseCommand, PinMoves, Stop, world
<1>10. CASE UNCHANGED vars
  BY <1>8, <1>10 DEF vars, host
<1> QED BY <1>1, <1>2, <1>3, <1>4, <1>5, <1>6, <1>7, <1>9, <1>10 DEF Next, Worker

(***************************************************************************)
(* No tag outside a window, whatever the line does.                        *)
(***************************************************************************)
THEOREM TagsBracketed == Spec => []TagsInWindow
<1>1. WindowInv => TagsInWindow
  BY DEF WindowInv
<1> QED BY InitTypeOK, NextSwitches, NextValues, InitWindowInv, NextWindowInv, <1>1, PTL DEF Spec

(***************************************************************************)
(* Edges alternate, the active one first, whatever the line does.          *)
(***************************************************************************)
THEOREM EdgesInTurn == Spec => []EdgesAlternate
<1>1. WindowInv => EdgesAlternate
  BY DEF WindowInv
<1> QED BY InitTypeOK, NextSwitches, NextValues, InitWindowInv, NextWindowInv, <1>1, PTL DEF Spec

-----------------------------------------------------------------------------
(***************************************************************************)
(* What the line holds of the running exchange, as long as there was no    *)
(* fault and no stop: nothing; or one command, or its reply; or a command  *)
(* for a scan, or frames of the scan of which only the last is no "more".  *)
(***************************************************************************)
Quiet == cmds = <<>> /\ left = 0 /\ line = <<>>

Asked(cmd, replies) ==
    /\ left = 0
    /\ cmds = <<>> \/ (cmds = <<cmd>> /\ line = <<>>)
    /\ line = <<>> \/ \E f \in replies : line = <<f>>

Scanning ==
    /\ cmds = <<>> \/ (cmds = <<"inventory">> /\ left = 0 /\ line = <<>>)
    /\ \A i \in DOMAIN line : line[i] \in {"more", "tags", "empty"}
    /\ \A i \in DOMAIN line : line[i] # "more" => i = Len(line) /\ left = 0

Undisturbed == clean /\ ~stop

Paired ==
    Undisturbed =>
        /\ device = "answering"
        /\ pc # "ended"
        /\ pc \in {"start", "loop", "scan"} => Quiet
        /\ pc = "modeReply" => Asked("setMode", {"modeSet"})
        /\ pc = "query" => Asked("gpioGet", Levels)
        /\ pc = "drain" => Scanning

LEMMA InitPaired == Init => Paired
<1> SUFFICES ASSUME Init, Undisturbed
             PROVE  device = "answering" /\ pc \in {"start", "loop"} /\ Quiet
  BY DEF Paired
<1> QED BY DEF Init, Undisturbed, Quiet

\* What is written to a quiet line is in it, or lost.
LEMMA WriteQuiet ==
  ASSUME Quiet, NEW cmd \in Commands, Write(cmd)
  PROVE  cmds' = <<>> \/ cmds' = <<cmd>>
BY DEF Quiet, Write, Buffered

\* The frame read of an exchange with one reply ends it, and so does a timeout.
LEMMA ReplyRead ==
  ASSUME NEW cmd \in Commands, NEW replies \in SUBSET Frames, Values, Asked(cmd, replies),
         TimeOut \/ (cmds' = cmds /\ \E f \in Frames : ReadFrame(f))
  PROVE  Quiet' /\ device' = device
<1>1. CASE TimeOut
  BY <1>1 DEF TimeOut, Owed, Asked, Quiet, channel, Values
<1>2. CASE cmds' = cmds /\ \E f \in Frames : ReadFrame(f)
  <2>1. line # <<>> /\ line' = Tail(line) /\ left' = left /\ device' = device
    BY <1>2 DEF ReadFrame
  <2>2. PICK f \in replies : line = <<f>>
    BY <2>1 DEF Asked
  <2>3. line' = <<>>
    BY <2>1, <2>2
  <2>4. cmds' = <<>> /\ left' = 0
    BY <1>2, <2>1 DEF Asked
  <2> QED BY <2>1, <2>3, <2>4 DEF Quiet
<1> QED BY <1>1, <1>2

LEMMA WorkerPaired ==
  ASSUME Values, Paired, Undisturbed, Worker
  PROVE  Paired'
<1> USE DEF Goto
<1>1. device = "answering" /\ pc # "ended"
  BY DEF Paired
<1>2. CASE SetWorkMode
  <2>1. /\ pc = "start" /\ Write("setMode") /\ pc' = "modeReply"
        /\ UNCHANGED <<device, left, line>>
    BY <1>2 DEF SetWorkMode
  <2>2. Quiet
    BY <2>1 DEF Paired
  <2>3. cmds' = <<>> \/ cmds' = <<"setMode">>
    BY <2>1, <2>2, WriteQuiet DEF Commands
  <2>4. Asked("setMode", {"modeSet"})'
    BY <2>1, <2>2, <2>3 DEF Quiet, Asked
  <2> QED BY <1>1, <2>1, <2>4 DEF Paired
<1>3. CASE IgnoreReply
  <2>1. /\ pc = "modeReply" /\ pc' = "loop"
        /\ TimeOut \/ (cmds' = cmds /\ \E f \in Frames : ReadFrame(f))
    BY <1>3 DEF IgnoreReply
  <2>2. Asked("setMode", {"modeSet"})
    BY <2>1 DEF Paired
  <2>3. Quiet' /\ device' = device
    BY <2>1, <2>2, ReplyRead DEF Commands, Frames
  <2> QED BY <1>1, <2>1, <2>3 DEF Paired
<1>4. CASE Poll
  <2>1. /\ pc = "loop" /\ UNCHANGED <<device, left, line>>
        /\ \/ Write("gpioGet") /\ pc' = "query"
           \/ Write("inventory") /\ pc' = "drain"
    BY <1>4 DEF Poll
  <2>2. Quiet
    BY <2>1 DEF Paired
  <2>3. CASE Write("gpioGet") /\ pc' = "query"
    <3>1. cmds' = <<>> \/ cmds' = <<"gpioGet">>
      BY <2>2, <2>3, WriteQuiet DEF Commands
    <3>2. Asked("gpioGet", Levels)'
      BY <2>1, <2>2, <3>1 DEF Quiet, Asked
    <3> QED BY <1>1, <2>1, <2>3, <3>2 DEF Paired
  <2>4. CASE Write("inventory") /\ pc' = "drain"
    <3>1. cmds' = <<>> \/ cmds' = <<"inventory">>
      BY <2>2, <2>4, WriteQuiet DEF Commands
    <3>2. Scanning'
      BY <2>1, <2>2, <3>1 DEF Quiet, Scanning
    <3> QED BY <1>1, <2>1, <2>4, <3>2 DEF Paired
  <2> QED BY <2>1, <2>3, <2>4
<1>5. CASE QueryLevel \/ QueryNone
  <2>1. /\ pc = "query" /\ pc' \in {"scan", "loop"}
        /\ TimeOut \/ (cmds' = cmds /\ \E f \in Frames : ReadFrame(f))
    BY <1>5 DEF QueryLevel, QueryNone, Frames
  <2>2. Asked("gpioGet", Levels)
    BY <2>1 DEF Paired
  <2>3. Quiet' /\ device' = device
    BY <2>1, <2>2, ReplyRead DEF Commands, Frames
  <2> QED BY <1>1, <2>1, <2>3 DEF Paired
<1>6. CASE Scan
  <2>1. /\ pc = "scan" /\ Write("inventory") /\ pc' = "drain"
        /\ UNCHANGED <<device, left, line>>
    BY <1>6 DEF Scan, Undisturbed
  <2>2. Quiet
    BY <2>1 DEF Paired
  <2>3. cmds' = <<>> \/ cmds' = <<"inventory">>
    BY <2>1, <2>2, WriteQuiet DEF Commands
  <2>4. Scanning'
    BY <2>1, <2>2, <2>3 DEF Quiet, Scanning
  <2> QED BY <1>1, <2>1, <2>4 DEF Paired
<1>7. CASE DrainContinues \/ DrainReturns
  <2>1. pc = "drain" /\ Scanning
    BY <1>7 DEF DrainContinues, DrainReturns, Paired
  <2>2. CASE TimeOut /\ pc' = "loop"
    <3>1. Quiet' /\ device' = device
      BY <2>1, <2>2 DEF TimeOut, Owed, Scanning, Quiet, channel, Values
    <3> QED BY <1>1, <2>2, <3>1 DEF Paired
  <2>3. ASSUME NEW f \in Frames, ReadFrame(f), cmds' = cmds, pc' \in {"loop", "drain"},
               f # "more" => pc' = "loop" \/ f \in {"push", "heartbeat"},
               f = "more" => pc' = "drain"
        PROVE  Paired'
    <3>1. /\ line # <<>> /\ f = line[1] /\ line' = Tail(line) /\ line \in Seq(Frames)
          /\ left' = left /\ device' = device
      BY <2>3 DEF ReadFrame, Values
    <3>2. /\ Len(line) \in Nat \ {0} /\ DOMAIN line = 1..Len(line) /\ Len(line') = Len(line) - 1
          /\ DOMAIN line' = 1..(Len(line) - 1)
          /\ \A i \in 1..(Len(line) - 1) : line'[i] = line[i + 1]
      BY <3>1
    <3>3. 1 \in DOMAIN line /\ cmds' = <<>>
      BY <2>1, <2>3, <3>1, <3>2 DEF Scanning
    <3>4. f \in {"more", "tags", "empty"} /\ (f # "more" => Len(line) = 1 /\ left = 0)
      BY <2>1, <3>1, <3>3 DEF Scanning
    <3>5. CASE f = "more"
      <4>1. \A i \in DOMAIN line' : i + 1 \in DOMAIN line /\ line'[i] = line[i + 1]
        BY <3>2
      <4>2. \A i \in DOMAIN line' : line'[i] \in {"more", "tags", "empty"}
        BY <2>1, <4>1 DEF Scanning
      <4>3. ASSUME NEW i \in DOMAIN line', line'[i] # "more"
            PROVE  i = Len(line') /\ left' = 0
        <5>1. i + 1 = Len(line) /\ left = 0
          BY <2>1, <4>1, <4>3 DEF Scanning
        <5> QED BY <3>1, <3>2, <5>1
      <4>4. Scanning'
        BY <3>3, <4>2, <4>3 DEF Scanning
      <4> QED BY <1>1, <2>3, <3>1, <3>5, <4>4 DEF Paired
    <3>6. CASE f # "more"
      <4>1. line' = <<>> /\ left' = 0
        BY <3>1, <3>2, <3>4, <3>6
      <4>2. Quiet' /\ pc' = "loop"
        BY <2>3, <3>3, <3>4, <3>6, <4>1 DEF Quiet
      <4> QED BY <1>1, <3>1, <4>2 DEF Paired
    <3> QED BY <3>5, <3>6
  <2>4. CASE DrainContinues
    <3>1. PICK f \in {"push", "heartbeat", "more"} : ReadFrame(f) /\ cmds' = cmds /\ pc' = "drain"
      BY <2>4 DEF DrainContinues, Undisturbed
    <3> QED BY <2>3, <3>1 DEF Frames
  <2>5. CASE DrainReturns
    <3>1. CASE TimeOut
      BY <2>2, <2>5, <3>1 DEF DrainReturns
    <3>2. CASE ~TimeOut
      <4>1. PICK f \in Frames \ {"push", "heartbeat", "more"} :
              ReadFrame(f) /\ cmds' = cmds /\ pc' = "loop"
        BY <2>5, <3>2 DEF DrainReturns
      <4> QED BY <2>3, <4>1
    <3> QED BY <3>1, <3>2
  <2> QED BY <1>7, <2>4, <2>5
<1>8. CASE End
  BY <1>8 DEF End, Undisturbed
<1> QED BY <1>2, <1>3, <1>4, <1>5, <1>6, <1>7, <1>8 DEF Worker

\* The device takes the one command, and its frames follow each other.
LEMMA DevicePaired ==
  ASSUME Values, Paired, Undisturbed, Device \/ Push
  PROVE  Paired'
<1>1. /\ device = "answering"
      /\ pc \in {"start", "loop", "scan"} => Quiet
      /\ pc = "modeReply" => Asked("setMode", {"modeSet"})
      /\ pc = "query" => Asked("gpioGet", Levels)
      /\ pc = "drain" => Scanning
      /\ pc \in {"start", "modeReply", "loop", "query", "scan", "drain"}
  BY DEF Paired, Values
<1>2. CASE Push \/ Ignore
  BY <1>1, <1>2 DEF Push, Ignore
<1>3. ASSUME NEW cmd \in Commands, cmds # <<>>, Head(cmds) = cmd, cmds' = Tail(cmds)
      PROVE  /\ cmds = <<cmd>> /\ cmds' = <<>> /\ line = <<>> /\ left = 0
             /\ cmd = "setMode" => pc = "modeReply"
             /\ cmd = "gpioGet" => pc = "query"
             /\ cmd = "inventory" => pc = "drain"
  <2>1. PICK asked \in Commands :
          /\ cmds = <<asked>> /\ line = <<>> /\ left = 0
          /\ asked = "setMode" => pc = "modeReply"
          /\ asked = "gpioGet" => pc = "query"
          /\ asked = "inventory" => pc = "drain"
    BY <1>1, <1>3 DEF Quiet, Asked, Scanning, Commands
  <2>2. Head(<<asked>>) = asked /\ Tail(<<asked>>) = <<>>
    OBVIOUS
  <2>3. asked = cmd /\ cmds' = <<>>
    BY <1>3, <2>1, <2>2
  <2> QED BY <2>1, <2>3
<1>4. CASE ObeyMode
  <2>1. /\ cmds # <<>> /\ Head(cmds) = "setMode" /\ cmds' = Tail(cmds)
        /\ device' = "answering" /\ left' = left /\ line' = Buffered(line, "modeSet") /\ pc' = pc
    BY <1>4 DEF ObeyMode, Take, Reply, host
  <2>2. cmds' = <<>> /\ line = <<>> /\ left = 0 /\ pc = "modeReply"
    BY <1>3, <2>1 DEF Commands
  <2>3. line' = <<>> \/ line' = <<"modeSet">>
    BY <2>1, <2>2 DEF Buffered
  <2> QED BY <2>1, <2>2, <2>3 DEF Paired, Asked
<1>5. CASE AnswerLevel
  <2>1. PICK level \in Levels :
          /\ cmds # <<>> /\ Head(cmds) = "gpioGet" /\ cmds' = Tail(cmds)
          /\ device' = device /\ left' = left /\ line' = Buffered(line, level) /\ pc' = pc
    BY <1>5 DEF AnswerLevel, Take, Reply, host, Levels
  <2>2. cmds' = <<>> /\ line = <<>> /\ left = 0 /\ pc = "query"
    BY <1>3, <2>1 DEF Commands
  <2>3. line' = <<>> \/ line' = <<level>>
    BY <2>1, <2>2 DEF Buffered
  <2> QED BY <1>1, <2>1, <2>2, <2>3 DEF Paired, Asked
<1>6. CASE StartScan
  <2>1. /\ cmds # <<>> /\ Head(cmds) = "inventory" /\ cmds' = Tail(cmds)
        /\ device' = device /\ line' = line /\ pc' = pc
    BY <1>6 DEF StartScan, Take, host
  <2>2. cmds' = <<>> /\ line = <<>> /\ pc = "drain"
    BY <1>3, <2>1 DEF Commands
  <2>3. Scanning'
    BY <2>1, <2>2 DEF Scanning
  <2> QED BY <1>1, <2>1, <2>2, <2>3 DEF Paired
<1>7. CASE ScanFrame
  <2>1. /\ left > 0 /\ left \in Nat /\ line \in Seq(Frames)
        /\ cmds' = cmds /\ device' = device /\ pc' = pc
        /\ \/ left' = left - 1 /\ left > 1 /\ line' = Buffered(line, "more")
           \/ left' = left - 1 /\ left = 1 /\ line' = Buffered(line, "tags")
           \/ left' = 0 /\ line' = Buffered(line, "empty")
    BY <1>7, WyuanAssumption DEF ScanFrame, Reply, host, Values
  <2>2. pc = "drain" /\ Scanning /\ cmds = <<>>
    BY <1>1, <2>1 DEF Quiet, Asked, Scanning
  <2>3. \A i \in DOMAIN line : line[i] = "more"
    BY <2>1, <2>2 DEF Scanning
  <2>4. PICK f \in {"more", "tags", "empty"} :
          /\ line' = line \/ line' = Append(line, f)
          /\ f # "more" => left' = 0
    BY <2>1 DEF Buffered
  <2>5. CASE line' = line
    <3>1. Scanning'
      BY <2>1, <2>2, <2>3, <2>5 DEF Scanning
    <3> QED BY <1>1, <2>1, <2>2, <3>1 DEF Paired
  <2>6. CASE line' = Append(line, f)
    <3>1. /\ Len(line') = Len(line) + 1 /\ Len(line) \in Nat /\ DOMAIN line = 1..Len(line)
          /\ DOMAIN line' = 1..(Len(line) + 1) /\ line'[Len(line) + 1] = f
          /\ \A i \in 1..Len(line) : line'[i] = line[i]
      BY <2>1, <2>4, <2>6, AppendProperties DEF Frames
    <3>2. \A i \in DOMAIN line' : i = Len(line') \/ line'[i] = "more"
      BY <2>3, <3>1
    <3>3. Scanning'
      BY <2>1, <2>2, <2>4, <3>1, <3>2 DEF Scanning
    <3> QED BY <1>1, <2>1, <2>2, <3>3 DEF Paired
  <2> QED BY <2>4, <2>5, <2>6
<1> QED BY <1>2, <1>4, <1>5, <1>6, <1>7 DEF Device

\* Only the program and a fault disturb the exchange.
LEMMA KeepsDisturbance ==
  ASSUME Worker \/ Device \/ Push
  PROVE  stop' = stop /\ clean' = clean
<1> USE DEF world, trouble
<1>1. CASE QueryLevel
  BY <1>1 DEF QueryLevel, ReadFrame
<1>2. CASE SetWorkMode \/ Poll \/ Scan \/ End
  BY <1>2 DEF SetWorkMode, Poll, Scan, End
<1>3. CASE IgnoreReply \/ QueryNone \/ DrainReturns
  BY <1>3 DEF IgnoreReply, QueryNone, DrainReturns, TimeOut, ReadFrame
<1>4. CASE DrainContinues
  BY <1>4 DEF DrainContinues, ReadFrame
<1>5. CASE Device \/ Push
  BY <1>5 DEF Device, ObeyMode, AnswerLevel, StartScan, ScanFrame, Ignore, Push, Take
<1> QED BY <1>1, <1>2, <1>3, <1>4, <1>5 DEF Worker

LEMMA NextPaired == Switches /\ Values /\ Paired /\ [Next]_vars => Paired'
<1> SUFFICES ASSUME Switches, Values, Paired, [Next]_vars, Undisturbed' PROVE Paired'
  BY DEF Paired
<1>1. CASE Garble \/ LoseCommand \/ AnswerLate
  BY <1>1 DEF Garble, LoseCommand, AnswerLate, Fault, Undisturbed
<1>2. CASE Stop
  BY <1>2 DEF Stop, Undisturbed
<1>3. CASE UNCHANGED <<pc, channel, stop, clean>>
  <2>1. UNCHANGED <<pc, device, left, cmds, line>> /\ Undisturbed
    BY <1>3 DEF channel, Undisturbed
  <2>2. Quiet' = Quiet /\ Scanning' = Scanning
    BY <2>1 DEF Quiet, Scanning
  <2>3. Asked("setMode", {"modeSet"})' = Asked("setMode", {"modeSet"})
    BY <2>1 DEF Asked
  <2>4. Asked("gpioGet", Levels)' = Asked("gpioGet", Levels)
    BY <2>1 DEF Asked, Levels
  <2> QED BY <2>1, <2>2, <2>3, <2>4 DEF Paired
<1>4. CASE PinMoves \/ UNCHANGED vars
  BY <1>3, <1>4 DEF PinMoves, vars, host, channel, trouble
<1>5. CASE Worker
  <2>1. Undisturbed
    <3>1. stop' = stop /\ clean' = clean
      BY <1>5, KeepsDisturbance
    <3> QED BY <3>1 DEF Undisturbed
  <2> QED BY <1>5, <2>1, WorkerPaired
<1>6. CASE Device \/ Push
  <2>1. Undisturbed
    <3>1. stop' = stop /\ clean' = clean
      BY <1>6, KeepsDisturbance
    <3> QED BY <3>1 DEF Undisturbed
  <2> QED BY <1>6, <2>1, DevicePaired
<1> QED BY <1>1, <1>2, <1>4, <1>5, <1>6 DEF Next

(***************************************************************************)
(* Without a fault, nothing of an exchange is left when the loop is at its *)
(* top: the next reply read is the reply to the next command.              *)
(***************************************************************************)
THEOREM RepliesPaired == Spec => []InStep
<1>1. Values /\ Paired => InStep
  BY DEF Paired, Undisturbed, InStep, Quiet, Owed, Values
<1> QED BY InitTypeOK, NextSwitches, NextValues, InitPaired, NextPaired, <1>1, PTL DEF Spec
=============================================================================
