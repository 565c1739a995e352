----------------------------- MODULE WyuanReader -----------------------------
(***************************************************************************)
(* omnitag/drivers/wyuan/driver.py: the blocking loop that the worker      *)
(* thread of ThreadedDriver runs for a serial reader, frame by frame:      *)
(* polled inventory, or inventory gated by the input pin IN1.  The device, *)
(* the serial line and the pin are external: modelled as the driver and    *)
(* docs/wyuan-protocol.md use them.  The line is a queue of frames that    *)
(* nothing ever flushes; the model sees a level of IN1 as "active" or      *)
(* "idle" and a frame as what the driver can tell of it.                   *)
(***************************************************************************)
EXTENDS Naturals, Sequences

CONSTANTS
    Modes,      \* the working modes a reader may be found in at start
    MaxMore,    \* bound: how many ST_MORE frames precede a scan's last frame
    MaxFaults,  \* bound: how many times the serial line or a deadline fails
    MaxLine     \* what the serial buffer on either side holds; the rest is lost

ASSUME WyuanAssumption ==
    /\ Modes \subseteq {"answering", "realtime"}
    /\ MaxMore \in Nat /\ MaxFaults \in Nat /\ MaxLine \in Nat

VARIABLES
    gpiTrigger,  \* the constructor's gpi_trigger
    stop,        \* the stop event of ThreadedDriver
    pc,          \* where the worker is in the generator
    last,        \* last of _gated_loop: the level seen before
    yields,      \* what the worker's last step yielded
    window,      \* history: the last edge yielded was the active one
    odd,         \* history: an odd number of edges was yielded
    pin,         \* the level of IN1: TRUE is active
    tagged,      \* what passes the reader carries a readable tag
    device,      \* the device's working mode
    left,        \* how many frames the device's scan will still send
    cmds,        \* commands the device has not taken, oldest first
    line,        \* frames the worker has not read, oldest first
    faults,      \* how often the line failed
    clean        \* history: no fault, and the device was found answering

host    == <<pc, last, yields, window, odd>>
world   == <<gpiTrigger, stop, pin, tagged>>
channel == <<device, left, cmds, line>>
trouble == <<faults, clean>>
vars    == <<gpiTrigger, stop, pc, last, yields, window, odd, pin, tagged, device,
             left, cmds, line, faults, clean>>

-----------------------------------------------------------------------------
Levels == {"active", "idle"}                  \* replies to GPIO_GET
Frames == Levels \union
          { "modeSet",     \* reply to SET_WORK_MODE
            "more",        \* INVENTORY, ST_MORE: tags, and further frames
            "tags",        \* INVENTORY, last frame of a scan, with tags
            "empty",       \* INVENTORY, last frame of a scan, without tags
            "push",        \* REALTIME, RT_TAG
            "heartbeat",   \* REALTIME, RT_HEARTBEAT or a tag that does not parse
            "bad" }        \* fails parse_frame, or its payload's parser

Init ==
    /\ gpiTrigger \in BOOLEAN
    /\ stop = FALSE
    /\ pc = IF gpiTrigger THEN "start" ELSE "loop"
    /\ last = "none"
    /\ yields = "nothing"
    /\ window = FALSE
    /\ odd = FALSE
    /\ pin \in BOOLEAN
    /\ tagged \in BOOLEAN
    /\ device \in Modes
    /\ left = 0
    /\ cmds = <<>>
    /\ line = <<>>
    /\ faults = 0
    /\ clean = (device = "answering")

-----------------------------------------------------------------------------
(* The worker.  Every read of a frame may instead run into the timeout. *)

\* The device still owes a frame: a timeout now means that it answers late.
Owed == cmds # <<>> \/ left > 0

Goto(next, yielded) ==
    /\ pc' = next
    /\ yields' = yielded

NoEdge == UNCHANGED <<last, window, odd>>

Buffered(q, x) == IF Len(q) < MaxLine THEN Append(q, x) ELSE q

Write(cmd) == cmds' = Buffered(cmds, cmd)

\* _read_frame returns frame f.
ReadFrame(f) ==
    /\ line # <<>>
    /\ f = Head(line)
    /\ line' = Tail(line)
    /\ UNCHANGED <<world, device, left, trouble>>

\* _read_frame returns None, nothing being on its way.
TimeOut ==
    /\ line = <<>>
    /\ ~Owed
    /\ UNCHANGED <<world, channel, trouble>>

SetWorkMode ==
    /\ pc = "start"
    /\ Write("setMode")
    /\ Goto("modeReply", "nothing")
    /\ UNCHANGED <<world, device, left, line, trouble>> /\ NoEdge

\* Whatever is read first is taken for the reply and ignored.
IgnoreReply ==
    /\ pc = "modeReply"
    /\ Goto("loop", "nothing") /\ NoEdge
    /\ \/ TimeOut
       \/ /\ cmds' = cmds
          /\ \E f \in Frames : ReadFrame(f)

\* A bug: the stop event is only looked at while frames are drained.
BugPollNoStop ==
    /\ pc = "loop"
    /\ IF gpiTrigger
       THEN Write("gpioGet") /\ Goto("query", "nothing")
       ELSE Write("inventory") /\ Goto("drain", "nothing")
    /\ UNCHANGED <<world, device, left, line, trouble>> /\ NoEdge

\* The top of either loop, when the stop event is not set.
Poll ==
    /\ pc = "loop"
    /\ ~stop
    /\ IF gpiTrigger
       THEN Write("gpioGet") /\ Goto("query", "nothing")
       ELSE Write("inventory") /\ Goto("drain", "nothing")
    /\ UNCHANGED <<world, device, left, line, trouble>> /\ NoEdge

\* Bugs: the first level is never an edge; the first level is always one.
BugIsEdgeLate(level) == last \notin {"none", level}
BugIsEdgeEager(level) == level # last

\* The first level is an edge if it is active, a later one if it differs.
IsEdge(level) == IF last = "none" THEN level = "active" ELSE level # last

\* A bug: the level is remembered at the first poll only.
BugQueryLevelKeepsLast ==
    /\ pc = "query"
    /\ cmds' = cmds
    /\ \E level \in Levels :
        /\ ReadFrame(level)
        /\ last' = IF last = "none" THEN level ELSE last
        /\ IF IsEdge(level)
           THEN window' = (level = "active") /\ odd' = ~odd
           ELSE UNCHANGED <<window, odd>>
        /\ Goto(IF level = "active" THEN "scan" ELSE "loop",
                IF IsEdge(level) THEN "edge" ELSE "nothing")

QueryLevel ==
    /\ pc = "query"
    /\ cmds' = cmds
    /\ \E level \in Levels :
        /\ ReadFrame(level)
        /\ last' = level
        /\ IF IsEdge(level)
           THEN window' = (level = "active") /\ odd' = ~odd
           ELSE UNCHANGED <<window, odd>>
        /\ Goto(IF level = "active" THEN "scan" ELSE "loop",
                IF IsEdge(level) THEN "edge" ELSE "nothing")

\* The pin is active: inventory, unless the stop event came meanwhile.
Scan ==
    /\ pc = "scan"
    /\ Write("inventory")
    /\ Goto(IF stop THEN "loop" ELSE "drain", "nothing")
    /\ UNCHANGED <<world, device, left, line, trouble>> /\ NoEdge

\* A bug: what the reply is a reply to is not looked at.
BugQueryNoneTrusts ==
    /\ pc = "query"
    /\ cmds' = cmds
    /\ Goto("loop", "nothing")
    /\ UNCHANGED <<window, odd>>
    /\ \E f \in Frames : ReadFrame(f) /\ last' = f

\* _query_gpio returns None for every other frame and for a timeout.
QueryNone ==
    /\ pc = "query"
    /\ Goto("loop", "nothing") /\ NoEdge
    /\ \/ TimeOut
       \/ /\ cmds' = cmds
          /\ \E f \in Frames \ Levels : ReadFrame(f)

\* _drain_inventory: frames that keep it reading ...
DrainContinues ==
    /\ pc = "drain"
    /\ \E f \in {"push", "heartbeat", "more"} :
        /\ ReadFrame(f)
        /\ Goto(IF stop THEN "loop" ELSE "drain",
                IF f = "heartbeat" THEN "nothing" ELSE "tag")
    /\ cmds' = cmds /\ NoEdge

\* Bugs: ST_MORE taken for the end of a scan; the last frame's tags dropped.
BugDrainReturnsOnMore ==
    /\ pc = "drain"
    /\ NoEdge
    /\ \/ TimeOut /\ Goto("loop", "nothing")
       \/ /\ cmds' = cmds
          /\ \E f \in Frames \ {"push", "heartbeat"} :
                ReadFrame(f) /\ Goto("loop", IF f \in {"more", "tags"} THEN "tag" ELSE "nothing")
BugDrainReturnsNoTags ==
    /\ pc = "drain"
    /\ NoEdge
    /\ \/ TimeOut /\ Goto("loop", "nothing")
       \/ /\ cmds' = cmds
          /\ \E f \in Frames \ {"push", "heartbeat", "more"} :
                ReadFrame(f) /\ Goto("loop", "nothing")

\* ... and what makes it return: a last frame, any other frame, a timeout.
DrainReturns ==
    /\ pc = "drain"
    /\ NoEdge
    /\ \/ TimeOut /\ Goto("loop", "nothing")
       \/ /\ cmds' = cmds
          /\ \E f \in Frames \ {"push", "heartbeat", "more"} :
                ReadFrame(f) /\ Goto("loop", IF f = "tags" THEN "tag" ELSE "nothing")

\* The loop sees the stop event, or _run drops the generator at a yield.
End ==
    /\ stop
    /\ pc = "loop" \/ yields # "nothing"
    /\ Goto("ended", "nothing")
    /\ UNCHANGED <<world, channel, trouble>> /\ NoEdge

-----------------------------------------------------------------------------
(* The device.  In real-time mode it obeys SET_WORK_MODE alone. *)

Reply(f) == line' = Buffered(line, f)

Take(cmd) ==
    /\ left = 0
    /\ cmds # <<>>
    /\ Head(cmds) = cmd
    /\ cmds' = Tail(cmds)
    /\ UNCHANGED <<world, host, trouble>>

ObeyMode == Take("setMode") /\ device' = "answering" /\ left' = left /\ Reply("modeSet")

AnswerLevel ==
    /\ device = "answering"
    /\ Take("gpioGet")
    /\ Reply(IF pin THEN "active" ELSE "idle")
    /\ UNCHANGED <<device, left>>

StartScan ==
    /\ device = "answering"
    /\ Take("inventory")
    /\ left' \in 1..(MaxMore + 1)
    /\ UNCHANGED <<device, line>>

\* One frame of a scan; when nothing is there to be read, it is the last.
ScanFrame ==
    /\ left > 0
    /\ IF pin /\ tagged
       THEN /\ left' = left - 1
            /\ Reply(IF left > 1 THEN "more" ELSE "tags")
       ELSE left' = 0 /\ Reply("empty")
    /\ UNCHANGED <<world, host, trouble, device, cmds>>

Ignore ==
    /\ device = "realtime"
    /\ \E cmd \in {"gpioGet", "inventory"} : Take(cmd)
    /\ UNCHANGED <<device, left, line>>

\* It pushes between commands: not while a second one waits.
Push ==
    /\ device = "realtime"
    /\ Len(cmds) <= 1
    /\ \E f \in {"push", "heartbeat"} : Reply(f)
    /\ UNCHANGED <<world, host, trouble, device, left, cmds>>

-----------------------------------------------------------------------------
(* Trouble, the world, and the program that stops the driver. *)

Fault ==
    /\ faults < MaxFaults
    /\ faults' = faults + 1
    /\ clean' = FALSE

\* Noise on a frame: its checksum fails.
Garble ==
    /\ Fault
    /\ line # <<>>
    /\ line' = [line EXCEPT ![Len(line)] = "bad"]
    /\ UNCHANGED <<world, host, device, left, cmds>>

\* Noise on a command: the device does not answer.
LoseCommand ==
    /\ Fault
    /\ cmds # <<>>
    /\ cmds' = Tail(cmds)
    /\ UNCHANGED <<world, host, device, left, line>>

\* The device answers after the read timeout: the worker has gone on.
AnswerLate ==
    /\ Fault
    /\ line = <<>>
    /\ Owed
    /\ pc \in {"modeReply", "query", "drain"}
    /\ Goto("loop", "nothing") /\ NoEdge
    /\ UNCHANGED <<world, channel>>

PinMoves ==
    /\ pin' = ~pin
    /\ UNCHANGED <<gpiTrigger, stop, tagged, host, channel, trouble>>

Stop ==
    /\ ~stop
    /\ stop' = TRUE
    /\ UNCHANGED <<gpiTrigger, pin, tagged, host, channel, trouble>>

-----------------------------------------------------------------------------
Worker == SetWorkMode \/ IgnoreReply \/ Poll \/ QueryLevel \/ QueryNone
          \/ Scan \/ DrainContinues \/ DrainReturns \/ End
Device == ObeyMode \/ AnswerLevel \/ StartScan \/ ScanFrame \/ Ignore
Next == Worker \/ Device \/ Push \/ Garble \/ LoseCommand \/ AnswerLate \/ PinMoves \/ Stop

(***************************************************************************)
(* Fairness: the worker thread runs (its reads return by the timeout at    *)
(* the latest) and a device that owes an answer gives it.  The pin, the    *)
(* faults, the pushes and the stop need not happen.                        *)
(***************************************************************************)
Spec == Init /\ [][Next]_vars /\ WF_vars(Worker) /\ WF_vars(Device)

-----------------------------------------------------------------------------
TypeOK ==
    /\ gpiTrigger \in BOOLEAN /\ stop \in BOOLEAN /\ pin \in BOOLEAN
    /\ tagged \in BOOLEAN /\ window \in BOOLEAN /\ odd \in BOOLEAN /\ clean \in BOOLEAN
    /\ pc \in {"start", "modeReply", "loop", "query", "scan", "drain", "ended"}
    /\ last \in Levels \union {"none"}
    /\ yields \in {"nothing", "edge", "tag"}
    /\ device \in {"answering", "realtime"}
    /\ left \in 0..(MaxMore + 1)
    /\ cmds \in Seq({"setMode", "gpioGet", "inventory"})
    /\ line \in Seq(Frames)
    /\ faults \in 0..MaxFaults

(***************************************************************************)
(* A gated driver yields a tag only after an active edge and before the    *)
(* release edge, whatever the line does: no tag falls outside a window.    *)
(***************************************************************************)
TagsInWindow == gpiTrigger /\ yields = "tag" => window

(***************************************************************************)
(* The edges alternate as the worker emits them, the active one first: no  *)
(* second opening and no release of nothing, however polls and faults mix. *)
(* (The driver's queue may drop an edge on its way to windows().)          *)
(***************************************************************************)
EdgesAlternate == window = odd /\ (gpiTrigger => window = (last = "active"))

(***************************************************************************)
(* Replies and commands stay paired: on a line without faults, each time   *)
(* the loop is at its top every frame of the last exchange has been read,  *)
(* so the next reply read is the answer to the next command.               *)
(***************************************************************************)
InStep == clean /\ ~stop /\ pc = "loop" => line = <<>> /\ ~Owed

(***************************************************************************)
(* The yielded window follows the pin: if the pin settles, the window ends *)
(* up open or closed accordingly, even after faults, as long as the device *)
(* did get into answering mode (the driver asks for it once).              *)
(***************************************************************************)
Settled(level) == gpiTrigger /\ ~stop /\ device = "answering" /\ pin = level
WindowFollowsPin ==
    /\ <>[]Settled(TRUE) => <>[]window
    /\ <>[]Settled(FALSE) => <>[]~window

(***************************************************************************)
(* On a line without faults a tagged object that stays in front of the     *)
(* reader is reported again and again, polled or gated.                    *)
(***************************************************************************)
Present == tagged /\ pin /\ ~stop
ReportsPresentTag == <>[](Present /\ clean) => []<>(yields = "tag")

(***************************************************************************)
(* A stop ends the generator, whatever it was doing and whatever the line  *)
(* did to it.                                                              *)
(***************************************************************************)
StopEnds == stop ~> (pc = "ended")

(***************************************************************************)
(* driver.py:252 says of a frame that does not parse "resync by            *)
(* re-polling", and driver.py:248 of a timeout "re-poll": after a last     *)
(* fault a tagged object that stays is reported again and again.           *)
(***************************************************************************)
ResyncsByRepolling == <>[](Present /\ gpiTrigger) => []<>(yields = "tag")
=============================================================================
