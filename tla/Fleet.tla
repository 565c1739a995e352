-------------------------------- MODULE Fleet --------------------------------
(***************************************************************************)
(* omnitag/fleet.py: one call of Fleet.stream or Fleet.windows.  A pump    *)
(* task per driver moves what the driver yields into one unbounded queue;  *)
(* the call drains that queue, counting the sentinels with which the pumps *)
(* end.  stream and windows share this structure (lines 60-90 and 105-134);*)
(* windows first asks every driver for its GPI trigger.                    *)
(*                                                                         *)
(* A put into an unbounded asyncio queue does not suspend, so a pump's step*)
(* from one item of its driver to the next is one action.                  *)
(***************************************************************************)
EXTENDS Naturals, FiniteSets, Sequences

CONSTANTS
    Drivers,    \* the drivers of the fleet
    PerDriver   \* bound of the model: how many items a driver yields

ASSUME FleetAssumption ==
    /\ IsFiniteSet(Drivers) /\ Drivers # {}    \* fleet.py:44
    /\ PerDriver \in Nat

VARIABLES
    connected,  \* the drivers whose capabilities are available
    gated,      \* the drivers that declare a GPI trigger
    pump,       \* where each driver's pump task is
    sent,       \* how many items each driver yielded to its pump
    queue,      \* the call's queue
    errors,     \* the drivers that raised, in that order
    remaining,  \* how many sentinels the call still waits for
    stream,     \* where the call is, or how it ended
    delivered   \* history: the number of the last item of each driver it yielded

pumps == <<connected, gated, pump, sent, errors>>
vars  == <<connected, gated, pump, sent, queue, errors, remaining, stream, delivered>>

-----------------------------------------------------------------------------
Items == [driver : Drivers, n : 1..PerDriver]
DONE == [done |-> TRUE]     \* _DONE, which carries no driver

Live  == {"new", "iterating"}
Ended == {"finished", "raised", "closed", "refused"}

Init ==
    /\ connected \in SUBSET Drivers
    /\ gated \in SUBSET connected
    /\ pump = [d \in Drivers |-> "none"]
    /\ sent = [d \in Drivers |-> 0]
    /\ queue = <<>>
    /\ errors = <<>>
    /\ remaining = 0
    /\ stream = "idle"
    /\ delivered = [d \in Drivers |-> 0]

-----------------------------------------------------------------------------
(* The call. *)

\* A bug: the call waits for one sentinel too many.
BugCreateTasks ==
    /\ stream' = "waiting"
    /\ pump' = [d \in Drivers |-> "new"]
    /\ remaining' = Cardinality(Drivers) + 1
    /\ UNCHANGED <<connected, gated, sent, queue, errors, delivered>>

CreateTasks ==
    /\ stream' = "waiting"
    /\ pump' = [d \in Drivers |-> "new"]
    /\ remaining' = Cardinality(Drivers)
    /\ UNCHANGED <<connected, gated, sent, queue, errors, delivered>>

StartStream == stream = "idle" /\ CreateTasks

StartWindows ==
    /\ stream = "idle"
    /\ gated = Drivers
    /\ CreateTasks

\* A driver without a trigger, or not connected: windows raises at once.
RefuseWindows ==
    /\ stream = "idle"
    /\ gated # Drivers
    /\ stream' = "refused"
    /\ UNCHANGED <<pumps, queue, remaining, delivered>>

Get ==
    /\ stream = "waiting"
    /\ queue # <<>>
    /\ queue' = Tail(queue)

GetItem ==
    /\ Get
    /\ Head(queue) # DONE
    /\ stream' = "yielding"
    /\ delivered' = [delivered EXCEPT ![Head(queue).driver] = Head(queue).n]
    /\ UNCHANGED <<pumps, remaining>>

\* A bug: the first driver to end ends the stream.
BugGetDoneFirst ==
    /\ Get
    /\ Head(queue) = DONE
    /\ remaining' = remaining - 1
    /\ stream' = IF errors = <<>> THEN "finished" ELSE "raised"
    /\ UNCHANGED <<pumps, delivered>>

\* The last sentinel ends the loop; every task is done then.
GetDone ==
    /\ Get
    /\ Head(queue) = DONE
    /\ remaining' = remaining - 1
    /\ stream' = IF remaining > 1 THEN "waiting"
                 ELSE IF errors = <<>> THEN "finished" ELSE "raised"
    /\ UNCHANGED <<pumps, delivered>>

Resume ==
    /\ stream = "yielding"
    /\ stream' = "waiting"
    /\ UNCHANGED <<pumps, queue, remaining, delivered>>

\* The program closes the generator or is cancelled: finally cancels the tasks...
Close ==
    /\ stream \in {"waiting", "yielding"}
    /\ stream' = "closing"
    /\ UNCHANGED <<pumps, queue, remaining, delivered>>

\* Bugs: the tasks are not awaited; every task is expected to say DONE.
BugClosedAtOnce ==
    /\ stream = "closing"
    /\ stream' = "closed"
    /\ UNCHANGED <<pumps, queue, remaining, delivered>>
BugClosedAfterDones ==
    /\ stream = "closing"
    /\ \A d \in Drivers : pump[d] = "done"
    /\ stream' = "closed"
    /\ UNCHANGED <<pumps, queue, remaining, delivered>>

\* ... and waits until they are gone.
Closed ==
    /\ stream = "closing"
    /\ \A d \in Drivers : pump[d] \notin Live
    /\ stream' = "closed"
    /\ UNCHANGED <<pumps, queue, remaining, delivered>>

-----------------------------------------------------------------------------
(* The pump of driver d. *)

PumpStep(d, from, to) ==
    /\ pump[d] = from
    /\ pump' = [pump EXCEPT ![d] = to]
    /\ UNCHANGED <<connected, gated, remaining, stream, delivered>>

\* It asks for the reader id: before the try.
PumpStarts(d) ==
    /\ stream # "closing"
    /\ PumpStep(d, "new", IF d \in connected THEN "iterating" ELSE "dead")
    /\ UNCHANGED <<sent, queue, errors>>

\* A bug: an item is dropped when the consumer is behind.
BugPumpPutsDrops(d) ==
    /\ stream # "closing"
    /\ sent[d] < PerDriver
    /\ PumpStep(d, "iterating", "iterating")
    /\ sent' = [sent EXCEPT ![d] = @ + 1]
    /\ queue' = IF Len(queue) > 1 THEN queue
                ELSE Append(queue, [driver |-> d, n |-> sent[d] + 1])
    /\ errors' = errors

PumpPuts(d) ==
    /\ stream # "closing"
    /\ sent[d] < PerDriver
    /\ PumpStep(d, "iterating", "iterating")
    /\ sent' = [sent EXCEPT ![d] = @ + 1]
    /\ queue' = Append(queue, [driver |-> d, n |-> sent[d] + 1])
    /\ errors' = errors

\* The driver's inventory ends, or the cancellation reaches it.
PumpEnds(d) ==
    /\ PumpStep(d, "iterating", "done")
    /\ queue' = Append(queue, DONE)
    /\ UNCHANGED <<sent, errors>>

\* Bugs: no sentinel after an error; one in the except and one in the finally.
BugPumpFailsSilently(d) ==
    /\ PumpStep(d, "iterating", "done")
    /\ errors' = Append(errors, d)
    /\ UNCHANGED <<sent, queue>>
BugPumpFailsTwice(d) ==
    /\ PumpStep(d, "iterating", "done")
    /\ errors' = Append(errors, d)
    /\ queue' = queue \o <<DONE, DONE>>
    /\ sent' = sent

PumpFails(d) ==
    /\ PumpStep(d, "iterating", "done")
    /\ errors' = Append(errors, d)
    /\ queue' = Append(queue, DONE)
    /\ sent' = sent

\* Cancelled before its first step, the task never reaches its finally.
PumpNeverStarts(d) ==
    /\ stream = "closing"
    /\ PumpStep(d, "new", "dead")
    /\ UNCHANGED <<sent, queue, errors>>

-----------------------------------------------------------------------------
Call == StartStream \/ StartWindows \/ RefuseWindows \/ GetItem \/ GetDone
        \/ Resume \/ Close \/ Closed
Pump(d) == PumpStarts(d) \/ PumpPuts(d) \/ PumpEnds(d) \/ PumpFails(d) \/ PumpNeverStarts(d)
Next == Call \/ \E d \in Drivers : Pump(d)

(***************************************************************************)
(* Fairness: the loop runs a task that can run, and a cancelled task ends. *)
(* A driver need not ever yield or end by itself.                          *)
(***************************************************************************)
Fairness ==
    /\ WF_vars(GetItem \/ GetDone)
    /\ WF_vars(Closed)
    /\ \A d \in Drivers :
        /\ WF_vars(PumpStarts(d) \/ PumpNeverStarts(d))
        /\ WF_vars(stream = "closing" /\ (PumpEnds(d) \/ PumpFails(d)))

Spec == Init /\ [][Next]_vars /\ Fairness

-----------------------------------------------------------------------------
TypeOK ==
    /\ connected \subseteq Drivers
    /\ gated \subseteq connected
    /\ pump \in [Drivers -> Live \union {"none", "done", "dead"}]
    /\ sent \in [Drivers -> 0..PerDriver]
    /\ queue \in Seq(Items \union {DONE})
    /\ errors \in Seq(Drivers)
    /\ remaining \in 0..Cardinality(Drivers)
    /\ stream \in Ended \union {"idle", "waiting", "yielding", "closing"}
    /\ delivered \in [Drivers -> 0..PerDriver]

(***************************************************************************)
(* A stream that ends by itself has delivered everything: no driver is     *)
(* still running, nothing it yielded is left behind, and the stream raises *)
(* exactly when a driver did.  One driver that fails early does not cut    *)
(* the others short.  (fleet.py stream and windows)                        *)
(***************************************************************************)
EndsComplete ==
    stream \in {"finished", "raised"} =>
        /\ \A d \in Drivers : pump[d] = "done"
        /\ delivered = sent
        /\ (stream = "raised") = (errors # <<>>)

(***************************************************************************)
(* However the call ends, finished, failed or closed in the middle, no     *)
(* pump task outlives it.                                                  *)
(***************************************************************************)
NoOrphanPump == stream \in Ended => \A d \in Drivers : pump[d] \notin Live

Dones  == {i \in DOMAIN queue : queue[i] = DONE}
Silent == {d \in Drivers : pump[d] = "dead"}

(***************************************************************************)
(* The call counts the sentinels right.  What it waits for is one of each  *)
(* pump that can still put it, those in the queue, and beyond these one of *)
(* each pump that died before its try, which never comes; and a pump dies  *)
(* so only over a driver that is not connected.  Over connected drivers    *)
(* the call therefore neither ends early nor waits for a sentinel that     *)
(* nobody puts.  (fleet.py:64, 69-73, 76-80)                               *)
(***************************************************************************)
SentinelsCounted ==
    stream \in {"waiting", "yielding"} =>
        /\ remaining = Cardinality({d \in Drivers : pump[d] \in Live})
                         + Cardinality(Dones) + Cardinality(Silent)
        /\ Silent \subseteq Drivers \ connected

(***************************************************************************)
(* Over connected drivers, a consumer that waits when all of them have     *)
(* ended is answered: the stream goes on or ends.                          *)
(***************************************************************************)
AllEnded == \A d \in Drivers : pump[d] \in {"done", "dead"}
WaiterAnswered ==
    (connected = Drivers /\ AllEnded /\ stream = "waiting") ~> (stream # "waiting")

(***************************************************************************)
(* A program that closes the stream gets control back: every pump answers  *)
(* its cancellation, started or not.                                       *)
(***************************************************************************)
CloseReturns == (stream = "closing") ~> (stream = "closed")

(***************************************************************************)
(* fleet.py:56-57: the stream "Ends when all drivers' inventories end. A   *)
(* single driver raising does not sink the others".  This states it for    *)
(* every driver, also for one whose capabilities raise.                    *)
(***************************************************************************)
EndsWhenAllEnd == (AllEnded /\ stream = "waiting") ~> (stream # "waiting")

(***************************************************************************)
(* The call implements the merged stream: each driver's items in order,    *)
(* none lost, none twice, none after the end.                              *)
(***************************************************************************)
Merge == INSTANCE MergedStream WITH
    produced <- sent,
    running <- {d \in Drivers : pump[d] # "done"},
    failed <- {errors[i] : i \in DOMAIN errors},
    status <- CASE stream \in {"idle", "waiting", "yielding"} -> "open"
                [] stream = "closing" -> "closed"
                [] OTHER -> stream

ImplementsMerge == Merge!Spec
=============================================================================
