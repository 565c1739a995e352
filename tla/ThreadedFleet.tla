---------------------------- MODULE ThreadedFleet ----------------------------
(***************************************************************************)
(* Fleet.stream over one ThreadedDriver: the worker thread, the loop's     *)
(* callbacks, the pump task that iterates inventory() into the fleet's     *)
(* queue, and the sink that iterates the stream.  The driver is module     *)
(* ThreadedDriver and the call is module Fleet; a step of the pump is a    *)
(* step of both, taken together.                                           *)
(***************************************************************************)
EXTENDS ThreadedDriver, FiniteSets

VARIABLES
    pump,       \* where the pump task is
    sent,       \* how many tags inventory() yielded to it
    relay,      \* the queue of Fleet.stream
    errors,     \* the errors of Fleet.stream
    remaining,  \* how many sentinels it waits for
    stream,     \* where it is, or how it ended
    delivered   \* history: how many tags the sink got

streamVars == <<pump, sent, relay, errors, remaining, stream, delivered>>
allVars    == <<vars, streamVars>>

reader == "reader"
Call == INSTANCE Fleet WITH
    Drivers <- {reader}, PerDriver <- MaxReads, queue <- relay,
    connected <- {reader}, gated <- {}

-----------------------------------------------------------------------------
FleetInit == Init /\ Call!Init

\* async with driver: the program streams once it has entered.
Start == owner \notin {"new", "failed"} /\ Call!StartStream /\ UNCHANGED vars

\* Owner, worker and loop go on beneath the call.
Beneath == (Owner \/ Worker \/ RunPut) /\ UNCHANGED streamVars

\* The sink and the call above the driver.
Above == (Call!GetItem \/ Call!GetDone \/ Call!Resume \/ Call!Close \/ Call!Closed)
         /\ UNCHANGED vars

\* The pump enters the async for: inventory() runs up to its get.
PumpEnters == StartInventory /\ Call!PumpStarts(reader)

PumpGets == stream # "closing" /\ Get /\ UNCHANGED streamVars

\* Bug: each tag is a call of inventory() of its own.
BugPumpRelaysAnew ==
    /\ consumer = "yielding"
    /\ consumer' = "waiting"
    /\ count' = 0
    /\ UNCHANGED <<driverVars, taken, yielded, lost>>
    /\ Call!PumpPuts(reader)

\* What inventory() yields goes into the relay, and it is asked for the next.
PumpRelays == Resume /\ Call!PumpPuts(reader)

\* Bugs: an exception taken for an end; no sentinel; a failed call tried again.
BugPumpSeesEndSwallows ==
    UNCHANGED vars /\ consumer \in {"ended", "raised"} /\ Call!PumpEnds(reader)
BugPumpSeesEndSilently ==
    /\ consumer \in {"ended", "raised"}
    /\ Call!PumpStep(reader, "iterating", "done")
    /\ UNCHANGED <<vars, sent, relay, errors>>
BugPumpSeesEndRetries ==
    \/ UNCHANGED vars /\ consumer = "ended" /\ Call!PumpEnds(reader)
    \/ consumer = "raised" /\ StartInventory /\ UNCHANGED streamVars

\* inventory() returned, or raised: the pump ends the way it did.
PumpSeesEnd ==
    /\ UNCHANGED vars
    /\ \/ consumer = "ended" /\ Call!PumpEnds(reader)
       \/ consumer = "raised" /\ Call!PumpFails(reader)

\* A bug: the cancelled pump puts no sentinel.
BugPumpCancelledSilently ==
    /\ stream = "closing"
    /\ \/ Close /\ Call!PumpStep(reader, "iterating", "done") /\ UNCHANGED <<sent, relay, errors>>
       \/ UNCHANGED vars /\ Call!PumpNeverStarts(reader)

\* The cancellation reaches the get of inventory(), or the pump's own start.
PumpCancelled ==
    /\ stream = "closing"
    /\ \/ Close /\ Call!PumpEnds(reader)
       \/ UNCHANGED vars /\ Call!PumpNeverStarts(reader)

Pump == PumpEnters \/ PumpGets \/ PumpRelays \/ PumpSeesEnd \/ PumpCancelled
FleetNext == Start \/ Beneath \/ Above \/ Pump

(***************************************************************************)
(* Fairness: as in ThreadedDriver for the worker and the loop's callbacks, *)
(* as in Fleet for the tasks.  SinkGoesOn is an assumption about the       *)
(* program, used only where a property says so.                            *)
(***************************************************************************)
FleetFairness ==
    /\ WF_allVars((PutRead \/ PutException \/ PutStop) /\ UNCHANGED streamVars)
    /\ WF_allVars(stop /\ Finish /\ UNCHANGED streamVars)
    /\ WF_allVars(RunPut /\ UNCHANGED streamVars)
    /\ WF_allVars(Pump)
    /\ WF_allVars((Call!GetItem \/ Call!GetDone \/ Call!Closed) /\ UNCHANGED vars)

FleetSpec == FleetInit /\ [][FleetNext]_allVars /\ FleetFairness

SinkGoesOn == []<>(stream # "yielding")

-----------------------------------------------------------------------------
\* The sink has got as many tags as the program asked for.
HadAll == \E m \in MaxTags : delivered[reader] >= m

(***************************************************************************)
(* A stream that ends by itself, with or without an exception, has         *)
(* delivered every tag that inventory() took and the policy keeps.  It     *)
(* raises exactly when inventory() met the reader's exception or a tag on  *)
(* which the policy raises.  And when it finishes, either the program had  *)
(* all the tags it asked for, or nothing of what the worker handed over is *)
(* left behind: it was taken, or dropped for want of room.                 *)
(***************************************************************************)
EndToEnd ==
    stream \in {"finished", "raised"} =>
        /\ delivered[reader] = Cardinality({i \in DOMAIN taken : taken[i].kind = "kept"})
        /\ (stream = "raised") = \E x \in Members(taken) : x.kind \in {"exc", "faulty"}
        /\ stream = "finished" => HadAll \/ Waiting = {}

(***************************************************************************)
(* Leaving the driver's block ends the stream over it: the sentinel passes *)
(* the loop, the bounded queue, inventory(), the pump and the relay.       *)
(***************************************************************************)
ExitEndsStream == SinkGoesOn => (stop /\ stream \in {"waiting", "yielding"}
                                 ~> stream \in {"finished", "raised", "closed"})

(***************************************************************************)
(* A reader that fails is heard of: from the moment its exception was      *)
(* handed over, a program that goes on iterating gets it, unless it closed *)
(* the stream or had all the tags it asked for.                            *)
(***************************************************************************)
FailureReachesSink ==
    SinkGoesOn =>
        ((\E x \in Waiting : x.kind = "exc") /\ stream \in {"waiting", "yielding"}
         ~> \/ stream \in {"raised", "closing", "closed"}
            \/ HadAll)

(***************************************************************************)
(* Composed, the driver still does what ThreadedDriver says and the call   *)
(* what Fleet says, fairness included.                                     *)
(***************************************************************************)
ImplementsDriver == Spec
ImplementsFleet == Call!Spec

(***************************************************************************)
(* DESIGN.md:177 says "Bounded queues (backpressure) everywhere" and       *)
(* "a slow sink can't balloon memory": what waits for a slow sink, in the  *)
(* driver's queue and the relay together, stays within max_queue and the   *)
(* sentinel.                                                               *)
(***************************************************************************)
BoundedBacklog == Len(queue) + Len(relay) <= MaxQueue + 1
=============================================================================
