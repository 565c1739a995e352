--------------------------- MODULE ThreadedDriver ---------------------------
(***************************************************************************)
(* omnitag/threaded.py: a blocking reader on a thread of its own, bridged  *)
(* into an asyncio queue.  Three actors share the state: the worker thread *)
(* (_run), the event loop that runs the _put callbacks the worker schedules*)
(* with call_soon_threadsafe, and the tasks on that loop: the owner of the *)
(* driver (__aenter__, __aexit__) and the consumer (inventory).            *)
(***************************************************************************)
EXTENDS Naturals, Sequences

CONSTANTS
    MaxQueue,   \* max_queue of the constructor; 0 is asyncio's "no bound"
    MaxTags,    \* the max_tags option of inventory: a set, empty for None
    MaxReads    \* bound of the model: how many items the reader yields

ASSUME BoundsAssumption ==
    /\ MaxQueue \in Nat
    /\ MaxTags \subseteq Nat
    /\ MaxReads \in Nat

VARIABLES
    owner,     \* where the task that owns the driver is
    stop,      \* the _stop event
    worker,    \* where the worker thread is
    hand,      \* the kind of the item the worker took from its reader
    puts,      \* how many items the worker handed over
    ready,     \* the _put callbacks the loop has not run, oldest first
    queue,     \* the asyncio queue
    consumer,  \* where the inventory call is, or how the last one ended
    count,     \* inventory's count of the tags it yielded
    taken,     \* history: what inventory calls got from the queue
    yielded,   \* history: the tags they yielded
    lost       \* history: what drop-oldest threw away

driverVars == <<owner, stop, worker, hand, puts, ready, queue>>
handOff    == <<puts, ready, queue, lost>>
consuming  == <<consumer, count, taken, yielded>>
vars       == <<owner, stop, worker, hand, puts, ready, queue, consumer, count,
                taken, yielded, lost>>

-----------------------------------------------------------------------------
(***************************************************************************)
(* Items.  The reader yields tags and GPI edges; the model tells apart the *)
(* tags the host-side policy keeps, those it ignores, and the faulty ones  *)
(* on which policy.evaluate raises.  The worker adds an exception and the  *)
(* _STOP sentinel.  n numbers the items in the order the worker handed     *)
(* them over, so that loss and order can be talked about.                  *)
(***************************************************************************)
Reads == {"kept", "ignored", "faulty", "edge"}
Kinds == Reads \union {"exc", "stop"}
Item  == [kind : Kinds, n : 1..(MaxReads + 2)]

Init ==
    /\ owner = "new"
    /\ stop = FALSE
    /\ worker = "off"
    /\ hand = "none"
    /\ puts = 0
    /\ ready = <<>>
    /\ queue = <<>>
    /\ consumer = "idle"
    /\ count = 0
    /\ taken = <<>>
    /\ yielded = <<>>
    /\ lost = <<>>

-----------------------------------------------------------------------------
(* The owner: async with driver. *)

\* _connect and _build_caps succeed, the worker starts.
Enter ==
    /\ owner = "new"
    /\ owner' = "entered"
    /\ worker' = "reading"
    /\ UNCHANGED <<stop, hand, handOff, consuming>>

\* _connect or _build_caps raises: no thread, and no __aexit__.
EnterFails ==
    /\ owner = "new"
    /\ owner' = "failed"
    /\ UNCHANGED <<stop, worker, hand, handOff, consuming>>

ExitStops ==
    /\ owner = "entered"
    /\ owner' = "stopping"
    /\ stop' = TRUE
    /\ UNCHANGED <<worker, hand, handOff, consuming>>

\* _disconnect may close the transport under the worker, or raise.
Disconnect ==
    /\ owner = "stopping"
    /\ owner' \in {"joining", "exited"}
    /\ UNCHANGED <<stop, worker, hand, handOff, consuming>>

\* join(5.0) returns when the worker has ended, or after five seconds.
Join ==
    /\ owner = "joining"
    /\ owner' = "exited"
    /\ UNCHANGED <<stop, worker, hand, handOff, consuming>>

-----------------------------------------------------------------------------
(* The worker thread: _run. *)

\* The reader yields an item and the stop event is not set yet.
Read(kind) ==
    /\ worker = "reading"
    /\ ~stop
    /\ puts < MaxReads
    /\ hand' = kind
    /\ worker' = "putting"
    /\ UNCHANGED <<owner, stop, handOff, consuming>>

\* The reader returns; or it yields one more item, the stop event is set by
\* then, and the item is thrown away.
Finish ==
    /\ worker = "reading"
    /\ worker' = "ending"
    /\ UNCHANGED <<owner, stop, hand, handOff, consuming>>

\* The reader raises: a fault, or a transport closed under it.
Raise ==
    /\ worker = "reading"
    /\ worker' = "raising"
    /\ UNCHANGED <<owner, stop, hand, handOff, consuming>>

PutThreadsafe(kind) ==
    /\ puts' = puts + 1
    /\ ready' = Append(ready, [kind |-> kind, n |-> puts + 1])
    /\ UNCHANGED <<owner, stop, queue, lost, consuming>>

PutRead ==
    /\ worker = "putting"
    /\ worker' = "reading"
    /\ hand' = "none"
    /\ PutThreadsafe(hand)

\* Bug: no finally, a reader that raises leaves no sentinel behind.
BugPutExceptionLast ==
    /\ worker = "raising"
    /\ worker' = "ended"
    /\ hand' = hand
    /\ PutThreadsafe("exc")

PutException ==
    /\ worker = "raising"
    /\ worker' = "ending"
    /\ hand' = hand
    /\ PutThreadsafe("exc")

\* Bug: the sentinel is handed over again and again.
BugPutStopRepeats == worker = "ending" /\ UNCHANGED <<worker, hand>> /\ PutThreadsafe("stop")

\* Bug: no finally, the thread ends without a sentinel.
BugPutStopMissing == worker = "ending" /\ worker' = "ended" /\ UNCHANGED <<owner, stop, hand, handOff, consuming>>

PutStop ==
    /\ worker = "ending"
    /\ worker' = "ended"
    /\ hand' = hand
    /\ PutThreadsafe("stop")

-----------------------------------------------------------------------------
(* The event loop: one _put callback, first scheduled first run. *)

\* Bug: the queue counts as full one item too early.
BugFullEarly == MaxQueue > 0 /\ Len(queue) + 1 >= MaxQueue

Full == MaxQueue > 0 /\ Len(queue) >= MaxQueue

RunPutWith(newQueue, newLost) ==
    /\ ready # <<>>
    /\ ready' = Tail(ready)
    /\ queue' = newQueue
    /\ lost' = newLost
    /\ UNCHANGED <<owner, stop, worker, hand, puts, consuming>>

PutNoWait == ~Full /\ RunPutWith(Append(queue, Head(ready)), lost)
WhenFull(newQueue, newLost) == Full /\ RunPutWith(newQueue, newLost)

\* Bug: drop the newest item instead of the oldest.
BugRunPutDropsNewest ==
    PutNoWait \/ WhenFull(queue, Append(lost, Head(ready)))

\* Bug: make room for the item, and forget to put it.
BugRunPutNoRetry ==
    PutNoWait \/ WhenFull(Tail(queue), Append(lost, Head(queue)))

\* Bug: empty the queue when it is full.
BugRunPutClears ==
    PutNoWait \/ WhenFull(<<Head(ready)>>, lost \o queue)

\* Bug: the callback scheduled last runs first.
BugRunPutLastFirst ==
    /\ ready # <<>> /\ ~Full
    /\ ready' = SubSeq(ready, 1, Len(ready) - 1)
    /\ queue' = Append(queue, ready[Len(ready)])
    /\ UNCHANGED <<owner, stop, worker, hand, puts, lost, consuming>>

\* On QueueFull the oldest item makes room for the new one.
RunPut ==
    \/ PutNoWait
    \/ WhenFull(Append(Tail(queue), Head(ready)), Append(lost, Head(queue)))

-----------------------------------------------------------------------------
(* The consumer: one inventory call at a time, as often as the program likes. *)

Active == consumer \in {"waiting", "yielding"}

StartInventory ==
    /\ ~Active
    /\ consumer' = "waiting"
    /\ count' = 0
    /\ UNCHANGED <<driverVars, taken, yielded, lost>>

\* Bug: inventory does not check that what it got is a tag to keep.
BugAfterYieldsAll(kind) ==
    CASE kind = "stop"             -> "ended"
      [] kind \in {"exc", "faulty"} -> "raised"
      [] OTHER                     -> "yielding"

\* Where the loop body of inventory goes with the item it got.
After(kind) ==
    CASE kind = "stop"             -> "ended"
      [] kind \in {"exc", "faulty"} -> "raised"
      [] kind = "kept"             -> "yielding"
      [] OTHER                     -> "waiting"

Get ==
    /\ consumer = "waiting"
    /\ queue # <<>>
    /\ queue' = Tail(queue)
    /\ taken' = Append(taken, Head(queue))
    /\ consumer' = After(Head(queue).kind)
    /\ yielded' = IF consumer' = "yielding" THEN Append(yielded, Head(queue)) ELSE yielded
    /\ UNCHANGED <<owner, stop, worker, hand, puts, ready, count, lost>>

\* The program asks for the next tag: the generator runs on from its yield.
Resume ==
    /\ consumer = "yielding"
    /\ count' = count + 1
    /\ consumer' = IF \E m \in MaxTags : count + 1 >= m THEN "ended" ELSE "waiting"
    /\ UNCHANGED <<driverVars, taken, yielded, lost>>

\* The program closes the generator at its yield, or is cancelled in the get.
Close ==
    /\ Active
    /\ consumer' = "closed"
    /\ UNCHANGED <<driverVars, count, taken, yielded, lost>>

-----------------------------------------------------------------------------
Owner == Enter \/ EnterFails \/ ExitStops \/ Disconnect \/ Join
Worker == Finish \/ Raise \/ PutRead \/ PutException \/ PutStop \/ \E k \in Reads : Read(k)
Consumer == StartInventory \/ Get \/ Resume \/ Close
Next == Owner \/ Worker \/ RunPut \/ Consumer

(***************************************************************************)
(* Fairness.  A thread that is not blocked runs: what it has to hand over  *)
(* it hands over, and a reader told to stop returns, as _read_blocking     *)
(* requires of its implementations.  The loop runs every callback it was   *)
(* given and wakes a getter that has something to get.  Nothing is assumed *)
(* of the reader before the stop, of the owner, or of the program that     *)
(* iterates.                                                               *)
(***************************************************************************)
Fairness ==
    /\ WF_vars(PutRead \/ PutException \/ PutStop)
    /\ WF_vars(stop /\ Finish)
    /\ WF_vars(RunPut)
    /\ WF_vars(Get)

Spec == Init /\ [][Next]_vars /\ Fairness

-----------------------------------------------------------------------------
TypeOK ==
    /\ owner \in {"new", "failed", "entered", "stopping", "joining", "exited"}
    /\ stop \in BOOLEAN
    /\ worker \in {"off", "reading", "putting", "raising", "ending", "ended"}
    /\ hand \in Reads \union {"none"}
    /\ puts \in 0..(MaxReads + 2)
    /\ ready \in Seq(Item)
    /\ queue \in Seq(Item)
    /\ consumer \in {"idle", "waiting", "yielding", "ended", "raised", "closed"}
    /\ count \in Nat
    /\ taken \in Seq(Item)
    /\ yielded \in Seq(Item)
    /\ lost \in Seq(Item)

\* What was handed over and neither received nor dropped, oldest first.
backlog == queue \o ready

Members(s) == {s[i] : i \in DOMAIN s}

Waiting == Members(queue) \union Members(ready)
Handed  == Members(taken) \union Waiting \union Members(lost)

Increasing(s) == \A i, j \in DOMAIN s : i < j => s[i].n < s[j].n

(***************************************************************************)
(* Through the two hops from the worker to the consumer (the loop's list   *)
(* of callbacks, then the queue) items keep the order in which the reader  *)
(* yielded them and none is received twice, however many inventory calls   *)
(* share the queue.  (threaded.py _put_threadsafe and inventory)           *)
(***************************************************************************)
InOrder == Increasing(taken \o queue \o ready)

(***************************************************************************)
(* Every item handed over is accounted for: received, dropped, or still on *)
(* its way.  A call closed or finished early takes nothing with it.        *)
(***************************************************************************)
Conserved == Len(taken) + Len(lost) + Len(queue) + Len(ready) = puts

(***************************************************************************)
(* Drop-oldest: what is dropped is older than all that is kept, and it is  *)
(* dropped for a queue that is full and stays within its bound.            *)
(***************************************************************************)
DropsOldest ==
    /\ MaxQueue > 0 => Len(queue) <= MaxQueue
    /\ \A x \in Members(lost), y \in Waiting : x.n < y.n

(***************************************************************************)
(* The sentinel that ends inventory() reaches it at any queue bound, and   *)
(* nothing follows it: it is handed over once, last, and never dropped.    *)
(***************************************************************************)
StopSurvives ==
    /\ \A x \in Members(lost) : x.kind # "stop"
    /\ \A x \in Members(taken) \union Waiting :
            x.kind = "stop" => worker = "ended" /\ x.n = puts

(***************************************************************************)
(* The exception that ended the worker is not dropped from a queue that    *)
(* holds two items or more: only the sentinel is handed over after it.     *)
(* With max_queue=1 it can be, see FailureSurfaces.                        *)
(***************************************************************************)
FailureSurvives == MaxQueue # 1 => \A x \in Members(lost) : x.kind # "exc"

\* A consumer was told that the reader has ended.
StopTaken == \E x \in Members(taken) : x.kind = "stop"

(***************************************************************************)
(* threaded.py:89 says of the worker's exception that it is "surfaced on   *)
(* the async side": no consumer is told of a normal end by the sentinel    *)
(* when the exception that came before it was dropped.                     *)
(***************************************************************************)
FailureSurfaces == StopTaken => \A x \in Members(lost) : x.kind # "exc"

(***************************************************************************)
(* inventory() yields exactly the tags among what it took that the policy  *)
(* keeps, in order: no edge, exception or sentinel, and no tag swallowed   *)
(* where one call ends and the next begins.                                *)
(***************************************************************************)
YieldsKeptTags ==
    /\ Increasing(yielded)
    /\ Members(yielded) = {x \in Members(taken) : x.kind = "kept"}

(***************************************************************************)
(* However the reader ended, told to stop, by itself or by raising, and at *)
(* any queue bound: when the worker is gone its sentinel was received or   *)
(* is still on its way, through both hops.  (threaded.py _run's finally,   *)
(* and _put, which may drop anything older)                                *)
(***************************************************************************)
StopOnItsWay == worker = "ended" => StopTaken \/ \E x \in Waiting : x.kind = "stop"

(***************************************************************************)
(* A consumer that waits while the driver is being shut down, and that has *)
(* not been told of the end yet, is not left waiting: it gets a tag, the   *)
(* exception or the end.  It needs the sentinel to survive a full queue.   *)
(***************************************************************************)
WaiterAnswered == (consumer = "waiting" /\ stop /\ ~StopTaken) ~> (consumer # "waiting")

(***************************************************************************)
(* The driver implements the channel it promises: through both hops, loss  *)
(* is of the oldest item only and only while more than max_queue wait.     *)
(***************************************************************************)
Channel == INSTANCE DropOldestFifo WITH
    Last <- {x \in Item : x.kind = "stop"}, Limit <- MaxQueue,
    chan <- backlog, closed <- (worker = "ended")

ImplementsChannel == Channel!Spec
=============================================================================
