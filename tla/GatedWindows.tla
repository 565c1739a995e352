---------------------------- MODULE GatedWindows ----------------------------
(***************************************************************************)
(* ThreadedDriver.windows: a pump task moves what the driver's queue holds *)
(* into the call's relay, filtered by the policy, and assemble_windows of  *)
(* llrpkit makes windows of it.  The driver beneath is ThreadedDriver; its *)
(* reader is one that WyuanReader's checks describe: edges alternate, the  *)
(* active one first, and tags come between them.  The assembler is         *)
(* external: where its behaviour is unknown it has a choice.               *)
(***************************************************************************)
EXTENDS ThreadedDriver, FiniteSets

CONSTANT MaxCalls   \* bound: how often the program calls windows()

ASSUME CallsAssumption == MaxCalls \in Nat

VARIABLES
    gated,   \* the driver was constructed with a GPI trigger
    call,    \* where the last call of windows() is, or how it ended
    calls,   \* how many calls there were
    pump,    \* where its pump task is
    relay,   \* its relay, from the pump to the assembler
    window,  \* the window the assembler has open
    given,   \* history: the windows that the calls yielded
    strays,  \* how many pumps closed calls left behind
    strayed  \* history: the items that those took

callVars   == <<gated, call, calls, pump, relay, window, given, strays, strayed>>
allVars    == <<vars, callVars>>

-----------------------------------------------------------------------------
(* The items of a gated reader.  Whether an edge is active follows from    *)
(* how many edges came before it.                                          *)

Edges == {x \in Handed : x.kind = "edge"}
IsActive(x) == Cardinality({e \in Edges : e.n <= x.n}) % 2 = 1
Tripped == Cardinality(Edges) % 2 = 1

END == [end |-> TRUE]                        \* END_OF_STREAM
Windows == [from : 1..MaxReads, to : 0..MaxReads, tags : Seq(Item)]
None == [none |-> TRUE]                      \* no window is open

WindowsInit ==
    /\ Init
    /\ gated \in BOOLEAN
    /\ call = "idle"
    /\ calls = 0
    /\ pump = "none"
    /\ relay = <<>>
    /\ window = None
    /\ given = <<>>
    /\ strays = 0
    /\ strayed = {}

\* What goes on beneath the call.  Of the owner, what it does after the stop is
\* left out: nothing here reads it.
Beneath ==
    /\ \/ Enter \/ EnterFails \/ ExitStops \/ RunPut
       \/ Finish \/ Raise \/ PutRead \/ PutException \/ PutStop
       \/ gated /\ Read("edge")
       \/ (gated => Tripped) /\ \E k \in {"kept", "ignored", "faulty"} : Read(k)
    /\ UNCHANGED callVars

-----------------------------------------------------------------------------
(* The call and its pump. *)

Running == call \in {"waiting", "yielding"}

Call ==
    /\ ~Running /\ call # "closing"
    /\ calls < MaxCalls
    /\ calls' = calls + 1
    /\ UNCHANGED <<vars, gated, given, strays, strayed>>

StartWindows ==
    /\ Call
    /\ gated
    /\ call' = "waiting"
    /\ pump' = "getting"
    /\ relay' = <<>>
    /\ window' = None

\* WyuanReader.windows without a trigger raises.
RefuseWindows ==
    /\ Call
    /\ ~gated
    /\ call' = "refused"
    /\ UNCHANGED <<pump, relay, window>>

\* The pump takes item x, goes to `next', and leaves `relayed' in the relay.
TakeWith(x, next, relayed) ==
    /\ pump = "getting" /\ Running
    /\ queue # <<>> /\ x = Head(queue)
    /\ queue' = Tail(queue)
    /\ taken' = Append(taken, x)
    /\ pump' = next
    /\ relay' = relayed
    /\ UNCHANGED <<owner, stop, worker, hand, puts, ready, consumer, count, yielded, lost>>
    /\ UNCHANGED <<gated, call, calls, window, given, strays, strayed>>

\* Bug: the relay holds one item, and putting overwrites it.
BugTakeOverwrites(x, next, put) == TakeWith(x, next, IF put = <<>> THEN relay ELSE put)

\* Bug: what the pump took last leaves the relay first.
BugTakeStacks(x, next, put) == TakeWith(x, next, put \o relay)

Take(x, next, put) == TakeWith(x, next, relay \o put)

\* Bug: the sentinel is relayed as it is.
BugPumpRelaysStop ==
    \E x \in Members(queue) :
        \/ x.kind # "ignored" /\ Take(x, "getting", <<x>>)
        \/ x.kind = "ignored" /\ Take(x, "getting", <<>>)

\* Bug: with a policy set, the pump relays only the tags it keeps.
BugPumpFiltersEdges ==
    \E x \in Members(queue) :
        \/ x.kind \in {"kept", "edge", "exc"} /\ Take(x, "getting", <<x>>)
        \/ x.kind \in {"ignored", "edge"} /\ Take(x, "getting", <<>>)
        \/ x.kind = "stop" /\ Take(x, "ended", <<END>>)

\* Bug: the pump returns without telling the assembler.
BugPumpNoEnd ==
    \E x \in Members(queue) :
        \/ x.kind \in {"kept", "edge", "exc"} /\ Take(x, "getting", <<x>>)
        \/ x.kind = "ignored" /\ Take(x, "getting", <<>>)
        \/ x.kind = "stop" /\ Take(x, "ended", <<>>)

PumpGets ==
    \E x \in Members(queue) :
        \/ x.kind \in {"kept", "edge", "exc"} /\ Take(x, "getting", <<x>>)
        \/ x.kind = "ignored" /\ Take(x, "getting", <<>>)
        \/ x.kind = "stop" /\ Take(x, "ended", <<END>>)

\* policy.evaluate raises: the task dies, and windows() does not hear of it.
PolicyRaises ==
    \E x \in Members(queue) : x.kind = "faulty" /\ Take(x, "died", <<>>)

CallMoves(next) ==
    /\ call' = next
    /\ UNCHANGED <<vars, gated, calls, strayed>>

CallStep(next) == CallMoves(next) /\ UNCHANGED strays

\* The program's task is cancelled as it waits; or it goes on after a window.
Abandon ==
    /\ call = "waiting"
    /\ CallStep("closing")
    /\ UNCHANGED <<pump, relay, window, given>>

GoOn ==
    /\ call = "yielding"
    /\ CallStep("waiting")
    /\ UNCHANGED <<pump, relay, window, given>>

\* However the call ends, its finally cancels the pump and waits for it.
Finally(next) ==
    /\ CallStep(next)
    /\ pump' = "none"
    /\ UNCHANGED <<window, given>>

Closed == call = "closing" /\ Finally("closed") /\ UNCHANGED relay

(***************************************************************************)
(* WyuanReader.windows passes on the windows of the inherited generator.   *)
(* Closed at its own yield, it ends without closing the inner one: that    *)
(* one's pump stays until the event loop finalises the dropped generator,  *)
(* and takes from the queue for nobody.                                    *)
(***************************************************************************)
LeaveBehind ==
    /\ call = "yielding"
    /\ CallMoves("closed")
    /\ pump' = "none"
    /\ strays' = IF pump = "getting" THEN strays + 1 ELSE strays
    /\ UNCHANGED <<relay, window, given>>

StrayTakes ==
    /\ strays > 0 /\ queue # <<>>
    /\ queue' = Tail(queue)
    /\ taken' = Append(taken, Head(queue))
    /\ strayed' = strayed \union {Head(queue)}
    /\ strays' = IF Head(queue).kind \in {"faulty", "stop"} THEN strays - 1 ELSE strays
    /\ UNCHANGED <<owner, stop, worker, hand, puts, ready, consumer, count, yielded, lost>>
    /\ UNCHANGED <<gated, call, calls, pump, relay, window, given>>

StrayFinalised ==
    /\ strays > 0
    /\ strays' = strays - 1
    /\ UNCHANGED <<vars, gated, call, calls, pump, relay, window, given, strayed>>

-----------------------------------------------------------------------------
(* assemble_windows, as the driver uses it. *)

Relayed(x) == call = "waiting" /\ relay # <<>> /\ x = Head(relay)

Consume(x) ==
    /\ Relayed(x)
    /\ relay' = Tail(relay)
    /\ UNCHANGED pump

Yield(last) ==
    /\ window # None
    /\ given' = Append(given, [window EXCEPT !.to = last])
    /\ window' = None
    /\ CallStep("yielding")

Opens(x) ==
    /\ x.kind = "edge" /\ IsActive(x)
    /\ window' \in {[from |-> x.n, to |-> 0, tags |-> <<>>]}
                   \union (IF window = None THEN {} ELSE {window})
    /\ given' = given
    /\ CallStep("waiting")

Releases(x) == x.kind = "edge" /\ ~IsActive(x) /\ Yield(x.n)

Collects(x) ==
    /\ x.kind = "kept"
    /\ window # None
    /\ window' = [window EXCEPT !.tags = Append(@, x)]
    /\ given' = given
    /\ CallStep("waiting")

\* A tag or a release while no window is open.
Ignores(x) ==
    /\ window = None
    /\ (x.kind = "kept" \/ (x.kind = "edge" /\ ~IsActive(x)))
    /\ UNCHANGED <<window, given>>
    /\ CallStep("waiting")

Assemble ==
    \E x \in Members(relay) \ {END} :
        Consume(x) /\ (Opens(x) \/ Releases(x) \/ Collects(x) \/ Ignores(x))

Raises == \E x \in Members(relay) \ {END} :
              Relayed(x) /\ x.kind = "exc" /\ Finally("raised") /\ relay' = Tail(relay)

Ends == Relayed(END) /\ Finally("ended") /\ relay' = Tail(relay)

\* max_open runs out, or the stream ends with the window open.
ForceCloses == call = "waiting" /\ Yield(0) /\ UNCHANGED <<pump, relay>>

Assembler == Assemble \/ Raises \/ Ends
WindowsNext ==
    \/ Beneath
    \/ StartWindows \/ RefuseWindows \/ PumpGets \/ PolicyRaises \/ Abandon \/ GoOn \/ Closed
    \/ LeaveBehind \/ StrayTakes \/ StrayFinalised
    \/ Assembler \/ ForceCloses

(***************************************************************************)
(* Fairness: worker and callbacks as in ThreadedDriver; the loop runs the  *)
(* pump and the assembler when they have something to take.                *)
(***************************************************************************)
WindowsFairness ==
    /\ WF_allVars((PutRead \/ PutException \/ PutStop) /\ UNCHANGED callVars)
    /\ WF_allVars(stop /\ Finish /\ UNCHANGED callVars)
    /\ WF_allVars(RunPut /\ UNCHANGED callVars)
    /\ WF_allVars(PumpGets \/ PolicyRaises)
    /\ WF_allVars(Assembler)

WindowsSpec == WindowsInit /\ [][WindowsNext]_allVars /\ WindowsFairness

-----------------------------------------------------------------------------
WindowsTypeOK ==
    /\ TypeOK
    /\ gated \in BOOLEAN
    /\ call \in {"idle", "refused", "waiting", "yielding", "closing", "closed", "ended", "raised"}
    /\ calls \in 0..MaxCalls
    /\ pump \in {"none", "getting", "died", "ended"}
    /\ relay \in Seq({x \in Item : x.kind \in {"kept", "edge", "exc"}} \union {END})
    /\ window \in Windows \union {None}
    /\ given \in Seq(Windows)
    /\ strays \in 0..MaxCalls
    /\ strayed \subseteq Members(taken)

\* The kept tags the reader yielded between edges number from and to.
Between(from, to) == {x \in Members(taken) : x.kind = "kept" /\ from < x.n /\ x.n < to}

\* What no call got: dropped by the queue, or taken by a pump left behind.
Missed == Members(lost) \union strayed

(***************************************************************************)
(* As long as nothing is missed, a window that its release closed is one   *)
(* trip: from an active edge to the next edge, with every tag that the     *)
(* policy keeps and that came in between, in order, and no other.          *)
(***************************************************************************)
WindowsAreTrips ==
    Missed = {} => \A w \in Members(given) : w.to > 0 =>
        /\ {e \in Edges : w.from < e.n /\ e.n < w.to} = {}
        /\ Members(w.tags) = Between(w.from, w.to)
        /\ Increasing(w.tags)

(***************************************************************************)
(* As long as the queue drops nothing, one call that runs to its end, over *)
(* a reader that ended or failed, yields one window for each trip, an      *)
(* empty one too.  (docs/gated-inventory.md:9-12)                          *)
(***************************************************************************)
EveryTripOnce ==
    lost = <<>> /\ calls = 1 /\ call \in {"ended", "raised"} =>
        \A e, r \in Edges :
            IsActive(e) /\ ~IsActive(r) /\ e.n < r.n =>
                Cardinality({i \in DOMAIN given : given[i].from = e.n}) = 1

(***************************************************************************)
(* Whatever is missed, and however often the program starts over, a window *)
(* holds kept tags from between its edges only, and reaches over the end   *)
(* of a trip only where the release is among what was missed: as long as   *)
(* the releases come through, the tags of two trips never meet.  What one  *)
(* window holds lies before the next one opens.                            *)
(***************************************************************************)
TagsInTheirWindow ==
    /\ \A w \in Members(given) :
        /\ \A t \in Members(w.tags) :
            t.kind = "kept" /\ w.from < t.n /\ (w.to > 0 => t.n < w.to)
        /\ \A e \in Edges \ Missed : ~IsActive(e) /\ w.from < e.n =>
            w.to <= e.n /\ \A t \in Members(w.tags) : t.n < e.n
    /\ \A i, j \in DOMAIN given : i < j =>
        /\ given[i].from < given[j].from /\ given[i].to < given[j].from
        /\ \A t \in Members(given[i].tags) : t.n < given[j].from

(***************************************************************************)
(* A program that iterates windows() while the driver is left is told of   *)
(* the end, whatever is queued.  Two cases are left out: the policy raised *)
(* in the pump, and a pump left behind takes from the same queue.  Then    *)
(* nothing may tell the program, and it waits.                             *)
(***************************************************************************)
SinkGoesOn == []<>(call # "yielding")
EndReachesWindows ==
    SinkGoesOn =>
        ((Running /\ stop /\ ~StopTaken /\ strays = 0) ~> (~Running \/ pump = "died"))
=============================================================================
