-------------------------- MODULE ThreadedFleetProofs --------------------------
(***************************************************************************)
(* Theorems about ThreadedFleet: what is proved of the driver and of the   *)
(* call holds in their composition, and what it comes to, end to end.      *)
(***************************************************************************)
EXTENDS ThreadedFleet, ThreadedDriverProofs, FiniteSetTheorems

CallProofs == INSTANCE FleetProofs WITH
    Drivers <- {reader}, PerDriver <- MaxReads, queue <- relay,
    connected <- {reader}, gated <- {}

-----------------------------------------------------------------------------
(***************************************************************************)
(* Every step of the composition is a step of the driver, or leaves it be. *)
(***************************************************************************)
LEMMA StepOfDriver == [FleetNext]_allVars => [Next]_vars
<1> SUFFICES ASSUME [FleetNext]_allVars PROVE [Next]_vars
  OBVIOUS
<1>1. CASE Start \/ Above
  BY <1>1 DEF Start, Above
<1>2. CASE Beneath
  BY <1>2 DEF Beneath, Next
<1>3. CASE PumpEnters
  BY <1>3 DEF PumpEnters, Next, Consumer
<1>4. CASE PumpGets \/ PumpRelays
  BY <1>4 DEF PumpGets, PumpRelays, Next, Consumer
<1>5. CASE PumpSeesEnd \/ PumpCancelled
  BY <1>5 DEF PumpSeesEnd, PumpCancelled, Next, Consumer
<1>6. CASE UNCHANGED allVars
  BY <1>6 DEF allVars
<1> QED BY <1>1, <1>2, <1>3, <1>4, <1>5, <1>6 DEF FleetNext, Pump

(***************************************************************************)
(* Composed, the driver still does what ThreadedDriver says, so that every *)
(* theorem about its states holds under a stream.                          *)
(***************************************************************************)
THEOREM DriverKept == FleetSpec => Init /\ [][Next]_vars
BY StepOfDriver, PTL DEF FleetSpec, FleetInit

LEMMA SpecDriverInv == FleetSpec => [](TypeInv /\ Numbered)
BY DriverKept, InitTypeInv, NextTypeInv, InitNumbered, NextNumbered, PTL

-----------------------------------------------------------------------------
(***************************************************************************)
(* Every step is a step of the call with its one pump, or leaves it be.    *)
(***************************************************************************)
LEMMA StepOfCall == [FleetNext]_allVars => [Call!Next]_(Call!vars)
<1> SUFFICES ASSUME [FleetNext]_allVars PROVE [Call!Next]_(Call!vars)
  OBVIOUS
<1>1. CASE UNCHANGED streamVars
  BY <1>1 DEF streamVars, Call!vars
<1>2. CASE Beneath \/ PumpGets \/ UNCHANGED allVars
  BY <1>1, <1>2 DEF Beneath, PumpGets, allVars
<1>3. CASE Start \/ Above
  BY <1>3 DEF Start, Above, Call!Next, Call!Call
<1>4. CASE PumpEnters \/ PumpRelays \/ PumpSeesEnd \/ PumpCancelled
  <2>1. Call!Pump(reader)
    BY <1>4 DEF PumpEnters, PumpRelays, PumpSeesEnd, PumpCancelled, Call!Pump
  <2> QED BY <2>1 DEF Call!Next
<1> QED BY <1>2, <1>3, <1>4 DEF FleetNext, Pump

(***************************************************************************)
(* Composed, the call still does what Fleet says.                          *)
(***************************************************************************)
THEOREM CallKept == FleetSpec => Call!Init /\ [][Call!Next]_(Call!vars)
BY StepOfCall, PTL DEF FleetSpec, FleetInit

\* What FleetProofs assumes of a fleet holds of the one reader.
LEMMA CallAssumption == CallProofs!IsFiniteSet({reader}) /\ {reader} # {} /\ MaxReads \in Nat
<1>1. IsFiniteSet({reader})
  BY FS_Singleton
<1>2. CallProofs!IsFiniteSet({reader})
  BY <1>1 DEF IsFiniteSet, CallProofs!IsFiniteSet
<1> QED BY <1>2, BoundsAssumption

CallInv == CallProofs!FleetInv

LEMMA InitCallInv == Call!Init => CallInv
<1>1. CallProofs!Init => CallInv
  BY CallAssumption, CallProofs!InitFleetInv DEF CallInv
<1>2. Call!Init => CallProofs!Init
  BY DEF Call!Init, CallProofs!Init
<1> QED BY <1>1, <1>2

\* The call, and the call that FleetProofs speaks of, take the same steps.
LEMMA SameCall == [Call!Next]_(Call!vars) => [CallProofs!Next]_(CallProofs!vars)
<1>1. Call!Cardinality({reader}) = CallProofs!Cardinality({reader})
  BY DEF Call!Cardinality, CallProofs!Cardinality, Call!IsFiniteSet, CallProofs!IsFiniteSet
<1>2. Call!CreateTasks => CallProofs!CreateTasks
  BY <1>1 DEF Call!CreateTasks, CallProofs!CreateTasks
<1>3. Call!Call => CallProofs!Call
  BY <1>2, Zenon DEF Call!Call, Call!StartStream, Call!StartWindows, Call!RefuseWindows,
         Call!Get, Call!GetItem, Call!GetDone, Call!Resume, Call!Close,
         Call!Closed, Call!pumps, Call!DONE, Call!Live,
         CallProofs!Call, CallProofs!StartStream, CallProofs!StartWindows,
         CallProofs!RefuseWindows, CallProofs!Get, CallProofs!GetItem,
         CallProofs!GetDone, CallProofs!Resume, CallProofs!Close, CallProofs!Closed,
         CallProofs!pumps, CallProofs!DONE, CallProofs!Live
<1>4. Call!Pump(reader) => CallProofs!Pump(reader)
  BY Zenon DEF Call!Pump, Call!PumpStarts, Call!PumpPuts, Call!PumpEnds, Call!PumpFails,
         Call!PumpNeverStarts, Call!PumpStep, Call!DONE,
         CallProofs!Pump, CallProofs!PumpStarts, CallProofs!PumpPuts, CallProofs!PumpEnds,
         CallProofs!PumpFails, CallProofs!PumpNeverStarts, CallProofs!PumpStep, CallProofs!DONE
<1>5. Call!Next => CallProofs!Next
  BY <1>3, <1>4 DEF Call!Next, CallProofs!Next
<1>6. UNCHANGED Call!vars => UNCHANGED CallProofs!vars
  BY DEF Call!vars, CallProofs!vars
<1> QED BY <1>5, <1>6

LEMMA NextCallInv == CallInv /\ [Call!Next]_(Call!vars) => CallInv'
<1>1. CallInv /\ [CallProofs!Next]_(CallProofs!vars) => CallInv'
  BY CallAssumption, CallProofs!NextFleetInv, Zenon DEF CallInv
<1> QED BY <1>1, SameCall

-----------------------------------------------------------------------------
(***************************************************************************)
(* Until the stream is closed, the pump has relayed each tag to keep that  *)
(* inventory() took, but for the one it was just given, and it ends as     *)
(* inventory() ended.                                                      *)
(***************************************************************************)
KeptTaken == {i \in DOMAIN taken : taken[i].kind = "kept"}
RaisingTaken == \E x \in Members(taken) : x.kind \in {"exc", "faulty"}

Carried ==
    /\ pump[reader] \in {"none", "new"} => consumer = "idle" /\ taken = <<>> /\ sent[reader] = 0
    /\ pump[reader] # "done" => errors = <<>>
    /\ stream \notin {"closing", "closed"} =>
        /\ pump[reader] \in {"none", "new", "iterating", "done"}
        /\ pump[reader] = "iterating" => consumer \in {"waiting", "yielding", "ended", "raised"}
        /\ pump[reader] = "done" =>
               consumer \in {"ended", "raised"} /\ (errors # <<>> <=> consumer = "raised")
        /\ IF consumer = "yielding" THEN Cardinality(KeptTaken) = sent[reader] + 1
                                    ELSE Cardinality(KeptTaken) = sent[reader]
        /\ RaisingTaken <=> consumer = "raised"

LEMMA CallKnows ==
  ASSUME CallInv
  PROVE  /\ DOMAIN pump = {reader} /\ DOMAIN sent = {reader} /\ sent[reader] \in Nat
         /\ errors \in Seq({reader})
         /\ stream = "idle" => pump[reader] = "none"
         /\ stream \in {"finished", "raised"} => pump[reader] = "done"
<1>1. /\ pump \in [{reader} -> CallProofs!Live \union {"none", "done", "dead"}]
      /\ sent \in [{reader} -> 0..MaxReads] /\ errors \in Seq({reader})
  BY DEF CallInv, CallProofs!FleetInv, CallProofs!TypeOK
<1>2. /\ stream = "idle" => pump = [d \in {reader} |-> "none"]
      /\ stream \in {"finished", "raised"} => pump[reader] = "done"
  BY DEF CallInv, CallProofs!FleetInv, CallProofs!Places
<1> QED BY <1>1, <1>2, BoundsAssumption

LEMMA InitCarried == FleetInit => Carried
<1> SUFFICES ASSUME FleetInit PROVE Carried
  OBVIOUS
<1>1. consumer = "idle" /\ taken = <<>>
  BY DEF FleetInit, Init
<1>2. /\ pump[reader] = "none" /\ sent[reader] = 0 /\ errors = <<>>
  BY DEF FleetInit, Call!Init
<1>3. KeptTaken = {} /\ ~RaisingTaken
  BY <1>1 DEF KeptTaken, RaisingTaken, Members
<1>4. Cardinality(KeptTaken) = 0
  BY <1>3, FS_EmptySet
<1> QED BY <1>1, <1>2, <1>3, <1>4 DEF Carried

\* The pump starts: inventory() has taken nothing yet.
LEMMA PumpEntersCarried ==
  ASSUME CallInv, Carried, PumpEnters
  PROVE  Carried'
<1>1. /\ pump[reader] = "new" /\ pump' = [pump EXCEPT ![reader] = "iterating"]
      /\ UNCHANGED <<stream, sent, errors, taken>> /\ consumer' = "waiting"
  BY DEF PumpEnters, StartInventory, Call!PumpStarts, Call!PumpStep
<1>2. pump'[reader] = "iterating"
  BY <1>1, CallKnows
<1>3. taken = <<>> /\ sent[reader] = 0 /\ errors = <<>>
  BY <1>1 DEF Carried
<1>4. KeptTaken' = {} /\ ~RaisingTaken'
  BY <1>1, <1>3 DEF KeptTaken, RaisingTaken, Members
<1>5. Cardinality(KeptTaken') = 0
  BY <1>4, FS_EmptySet
<1>6. Cardinality(KeptTaken)' = sent'[reader]
  BY <1>1, <1>3, <1>5
<1> QED BY <1>1, <1>2, <1>3, <1>4, <1>6 DEF Carried

\* The pump is given a tag, or what ends its iteration, or nothing.
LEMMA PumpGetsCarried ==
  ASSUME TypeInv, CallInv, Carried, PumpGets
  PROVE  Carried'
<1> DEFINE x == Head(queue)
<1>1. /\ consumer = "waiting" /\ consumer' = After(x.kind)
      /\ taken' = Append(taken, x) /\ queue # <<>>
      /\ UNCHANGED <<pump, sent, errors, stream>>
  BY DEF PumpGets, Get, streamVars
<1>2. queue \in Seq(Item) /\ taken \in Seq(Item) /\ x \in Item
  BY <1>1 DEF TypeInv, TypeOK
<1> HIDE DEF x
<1>3. /\ consumer' = "yielding" <=> x.kind = "kept"
      /\ consumer' = "raised" <=> x.kind \in {"exc", "faulty"}
      /\ consumer' \in {"waiting", "yielding", "ended", "raised"}
  BY <1>1 DEF After
<1>4. pump[reader] \notin {"none", "new"}
  BY <1>1 DEF Carried
<1>5. CASE stream \in {"closing", "closed"}
  BY <1>1, <1>4, <1>5 DEF Carried
<1>6. CASE stream \notin {"closing", "closed"}
  <2>1. /\ pump[reader] = "iterating" /\ Cardinality(KeptTaken) = sent[reader] /\ ~RaisingTaken
    BY <1>1, <1>4, <1>6 DEF Carried
  <2>2. /\ DOMAIN taken = 1..Len(taken) /\ DOMAIN taken' = 1..(Len(taken) + 1)
        /\ Len(taken) \in Nat /\ taken'[Len(taken) + 1] = x
        /\ \A i \in 1..Len(taken) : taken'[i] = taken[i]
    BY <1>1, <1>2, AppendProperties
  <2>3. DOMAIN taken' = DOMAIN taken \union {Len(taken) + 1} /\ Len(taken) + 1 \notin DOMAIN taken
    BY <2>2
  <2>4. Members(taken)' = Members(taken) \union {x}
    <3>1. Members(Append(taken, x)) = Members(taken) \union {x}
      BY <1>2, AppendMembers
    <3> QED BY <1>1, <3>1
  <2>5. RaisingTaken' <=> consumer' = "raised"
    BY <1>3, <2>1, <2>4 DEF RaisingTaken
  <2>6. CASE x.kind = "kept"
    <3>1. KeptTaken' = KeptTaken \union {Len(taken) + 1}
      BY <2>2, <2>3, <2>6 DEF KeptTaken
    <3>2. IsFiniteSet(KeptTaken) /\ Len(taken) + 1 \notin KeptTaken
      <4>1. IsFiniteSet(1..Len(taken))
        BY <2>2, FS_Interval
      <4>2. KeptTaken \subseteq 1..Len(taken)
        BY <2>2 DEF KeptTaken
      <4>3. IsFiniteSet(KeptTaken)
        BY <4>1, <4>2, FS_Subset
      <4> QED BY <4>2, <4>3, <2>2
    <3>3. Cardinality(KeptTaken \union {Len(taken) + 1}) = Cardinality(KeptTaken) + 1
      BY <3>2, FS_AddElement
    <3>4. Cardinality(KeptTaken)' = sent'[reader] + 1
      BY <1>1, <2>1, <3>1, <3>3
    <3> QED BY <1>1, <1>3, <2>1, <2>5, <2>6, <3>4 DEF Carried
  <2>7. CASE x.kind # "kept"
    <3>1. KeptTaken' = KeptTaken
      BY <2>2, <2>3, <2>7 DEF KeptTaken
    <3>2. Cardinality(KeptTaken)' = sent'[reader]
      BY <1>1, <2>1, <3>1
    <3> QED BY <1>1, <1>3, <2>1, <2>5, <2>7, <3>2 DEF Carried
  <2> QED BY <2>6, <2>7
<1> QED BY <1>5, <1>6

\* The pump relays the tag it was given, and asks for the next.
LEMMA PumpRelaysCarried ==
  ASSUME CallInv, Carried, PumpRelays
  PROVE  Carried'
<1>1. /\ consumer = "yielding" /\ consumer' \in {"waiting", "ended"}
      /\ pump[reader] = "iterating" /\ pump' = [pump EXCEPT ![reader] = "iterating"]
      /\ sent' = [sent EXCEPT ![reader] = @ + 1]
      /\ UNCHANGED <<errors, stream, taken>>
  BY DEF PumpRelays, Resume, Call!PumpPuts, Call!PumpStep
<1>2. pump'[reader] = "iterating" /\ sent'[reader] = sent[reader] + 1
  BY <1>1, CallKnows
<1>3. KeptTaken' = KeptTaken /\ RaisingTaken' = RaisingTaken
  BY <1>1 DEF KeptTaken, RaisingTaken, Members
<1>4. stream' \notin {"closing", "closed"} => Cardinality(KeptTaken)' = sent'[reader] /\ ~RaisingTaken'
  BY <1>1, <1>2, <1>3 DEF Carried
<1> QED BY <1>1, <1>2, <1>4 DEF Carried

\* inventory() is over, and the pump with it.
LEMMA PumpSeesEndCarried ==
  ASSUME CallInv, Carried, PumpSeesEnd
  PROVE  Carried'
<1>1. /\ pump[reader] = "iterating" /\ pump' = [pump EXCEPT ![reader] = "done"]
      /\ UNCHANGED <<sent, stream, taken, consumer>>
      /\ consumer \in {"ended", "raised"}
      /\ consumer = "ended" => errors' = errors
      /\ consumer = "raised" => errors' = Append(errors, reader)
  BY DEF PumpSeesEnd, Call!PumpEnds, Call!PumpFails, Call!PumpStep, vars
<1>2. pump'[reader] = "done" /\ errors = <<>>
  BY <1>1, CallKnows DEF Carried
<1>3. errors' # <<>> <=> consumer = "raised"
  <2>1. Append(<<>>, reader) # <<>>
    OBVIOUS
  <2> QED BY <1>1, <1>2, <2>1
<1>4. KeptTaken' = KeptTaken /\ RaisingTaken' = RaisingTaken
  BY <1>1 DEF KeptTaken, RaisingTaken, Members
<1> QED BY <1>1, <1>2, <1>3, <1>4 DEF Carried

\* The stream is being closed: what the pump was given last is not relayed.
LEMMA PumpCancelledCarried ==
  ASSUME CallInv, Carried, PumpCancelled
  PROVE  Carried'
<1>1. /\ stream = "closing" /\ stream' = stream /\ errors' = errors
      /\ \/ pump[reader] = "iterating" /\ pump' = [pump EXCEPT ![reader] = "done"]
         \/ pump[reader] = "new" /\ pump' = [pump EXCEPT ![reader] = "dead"]
  BY DEF PumpCancelled, Call!PumpEnds, Call!PumpNeverStarts, Call!PumpStep
<1>2. pump'[reader] \in {"done", "dead"} /\ errors' = <<>>
  BY <1>1, CallKnows DEF Carried
<1> QED BY <1>1, <1>2 DEF Carried

LEMMA NextCarried == TypeInv /\ CallInv /\ Carried /\ [FleetNext]_allVars => Carried'
<1> SUFFICES ASSUME TypeInv, CallInv, Carried, [FleetNext]_allVars PROVE Carried'
  OBVIOUS
<1>1. CASE /\ UNCHANGED <<consumer, taken, pump, sent, errors>>
           /\ stream \in {"closing", "closed"} => stream' \in {"closing", "closed"}
  <2>1. KeptTaken' = KeptTaken /\ RaisingTaken' = RaisingTaken
    BY <1>1 DEF KeptTaken, RaisingTaken, Members
  <2>2. Cardinality(KeptTaken)' = Cardinality(KeptTaken)
    BY <2>1
  <2> QED BY <1>1, <2>1, <2>2 DEF Carried
<1>2. CASE Start
  <2>1. /\ stream = "idle" /\ stream' = "waiting" /\ pump' = [d \in {reader} |-> "new"]
        /\ UNCHANGED <<sent, errors, consumer, taken>>
    BY <1>2 DEF Start, Call!StartStream, Call!CreateTasks, vars
  <2>2. consumer = "idle" /\ taken = <<>> /\ sent[reader] = 0 /\ errors = <<>>
    BY <2>1, CallKnows DEF Carried
  <2>3. pump'[reader] = "new"
    BY <2>1
  <2>4. KeptTaken' = {} /\ ~RaisingTaken'
    BY <2>1, <2>2 DEF KeptTaken, RaisingTaken, Members
  <2>5. Cardinality(KeptTaken)' = 0
    BY <2>4, FS_EmptySet
  <2> QED BY <2>1, <2>2, <2>3, <2>4, <2>5 DEF Carried
<1>3. CASE Beneath
  <2>1. UNCHANGED consuming
    BY <1>3 DEF Beneath, Owner, Enter, EnterFails, ExitStops, Disconnect, Join, Worker, Finish,
                Raise, Read, PutRead, PutException, PutStop, PutThreadsafe, RunPut, PutNoWait,
                WhenFull, RunPutWith
  <2> QED BY <1>1, <1>3, <2>1 DEF Beneath, streamVars, consuming
<1>4. CASE Above
  <2>1. UNCHANGED <<pump, sent, errors>>
    BY <1>4 DEF Above, Call!GetItem, Call!GetDone, Call!Resume, Call!Close, Call!Closed, Call!pumps
  <2>2. stream \in {"closing", "closed"} => stream' \in {"closing", "closed"}
    BY <1>4 DEF Above, Call!GetItem, Call!GetDone, Call!Get, Call!Resume, Call!Close, Call!Closed
  <2> QED BY <1>1, <1>4, <2>1, <2>2 DEF Above, vars
<1>5. CASE Pump
  BY <1>5, PumpEntersCarried, PumpGetsCarried, PumpRelaysCarried, PumpSeesEndCarried,
     PumpCancelledCarried DEF Pump
<1>6. CASE UNCHANGED allVars
  BY <1>1, <1>6 DEF allVars, vars, streamVars
<1> QED BY <1>2, <1>3, <1>4, <1>5, <1>6 DEF FleetNext

(***************************************************************************)
(* inventory() counts what the pump relays, and it ended because it was    *)
(* told the end or because the program has all it asked for.               *)
(***************************************************************************)
CountedOut ==
    stream \notin {"closing", "closed"} =>
        /\ pump[reader] \in {"iterating", "done"} => count = sent[reader]
        /\ consumer = "ended" => StopTaken \/ \E m \in MaxTags : sent[reader] >= m

LEMMA InitCountedOut == FleetInit => CountedOut
BY DEF FleetInit, Init, Call!Init, CountedOut

LEMMA NextCountedOut ==
  TypeInv /\ CallInv /\ Carried /\ CountedOut /\ [FleetNext]_allVars => CountedOut'
<1> SUFFICES ASSUME TypeInv, CallInv, Carried, CountedOut, [FleetNext]_allVars PROVE CountedOut'
  OBVIOUS
<1>1. CASE /\ UNCHANGED <<consumer, count, taken, sent>>
           /\ pump'[reader] \in {"iterating", "done"} => pump[reader] \in {"iterating", "done"}
           /\ stream \in {"closing", "closed"} => stream' \in {"closing", "closed"}
  <2>1. StopTaken' = StopTaken
    BY <1>1 DEF StopTaken, Members
  <2> QED BY <1>1, <2>1 DEF CountedOut
<1>2. CASE Start
  <2>1. /\ stream = "idle" /\ pump' = [d \in {reader} |-> "new"] /\ consumer' = consumer
    BY <1>2 DEF Start, Call!StartStream, Call!CreateTasks, vars
  <2>2. consumer = "idle" /\ pump'[reader] = "new"
    BY <2>1, CallKnows DEF Carried
  <2> QED BY <2>1, <2>2 DEF CountedOut
<1>3. CASE Beneath
  <2>1. UNCHANGED consuming
    BY <1>3 DEF Beneath, Owner, Enter, EnterFails, ExitStops, Disconnect, Join, Worker, Finish,
                Raise, Read, PutRead, PutException, PutStop, PutThreadsafe, RunPut, PutNoWait,
                WhenFull, RunPutWith
  <2> QED BY <1>1, <1>3, <2>1 DEF Beneath, streamVars, consuming
<1>4. CASE Above
  <2>1. UNCHANGED <<pump, sent>>
    BY <1>4 DEF Above, Call!GetItem, Call!GetDone, Call!Resume, Call!Close, Call!Closed, Call!pumps
  <2>2. stream \in {"closing", "closed"} => stream' \in {"closing", "closed"}
    BY <1>4 DEF Above, Call!GetItem, Call!GetDone, Call!Get, Call!Resume, Call!Close, Call!Closed
  <2> QED BY <1>1, <1>4, <2>1, <2>2 DEF Above, vars
<1>5. CASE PumpEnters
  <2>1. pump[reader] = "new" /\ count' = 0 /\ sent' = sent /\ consumer' = "waiting"
    BY <1>5 DEF PumpEnters, StartInventory, Call!PumpStarts, Call!PumpStep
  <2> QED BY <2>1 DEF CountedOut, Carried
<1>6. CASE PumpGets
  <2>1. /\ queue # <<>> /\ consumer' = After(Head(queue).kind)
        /\ taken' = Append(taken, Head(queue))
        /\ UNCHANGED <<pump, sent, stream, count>>
    BY <1>6 DEF PumpGets, Get, streamVars
  <2>2. taken \in Seq(Item) /\ Head(queue) \in Item
    BY <2>1 DEF TypeInv, TypeOK
  <2>3. Members(taken') = Members(taken) \union {Head(queue)}
    BY <2>1, <2>2, AppendMembers
  <2>4. consumer' = "ended" => Head(queue).kind = "stop"
    BY <2>1 DEF After
  <2> QED BY <2>1, <2>3, <2>4 DEF CountedOut, StopTaken
<1>7. CASE PumpRelays
  <2>1. /\ pump[reader] = "iterating" /\ count' = count + 1 /\ stream' = stream
        /\ consumer' = "ended" => \E m \in MaxTags : count + 1 >= m
        /\ sent' = [sent EXCEPT ![reader] = @ + 1]
    BY <1>7 DEF PumpRelays, Resume, Call!PumpPuts, Call!PumpStep
  <2>2. sent'[reader] = sent[reader] + 1
    BY <2>1, CallKnows
  <2> QED BY <2>1, <2>2 DEF CountedOut
<1>8. CASE PumpSeesEnd
  BY <1>1, <1>8 DEF PumpSeesEnd, Call!PumpEnds, Call!PumpFails, Call!PumpStep, vars
<1>9. CASE PumpCancelled
  BY <1>9 DEF PumpCancelled, Call!PumpEnds, Call!PumpNeverStarts, Call!PumpStep, CountedOut
<1>10. CASE UNCHANGED allVars
  BY <1>1, <1>10 DEF allVars, vars, streamVars
<1> QED BY <1>2, <1>3, <1>4, <1>5, <1>6, <1>7, <1>8, <1>9, <1>10 DEF FleetNext, Pump

\* Behind the sentinel nothing is handed over, and all before it is gone.
LEMMA NothingBehindStop ==
  ASSUME TypeInv, Numbered, Endings, StopTaken
  PROVE  Waiting = {}
<1>1. PICK i \in 1..Len(taken) : taken[i].kind = "stop"
  BY DEF StopTaken, Members, TypeInv, TypeOK
<1>2. taken[i].n = puts /\ taken[i].n <= puts - Len(ready) - Len(queue)
  BY <1>1 DEF Endings, EndsWell, Numbered, gone
<1>3. Len(ready) = 0 /\ Len(queue) = 0
  BY <1>2 DEF TypeInv, TypeOK
<1> QED BY <1>3 DEF Waiting, Members, TypeInv, TypeOK

(***************************************************************************)
(* A stream that ends by itself has delivered each tag to keep that        *)
(* inventory() took; it raises exactly when inventory() met an exception   *)
(* of the reader or of the policy; and it finishes only with what it was   *)
(* asked for, or with nothing of what the worker handed over left behind:  *)
(* for every queue bound, max_tags and number of reads.                    *)
(***************************************************************************)
THEOREM DeliveredEndToEnd == FleetSpec => []EndToEnd
<1>1. TypeInv /\ Numbered /\ Endings /\ CallInv /\ Carried /\ CountedOut => EndToEnd
  <2> SUFFICES ASSUME TypeInv, Numbered, Endings, CallInv, Carried, CountedOut,
                      stream \in {"finished", "raised"}
               PROVE  /\ delivered[reader] = Cardinality(KeptTaken)
                      /\ (stream = "raised") = RaisingTaken
                      /\ stream = "finished" => HadAll \/ Waiting = {}
    BY DEF EndToEnd, KeptTaken, RaisingTaken
  <2>1. CallProofs!EndsComplete
    BY CallAssumption, CallProofs!CompleteEnd DEF CallInv
  <2>2. delivered = sent /\ (stream = "raised") = (errors # <<>>)
    BY <2>1 DEF CallProofs!EndsComplete
  <2>3. pump[reader] = "done"
    BY CallKnows
  <2>4. /\ consumer \in {"ended", "raised"} /\ (errors # <<>> <=> consumer = "raised")
        /\ Cardinality(KeptTaken) = sent[reader]
        /\ RaisingTaken <=> consumer = "raised"
    BY <2>3 DEF Carried
  <2>5. stream = "raised" <=> RaisingTaken
    BY <2>2, <2>4
  <2>6. (stream = "raised") = RaisingTaken
    BY <2>5 DEF RaisingTaken
  <2>7. ASSUME stream = "finished" PROVE HadAll \/ Waiting = {}
    <3>1. consumer = "ended"
      BY <2>4, <2>5, <2>7
    <3>2. StopTaken \/ HadAll
      BY <2>2, <2>7, <3>1 DEF CountedOut, HadAll
    <3> QED BY <3>2, NothingBehindStop
  <2> QED BY <2>2, <2>4, <2>6, <2>7
<1>2. FleetInit => Endings
  BY InitEndings DEF FleetInit
<1> QED BY SpecDriverInv, DriverKept, CallKept, InitCallInv, NextCallInv, InitCarried, NextCarried,
           <1>2, NextEndings, InitCountedOut, NextCountedOut, <1>1, PTL DEF FleetSpec

(***************************************************************************)
(* What is above a driver sees no more of it than the channel: under a     *)
(* stream, with its pump as the only receiver, the bridge still implements *)
(* the drop-oldest FIFO.                                                   *)
(***************************************************************************)
THEOREM ChannelBeneathStream == FleetSpec => ImplementsChannel
BY DriverKept, InitTypeInv, NextTypeInv, InitRefines, NextRefines, PTL
   DEF ImplementsChannel, Channel!Spec

LEMMA StepOfCallProofs ==
  CallInv /\ [FleetNext]_allVars => [CallProofs!Next]_(CallProofs!vars)
<1>1. [Call!Next]_(Call!vars) => [CallProofs!Next]_(CallProofs!vars)
  BY SameCall
<1> QED BY <1>1, StepOfCall

(***************************************************************************)
(* And what the sink sees is the merged stream: over a driver whose queue  *)
(* drops, whose reader fails and whose owner leaves at any time, the call  *)
(* ends by itself only when all that the pump was given is delivered, and  *)
(* raises exactly when inventory() raised in the pump.                     *)
(***************************************************************************)
THEOREM StreamAboveMerges == FleetSpec => CallProofs!ImplementsMerge
<1>1. FleetInit => CallProofs!Merge!Init /\ CallInv
  <2>1. Call!Init => CallProofs!Init
    BY DEF Call!Init, CallProofs!Init
  <2> QED BY <2>1, CallAssumption, CallProofs!InitMerges, InitCallInv DEF FleetInit
<1>2. CallInv => CallProofs!EndsComplete
  BY CallAssumption, CallProofs!CompleteEnd DEF CallInv
<1>3. CallInv /\ CallProofs!EndsComplete' /\ [FleetNext]_allVars
          => [CallProofs!Merge!Next]_(CallProofs!Merge!vars)
  BY CallAssumption, StepOfCallProofs, CallProofs!NextMerges DEF CallInv
<1>4. CallInv /\ [FleetNext]_allVars => CallInv'
  BY StepOfCall, NextCallInv
<1> QED BY <1>1, <1>2, <1>3, <1>4, PTL DEF FleetSpec, CallProofs!ImplementsMerge, CallProofs!Merge!Spec
-----------------------------------------------------------------------------
\* Until it was told the end, inventory() has not taken the sentinel.
Untold == consumer \in {"waiting", "yielding"} => ~StopTaken

LEMMA NextUntold == TypeInv /\ Carried /\ Untold /\ [FleetNext]_allVars => Untold'
<1> SUFFICES ASSUME TypeInv, Carried, Untold, [FleetNext]_allVars PROVE Untold'
  OBVIOUS
<1>1. CASE UNCHANGED taken /\ (consumer' \in {"waiting", "yielding"} =>
                                  consumer \in {"waiting", "yielding"})
  BY <1>1 DEF Untold, StopTaken, Members
<1>2. CASE Beneath
  BY <1>1, <1>2 DEF Beneath, Owner, Worker, Enter, EnterFails, ExitStops, Disconnect, Join,
        Finish, Raise, Read, PutRead, PutException, PutStop, PutThreadsafe, RunPut, PutNoWait,
        WhenFull, RunPutWith, handOff, consuming
<1>3. CASE Start \/ Above
  BY <1>1, <1>3 DEF Start, Above, vars, driverVars, consuming
<1>4. CASE PumpEnters
  <2>1. pump[reader] = "new" /\ taken' = taken
    BY <1>4 DEF PumpEnters, StartInventory, driverVars, Call!PumpStarts, Call!PumpStep
  <2>2. taken = <<>>
    BY <2>1 DEF Carried
  <2> QED BY <2>1, <2>2 DEF Untold, StopTaken, Members
<1>5. CASE PumpGets
  <2>1. Get
    BY <1>5 DEF PumpGets
  <2>2. /\ queue # <<>> /\ consumer = "waiting" /\ taken' = Append(taken, Head(queue))
        /\ Head(queue).kind = "stop" => consumer' \notin {"waiting", "yielding"}
    BY <2>1 DEF Get, After
  <2>3. taken \in Seq(Item) /\ Head(queue) \in Item
    BY <2>2 DEF TypeInv, TypeOK
  <2>4. Members(taken') = Members(taken) \union {Head(queue)}
    BY <2>2, <2>3, AppendMembers
  <2> QED BY <2>2, <2>4 DEF Untold, StopTaken, Members
<1>6. CASE PumpRelays
  BY <1>1, <1>6 DEF PumpRelays, Resume, driverVars
<1>7. CASE PumpSeesEnd \/ PumpCancelled
  BY <1>1, <1>7 DEF PumpSeesEnd, PumpCancelled, Close, vars, driverVars, consuming
<1>8. CASE UNCHANGED allVars
  BY <1>1, <1>8 DEF allVars, vars, driverVars, consuming
<1> QED BY <1>2, <1>3, <1>4, <1>5, <1>6, <1>7, <1>8 DEF FleetNext, Pump

LEMMA SpecCarried == FleetSpec => []Carried
BY SpecDriverInv, CallKept, InitCallInv, NextCallInv, InitCarried, NextCarried, PTL DEF FleetSpec

(***************************************************************************)
(* What ExitEndsStream rests on: the pump of a stream never waits at a     *)
(* driver whose worker ended without the sentinel being queued or          *)
(* scheduled for it.                                                       *)
(***************************************************************************)
THEOREM PumpToBeTold ==
  FleetSpec => [](consumer = "waiting" /\ worker = "ended" => \E x \in Waiting : x.kind = "stop")
<1>1. FleetInit => TypeInv /\ Numbered /\ Endings /\ StopHanded /\ Untold
  BY InitTypeInv, InitNumbered, InitEndings, InitStopHanded DEF FleetInit, Untold, Init
<1>2. TypeInv /\ Numbered /\ Endings /\ StopHanded /\ [Next]_vars
          => Endings' /\ StopHanded'
  BY NextEndings, NextHands, HandsStop
<1>3. TypeInv /\ Endings /\ StopHanded /\ Untold =>
        (consumer = "waiting" /\ worker = "ended" => \E x \in Waiting : x.kind = "stop")
  BY StopDue DEF Untold
<1> QED BY SpecDriverInv, SpecCarried, DriverKept, <1>1, <1>2, <1>3, NextUntold, PTL
        DEF FleetSpec
=============================================================================
