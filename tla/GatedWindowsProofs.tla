-------------------------- MODULE GatedWindowsProofs --------------------------
(***************************************************************************)
(* Theorems about GatedWindows for every queue bound, every number of      *)
(* reads and every number of calls, whatever the assembler chooses.        *)
(***************************************************************************)
EXTENDS GatedWindows, ThreadedDriverProofs, FiniteSetTheorems

Relayable == {x \in Item : x.kind \in {"kept", "edge", "exc"}} \union {END}

LEMMA EndIsNoItem == END \notin Item
<1> SUFFICES ASSUME END \in Item PROVE FALSE
  OBVIOUS
<1>1. DOMAIN END = {"end"}
  BY DEF END
<1>2. "kind" \in DOMAIN END
  BY DEF Item
<1> QED BY <1>1, <1>2

LEMMA NoneIsNoWindow == None \notin Windows
<1> SUFFICES ASSUME None \in Windows PROVE FALSE
  OBVIOUS
<1>1. DOMAIN None = {"none"}
  BY DEF None
<1>2. "from" \in DOMAIN None
  BY DEF Windows
<1> QED BY <1>1, <1>2

-----------------------------------------------------------------------------
(***************************************************************************)
(* The driver beneath.  A step of windows() is one of the driver's, or its *)
(* pump takes the oldest item of the queue as inventory() would.           *)
(***************************************************************************)
DriverInv == TypeInv /\ Numbered /\ Endings

LEMMA TakeIsOldest ==
  ASSUME NEW x, NEW next, NEW put, Take(x, next, put)
  PROVE  /\ TakesOldest /\ x = Head(queue)
         /\ UNCHANGED <<owner, stop, hand, consumer, count, yielded>>
BY DEF Take, TakeWith, TakesOldest

\* What the pump does with the item it takes.
TakeStep(x, next, put) ==
    /\ Take(x, next, put)
    /\ \/ x.kind \in {"kept", "edge", "exc"} /\ next = "getting" /\ put = <<x>>
       \/ x.kind = "ignored" /\ next = "getting" /\ put = <<>>
       \/ x.kind = "faulty" /\ next = "died" /\ put = <<>>
       \/ x.kind = "stop" /\ next = "ended" /\ put = <<END>>

LEMMA PumpTakes ==
  ASSUME PumpGets \/ PolicyRaises
  PROVE  \E x, next, put : TakeStep(x, next, put)
BY DEF PumpGets, PolicyRaises, TakeStep

LEMMA BeneathSteps == Beneath => Next /\ UNCHANGED <<callVars, taken>>
<1> SUFFICES ASSUME Beneath PROVE Next /\ UNCHANGED <<callVars, taken>>
  OBVIOUS
<1>1. Owner \/ Worker \/ RunPut
  BY DEF Beneath, Owner, Worker, Reads
<1>2. UNCHANGED taken
  <2>1. CASE Owner
    BY <2>1 DEF Owner, Enter, EnterFails, ExitStops, Disconnect, Join, consuming
  <2>2. CASE Worker
    BY <2>2 DEF Worker, Finish, Raise, Read, PutRead, PutException, PutStop, PutThreadsafe,
                consuming
  <2>3. CASE RunPut
    BY <2>3 DEF RunPut, PutNoWait, WhenFull, RunPutWith, consuming
  <2> QED BY <1>1, <2>1, <2>2, <2>3
<1> QED BY <1>1, <1>2 DEF Next, Beneath

\* The steps of the call that leave the driver alone.
CallAlone ==
    \/ StartWindows \/ RefuseWindows \/ Abandon \/ GoOn \/ Closed
    \/ LeaveBehind \/ StrayFinalised
    \/ Assembler \/ ForceCloses

LEMMA CallAloneKeeps == CallAlone => UNCHANGED vars
<1> SUFFICES ASSUME CallAlone PROVE UNCHANGED vars
  OBVIOUS
<1>1. CASE StartWindows \/ RefuseWindows
  BY <1>1 DEF StartWindows, RefuseWindows, Call
<1>2. CASE Abandon \/ GoOn \/ Closed \/ ForceCloses \/ LeaveBehind \/ StrayFinalised
  BY <1>2 DEF Abandon, GoOn, Closed, ForceCloses, LeaveBehind, StrayFinalised, Yield, Finally,
              CallStep, CallMoves
<1>3. CASE Assembler
  BY <1>3 DEF Assembler, Assemble, Raises, Ends, Opens, Releases, Collects, Ignores,
              Yield, Finally, CallStep, CallMoves
<1> QED BY <1>1, <1>2, <1>3 DEF CallAlone

LEMMA StrayIsOldest ==
  ASSUME StrayTakes
  PROVE  TakesOldest /\ UNCHANGED <<owner, stop, hand, consumer, count, yielded>>
BY DEF StrayTakes, TakesOldest

LEMMA WindowsSteps ==
  ASSUME [WindowsNext]_allVars
  PROVE  \/ [Next]_vars /\ UNCHANGED <<callVars, taken>>
         \/ \E x, next, put : TakeStep(x, next, put)
         \/ StrayTakes
         \/ CallAlone
<1>1. CASE Beneath
  BY <1>1, BeneathSteps
<1>2. CASE PumpGets \/ PolicyRaises
  BY <1>2, PumpTakes
<1>3. CASE UNCHANGED allVars
  BY <1>3 DEF allVars, vars
<1> QED BY <1>1, <1>2, <1>3 DEF WindowsNext, CallAlone

LEMMA TakeTypeInv ==
  ASSUME TypeInv, TakesOldest, UNCHANGED <<owner, stop, hand, consumer, count, yielded>>
  PROVE  TypeInv'
<1>1. queue' \in Seq(Item) /\ taken' \in Seq(Item)
  BY DEF TakesOldest, TypeInv, TypeOK
<1>2. UNCHANGED <<worker, puts, ready, lost>>
  BY DEF TakesOldest
<1>3. TypeOK'
  BY <1>1, <1>2 DEF TypeInv, TypeOK
<1>4. PutsBound'
  BY <1>2 DEF TypeInv, PutsBound
<1> QED BY <1>3, <1>4 DEF TypeInv

LEMMA InitDriverInv == WindowsInit => DriverInv
BY InitTypeInv, InitNumbered, InitEndings DEF WindowsInit, DriverInv

LEMMA NextDriverInv == DriverInv /\ [WindowsNext]_allVars => DriverInv'
<1> SUFFICES ASSUME DriverInv, [WindowsNext]_allVars PROVE DriverInv'
  OBVIOUS
<1>1. CASE [Next]_vars
  BY <1>1, NextTypeInv, NextNumbered, NextEndings DEF DriverInv
<1>2. CASE \E x, next, put : TakeStep(x, next, put)
  <2>1. PICK x, next, put : Take(x, next, put)
    BY <1>2 DEF TakeStep
  <2>2. TakesOldest /\ UNCHANGED <<owner, stop, hand, consumer, count, yielded>>
    BY <2>1, TakeIsOldest
  <2> QED BY <2>2, TakeTypeInv, TakeNumbered, TakeEndings DEF DriverInv
<1>3. CASE StrayTakes
  BY <1>3, StrayIsOldest, TakeTypeInv, TakeNumbered, TakeEndings DEF DriverInv
<1>4. CASE CallAlone
  BY <1>1, <1>4, CallAloneKeeps
<1> QED BY <1>1, <1>2, <1>3, <1>4, WindowsSteps

LEMMA WindowsRefine == TypeInv /\ [WindowsNext]_allVars => [Channel!Next]_(Channel!vars)
<1> SUFFICES ASSUME TypeInv, [WindowsNext]_allVars PROVE [Channel!Next]_(Channel!vars)
  OBVIOUS
<1>1. CASE [Next]_vars
  BY <1>1, NextRefines
<1>2. CASE \E x, next, put : TakeStep(x, next, put)
  <2>1. TakesOldest
    BY <1>2, TakeIsOldest DEF TakeStep
  <2> QED BY <2>1, TakeReceives
<1>3. CASE StrayTakes
  BY <1>3, StrayIsOldest, TakeReceives
<1>4. CASE CallAlone
  BY <1>1, <1>4, CallAloneKeeps
<1> QED BY <1>1, <1>2, <1>3, <1>4, WindowsSteps

(***************************************************************************)
(* With the pumps of windows() as its receivers, through any number of     *)
(* calls, pumps left behind and a policy that may raise, the bridge still  *)
(* implements the drop-oldest FIFO.                                        *)
(***************************************************************************)
THEOREM ChannelBeneathWindows == WindowsSpec => ImplementsChannel
<1>1. WindowsInit => DriverInv /\ Channel!Init
  BY InitDriverInv, InitRefines DEF WindowsInit
<1>2. DriverInv /\ [WindowsNext]_allVars => [Channel!Next]_(Channel!vars)
  BY WindowsRefine DEF DriverInv
<1> QED BY <1>1, <1>2, NextDriverInv, PTL
        DEF WindowsSpec, ImplementsChannel, Channel!Spec

-----------------------------------------------------------------------------
(***************************************************************************)
(* What was handed over: each number once, what the reader yielded before  *)
(* the exception and the sentinel, and nothing of it after them.           *)
(***************************************************************************)
HandedInv ==
    /\ \A x \in Handed : x \in Item /\ x.n <= puts
    /\ \A x, y \in Handed : x.n = y.n => x = y
    /\ \A x \in Handed : x.kind \in Reads => x.n <= MaxReads
    /\ \A x \in Handed : x.kind \in {"exc", "stop"} =>
           /\ worker \in {"ending", "ended"}
           /\ \A y \in Handed : y.kind \in Reads => y.n < x.n

LEMMA WindowsHands ==
  ASSUME TypeInv, [WindowsNext]_allVars
  PROVE  HandsNothing \/ \E x : HandsOver(x)
<1>1. CASE [Next]_vars
  BY <1>1, NextHands
<1>2. CASE \E x, next, put : TakeStep(x, next, put)
  BY <1>2, TakeIsOldest, TakeHandsNothing DEF TakeStep
<1>3. CASE StrayTakes
  BY <1>3, StrayIsOldest, TakeHandsNothing
<1>4. CASE CallAlone
  BY <1>1, <1>4, CallAloneKeeps
<1> QED BY <1>1, <1>2, <1>3, <1>4, WindowsSteps

LEMMA InitHandedInv == WindowsInit => HandedInv
<1> SUFFICES ASSUME WindowsInit PROVE HandedInv
  OBVIOUS
<1>1. taken = <<>> /\ queue = <<>> /\ ready = <<>> /\ lost = <<>>
  BY DEF WindowsInit, Init
<1>2. Handed = {}
  BY <1>1 DEF Handed, Waiting, Members
<1> QED BY <1>2 DEF HandedInv

LEMMA NextHandedInv == TypeInv /\ HandedInv /\ [WindowsNext]_allVars => HandedInv'
<1> SUFFICES ASSUME TypeInv, HandedInv, [WindowsNext]_allVars PROVE HandedInv'
  OBVIOUS
<1>1. CASE HandsNothing
  BY <1>1 DEF HandsNothing, HandedInv
<1>2. ASSUME NEW x, HandsOver(x) PROVE HandedInv'
  <2>1. /\ x \in Item /\ x.n = puts + 1 /\ puts' = puts + 1
        /\ Handed' = Handed \union {x}
    BY <1>2 DEF HandsOver
  <2>2. puts \in Nat /\ MaxReads \in Nat
    BY BoundsAssumption DEF TypeInv, TypeOK
  <2>3. \A y \in Handed : y \in Item /\ y.n \in Nat /\ y.n <= puts
    BY DEF HandedInv, Item
  <2>4. \A y \in Handed' : y \in Item /\ y.n <= puts'
    BY <2>1, <2>2, <2>3
  <2>5. \A y, z \in Handed' : y.n = z.n => y = z
    BY <2>1, <2>2, <2>3 DEF HandedInv
  <2>6. \A y \in Handed' : y.kind \in Reads => y.n <= MaxReads
    <3>1. x.kind \in Reads => puts < MaxReads
      BY <1>2 DEF HandsOver, Reads
    <3> QED BY <2>1, <2>2, <3>1 DEF HandedInv
  <2>7. ASSUME NEW y \in Handed', y.kind \in {"exc", "stop"}
        PROVE  worker' \in {"ending", "ended"} /\ \A z \in Handed' : z.kind \in Reads => z.n < y.n
    <3>1. CASE x.kind \in Reads
      <4>1. worker = "putting" /\ y \in Handed
        BY <1>2, <2>1, <2>7, <3>1 DEF HandsOver, Reads
      <4> QED BY <2>7, <4>1 DEF HandedInv
    <3>2. CASE x.kind \in {"exc", "stop"}
      <4>1. worker' \in {"ending", "ended"}
        BY <1>2, <3>2 DEF HandsOver, Reads
      <4>2. x.kind \notin Reads
        BY <3>2 DEF Reads
      <4>3. CASE y = x
        BY <2>1, <2>2, <2>3, <4>1, <4>2, <4>3
      <4>4. CASE y # x
        BY <2>1, <2>7, <4>1, <4>2, <4>4 DEF HandedInv
      <4> QED BY <4>3, <4>4
    <3> QED BY <1>2, <3>1, <3>2 DEF HandsOver
  <2> QED BY <2>4, <2>5, <2>6, <2>7 DEF HandedInv
<1> QED BY <1>1, <1>2, WindowsHands

-----------------------------------------------------------------------------
(* Numbers and edges. *)

\* What was taken or lost stays so.
LEMMA HistoriesGrow ==
  ASSUME TypeInv, [WindowsNext]_allVars
  PROVE  /\ taken' = taken \/ \E z \in Item : taken' = Append(taken, z)
         /\ lost' = lost \/ \E z \in Item : lost' = Append(lost, z)
<1>1. CASE UNCHANGED <<taken, lost>>
  BY <1>1
<1>2. CASE RunPut
  <2>1. queue # <<>> => Head(queue) \in Item
    BY DEF TypeInv, TypeOK
  <2>2. Full => queue # <<>>
    BY BoundsAssumption DEF Full
  <2> QED BY <1>2, <2>1, <2>2 DEF RunPut, PutNoWait, WhenFull, RunPutWith, consuming
<1>3. CASE TakesOldest
  <2>1. Head(queue) \in Item
    BY <1>3 DEF TakesOldest, TypeInv, TypeOK
  <2> QED BY <1>3, <2>1 DEF TakesOldest
<1>4. CASE Owner \/ Worker
  BY <1>1, <1>4 DEF Owner, Enter, EnterFails, ExitStops, Disconnect, Join, Worker, Finish,
                    Raise, Read, PutRead, PutException, PutStop, PutThreadsafe, handOff,
                    consuming
<1>5. CASE Consumer
  BY <1>1, <1>3, <1>5, GetTakesOldest DEF Consumer, StartInventory, Resume, Close
<1>6. CASE \E x, next, put : TakeStep(x, next, put)
  BY <1>3, <1>6, TakeIsOldest DEF TakeStep
<1>7. CASE StrayTakes
  BY <1>3, <1>7, StrayIsOldest
<1>8. CASE CallAlone \/ UNCHANGED vars
  BY <1>1, <1>8, CallAloneKeeps DEF vars
<1> QED BY <1>2, <1>4, <1>5, <1>6, <1>7, <1>8, WindowsSteps DEF Next

LEMMA GoneGrows ==
  ASSUME DriverInv, [WindowsNext]_allVars
  PROVE  gone \in Int /\ gone' \in Int /\ gone <= gone' /\ gone <= puts
<1>1. DriverInv'
  BY NextDriverInv
<1>2. /\ Len(taken) \in Nat /\ Len(lost) \in Nat /\ Len(taken') \in Nat /\ Len(lost') \in Nat
      /\ Len(queue) \in Nat /\ Len(ready) \in Nat /\ puts \in Nat
      /\ gone = Len(taken) + Len(lost) /\ gone' = Len(taken') + Len(lost')
  BY <1>1 DEF DriverInv, TypeInv, TypeOK, Numbered
<1>3. taken \in Seq(Item) /\ lost \in Seq(Item)
  BY DEF DriverInv, TypeInv, TypeOK
<1>4. Len(taken) <= Len(taken') /\ Len(lost) <= Len(lost')
  BY <1>2, <1>3, HistoriesGrow DEF DriverInv
<1>5. gone <= puts
  BY <1>2 DEF gone
<1> QED BY <1>2, <1>4, <1>5

\* What was taken is old, what waits is young.
LEMMA TakenOld ==
  ASSUME DriverInv, NEW x \in Members(taken)
  PROVE  x \in Item /\ x \in Handed /\ x.n \in Nat /\ x.n <= gone
<1>1. PICK i \in 1..Len(taken) : x = taken[i]
  BY DEF Members, DriverInv, TypeInv, TypeOK
<1>2. x \in Item
  BY <1>1 DEF DriverInv, TypeInv, TypeOK
<1>3. x.n \in Nat
  BY <1>2 DEF Item
<1> QED BY <1>1, <1>2, <1>3 DEF DriverInv, Numbered, Handed

LEMMA WaitingYoung ==
  ASSUME DriverInv, NEW x \in Waiting
  PROVE  x.n \in Int /\ gone < x.n
<1>1. /\ DOMAIN queue = 1..Len(queue) /\ DOMAIN ready = 1..Len(ready)
      /\ Len(queue) \in Nat /\ Len(ready) \in Nat /\ gone \in Int
  BY DEF DriverInv, TypeInv, TypeOK, gone
<1>2. CASE x \in Members(queue)
  <2>1. PICK i \in 1..Len(queue) : x = queue[i]
    BY <1>1, <1>2 DEF Members
  <2>2. x.n = gone + i
    BY <2>1 DEF DriverInv, Numbered
  <2> QED BY <1>1, <2>2
<1>3. CASE x \in Members(ready)
  <2>1. PICK i \in 1..Len(ready) : x = ready[i]
    BY <1>1, <1>3 DEF Members
  <2>2. x.n = gone + Len(queue) + i
    BY <2>1 DEF DriverInv, Numbered
  <2> QED BY <1>1, <2>2
<1> QED BY <1>2, <1>3 DEF Waiting

\* The head of the queue is next.
LEMMA HeadNext ==
  ASSUME DriverInv, queue # <<>>
  PROVE  Head(queue) \in Item /\ Head(queue) \in Handed /\ Head(queue).n = gone + 1
<1>1. Head(queue) = queue[1] /\ 1 \in 1..Len(queue) /\ DOMAIN queue = 1..Len(queue)
      /\ queue[1] \in Item
  BY DEF DriverInv, TypeInv, TypeOK
<1>2. queue[1].n = gone + 1
  BY <1>1 DEF DriverInv, Numbered
<1>3. queue[1] \in Members(queue)
  BY <1>1 DEF Members
<1> QED BY <1>1, <1>2, <1>3 DEF Handed, Waiting

\* What is gone and was not missed, the pump of a call took.
LEMMA NotMissed ==
  ASSUME DriverInv, NEW y \in Handed, y.n <= gone, y \notin Missed
  PROVE  y \in Members(taken) /\ y \notin strayed
<1>1. y \notin Members(lost)
  BY DEF Missed
<1>2. y \notin Waiting
  BY WaitingYoung DEF DriverInv, TypeInv, TypeOK, gone
<1> QED BY <1>1, <1>2 DEF Handed, Missed

LEMMA MembersFinite ==
  ASSUME NEW S, NEW s \in Seq(S)
  PROVE  IsFiniteSet(Members(s))
<1>1. s \in Surjection(1..Len(s), Members(s))
  BY DEF Surjection, Members
<1>2. IsFiniteSet(1..Len(s))
  BY FS_Interval
<1> QED BY <1>1, <1>2, FS_Surjection

LEMMA EdgesFinite ==
  ASSUME TypeInv
  PROVE  IsFiniteSet(Edges)
<1>1. /\ IsFiniteSet(Members(taken)) /\ IsFiniteSet(Members(queue))
      /\ IsFiniteSet(Members(ready)) /\ IsFiniteSet(Members(lost))
  BY MembersFinite DEF TypeInv, TypeOK
<1>2. IsFiniteSet(Members(queue) \union Members(ready))
  BY <1>1, FS_Union
<1>3. IsFiniteSet(Members(taken) \union Waiting)
  BY <1>1, <1>2, FS_Union DEF Waiting
<1>4. IsFiniteSet(Handed)
  BY <1>1, <1>3, FS_Union DEF Handed
<1>5. Edges \in SUBSET Handed
  BY DEF Edges
<1> QED BY <1>4, <1>5, FS_Subset

\* Whether an edge is active does not change when more is handed over.
LEMMA ActiveStays ==
  ASSUME TypeInv, HandedInv, [WindowsNext]_allVars, NEW y \in Handed
  PROVE  y \in Handed' /\ (IsActive(y)' <=> IsActive(y))
<1>1. CASE HandsNothing
  <2>1. Handed' = Handed
    BY <1>1 DEF HandsNothing
  <2> QED BY <2>1 DEF IsActive, Edges
<1>2. ASSUME NEW x, HandsOver(x) PROVE y \in Handed' /\ (IsActive(y)' <=> IsActive(y))
  <2>1. x.n = puts + 1 /\ Handed' = Handed \union {x}
    BY <1>2 DEF HandsOver
  <2>2. y.n \in Nat /\ y.n <= puts /\ puts \in Nat
    BY DEF HandedInv, Item, TypeInv, TypeOK
  <2>3. ~(x.n <= y.n)
    BY <2>1, <2>2
  <2>4. {e \in Edges' : e.n <= y.n} = {e \in Edges : e.n <= y.n}
    BY <2>1, <2>3 DEF Edges
  <2> QED BY <2>1, <2>4 DEF IsActive
<1> QED BY <1>1, <1>2, WindowsHands

\* The edge that follows an active one is a release.
LEMMA NextEdgeReleases ==
  ASSUME TypeInv, HandedInv, NEW e \in Edges, NEW x \in Edges, IsActive(e), e.n < x.n,
         \A f \in Edges : ~(e.n < f.n /\ f.n < x.n)
  PROVE  ~IsActive(x)
<1> DEFINE upTo(y) == {f \in Edges : f.n <= y.n}
<1>1. \A f \in Edges : f.n \in Nat
  BY DEF Edges, HandedInv, Item
<1>2. \A f \in Edges : f.n = x.n => f = x
  BY DEF Edges, HandedInv
<1>3. upTo(x) = upTo(e) \union {x}
  BY <1>1, <1>2
<1>4. x \notin upTo(e)
  BY <1>1
<1>5. IsFiniteSet(upTo(e))
  <2>1. upTo(e) \in SUBSET Edges
    OBVIOUS
  <2> QED BY <2>1, EdgesFinite, FS_Subset
<1> HIDE DEF upTo
<1>6. Cardinality(upTo(x)) = Cardinality(upTo(e)) + 1 /\ Cardinality(upTo(e)) \in Nat
  BY <1>3, <1>4, <1>5, FS_AddElement, FS_CardinalityType
<1>7. Cardinality(upTo(e)) % 2 = 1
  BY DEF IsActive, upTo
<1>8. Cardinality(upTo(x)) % 2 # 1
  BY <1>6, <1>7
<1> QED BY <1>8 DEF IsActive, upTo

-----------------------------------------------------------------------------
(***************************************************************************)
(* The relay holds items in order, without a gap but for what a pump left  *)
(* behind took, up to those the pump took last; what ends it was taken     *)
(* from the queue.                                                         *)
(***************************************************************************)
CallTypes ==
    /\ call \in {"idle", "refused", "waiting", "yielding", "closing", "closed", "ended", "raised"}
    /\ calls \in 0..MaxCalls
    /\ pump \in {"none", "getting", "died", "ended"}
    /\ relay \in Seq(Relayable)

RelayItems == Members(relay) \ {END}

\* The order of a relay; what ends it is its last entry.
Ordered(s) ==
    \A i, j \in DOMAIN s : i < j => s[i] # END /\ (s[j] # END => s[i].n < s[j].n)

Over == call \in {"ended", "raised"}

RelayInv ==
    /\ Ordered(relay)
    /\ RelayItems \subseteq Members(taken)
    /\ \A r \in RelayItems, y \in Members(taken) :
           y.kind \in {"kept", "edge"} /\ r.n < y.n => y \in RelayItems \union strayed
    /\ END \in Members(relay) => pump \in {"ended", "none"}
    /\ Running => pump # "none"
    /\ Over => \A r \in RelayItems : r.kind = "exc"
    /\ END \in Members(relay) \/ pump = "ended" \/ call = "ended" => StopTaken
    /\ call = "raised" => \E x \in Members(taken) : x.kind = "exc"

LEMMA RelayItem ==
  ASSUME CallTypes, NEW r \in RelayItems
  PROVE  r \in Item /\ r.n \in Nat /\ r.kind \in {"kept", "edge", "exc"}
<1>1. r \in Relayable /\ r # END
  BY DEF RelayItems, Members, CallTypes
<1>2. r \in Item /\ r.kind \in {"kept", "edge", "exc"}
  BY <1>1 DEF Relayable
<1> QED BY <1>2 DEF Item

\* The assembler takes the oldest entry, and what ends the relay last.
LEMMA OrderedTail ==
  ASSUME NEW s \in Seq(Relayable), s # <<>>, Ordered(s)
  PROVE  /\ Ordered(Tail(s))
         /\ Head(s) \notin Members(Tail(s))
         /\ \A r \in Members(Tail(s)) : Head(s) # END /\ (r # END => Head(s).n < r.n)
<1> DEFINE t == Tail(s)
<1>1. /\ Head(s) = s[1] /\ Len(s) \in Nat \ {0} /\ DOMAIN s = 1..Len(s)
      /\ DOMAIN t = 1..(Len(s) - 1)
      /\ \A i \in 1..(Len(s) - 1) : t[i] = s[i + 1]
  OBVIOUS
<1> HIDE DEF t
<1>2. ASSUME NEW i \in DOMAIN t, NEW j \in DOMAIN t, i < j
      PROVE  t[i] # END /\ (t[j] # END => t[i].n < t[j].n)
  <2>1. i + 1 \in DOMAIN s /\ j + 1 \in DOMAIN s /\ i + 1 < j + 1
    BY <1>1, <1>2
  <2> QED BY <1>1, <1>2, <2>1 DEF Ordered
<1>3. ASSUME NEW r \in Members(t)
      PROVE  Head(s) # END /\ (r # END => Head(s).n < r.n)
  <2>1. PICK i \in DOMAIN t : r = t[i]
    BY <1>3 DEF Members
  <2>2. 1 \in DOMAIN s /\ i + 1 \in DOMAIN s /\ 1 < i + 1 /\ r = s[i + 1]
    BY <1>1, <2>1
  <2> QED BY <1>1, <2>2 DEF Ordered
<1>4. Head(s) \notin Members(t)
  <2> SUFFICES ASSUME Head(s) \in Members(t) PROVE FALSE
    OBVIOUS
  <2>1. Head(s) # END /\ Head(s).n < Head(s).n
    BY <1>3
  <2>2. Head(s) \in Relayable
    OBVIOUS
  <2>3. Head(s) \in Item
    BY <2>1, <2>2 DEF Relayable
  <2>4. Head(s).n \in Nat
    BY <2>3 DEF Item
  <2> QED BY <2>1, <2>4
<1> QED BY <1>2, <1>3, <1>4 DEF t, Ordered

LEMMA OrderedAppend ==
  ASSUME NEW s \in Seq(Relayable), NEW x \in Relayable, Ordered(s), END \notin Members(s),
         x # END => \A r \in Members(s) : r.n < x.n
  PROVE  Ordered(Append(s, x))
<1> DEFINE t == Append(s, x)
<1>1. /\ DOMAIN t = 1..(Len(s) + 1) /\ DOMAIN s = 1..Len(s) /\ Len(s) \in Nat
      /\ t[Len(s) + 1] = x
      /\ \A i \in 1..Len(s) : t[i] = s[i]
  BY AppendProperties
<1> HIDE DEF t
<1>2. ASSUME NEW i \in DOMAIN t, NEW j \in DOMAIN t, i < j
      PROVE  t[i] # END /\ (t[j] # END => t[i].n < t[j].n)
  <2>1. i \in DOMAIN s /\ t[i] = s[i]
    BY <1>1, <1>2
  <2>2. s[i] \in Members(s)
    BY <2>1 DEF Members
  <2>3. CASE j \in DOMAIN s
    BY <1>1, <1>2, <2>1, <2>2, <2>3 DEF Ordered
  <2>4. CASE j = Len(s) + 1
    BY <1>1, <2>1, <2>2, <2>4
  <2> QED BY <1>1, <2>3, <2>4
<1>3. Ordered(t)
  BY <1>2 DEF Ordered
<1> QED BY <1>3 DEF t

\* The assembler takes item x from the relay.
TakenFromRelay(x) ==
    /\ x \in RelayItems
    /\ RelayItems' = RelayItems \ {x}
    /\ \A r \in RelayItems' : x.n < r.n

LEMMA HeadOfRelay ==
  ASSUME CallTypes, RelayInv, relay # <<>>, relay' = Tail(relay)
  PROVE  /\ relay' \in Seq(Relayable) /\ Ordered(relay)'
         /\ Members(relay)' \subseteq Members(relay)
         /\ Head(relay) # END => TakenFromRelay(Head(relay))
         /\ Head(relay) = END => RelayItems = {} /\ Members(relay)' = {}
<1>1. relay \in Seq(Relayable) /\ Ordered(relay)
  BY DEF CallTypes, RelayInv
<1>2. /\ Tail(relay) \in Seq(Relayable)
      /\ Members(relay) = {Head(relay)} \union Members(Tail(relay))
  BY <1>1, HeadMembers
<1>3. /\ Ordered(Tail(relay)) /\ Head(relay) \notin Members(Tail(relay))
      /\ \A r \in Members(Tail(relay)) :
            Head(relay) # END /\ (r # END => Head(relay).n < r.n)
  BY <1>1, OrderedTail
<1>4. Members(relay)' = Members(Tail(relay)) /\ (Ordered(relay)' <=> Ordered(Tail(relay)))
  BY DEF Members, Ordered
<1>5. CASE Head(relay) # END
  BY <1>2, <1>3, <1>4, <1>5 DEF RelayItems, TakenFromRelay
<1>6. CASE Head(relay) = END
  BY <1>2, <1>3, <1>4, <1>6 DEF RelayItems
<1> QED BY <1>2, <1>3, <1>4, <1>5, <1>6

\* The pump takes item x, which is younger than all that was taken and relayed.
PumpTook(x) ==
    /\ pump = "getting" /\ Running /\ ~Over /\ END \notin Members(relay)
    /\ x \in Item /\ x \in Handed /\ x.n = gone + 1 /\ x.n \in Nat
    /\ Members(taken)' = Members(taken) \union {x}
    /\ \A y \in Members(taken) : y.n \in Nat /\ y.n < x.n
    /\ UNCHANGED <<lost, gated, call, calls, window, given, strays, strayed>>
    /\ relay' \in Seq(Relayable) /\ Ordered(relay)'
    /\ \/ /\ x.kind \in {"kept", "edge", "exc"} /\ pump' = "getting"
          /\ RelayItems' = RelayItems \union {x} /\ END \notin Members(relay)'
       \/ /\ x.kind = "ignored" /\ pump' = "getting"
          /\ RelayItems' = RelayItems /\ END \notin Members(relay)'
       \/ /\ x.kind = "faulty" /\ pump' = "died"
          /\ RelayItems' = RelayItems /\ END \notin Members(relay)'
       \/ /\ x.kind = "stop" /\ pump' = "ended"
          /\ RelayItems' = RelayItems

LEMMA TakeIsPumpTook ==
  ASSUME DriverInv, CallTypes, RelayInv, NEW x, NEW next, NEW put, TakeStep(x, next, put)
  PROVE  PumpTook(x)
<1>1. /\ pump = "getting" /\ Running /\ queue # <<>> /\ x = Head(queue)
      /\ relay' = relay \o put /\ pump' = next
      /\ UNCHANGED <<lost, gated, call, calls, window, given, strays, strayed>>
  BY DEF TakeStep, Take, TakeWith
<1>2. x \in Item /\ x \in Handed /\ x.n = gone + 1 /\ x.n \in Nat
  <2>1. x \in Item /\ x \in Handed /\ x.n = gone + 1
    BY <1>1, HeadNext
  <2> QED BY <2>1 DEF Item
<1>3. Members(taken)' = Members(taken) \union {x}
  BY <1>1, TakeIsOldest, TakeHandsNothing DEF TakeStep, DriverInv
<1>4. \A y \in Members(taken) : y.n \in Nat /\ y.n < x.n
  <2>1. gone \in Int
    BY DEF gone, DriverInv, TypeInv, TypeOK
  <2> QED BY <1>2, <2>1, TakenOld
<1>5. ~Over /\ END \notin Members(relay) /\ Ordered(relay) /\ relay \in Seq(Relayable)
  BY <1>1 DEF Over, Running, RelayInv, CallTypes
<1>6. \A r \in Members(relay) : r.n < x.n
  BY <1>4, <1>5 DEF RelayInv, RelayItems
<1>7. relay \o <<>> = relay /\ \A e : relay \o <<e>> = Append(relay, e)
  BY <1>5
<1>8. CASE put = <<>>
  <2>1. relay' = relay
    BY <1>1, <1>7, <1>8
  <2>2. RelayItems' = RelayItems /\ END \notin Members(relay)'
    BY <1>5, <2>1 DEF RelayItems, Members
  <2>3. relay' \in Seq(Relayable) /\ Ordered(relay)'
    BY <1>5, <2>1 DEF Ordered
  <2>4. \/ x.kind = "ignored" /\ next = "getting"
        \/ x.kind = "faulty" /\ next = "died"
    BY <1>8 DEF TakeStep
  <2> QED BY <1>1, <1>2, <1>3, <1>4, <1>5, <2>2, <2>3, <2>4 DEF PumpTook
<1>9. CASE put # <<>>
  <2> DEFINE e == put[1]
  <2>1. /\ put = <<e>>
        /\ \/ x.kind \in {"kept", "edge", "exc"} /\ next = "getting" /\ e = x
           \/ x.kind = "stop" /\ next = "ended" /\ e = END
    BY <1>9 DEF TakeStep
  <2>2. relay' = Append(relay, e)
    BY <1>1, <1>7, <2>1
  <2> HIDE DEF e
  <2>3. e \in Relayable
    BY <1>2, <2>1 DEF Relayable
  <2>4. Members(Append(relay, e)) = Members(relay) \union {e}
    BY <1>5, <2>3, AppendMembers
  <2>5. Ordered(Append(relay, e)) /\ Append(relay, e) \in Seq(Relayable)
    BY <1>5, <1>6, <2>1, <2>3, OrderedAppend
  <2>6. Members(relay)' = Members(relay) \union {e}
    BY <2>2, <2>4 DEF Members
  <2>7. relay' \in Seq(Relayable) /\ Ordered(relay)'
    BY <2>2, <2>5 DEF Ordered
  <2>8. x # END
    BY <1>2, EndIsNoItem
  <2>9. CASE x.kind = "stop"
    <3>1. e = END /\ next = "ended"
      BY <2>1, <2>9
    <3>2. RelayItems' = RelayItems
      BY <2>6, <3>1 DEF RelayItems
    <3> QED BY <1>1, <1>2, <1>3, <1>4, <1>5, <2>7, <2>9, <3>1, <3>2 DEF PumpTook
  <2>10. CASE x.kind # "stop"
    <3>1. e = x /\ next = "getting" /\ x.kind \in {"kept", "edge", "exc"}
      BY <2>1, <2>10
    <3>2. RelayItems' = RelayItems \union {x} /\ END \notin Members(relay)'
      BY <1>5, <2>6, <2>8, <3>1 DEF RelayItems
    <3> QED BY <1>1, <1>2, <1>3, <1>4, <1>5, <2>7, <3>1, <3>2 DEF PumpTook
  <2> QED BY <2>9, <2>10
<1> QED BY <1>8, <1>9

LEMMA TakeRelay ==
  ASSUME CallTypes, RelayInv, NEW x, PumpTook(x)
  PROVE  CallTypes' /\ RelayInv'
<1>1. CallTypes'
  BY DEF PumpTook, CallTypes
<1>2. RelayItems' \subseteq Members(taken)'
  BY DEF PumpTook, RelayInv
<1>3. ASSUME NEW r \in RelayItems', NEW y \in Members(taken)',
             y.kind \in {"kept", "edge"}, r.n < y.n
      PROVE  y \in RelayItems' \union strayed'
  <2>1. CASE y \in Members(taken)
    <3>1. y.n \in Nat /\ y.n < x.n /\ x.n \in Nat
      BY <2>1 DEF PumpTook
    <3>2. r \in RelayItems
      BY <1>3, <3>1 DEF PumpTook
    <3> QED BY <1>3, <2>1, <3>2 DEF RelayInv, PumpTook
  <2>2. CASE y = x
    BY <1>3, <2>2 DEF PumpTook
  <2> QED BY <2>1, <2>2 DEF PumpTook
<1>4. END \in Members(relay)' => pump' \in {"ended", "none"}
  BY DEF PumpTook
<1>5. pump' # "none"
  BY DEF PumpTook
<1>6. END \in Members(relay)' \/ pump' = "ended" \/ call' = "ended" => StopTaken'
  BY DEF PumpTook, StopTaken, Over
<1>7. Ordered(relay)' /\ call' # "raised" /\ ~Over'
  BY DEF PumpTook, Over
<1> QED BY <1>1, <1>2, <1>3, <1>4, <1>5, <1>6, <1>7 DEF RelayInv

\* The relay is left as it is.
LEMMA PauseRelay ==
  ASSUME CallTypes, RelayInv, CallTypes', UNCHANGED <<taken, relay, strayed>>, ~Over' \/ Over,
         call' # call => ~Over',
         pump' \in {pump, "none"}, Running' => Running /\ pump' = pump
  PROVE  RelayInv'
<1>1. /\ Members(relay)' = Members(relay) /\ Members(taken)' = Members(taken)
      /\ RelayItems' = RelayItems
  BY DEF Members, RelayItems
<1>2. Ordered(relay)'
  BY DEF RelayInv, Ordered
<1>3. StopTaken' <=> StopTaken
  BY <1>1 DEF StopTaken
<1>4. Running' => pump' # "none"
  BY DEF RelayInv
<1>5. call' \in {"ended", "raised"} => call' = call
  BY DEF Over
<1> QED BY <1>1, <1>2, <1>3, <1>4, <1>5 DEF RelayInv

\* A pump left behind takes item x.
StrayTook(x) ==
    /\ x \in Item /\ x \in Handed /\ x.n = gone + 1 /\ x.n \in Nat
    /\ Members(taken)' = Members(taken) \union {x}
    /\ strayed' = strayed \union {x}
    /\ UNCHANGED <<lost, gated, call, calls, pump, relay, window, given>>

LEMMA StrayIsStrayTook ==
  ASSUME DriverInv, StrayTakes
  PROVE  StrayTook(Head(queue))
<1>1. /\ queue # <<>> /\ strayed' = strayed \union {Head(queue)}
      /\ UNCHANGED <<lost, gated, call, calls, pump, relay, window, given>>
  BY DEF StrayTakes
<1>2. Members(taken)' = Members(taken) \union {Head(queue)}
  BY StrayIsOldest, TakeHandsNothing DEF DriverInv
<1>3. Head(queue) \in Item /\ Head(queue) \in Handed /\ Head(queue).n = gone + 1
  BY <1>1, HeadNext
<1> QED BY <1>1, <1>2, <1>3 DEF StrayTook, Item

LEMMA StrayRelay ==
  ASSUME CallTypes, RelayInv, NEW x, StrayTook(x)
  PROVE  CallTypes' /\ RelayInv'
<1>1. CallTypes' /\ RelayItems' = RelayItems /\ Members(relay)' = Members(relay)
  BY DEF StrayTook, CallTypes, RelayItems, Members
<1>2. Ordered(relay)' /\ (Running' <=> Running) /\ (Over' <=> Over)
  BY DEF StrayTook, RelayInv, Ordered, Running, Over
<1>3. StopTaken => StopTaken'
  BY DEF StrayTook, StopTaken
<1> QED BY <1>1, <1>2, <1>3 DEF StrayTook, RelayInv

\* A call starts with an empty relay.
LEMMA StartRelay ==
  ASSUME CallTypes, StartWindows
  PROVE  CallTypes' /\ RelayInv' /\ RelayItems' = {}
<1>1. relay' = <<>> /\ pump' = "getting" /\ call' = "waiting" /\ calls' \in 0..MaxCalls
  BY CallsAssumption DEF StartWindows, Call, CallTypes
<1>2. Members(relay)' = {} /\ RelayItems' = {} /\ Ordered(relay)'
  BY <1>1 DEF Members, RelayItems, Ordered
<1>3. CallTypes'
  BY <1>1 DEF CallTypes
<1> QED BY <1>1, <1>2, <1>3 DEF RelayInv, Running

\* What taking the next item of the relay keeps, wherever the call goes.
LEMMA ConsumeRelay ==
  ASSUME CallTypes, RelayInv, UNCHANGED taken, NEW x \in RelayItems,
         relay # <<>>, x = Head(relay), relay' = Tail(relay)
  PROVE  /\ TakenFromRelay(x)
         /\ relay' \in Seq(Relayable) /\ Ordered(relay)'
         /\ Members(relay)' \subseteq Members(relay)
         /\ Members(taken)' = Members(taken)
         /\ RelayItems' \subseteq Members(taken)'
<1>1. Members(taken)' = Members(taken)
  BY DEF Members
<1>2. x # END
  BY DEF RelayItems
<1> QED BY <1>1, <1>2, HeadOfRelay DEF RelayInv, RelayItems

\* The assembler takes an item and the call goes on.
LEMMA GoOnRelay ==
  ASSUME CallTypes, RelayInv, UNCHANGED <<taken, calls, pump, strayed>>, NEW x \in RelayItems,
         relay # <<>>, x = Head(relay), relay' = Tail(relay),
         Running, call' \in {"waiting", "yielding"}
  PROVE  CallTypes' /\ RelayInv'
<1>1. /\ TakenFromRelay(x)
      /\ relay' \in Seq(Relayable) /\ Ordered(relay)'
      /\ Members(relay)' \subseteq Members(relay)
      /\ Members(taken)' = Members(taken)
      /\ RelayItems' \subseteq Members(taken)'
  BY ConsumeRelay
<1>2. CallTypes'
  BY <1>1 DEF CallTypes
<1>3. ~Over' /\ ~Over
  BY DEF Over, Running
<1>4. ASSUME NEW r \in RelayItems', NEW y \in Members(taken)',
             y.kind \in {"kept", "edge"}, r.n < y.n
      PROVE  y \in RelayItems' \union strayed'
  <2>1. r \in RelayItems /\ x.n < r.n
    BY <1>1 DEF TakenFromRelay
  <2>2. y \in RelayItems \union strayed
    BY <1>1, <1>4, <2>1 DEF RelayInv
  <2>3. r.n \in Nat /\ x.n \in Nat
    BY <2>1, RelayItem
  <2>4. y # x
    BY <1>4, <2>1, <2>3
  <2> QED BY <1>1, <2>2, <2>4 DEF TakenFromRelay
<1>5. StopTaken' <=> StopTaken
  BY <1>1 DEF StopTaken
<1> QED BY <1>1, <1>2, <1>3, <1>4, <1>5 DEF RelayInv

\* The exception is the last item.
LEMMA RaisesRelay ==
  ASSUME DriverInv, HandedInv, CallTypes, RelayInv, Raises
  PROVE  CallTypes' /\ RelayInv'
<1>1. PICK x \in RelayItems : x.kind = "exc" /\ relay # <<>> /\ x = Head(relay)
  BY DEF Raises, Relayed, RelayItems
<1>2. /\ relay' = Tail(relay) /\ call' = "raised" /\ pump' = "none"
      /\ UNCHANGED <<taken, calls>>
  BY DEF Raises, Finally, CallStep, CallMoves, vars
<1>3. /\ TakenFromRelay(x)
      /\ relay' \in Seq(Relayable) /\ Ordered(relay)'
      /\ Members(relay)' \subseteq Members(relay)
      /\ Members(taken)' = Members(taken)
      /\ RelayItems' \subseteq Members(taken)'
  BY <1>1, <1>2, ConsumeRelay
<1>4. CallTypes'
  BY <1>2, <1>3 DEF CallTypes
<1>5. x \in Members(taken) /\ x \in Handed
  BY TakenOld DEF RelayInv
<1>6. ASSUME NEW r \in RelayItems', NEW y \in Members(taken)',
             y.kind \in {"kept", "edge"}, r.n < y.n
      PROVE  FALSE
  <2>1. x.n < r.n /\ r \in RelayItems
    BY <1>3 DEF TakenFromRelay
  <2>2. y \in Handed /\ y.n \in Nat /\ r.n \in Nat /\ x.n \in Nat
    BY <1>3, <2>1, TakenOld, RelayItem
  <2>3. y.n < x.n
    BY <1>1, <1>5, <1>6, <2>2 DEF HandedInv, Reads
  <2> QED BY <1>6, <2>1, <2>2, <2>3
<1>7. END \in Members(relay)' => StopTaken'
  BY <1>3 DEF RelayInv, StopTaken
<1>8. ASSUME NEW r \in RelayItems' PROVE r.kind = "exc"
  <2>1. x.n < r.n /\ r \in RelayItems /\ r \in Members(taken)
    BY <1>3 DEF TakenFromRelay
  <2>2. r.kind \in {"kept", "edge", "exc"} /\ r.n \in Nat /\ x.n \in Nat /\ r \in Handed
    BY <2>1, RelayItem, TakenOld
  <2>3. r.kind \in Reads => r.n < x.n
    BY <1>1, <1>5, <2>2 DEF HandedInv
  <2> QED BY <2>1, <2>2, <2>3 DEF Reads
<1> QED BY <1>1, <1>2, <1>3, <1>4, <1>5, <1>6, <1>7, <1>8 DEF RelayInv, Running, Over

\* What ends the relay is its last entry.
LEMMA EndsRelay ==
  ASSUME CallTypes, RelayInv, Ends
  PROVE  /\ CallTypes' /\ RelayInv'
         /\ RelayItems = {} /\ RelayItems' = {} /\ pump = "ended"
<1>1. relay # <<>> /\ Head(relay) = END /\ Running /\ relay \in Seq(Relayable)
  BY DEF Ends, Relayed, Running, CallTypes
<1>2. /\ relay' = Tail(relay) /\ call' = "ended" /\ pump' = "none"
      /\ UNCHANGED <<taken, calls>>
  BY DEF Ends, Finally, CallStep, CallMoves, vars
<1>3. /\ relay' \in Seq(Relayable) /\ Ordered(relay)'
      /\ RelayItems = {} /\ Members(relay)' = {}
  BY <1>1, <1>2, HeadOfRelay
<1>4. CallTypes'
  BY <1>2, <1>3 DEF CallTypes
<1>5. END \in Members(relay)
  BY <1>1, HeadMembers
<1>6. StopTaken /\ pump = "ended"
  BY <1>1, <1>5 DEF RelayInv
<1>7. StopTaken' /\ RelayItems' = {}
  BY <1>2, <1>3, <1>6 DEF StopTaken, Members, RelayItems
<1> QED BY <1>2, <1>3, <1>4, <1>6, <1>7 DEF RelayInv, Running

-----------------------------------------------------------------------------
(* Windows. *)

WindowTypes == window \in Windows \union {None} /\ given \in Seq(Windows)

LEMMA Opened ==
  ASSUME NEW n \in 1..MaxReads
  PROVE  LET w == [from |-> n, to |-> 0, tags |-> <<>>]
         IN  w \in Windows /\ w.from = n /\ w.to = 0 /\ w.tags = <<>>
<1>1. <<>> \in Seq(Item) /\ 0 \in 0..MaxReads
  BY BoundsAssumption
<1> QED BY <1>1 DEF Windows

LEMMA ClosedWindow ==
  ASSUME NEW w \in Windows, NEW n \in 0..MaxReads
  PROVE  LET v == [w EXCEPT !.to = n]
         IN  v \in Windows /\ v.from = w.from /\ v.to = n /\ v.tags = w.tags
BY DEF Windows

LEMMA Collected ==
  ASSUME NEW w \in Windows, NEW x \in Item
  PROVE  LET v == [w EXCEPT !.tags = Append(@, x)]
         IN  v \in Windows /\ v.from = w.from /\ v.to = w.to /\ v.tags = Append(w.tags, x)
<1>1. w.tags \in Seq(Item)
  BY DEF Windows
<1>2. Append(w.tags, x) \in Seq(Item)
  BY <1>1
<1> QED BY <1>2 DEF Windows

LEMMA WindowParts ==
  ASSUME NEW w \in Windows
  PROVE  /\ w # None
         /\ w.from \in 1..MaxReads /\ w.from \in Nat
         /\ w.to \in 0..MaxReads /\ w.to \in Nat
         /\ w.tags \in Seq(Item)
<1>1. w.from \in 1..MaxReads /\ w.to \in 0..MaxReads /\ w.tags \in Seq(Item)
  BY DEF Windows
<1> QED BY <1>1, NoneIsNoWindow, BoundsAssumption

LEMMA MemberTypes ==
  ASSUME NEW S, NEW s \in Seq(S), NEW x \in Members(s)
  PROVE  x \in S
BY DEF Members

(***************************************************************************)
(* The open window opened at an active edge before all that is relayed and *)
(* holds every tag to keep that was taken for it since; no release was,    *)
(* and an active edge only if something was missed.                        *)
(***************************************************************************)
OpenedAt(w) == \E e \in Members(taken) : e.kind = "edge" /\ e.n = w.from /\ IsActive(e)

HoldsTags(w) ==
    /\ \A t \in Members(w.tags) : t \in Members(taken) /\ t.kind = "kept" /\ w.from < t.n
    /\ Increasing(w.tags)

Behind(w) == \A r \in RelayItems : w.from < r.n /\ \A t \in Members(w.tags) : t.n < r.n

Gathers(w) ==
    \A y \in Members(taken) :
        y.kind \in {"kept", "edge"} /\ w.from < y.n =>
            \/ y \in RelayItems \union Members(w.tags) \union strayed
            \/ Missed # {} /\ y.kind = "edge" /\ IsActive(y)

OpenInv == window # None =>
    OpenedAt(window) /\ HoldsTags(window) /\ Behind(window) /\ Gathers(window)

\* The windows given are over before what is still to come, and ordered.
GivenInv ==
    /\ \A g \in Members(given) :
        /\ g.from <= gone /\ g.to <= gone
        /\ \A r \in RelayItems : g.from < r.n /\ g.to < r.n
        /\ window # None => g.from < window.from /\ g.to < window.from
        /\ \A t \in Members(g.tags) :
              /\ t \in Members(taken)
              /\ \A r \in RelayItems : t.n < r.n
              /\ window # None => t.n < window.from
    /\ \A i, j \in DOMAIN given : i < j => given[i].from < given[j].from

\* An edge to open a window at is relayed, or its window is open or given.
Kept(e) ==
    \/ e \in RelayItems
    \/ window # None /\ window.from = e.n
    \/ \E g \in Members(given) : g.from = e.n

\* Over the one call, no active edge is passed over.
TripsInv ==
    /\ calls = 0 => taken = <<>> /\ ~Running
    /\ Missed = {} /\ calls = 1 =>
        \A e \in Members(taken) : e.kind = "edge" /\ IsActive(e) => Kept(e)

\* A step that leaves the driver alone leaves its items alone.
LEMMA DriverSame ==
  ASSUME UNCHANGED vars
  PROVE  /\ Members(taken)' = Members(taken) /\ lost' = lost /\ gone' = gone
         /\ Edges' = Edges /\ Handed' = Handed /\ taken' = taken
         /\ \A y : IsActive(y)' <=> IsActive(y)
<1>1. UNCHANGED <<taken, lost, queue, ready, puts>>
  BY DEF vars
<1>2. /\ Members(taken)' = Members(taken) /\ lost' = lost /\ gone' = gone
      /\ Handed' = Handed /\ taken' = taken
  BY <1>1 DEF Members, gone, Handed, Waiting
<1>3. Edges' = Edges
  BY <1>2 DEF Edges
<1>4. \A y : IsActive(y)' <=> IsActive(y)
  BY <1>3 DEF IsActive
<1> QED BY <1>2, <1>3, <1>4

\* With what was taken for nobody, what was missed is the same too.
LEMMA MissedSame ==
  ASSUME UNCHANGED vars, UNCHANGED strayed
  PROVE  Missed' = Missed
BY DEF vars, Missed, Members

LEMMA StrayedGrows ==
  ASSUME [WindowsNext]_allVars
  PROVE  strayed \subseteq strayed'
<1>1. CASE UNCHANGED callVars
  BY <1>1 DEF callVars
<1>2. CASE \E x, next, put : TakeStep(x, next, put)
  BY <1>2 DEF TakeStep, Take, TakeWith
<1>3. CASE StrayTakes
  BY <1>3 DEF StrayTakes
<1>4. CASE StartWindows \/ RefuseWindows
  BY <1>4 DEF StartWindows, RefuseWindows, Call
<1>5. CASE Abandon \/ GoOn \/ Closed \/ ForceCloses \/ LeaveBehind \/ StrayFinalised
  BY <1>5 DEF Abandon, GoOn, Closed, ForceCloses, LeaveBehind, StrayFinalised, Yield, Finally,
              CallStep, CallMoves
<1>6. CASE Assembler
  BY <1>6 DEF Assembler, Assemble, Raises, Ends, Opens, Releases, Collects, Ignores,
              Yield, Finally, CallStep, CallMoves
<1> QED BY <1>1, <1>2, <1>3, <1>4, <1>5, <1>6, WindowsSteps DEF CallAlone

LEMMA MissedGrows ==
  ASSUME TypeInv, [WindowsNext]_allVars
  PROVE  Missed \subseteq Missed'
<1>1. CASE lost' = lost
  BY <1>1, StrayedGrows DEF Missed, Members
<1>2. ASSUME NEW z \in Item, lost' = Append(lost, z) PROVE Missed \subseteq Missed'
  <2>1. Members(Append(lost, z)) = Members(lost) \union {z}
    BY AppendMembers DEF TypeInv, TypeOK
  <2>2. Members(lost)' = Members(lost) \union {z}
    BY <1>2, <2>1 DEF Members
  <2> QED BY <2>2, StrayedGrows DEF Missed
<1> QED BY <1>1, <1>2, HistoriesGrow

\* What makes window w an open one.
OpenParts(w) == OpenedAt(w) /\ HoldsTags(w) /\ Behind(w) /\ Gathers(w)

LEMMA OpenIs ==
  ASSUME NEW w, window' = w, OpenParts(w)'
  PROVE  OpenInv'
BY DEF OpenInv, OpenParts, OpenedAt, HoldsTags, Behind, Gathers

LEMMA OpenHas ==
  ASSUME OpenInv, NEW w, window = w, w # None
  PROVE  OpenParts(w)
BY DEF OpenInv, OpenParts

\* The window stays open at its edge, with its tags.
LEMMA OpenStays ==
  ASSUME TypeInv, HandedInv, [WindowsNext]_allVars,
         Members(taken) \subseteq Members(taken)', NEW w, OpenedAt(w), HoldsTags(w)
  PROVE  OpenedAt(w)' /\ HoldsTags(w)'
<1>1. PICK e \in Members(taken) : e.kind = "edge" /\ e.n = w.from /\ IsActive(e)
  BY DEF OpenedAt
<1>2. e \in Members(taken)' /\ IsActive(e)'
  BY <1>1, ActiveStays DEF Handed
<1>3. OpenedAt(w)'
  BY <1>1, <1>2 DEF OpenedAt
<1>4. HoldsTags(w)'
  BY DEF HoldsTags
<1> QED BY <1>3, <1>4

\* The window and the relay are left alone.
LEMMA OpenPause ==
  ASSUME TypeInv, HandedInv, OpenInv, [WindowsNext]_allVars,
         UNCHANGED <<relay, window>>,
         Members(taken) \subseteq Members(taken)',
         \A y \in Members(taken)' : y \in Members(taken) \union strayed'
  PROVE  OpenInv'
<1> SUFFICES ASSUME window # None PROVE OpenInv'
  BY DEF OpenInv
<1> PICK w : w = window
  OBVIOUS
<1>1. OpenedAt(w) /\ HoldsTags(w) /\ Behind(w) /\ Gathers(w)
  BY OpenHas DEF OpenParts
<1>2. RelayItems' = RelayItems
  BY DEF Members, RelayItems
<1>3. OpenedAt(w)' /\ HoldsTags(w)'
  BY <1>1, OpenStays
<1>4. Behind(w)'
  BY <1>1, <1>2 DEF Behind
<1>5. \A y \in Members(taken) : IsActive(y)' <=> IsActive(y)
  BY ActiveStays DEF Handed
<1>6. Gathers(w)'
  BY <1>1, <1>2, <1>5, MissedGrows, StrayedGrows DEF Gathers
<1> QED BY <1>3, <1>4, <1>6, OpenIs DEF OpenParts

\* The pump takes an item: it is relayed if it is one to gather.
LEMMA OpenTake ==
  ASSUME DriverInv, HandedInv, CallTypes, WindowTypes, RelayInv, OpenInv,
         [WindowsNext]_allVars, NEW x, PumpTook(x)
  PROVE  OpenInv'
<1> SUFFICES ASSUME window # None PROVE OpenInv'
  BY DEF OpenInv, PumpTook
<1> PICK w : w = window
  OBVIOUS
<1>1. OpenedAt(w) /\ HoldsTags(w) /\ Behind(w) /\ Gathers(w)
  BY OpenHas DEF OpenParts
<1>2. /\ Members(taken)' = Members(taken) \union {x} /\ strayed' = strayed /\ window' = w
      /\ \A y \in Members(taken) : y.n \in Nat /\ y.n < x.n
      /\ x.n \in Nat
  BY DEF PumpTook
<1>3. /\ RelayItems \subseteq RelayItems' /\ RelayItems' \subseteq RelayItems \union {x}
      /\ x.kind \in {"kept", "edge"} => x \in RelayItems'
  BY DEF PumpTook
<1>4. OpenedAt(w)' /\ HoldsTags(w)'
  BY <1>1, <1>2, OpenStays DEF DriverInv
<1>5. Behind(w)'
  <2>1. w.from < x.n
    BY <1>1, <1>2 DEF OpenedAt
  <2>2. \A t \in Members(w.tags) : t.n < x.n
    BY <1>1, <1>2 DEF HoldsTags
  <2> QED BY <1>1, <1>3, <2>1, <2>2 DEF Behind
<1>6. Missed \subseteq Missed' /\ \A y \in Members(taken) : IsActive(y)' <=> IsActive(y)
  BY MissedGrows, ActiveStays DEF DriverInv, Handed
<1>7. Gathers(w)'
  <2> SUFFICES ASSUME NEW y \in Members(taken)', y.kind \in {"kept", "edge"}, w.from < y.n
               PROVE  \/ y \in RelayItems' \union Members(w.tags) \union strayed'
                      \/ Missed' # {} /\ y.kind = "edge" /\ IsActive(y)'
    BY DEF Gathers
  <2>1. CASE y \in Members(taken)
    BY <1>1, <1>2, <1>3, <1>6, <2>1 DEF Gathers
  <2>2. CASE y = x
    BY <1>3, <2>2
  <2> QED BY <1>2, <2>1, <2>2
<1> QED BY <1>2, <1>4, <1>5, <1>7, OpenIs DEF OpenParts

\* The exception comes after all there is to gather.
LEMMA OpenRaises ==
  ASSUME DriverInv, HandedInv, CallTypes, RelayInv, OpenInv, [WindowsNext]_allVars, Raises
  PROVE  OpenInv'
<1>1. PICK x \in RelayItems : x.kind = "exc" /\ relay # <<>> /\ x = Head(relay)
  BY DEF Raises, Relayed, RelayItems
<1>2. relay' = Tail(relay) /\ UNCHANGED vars /\ UNCHANGED <<window, strayed>>
  BY DEF Raises, Finally, CallStep, CallMoves
<1> SUFFICES ASSUME window # None PROVE OpenInv'
  BY <1>2 DEF OpenInv
<1> PICK w : w = window
  OBVIOUS
<1>3. OpenedAt(w) /\ HoldsTags(w) /\ Behind(w) /\ Gathers(w)
  BY OpenHas DEF OpenParts
<1>4. /\ Members(taken)' = Members(taken) /\ Missed' = Missed
      /\ \A y : IsActive(y)' <=> IsActive(y)
  BY <1>2, DriverSame, MissedSame
<1>5. TakenFromRelay(x)
  BY <1>1, <1>2, ConsumeRelay DEF vars
<1>6. OpenedAt(w)' /\ HoldsTags(w)'
  BY <1>3, <1>4, OpenStays DEF DriverInv
<1>7. Behind(w)'
  BY <1>3, <1>5 DEF Behind, TakenFromRelay
<1>8. Gathers(w)'
  BY <1>1, <1>2, <1>3, <1>4, <1>5 DEF Gathers, TakenFromRelay
<1> QED BY <1>2, <1>6, <1>7, <1>8, OpenIs DEF OpenParts

\* When the stream ends the relay holds nothing more.
LEMMA OpenEnds ==
  ASSUME DriverInv, HandedInv, CallTypes, RelayInv, OpenInv, [WindowsNext]_allVars, Ends
  PROVE  OpenInv'
<1>1. RelayItems = {} /\ RelayItems' = {} /\ pump = "ended"
  BY EndsRelay
<1>2. UNCHANGED vars /\ UNCHANGED <<window, strayed>>
  BY DEF Ends, Finally, CallStep, CallMoves
<1> SUFFICES ASSUME window # None PROVE OpenInv'
  BY <1>2 DEF OpenInv
<1> PICK w : w = window
  OBVIOUS
<1>3. OpenedAt(w) /\ HoldsTags(w) /\ Behind(w) /\ Gathers(w)
  BY OpenHas DEF OpenParts
<1>4. /\ Members(taken)' = Members(taken) /\ Missed' = Missed
      /\ \A y : IsActive(y)' <=> IsActive(y)
  BY <1>2, DriverSame, MissedSame
<1>5. OpenedAt(w)' /\ HoldsTags(w)'
  BY <1>3, <1>4, OpenStays DEF DriverInv
<1>6. Behind(w)'
  BY <1>1 DEF Behind
<1>7. Gathers(w)'
  BY <1>1, <1>2, <1>3, <1>4 DEF Gathers
<1> QED BY <1>2, <1>5, <1>6, <1>7, OpenIs DEF OpenParts

\* While nothing is missed, the next edge after an open window's is a release.
LEMMA NextIsRelease ==
  ASSUME DriverInv, HandedInv, CallTypes, RelayInv, OpenInv, Missed = {}, window # None,
         NEW x \in RelayItems, x.kind = "edge", \A r \in RelayItems : r = x \/ x.n < r.n
  PROVE  ~IsActive(x)
<1> PICK w : w = window
  OBVIOUS
<1>1. OpenedAt(w) /\ HoldsTags(w) /\ Behind(w) /\ Gathers(w)
  BY OpenHas DEF OpenParts
<1>2. PICK e \in Members(taken) : e.kind = "edge" /\ e.n = w.from /\ IsActive(e)
  BY <1>1 DEF OpenedAt
<1>3. /\ x \in Members(taken) /\ x \in Handed /\ x.n \in Nat /\ x.n <= gone
      /\ e \in Handed /\ gone \in Int
  BY TakenOld DEF RelayInv, gone, DriverInv, TypeInv, TypeOK
<1>4. e.n < x.n
  BY <1>1, <1>2 DEF Behind
<1>5. ASSUME NEW f \in Edges, e.n < f.n, f.n < x.n PROVE FALSE
  <2>1. f \in Handed /\ f.kind = "edge"
    BY DEF Edges
  <2>2. f.n \in Nat
    BY <2>1 DEF HandedInv, Item
  <2>3. f \in Members(taken) /\ f \notin strayed
    BY <1>3, <1>5, <2>1, <2>2, NotMissed
  <2>4. f \notin Members(w.tags)
    BY <1>1, <2>1 DEF HoldsTags
  <2>5. f \in RelayItems
    BY <1>1, <1>2, <1>5, <2>1, <2>3, <2>4 DEF Gathers
  <2> QED BY <1>3, <1>5, <2>2, <2>5
<1>6. e \in Edges /\ x \in Edges
  BY <1>2, <1>3 DEF Edges
<1> QED BY <1>2, <1>4, <1>5, <1>6, NextEdgeReleases DEF DriverInv

\* The assembler takes item x, and the driver is left alone.
Assembles(x) ==
    /\ x \in RelayItems /\ x.n \in Nat /\ x \in Item /\ x \in Members(taken)
    /\ \A r \in RelayItems : r = x \/ x.n < r.n
    /\ TakenFromRelay(x)
    /\ ~Over /\ ~Over' /\ pump' = pump /\ calls' = calls
    /\ UNCHANGED vars /\ UNCHANGED <<strays, strayed>>

LEMMA AssembleTakes ==
  ASSUME CallTypes, RelayInv, NEW x \in Members(relay) \ {END}, Consume(x),
         Opens(x) \/ Releases(x) \/ Collects(x) \/ Ignores(x)
  PROVE  Assembles(x) /\ CallTypes' /\ RelayInv'
<1>1. /\ call = "waiting" /\ relay # <<>> /\ x = Head(relay)
      /\ relay' = Tail(relay) /\ pump' = pump
  BY DEF Consume, Relayed
<1>2. /\ call' \in {"waiting", "yielding"} /\ calls' = calls
      /\ UNCHANGED vars /\ UNCHANGED <<strays, strayed>>
  <2>1. CASE Opens(x)
    BY <2>1 DEF Opens, CallStep, CallMoves
  <2>2. CASE Releases(x)
    BY <2>2 DEF Releases, Yield, CallStep, CallMoves
  <2>3. CASE Collects(x)
    BY <2>3 DEF Collects, CallStep, CallMoves
  <2>4. CASE Ignores(x)
    BY <2>4 DEF Ignores, CallStep, CallMoves
  <2> QED BY <2>1, <2>2, <2>3, <2>4
<1>3. x \in RelayItems /\ UNCHANGED taken
  BY <1>2 DEF RelayItems, vars
<1>4. CallTypes' /\ RelayInv'
  BY <1>1, <1>2, <1>3, GoOnRelay DEF Running
<1>5. TakenFromRelay(x)
  BY <1>1, <1>3, ConsumeRelay
<1>6. x.n \in Nat /\ x \in Item /\ x \in Members(taken)
  BY <1>3, RelayItem DEF RelayInv
<1>7. \A r \in RelayItems : r = x \/ x.n < r.n
  BY <1>5 DEF TakenFromRelay
<1>8. ~Over /\ ~Over'
  BY <1>1, <1>2 DEF Over
<1> QED BY <1>1, <1>2, <1>3, <1>4, <1>5, <1>6, <1>7, <1>8 DEF Assembles

LEMMA AssembleSame ==
  ASSUME NEW x, Assembles(x)
  PROVE  /\ Members(taken)' = Members(taken) /\ Missed' = Missed /\ strayed' = strayed
         /\ \A y : IsActive(y)' <=> IsActive(y)
BY DriverSame, MissedSame DEF Assembles

\* A window opens at item x.
LEMMA OpenFresh ==
  ASSUME DriverInv, CallTypes, RelayInv, NEW x, Assembles(x),
         x.kind = "edge", IsActive(x),
         NEW w, window' = w, w.from = x.n, w.tags = <<>>
  PROVE  OpenInv'
<1>1. /\ Members(taken)' = Members(taken) /\ strayed' = strayed
      /\ \A y : IsActive(y)' <=> IsActive(y)
  BY AssembleSame
<1>2. Members(w.tags) = {}
  BY DEF Members
<1>3. OpenedAt(w)'
  BY <1>1 DEF Assembles, OpenedAt
<1>4. HoldsTags(w)'
  BY <1>2 DEF HoldsTags, Increasing
<1>5. Behind(w)'
  BY <1>2 DEF Behind, Assembles, TakenFromRelay
<1>6. Gathers(w)'
  <2> SUFFICES ASSUME NEW y \in Members(taken), y.kind \in {"kept", "edge"}, x.n < y.n
               PROVE  y \in RelayItems' \union strayed'
    BY <1>1 DEF Gathers
  <2>1. y \in RelayItems \union strayed
    BY DEF RelayInv, Assembles
  <2>2. y # x
    BY DEF Assembles
  <2> QED BY <1>1, <2>1, <2>2 DEF Assembles, TakenFromRelay
<1> QED BY <1>3, <1>4, <1>5, <1>6, OpenIs DEF OpenParts

\* An active edge while the window is open: only if a release was missed.
LEMMA OpenRetained ==
  ASSUME DriverInv, HandedInv, CallTypes, RelayInv, OpenInv, [WindowsNext]_allVars,
         NEW x, Assembles(x), x.kind = "edge", IsActive(x), UNCHANGED window
  PROVE  OpenInv'
<1> SUFFICES ASSUME window # None PROVE OpenInv'
  BY DEF OpenInv
<1> PICK w : w = window
  OBVIOUS
<1>1. OpenedAt(w) /\ HoldsTags(w) /\ Behind(w) /\ Gathers(w)
  BY OpenHas DEF OpenParts
<1>2. /\ Members(taken)' = Members(taken) /\ Missed' = Missed /\ strayed' = strayed
      /\ \A y : IsActive(y)' <=> IsActive(y)
  BY AssembleSame
<1>3. Missed # {}
  BY NextIsRelease DEF Assembles
<1>4. OpenedAt(w)' /\ HoldsTags(w)'
  BY <1>1, <1>2, OpenStays DEF DriverInv
<1>5. Behind(w)'
  BY <1>1 DEF Behind, Assembles, TakenFromRelay
<1>6. Gathers(w)'
  BY <1>1, <1>2, <1>3 DEF Gathers, Assembles, TakenFromRelay
<1> QED BY <1>4, <1>5, <1>6, OpenIs DEF OpenParts

\* A tag to keep goes from the relay into the window.
LEMMA OpenCollects ==
  ASSUME DriverInv, HandedInv, CallTypes, WindowTypes, RelayInv, OpenInv,
         [WindowsNext]_allVars,
         NEW x, Assembles(x), x.kind = "kept", window # None,
         NEW v, window' = v, v.from = window.from, v.tags = Append(window.tags, x)
  PROVE  OpenInv'
<1> PICK w : w = window
  OBVIOUS
<1>1. OpenedAt(w) /\ HoldsTags(w) /\ Behind(w) /\ Gathers(w)
  BY OpenHas DEF OpenParts
<1>2. /\ Members(taken)' = Members(taken) /\ Missed' = Missed /\ strayed' = strayed
      /\ \A y : IsActive(y)' <=> IsActive(y)
  BY AssembleSame
<1>3. w.tags \in Seq(Item) /\ x \in Item /\ x \in RelayItems /\ x \in Members(taken)
  BY WindowParts DEF WindowTypes, Assembles
<1>4. Members(v.tags) = Members(w.tags) \union {x}
  BY <1>3, AppendMembers
<1>5. OpenedAt(v)'
  <2>1. OpenedAt(w)'
    BY <1>1, <1>2, OpenStays DEF DriverInv
  <2> QED BY <2>1 DEF OpenedAt
<1>6. HoldsTags(v)'
  <2>1. \A t \in Members(w.tags) : t.n < x.n
    BY <1>1, <1>3 DEF Behind
  <2>2. Increasing(v.tags)
    BY <1>1, <1>3, <2>1, AppendIncreasing DEF HoldsTags
  <2>3. w.from < x.n
    BY <1>1, <1>3 DEF Behind
  <2> QED BY <1>1, <1>2, <1>3, <1>4, <2>2, <2>3 DEF HoldsTags
<1>7. Behind(v)'
  BY <1>1, <1>4 DEF Behind, Assembles, TakenFromRelay
<1>8. Gathers(v)'
  BY <1>1, <1>2, <1>4 DEF Gathers, Assembles, TakenFromRelay
<1> QED BY <1>5, <1>6, <1>7, <1>8, OpenIs DEF OpenParts

-----------------------------------------------------------------------------
(* The windows given. *)

\* The assembler gives the open window, closed at number n.
Gives(n) ==
    /\ window # None /\ window' = None
    /\ \E v \in Windows :
          /\ v.from = window.from /\ v.to = n /\ v.tags = window.tags
          /\ given' = Append(given, v)

LEMMA YieldGives ==
  ASSUME WindowTypes, NEW n \in 0..MaxReads, Yield(n)
  PROVE  Gives(n) /\ WindowTypes'
<1>1. /\ window # None /\ window' = None
      /\ given' = Append(given, [window EXCEPT !.to = n])
  BY DEF Yield
<1>2. window \in Windows
  BY <1>1 DEF WindowTypes
<1> DEFINE v == [window EXCEPT !.to = n]
<1>3. v \in Windows /\ v.from = window.from /\ v.to = n /\ v.tags = window.tags
  BY <1>2, ClosedWindow
<1> HIDE DEF v
<1>4. given' = Append(given, v)
  BY <1>1 DEF v
<1>5. given' \in Seq(Windows)
  BY <1>3, <1>4 DEF WindowTypes
<1> QED BY <1>1, <1>3, <1>4, <1>5 DEF Gives, WindowTypes

\* One window more.
LEMMA GivenMore ==
  ASSUME WindowTypes, NEW v \in Windows, given' = Append(given, v)
  PROVE  /\ Members(given)' = Members(given) \union {v}
         /\ DOMAIN given' = DOMAIN given \union {Len(given) + 1}
         /\ DOMAIN given = 1..Len(given) /\ Len(given) \in Nat
         /\ given'[Len(given) + 1] = v
         /\ \A i \in DOMAIN given : given'[i] = given[i] /\ given[i] \in Members(given)
         /\ \A i, j \in DOMAIN given' :
               i < j => i \in DOMAIN given /\ (j \in DOMAIN given \/ j = Len(given) + 1)
<1>1. given \in Seq(Windows)
  BY DEF WindowTypes
<1>2. Members(Append(given, v)) = Members(given) \union {v}
  BY <1>1, AppendMembers
<1>3. Members(given)' = Members(Append(given, v))
  BY DEF Members
<1>4. /\ DOMAIN given' = 1..(Len(given) + 1) /\ DOMAIN given = 1..Len(given)
      /\ Len(given) \in Nat /\ given'[Len(given) + 1] = v
      /\ \A i \in 1..Len(given) : given'[i] = given[i]
  BY <1>1, AppendProperties
<1>5. \A i \in DOMAIN given : given[i] \in Members(given)
  BY DEF Members
<1> QED BY <1>2, <1>3, <1>4, <1>5

\* No window is given; what is relayed, and where a window opens, is young.
LEMMA GivenKept ==
  ASSUME DriverInv, WindowTypes, GivenInv, [WindowsNext]_allVars, UNCHANGED given,
         Members(taken) \subseteq Members(taken)',
         \A r \in RelayItems' : r \in RelayItems \/ gone < r.n,
         window' = None \/ window' = window \/ (window # None /\ window'.from = window.from)
             \/ \E x \in RelayItems : window'.from = x.n,
         \A r \in RelayItems \union RelayItems' : r.n \in Nat
  PROVE  GivenInv'
<1>1. /\ Members(given)' = Members(given)
      /\ \A g \in Members(given) : g.from \in Nat /\ g.to \in Nat
  BY MemberTypes, WindowParts DEF WindowTypes, Members
<1>2. gone \in Int /\ gone' \in Int /\ gone <= gone'
  BY GoneGrows
<1>3. ASSUME NEW g \in Members(given) PROVE g.from <= gone' /\ g.to <= gone'
  BY <1>1, <1>2 DEF GivenInv
<1>4. ASSUME NEW g \in Members(given), NEW r \in RelayItems'
      PROVE  g.from < r.n /\ g.to < r.n
  <2>1. CASE r \in RelayItems
    BY <2>1 DEF GivenInv
  <2>2. CASE gone < r.n
    <3>1. g.from <= gone /\ g.to <= gone /\ r.n \in Nat
      BY DEF GivenInv
    <3> QED BY <1>1, <1>2, <2>2, <3>1
  <2> QED BY <2>1, <2>2
<1>5. ASSUME NEW g \in Members(given), window' # None
      PROVE  g.from < window'.from /\ g.to < window'.from
  <2>1. CASE window # None /\ window'.from = window.from
    BY <2>1 DEF GivenInv
  <2>2. CASE \E x \in RelayItems : window'.from = x.n
    BY <2>2 DEF GivenInv
  <2> QED BY <1>5, <2>1, <2>2
<1>6. \A i, j \in DOMAIN given' : i < j => given'[i].from < given'[j].from
  BY DEF GivenInv
<1>7. ASSUME NEW g \in Members(given), NEW t \in Members(g.tags)
      PROVE  /\ t \in Members(taken)'
             /\ \A r \in RelayItems' : t.n < r.n
             /\ window' # None => t.n < window'.from
  <2>1. t \in Members(taken)
    BY DEF GivenInv
  <2>2. t.n \in Nat /\ t.n <= gone
    BY <2>1, TakenOld
  <2>3. \A r \in RelayItems : t.n < r.n
    BY DEF GivenInv
  <2>4. \A r \in RelayItems' : t.n < r.n
    BY <1>2, <2>2, <2>3
  <2>5. window # None => t.n < window.from
    BY DEF GivenInv
  <2> QED BY <2>1, <2>3, <2>4, <2>5
<1> QED BY <1>1, <1>3, <1>4, <1>5, <1>6, <1>7 DEF GivenInv

LEMMA GivenGives ==
  ASSUME DriverInv, WindowTypes, OpenInv, GivenInv, UNCHANGED vars,
         NEW n \in 0..MaxReads, Gives(n), n <= gone,
         RelayItems' \subseteq RelayItems, \A r \in RelayItems' : n < r.n
  PROVE  GivenInv'
<1> PICK w : w = window
  OBVIOUS
<1>1. OpenedAt(w) /\ HoldsTags(w) /\ Behind(w) /\ Gathers(w)
  BY OpenHas DEF OpenParts, Gives
<1>2. PICK v \in Windows :
         /\ v.from = w.from /\ v.to = n /\ v.tags = w.tags
         /\ given' = Append(given, v)
  BY DEF Gives
<1>3. /\ Members(given)' = Members(given) \union {v}
      /\ given'[Len(given) + 1] = v
      /\ \A i \in DOMAIN given : given'[i] = given[i] /\ given[i] \in Members(given)
      /\ \A i, j \in DOMAIN given' :
            i < j => i \in DOMAIN given /\ (j \in DOMAIN given \/ j = Len(given) + 1)
  BY <1>2, GivenMore
<1>4. window' = None /\ window = w /\ window # None /\ gone' = gone
  BY DriverSame DEF Gives
<1>5. v.from <= gone
  <2>1. PICK e \in Members(taken) : e.n = w.from
    BY <1>1 DEF OpenedAt
  <2> QED BY <1>2, <2>1, TakenOld
<1>6. ASSUME NEW g \in Members(given)'
      PROVE  g.from <= gone' /\ g.to <= gone' /\ \A r \in RelayItems' : g.from < r.n /\ g.to < r.n
  <2>1. CASE g \in Members(given)
    BY <1>4, <2>1 DEF GivenInv
  <2>2. CASE g = v
    BY <1>1, <1>2, <1>4, <1>5, <2>2 DEF Behind
  <2> QED BY <1>3, <2>1, <2>2
<1>7. ASSUME NEW i \in DOMAIN given', NEW j \in DOMAIN given', i < j
      PROVE  given'[i].from < given'[j].from
  <2>1. i \in DOMAIN given /\ given'[i] = given[i] /\ given[i] \in Members(given)
    BY <1>3, <1>7
  <2>2. CASE j \in DOMAIN given
    BY <1>3, <1>7, <2>1, <2>2 DEF GivenInv
  <2>3. CASE j = Len(given) + 1
    BY <1>2, <1>3, <1>4, <2>1, <2>3 DEF GivenInv
  <2> QED BY <1>3, <1>7, <2>2, <2>3
<1>8. ASSUME NEW g \in Members(given)', NEW t \in Members(g.tags)
      PROVE  t \in Members(taken)' /\ \A r \in RelayItems' : t.n < r.n
  <2>1. Members(taken)' = Members(taken)
    BY DriverSame
  <2>2. CASE g \in Members(given)
    BY <2>1, <2>2 DEF GivenInv
  <2>3. CASE g = v
    BY <1>1, <1>2, <2>1, <2>3 DEF HoldsTags, Behind
  <2> QED BY <1>3, <2>2, <2>3
<1> QED BY <1>4, <1>6, <1>7, <1>8 DEF GivenInv

-----------------------------------------------------------------------------
(* A window keeps to its tags. *)

HoldsItsTags(w) ==
    \A t \in Members(w.tags) : t.kind = "kept" /\ w.from < t.n /\ (w.to > 0 => t.n < w.to)

StopsAtReleases(w) ==
    \A e \in Edges \ Missed : ~IsActive(e) /\ w.from < e.n =>
        w.to <= e.n /\ \A t \in Members(w.tags) : t.n < e.n

\* Window v is over before window w opens.
Before(v, w) ==
    /\ v.from < w.from /\ v.to < w.from
    /\ \A t \in Members(v.tags) : t.n < w.from

LEMMA TagsAre ==
  TagsInTheirWindow <=>
      /\ \A w \in Members(given) : HoldsItsTags(w) /\ StopsAtReleases(w)
      /\ \A i, j \in DOMAIN given : i < j => Before(given[i], given[j])
BY DEF TagsInTheirWindow, HoldsItsTags, StopsAtReleases, Before

\* The window given is open no longer than to the next release not missed.
LEMMA GivesStops ==
  ASSUME DriverInv, HandedInv, CallTypes, RelayInv, OpenInv, UNCHANGED <<vars, strayed>>,
         NEW n \in 0..MaxReads, n <= gone, window # None,
         n > 0 => \E x : Assembles(x) /\ x.kind = "edge" /\ n = x.n,
         NEW v, v.from = window.from, v.to = n, v.tags = window.tags
  PROVE  StopsAtReleases(v)'
<1> PICK w : w = window
  OBVIOUS
<1>1. HoldsTags(w) /\ Behind(w) /\ Gathers(w)
  BY OpenHas DEF OpenParts
<1>2. /\ Edges' = Edges /\ Missed' = Missed
      /\ \A y : IsActive(y)' <=> IsActive(y)
  BY DriverSame, MissedSame
<1>3. ASSUME NEW e \in Edges \ Missed, ~IsActive(e), w.from < e.n
      PROVE  n <= e.n /\ \A t \in Members(w.tags) : t.n < e.n
  <2>1. e \in Handed /\ e.kind = "edge" /\ e.n \in Nat /\ gone \in Int
    BY DEF Edges, HandedInv, Item, gone, DriverInv, TypeInv, TypeOK
  <2>2. CASE gone < e.n
    <3>1. \A t \in Members(w.tags) : t.n \in Nat /\ t.n <= gone
      BY <1>1, TakenOld DEF HoldsTags
    <3> QED BY <2>1, <2>2, <3>1
  <2>3. CASE e.n <= gone
    <3>1. e \in Members(taken) /\ e \notin strayed
      BY <2>1, <2>3, NotMissed
    <3>2. e \notin Members(w.tags)
      BY <1>1, <2>1 DEF HoldsTags
    <3>3. e \in RelayItems
      BY <1>1, <1>3, <2>1, <3>1, <3>2 DEF Gathers
    <3>4. \A t \in Members(w.tags) : t.n < e.n
      BY <1>1, <3>3 DEF Behind
    <3>5. CASE n = 0
      BY <2>1, <3>4, <3>5
    <3>6. CASE n > 0
      <4>1. PICK x : Assembles(x) /\ n = x.n
        BY <3>6
      <4>2. e = x \/ x.n < e.n
        BY <3>3, <4>1 DEF Assembles
      <4> QED BY <2>1, <3>4, <4>1, <4>2
    <3> QED BY <3>5, <3>6
  <2> QED BY <2>1, <2>2, <2>3
<1> QED BY <1>2, <1>3 DEF StopsAtReleases

\* A window keeps to its tags from when it is given.
LEMMA TagsGives ==
  ASSUME DriverInv, HandedInv, CallTypes, WindowTypes, RelayInv, OpenInv, GivenInv,
         TagsInTheirWindow, UNCHANGED <<vars, strayed>>,
         NEW n \in 0..MaxReads, Gives(n), n <= gone,
         n > 0 => \E x : Assembles(x) /\ x.kind = "edge" /\ n = x.n,
         n > 0 => \A t \in Members(window.tags) : t.n < n
  PROVE  TagsInTheirWindow'
<1> PICK w : w = window
  OBVIOUS
<1>1. HoldsTags(w) /\ window # None
  BY OpenHas DEF OpenParts, Gives
<1>2. PICK v \in Windows :
         /\ v.from = w.from /\ v.to = n /\ v.tags = w.tags
         /\ given' = Append(given, v)
  BY DEF Gives
<1>3. /\ Members(given)' = Members(given) \union {v}
      /\ given'[Len(given) + 1] = v
      /\ \A i \in DOMAIN given : given'[i] = given[i] /\ given[i] \in Members(given)
      /\ \A i, j \in DOMAIN given' :
            i < j => i \in DOMAIN given /\ (j \in DOMAIN given \/ j = Len(given) + 1)
  BY <1>2, GivenMore
<1>4. /\ Edges' = Edges /\ Missed' = Missed
      /\ \A y : IsActive(y)' <=> IsActive(y)
  BY DriverSame, MissedSame
<1>5. ASSUME NEW g \in Members(given)' PROVE HoldsItsTags(g) /\ StopsAtReleases(g)'
  <2>1. CASE g \in Members(given)
    BY <1>4, <2>1, TagsAre DEF StopsAtReleases
  <2>2. CASE g = v
    <3>1. HoldsItsTags(v)
      BY <1>1, <1>2 DEF HoldsTags, HoldsItsTags
    <3>2. StopsAtReleases(v)'
      BY <1>1, <1>2, GivesStops
    <3> QED BY <2>2, <3>1, <3>2
  <2> QED BY <1>3, <2>1, <2>2
<1>6. ASSUME NEW i \in DOMAIN given', NEW j \in DOMAIN given', i < j
      PROVE  Before(given'[i], given'[j])
  <2>1. i \in DOMAIN given /\ given'[i] = given[i] /\ given[i] \in Members(given)
    BY <1>3, <1>6
  <2>2. CASE j \in DOMAIN given
    BY <1>3, <1>6, <2>1, <2>2, TagsAre
  <2>3. CASE j = Len(given) + 1
    <3>1. Before(given[i], w)
      BY <1>1, <2>1 DEF GivenInv, Before
    <3>2. given'[j] = v
      BY <1>3, <2>3
    <3>3. Before(given[i], v)
      BY <1>2, <3>1 DEF Before
    <3> QED BY <2>1, <3>2, <3>3
  <2> QED BY <1>3, <1>6, <2>2, <2>3
<1> QED BY <1>5, <1>6 DEF TagsInTheirWindow, HoldsItsTags, StopsAtReleases, Before

\* What is handed over later is younger than the windows given.
LEMMA TagsKept ==
  ASSUME DriverInv, HandedInv, WindowTypes, GivenInv, TagsInTheirWindow,
         [WindowsNext]_allVars, UNCHANGED given
  PROVE  TagsInTheirWindow'
<1>1. Members(given)' = Members(given)
  BY DEF Members
<1>2. ASSUME NEW g \in Members(given) PROVE StopsAtReleases(g)'
  <2>1. StopsAtReleases(g)
    BY TagsAre
  <2>2. Missed \subseteq Missed'
    BY MissedGrows DEF DriverInv
  <2>3. \A y \in Edges : IsActive(y)' <=> IsActive(y)
    BY ActiveStays DEF DriverInv, Edges
  <2>4. CASE HandsNothing
    <3>1. Edges' = Edges
      BY <2>4 DEF HandsNothing, Edges
    <3> QED BY <2>1, <2>2, <2>3, <3>1 DEF StopsAtReleases
  <2>5. ASSUME NEW x, HandsOver(x) PROVE StopsAtReleases(g)'
    <3>1. Edges' \subseteq Edges \union {x} /\ x.n = puts + 1
      BY <2>5 DEF HandsOver, Edges
    <3>2. /\ gone \in Int /\ puts \in Nat /\ gone <= puts
          /\ g.to \in Nat /\ g.to <= gone
      <4>1. g \in Windows
        BY MemberTypes DEF WindowTypes
      <4>2. gone \in Int /\ gone <= puts
        BY GoneGrows
      <4> QED BY <4>1, <4>2, WindowParts DEF GivenInv, DriverInv, TypeInv, TypeOK
    <3>3. \A t \in Members(g.tags) : t.n \in Nat /\ t.n <= gone
      BY TakenOld DEF GivenInv
    <3>4. g.to <= x.n /\ \A t \in Members(g.tags) : t.n < x.n
      BY <3>1, <3>2, <3>3
    <3> QED BY <2>1, <2>2, <2>3, <3>1, <3>4 DEF StopsAtReleases
  <2> QED BY <2>4, <2>5, WindowsHands DEF DriverInv
<1>3. \A g \in Members(given) : HoldsItsTags(g)
  BY TagsAre
<1>4. \A i, j \in DOMAIN given' : i < j => Before(given'[i], given'[j])
  BY TagsAre
<1> QED BY <1>1, <1>2, <1>3, <1>4
        DEF TagsInTheirWindow, HoldsItsTags, StopsAtReleases, Before

-----------------------------------------------------------------------------
(* Windows are trips. *)

\* What one window, closed by its release, is.
Trip(w) ==
    /\ {e \in Edges : w.from < e.n /\ e.n < w.to} = {}
    /\ Members(w.tags) = Between(w.from, w.to)
    /\ Increasing(w.tags)

LEMMA TripsAre == WindowsAreTrips <=> (Missed = {} => \A w \in Members(given) : w.to > 0 => Trip(w))
BY DEF WindowsAreTrips, Trip

\* What is handed over or taken later is younger than the windows given.
LEMMA TripsKept ==
  ASSUME DriverInv, HandedInv, WindowTypes, GivenInv, WindowsAreTrips,
         [WindowsNext]_allVars, UNCHANGED given,
         Members(taken) \subseteq Members(taken)',
         \A y \in Members(taken)' : y \in Members(taken) \/ (y.n \in Nat /\ gone < y.n)
  PROVE  WindowsAreTrips'
<1> SUFFICES ASSUME Missed' = {}, NEW g \in Members(given), g.to > 0
             PROVE  Trip(g)'
  BY DEF WindowsAreTrips, Trip, Members
<1>1. Missed = {}
  BY MissedGrows DEF DriverInv
<1>2. Trip(g)
  BY <1>1, TripsAre
<1>3. g.to <= gone /\ g.to \in Nat /\ gone \in Int /\ puts \in Nat /\ gone <= puts
  <2>1. g \in Windows
    BY MemberTypes DEF WindowTypes
  <2>2. gone \in Int /\ gone <= puts
    BY GoneGrows
  <2> QED BY <2>1, <2>2, WindowParts DEF GivenInv, DriverInv, TypeInv, TypeOK
<1>4. \A e \in Edges' : e \in Edges \/ ~(e.n < g.to)
  <2>1. CASE HandsNothing
    BY <2>1 DEF HandsNothing, Edges
  <2>2. ASSUME NEW x, HandsOver(x) PROVE \A e \in Edges' : e \in Edges \/ ~(e.n < g.to)
    <3>1. x.n = puts + 1 /\ Handed' = Handed \union {x}
      BY <2>2 DEF HandsOver
    <3>2. ~(x.n < g.to)
      BY <1>3, <3>1
    <3> QED BY <3>1, <3>2 DEF Edges
  <2> QED BY <2>1, <2>2, WindowsHands DEF DriverInv
<1>5. \A y \in Members(taken)' : y \in Members(taken) \/ ~(y.n < g.to)
  BY <1>3
<1>6. {e \in Edges' : g.from < e.n /\ e.n < g.to} = {}
  BY <1>2, <1>4 DEF Trip
<1>7. Between(g.from, g.to)' = Between(g.from, g.to)
  BY <1>5 DEF Between
<1> QED BY <1>2, <1>6, <1>7 DEF Trip

\* The release that closes a window is the next edge, and all tags are in.
LEMMA TripReleased ==
  ASSUME DriverInv, HandedInv, CallTypes, RelayInv, OpenInv, Missed = {},
         NEW w \in Windows, w = window, NEW x, Assembles(x), x.kind = "edge",
         NEW v, v.from = w.from, v.to = x.n, v.tags = w.tags
  PROVE  Trip(v)'
<1>1. /\ Members(taken)' = Members(taken) /\ Edges' = Edges
  BY DriverSame DEF Assembles
<1>2. OpenedAt(w) /\ HoldsTags(w) /\ Behind(w) /\ Gathers(w)
  BY OpenHas, WindowParts DEF OpenParts
<1>3. /\ x \in RelayItems /\ x \in Members(taken) /\ x.n \in Nat /\ x.n <= gone /\ gone \in Int
      /\ \A r \in RelayItems : r = x \/ x.n < r.n
  BY TakenOld DEF Assembles, gone, DriverInv, TypeInv, TypeOK
<1>4. ASSUME NEW y \in Members(taken), y.kind \in {"kept", "edge"}, w.from < y.n, y.n < x.n
      PROVE  y \in Members(w.tags)
  <2>1. y \in RelayItems \union Members(w.tags)
    BY <1>2, <1>4 DEF Gathers, Missed
  <2>2. y.n \in Nat
    BY TakenOld
  <2> QED BY <1>3, <1>4, <2>1, <2>2
<1>5. {e \in Edges : w.from < e.n /\ e.n < x.n} = {}
  <2> SUFFICES ASSUME NEW e \in Edges, w.from < e.n, e.n < x.n PROVE FALSE
    OBVIOUS
  <2>1. e \in Handed /\ e.kind = "edge" /\ e.n \in Nat
    BY DEF Edges, HandedInv, Item
  <2>2. e \in Members(taken)
    BY <1>3, <2>1, NotMissed
  <2>3. e \in Members(w.tags)
    BY <1>4, <2>1, <2>2
  <2> QED BY <1>2, <2>1, <2>3 DEF HoldsTags
<1>6. Members(w.tags) = Between(w.from, x.n)
  <2>1. \A t \in Members(w.tags) : t \in Members(taken) /\ t.kind = "kept" /\ w.from < t.n /\ t.n < x.n
    BY <1>2, <1>3 DEF HoldsTags, Behind
  <2> QED BY <1>4, <2>1 DEF Between
<1>7. Between(v.from, v.to)' = Between(w.from, x.n)
  BY <1>1 DEF Between
<1>8. Members(v.tags) = Members(w.tags) /\ Increasing(v.tags)
  BY <1>2 DEF HoldsTags
<1> QED BY <1>1, <1>5, <1>6, <1>7, <1>8 DEF Trip

LEMMA TripsGive ==
  ASSUME DriverInv, HandedInv, CallTypes, WindowTypes, RelayInv, OpenInv, GivenInv,
         WindowsAreTrips, UNCHANGED <<vars, strayed>>, NEW n \in 0..MaxReads, Gives(n),
         n > 0 => \E x : Assembles(x) /\ x.kind = "edge" /\ n = x.n
  PROVE  WindowsAreTrips'
<1> PICK w : w = window
  OBVIOUS
<1>1. w \in Windows
  BY DEF Gives, WindowTypes
<1>2. PICK v \in Windows :
         /\ v.from = w.from /\ v.to = n /\ v.tags = w.tags
         /\ given' = Append(given, v)
  BY DEF Gives
<1>3. Members(given)' = Members(given) \union {v}
  BY <1>2, GivenMore
<1>4. /\ Members(taken)' = Members(taken) /\ Edges' = Edges /\ Missed' = Missed
  BY DriverSame, MissedSame
<1> SUFFICES ASSUME Missed = {}, NEW g \in Members(given)', g.to > 0 PROVE Trip(g)'
  BY <1>4 DEF WindowsAreTrips, Trip
<1>5. CASE g \in Members(given)
  <2>1. Trip(g)
    BY <1>5, TripsAre
  <2> QED BY <1>4, <2>1 DEF Trip, Between
<1>6. CASE g = v
  <2>1. PICK x : Assembles(x) /\ x.kind = "edge" /\ n = x.n
    BY <1>2, <1>6
  <2>2. Trip(v)'
    BY <1>1, <1>2, <2>1, TripReleased
  <2> QED BY <1>6, <2>2
<1> QED BY <1>3, <1>5, <1>6

-----------------------------------------------------------------------------
(* Every trip is given. *)

\* Nothing is taken, and what was kept is kept.
LEMMA EdgesKept ==
  ASSUME DriverInv, HandedInv, TripsInv, [WindowsNext]_allVars,
         UNCHANGED <<taken, calls>>, Running' => Running,
         Missed = {} => \A e \in Members(taken) : 
             e.kind = "edge" /\ IsActive(e) /\ Kept(e) => Kept(e)'
  PROVE  TripsInv'
<1>1. Members(taken)' = Members(taken)
  BY DEF Members
<1>2. Missed' = {} => Missed = {}
  BY MissedGrows DEF DriverInv
<1>3. \A e \in Members(taken) : IsActive(e)' <=> IsActive(e)
  BY ActiveStays DEF DriverInv, Handed
<1>4. ASSUME Missed' = {}, calls' = 1, NEW e \in Members(taken)', e.kind = "edge", IsActive(e)'
      PROVE  Kept(e)'
  <2>1. e \in Members(taken) /\ Missed = {} /\ IsActive(e) /\ calls = 1
    BY <1>1, <1>2, <1>3, <1>4
  <2> QED BY <1>4, <2>1 DEF TripsInv
<1>5. calls' = 0 => taken' = <<>> /\ ~Running'
  BY DEF TripsInv
<1> QED BY <1>4, <1>5 DEF TripsInv

\* Of the first call, nothing was taken before.
LEMMA EdgesNewCall ==
  ASSUME CallTypes, TripsInv, UNCHANGED taken, calls' = calls + 1
  PROVE  TripsInv'
<1>1. calls \in Nat
  BY CallsAssumption DEF CallTypes
<1>2. calls' # 0 /\ (calls' = 1 => calls = 0)
  BY <1>1
<1>3. calls' = 1 => Members(taken)' = {}
  BY <1>2 DEF TripsInv, Members
<1> QED BY <1>2, <1>3 DEF TripsInv

\* The pump relays every edge.
LEMMA EdgesTake ==
  ASSUME DriverInv, HandedInv, TripsInv, [WindowsNext]_allVars, NEW x, PumpTook(x)
  PROVE  TripsInv'
<1>1. /\ Members(taken)' = Members(taken) \union {x} /\ pump = "getting"
      /\ UNCHANGED <<lost, calls, window, given, strayed>>
      /\ RelayItems \subseteq RelayItems' /\ (x.kind = "edge" => x \in RelayItems')
      /\ Running
  BY DEF PumpTook
<1>2. \A e \in Members(taken) : IsActive(e)' <=> IsActive(e)
  BY ActiveStays DEF DriverInv, Handed
<1>3. Members(given)' = Members(given)
  BY <1>1 DEF Members
<1>4. Missed' = Missed
  BY <1>1 DEF Missed, Members
<1>5. ASSUME Missed' = {}, calls' = 1, NEW e \in Members(taken)', e.kind = "edge", IsActive(e)'
      PROVE  Kept(e)'
  <2>1. CASE e = x
    BY <1>1, <1>5, <2>1 DEF Kept
  <2>2. CASE e \in Members(taken)
    <3>1. IsActive(e)
      BY <1>2, <1>5, <2>2
    <3>2. Kept(e)
      BY <1>1, <1>4, <1>5, <2>2, <3>1 DEF TripsInv
    <3> QED BY <1>1, <1>3, <3>2 DEF Kept
  <2> QED BY <1>1, <2>1, <2>2
<1>6. calls' # 0
  BY <1>1 DEF TripsInv
<1> QED BY <1>5, <1>6 DEF TripsInv

\* The call, its window and its relay are left alone.
LEMMA EdgesPause ==
  ASSUME DriverInv, HandedInv, TripsInv, [WindowsNext]_allVars,
         UNCHANGED <<taken, calls, relay, window, given>>, Running' => Running
  PROVE  TripsInv'
<1>1. RelayItems' = RelayItems /\ Members(given)' = Members(given)
  BY DEF RelayItems, Members
<1>2. \A e : Kept(e) => Kept(e)'
  BY <1>1 DEF Kept
<1> QED BY <1>2, EdgesKept

\* The assembler takes an item: an active edge opens a window.
LEMMA EdgesAssemble ==
  ASSUME DriverInv, HandedInv, CallTypes, RelayInv, OpenInv, TripsInv, [WindowsNext]_allVars,
         NEW x, Assembles(x), Running,
         Members(given) \subseteq Members(given)',
         Missed = {} /\ window # None =>
             \/ window' # None /\ window'.from = window.from
             \/ \E g \in Members(given)' : g.from = window.from,
         x.kind = "edge" /\ IsActive(x) /\ Missed = {} => window' # None /\ window'.from = x.n
  PROVE  TripsInv'
<1>1. UNCHANGED <<taken, calls>>
  BY DEF Assembles, vars
<1>2. ASSUME Missed = {}, NEW e \in Members(taken), e.kind = "edge", IsActive(e), Kept(e)
      PROVE  Kept(e)'
  <2>1. CASE e \in RelayItems
    <3>1. CASE e = x
      BY <1>2, <3>1 DEF Kept
    <3>2. CASE e # x
      BY <2>1, <3>2 DEF Kept, Assembles, TakenFromRelay
    <3> QED BY <3>1, <3>2
  <2>2. CASE window # None /\ window.from = e.n
    BY <1>2, <2>2 DEF Kept
  <2>3. CASE \E g \in Members(given) : g.from = e.n
    BY <2>3 DEF Kept
  <2> QED BY <1>2, <2>1, <2>2, <2>3 DEF Kept
<1> QED BY <1>1, <1>2, EdgesKept

LEMMA EdgesRaises ==
  ASSUME DriverInv, HandedInv, CallTypes, RelayInv, TripsInv, [WindowsNext]_allVars, Raises
  PROVE  TripsInv'
<1>1. PICK x \in RelayItems : x.kind = "exc" /\ relay # <<>> /\ x = Head(relay)
  BY DEF Raises, Relayed, RelayItems
<1>2. /\ relay' = Tail(relay) /\ UNCHANGED <<taken, calls, window, given>>
      /\ ~Running'
  BY DEF Raises, Finally, CallStep, CallMoves, vars, Running
<1>3. TakenFromRelay(x)
  BY <1>1, <1>2, ConsumeRelay
<1>4. Members(given)' = Members(given)
  BY <1>2 DEF Members
<1>5. ASSUME NEW e, e.kind = "edge", Kept(e) PROVE Kept(e)'
  BY <1>1, <1>2, <1>3, <1>4, <1>5 DEF Kept, TakenFromRelay
<1> QED BY <1>2, <1>5, EdgesKept

LEMMA EdgesEnds ==
  ASSUME DriverInv, HandedInv, CallTypes, RelayInv, TripsInv, [WindowsNext]_allVars, Ends
  PROVE  TripsInv'
<1>1. RelayItems = {} /\ RelayItems' = {} /\ pump = "ended"
  BY EndsRelay
<1>2. UNCHANGED <<taken, calls, window, given>> /\ ~Running'
  BY DEF Ends, Finally, CallStep, CallMoves, vars, Running
<1>3. Members(given)' = Members(given)
  BY <1>2 DEF Members
<1>4. \A e : Kept(e) => Kept(e)'
  BY <1>1, <1>2, <1>3 DEF Kept
<1> QED BY <1>2, <1>4, EdgesKept

-----------------------------------------------------------------------------
(***************************************************************************)
(* Pumps are left behind by calls that were closed, no more than there     *)
(* were calls, and what they took is nobody's.                             *)
(***************************************************************************)
StrayInv ==
    /\ strays \in Nat /\ strays <= calls
    /\ Running => strays < calls
    /\ strayed \subseteq Members(taken)
    /\ calls = 0 \/ (calls = 1 /\ call # "closed") => strays = 0 /\ strayed = {}
    /\ call = "closed" => pump = "none"

LEMMA TakeStrays ==
  ASSUME CallTypes, StrayInv, NEW x, PumpTook(x)
  PROVE  StrayInv'
BY DEF StrayInv, PumpTook, Running

LEMMA StrayStrays ==
  ASSUME CallTypes, StrayInv, StrayTakes, NEW x, StrayTook(x)
  PROVE  StrayInv'
<1>1. strays > 0 /\ strays \in Nat /\ strays' \in {strays, strays - 1} /\ calls \in Nat
  BY CallsAssumption DEF StrayTakes, StrayInv, CallTypes
<1>2. strays' \in Nat /\ strays' <= strays
  BY <1>1
<1>3. UNCHANGED <<call, calls, pump>> /\ strayed' \subseteq Members(taken)'
  BY DEF StrayTook, StrayInv
<1>4. ~(calls = 0 \/ (calls = 1 /\ call # "closed"))
  BY <1>1 DEF StrayInv
<1> QED BY <1>1, <1>2, <1>3, <1>4 DEF StrayInv, Running

LEMMA AloneStrays ==
  ASSUME CallTypes, RelayInv, StrayInv, CallAlone
  PROVE  StrayInv'
<1>1. UNCHANGED vars /\ Members(taken)' = Members(taken)
  BY CallAloneKeeps, DriverSame
<1>2. calls \in Nat
  BY CallsAssumption DEF CallTypes
<1>3. CASE StartWindows \/ RefuseWindows
  <2>1. /\ calls' = calls + 1 /\ UNCHANGED <<strays, strayed>>
        /\ call' \in {"waiting", "refused"}
    BY <1>3 DEF StartWindows, RefuseWindows, Call
  <2> QED BY <1>1, <1>2, <2>1 DEF StrayInv, Running
<1>4. CASE LeaveBehind
  <2>1. /\ Running /\ call' = "closed" /\ pump' = "none"
        /\ UNCHANGED <<calls, strayed>> /\ strays' \in {strays, strays + 1}
    BY <1>4 DEF LeaveBehind, CallMoves, Running
  <2>2. strays' \in Nat /\ strays' <= calls
    BY <1>2, <2>1 DEF StrayInv
  <2>3. calls # 0
    BY <1>2, <2>1 DEF StrayInv
  <2> QED BY <1>1, <2>1, <2>2, <2>3 DEF StrayInv, Running
<1>5. CASE StrayFinalised
  <2>1. strays > 0 /\ strays' = strays - 1 /\ UNCHANGED <<call, calls, pump, strayed>>
    BY <1>5 DEF StrayFinalised
  <2> QED BY <1>1, <1>2, <2>1 DEF StrayInv, Running
<1>6. ASSUME UNCHANGED <<strays, strayed, calls>>, Running' => Running,
             call' = "closed" => pump' = "none", call = "closed" => call' = "closed"
      PROVE  StrayInv'
  BY <1>1, <1>6 DEF StrayInv
<1>7. CASE Abandon \/ GoOn \/ Closed \/ ForceCloses
  BY <1>6, <1>7 DEF Abandon, GoOn, Closed, ForceCloses, Yield, Finally, CallStep, CallMoves,
                    Running
<1>8. CASE Assembler
  BY <1>6, <1>8 DEF Assembler, Assemble, Consume, Relayed, Raises, Ends, Opens, Releases,
                    Collects, Ignores, Yield, Finally, CallStep, CallMoves, Running
<1> QED BY <1>3, <1>4, <1>5, <1>7, <1>8 DEF CallAlone

\* A trip of a call that ran to its end: its window is given, and only once.
LEMMA TripsOnce ==
  ASSUME DriverInv, HandedInv, CallTypes, WindowTypes, RelayInv, OpenInv, GivenInv, TripsInv,
         StrayInv
  PROVE  EveryTripOnce
<1> SUFFICES ASSUME lost = <<>>, calls = 1, call \in {"ended", "raised"},
                    NEW e \in Edges, NEW r \in Edges, IsActive(e), ~IsActive(r), e.n < r.n
             PROVE  Cardinality({i \in DOMAIN given : given[i].from = e.n}) = 1
  BY DEF EveryTripOnce
<1>1. Missed = {} /\ strayed = {}
  BY DEF StrayInv, Missed, Members
<1>2. PICK s \in Members(taken) : s.kind \in {"exc", "stop"}
  BY DEF RelayInv, StopTaken
<1>3. ASSUME NEW y \in Edges PROVE y \in Members(taken) /\ y.kind = "edge"
  <2>1. y \in Handed /\ y.kind = "edge" /\ y.n \in Nat
    BY DEF Edges, HandedInv, Item
  <2>2. s \in Handed /\ s.n \in Nat /\ s.n <= gone /\ gone \in Int
    BY TakenOld DEF gone, DriverInv, TypeInv, TypeOK
  <2>3. y.n < s.n
    BY <1>2, <2>1, <2>2 DEF HandedInv, Reads
  <2>4. y.n <= gone
    BY <2>1, <2>2, <2>3
  <2> QED BY <1>1, <2>1, <2>4, NotMissed
<1>4. e \notin RelayItems /\ r \notin RelayItems
  BY <1>3 DEF RelayInv, Over
<1>5. ~(window # None /\ window.from = e.n)
  <2> SUFFICES ASSUME window # None, window.from = e.n PROVE FALSE
    OBVIOUS
  <2> PICK w : w = window
    OBVIOUS
  <2>1. HoldsTags(w) /\ Gathers(w)
    BY OpenHas DEF OpenParts
  <2>2. r \in RelayItems \union Members(w.tags)
    BY <1>1, <1>3, <2>1 DEF Gathers
  <2> QED BY <1>3, <1>4, <2>1, <2>2 DEF HoldsTags
<1>6. \E g \in Members(given) : g.from = e.n
  BY <1>1, <1>3, <1>4, <1>5 DEF TripsInv, Kept
<1>7. PICK i \in DOMAIN given : given[i].from = e.n
  BY <1>6 DEF Members
<1>8. ASSUME NEW j \in DOMAIN given, given[j].from = e.n PROVE j = i
  <2>1. i \in Nat /\ j \in Nat
    BY DEF WindowTypes
  <2>2. e.n \in Nat
    BY <1>3, TakenOld
  <2>3. ~(i < j) /\ ~(j < i)
    BY <1>7, <1>8, <2>2 DEF GivenInv
  <2> QED BY <2>1, <2>3
<1>9. {j \in DOMAIN given : given[j].from = e.n} = {i}
  BY <1>7, <1>8
<1> QED BY <1>9, FS_Singleton

-----------------------------------------------------------------------------
(***************************************************************************)
(* The call as a whole.                                                    *)
(***************************************************************************)
CallInv ==
    /\ CallTypes /\ WindowTypes
    /\ RelayInv /\ OpenInv /\ GivenInv /\ TripsInv /\ StrayInv
    /\ WindowsAreTrips /\ TagsInTheirWindow

LEMMA InitCallInv == WindowsInit => CallInv
<1> SUFFICES ASSUME WindowsInit PROVE CallInv
  OBVIOUS
<1>1. /\ call = "idle" /\ calls = 0 /\ pump = "none" /\ relay = <<>> /\ window = None
      /\ given = <<>> /\ taken = <<>> /\ strays = 0 /\ strayed = {}
  BY DEF WindowsInit, Init
<1>2. CallTypes /\ WindowTypes
  BY <1>1, CallsAssumption DEF CallTypes, WindowTypes
<1>3. /\ Members(relay) = {} /\ RelayItems = {} /\ Ordered(relay) /\ Members(given) = {}
      /\ Members(taken) = {} /\ ~Running /\ ~Over
  BY <1>1 DEF Members, RelayItems, Ordered, Running, Over
<1>4. RelayInv
  BY <1>1, <1>3 DEF RelayInv
<1>5. OpenInv
  BY <1>1 DEF OpenInv
<1>6. GivenInv
  BY <1>1, <1>3 DEF GivenInv
<1>7. TripsInv
  BY <1>1, <1>3 DEF TripsInv
<1>8. WindowsAreTrips
  BY <1>3 DEF WindowsAreTrips
<1>9. TagsInTheirWindow
  BY <1>1, <1>3 DEF TagsInTheirWindow
<1>10. StrayInv
  BY <1>1, <1>3 DEF StrayInv
<1> QED BY <1>2, <1>4, <1>5, <1>6, <1>7, <1>8, <1>9, <1>10 DEF CallInv

\* No window is given.
LEMMA NothingGiven ==
  ASSUME DriverInv, HandedInv, CallInv, [WindowsNext]_allVars, UNCHANGED given,
         \A r \in RelayItems' : r \in RelayItems \/ (r.n \in Nat /\ gone < r.n),
         window' = None \/ window' = window \/ (window # None /\ window'.from = window.from)
             \/ \E x \in RelayItems : window'.from = x.n,
         Members(taken) \subseteq Members(taken)',
         \A y \in Members(taken)' : y \in Members(taken) \/ (y.n \in Nat /\ gone < y.n)
  PROVE  GivenInv' /\ WindowsAreTrips' /\ TagsInTheirWindow'
<1>1. \A r \in RelayItems \union RelayItems' : r.n \in Nat
  BY RelayItem DEF CallInv
<1>2. GivenInv'
  BY <1>1, GivenKept DEF CallInv
<1>3. WindowsAreTrips'
  BY TripsKept DEF CallInv
<1>4. TagsInTheirWindow'
  BY TagsKept DEF CallInv
<1> QED BY <1>2, <1>3, <1>4

LEMMA BeneathCallInv ==
  ASSUME DriverInv, HandedInv, CallInv, [WindowsNext]_allVars, UNCHANGED <<callVars, taken>>
  PROVE  CallInv'
<1>1. /\ UNCHANGED <<gated, call, calls, pump, relay, window, given, strays, strayed>>
      /\ RelayItems' = RelayItems /\ Members(taken)' = Members(taken)
      /\ (Over' <=> Over) /\ (Running' <=> Running)
  BY DEF callVars, RelayItems, Members, Over, Running
<1>2. CallTypes' /\ WindowTypes'
  BY <1>1 DEF CallInv, CallTypes, WindowTypes
<1>3. RelayInv'
  BY <1>1, <1>2, PauseRelay DEF CallInv
<1>4. OpenInv'
  BY <1>1, OpenPause DEF CallInv, DriverInv
<1>5. TripsInv'
  BY <1>1, EdgesPause DEF CallInv
<1>6. GivenInv' /\ WindowsAreTrips' /\ TagsInTheirWindow'
  BY <1>1, NothingGiven
<1>7. StrayInv'
  BY <1>1 DEF CallInv, StrayInv
<1> QED BY <1>2, <1>3, <1>4, <1>5, <1>6, <1>7 DEF CallInv

\* A pump left behind takes an item: the call does not see it.
LEMMA StrayCallInv ==
  ASSUME DriverInv, HandedInv, CallInv, [WindowsNext]_allVars, StrayTakes
  PROVE  CallInv'
<1>1. PICK x : StrayTook(x)
  BY StrayIsStrayTook
<1>2. CallTypes' /\ RelayInv'
  BY <1>1, StrayRelay DEF CallInv
<1>3. StrayInv'
  BY <1>1, StrayStrays DEF CallInv
<1>4. /\ UNCHANGED <<calls, window, given>> /\ RelayItems' = RelayItems
      /\ Members(taken)' = Members(taken) \union {x} /\ x \in strayed'
      /\ x.n \in Nat /\ gone < x.n
  <2>1. gone \in Int
    BY DEF gone, DriverInv, TypeInv, TypeOK
  <2>2. x.n = gone + 1 /\ x.n \in Nat
    BY <1>1 DEF StrayTook
  <2>3. relay' = relay
    BY <1>1 DEF StrayTook
  <2>4. RelayItems' = RelayItems
    BY <2>3 DEF RelayItems, Members
  <2> QED BY <1>1, <2>1, <2>2, <2>4 DEF StrayTook
<1>5. WindowTypes'
  BY <1>4 DEF CallInv, WindowTypes
<1>6. OpenInv'
  BY <1>1, <1>4, OpenPause DEF CallInv, DriverInv, StrayTook
<1>7. TripsInv'
  <2>1. calls # 0
    BY DEF CallInv, StrayInv, StrayTakes
  <2>2. Missed' # {}
    BY <1>4 DEF Missed
  <2> QED BY <1>4, <2>1, <2>2 DEF TripsInv
<1>8. GivenInv' /\ WindowsAreTrips' /\ TagsInTheirWindow'
  BY <1>4, NothingGiven
<1> QED BY <1>2, <1>3, <1>5, <1>6, <1>7, <1>8 DEF CallInv

LEMMA TakeCallInv ==
  ASSUME DriverInv, HandedInv, CallInv, [WindowsNext]_allVars, NEW x, PumpTook(x)
  PROVE  CallInv'
<1>1. CallTypes' /\ RelayInv'
  BY TakeRelay DEF CallInv
<1>2. WindowTypes'
  BY DEF CallInv, WindowTypes, PumpTook
<1>3. OpenInv'
  BY OpenTake DEF CallInv
<1>4. TripsInv'
  BY EdgesTake DEF CallInv
<1>5. GivenInv' /\ WindowsAreTrips' /\ TagsInTheirWindow'
  <2>1. x.n \in Nat /\ gone < x.n
    BY DEF PumpTook, gone, DriverInv, TypeInv, TypeOK
  <2>2. /\ RelayItems' \subseteq RelayItems \union {x} /\ UNCHANGED <<window, given>>
        /\ Members(taken)' = Members(taken) \union {x}
    BY DEF PumpTook
  <2> QED BY <2>1, <2>2, NothingGiven
<1>6. StrayInv'
  BY TakeStrays DEF CallInv
<1> QED BY <1>1, <1>2, <1>3, <1>4, <1>5, <1>6 DEF CallInv

LEMMA StartCallInv ==
  ASSUME DriverInv, HandedInv, CallInv, [WindowsNext]_allVars, StartWindows
  PROVE  CallInv'
<1>1. /\ UNCHANGED vars /\ UNCHANGED given /\ window' = None /\ calls' = calls + 1
  BY DEF StartWindows, Call
<1>2. CallTypes' /\ RelayInv' /\ RelayItems' = {}
  BY StartRelay DEF CallInv
<1>3. WindowTypes'
  BY <1>1 DEF CallInv, WindowTypes
<1>4. OpenInv'
  BY <1>1 DEF OpenInv
<1>5. Members(taken)' = Members(taken) /\ taken' = taken
  BY <1>1, DriverSame
<1>6. TripsInv'
  BY <1>1, <1>5, EdgesNewCall DEF CallInv
<1>7. GivenInv' /\ WindowsAreTrips' /\ TagsInTheirWindow'
  <2>1. \A r \in RelayItems' : r \in RelayItems
    BY <1>2
  <2>2. \A y \in Members(taken)' : y \in Members(taken)
    BY <1>5
  <2>3. window' = None \/ window' = window \/ (window # None /\ window'.from = window.from)
            \/ \E x \in RelayItems : window'.from = x.n
    BY <1>1
  <2>4. UNCHANGED given /\ Members(taken) \subseteq Members(taken)'
    BY <1>1, <1>5
  <2> QED BY <2>1, <2>2, <2>3, <2>4, NothingGiven
<1>8. StrayInv'
  BY AloneStrays DEF CallInv, CallAlone
<1> QED BY <1>2, <1>3, <1>4, <1>6, <1>7, <1>8 DEF CallInv

\* The call is refused, pauses, goes on, or is closed, or a pump it left
\* behind goes.
LEMMA PauseCallInv ==
  ASSUME DriverInv, HandedInv, CallInv, [WindowsNext]_allVars,
         RefuseWindows \/ Abandon \/ GoOn \/ Closed \/ LeaveBehind \/ StrayFinalised
  PROVE  CallInv'
<1>1. /\ UNCHANGED vars /\ UNCHANGED <<relay, window, given, strayed>>
      /\ pump' \in {pump, "none"}
      /\ Over' => Over /\ call' = call
      /\ call' \in {"refused", "closing", "waiting", "closed", call}
      /\ calls' \in 0..MaxCalls
      /\ Running' => Running /\ pump' = pump
      /\ calls' = calls \/ calls' = calls + 1
  <2>1. CASE RefuseWindows
    BY <2>1, CallsAssumption DEF RefuseWindows, Call, CallInv, CallTypes, Over, Running
  <2>2. CASE Abandon
    BY <2>2 DEF Abandon, CallStep, CallMoves, CallInv, CallTypes, Over, Running
  <2>3. CASE GoOn
    BY <2>3 DEF GoOn, CallStep, CallMoves, CallInv, CallTypes, Over, Running
  <2>4. CASE Closed
    BY <2>4 DEF Closed, Finally, CallStep, CallMoves, CallInv, CallTypes, Over, Running
  <2>5. CASE LeaveBehind
    BY <2>5 DEF LeaveBehind, CallMoves, CallInv, CallTypes, Over, Running
  <2>6. CASE StrayFinalised
    BY <2>6 DEF StrayFinalised, CallInv, CallTypes, Over, Running
  <2> QED BY <2>1, <2>2, <2>3, <2>4, <2>5, <2>6
<1>2. Members(taken)' = Members(taken) /\ taken' = taken
  BY <1>1, DriverSame
<1>3. RelayItems' = RelayItems
  BY <1>1 DEF RelayItems, Members
<1>4. CallTypes' /\ WindowTypes'
  BY <1>1 DEF CallInv, CallTypes, WindowTypes
<1>5. RelayInv'
  BY <1>1, <1>2, <1>4, PauseRelay DEF CallInv
<1>6. StrayInv'
  BY AloneStrays DEF CallInv, CallAlone
<1>7. OpenInv'
  BY <1>1, <1>2, OpenPause DEF CallInv, DriverInv
<1>8. TripsInv'
  <2>1. CASE calls' = calls
    BY <1>1, <1>2, <2>1, EdgesPause DEF CallInv
  <2>2. CASE calls' = calls + 1
    BY <1>2, <2>2, EdgesNewCall DEF CallInv
  <2> QED BY <1>1, <2>1, <2>2
<1>9. GivenInv' /\ WindowsAreTrips' /\ TagsInTheirWindow'
  BY <1>1, <1>2, <1>3, NothingGiven
<1> QED BY <1>4, <1>5, <1>6, <1>7, <1>8, <1>9 DEF CallInv

\* The window that an edge opens, or the one that stays open all the same.
LEMMA OpensCallInv ==
  ASSUME DriverInv, HandedInv, CallInv, CallTypes', RelayInv', [WindowsNext]_allVars,
         NEW x, Assembles(x), Running, Opens(x), StrayInv'
  PROVE  CallInv'
<1>1. /\ x.kind = "edge" /\ IsActive(x) /\ given' = given
      /\ \/ window' = [from |-> x.n, to |-> 0, tags |-> <<>>]
         \/ window # None /\ window' = window
  BY DEF Opens
<1>2. /\ Members(taken)' = Members(taken) /\ Members(given)' = Members(given)
      /\ RelayItems' \subseteq RelayItems /\ x \in RelayItems
  BY <1>1, DriverSame DEF Assembles, TakenFromRelay, Members
<1>3. CASE window' = [from |-> x.n, to |-> 0, tags |-> <<>>]
  <2> DEFINE w == [from |-> x.n, to |-> 0, tags |-> <<>>]
  <2>1. x.n \in 1..MaxReads
    <3>1. x \in Handed /\ x.kind \in Reads /\ x \in Item /\ x.n \in Nat
      BY <1>1, TakenOld DEF Assembles, Reads
    <3>2. x.n <= MaxReads
      BY <3>1 DEF HandedInv
    <3>3. x.n \in 1..(MaxReads + 2)
      BY <3>1 DEF Item
    <3> QED BY <3>1, <3>2, <3>3, BoundsAssumption
  <2>2. w \in Windows /\ w.from = x.n /\ w.to = 0 /\ w.tags = <<>>
    BY <2>1, Opened
  <2> HIDE DEF w
  <2>3. window' = w
    BY <1>3 DEF w
  <2>4. WindowTypes'
    BY <1>1, <2>2, <2>3 DEF CallInv, WindowTypes
  <2>5. OpenInv'
    BY <1>1, <2>2, <2>3, OpenFresh DEF CallInv
  <2>6. window' # None /\ window'.from = x.n
    BY <2>2, <2>3, NoneIsNoWindow
  <2>7. Missed # {} \/ window = None
    BY <1>1, NextIsRelease DEF CallInv, Assembles
  <2>8. TripsInv'
    BY <1>2, <2>6, <2>7, EdgesAssemble DEF CallInv
  <2>9. GivenInv' /\ WindowsAreTrips' /\ TagsInTheirWindow'
    BY <1>1, <1>2, <2>6, NothingGiven
  <2> QED BY <2>4, <2>5, <2>8, <2>9 DEF CallInv
<1>4. CASE window # None /\ window' = window
  <2>1. WindowTypes'
    BY <1>1, <1>4 DEF CallInv, WindowTypes
  <2>2. OpenInv'
    BY <1>1, <1>4, OpenRetained DEF CallInv
  <2>3. Missed # {}
    BY <1>1, <1>4, NextIsRelease DEF CallInv, Assembles
  <2>4. TripsInv'
    BY <1>2, <2>3, EdgesAssemble DEF CallInv
  <2>5. GivenInv' /\ WindowsAreTrips' /\ TagsInTheirWindow'
    BY <1>1, <1>2, <1>4, NothingGiven
  <2> QED BY <2>1, <2>2, <2>4, <2>5 DEF CallInv
<1> QED BY <1>1, <1>3, <1>4

LEMMA CollectsCallInv ==
  ASSUME DriverInv, HandedInv, CallInv, CallTypes', RelayInv', [WindowsNext]_allVars,
         NEW x, Assembles(x), Running, Collects(x), StrayInv'
  PROVE  CallInv'
<1>1. /\ x.kind = "kept" /\ window # None /\ given' = given
      /\ window' = [window EXCEPT !.tags = Append(@, x)]
  BY DEF Collects
<1>2. /\ Members(taken)' = Members(taken) /\ Members(given)' = Members(given)
      /\ RelayItems' \subseteq RelayItems /\ x \in Item
  BY <1>1, DriverSame DEF Assembles, TakenFromRelay, Members
<1>3. window \in Windows
  BY <1>1 DEF CallInv, WindowTypes
<1> DEFINE v == [window EXCEPT !.tags = Append(@, x)]
<1>4. v \in Windows /\ v.from = window.from /\ v.tags = Append(window.tags, x)
  BY <1>2, <1>3, Collected
<1> HIDE DEF v
<1>5. window' = v
  BY <1>1 DEF v
<1>6. WindowTypes'
  BY <1>1, <1>4, <1>5 DEF CallInv, WindowTypes
<1>7. OpenInv'
  <2> PICK u : u = v
    OBVIOUS
  <2>1. window' = u /\ u.from = window.from /\ u.tags = Append(window.tags, x)
    BY <1>4, <1>5
  <2> QED BY <1>1, <2>1, OpenCollects DEF CallInv
<1>8. window' # None /\ window'.from = window.from
  BY <1>4, <1>5, NoneIsNoWindow
<1>9. TripsInv'
  BY <1>1, <1>2, <1>8, EdgesAssemble DEF CallInv
<1>10. GivenInv' /\ WindowsAreTrips' /\ TagsInTheirWindow'
  BY <1>1, <1>2, <1>8, NothingGiven
<1> QED BY <1>6, <1>7, <1>9, <1>10 DEF CallInv

LEMMA IgnoresCallInv ==
  ASSUME DriverInv, HandedInv, CallInv, CallTypes', RelayInv', [WindowsNext]_allVars,
         NEW x, Assembles(x), Running, Ignores(x), StrayInv'
  PROVE  CallInv'
<1>1. window = None /\ UNCHANGED <<window, given>> /\ ~(x.kind = "edge" /\ IsActive(x))
  BY DEF Ignores
<1>2. /\ Members(taken)' = Members(taken) /\ Members(given)' = Members(given)
      /\ RelayItems' \subseteq RelayItems
  BY <1>1, DriverSame DEF Assembles, TakenFromRelay, Members
<1>3. WindowTypes' /\ OpenInv'
  BY <1>1 DEF CallInv, WindowTypes, OpenInv
<1>4. TripsInv'
  BY <1>1, <1>2, EdgesAssemble DEF CallInv
<1>5. GivenInv' /\ WindowsAreTrips' /\ TagsInTheirWindow'
  BY <1>1, <1>2, NothingGiven
<1> QED BY <1>3, <1>4, <1>5 DEF CallInv

LEMMA GivesFrom ==
  ASSUME WindowTypes, NEW n, Gives(n)
  PROVE  /\ Members(given) \subseteq Members(given)'
         /\ \E g \in Members(given)' : g.from = window.from
<1>1. PICK v \in Windows : v.from = window.from /\ given' = Append(given, v)
  BY DEF Gives
<1>2. Members(given)' = Members(given) \union {v}
  BY <1>1, GivenMore
<1> QED BY <1>1, <1>2

LEMMA ReleasesCallInv ==
  ASSUME DriverInv, HandedInv, CallInv, CallTypes', RelayInv', [WindowsNext]_allVars,
         NEW x, Assembles(x), Running, Releases(x), StrayInv'
  PROVE  CallInv'
<1>1. x.kind = "edge" /\ ~IsActive(x) /\ Yield(x.n) /\ UNCHANGED <<vars, strayed>>
  BY DEF Releases, Assembles
<1>2. x.n \in 0..MaxReads /\ x.n <= gone
  <2>1. x \in Handed /\ x.kind \in Reads /\ x.n \in Nat /\ x.n <= gone
    BY <1>1, TakenOld DEF Assembles, Reads
  <2>2. x.n <= MaxReads
    BY <2>1 DEF HandedInv
  <2> QED BY <2>1, <2>2, BoundsAssumption
<1>3. Gives(x.n) /\ WindowTypes'
  BY <1>1, <1>2, YieldGives DEF CallInv
<1>4. window' = None
  BY <1>3 DEF Gives
<1>5. OpenInv'
  BY <1>4 DEF OpenInv
<1>6. RelayItems' \subseteq RelayItems /\ \A r \in RelayItems' : x.n < r.n
  BY DEF Assembles, TakenFromRelay
<1>7. GivenInv'
  BY <1>1, <1>2, <1>3, <1>6, GivenGives DEF CallInv
<1>8. TripsInv'
  BY <1>1, <1>3, GivesFrom, EdgesAssemble DEF CallInv
<1>9. WindowsAreTrips'
  BY <1>1, <1>2, <1>3, TripsGive DEF CallInv
<1>10. TagsInTheirWindow'
  <2> PICK w : w = window
    OBVIOUS
  <2>1. Behind(w)
    BY <1>3, OpenHas DEF CallInv, Gives, OpenParts
  <2>2. \A t \in Members(window.tags) : t.n < x.n
    BY <2>1 DEF Behind, Assembles
  <2> QED BY <1>1, <1>2, <1>3, <2>2, TagsGives DEF CallInv
<1> QED BY <1>3, <1>5, <1>7, <1>8, <1>9, <1>10 DEF CallInv

LEMMA ForceClosesCallInv ==
  ASSUME DriverInv, HandedInv, CallInv, [WindowsNext]_allVars, ForceCloses
  PROVE  CallInv'
<1>1. /\ Yield(0) /\ UNCHANGED vars /\ UNCHANGED <<pump, relay, calls, strayed>>
      /\ call = "waiting" /\ call' = "yielding"
  BY DEF ForceCloses, Yield, CallStep, CallMoves
<1>2. 0 \in 0..MaxReads /\ 0 <= gone
  <2>1. gone = Len(taken) + Len(lost) /\ Len(taken) \in Nat /\ Len(lost) \in Nat
    BY DEF DriverInv, Numbered, TypeInv, TypeOK
  <2> QED BY <2>1, BoundsAssumption
<1>3. Gives(0) /\ WindowTypes'
  BY <1>1, <1>2, YieldGives DEF CallInv
<1>4. window' = None /\ OpenInv'
  BY <1>3 DEF Gives, OpenInv
<1>5. /\ Members(taken)' = Members(taken) /\ taken' = taken /\ RelayItems' = RelayItems
      /\ ~Over' /\ Running /\ ~Over
  BY <1>1, DriverSame DEF RelayItems, Members, Over, Running
<1>6. CallTypes'
  BY <1>1 DEF CallInv, CallTypes
<1>7. RelayInv'
  BY <1>1, <1>5, <1>6, PauseRelay DEF CallInv
<1>8. \A r \in RelayItems' : 0 < r.n
  <2>1. ASSUME NEW r \in RelayItems PROVE 0 < r.n
    <3>1. r \in Item
      BY RelayItem DEF CallInv
    <3> QED BY <3>1 DEF Item
  <2> QED BY <1>5, <2>1
<1>9. GivenInv'
  BY <1>1, <1>2, <1>3, <1>5, <1>8, GivenGives DEF CallInv
<1>10. TripsInv'
  <2>1. \A e : Kept(e) => Kept(e)'
    BY <1>3, <1>5, GivesFrom DEF Kept, CallInv
  <2> QED BY <1>1, <1>5, <2>1, EdgesKept DEF CallInv
<1>11. WindowsAreTrips'
  BY <1>1, <1>2, <1>3, TripsGive DEF CallInv
<1>12. TagsInTheirWindow'
  BY <1>1, <1>2, <1>3, TagsGives DEF CallInv
<1>13. StrayInv'
  BY AloneStrays DEF CallInv, CallAlone
<1> QED BY <1>3, <1>4, <1>6, <1>7, <1>9, <1>10, <1>11, <1>12, <1>13 DEF CallInv

LEMMA RaisesCallInv ==
  ASSUME DriverInv, HandedInv, CallInv, [WindowsNext]_allVars, Raises
  PROVE  CallInv'
<1>1. /\ UNCHANGED vars /\ UNCHANGED <<window, given>>
      /\ relay # <<>> /\ relay' = Tail(relay)
  BY DEF Raises, Finally, CallStep, CallMoves, Relayed
<1>2. CallTypes' /\ RelayInv'
  BY RaisesRelay DEF CallInv
<1>3. WindowTypes'
  BY <1>1 DEF CallInv, WindowTypes
<1>4. OpenInv'
  BY OpenRaises DEF CallInv
<1>5. TripsInv'
  BY EdgesRaises DEF CallInv
<1>6. Members(taken)' = Members(taken)
  BY <1>1, DriverSame
<1>7. RelayItems' \subseteq RelayItems
  BY <1>1, HeadOfRelay DEF CallInv, RelayItems
<1>8. GivenInv' /\ WindowsAreTrips' /\ TagsInTheirWindow'
  BY <1>1, <1>6, <1>7, NothingGiven
<1>9. StrayInv'
  BY AloneStrays DEF CallInv, CallAlone, Assembler
<1> QED BY <1>2, <1>3, <1>4, <1>5, <1>8, <1>9 DEF CallInv

LEMMA EndsCallInv ==
  ASSUME DriverInv, HandedInv, CallInv, [WindowsNext]_allVars, Ends
  PROVE  CallInv'
<1>1. UNCHANGED vars /\ UNCHANGED <<window, given>>
  BY DEF Ends, Finally, CallStep, CallMoves
<1>2. CallTypes' /\ RelayInv' /\ RelayItems' = {}
  BY EndsRelay DEF CallInv
<1>3. WindowTypes'
  BY <1>1 DEF CallInv, WindowTypes
<1>4. OpenInv'
  BY OpenEnds DEF CallInv
<1>5. TripsInv'
  BY EdgesEnds DEF CallInv
<1>6. Members(taken)' = Members(taken)
  BY <1>1, DriverSame
<1>7. GivenInv' /\ WindowsAreTrips' /\ TagsInTheirWindow'
  BY <1>1, <1>2, <1>6, NothingGiven
<1>8. StrayInv'
  BY AloneStrays DEF CallInv, CallAlone, Assembler
<1> QED BY <1>2, <1>3, <1>4, <1>5, <1>7, <1>8 DEF CallInv

LEMMA NextCallInv == DriverInv /\ HandedInv /\ CallInv /\ [WindowsNext]_allVars => CallInv'
<1> SUFFICES ASSUME DriverInv, HandedInv, CallInv, [WindowsNext]_allVars PROVE CallInv'
  OBVIOUS
<1>1. CASE UNCHANGED <<callVars, taken>>
  BY <1>1, BeneathCallInv
<1>2. CASE \E x, next, put : TakeStep(x, next, put)
  <2>1. PICK x : PumpTook(x)
    BY <1>2, TakeIsPumpTook DEF CallInv
  <2> QED BY <2>1, TakeCallInv
<1>3. CASE StrayTakes
  BY <1>3, StrayCallInv
<1>4. CASE CallAlone
  <2>1. CASE StartWindows
    BY <2>1, StartCallInv
  <2>2. CASE RefuseWindows \/ Abandon \/ GoOn \/ Closed \/ LeaveBehind \/ StrayFinalised
    BY <2>2, PauseCallInv
  <2>3. CASE Assemble
    <3>1. PICK x \in Members(relay) \ {END} :
             Consume(x) /\ (Opens(x) \/ Releases(x) \/ Collects(x) \/ Ignores(x))
      BY <2>3 DEF Assemble
    <3>2. Assembles(x) /\ CallTypes' /\ RelayInv' /\ Running
      BY <3>1, AssembleTakes DEF CallInv, Consume, Relayed, Running
    <3>3. StrayInv'
      BY <1>4, AloneStrays DEF CallInv
    <3> QED BY <3>1, <3>2, <3>3, OpensCallInv, ReleasesCallInv, CollectsCallInv, IgnoresCallInv
  <2>4. CASE Raises
    BY <2>4, RaisesCallInv
  <2>5. CASE Ends
    BY <2>5, EndsCallInv
  <2>6. CASE ForceCloses
    BY <2>6, ForceClosesCallInv
  <2> QED BY <1>4, <2>1, <2>2, <2>3, <2>4, <2>5, <2>6 DEF CallAlone, Assembler
<1> QED BY <1>1, <1>2, <1>3, <1>4, WindowsSteps

WindowsInv == DriverInv /\ HandedInv /\ CallInv

LEMMA SpecWindowsInv == WindowsSpec => []WindowsInv
BY InitDriverInv, NextDriverInv, InitHandedInv, NextHandedInv, InitCallInv, NextCallInv, PTL
   DEF WindowsSpec, WindowsInv, DriverInv

\* Whether the driver has a trigger does not change.
LEMMA SpecGated == WindowsSpec => [](gated \in BOOLEAN)
<1>1. WindowsInit => gated \in BOOLEAN
  BY DEF WindowsInit
<1>2. gated \in BOOLEAN /\ [WindowsNext]_allVars => (gated \in BOOLEAN)'
  <2> SUFFICES ASSUME gated \in BOOLEAN, [WindowsNext]_allVars PROVE gated' = gated
    OBVIOUS
  <2>1. CASE UNCHANGED callVars
    BY <2>1 DEF callVars
  <2>2. CASE \E x, next, put : TakeStep(x, next, put)
    BY <2>2 DEF TakeStep, Take, TakeWith
  <2>3. CASE StartWindows \/ RefuseWindows
    BY <2>3 DEF StartWindows, RefuseWindows, Call
  <2>4. CASE Abandon \/ GoOn \/ Closed \/ ForceCloses \/ LeaveBehind \/ StrayFinalised
    BY <2>4 DEF Abandon, GoOn, Closed, ForceCloses, LeaveBehind, StrayFinalised, Yield, Finally,
                CallStep, CallMoves
  <2>5. CASE Assembler
    BY <2>5 DEF Assembler, Assemble, Raises, Ends, Opens, Releases, Collects, Ignores,
                Yield, Finally, CallStep, CallMoves
  <2>6. CASE StrayTakes
    BY <2>6 DEF StrayTakes
  <2> QED BY <2>1, <2>2, <2>3, <2>4, <2>5, <2>6, WindowsSteps DEF CallAlone
<1> QED BY <1>1, <1>2, PTL DEF WindowsSpec

-----------------------------------------------------------------------------
(***************************************************************************)
(* Every variable of windows() stays in its type: a window starts at an    *)
(* edge the reader yielded, and the relay holds nothing that the assembler *)
(* does not know.                                                          *)
(***************************************************************************)
THEOREM WindowsTypeCorrect == WindowsSpec => []WindowsTypeOK
<1>1. WindowsInv => strays \in 0..MaxCalls /\ strayed \subseteq Members(taken)
  <2>1. WindowsInv => strays \in Nat /\ strays <= calls /\ calls \in 0..MaxCalls
    BY DEF WindowsInv, CallInv, StrayInv, CallTypes
  <2> QED BY <2>1, CallsAssumption DEF WindowsInv, CallInv, StrayInv
<1>2. WindowsInv /\ gated \in BOOLEAN => WindowsTypeOK
  BY <1>1 DEF WindowsInv, DriverInv, TypeInv, CallInv, CallTypes, WindowTypes, WindowsTypeOK,
              Relayable
<1> QED BY SpecWindowsInv, SpecGated, <1>2, PTL

(***************************************************************************)
(* Whatever is missed and however often the program starts over, a window  *)
(* holds tags from between its edges, reaches over the end of a trip only  *)
(* if the release was missed, and is over before the next one opens.       *)
(***************************************************************************)
THEOREM TagsKeepTheirWindow == WindowsSpec => []TagsInTheirWindow
<1>1. WindowsInv => TagsInTheirWindow
  BY DEF WindowsInv, CallInv
<1> QED BY SpecWindowsInv, <1>1, PTL

(***************************************************************************)
(* As long as nothing is missed, a window that its release closed is one   *)
(* trip, from its active edge to the next edge, with every kept tag in     *)
(* between.                                                                *)
(***************************************************************************)
THEOREM WindowsGiveTrips == WindowsSpec => []WindowsAreTrips
<1>1. WindowsInv => WindowsAreTrips
  BY DEF WindowsInv, CallInv
<1> QED BY SpecWindowsInv, <1>1, PTL

(***************************************************************************)
(* As long as the queue drops nothing, a call that runs to its end yields  *)
(* one window for each trip.                                               *)
(***************************************************************************)
THEOREM TripsGivenOnce == WindowsSpec => []EveryTripOnce
<1>1. WindowsInv => EveryTripOnce
  BY TripsOnce DEF WindowsInv, CallInv
<1> QED BY SpecWindowsInv, <1>1, PTL
-----------------------------------------------------------------------------
(***************************************************************************)
(* How the end comes to the program: what the pump of a first call has not *)
(* taken yet is still to come, and once it has, END is in the relay.       *)
(***************************************************************************)
TellInv ==
    /\ StopHanded
    /\ calls = 0 => call = "idle" /\ ~StopTaken
    /\ calls = 1 /\ pump = "getting" => ~StopTaken
    /\ Running /\ pump = "ended" => END \in Members(relay)

LEMMA InitTellInv == WindowsInit => TellInv
<1>1. WindowsInit => StopHanded
  BY InitStopHanded DEF WindowsInit
<1>2. WindowsInit => call = "idle" /\ ~Running /\ ~StopTaken
  BY DEF WindowsInit, Init, Running, StopTaken, Members
<1> QED BY <1>1, <1>2 DEF TellInv

LEMMA TakeTells ==
  ASSUME DriverInv, CallInv, TellInv, NEW x, NEW next, NEW put, TakeStep(x, next, put)
  PROVE  /\ calls' = 0 => call' = "idle" /\ ~StopTaken'
         /\ calls' = 1 /\ pump' = "getting" => ~StopTaken'
         /\ Running' /\ pump' = "ended" => END \in Members(relay)'
<1>1. /\ pump = "getting" /\ Running /\ calls' = calls /\ call' = call
      /\ relay' = relay \o put /\ pump' = next
  BY DEF TakeStep, Take, TakeWith
<1>2. Members(taken)' = Members(taken) \union {x}
  BY TakeIsOldest, TakeHandsNothing DEF TakeStep, DriverInv
<1>3. calls # 0
  BY <1>1 DEF TellInv, Running
<1>4. next = "getting" => x.kind # "stop"
  BY DEF TakeStep
<1>5. calls' = 1 /\ pump' = "getting" => ~StopTaken'
  BY <1>1, <1>2, <1>4 DEF TellInv, StopTaken
<1>6. CASE next = "ended"
  <2>1. put = <<END>> /\ relay \in Seq(Relayable) /\ END \in Relayable
    BY <1>6 DEF TakeStep, CallInv, CallTypes, Relayable
  <2>2. relay' = Append(relay, END)
    BY <1>1, <2>1
  <2>3. Members(Append(relay, END)) = Members(relay) \union {END}
    BY <2>1, AppendMembers
  <2> QED BY <1>1, <1>3, <1>5, <2>2, <2>3 DEF Members
<1>7. CASE next # "ended"
  BY <1>1, <1>3, <1>5, <1>7
<1> QED BY <1>6, <1>7

LEMMA NextTellInv ==
  DriverInv /\ CallInv /\ TellInv /\ [WindowsNext]_allVars => TellInv'
<1> SUFFICES ASSUME DriverInv, CallInv, TellInv, [WindowsNext]_allVars PROVE TellInv'
  OBVIOUS
<1>1. StopHanded'
  BY WindowsHands, HandsStop DEF DriverInv, TellInv
<1>2. calls \in Nat
  BY CallsAssumption DEF CallInv, CallTypes
<1>3. CASE UNCHANGED <<callVars, taken>>
  BY <1>1, <1>3 DEF TellInv, callVars, StopTaken, Members, Running
<1>4. CASE \E x, next, put : TakeStep(x, next, put)
  BY <1>1, <1>4, TakeTells DEF TellInv
<1>5. CASE StrayTakes
  <2>1. strays > 0 /\ strays \in Nat
    BY <1>5 DEF StrayTakes, CallInv, StrayInv
  <2>2. calls # 0 /\ (calls = 1 => pump = "none")
    BY <2>1 DEF CallInv, StrayInv
  <2>3. UNCHANGED <<call, calls, pump, relay>>
    BY <1>5 DEF StrayTakes
  <2> QED BY <1>1, <2>2, <2>3 DEF TellInv, Running, Members
<1>6. CASE CallAlone
  <2>1. UNCHANGED vars /\ (StopTaken' <=> StopTaken)
    BY <1>6, CallAloneKeeps DEF vars, StopTaken, Members
  <2>2. CASE StartWindows \/ RefuseWindows
    <3>1. calls' = calls + 1 /\ ~Running /\ (pump' = "getting" \/ call' = "refused")
      BY <2>2 DEF StartWindows, RefuseWindows, Call
    <3>2. pump' = "ended" => ~Running'
      BY <2>2 DEF StartWindows, RefuseWindows, Running
    <3>3. calls' # 0 /\ (calls' = 1 => calls = 0)
      BY <1>2, <3>1
    <3> QED BY <1>1, <2>1, <3>2, <3>3 DEF TellInv
  <2>3. CASE Abandon \/ GoOn \/ ForceCloses
    <3>1. /\ UNCHANGED <<calls, pump, relay>> /\ call # "idle"
          /\ Running \/ ~Running'
      BY <2>3 DEF Abandon, GoOn, ForceCloses, Yield, CallStep, CallMoves, Running
    <3> QED BY <1>1, <2>1, <3>1 DEF TellInv, Members
  <2>4. CASE Closed \/ LeaveBehind \/ Raises \/ Ends
    <3>1. calls' = calls /\ pump' = "none" /\ call # "idle"
      BY <2>4 DEF Closed, LeaveBehind, Raises, Ends, Relayed, Finally, CallStep, CallMoves
    <3> QED BY <1>1, <2>1, <3>1 DEF TellInv
  <2>5. CASE Assemble
    <3>1. PICK x \in Members(relay) \ {END} :
             Consume(x) /\ (Opens(x) \/ Releases(x) \/ Collects(x) \/ Ignores(x))
      BY <2>5 DEF Assemble
    <3>2. /\ relay # <<>> /\ x = Head(relay) /\ relay' = Tail(relay)
          /\ UNCHANGED <<calls, pump>> /\ call = "waiting"
      BY <3>1 DEF Consume, Relayed, Opens, Releases, Collects, Ignores, Yield, CallStep,
                  CallMoves
    <3>3. Members(relay) = {x} \union Members(Tail(relay))
      BY <3>2, HeadMembers DEF CallInv, CallTypes
    <3>4. END \in Members(relay) => END \in Members(relay)'
      BY <3>1, <3>2, <3>3 DEF Members
    <3> QED BY <1>1, <2>1, <3>2, <3>4 DEF TellInv, Running
  <2>6. CASE StrayFinalised
    <3>1. UNCHANGED <<call, calls, pump, relay>>
      BY <2>6 DEF StrayFinalised
    <3> QED BY <1>1, <2>1, <3>1 DEF TellInv, Running, Members
  <2> QED BY <1>6, <2>2, <2>3, <2>4, <2>5, <2>6 DEF CallAlone, Assembler
<1> QED BY <1>3, <1>4, <1>5, <1>6, WindowsSteps

(***************************************************************************)
(* What EndReachesWindows rests on: a program in its first windows(), over *)
(* a worker that ended, has an item queued, scheduled or relayed for it,   *)
(* END among them, unless the policy raised in the pump.                   *)
(***************************************************************************)
THEOREM EndOnItsWay ==
  WindowsSpec => [](calls = 1 /\ Running /\ worker = "ended" /\ pump # "died" =>
                       END \in Members(relay) \/ \E x \in Waiting : x.kind = "stop")
<1>1. WindowsInv /\ TellInv =>
        (calls = 1 /\ Running /\ worker = "ended" /\ pump # "died" =>
            END \in Members(relay) \/ \E x \in Waiting : x.kind = "stop")
  <2> SUFFICES ASSUME WindowsInv, TellInv, calls = 1, Running, worker = "ended", pump # "died"
               PROVE  END \in Members(relay) \/ \E x \in Waiting : x.kind = "stop"
    OBVIOUS
  <2>1. pump \in {"getting", "ended"}
    BY DEF WindowsInv, CallInv, CallTypes, RelayInv
  <2>2. StopTaken \/ \E x \in Waiting : x.kind = "stop"
    BY StopDue DEF WindowsInv, DriverInv, TellInv
  <2> QED BY <2>1, <2>2 DEF TellInv
<1>2. WindowsInv /\ TellInv /\ [WindowsNext]_allVars => TellInv'
  BY NextTellInv DEF WindowsInv
<1> QED BY SpecWindowsInv, InitTellInv, <1>1, <1>2, PTL DEF WindowsSpec
=============================================================================
