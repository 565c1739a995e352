------------------------ MODULE ThreadedDriverProofs ------------------------
(***************************************************************************)
(* Theorems about ThreadedDriver for every queue bound, every max_tags and *)
(* every number of reads.                                                  *)
(***************************************************************************)
EXTENDS ThreadedDriver, SequenceTheorems, TLAPS

(***************************************************************************)
(* How far the worker has come: before its last two items it handed over   *)
(* at most MaxReads; the worker starts once.  With TypeOK it is inductive. *)
(***************************************************************************)
PutsBound ==
    /\ worker \in {"off", "reading", "raising"} => puts <= MaxReads
    /\ worker = "putting" => puts < MaxReads /\ hand \in Reads
    /\ worker = "ending" => puts <= MaxReads + 1
    /\ owner = "new" => worker = "off"

TypeInv == TypeOK /\ PutsBound

\* The initial state is typed.
LEMMA InitTypeInv == Init => TypeInv
<1> SUFFICES ASSUME Init PROVE TypeInv
  OBVIOUS
<1>1. stop \in BOOLEAN
  BY DEF Init
<1>2. TypeOK
  BY <1>1, BoundsAssumption DEF Init, TypeOK
<1>3. PutsBound
  BY BoundsAssumption DEF Init, PutsBound
<1> QED BY <1>2, <1>3 DEF TypeInv

\* A step of any actor keeps every variable in its type.
LEMMA NextTypeInv == TypeInv /\ [Next]_vars => TypeInv'
<1> SUFFICES ASSUME TypeInv, [Next]_vars PROVE TypeInv'
  OBVIOUS
<1> USE BoundsAssumption DEF TypeInv, TypeOK, PutsBound
<1>1. CASE Owner
  BY <1>1 DEF Owner, Enter, EnterFails, ExitStops, Disconnect, Join, handOff, consuming
<1>2. CASE Worker
  <2>1. CASE Finish \/ Raise
    BY <1>2, <2>1 DEF Finish, Raise, handOff, consuming
  <2>2. CASE \E k \in Reads : Read(k)
    BY <1>2, <2>2 DEF Read, handOff, consuming, Reads
  <2>3. CASE PutRead
    <3>1. [kind |-> hand, n |-> puts + 1] \in Item
      BY <2>3 DEF PutRead, Item, Kinds, Reads
    <3> QED BY <2>3, <3>1 DEF PutRead, PutThreadsafe, consuming, Reads
  <2>4. CASE PutException
    <3>1. [kind |-> "exc", n |-> puts + 1] \in Item
      BY <2>4 DEF PutException, Item, Kinds, Reads
    <3> QED BY <2>4, <3>1 DEF PutException, PutThreadsafe, consuming
  <2>5. CASE PutStop
    <3>1. [kind |-> "stop", n |-> puts + 1] \in Item
      BY <2>5 DEF PutStop, Item, Kinds, Reads
    <3> QED BY <2>5, <3>1 DEF PutStop, PutThreadsafe, consuming
  <2> QED BY <1>2, <2>1, <2>2, <2>3, <2>4, <2>5 DEF Worker
<1>3. CASE RunPut
  <2>1. CASE PutNoWait
    BY <2>1 DEF PutNoWait, RunPutWith, consuming
  <2>2. CASE WhenFull(Append(Tail(queue), Head(ready)), Append(lost, Head(queue)))
    <3>1. queue # <<>>
      BY <2>2 DEF WhenFull, Full
    <3> QED BY <2>2, <3>1 DEF WhenFull, RunPutWith, consuming
  <2> QED BY <1>3, <2>1, <2>2 DEF RunPut
<1>4. CASE Consumer
  <2>1. CASE Get
    <3>1. After(Head(queue).kind) \in {"waiting", "yielding", "ended", "raised"}
      BY DEF After
    <3> QED BY <2>1, <3>1 DEF Get
  <2>2. CASE StartInventory \/ Resume \/ Close
    BY <2>2 DEF StartInventory, Resume, Close, Active, driverVars
  <2> QED BY <1>4, <2>1, <2>2 DEF Consumer
<1>5. CASE UNCHANGED vars
  BY <1>5 DEF vars
<1> QED BY <1>1, <1>2, <1>3, <1>4, <1>5 DEF Next

(***************************************************************************)
(* Every variable of the driver stays in its type.                         *)
(***************************************************************************)
THEOREM TypeCorrect == Spec => []TypeOK
<1>1. TypeInv => TypeOK
  BY DEF TypeInv
<1> QED BY InitTypeInv, NextTypeInv, <1>1, PTL DEF Spec

-----------------------------------------------------------------------------
(***************************************************************************)
(* The backlog is always the last items handed over, without a gap: what   *)
(* leaves it, received or dropped, leaves it at its old end.  It is this   *)
(* numbering, and not the order alone, that is inductive.                  *)
(***************************************************************************)
gone == puts - Len(ready) - Len(queue)

Numbered ==
    /\ \A i \in 1..Len(ready) : ready[i].n = gone + Len(queue) + i
    /\ \A i \in 1..Len(queue) : queue[i].n = gone + i
    /\ \A i \in 1..Len(taken) : taken[i].n <= gone
    /\ \A i \in 1..Len(lost) : lost[i].n <= gone
    /\ \A i, j \in 1..Len(taken) : i < j => taken[i].n < taken[j].n
    /\ Len(taken) + Len(lost) = gone
    /\ MaxQueue > 0 => Len(queue) <= MaxQueue

LEMMA InitNumbered == Init => Numbered
<1> SUFFICES ASSUME Init PROVE Numbered
  OBVIOUS
<1>1. /\ puts = 0 /\ MaxQueue \in Nat
      /\ Len(ready) = 0 /\ Len(queue) = 0 /\ Len(taken) = 0 /\ Len(lost) = 0
  BY BoundsAssumption DEF Init
<1> QED BY <1>1 DEF Numbered, gone

\* The numbers are numbers.
LEMMA TakenNat == TypeInv => \A i \in 1..Len(taken) : taken[i].n \in Nat
<1>1. TypeInv => \A i \in 1..Len(taken) : taken[i] \in Item
  BY DEF TypeInv, TypeOK
<1> QED BY <1>1 DEF Item

LEMMA LostNat == TypeInv => \A i \in 1..Len(lost) : lost[i].n \in Nat
<1>1. TypeInv => \A i \in 1..Len(lost) : lost[i] \in Item
  BY DEF TypeInv, TypeOK
<1> QED BY <1>1 DEF Item

\* The worker hands over the next number.
LEMMA PutNumbered ==
  ASSUME TypeInv, Numbered, NEW k \in Kinds, PutThreadsafe(k)
  PROVE  Numbered'
<1> DEFINE item == [kind |-> k, n |-> puts + 1]
<1>1. item.n = puts + 1
  OBVIOUS
<1>2. ready' = Append(ready, item)
  BY DEF PutThreadsafe
<1>3. /\ Len(ready') = Len(ready) + 1
      /\ ready'[Len(ready) + 1] = item
      /\ \A i \in 1..Len(ready) : ready'[i] = ready[i]
  BY <1>2 DEF TypeInv, TypeOK
<1>4. puts' = puts + 1 /\ UNCHANGED <<queue, taken, lost>>
  BY DEF PutThreadsafe, consuming
<1>5. gone' = gone
  BY <1>3, <1>4 DEF gone, TypeInv, TypeOK
<1>6. ready'[Len(ready) + 1].n = puts + 1
  BY <1>1, <1>3
<1> HIDE DEF item
<1>7. \A i \in 1..Len(ready') : ready'[i].n = gone' + Len(queue') + i
  <2> SUFFICES ASSUME NEW i \in 1..Len(ready') PROVE ready'[i].n = gone + Len(queue) + i
    BY <1>4, <1>5
  <2>1. CASE i \in 1..Len(ready)
    BY <1>3, <2>1 DEF Numbered
  <2>2. CASE i = Len(ready) + 1
    BY <1>6, <2>2 DEF gone, TypeInv, TypeOK
  <2> QED BY <1>3, <2>1, <2>2 DEF TypeInv, TypeOK
<1> QED BY <1>4, <1>5, <1>7 DEF Numbered

\* A callback moves the oldest scheduled item into the queue.
LEMMA RunPutNumbered ==
  ASSUME TypeInv, Numbered, RunPut
  PROVE  Numbered'
<1>1. ready # <<>> /\ ready' = Tail(ready) /\ UNCHANGED <<puts, taken>>
  BY DEF RunPut, PutNoWait, WhenFull, RunPutWith, consuming
<1>2. /\ Len(ready') = Len(ready) - 1
      /\ \A i \in 1..Len(ready') : ready'[i] = ready[i + 1]
      /\ Head(ready) = ready[1]
      /\ Len(ready) > 0
  BY <1>1 DEF TypeInv, TypeOK
<1>3. Len(ready) \in Nat /\ Len(queue) \in Nat /\ Len(lost) \in Nat /\ gone \in Int
  BY DEF TypeInv, TypeOK, gone
<1>4. CASE PutNoWait
  <2>1. queue' = Append(queue, Head(ready)) /\ lost' = lost
    BY <1>4 DEF PutNoWait, RunPutWith
  <2>2. /\ Len(queue') = Len(queue) + 1
        /\ queue'[Len(queue) + 1] = ready[1]
        /\ \A i \in 1..Len(queue) : queue'[i] = queue[i]
    BY <1>2, <2>1 DEF TypeInv, TypeOK
  <2>3. MaxQueue > 0 => Len(queue) < MaxQueue
    BY <1>3, <1>4, BoundsAssumption DEF PutNoWait, Full
  <2>4. gone' = gone
    BY <1>1, <1>2, <2>2 DEF gone, TypeInv, TypeOK
  <2>5. \A i \in 1..Len(ready') : ready'[i].n = gone' + Len(queue') + i
    <3> SUFFICES ASSUME NEW i \in 1..Len(ready')
                 PROVE  ready'[i].n = gone + Len(queue) + 1 + i
      BY <1>3, <2>2, <2>4
    <3>1. i + 1 \in 1..Len(ready)
      BY <1>2, <1>3
    <3>2. ready[i + 1].n = gone + Len(queue) + (i + 1)
      BY <3>1 DEF Numbered
    <3> QED BY <1>2, <1>3, <3>2
  <2>6. \A i \in 1..Len(queue') : queue'[i].n = gone' + i
    <3> SUFFICES ASSUME NEW i \in 1..Len(queue') PROVE queue'[i].n = gone + i
      BY <2>4
    <3>1. ready[1].n = gone + Len(queue) + 1
      BY <1>2, <1>3 DEF Numbered
    <3>2. CASE i \in 1..Len(queue)
      BY <2>2, <3>2 DEF Numbered
    <3>3. CASE i = Len(queue) + 1
      BY <1>3, <2>2, <3>1, <3>3
    <3> QED BY <1>3, <2>2, <3>2, <3>3
  <2>7. MaxQueue > 0 => Len(queue') <= MaxQueue
    BY <1>3, <2>2, <2>3, BoundsAssumption
  <2> QED BY <1>1, <2>1, <2>4, <2>5, <2>6, <2>7 DEF Numbered
<1>5. CASE WhenFull(Append(Tail(queue), Head(ready)), Append(lost, Head(queue)))
  <2>1. /\ queue' = Append(Tail(queue), Head(ready))
        /\ lost' = Append(lost, Head(queue))
        /\ Len(queue) > 0
    BY <1>3, <1>5, BoundsAssumption DEF WhenFull, RunPutWith, Full
  <2>2. /\ Len(queue') = Len(queue)
        /\ queue'[Len(queue)] = ready[1]
        /\ \A i \in 1..(Len(queue) - 1) : queue'[i] = queue[i + 1]
    BY <1>2, <2>1 DEF TypeInv, TypeOK
  <2>3. /\ Len(lost') = Len(lost) + 1
        /\ lost'[Len(lost) + 1] = queue[1]
        /\ \A i \in 1..Len(lost) : lost'[i] = lost[i]
    BY <2>1 DEF TypeInv, TypeOK
  <2>4. gone' = gone + 1
    BY <1>1, <1>2, <2>2 DEF gone, TypeInv, TypeOK
  <2>5. \A i \in 1..Len(ready') : ready'[i].n = gone' + Len(queue') + i
    <3> SUFFICES ASSUME NEW i \in 1..Len(ready')
                 PROVE  ready'[i].n = gone + Len(queue) + 1 + i
      BY <1>3, <2>2, <2>4
    <3>1. i + 1 \in 1..Len(ready)
      BY <1>2, <1>3
    <3>2. ready[i + 1].n = gone + Len(queue) + (i + 1)
      BY <3>1 DEF Numbered
    <3> QED BY <1>2, <1>3, <3>2
  <2>6. \A i \in 1..Len(queue') : queue'[i].n = gone' + i
    <3> SUFFICES ASSUME NEW i \in 1..Len(queue') PROVE queue'[i].n = gone + 1 + i
      BY <2>4
    <3>1. ready[1].n = gone + Len(queue) + 1
      BY <1>2, <1>3 DEF Numbered
    <3>2. CASE i \in 1..(Len(queue) - 1)
      <4>1. queue[i + 1].n = gone + (i + 1)
        BY <1>3, <3>2 DEF Numbered
      <4> QED BY <1>3, <2>2, <3>2, <4>1
    <3>3. CASE i = Len(queue)
      BY <1>3, <2>2, <3>1, <3>3
    <3> QED BY <1>3, <2>2, <3>2, <3>3
  <2>7. \A i \in 1..Len(lost') : lost'[i].n <= gone'
    <3> SUFFICES ASSUME NEW i \in 1..Len(lost') PROVE lost'[i].n <= gone + 1
      BY <2>4
    <3>1. queue[1].n = gone + 1
      BY <1>3, <2>1 DEF Numbered
    <3>2. CASE i \in 1..Len(lost)
      <4>1. lost[i].n <= gone /\ lost[i].n \in Nat
        BY <3>2, LostNat DEF Numbered
      <4> QED BY <1>3, <2>3, <3>2, <4>1
    <3>3. CASE i = Len(lost) + 1
      BY <1>3, <2>3, <3>1, <3>3
    <3> QED BY <1>3, <2>3, <3>2, <3>3
  <2>8. \A i \in 1..Len(taken') : taken'[i].n <= gone'
    BY <1>1, <1>3, <2>4, TakenNat DEF Numbered
  <2>9. Len(taken') + Len(lost') = gone'
    BY <1>1, <1>3, <2>3, <2>4 DEF Numbered, TypeInv, TypeOK
  <2> QED BY <1>1, <2>2, <2>5, <2>6, <2>7, <2>8, <2>9 DEF Numbered
<1> QED BY <1>4, <1>5 DEF RunPut

\* What takes the oldest item of the queue: inventory, or a pump.
TakesOldest ==
    /\ queue # <<>>
    /\ queue' = Tail(queue)
    /\ taken' = Append(taken, Head(queue))
    /\ UNCHANGED <<worker, puts, ready, lost>>

LEMMA GetTakesOldest == Get => TakesOldest
BY DEF Get, TakesOldest

LEMMA TakeNumbered ==
  ASSUME TypeInv, Numbered, TakesOldest
  PROVE  Numbered'
<1>1. /\ queue # <<>>
      /\ queue' = Tail(queue)
      /\ taken' = Append(taken, Head(queue))
      /\ UNCHANGED <<puts, ready, lost>>
  BY DEF TakesOldest
<1>2. /\ Len(queue) > 0
      /\ Len(queue') = Len(queue) - 1
      /\ \A i \in 1..Len(queue') : queue'[i] = queue[i + 1]
  BY <1>1 DEF TypeInv, TypeOK
<1>3. /\ Len(taken') = Len(taken) + 1
      /\ taken'[Len(taken) + 1] = queue[1]
      /\ \A i \in 1..Len(taken) : taken'[i] = taken[i]
  BY <1>1 DEF TypeInv, TypeOK
<1>4. /\ Len(ready) \in Nat /\ Len(queue) \in Nat /\ Len(taken) \in Nat
      /\ Len(lost) \in Nat /\ gone \in Int
  BY DEF TypeInv, TypeOK, gone
<1>5. gone' = gone + 1
  BY <1>1, <1>2 DEF gone, TypeInv, TypeOK
<1>6. queue[1].n = gone + 1
  BY <1>2, <1>4 DEF Numbered
<1>7. \A i \in 1..Len(queue') : queue'[i].n = gone' + i
  <2> SUFFICES ASSUME NEW i \in 1..Len(queue') PROVE queue'[i].n = gone + 1 + i
    BY <1>5
  <2>1. queue[i + 1].n = gone + (i + 1)
    BY <1>2, <1>4 DEF Numbered
  <2> QED BY <1>2, <1>4, <2>1
<1>8. \A i \in 1..Len(ready') : ready'[i].n = gone' + Len(queue') + i
  BY <1>1, <1>2, <1>4, <1>5 DEF Numbered
<1>9. ASSUME NEW i \in 1..Len(taken') PROVE taken'[i].n <= gone'
  <2>1. CASE i \in 1..Len(taken)
    <3>1. taken[i].n <= gone /\ taken[i].n \in Nat
      BY <2>1, TakenNat DEF Numbered
    <3> QED BY <1>3, <1>4, <1>5, <2>1, <3>1
  <2>2. CASE i = Len(taken) + 1
    BY <1>3, <1>4, <1>5, <1>6, <2>2
  <2> QED BY <1>3, <1>4, <2>1, <2>2
<1>10. ASSUME NEW i \in 1..Len(taken'), NEW j \in 1..Len(taken'), i < j
       PROVE  taken'[i].n < taken'[j].n
  <2>1. i \in 1..Len(taken) /\ taken'[i] = taken[i]
    BY <1>3, <1>4, <1>10
  <2>2. CASE j \in 1..Len(taken)
    BY <1>3, <1>10, <2>1, <2>2 DEF Numbered
  <2>3. CASE j = Len(taken) + 1
    <3>1. taken[i].n <= gone /\ taken[i].n \in Nat
      BY <2>1, TakenNat DEF Numbered
    <3> QED BY <1>3, <1>4, <1>6, <2>1, <2>3, <3>1
  <2> QED BY <1>3, <1>4, <2>2, <2>3
<1>11. \A i \in 1..Len(lost') : lost'[i].n <= gone'
  BY <1>1, <1>4, <1>5, LostNat DEF Numbered
<1>12. Len(taken') + Len(lost') = gone'
  <2>1. Len(taken) + Len(lost) = gone
    BY DEF Numbered
  <2> QED BY <1>1, <1>3, <1>4, <1>5, <2>1
<1>13. MaxQueue > 0 => Len(queue') <= MaxQueue
  BY <1>2, <1>4, BoundsAssumption DEF Numbered
<1> QED BY <1>7, <1>8, <1>9, <1>10, <1>11, <1>12, <1>13 DEF Numbered

\* No other step touches the items.
LEMMA NextNumbered == TypeInv /\ Numbered /\ [Next]_vars => Numbered'
<1> SUFFICES ASSUME TypeInv, Numbered, [Next]_vars PROVE Numbered'
  OBVIOUS
<1>1. CASE UNCHANGED <<puts, ready, queue, taken, lost>>
  BY <1>1 DEF Numbered, gone
<1>2. CASE Owner
  BY <1>1, <1>2 DEF Owner, Enter, EnterFails, ExitStops, Disconnect, Join, handOff, consuming
<1>3. CASE Worker
  <2>1. CASE Finish \/ Raise \/ \E k \in Reads : Read(k)
    BY <1>1, <2>1 DEF Finish, Raise, Read, handOff, consuming
  <2>2. CASE PutRead
    BY <2>2, PutNumbered DEF PutRead, TypeInv, PutsBound, Kinds
  <2>3. CASE PutException
    BY <2>3, PutNumbered DEF PutException, Kinds
  <2>4. CASE PutStop
    BY <2>4, PutNumbered DEF PutStop, Kinds
  <2> QED BY <1>3, <2>1, <2>2, <2>3, <2>4 DEF Worker
<1>4. CASE RunPut
  BY <1>4, RunPutNumbered
<1>5. CASE Get
  BY <1>5, GetTakesOldest, TakeNumbered
<1>6. CASE StartInventory \/ Resume \/ Close
  BY <1>1, <1>6 DEF StartInventory, Resume, Close, driverVars
<1>7. CASE UNCHANGED vars
  BY <1>1, <1>7 DEF vars
<1> QED BY <1>2, <1>3, <1>4, <1>5, <1>6, <1>7 DEF Next, Consumer

(***************************************************************************)
(* inventory() receives items in the order the reader yielded them, and    *)
(* none twice.                                                             *)
(***************************************************************************)
THEOREM OrderPreserved == Spec => []InOrder
<1>1. TypeInv /\ Numbered => InOrder
  <2> SUFFICES ASSUME TypeInv, Numbered PROVE InOrder
    OBVIOUS
  <2> DEFINE tq == taken \o queue
             all == tq \o ready
  <2>1. /\ tq \in Seq(Item)
        /\ Len(tq) = Len(taken) + Len(queue)
        /\ \A i \in 1..Len(tq) :
              tq[i] = IF i <= Len(taken) THEN taken[i] ELSE queue[i - Len(taken)]
    BY ConcatProperties DEF TypeInv, TypeOK
  <2>2. /\ Len(all) = Len(tq) + Len(ready)
        /\ DOMAIN all = 1..Len(all)
        /\ \A i \in 1..Len(all) :
              all[i] = IF i <= Len(tq) THEN tq[i] ELSE ready[i - Len(tq)]
    BY <2>1, ConcatProperties DEF TypeInv, TypeOK
  <2>3. ASSUME NEW i \in 1..Len(all), NEW j \in 1..Len(all), i < j
        PROVE  all[i].n < all[j].n
    <3> HIDE DEF tq, all
    <3>1. /\ Len(taken) \in Nat /\ Len(queue) \in Nat /\ Len(ready) \in Nat
          /\ gone \in Int
      BY DEF gone, TypeInv, TypeOK
    <3>2. ASSUME NEW m \in 1..Len(all), m > Len(taken)
          PROVE  all[m].n = gone + m - Len(taken)
      <4>1. CASE m <= Len(tq)
        <5>1. all[m] = queue[m - Len(taken)] /\ m - Len(taken) \in 1..Len(queue)
          BY <2>1, <2>2, <3>1, <3>2, <4>1
        <5> QED BY <3>1, <5>1 DEF Numbered
      <4>2. CASE m > Len(tq)
        <5>1. all[m] = ready[m - Len(tq)] /\ m - Len(tq) \in 1..Len(ready)
          BY <2>1, <2>2, <3>1, <4>2
        <5> QED BY <2>1, <3>1, <5>1 DEF Numbered
      <4> QED BY <2>1, <2>2, <3>1, <4>1, <4>2
    <3>3. ASSUME NEW m \in 1..Len(all), m <= Len(taken)
          PROVE  all[m] = taken[m] /\ m \in 1..Len(taken)
      BY <2>1, <2>2, <3>1, <3>3
    <3>4. CASE j <= Len(taken)
      <4>1. i <= Len(taken)
        BY <2>3, <3>1, <3>4
      <4> QED BY <2>3, <3>3, <3>4, <4>1 DEF Numbered
    <3>5. CASE j > Len(taken) /\ i <= Len(taken)
      <4>1. all[i].n <= gone /\ all[i].n \in Nat
        BY <3>3, <3>5, TakenNat DEF Numbered
      <4> QED BY <3>1, <3>2, <3>5, <4>1
    <3>6. CASE i > Len(taken)
      <4>1. j > Len(taken)
        BY <2>2, <2>3, <3>1, <3>6
      <4>2. all[i].n = gone + i - Len(taken) /\ all[j].n = gone + j - Len(taken)
        BY <3>2, <3>6, <4>1
      <4> QED BY <2>3, <3>1, <4>2
    <3> QED BY <2>1, <2>2, <3>1, <3>4, <3>5, <3>6
  <2> QED BY <2>2, <2>3 DEF InOrder, Increasing
<1> QED BY InitTypeInv, NextTypeInv, InitNumbered, NextNumbered, <1>1, PTL DEF Spec

(***************************************************************************)
(* Every item handed over is received, dropped or on its way.              *)
(***************************************************************************)
THEOREM NothingVanishes == Spec => []Conserved
<1>1. TypeInv /\ Numbered => Conserved
  BY DEF TypeInv, TypeOK, Numbered, gone, Conserved
<1> QED BY InitTypeInv, NextTypeInv, InitNumbered, NextNumbered, <1>1, PTL DEF Spec

(***************************************************************************)
(* The queue keeps its bound, and what is dropped is older than all that   *)
(* is kept.                                                                *)
(***************************************************************************)
THEOREM OldestDropped == Spec => []DropsOldest
<1>1. TypeInv /\ Numbered => DropsOldest
  <2> SUFFICES ASSUME TypeInv, Numbered PROVE DropsOldest
    OBVIOUS
  <2>1. /\ DOMAIN lost = 1..Len(lost)
        /\ DOMAIN queue = 1..Len(queue) /\ DOMAIN ready = 1..Len(ready)
        /\ Len(queue) \in Nat /\ Len(ready) \in Nat /\ gone \in Int
    BY DEF TypeInv, TypeOK, gone
  <2>2. ASSUME NEW x \in Members(lost) PROVE x.n <= gone /\ x.n \in Nat
    BY <2>1, LostNat DEF Numbered, Members
  <2>3. ASSUME NEW y \in Waiting PROVE y.n > gone /\ y.n \in Int
    <3>1. CASE y \in Members(queue)
      <4>1. PICK i \in 1..Len(queue) : y = queue[i]
        BY <2>1, <3>1 DEF Members
      <4>2. y.n = gone + i
        BY <4>1 DEF Numbered
      <4> QED BY <2>1, <4>2
    <3>2. CASE y \in Members(ready)
      <4>1. PICK i \in 1..Len(ready) : y = ready[i]
        BY <2>1, <3>2 DEF Members
      <4>2. y.n = gone + Len(queue) + i
        BY <4>1 DEF Numbered
      <4> QED BY <2>1, <4>2
    <3> QED BY <3>1, <3>2 DEF Waiting
  <2>4. ASSUME NEW x \in Members(lost), NEW y \in Waiting PROVE x.n < y.n
    BY <2>1, <2>2, <2>3
  <2> QED BY <2>4 DEF DropsOldest, Numbered
<1> QED BY InitTypeInv, NextTypeInv, InitNumbered, NextNumbered, <1>1, PTL DEF Spec

-----------------------------------------------------------------------------
(***************************************************************************)
(* Where the sentinel and the exception stand.  Handed over last, they are *)
(* the last number and the last but one: too young for drop-oldest, which  *)
(* drops the oldest of at least MaxQueue + 1 items.                        *)
(***************************************************************************)
EndsWell(x, at, last) ==
    /\ x.kind = "stop" => at = "ended" /\ x.n = last
    /\ x.kind = "exc" => \/ at = "ending" /\ x.n = last
                         \/ at = "ended" /\ x.n >= last - 1

Endings ==
    /\ \A i \in 1..Len(ready) : EndsWell(ready[i], worker, puts)
    /\ \A i \in 1..Len(queue) : EndsWell(queue[i], worker, puts)
    /\ \A i \in 1..Len(taken) : EndsWell(taken[i], worker, puts)
    /\ \A i \in 1..Len(lost) :
          lost[i].kind # "stop" /\ (MaxQueue # 1 => lost[i].kind # "exc")

LEMMA InitEndings == Init => Endings
<1> SUFFICES ASSUME Init PROVE Endings
  OBVIOUS
<1>1. Len(ready) = 0 /\ Len(queue) = 0 /\ Len(taken) = 0 /\ Len(lost) = 0
  BY DEF Init
<1> QED BY <1>1 DEF Endings

\* Handing an item over keeps the endings, if the endings so far stay right.
LEMMA PutEndings ==
  ASSUME TypeInv, Endings, NEW k \in Kinds, PutThreadsafe(k),
         EndsWell([kind |-> k, n |-> puts + 1], worker', puts + 1),
         \A x \in Item : EndsWell(x, worker, puts) => EndsWell(x, worker', puts + 1)
  PROVE  Endings'
<1> DEFINE item == [kind |-> k, n |-> puts + 1]
<1>1. /\ ready' = Append(ready, item)
      /\ puts' = puts + 1
      /\ UNCHANGED <<queue, taken, lost>>
  BY DEF PutThreadsafe, consuming
<1>2. /\ Len(ready') = Len(ready) + 1
      /\ ready'[Len(ready) + 1] = item
      /\ \A i \in 1..Len(ready) : ready'[i] = ready[i]
  BY <1>1 DEF TypeInv, TypeOK
<1>3. /\ \A i \in 1..Len(ready) : ready[i] \in Item
      /\ \A i \in 1..Len(queue) : queue[i] \in Item
      /\ \A i \in 1..Len(taken) : taken[i] \in Item
  BY DEF TypeInv, TypeOK
<1> HIDE DEF item
<1>4. ASSUME NEW i \in 1..Len(ready') PROVE EndsWell(ready'[i], worker', puts')
  <2>1. CASE i \in 1..Len(ready)
    BY <1>1, <1>2, <1>3, <2>1 DEF Endings
  <2>2. CASE i = Len(ready) + 1
    BY <1>1, <1>2, <2>2 DEF item
  <2> QED BY <1>2, <2>1, <2>2 DEF TypeInv, TypeOK
<1> QED BY <1>1, <1>3, <1>4 DEF Endings

\* A callback moves an ending, or drops an item that is too old to be one.
LEMMA RunPutEndings ==
  ASSUME TypeInv, Numbered, Endings, RunPut
  PROVE  Endings'
<1>1. /\ ready # <<>>
      /\ ready' = Tail(ready)
      /\ UNCHANGED <<worker, puts, taken>>
  BY DEF RunPut, PutNoWait, WhenFull, RunPutWith, consuming
<1>2. /\ Len(ready') = Len(ready) - 1
      /\ \A i \in 1..Len(ready') : ready'[i] = ready[i + 1]
      /\ Head(ready) = ready[1]
      /\ Len(ready) > 0
  BY <1>1 DEF TypeInv, TypeOK
<1>3. /\ Len(ready) \in Nat /\ Len(queue) \in Nat /\ Len(lost) \in Nat
      /\ puts \in Nat
  BY DEF TypeInv, TypeOK
<1>4. EndsWell(ready[1], worker, puts)
  BY <1>2, <1>3 DEF Endings
<1>5. ASSUME NEW i \in 1..Len(ready') PROVE EndsWell(ready'[i], worker', puts')
  <2>1. i + 1 \in 1..Len(ready)
    BY <1>2, <1>3
  <2> QED BY <1>1, <1>2, <2>1 DEF Endings
<1>6. CASE PutNoWait
  <2>1. queue' = Append(queue, Head(ready)) /\ lost' = lost
    BY <1>6 DEF PutNoWait, RunPutWith
  <2>2. /\ Len(queue') = Len(queue) + 1
        /\ queue'[Len(queue) + 1] = ready[1]
        /\ \A i \in 1..Len(queue) : queue'[i] = queue[i]
    BY <1>2, <2>1 DEF TypeInv, TypeOK
  <2>3. ASSUME NEW i \in 1..Len(queue') PROVE EndsWell(queue'[i], worker', puts')
    <3>1. CASE i \in 1..Len(queue)
      BY <1>1, <2>2, <3>1 DEF Endings
    <3>2. CASE i = Len(queue) + 1
      BY <1>1, <1>4, <2>2, <3>2
    <3> QED BY <1>3, <2>2, <3>1, <3>2
  <2> QED BY <1>1, <1>5, <2>1, <2>3 DEF Endings
<1>7. CASE WhenFull(Append(Tail(queue), Head(ready)), Append(lost, Head(queue)))
  <2>1. /\ queue' = Append(Tail(queue), Head(ready))
        /\ lost' = Append(lost, Head(queue))
        /\ Len(queue) > 0
        /\ MaxQueue > 0
        /\ Len(queue) >= MaxQueue
    BY <1>3, <1>7, BoundsAssumption DEF WhenFull, RunPutWith, Full
  <2>2. /\ Len(queue') = Len(queue)
        /\ queue'[Len(queue)] = ready[1]
        /\ \A i \in 1..(Len(queue) - 1) : queue'[i] = queue[i + 1]
    BY <1>2, <2>1 DEF TypeInv, TypeOK
  <2>3. /\ Len(lost') = Len(lost) + 1
        /\ lost'[Len(lost) + 1] = queue[1]
        /\ \A i \in 1..Len(lost) : lost'[i] = lost[i]
    BY <2>1 DEF TypeInv, TypeOK
  <2>4. ASSUME NEW i \in 1..Len(queue') PROVE EndsWell(queue'[i], worker', puts')
    <3>1. CASE i \in 1..(Len(queue) - 1)
      <4>1. i + 1 \in 1..Len(queue)
        BY <1>3, <3>1
      <4> QED BY <1>1, <2>2, <3>1, <4>1 DEF Endings
    <3>2. CASE i = Len(queue)
      BY <1>1, <1>4, <2>2, <3>2
    <3> QED BY <1>3, <2>2, <3>1, <3>2
  <2>5. queue[1].kind # "stop" /\ (MaxQueue # 1 => queue[1].kind # "exc")
    <3>1. EndsWell(queue[1], worker, puts)
      BY <1>3, <2>1 DEF Endings
    <3>2. queue[1].n = puts - Len(ready) - Len(queue) + 1
      <4>1. 1 \in 1..Len(queue)
        BY <1>3, <2>1
      <4>2. queue[1].n = gone + 1
        BY <4>1 DEF Numbered
      <4> QED BY <4>2 DEF gone
    <3>3. queue[1].n < puts
      BY <1>2, <1>3, <2>1, <3>2
    <3>4. MaxQueue # 1 => queue[1].n < puts - 1
      BY <1>2, <1>3, <2>1, <3>2, BoundsAssumption
    <3>5. queue[1].n \in Int
      BY <1>3, <3>2
    <3> QED BY <1>3, <3>1, <3>3, <3>4, <3>5 DEF EndsWell
  <2>6. ASSUME NEW i \in 1..Len(lost')
        PROVE  lost'[i].kind # "stop" /\ (MaxQueue # 1 => lost'[i].kind # "exc")
    <3>1. CASE i \in 1..Len(lost)
      BY <2>3, <3>1 DEF Endings
    <3>2. CASE i = Len(lost) + 1
      BY <2>3, <2>5, <3>2
    <3> QED BY <1>3, <2>3, <3>1, <3>2
  <2> QED BY <1>1, <1>5, <2>4, <2>6 DEF Endings
<1> QED BY <1>6, <1>7 DEF RunPut

\* An ending that is taken stays one.
LEMMA TakeEndings ==
  ASSUME TypeInv, Endings, TakesOldest
  PROVE  Endings'
<1>1. /\ queue # <<>>
      /\ queue' = Tail(queue)
      /\ taken' = Append(taken, Head(queue))
      /\ UNCHANGED <<worker, puts, ready, lost>>
  BY DEF TakesOldest
<1>2. /\ Len(queue) > 0
      /\ Len(queue') = Len(queue) - 1
      /\ \A i \in 1..Len(queue') : queue'[i] = queue[i + 1]
  BY <1>1 DEF TypeInv, TypeOK
<1>3. /\ Len(taken') = Len(taken) + 1
      /\ taken'[Len(taken) + 1] = queue[1]
      /\ \A i \in 1..Len(taken) : taken'[i] = taken[i]
  BY <1>1 DEF TypeInv, TypeOK
<1>4. Len(queue) \in Nat /\ Len(taken) \in Nat
  BY DEF TypeInv, TypeOK
<1>5. ASSUME NEW i \in 1..Len(queue') PROVE EndsWell(queue'[i], worker', puts')
  <2>1. i + 1 \in 1..Len(queue)
    BY <1>2, <1>4
  <2> QED BY <1>1, <1>2, <2>1 DEF Endings
<1>6. ASSUME NEW i \in 1..Len(taken') PROVE EndsWell(taken'[i], worker', puts')
  <2>1. CASE i \in 1..Len(taken)
    BY <1>1, <1>3, <2>1 DEF Endings
  <2>2. CASE i = Len(taken) + 1
    <3>1. EndsWell(queue[1], worker, puts)
      BY <1>2, <1>4 DEF Endings
    <3> QED BY <1>1, <1>3, <2>2, <3>1
  <2> QED BY <1>3, <1>4, <2>1, <2>2
<1> QED BY <1>1, <1>5, <1>6 DEF Endings

LEMMA NextEndings == TypeInv /\ Numbered /\ Endings /\ [Next]_vars => Endings'
<1> SUFFICES ASSUME TypeInv, Numbered, Endings, [Next]_vars PROVE Endings'
  OBVIOUS
<1>1. CASE UNCHANGED <<worker, puts, ready, queue, taken, lost>>
  BY <1>1 DEF Endings
<1>2. CASE Owner
  <2>1. CASE Enter
    \* The worker starts: nothing was handed over, so nothing has ended.
    <3>1. worker = "off" /\ worker' = "reading" /\ puts' = puts
      BY <2>1 DEF Enter, TypeInv, PutsBound, handOff
    <3>2. UNCHANGED <<ready, queue, taken, lost>>
      BY <2>1 DEF Enter, handOff, consuming
    <3> QED BY <3>1, <3>2 DEF Endings, EndsWell
  <2> QED BY <1>1, <1>2, <2>1
          DEF Owner, EnterFails, ExitStops, Disconnect, Join, handOff, consuming
<1>3. CASE Worker
  <2>1. CASE Finish \/ Raise \/ \E k \in Reads : Read(k)
    <3>1. worker = "reading" /\ puts' = puts /\ UNCHANGED <<ready, queue, taken, lost>>
      BY <2>1 DEF Finish, Raise, Read, handOff, consuming
    <3> QED BY <3>1 DEF Endings, EndsWell
  <2>2. CASE PutRead
    <3>1. /\ worker = "putting" /\ worker' = "reading"
          /\ hand \in Reads /\ hand \in Kinds /\ PutThreadsafe(hand)
      BY <2>2 DEF PutRead, TypeInv, PutsBound, Kinds
    <3>2. EndsWell([kind |-> hand, n |-> puts + 1], worker', puts + 1)
      BY <3>1 DEF EndsWell, Reads
    <3>3. \A x \in Item : EndsWell(x, worker, puts) => EndsWell(x, worker', puts + 1)
      BY <3>1 DEF EndsWell
    <3> QED BY <3>1, <3>2, <3>3, PutEndings
  <2>3. CASE PutException
    <3>1. worker = "raising" /\ worker' = "ending" /\ PutThreadsafe("exc") /\ "exc" \in Kinds
      BY <2>3 DEF PutException, Kinds
    <3>2. EndsWell([kind |-> "exc", n |-> puts + 1], worker', puts + 1)
      BY <3>1 DEF EndsWell
    <3>3. \A x \in Item : EndsWell(x, worker, puts) => EndsWell(x, worker', puts + 1)
      BY <3>1 DEF EndsWell
    <3> QED BY <3>1, <3>2, <3>3, PutEndings
  <2>4. CASE PutStop
    <3>1. worker = "ending" /\ worker' = "ended" /\ PutThreadsafe("stop") /\ "stop" \in Kinds
      BY <2>4 DEF PutStop, Kinds
    <3>2. EndsWell([kind |-> "stop", n |-> puts + 1], worker', puts + 1)
      BY <3>1 DEF EndsWell
    <3>3. \A x \in Item : EndsWell(x, worker, puts) => EndsWell(x, worker', puts + 1)
      BY <3>1 DEF EndsWell, TypeInv, TypeOK
    <3> QED BY <3>1, <3>2, <3>3, PutEndings
  <2> QED BY <1>3, <2>1, <2>2, <2>3, <2>4 DEF Worker
<1>4. CASE RunPut
  BY <1>4, RunPutEndings
<1>5. CASE Get
  BY <1>5, GetTakesOldest, TakeEndings
<1>6. CASE StartInventory \/ Resume \/ Close
  BY <1>1, <1>6 DEF StartInventory, Resume, Close, driverVars
<1>7. CASE UNCHANGED vars
  BY <1>1, <1>7 DEF vars
<1> QED BY <1>2, <1>3, <1>4, <1>5, <1>6, <1>7 DEF Next, Consumer

(***************************************************************************)
(* A consumer of a queue that holds two items or more is never denied the  *)
(* exception that ended the worker.                                        *)
(***************************************************************************)
THEOREM FailureNotDropped == Spec => []FailureSurvives
<1>1. TypeInv /\ Endings => FailureSurvives
  <2>1. TypeInv => DOMAIN lost = 1..Len(lost)
    BY DEF TypeInv, TypeOK
  <2> QED BY <2>1 DEF Endings, FailureSurvives, Members
<1> QED BY InitTypeInv, NextTypeInv, InitNumbered, NextNumbered, InitEndings,
           NextEndings, <1>1, PTL DEF Spec

(***************************************************************************)
(* Whatever the bound, the sentinel is handed over once, last, and never   *)
(* dropped.                                                                *)
(***************************************************************************)
THEOREM SentinelNotDropped == Spec => []StopSurvives
<1>1. TypeInv /\ Endings => StopSurvives
  <2> SUFFICES ASSUME TypeInv, Endings PROVE StopSurvives
    OBVIOUS
  <2>1. /\ DOMAIN lost = 1..Len(lost) /\ DOMAIN taken = 1..Len(taken)
        /\ DOMAIN queue = 1..Len(queue) /\ DOMAIN ready = 1..Len(ready)
    BY DEF TypeInv, TypeOK
  <2> QED BY <2>1 DEF StopSurvives, Endings, EndsWell, Members, Waiting
<1> QED BY InitTypeInv, NextTypeInv, InitNumbered, NextNumbered, InitEndings,
           NextEndings, <1>1, PTL DEF Spec

-----------------------------------------------------------------------------
\* Of what inventory took, its yields repeat the kept tags, in order.
LEMMA InitYields == Init => YieldsKeptTags
<1> SUFFICES ASSUME Init PROVE YieldsKeptTags
  OBVIOUS
<1>1. taken = <<>> /\ yielded = <<>>
  BY DEF Init
<1> QED BY <1>1 DEF YieldsKeptTags, Members, Increasing

\* Appending adds one member, and keeps an increasing sequence increasing.
LEMMA AppendMembers ==
  ASSUME NEW S, NEW s \in Seq(S), NEW x \in S
  PROVE  Members(Append(s, x)) = Members(s) \union {x}
<1> DEFINE t == Append(s, x)
<1>1. /\ DOMAIN t = 1..(Len(s) + 1) /\ DOMAIN s = 1..Len(s) /\ Len(s) \in Nat
      /\ t[Len(s) + 1] = x
      /\ \A i \in 1..Len(s) : t[i] = s[i]
  BY AppendProperties
<1> HIDE DEF t
<1>2. DOMAIN t = DOMAIN s \union {Len(s) + 1}
  BY <1>1
<1>3. Members(t) = Members(s) \union {x}
  BY <1>1, <1>2 DEF Members
<1> QED BY <1>3 DEF t

LEMMA AppendIncreasing ==
  ASSUME NEW s \in Seq(Item), NEW x \in Item, Increasing(s),
         \A y \in Members(s) : y.n < x.n
  PROVE  Increasing(Append(s, x))
<1> DEFINE t == Append(s, x)
<1>1. /\ DOMAIN t = 1..(Len(s) + 1) /\ DOMAIN s = 1..Len(s) /\ Len(s) \in Nat
      /\ t[Len(s) + 1] = x
      /\ \A i \in 1..Len(s) : t[i] = s[i]
  BY AppendProperties
<1> HIDE DEF t
<1>2. ASSUME NEW i \in DOMAIN t, NEW j \in DOMAIN t, i < j
      PROVE  t[i].n < t[j].n
  <2>1. i \in DOMAIN s /\ t[i] = s[i]
    BY <1>1, <1>2
  <2>2. CASE j \in DOMAIN s
    BY <1>1, <1>2, <2>1, <2>2 DEF Increasing
  <2>3. CASE j = Len(s) + 1
    BY <1>1, <2>1, <2>3 DEF Members
  <2> QED BY <1>1, <2>2, <2>3
<1>3. Increasing(t)
  BY <1>2 DEF Increasing
<1> QED BY <1>3 DEF t

LEMMA NextYields == TypeInv /\ Numbered /\ YieldsKeptTags /\ [Next]_vars => YieldsKeptTags'
<1> SUFFICES ASSUME TypeInv, Numbered, YieldsKeptTags, [Next]_vars PROVE YieldsKeptTags'
  OBVIOUS
<1>1. CASE UNCHANGED <<taken, yielded>>
  BY <1>1 DEF YieldsKeptTags, Members, Increasing
<1>2. CASE Owner \/ Worker
  BY <1>1, <1>2 DEF Owner, Enter, EnterFails, ExitStops, Disconnect, Join,
                    Worker, Finish, Raise, Read, PutRead, PutException, PutStop, PutThreadsafe,
                    consuming
<1>3. CASE RunPut
  BY <1>1, <1>3 DEF RunPut, PutNoWait, WhenFull, RunPutWith, consuming
<1>4. CASE Get
  <2> DEFINE x == Head(queue)
  <2>1. /\ queue # <<>> /\ taken' = Append(taken, x)
        /\ consumer' = After(x.kind)
        /\ yielded' = IF consumer' = "yielding" THEN Append(yielded, x) ELSE yielded
    BY <1>4 DEF Get
  <2>2. queue \in Seq(Item) /\ taken \in Seq(Item) /\ yielded \in Seq(Item)
    BY DEF TypeInv, TypeOK
  <2>3. x \in Item /\ x = queue[1] /\ 1 \in 1..Len(queue)
    BY <2>1, <2>2
  <2>4. x.n = gone + 1 /\ gone \in Int
    <3>1. gone \in Int
      BY DEF gone, TypeInv, TypeOK
    <3> QED BY <2>3, <3>1 DEF Numbered
  <2> HIDE DEF x
  <2>5. consumer' = "yielding" <=> x.kind = "kept"
    BY <2>1 DEF After
  <2>6. Members(taken)' = Members(taken) \union {x}
    <3>1. Members(Append(taken, x)) = Members(taken) \union {x}
      BY <2>2, <2>3, AppendMembers
    <3> QED BY <2>1, <3>1
  <2>7. \A y \in Members(yielded) : y.n < x.n
    <3>1. ASSUME NEW y \in Members(yielded) PROVE y.n < x.n
      <4>1. y \in Members(taken)
        BY DEF YieldsKeptTags
      <4>2. PICK i \in 1..Len(taken) : y = taken[i]
        BY <2>2, <4>1 DEF Members
      <4> QED BY <2>4, <4>2, TakenNat DEF Numbered
    <3> QED BY <3>1
  <2>8. CASE x.kind = "kept"
    <3>1. yielded' = Append(yielded, x)
      BY <2>1, <2>5, <2>8
    <3>2. Members(Append(yielded, x)) = Members(yielded) \union {x}
      BY <2>2, <2>3, AppendMembers
    <3>3. Increasing(Append(yielded, x))
      BY <2>2, <2>3, <2>7, AppendIncreasing DEF YieldsKeptTags
    <3>4. Members(yielded') = {y \in Members(taken)' : y.kind = "kept"}
      BY <2>6, <2>8, <3>1, <3>2 DEF YieldsKeptTags
    <3> QED BY <3>1, <3>3, <3>4 DEF YieldsKeptTags
  <2>9. CASE x.kind # "kept"
    <3>1. yielded' = yielded
      BY <2>1, <2>5, <2>9
    <3>2. Members(yielded) = {y \in Members(taken)' : y.kind = "kept"}
      BY <2>6, <2>9 DEF YieldsKeptTags
    <3> QED BY <3>1, <3>2 DEF YieldsKeptTags
  <2> QED BY <2>8, <2>9
<1>5. CASE StartInventory \/ Resume \/ Close
  BY <1>1, <1>5 DEF StartInventory, Resume, Close
<1>6. CASE UNCHANGED vars
  BY <1>1, <1>6 DEF vars
<1> QED BY <1>2, <1>3, <1>4, <1>5, <1>6 DEF Next, Consumer

(***************************************************************************)
(* inventory() yields every tag to keep of what it took, once, in order,   *)
(* and nothing else, over all its calls together.                          *)
(***************************************************************************)
THEOREM KeptTagsYielded == Spec => []YieldsKeptTags
BY InitTypeInv, NextTypeInv, InitNumbered, NextNumbered, InitYields, NextYields, PTL DEF Spec

-----------------------------------------------------------------------------
(* What was handed over, wherever it is now. *)

\* An item is handed over, a new one, and it is the youngest.
HandsOver(x) ==
    /\ x \in Item /\ x.n = puts + 1
    /\ Handed' = Handed \union {x}
    /\ UNCHANGED lost
    /\ puts' = puts + 1
    /\ \/ x.kind \in Reads /\ worker = "putting" /\ worker' = "reading" /\ puts < MaxReads
       \/ x.kind = "exc" /\ worker = "raising" /\ worker' = "ending"
       \/ x.kind = "stop" /\ worker = "ending" /\ worker' = "ended"

\* Nothing is, and items only move on.
HandsNothing ==
    /\ Handed' = Handed
    /\ puts' = puts
    /\ lost' = <<>> => lost = <<>>
    /\ worker \in {"ending", "ended"} => worker' \in {"ending", "ended"}
    /\ worker' = "ended" => worker = "ended"

LEMMA HeadMembers ==
  ASSUME NEW S, NEW s \in Seq(S), s # <<>>
  PROVE  /\ Head(s) \in S /\ Tail(s) \in Seq(S)
         /\ Members(s) = {Head(s)} \union Members(Tail(s))
<1> DEFINE t == Tail(s)
<1>1. /\ Head(s) = s[1] /\ Len(s) \in Nat \ {0} /\ DOMAIN s = 1..Len(s)
      /\ t \in Seq(S) /\ DOMAIN t = 1..(Len(s) - 1)
      /\ \A i \in 1..(Len(s) - 1) : t[i] = s[i + 1]
  OBVIOUS
<1> HIDE DEF t
<1>2. Head(s) \in S
  BY <1>1
<1>3. ASSUME NEW x \in Members(s) PROVE x \in {Head(s)} \union Members(t)
  <2>1. PICK i \in DOMAIN s : x = s[i]
    BY <1>3 DEF Members
  <2>2. CASE i # 1
    <3>1. i - 1 \in DOMAIN t /\ t[i - 1] = s[i]
      BY <1>1, <2>2
    <3> QED BY <2>1, <3>1 DEF Members
  <2> QED BY <1>1, <2>1, <2>2
<1>4. ASSUME NEW x \in {Head(s)} \union Members(t) PROVE x \in Members(s)
  <2>1. CASE x = Head(s)
    BY <1>1, <2>1 DEF Members
  <2>2. CASE x \in Members(t)
    <3>1. PICK i \in DOMAIN t : x = t[i]
      BY <2>2 DEF Members
    <3>2. i + 1 \in DOMAIN s /\ x = s[i + 1]
      BY <1>1, <3>1
    <3> QED BY <3>2 DEF Members
  <2> QED BY <1>4, <2>1, <2>2
<1>5. Members(s) = {Head(s)} \union Members(t)
  BY <1>3, <1>4
<1> QED BY <1>1, <1>2, <1>5 DEF t

LEMMA TakeHandsNothing ==
  ASSUME TypeInv, TakesOldest
  PROVE  HandsNothing /\ Members(taken)' = Members(taken) \union {Head(queue)}
<1>1. /\ queue # <<>> /\ queue' = Tail(queue)
      /\ taken' = Append(taken, Head(queue))
      /\ UNCHANGED <<worker, puts, ready, lost>>
  BY DEF TakesOldest
<1>2. queue \in Seq(Item) /\ taken \in Seq(Item)
  BY DEF TypeInv, TypeOK
<1>3. Members(queue) = {Head(queue)} \union Members(queue')
  BY <1>1, <1>2, HeadMembers
<1>4. Head(queue) \in Item
  BY <1>1, <1>2, HeadMembers
<1>5. Members(taken') = Members(taken) \union {Head(queue)}
  BY <1>1, <1>2, <1>4, AppendMembers
<1>6. Handed' = Handed
  BY <1>1, <1>3, <1>5 DEF Handed, Waiting
<1> QED BY <1>1, <1>5, <1>6 DEF HandsNothing

LEMMA RunPutHandsNothing ==
  ASSUME TypeInv, RunPut
  PROVE  HandsNothing
<1>1. ready # <<>> /\ ready' = Tail(ready) /\ UNCHANGED <<worker, puts, taken>>
  BY DEF RunPut, PutNoWait, WhenFull, RunPutWith, consuming
<1>2. ready \in Seq(Item) /\ queue \in Seq(Item) /\ lost \in Seq(Item)
  BY DEF TypeInv, TypeOK
<1>3. Members(ready) = {Head(ready)} \union Members(ready') /\ Head(ready) \in Item
  BY <1>1, <1>2, HeadMembers
<1>4. CASE PutNoWait
  <2>1. queue' = Append(queue, Head(ready)) /\ lost' = lost
    BY <1>4 DEF PutNoWait, RunPutWith
  <2>2. Members(queue') = Members(queue) \union {Head(ready)}
    BY <1>2, <1>3, <2>1, AppendMembers
  <2>3. Handed' = Handed
    BY <1>1, <1>3, <2>1, <2>2 DEF Handed, Waiting
  <2> QED BY <1>1, <2>1, <2>3 DEF HandsNothing
<1>5. CASE WhenFull(Append(Tail(queue), Head(ready)), Append(lost, Head(queue)))
  <2>1. /\ queue' = Append(Tail(queue), Head(ready))
        /\ lost' = Append(lost, Head(queue))
        /\ queue # <<>>
    BY <1>2, <1>5, BoundsAssumption DEF WhenFull, RunPutWith, Full
  <2>2. /\ Members(queue) = {Head(queue)} \union Members(Tail(queue))
        /\ Head(queue) \in Item /\ Tail(queue) \in Seq(Item)
    BY <1>2, <2>1, HeadMembers
  <2>3. Members(queue') = Members(Tail(queue)) \union {Head(ready)}
    <3> DEFINE t == Tail(queue)
               x == Head(ready)
    <3>1. t \in Seq(Item) /\ x \in Item
      BY <1>3, <2>2
    <3> HIDE DEF t, x
    <3>2. Members(Append(t, x)) = Members(t) \union {x}
      BY <3>1, AppendMembers
    <3> QED BY <2>1, <3>2 DEF t, x
  <2>4. Members(lost') = Members(lost) \union {Head(queue)}
    BY <1>2, <2>1, <2>2, AppendMembers
  <2>5. Handed' = Handed
    BY <1>1, <1>3, <2>2, <2>3, <2>4 DEF Handed, Waiting
  <2>6. lost' # <<>>
    BY <1>2, <2>1, <2>2
  <2> QED BY <1>1, <2>5, <2>6 DEF HandsNothing
<1> QED BY <1>4, <1>5 DEF RunPut

LEMMA PutHandsOver ==
  ASSUME TypeInv, NEW k \in Kinds, PutThreadsafe(k), puts + 1 <= MaxReads + 2
  PROVE  LET x == [kind |-> k, n |-> puts + 1]
         IN  x \in Item /\ Handed' = Handed \union {x} /\ puts' = puts + 1 /\ UNCHANGED lost
<1> DEFINE x == [kind |-> k, n |-> puts + 1]
<1>1. puts + 1 \in 1..(MaxReads + 2)
  BY BoundsAssumption DEF TypeInv, TypeOK
<1>2. x \in Item
  BY <1>1 DEF Item
<1>3. /\ ready' = Append(ready, x) /\ puts' = puts + 1
      /\ UNCHANGED <<queue, taken, lost>>
  BY DEF PutThreadsafe, consuming
<1> HIDE DEF x
<1>4. Members(ready') = Members(ready) \union {x}
  BY <1>2, <1>3, AppendMembers DEF TypeInv, TypeOK
<1>5. Handed' = Handed \union {x}
  BY <1>3, <1>4 DEF Handed, Waiting
<1> QED BY <1>2, <1>3, <1>5 DEF x

LEMMA NextHands ==
  ASSUME TypeInv, [Next]_vars
  PROVE  HandsNothing \/ \E x : HandsOver(x)
<1>1. CASE UNCHANGED <<worker, puts, ready, queue, taken, lost>>
  BY <1>1 DEF HandsNothing, Handed, Waiting
<1>2. CASE Owner
  <2>1. CASE Enter
    <3>1. /\ worker = "off" /\ worker' = "reading"
          /\ UNCHANGED <<puts, ready, queue, taken, lost>>
      BY <2>1 DEF Enter, TypeInv, PutsBound, handOff, consuming
    <3> QED BY <3>1 DEF HandsNothing, Handed, Waiting
  <2> QED BY <1>1, <1>2, <2>1
          DEF Owner, EnterFails, ExitStops, Disconnect, Join, handOff, consuming
<1>3. CASE Worker
  <2>1. CASE Finish \/ Raise \/ \E k \in Reads : Read(k)
    <3>1. worker = "reading" /\ worker' # "ended" /\ UNCHANGED <<puts, ready, queue, taken, lost>>
      BY <2>1 DEF Finish, Raise, Read, handOff, consuming
    <3> QED BY <3>1 DEF HandsNothing, Handed, Waiting
  <2>2. CASE PutRead
    <3> DEFINE x == [kind |-> hand, n |-> puts + 1]
    <3>1. /\ worker = "putting" /\ worker' = "reading" /\ hand \in Reads /\ hand \in Kinds
          /\ PutThreadsafe(hand) /\ puts < MaxReads
      BY <2>2 DEF PutRead, TypeInv, PutsBound, Kinds
    <3>2. puts + 1 <= MaxReads + 2
      BY <3>1, BoundsAssumption DEF TypeInv, TypeOK
    <3>3. x \in Item /\ Handed' = Handed \union {x} /\ puts' = puts + 1 /\ UNCHANGED lost
      BY <3>1, <3>2, PutHandsOver
    <3>4. HandsOver(x)
      BY <3>1, <3>3 DEF HandsOver
    <3> QED BY <3>4
  <2>3. CASE PutException
    <3> DEFINE x == [kind |-> "exc", n |-> puts + 1]
    <3>1. /\ worker = "raising" /\ worker' = "ending" /\ "exc" \in Kinds
          /\ PutThreadsafe("exc") /\ puts <= MaxReads
      BY <2>3 DEF PutException, TypeInv, PutsBound, Kinds
    <3>2. puts + 1 <= MaxReads + 2
      BY <3>1, BoundsAssumption DEF TypeInv, TypeOK
    <3>3. x \in Item /\ Handed' = Handed \union {x} /\ puts' = puts + 1 /\ UNCHANGED lost
      BY <3>1, <3>2, PutHandsOver
    <3>4. HandsOver(x)
      BY <3>1, <3>3 DEF HandsOver
    <3> QED BY <3>4
  <2>4. CASE PutStop
    <3> DEFINE x == [kind |-> "stop", n |-> puts + 1]
    <3>1. /\ worker = "ending" /\ worker' = "ended" /\ "stop" \in Kinds
          /\ PutThreadsafe("stop") /\ puts <= MaxReads + 1
      BY <2>4 DEF PutStop, TypeInv, PutsBound, Kinds
    <3>2. puts + 1 <= MaxReads + 2
      BY <3>1, BoundsAssumption DEF TypeInv, TypeOK
    <3>3. x \in Item /\ Handed' = Handed \union {x} /\ puts' = puts + 1 /\ UNCHANGED lost
      BY <3>1, <3>2, PutHandsOver
    <3>4. HandsOver(x)
      BY <3>1, <3>3 DEF HandsOver
    <3> QED BY <3>4
  <2> QED BY <1>3, <2>1, <2>2, <2>3, <2>4 DEF Worker
<1>4. CASE RunPut
  BY <1>4, RunPutHandsNothing
<1>5. CASE Get
  BY <1>5, GetTakesOldest, TakeHandsNothing
<1>6. CASE StartInventory \/ Resume \/ Close
  BY <1>1, <1>6 DEF StartInventory, Resume, Close, driverVars
<1>7. CASE UNCHANGED vars
  BY <1>1, <1>7 DEF vars
<1> QED BY <1>2, <1>3, <1>4, <1>5, <1>6, <1>7 DEF Next, Consumer

(***************************************************************************)
(* A worker that ended has handed its sentinel over.                       *)
(***************************************************************************)
StopHanded == worker = "ended" => \E x \in Handed : x.kind = "stop"

LEMMA InitStopHanded == Init => StopHanded
BY DEF Init, StopHanded

LEMMA HandsStop ==
  ASSUME StopHanded, HandsNothing \/ \E x : HandsOver(x)
  PROVE  StopHanded'
<1>1. CASE HandsNothing
  BY <1>1 DEF HandsNothing, StopHanded
<1>2. ASSUME NEW x, HandsOver(x) PROVE StopHanded'
  <2>1. /\ x \in Handed' /\ Handed \subseteq Handed'
        /\ x.kind = "stop" \/ worker' # "ended"
    BY <1>2 DEF HandsOver
  <2> QED BY <2>1 DEF StopHanded
<1> QED BY <1>1, <1>2

\* It is taken or it is still on its way.
LEMMA StopDue ==
  TypeInv /\ Endings /\ StopHanded =>
      (worker = "ended" => StopTaken \/ \E x \in Waiting : x.kind = "stop")
<1>1. TypeInv /\ Endings => \A x \in Members(lost) : x.kind # "stop"
  <2>1. TypeInv => DOMAIN lost = 1..Len(lost)
    BY DEF TypeInv, TypeOK
  <2> QED BY <2>1 DEF Endings, Members
<1> QED BY <1>1 DEF StopHanded, Handed, StopTaken

(***************************************************************************)
(* What a waiting consumer relies on: when the worker has ended and the    *)
(* sentinel was not taken, it is in the queue or scheduled on the loop.    *)
(* With nothing queued and nothing scheduled, nobody waits who was not     *)
(* told.                                                                   *)
(***************************************************************************)
THEOREM SentinelOnItsWay == Spec => []StopOnItsWay
<1>1. TypeInv /\ StopHanded /\ [Next]_vars => StopHanded'
  BY NextHands, HandsStop
<1>2. TypeInv /\ Endings /\ StopHanded => StopOnItsWay
  BY StopDue DEF StopOnItsWay
<1> QED BY InitTypeInv, NextTypeInv, InitNumbered, NextNumbered, InitEndings, NextEndings,
           InitStopHanded, <1>1, <1>2, PTL DEF Spec

-----------------------------------------------------------------------------
(***************************************************************************)
(* Refinement: the two hops, the loop's callbacks and the queue, are one   *)
(* channel.  Running a callback without loss moves an item from one hop to *)
(* the other and changes nothing that the channel sees.                    *)
(***************************************************************************)
LEMMA ConcatAppend ==
  ASSUME NEW S, NEW s \in Seq(S), NEW t \in Seq(S), NEW x \in S
  PROVE  s \o Append(t, x) = Append(s \o t, x)
<1> DEFINE l == s \o Append(t, x)
           r == Append(s \o t, x)
<1>1. Append(t, x) \in Seq(S) /\ Len(Append(t, x)) = Len(t) + 1
  BY AppendProperties
<1>2. s \o t \in Seq(S) /\ Len(s \o t) = Len(s) + Len(t)
  BY ConcatProperties
<1>3. l \in Seq(S) /\ Len(l) = Len(s) + Len(t) + 1
  BY <1>1, ConcatProperties
<1>4. r \in Seq(S) /\ Len(r) = Len(s) + Len(t) + 1
  BY <1>2, AppendProperties
<1>5. ASSUME NEW i \in 1..Len(l) PROVE l[i] = r[i]
  <2>1. l[i] = IF i <= Len(s) THEN s[i] ELSE Append(t, x)[i - Len(s)]
    BY <1>1, <1>3, ConcatProperties
  <2>2. CASE i <= Len(s) + Len(t)
    <3>1. r[i] = (s \o t)[i]
      BY <1>2, <1>3, <2>2, AppendProperties
    <3>2. r[i] = IF i <= Len(s) THEN s[i] ELSE t[i - Len(s)]
      BY <1>3, <2>2, <3>1, ConcatProperties
    <3>3. CASE i <= Len(s)
      BY <2>1, <3>2, <3>3
    <3>4. CASE i > Len(s)
      <4>1. i - Len(s) \in 1..Len(t)
        BY <1>3, <2>2, <3>4
      <4>2. Append(t, x)[i - Len(s)] = t[i - Len(s)]
        BY <4>1, AppendProperties
      <4> QED BY <1>3, <2>1, <3>2, <3>4, <4>2
    <3> QED BY <1>3, <3>3, <3>4
  <2>3. CASE i = Len(s) + Len(t) + 1
    BY <1>2, <2>1, <2>3, AppendProperties
  <2> QED BY <1>3, <2>2, <2>3
<1> QED BY <1>3, <1>4, <1>5, SeqEqual

LEMMA MoveHead ==
  ASSUME NEW S, NEW s \in Seq(S), NEW t \in Seq(S), t # <<>>
  PROVE  Append(s, Head(t)) \o Tail(t) = s \o t
<1> DEFINE l == Append(s, Head(t)) \o Tail(t)
           r == s \o t
<1>1. /\ Append(s, Head(t)) \in Seq(S) /\ Tail(t) \in Seq(S)
      /\ Len(Append(s, Head(t))) = Len(s) + 1 /\ Len(Tail(t)) = Len(t) - 1
  BY HeadTailProperties, AppendProperties
<1>2. l \in Seq(S) /\ r \in Seq(S) /\ Len(l) = Len(r)
  BY <1>1, ConcatProperties
<1>3. \A i \in 1..Len(l) : l[i] = r[i]
  BY <1>1, ConcatProperties, HeadTailProperties, AppendProperties
<1> QED BY <1>2, <1>3, SeqEqual

LEMMA TailConcat ==
  ASSUME NEW S, NEW s \in Seq(S), NEW t \in Seq(S), s # <<>>
  PROVE  /\ Tail(s) \o t = Tail(s \o t)
         /\ Head(s \o t) = Head(s)
         /\ s \o t # <<>>
<1> DEFINE l == Tail(s) \o t
           r == Tail(s \o t)
<1>1. Tail(s) \in Seq(S) /\ Len(Tail(s)) = Len(s) - 1 /\ Len(s) > 0
  BY HeadTailProperties, EmptySeq
<1>2. /\ s \o t \in Seq(S) /\ Len(s \o t) = Len(s) + Len(t)
      /\ s \o t # <<>> /\ (s \o t)[1] = s[1]
  BY <1>1, ConcatProperties
<1>3. l \in Seq(S) /\ r \in Seq(S) /\ Len(l) = Len(r)
  BY <1>1, <1>2, ConcatProperties, HeadTailProperties
<1>4. \A i \in 1..Len(l) : l[i] = r[i]
  BY <1>1, <1>2, ConcatProperties, HeadTailProperties
<1> QED BY <1>2, <1>3, <1>4, SeqEqual

\* The initial state maps to the channel's.
LEMMA InitRefines == Init => Channel!Init
  BY DEF Init, Channel!Init, backlog

\* A put sends.
LEMMA PutSends ==
  ASSUME TypeInv, NEW k \in Kinds, PutThreadsafe(k), worker # "ended",
         (worker' = "ended") <=> (k = "stop"), puts + 1 \in 1..(MaxReads + 2)
  PROVE  Channel!Next
<1> DEFINE item == [kind |-> k, n |-> puts + 1]
<1>1. item \in Item /\ item.kind = k
  BY DEF Item
<1>2. ready' = Append(ready, item) /\ UNCHANGED <<queue, taken>>
  BY DEF PutThreadsafe, consuming
<1> HIDE DEF item
<1>3. backlog' = Append(backlog, item)
  BY <1>1, <1>2, ConcatAppend DEF backlog, TypeInv, TypeOK
<1>4. (worker' = "ended") = (item \in {x \in Item : x.kind = "stop"})
  BY <1>1
<1>5. Channel!Send(item)
  BY <1>2, <1>3, <1>4 DEF Channel!Send
<1> QED BY <1>1, <1>5 DEF Channel!Next

\* A callback changes nothing the channel sees, or forgets its oldest item.
LEMMA RunPutForgets ==
  ASSUME TypeInv, RunPut
  PROVE  [Channel!Next]_(Channel!vars)
<1>1. ready # <<>> /\ ready' = Tail(ready) /\ UNCHANGED <<worker, taken>>
  BY DEF RunPut, PutNoWait, WhenFull, RunPutWith, consuming
<1>2. queue \in Seq(Item) /\ ready \in Seq(Item) /\ Len(ready) > 0
  BY <1>1 DEF TypeInv, TypeOK
<1>3. CASE PutNoWait
  <2>1. queue' = Append(queue, Head(ready))
    BY <1>3 DEF PutNoWait, RunPutWith
  <2>2. backlog' = backlog
    BY <1>1, <1>2, <2>1, MoveHead DEF backlog
  <2> QED BY <1>1, <2>2 DEF Channel!vars
<1>4. CASE WhenFull(Append(Tail(queue), Head(ready)), Append(lost, Head(queue)))
  <2>1. /\ queue' = Append(Tail(queue), Head(ready))
        /\ MaxQueue > 0 /\ Len(queue) >= MaxQueue /\ queue # <<>>
    BY <1>2, <1>4, BoundsAssumption DEF WhenFull, RunPutWith, Full
  <2>2. Tail(queue) \in Seq(Item)
    BY <1>2, <2>1
  <2>3. backlog' = Tail(queue) \o ready
    BY <1>1, <1>2, <2>1, <2>2, MoveHead DEF backlog
  <2>4. backlog' = Tail(backlog)
    BY <1>2, <2>1, <2>3, TailConcat DEF backlog
  <2>5. Len(backlog) > MaxQueue
    <3>1. Len(backlog) = Len(queue) + Len(ready)
      BY <1>2, ConcatProperties DEF backlog
    <3> QED BY <1>2, <2>1, <3>1, BoundsAssumption
  <2>6. Channel!Forget
    BY <1>1, <2>1, <2>4, <2>5 DEF Channel!Forget
  <2> QED BY <2>6 DEF Channel!Next
<1> QED BY <1>3, <1>4 DEF RunPut

\* Taking the oldest item is a receive.
LEMMA TakeReceives ==
  ASSUME TypeInv, TakesOldest
  PROVE  Channel!Next
<1>1. /\ queue # <<>>
      /\ queue' = Tail(queue)
      /\ taken' = Append(taken, Head(queue))
      /\ UNCHANGED <<worker, ready>>
  BY DEF TakesOldest
<1>2. queue \in Seq(Item) /\ ready \in Seq(Item)
  BY DEF TypeInv, TypeOK
<1>3. backlog # <<>> /\ Head(backlog) = Head(queue) /\ backlog' = Tail(backlog)
  BY <1>1, <1>2, TailConcat DEF backlog
<1>4. Channel!Receive
  BY <1>1, <1>3 DEF Channel!Receive
<1> QED BY <1>4 DEF Channel!Next

LEMMA NextRefines == TypeInv /\ [Next]_vars => [Channel!Next]_(Channel!vars)
<1> SUFFICES ASSUME TypeInv, [Next]_vars PROVE [Channel!Next]_(Channel!vars)
  OBVIOUS
<1>1. CASE UNCHANGED <<ready, queue, taken>> /\ (worker' = "ended") = (worker = "ended")
  BY <1>1 DEF Channel!vars, backlog
<1>2. CASE Owner
  <2>1. CASE Enter
    <3>1. worker = "off" /\ worker' = "reading"
      BY <2>1 DEF Enter, TypeInv, PutsBound
    <3> QED BY <1>1, <2>1, <3>1 DEF Enter, handOff, consuming
  <2> QED BY <1>1, <1>2, <2>1
          DEF Owner, EnterFails, ExitStops, Disconnect, Join, handOff, consuming
<1>3. CASE Worker
  <2>1. CASE Finish \/ Raise \/ \E k \in Reads : Read(k)
    BY <1>1, <2>1 DEF Finish, Raise, Read, handOff, consuming
  <2>2. CASE PutRead
    <3>1. /\ worker = "putting" /\ worker' = "reading"
          /\ hand \in Kinds /\ hand # "stop"
          /\ puts \in Nat /\ puts + 1 <= MaxReads + 2
      BY <2>2, BoundsAssumption DEF PutRead, TypeInv, TypeOK, PutsBound, Kinds, Reads
    <3> QED BY <2>2, <3>1, PutSends, BoundsAssumption DEF PutRead
  <2>3. CASE PutException
    <3>1. /\ worker = "raising" /\ worker' = "ending" /\ "exc" \in Kinds
          /\ puts \in Nat /\ puts + 1 <= MaxReads + 2
      BY <2>3, BoundsAssumption DEF PutException, TypeInv, TypeOK, PutsBound, Kinds
    <3> QED BY <2>3, <3>1, PutSends, BoundsAssumption DEF PutException
  <2>4. CASE PutStop
    <3>1. /\ worker = "ending" /\ worker' = "ended" /\ "stop" \in Kinds
          /\ puts \in Nat /\ puts + 1 <= MaxReads + 2
      BY <2>4, BoundsAssumption DEF PutStop, TypeInv, TypeOK, PutsBound, Kinds
    <3> QED BY <2>4, <3>1, PutSends, BoundsAssumption DEF PutStop
  <2> QED BY <1>3, <2>1, <2>2, <2>3, <2>4 DEF Worker
<1>4. CASE RunPut
  BY <1>4, RunPutForgets
<1>5. CASE Get
  <2>1. TakesOldest
    BY <1>5, GetTakesOldest
  <2> QED BY <2>1, TakeReceives
<1>6. CASE StartInventory \/ Resume \/ Close
  BY <1>1, <1>6 DEF StartInventory, Resume, Close, driverVars
<1>7. CASE UNCHANGED vars
  BY <1>1, <1>7 DEF vars
<1> QED BY <1>2, <1>3, <1>4, <1>5, <1>6, <1>7 DEF Next, Consumer

(***************************************************************************)
(* The worker, the loop's callbacks, the queue and inventory() together    *)
(* implement the lossy channel, for every bound.                           *)
(***************************************************************************)
THEOREM DriverImplementsChannel == Spec => ImplementsChannel
<1>1. Init => Channel!Init
  BY InitRefines
<1>2. TypeInv /\ [Next]_vars => [Channel!Next]_(Channel!vars)
  BY NextRefines
<1> QED BY InitTypeInv, NextTypeInv, <1>1, <1>2, PTL
        DEF Spec, ImplementsChannel, Channel!Spec
=============================================================================
