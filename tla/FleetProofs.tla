----------------------------- MODULE FleetProofs -----------------------------
(***************************************************************************)
(* Theorems about Fleet for every finite set of drivers and any number of  *)
(* items that they yield.                                                  *)
(***************************************************************************)
EXTENDS Fleet, FiniteSetTheorems, FunctionTheorems, SequenceTheorems, TLAPS

-----------------------------------------------------------------------------
(* What is known of the queue's entries. *)

Entry == Items \union {DONE}

\* The sentinel is no item.
LEMMA DoneIsNoItem == DONE \notin Items
<1>1. DOMAIN DONE = {"done"}
  BY DEF DONE
<1>2. ASSUME NEW x \in Items PROVE DOMAIN x = {"driver", "n"}
  BY <1>2 DEF Items
<1>3. {"done"} # {"driver", "n"}
  OBVIOUS
<1> QED BY <1>1, <1>2, <1>3

\* What a pump puts is an item.
LEMMA PutIsItem ==
  ASSUME NEW d \in Drivers, NEW n \in 1..PerDriver
  PROVE  LET x == [driver |-> d, n |-> n]
         IN x \in Items /\ x # DONE /\ x.driver = d /\ x.n = n
BY DoneIsNoItem DEF Items

\* An entry that is not the sentinel has a driver and a number.
LEMMA EntryIsItem ==
  ASSUME NEW x \in Entry, x # DONE
  PROVE  x \in Items /\ x.driver \in Drivers /\ x.n \in 1..PerDriver
BY DEF Entry, Items

\* An item is its driver and its number.
LEMMA SameItem ==
  ASSUME NEW x \in Items, NEW y \in Items, x.driver = y.driver, x.n = y.n
  PROVE  x = y
BY DEF Items

\* Taking the head of a queue moves every other entry down by one.
LEMMA TailMoves ==
  ASSUME NEW q \in Seq(Entry), q # <<>>
  PROVE  /\ Len(q) \in Nat \ {0}
         /\ Head(q) = q[1] /\ q[1] \in Entry
         /\ Tail(q) \in Seq(Entry)
         /\ DOMAIN Tail(q) = 1..(Len(q) - 1)
         /\ \A i \in 1..(Len(q) - 1) : Tail(q)[i] = q[i + 1]
  OBVIOUS

\* Appending leaves every other entry where it is.
LEMMA AppendKeeps ==
  ASSUME NEW q \in Seq(Entry), NEW x \in Entry
  PROVE  /\ Len(q) \in Nat
         /\ DOMAIN q = 1..Len(q)
         /\ Append(q, x) \in Seq(Entry)
         /\ DOMAIN Append(q, x) = 1..(Len(q) + 1)
         /\ Append(q, x)[Len(q) + 1] = x
         /\ \A i \in 1..Len(q) : Append(q, x)[i] = q[i]
  OBVIOUS

-----------------------------------------------------------------------------
(***************************************************************************)
(* Where the pumps are, given where the call is.                           *)
(***************************************************************************)
Places ==
    /\ stream \in {"idle", "refused"} =>
           /\ pump = [d \in Drivers |-> "none"]
           /\ sent = [d \in Drivers |-> 0] /\ delivered = [d \in Drivers |-> 0]
           /\ queue = <<>> /\ errors = <<>>
    /\ stream \notin {"idle", "refused"} => \A d \in Drivers : pump[d] # "none"
    /\ stream \in {"finished", "raised"} => \A d \in Drivers : pump[d] = "done"
    /\ stream \in Ended => \A d \in Drivers : pump[d] \notin Live

(***************************************************************************)
(* What a driver yielded and the call did not deliver is in the queue: the *)
(* driver's next numbers, each once, in order.                             *)
(***************************************************************************)
Outstanding ==
    /\ \A d \in Drivers : delivered[d] <= sent[d]
    /\ \A i \in DOMAIN queue : queue[i] # DONE =>
           delivered[queue[i].driver] < queue[i].n /\ queue[i].n <= sent[queue[i].driver]
    /\ \A i, j \in DOMAIN queue :
           i < j /\ queue[i] # DONE /\ queue[j] # DONE /\ queue[i].driver = queue[j].driver
               => queue[i].n < queue[j].n
    /\ \A d \in Drivers : \A k \in (delivered[d] + 1)..sent[d] :
           \E i \in DOMAIN queue : queue[i] # DONE /\ queue[i].driver = d /\ queue[i].n = k

(***************************************************************************)
(* A sentinel stands behind every item of a driver that has ended.  With   *)
(* the last sentinel taken, no item can be left.                           *)
(***************************************************************************)
SentinelBehind ==
    \A i \in DOMAIN queue :
        queue[i] # DONE /\ pump[queue[i].driver] = "done" =>
            \E j \in DOMAIN queue : i < j /\ queue[j] = DONE

\* When the stream ended by itself, nothing was left and the errors decided how.
Complete ==
    stream \in {"finished", "raised"} =>
        queue = <<>> /\ (stream = "raised") = (errors # <<>>)

\* The sentinels to come: one of each pump that has not ended.  A pump that
\* died before its try did so over a driver that is not connected.
Counted ==
    stream \in {"waiting", "yielding"} =>
        /\ remaining = Cardinality({d \in Drivers : pump[d] # "done"}) + Cardinality(Dones)
        /\ Silent \subseteq Drivers \ connected

FleetInv == TypeOK /\ Places /\ Outstanding /\ SentinelBehind /\ Counted /\ Complete

-----------------------------------------------------------------------------
(* The initial states. *)

LEMMA DriversCounted ==
  /\ IsFiniteSet(Drivers) /\ Cardinality(Drivers) \in Nat
  /\ \A S \in SUBSET Drivers : IsFiniteSet(S) /\ Cardinality(S) \in Nat
BY FleetAssumption, FS_Subset, FS_CardinalityType

LEMMA InitFleetInv == Init => FleetInv
<1> SUFFICES ASSUME Init PROVE FleetInv
  OBVIOUS
<1>1. TypeOK
  BY DriversCounted, FleetAssumption DEF Init, TypeOK, Entry, Ended, Live
<1>2. Places
  BY DEF Init, Places, Ended, Live
<1>3. Outstanding
  BY FleetAssumption DEF Init, Outstanding
<1>4. SentinelBehind /\ Counted /\ Complete
  BY DEF Init, SentinelBehind, Counted, Complete
<1> QED BY <1>1, <1>2, <1>3, <1>4 DEF FleetInv

-----------------------------------------------------------------------------
(* How the two ways the queue changes move the sentinels' count. *)

\* The sentinels of queue q; Dones is this of the call's queue.
DonesOf(q) == {i \in DOMAIN q : q[i] = DONE}

LEMMA DonesFinite ==
  ASSUME NEW q \in Seq(Entry)
  PROVE  IsFiniteSet(DonesOf(q)) /\ Cardinality(DonesOf(q)) \in Nat
<1>1. DonesOf(q) \in SUBSET (1..Len(q)) /\ Len(q) \in Nat
  BY DEF DonesOf
<1>2. IsFiniteSet(1..Len(q))
  BY <1>1, FS_Interval
<1>3. IsFiniteSet(DonesOf(q))
  BY <1>1, <1>2, FS_Subset
<1> QED BY <1>3, FS_CardinalityType

LEMMA AppendDone ==
  ASSUME NEW q \in Seq(Entry)
  PROVE  Cardinality(DonesOf(Append(q, DONE))) = Cardinality(DonesOf(q)) + 1
<1>1. DONE \in Entry
  BY DEF Entry
<1>2. DonesOf(Append(q, DONE)) = DonesOf(q) \union {Len(q) + 1}
  BY <1>1, AppendKeeps DEF DonesOf
<1>3. Len(q) + 1 \notin DonesOf(q)
  BY <1>1, AppendKeeps DEF DonesOf
<1> QED BY <1>2, <1>3, DonesFinite, FS_AddElement

LEMMA AppendItem ==
  ASSUME NEW q \in Seq(Entry), NEW x \in Items
  PROVE  DonesOf(Append(q, x)) = DonesOf(q)
BY AppendKeeps, DoneIsNoItem DEF DonesOf, Entry

LEMMA TakeHead ==
  ASSUME NEW q \in Seq(Entry), q # <<>>
  PROVE  Cardinality(DonesOf(Tail(q))) =
             IF Head(q) = DONE THEN Cardinality(DonesOf(q)) - 1 ELSE Cardinality(DonesOf(q))
<1> DEFINE rest == DonesOf(q) \ {1}
           down == [i \in rest |-> i - 1]
<1>1. down \in Bijection(rest, DonesOf(Tail(q)))
  <2>1. down \in [rest -> DonesOf(Tail(q))]
    BY TailMoves DEF DonesOf
  <2>2. \A a, b \in rest : down[a] = down[b] => a = b
    BY TailMoves DEF DonesOf
  <2>3. ASSUME NEW j \in DonesOf(Tail(q)) PROVE \E i \in rest : down[i] = j
    <3>1. j \in 1..(Len(q) - 1) /\ q[j + 1] = DONE /\ Len(q) \in Nat
      BY <2>3, TailMoves DEF DonesOf
    <3>2. j + 1 \in rest
      BY <3>1 DEF DonesOf
    <3>3. down[j + 1] = j
      BY <3>1, <3>2
    <3> QED BY <3>2, <3>3
  <2> QED BY <2>1, <2>2, <2>3, Fun_IsBij
<1>2. ExistsBijection(rest, DonesOf(Tail(q)))
  BY <1>1 DEF ExistsBijection
<1>3. IsFiniteSet(DonesOf(q)) /\ Cardinality(DonesOf(q)) \in Nat
  BY DonesFinite
<1>4. /\ IsFiniteSet(rest)
      /\ Cardinality(rest) = IF 1 \in DonesOf(q) THEN Cardinality(DonesOf(q)) - 1
                                                 ELSE Cardinality(DonesOf(q))
  BY <1>3, FS_RemoveElement
<1>5. Cardinality(DonesOf(Tail(q))) = Cardinality(rest)
  BY <1>2, <1>4, FS_Bijection
<1>6. 1 \in DonesOf(q) <=> Head(q) = DONE
  BY TailMoves DEF DonesOf
<1> QED BY <1>4, <1>5, <1>6

-----------------------------------------------------------------------------
(* The call's steps. *)

\* The tasks are created: as many sentinels are to come as there are drivers.
LEMMA CreateTasksInv ==
  ASSUME FleetInv, stream = "idle", CreateTasks
  PROVE  FleetInv'
<1> USE DEF FleetInv
<1>1. TypeOK'
  BY DriversCounted DEF CreateTasks, TypeOK, Entry, Ended, Live
<1>2. Places'
  BY DEF CreateTasks, Places, Ended
<1>3. Outstanding' /\ SentinelBehind' /\ Complete'
  BY DEF CreateTasks, Places, Outstanding, SentinelBehind, Complete
<1>4. Counted'
  <2>1. {d \in Drivers : pump'[d] # "done"} = Drivers
    BY DEF CreateTasks
  <2>2. Dones' = {}
    BY DEF CreateTasks, Places, Dones
  <2>3. Cardinality(Dones') = 0
    BY <2>2, FS_EmptySet
  <2>4. remaining' = Cardinality(Drivers)
    BY DEF CreateTasks
  <2>5. Silent' = {}
    BY DEF CreateTasks, Silent
  <2> QED BY <2>1, <2>3, <2>4, <2>5, DriversCounted DEF Counted
<1> QED BY <1>1, <1>2, <1>3, <1>4

\* An item leaves the queue at its head: it is its driver's next.
LEMMA GetItemNext ==
  ASSUME FleetInv, GetItem
  PROVE  LET x == Head(queue)
         IN /\ x \in Items /\ x.driver \in Drivers
            /\ x.n = delivered[x.driver] + 1 /\ x.n <= sent[x.driver]
<1> DEFINE x == Head(queue)
<1> USE DEF FleetInv, TypeOK, Entry
<1>1. queue # <<>> /\ x # DONE
  BY DEF GetItem, Get
<1>2. /\ x = queue[1] /\ x \in Entry
      /\ DOMAIN queue = 1..Len(queue) /\ Len(queue) \in Nat \ {0}
  BY <1>1, TailMoves
<1>3. x \in Items /\ x.driver \in Drivers /\ x.n \in 1..PerDriver
  BY <1>1, <1>2, EntryIsItem
<1> HIDE DEF x
<1>4. delivered[x.driver] < x.n /\ x.n <= sent[x.driver]
  <2>1. 1 \in DOMAIN queue
    BY <1>2
  <2> QED BY <1>1, <1>2, <2>1 DEF Outstanding
<1>5. delivered[x.driver] \in Nat /\ sent[x.driver] \in Nat
  BY <1>3
<1>6. PICK i \in DOMAIN queue :
        queue[i] # DONE /\ queue[i].driver = x.driver /\ queue[i].n = delivered[x.driver] + 1
  <2>1. delivered[x.driver] + 1 \in (delivered[x.driver] + 1)..sent[x.driver]
    BY <1>3, <1>4, <1>5, FleetAssumption
  <2> QED BY <1>3, <2>1 DEF Outstanding
<1>7. CASE i = 1
  BY <1>2, <1>3, <1>4, <1>6, <1>7 DEF x
<1>8. CASE i # 1
  <2>1. 1 \in DOMAIN queue /\ 1 < i
    BY <1>2, <1>8
  <2>2. x.n < queue[i].n
    BY <1>1, <1>2, <1>6, <2>1 DEF Outstanding
  <2> QED BY <1>3, <1>4, <1>5, <1>6, <2>2, FleetAssumption
<1> QED BY <1>3, <1>4, <1>7, <1>8 DEF x

LEMMA GetItemInv ==
  ASSUME FleetInv, GetItem
  PROVE  FleetInv'
<1> DEFINE x == Head(queue)
           e == x.driver
<1> USE DEF FleetInv
<1>1. /\ queue # <<>> /\ queue \in Seq(Entry) /\ x # DONE /\ stream = "waiting"
      /\ queue' = Tail(queue) /\ stream' = "yielding"
      /\ UNCHANGED <<connected, gated, pump, sent, errors, remaining>>
  BY DEF GetItem, Get, pumps, TypeOK, Entry
<1>2. /\ x = queue[1] /\ DOMAIN queue = 1..Len(queue) /\ Len(queue) \in Nat \ {0}
      /\ queue' \in Seq(Entry) /\ DOMAIN queue' = 1..(Len(queue) - 1)
      /\ \A i \in 1..(Len(queue) - 1) : queue'[i] = queue[i + 1]
  BY <1>1, TailMoves
<1>3. e \in Drivers /\ x.n = delivered[e] + 1 /\ x.n <= sent[e]
  BY GetItemNext
<1>4. delivered' = [delivered EXCEPT ![e] = x.n]
  BY DEF GetItem
<1>5. /\ delivered \in [Drivers -> 0..PerDriver] /\ sent \in [Drivers -> 0..PerDriver]
      /\ PerDriver \in Nat
  BY FleetAssumption DEF TypeOK, Entry
<1> HIDE DEF x, e
<1>6. TypeOK'
  <2>1. delivered' \in [Drivers -> 0..PerDriver]
    BY <1>3, <1>4, <1>5
  <2> QED BY <1>1, <1>2, <2>1 DEF TypeOK, Entry, Ended
<1>7. Places' /\ Complete'
  BY <1>1 DEF Places, Complete, Ended
<1>8. Counted'
  <2>1. Cardinality(Dones') = Cardinality(Dones)
    BY <1>1, TakeHead DEF Dones, DonesOf, x
  <2> QED BY <1>1, <2>1 DEF Counted, Silent
<1>9. SentinelBehind'
  <2> SUFFICES ASSUME NEW i \in DOMAIN queue', queue'[i] # DONE,
                      pump[queue'[i].driver] = "done"
               PROVE  \E j \in DOMAIN queue' : i < j /\ queue'[j] = DONE
    BY <1>1 DEF SentinelBehind
  <2>1. i + 1 \in DOMAIN queue /\ queue'[i] = queue[i + 1]
    BY <1>2
  <2>2. PICK j \in DOMAIN queue : i + 1 < j /\ queue[j] = DONE
    BY <2>1 DEF SentinelBehind
  <2>3. j - 1 \in DOMAIN queue' /\ i < j - 1 /\ queue'[j - 1] = queue[j]
    BY <1>2, <2>2
  <2> QED BY <2>2, <2>3
<1>10. Outstanding'
  <2>1. \A d \in Drivers : delivered'[d] = IF d = e THEN x.n ELSE delivered[d]
    BY <1>3, <1>4, <1>5
  <2>2. \A d \in Drivers : delivered'[d] <= sent'[d]
    BY <1>1, <1>3, <2>1 DEF Outstanding
  <2>3. ASSUME NEW i \in DOMAIN queue', queue'[i] # DONE
        PROVE  /\ delivered'[queue'[i].driver] < queue'[i].n
               /\ queue'[i].n <= sent'[queue'[i].driver]
    <3>1. /\ i + 1 \in DOMAIN queue /\ queue'[i] = queue[i + 1] /\ 1 \in DOMAIN queue /\ 1 < i + 1
      BY <1>2
    <3>2. queue'[i].driver \in Drivers /\ queue'[i].n \in Nat
      BY <1>2, <2>3, EntryIsItem
    <3>3. delivered[queue'[i].driver] < queue'[i].n /\ queue'[i].n <= sent[queue'[i].driver]
      BY <2>3, <3>1 DEF Outstanding
    <3>4. queue'[i].driver = e => x.n < queue'[i].n
      BY <1>1, <1>2, <2>3, <3>1 DEF Outstanding, e
    <3> QED BY <1>1, <2>1, <3>2, <3>3, <3>4
  <2>4. ASSUME NEW i \in DOMAIN queue', NEW j \in DOMAIN queue', i < j,
               queue'[i] # DONE, queue'[j] # DONE, queue'[i].driver = queue'[j].driver
        PROVE  queue'[i].n < queue'[j].n
    <3>1. /\ i + 1 \in DOMAIN queue /\ queue'[i] = queue[i + 1]
          /\ j + 1 \in DOMAIN queue /\ queue'[j] = queue[j + 1] /\ i + 1 < j + 1
      BY <1>2, <2>4
    <3> QED BY <2>4, <3>1 DEF Outstanding
  <2>5. ASSUME NEW d \in Drivers, NEW k \in (delivered'[d] + 1)..sent'[d]
        PROVE  \E i \in DOMAIN queue' :
                   queue'[i] # DONE /\ queue'[i].driver = d /\ queue'[i].n = k
    <3>1. k \in (delivered[d] + 1)..sent[d] /\ (d = e => k # x.n)
      BY <1>1, <1>3, <1>5, <2>1, <2>5
    <3>2. PICK i \in DOMAIN queue : queue[i] # DONE /\ queue[i].driver = d /\ queue[i].n = k
      BY <3>1 DEF Outstanding
    <3>3. i # 1
      BY <1>2, <3>1, <3>2 DEF e
    <3>4. i - 1 \in DOMAIN queue' /\ queue'[i - 1] = queue[i]
      BY <1>2, <3>3
    <3> QED BY <3>2, <3>4
  <2> QED BY <2>2, <2>3, <2>4, <2>5 DEF Outstanding
<1> QED BY <1>6, <1>7, <1>8, <1>9, <1>10

\* A sentinel leaves the queue.  If it was the last one, the queue is empty,
\* every driver has ended, and all they yielded was delivered.
LEMMA GetDoneLast ==
  ASSUME FleetInv, GetDone
  PROVE  /\ remaining >= 1
         /\ remaining <= 1 => /\ queue' = <<>>
                              /\ \A d \in Drivers : pump[d] = "done"
<1> DEFINE late == {d \in Drivers : pump[d] # "done"}
<1> USE DEF FleetInv
<1>1. /\ queue # <<>> /\ queue \in Seq(Entry) /\ Head(queue) = DONE /\ stream = "waiting"
      /\ queue' = Tail(queue)
  BY DEF GetDone, Get, TypeOK, Entry
<1>2. /\ DOMAIN queue = 1..Len(queue) /\ Len(queue) \in Nat \ {0}
      /\ queue' \in Seq(Entry) /\ DOMAIN queue' = 1..(Len(queue) - 1)
      /\ \A i \in 1..(Len(queue) - 1) : queue'[i] = queue[i + 1]
  BY <1>1, TailMoves
<1>3. IsFiniteSet(late) /\ Cardinality(late) \in Nat
  BY DriversCounted
<1>4. IsFiniteSet(DonesOf(queue')) /\ Cardinality(DonesOf(queue')) \in Nat
  BY <1>2, DonesFinite
<1>5. /\ Cardinality(Dones) \in Nat
      /\ Cardinality(DonesOf(queue')) = Cardinality(Dones) - 1
  BY <1>1, TakeHead, DonesFinite DEF Dones, DonesOf
<1>6. remaining = Cardinality(late) + Cardinality(DonesOf(queue')) + 1
  BY <1>1, <1>3, <1>4, <1>5 DEF Counted
<1>7. ASSUME remaining <= 1
      PROVE  queue' = <<>> /\ \A d \in Drivers : pump[d] = "done"
  <2>1. Cardinality(late) = 0 /\ Cardinality(DonesOf(queue')) = 0
    BY <1>3, <1>4, <1>6, <1>7
  <2>2. late = {} /\ DonesOf(queue') = {}
    BY <1>3, <1>4, <2>1, FS_EmptySet
  <2>3. ASSUME queue' # <<>> PROVE FALSE
    <3>1. Len(queue) - 1 > 0
      BY <1>1, <1>2, <2>3
    <3>2. 2 \in DOMAIN queue /\ queue'[1] = queue[2] /\ 1 \in DOMAIN queue'
      BY <1>2, <3>1
    <3>3. queue[2] # DONE
      BY <2>2, <3>2 DEF DonesOf
    <3>4. queue[2].driver \in Drivers
      BY <3>2, <3>3, EntryIsItem, <1>1
    <3>5. PICK j \in DOMAIN queue : 2 < j /\ queue[j] = DONE
      BY <2>2, <3>2, <3>3, <3>4 DEF SentinelBehind
    <3>6. j - 1 \in DOMAIN queue' /\ queue'[j - 1] = DONE
      BY <1>2, <3>5
    <3> QED BY <2>2, <3>6 DEF DonesOf
  <2> QED BY <2>2, <2>3
<1> QED BY <1>3, <1>4, <1>6, <1>7

LEMMA GetDoneInv ==
  ASSUME FleetInv, GetDone
  PROVE  FleetInv'
<1> USE DEF FleetInv
<1>1. /\ queue # <<>> /\ queue \in Seq(Entry) /\ Head(queue) = DONE /\ stream = "waiting"
      /\ queue' = Tail(queue) /\ remaining' = remaining - 1
      /\ stream' = IF remaining > 1 THEN "waiting"
                   ELSE IF errors = <<>> THEN "finished" ELSE "raised"
      /\ UNCHANGED <<connected, gated, pump, sent, errors, delivered>>
  BY DEF GetDone, Get, pumps, TypeOK, Entry
<1>2. /\ queue[1] = DONE /\ DOMAIN queue = 1..Len(queue) /\ Len(queue) \in Nat \ {0}
      /\ queue' \in Seq(Entry) /\ DOMAIN queue' = 1..(Len(queue) - 1)
      /\ \A i \in 1..(Len(queue) - 1) : queue'[i] = queue[i + 1]
  BY <1>1, TailMoves
<1>3. /\ remaining >= 1 /\ remaining \in Int
      /\ remaining <= 1 => queue' = <<>> /\ \A d \in Drivers : pump[d] = "done"
  BY GetDoneLast DEF TypeOK, Entry
<1>4. TypeOK'
  BY <1>1, <1>2, <1>3, DriversCounted DEF TypeOK, Entry, Ended
<1>5. Places'
  BY <1>1, <1>3 DEF Places, Ended, Live
<1>6. Complete'
  BY <1>1, <1>3 DEF Complete
<1>7. Counted'
  <2>1. Cardinality(Dones) \in Nat /\ Cardinality(Dones') = Cardinality(Dones) - 1
    BY <1>1, TakeHead, DonesFinite DEF Dones, DonesOf
  <2>2. Cardinality({d \in Drivers : pump[d] # "done"}) \in Nat
    BY DriversCounted
  <2> QED BY <1>1, <2>1, <2>2 DEF Counted, Silent
<1>8. SentinelBehind'
  <2> SUFFICES ASSUME NEW i \in DOMAIN queue', queue'[i] # DONE,
                      pump[queue'[i].driver] = "done"
               PROVE  \E j \in DOMAIN queue' : i < j /\ queue'[j] = DONE
    BY <1>1 DEF SentinelBehind
  <2>1. i + 1 \in DOMAIN queue /\ queue'[i] = queue[i + 1]
    BY <1>2
  <2>2. PICK j \in DOMAIN queue : i + 1 < j /\ queue[j] = DONE
    BY <2>1 DEF SentinelBehind
  <2>3. j - 1 \in DOMAIN queue' /\ i < j - 1 /\ queue'[j - 1] = queue[j]
    BY <1>2, <2>2
  <2> QED BY <2>2, <2>3
<1>9. Outstanding'
  <2>1. \A i \in DOMAIN queue' : i + 1 \in DOMAIN queue /\ queue'[i] = queue[i + 1]
    BY <1>2
  <2>2. ASSUME NEW i \in DOMAIN queue', NEW j \in DOMAIN queue', i < j
        PROVE  i + 1 < j + 1
    BY <1>2, <2>2
  <2>3. ASSUME NEW d \in Drivers, NEW k \in (delivered[d] + 1)..sent[d]
        PROVE  \E i \in DOMAIN queue' :
                   queue'[i] # DONE /\ queue'[i].driver = d /\ queue'[i].n = k
    <3>1. PICK i \in DOMAIN queue : queue[i] # DONE /\ queue[i].driver = d /\ queue[i].n = k
      BY DEF Outstanding
    <3>2. i - 1 \in DOMAIN queue' /\ queue'[i - 1] = queue[i]
      BY <1>2, <3>1
    <3> QED BY <3>1, <3>2
  <2> QED BY <1>1, <2>1, <2>2, <2>3 DEF Outstanding
<1> QED BY <1>4, <1>5, <1>6, <1>7, <1>8, <1>9

\* The call's other steps touch neither the queue nor the pumps.
LEMMA CallRestInv ==
  ASSUME FleetInv, RefuseWindows \/ Resume \/ Close \/ Closed
  PROVE  FleetInv'
<1> USE DEF FleetInv, RefuseWindows, Resume, Close, Closed, pumps
<1>1. TypeOK'
  BY DEF TypeOK, Entry, Ended
<1>2. Places'
  BY DEF Places, Ended, Live
<1>3. Outstanding' /\ SentinelBehind'
  BY DEF Outstanding, SentinelBehind
<1>4. Complete' /\ Counted'
  BY DEF Complete, Counted, Dones, Silent
<1> QED BY <1>1, <1>2, <1>3, <1>4

-----------------------------------------------------------------------------
(* The pumps' steps. *)

\* Before its loop a pump starts, dies or is cancelled; none of it counts as an end.
LEMMA PumpBeginsInv ==
  ASSUME FleetInv, NEW d \in Drivers, PumpStarts(d) \/ PumpNeverStarts(d)
  PROVE  FleetInv'
<1> USE DEF FleetInv
<1>1. PICK to \in {"iterating", "dead"} : PumpStep(d, "new", to)
  BY DEF PumpStarts, PumpNeverStarts
<1>2. /\ pump[d] = "new" /\ pump' = [pump EXCEPT ![d] = to]
      /\ UNCHANGED <<connected, gated, sent, queue, errors, remaining, stream, delivered>>
      /\ pump \in [Drivers -> Live \union {"none", "done", "dead"}]
  BY <1>1 DEF PumpStep, PumpStarts, PumpNeverStarts, TypeOK, Entry
<1>3. \A e \in Drivers : /\ pump'[e] = "done" <=> pump[e] = "done"
                         /\ pump'[e] = IF e = d THEN to ELSE pump[e]
  BY <1>2
<1>4. stream \in {"waiting", "yielding", "closing"}
  BY <1>2 DEF Places, TypeOK, Entry, Live, Ended
<1>5. TypeOK'
  BY <1>2 DEF TypeOK, Entry, Live
<1>6. Places' /\ Complete'
  BY <1>2, <1>3, <1>4 DEF Places, Ended, Complete
<1>7. Outstanding'
  BY <1>2 DEF Outstanding
<1>8. SentinelBehind'
  <2>1. \A i \in DOMAIN queue : queue[i] # DONE => queue[i].driver \in Drivers
    BY EntryIsItem DEF TypeOK, Entry
  <2> QED BY <1>2, <1>3, <2>1 DEF SentinelBehind
<1>9. Counted'
  <2>1. {e \in Drivers : pump'[e] # "done"} = {e \in Drivers : pump[e] # "done"}
    BY <1>3
  <2>2. Silent' \subseteq Silent \union {d}
    BY <1>3 DEF Silent
  <2>3. stream \in {"waiting", "yielding"} => Silent' \subseteq Drivers \ connected
    BY <1>2, <1>3, <2>2 DEF Counted, Silent, PumpStarts, PumpNeverStarts, PumpStep
  <2> QED BY <1>2, <2>1, <2>3 DEF Counted, Dones
<1> QED BY <1>5, <1>6, <1>7, <1>8, <1>9

\* A pump puts its driver's next item behind all others.
LEMMA PumpPutsInv ==
  ASSUME FleetInv, NEW d \in Drivers, PumpPuts(d)
  PROVE  FleetInv'
<1> DEFINE x == [driver |-> d, n |-> sent[d] + 1]
<1> USE DEF FleetInv
<1>1. /\ pump[d] = "iterating" /\ sent[d] < PerDriver
      /\ pump \in [Drivers -> Live \union {"none", "done", "dead"}]
      /\ sent' = [sent EXCEPT ![d] = @ + 1]
      /\ queue' = Append(queue, x)
      /\ UNCHANGED <<connected, gated, errors, remaining, stream, delivered>>
      /\ pump' = pump
  BY DEF PumpPuts, PumpStep, TypeOK, Entry
<1>2. /\ sent \in [Drivers -> 0..PerDriver] /\ delivered \in [Drivers -> 0..PerDriver]
      /\ PerDriver \in Nat /\ queue \in Seq(Entry)
  BY FleetAssumption DEF TypeOK, Entry
<1>3. x \in Items /\ x # DONE /\ x.driver = d /\ x.n = sent[d] + 1 /\ x \in Entry
  <2>1. sent[d] + 1 \in 1..PerDriver
    BY <1>1, <1>2
  <2> QED BY <2>1, PutIsItem DEF Entry
<1> HIDE DEF x
<1>4. /\ Len(queue) \in Nat /\ DOMAIN queue = 1..Len(queue)
      /\ queue' \in Seq(Entry) /\ DOMAIN queue' = 1..(Len(queue) + 1)
      /\ queue'[Len(queue) + 1] = x
      /\ \A i \in 1..Len(queue) : queue'[i] = queue[i]
  BY <1>1, <1>2, <1>3, AppendKeeps
<1>5. stream \in {"waiting", "yielding", "closing"}
  BY <1>1 DEF Places, TypeOK, Entry, Live, Ended
<1>6. \A e \in Drivers : sent'[e] = IF e = d THEN sent[d] + 1 ELSE sent[e]
  BY <1>1, <1>2
<1>7. \A i \in DOMAIN queue : queue[i] # DONE =>
          queue[i].driver \in Drivers /\ queue[i].n \in Nat
  BY <1>2, EntryIsItem
<1>8. TypeOK'
  <2>1. sent' \in [Drivers -> 0..PerDriver]
    BY <1>1, <1>2
  <2> QED BY <1>1, <1>4, <2>1 DEF TypeOK, Entry
<1>9. Places' /\ Complete'
  BY <1>1, <1>5 DEF Places, Complete, Ended
<1>10. Counted'
  <2>1. Dones' = Dones
    BY <1>1, <1>2, <1>3, AppendItem DEF Dones, DonesOf
  <2> QED BY <1>1, <2>1 DEF Counted, Silent
<1>11. SentinelBehind'
  <2> SUFFICES ASSUME NEW i \in DOMAIN queue', queue'[i] # DONE,
                      pump[queue'[i].driver] = "done"
               PROVE  \E j \in DOMAIN queue' : i < j /\ queue'[j] = DONE
    BY <1>1 DEF SentinelBehind
  <2>1. i \in DOMAIN queue /\ queue'[i] = queue[i]
    BY <1>1, <1>3, <1>4
  <2>2. PICK j \in DOMAIN queue : i < j /\ queue[j] = DONE
    BY <2>1 DEF SentinelBehind
  <2> QED BY <1>4, <2>2
<1>12. Outstanding'
  <2>1. \A e \in Drivers : delivered'[e] <= sent'[e]
    BY <1>1, <1>2, <1>6 DEF Outstanding
  <2>2. ASSUME NEW i \in DOMAIN queue', queue'[i] # DONE
        PROVE  /\ delivered'[queue'[i].driver] < queue'[i].n
               /\ queue'[i].n <= sent'[queue'[i].driver]
    <3>1. CASE i \in DOMAIN queue
      <4>1. /\ delivered[queue[i].driver] < queue[i].n
            /\ queue[i].n <= sent[queue[i].driver]
        BY <1>4, <2>2, <3>1 DEF Outstanding
      <4> QED BY <1>1, <1>2, <1>4, <1>6, <1>7, <2>2, <3>1, <4>1
    <3>2. CASE i = Len(queue) + 1
      <4>1. delivered[d] <= sent[d]
        BY DEF Outstanding
      <4> QED BY <1>1, <1>2, <1>3, <1>4, <1>6, <3>2, <4>1
    <3> QED BY <1>4, <3>1, <3>2
  <2>3. ASSUME NEW i \in DOMAIN queue', NEW j \in DOMAIN queue', i < j,
               queue'[i] # DONE, queue'[j] # DONE, queue'[i].driver = queue'[j].driver
        PROVE  queue'[i].n < queue'[j].n
    <3>1. i \in DOMAIN queue /\ queue'[i] = queue[i]
      BY <1>4, <2>3
    <3>2. CASE j \in DOMAIN queue
      BY <1>4, <2>3, <3>1, <3>2 DEF Outstanding
    <3>3. CASE j = Len(queue) + 1
      <4>1. queue[i].n <= sent[d]
        BY <1>3, <1>4, <2>3, <3>1, <3>3 DEF Outstanding
      <4> QED BY <1>2, <1>3, <1>4, <1>7, <2>3, <3>1, <3>3, <4>1
    <3> QED BY <1>4, <3>2, <3>3
  <2>4. ASSUME NEW e \in Drivers, NEW k \in (delivered'[e] + 1)..sent'[e]
        PROVE  \E i \in DOMAIN queue' :
                   queue'[i] # DONE /\ queue'[i].driver = e /\ queue'[i].n = k
    <3>1. CASE e = d /\ k = sent[d] + 1
      BY <1>3, <1>4, <3>1
    <3>2. CASE ~(e = d /\ k = sent[d] + 1)
      <4>1. k \in (delivered[e] + 1)..sent[e]
        BY <1>1, <1>2, <1>6, <2>4, <3>2
      <4>2. PICK i \in DOMAIN queue : queue[i] # DONE /\ queue[i].driver = e /\ queue[i].n = k
        BY <4>1 DEF Outstanding
      <4> QED BY <1>4, <4>2
    <3> QED BY <3>1, <3>2
  <2> QED BY <2>1, <2>2, <2>3, <2>4 DEF Outstanding
<1> QED BY <1>8, <1>9, <1>10, <1>11, <1>12

\* A pump ends, with or without an error: its sentinel stands behind its items.
LEMMA PumpEndsInv ==
  ASSUME FleetInv, NEW d \in Drivers, PumpEnds(d) \/ PumpFails(d)
  PROVE  FleetInv'
<1> USE DEF FleetInv
<1>1. /\ pump[d] = "iterating" /\ pump' = [pump EXCEPT ![d] = "done"]
      /\ pump \in [Drivers -> Live \union {"none", "done", "dead"}]
      /\ queue' = Append(queue, DONE) /\ queue \in Seq(Entry)
      /\ UNCHANGED <<connected, gated, sent, remaining, stream, delivered>>
      /\ errors \in Seq(Drivers) /\ (errors' = errors \/ errors' = Append(errors, d))
  BY DEF PumpEnds, PumpFails, PumpStep, TypeOK, Entry
<1>2. DONE \in Entry
  BY DEF Entry
<1>3. /\ Len(queue) \in Nat /\ DOMAIN queue = 1..Len(queue)
      /\ queue' \in Seq(Entry) /\ DOMAIN queue' = 1..(Len(queue) + 1)
      /\ queue'[Len(queue) + 1] = DONE
      /\ \A i \in 1..Len(queue) : queue'[i] = queue[i]
  BY <1>1, <1>2, AppendKeeps
<1>4. stream \in {"waiting", "yielding", "closing"}
  BY <1>1 DEF Places, TypeOK, Entry, Live, Ended
<1>5. TypeOK'
  <2>1. Append(errors, d) \in Seq(Drivers)
    BY AppendProperties DEF TypeOK, Entry
  <2>2. errors' \in Seq(Drivers)
    BY <1>1, <2>1
  <2> QED BY <1>1, <1>3, <2>2 DEF TypeOK, Entry
<1>6. Places' /\ Complete'
  BY <1>1, <1>4 DEF Places, Complete, Ended
<1>7. Counted'
  <2> DEFINE late == {e \in Drivers : pump[e] # "done"}
  <2>1. {e \in Drivers : pump'[e] # "done"} = late \ {d} /\ d \in late
    BY <1>1
  <2>2. IsFiniteSet(late) /\ Cardinality(late) \in Nat
    BY DriversCounted
  <2>3. Cardinality(late \ {d}) = Cardinality(late) - 1
    BY <2>1, <2>2, FS_RemoveElement
  <2>4. Cardinality(Dones') = Cardinality(Dones) + 1 /\ Cardinality(Dones) \in Nat
    BY <1>1, AppendDone, DonesFinite DEF Dones, DonesOf
  <2>5. Cardinality({e \in Drivers : pump'[e] # "done"}) = Cardinality(late) - 1
    BY <2>1, <2>3
  <2>6. stream \in {"waiting", "yielding"} => remaining = Cardinality(late) + Cardinality(Dones)
    BY DEF Counted
  <2> HIDE DEF late
  <2>7. stream' \in {"waiting", "yielding"} =>
            remaining' = Cardinality({e \in Drivers : pump'[e] # "done"}) + Cardinality(Dones')
    <3>1. Cardinality(late) \in Nat /\ Cardinality(Dones) \in Nat
      BY <2>2, <2>4
    <3> QED BY <1>1, <2>4, <2>5, <2>6, <3>1
  <2>8. stream' \in {"waiting", "yielding"} => Silent' \subseteq Drivers \ connected'
    <3>1. Silent' = Silent
      BY <1>1 DEF Silent
    <3> QED BY <1>1, <3>1 DEF Counted
  <2> QED BY <2>7, <2>8 DEF Counted
<1>8. SentinelBehind'
  <2> SUFFICES ASSUME NEW i \in DOMAIN queue', queue'[i] # DONE
               PROVE  \E j \in DOMAIN queue' : i < j /\ queue'[j] = DONE
    BY DEF SentinelBehind
  <2>1. i < Len(queue) + 1
    BY <1>3
  <2> QED BY <1>3, <2>1
<1>9. Outstanding'
  <2>1. \A i \in DOMAIN queue' : queue'[i] # DONE => i \in DOMAIN queue /\ queue'[i] = queue[i]
    BY <1>3
  <2>2. \A i \in DOMAIN queue : i \in DOMAIN queue' /\ queue'[i] = queue[i]
    BY <1>3
  <2> QED BY <1>1, <2>1, <2>2 DEF Outstanding
<1> QED BY <1>5, <1>6, <1>7, <1>8, <1>9

LEMMA NextFleetInv == FleetInv /\ [Next]_vars => FleetInv'
<1> SUFFICES ASSUME FleetInv, [Next]_vars PROVE FleetInv'
  OBVIOUS
<1>1. CASE StartStream \/ StartWindows
  BY <1>1, CreateTasksInv DEF StartStream, StartWindows
<1>2. CASE GetItem
  BY <1>2, GetItemInv
<1>3. CASE GetDone
  BY <1>3, GetDoneInv
<1>4. CASE RefuseWindows \/ Resume \/ Close \/ Closed
  BY <1>4, CallRestInv
<1>5. ASSUME NEW d \in Drivers, Pump(d) PROVE FleetInv'
  BY <1>5, PumpBeginsInv, PumpPutsInv, PumpEndsInv DEF Pump
<1>6. CASE UNCHANGED vars
  BY <1>6 DEF vars, FleetInv, TypeOK, Entry, Places, Outstanding, SentinelBehind,
              Counted, Dones, Silent, Complete
<1> QED BY <1>1, <1>2, <1>3, <1>4, <1>5, <1>6 DEF Next, Call

LEMMA SpecFleetInv == Spec => []FleetInv
BY InitFleetInv, NextFleetInv, PTL DEF Spec

-----------------------------------------------------------------------------
(***************************************************************************)
(* Every variable of the call stays in its type; that the count of the     *)
(* sentinels to come is a number at all rests on the count being right.    *)
(***************************************************************************)
THEOREM FleetTypeCorrect == Spec => []TypeOK
<1>1. FleetInv => TypeOK
  BY DEF FleetInv
<1> QED BY SpecFleetInv, <1>1, PTL

\* Once the tasks are created, a pump that has not ended can still end or is silent.
LEMMA LateOrSilent ==
  ASSUME FleetInv, stream \in {"waiting", "yielding"}
  PROVE  Cardinality({d \in Drivers : pump[d] # "done"}) =
             Cardinality({d \in Drivers : pump[d] \in Live}) + Cardinality(Silent)
<1> DEFINE live == {d \in Drivers : pump[d] \in Live}
<1>1. \A d \in Drivers : pump[d] \in Live \union {"done", "dead"}
  BY DEF FleetInv, TypeOK, Places, Live
<1>2. /\ {d \in Drivers : pump[d] # "done"} = live \union Silent
      /\ live \intersect Silent = {}
  BY <1>1 DEF Live, Silent
<1>3. IsFiniteSet(live) /\ IsFiniteSet(Silent)
  BY DriversCounted DEF Silent
<1> HIDE DEF live
<1>4. Cardinality(live \union Silent) =
          Cardinality(live) + Cardinality(Silent) - Cardinality(live \intersect Silent)
  BY <1>3, FS_Union
<1>5. Cardinality(live \intersect Silent) = 0
  BY <1>2, FS_EmptySet
<1>6. Cardinality(live) \in Nat /\ Cardinality(Silent) \in Nat
  BY <1>3, FS_CardinalityType
<1>7. Cardinality(live \union Silent) = Cardinality(live) + Cardinality(Silent)
  BY <1>4, <1>5, <1>6
<1>8. Cardinality({d \in Drivers : pump[d] # "done"}) = Cardinality(live \union Silent)
  BY <1>2
<1> QED BY <1>7, <1>8 DEF live

(***************************************************************************)
(* For any number of drivers, the call waits for the sentinels in the      *)
(* queue, for one of each pump that can still put it, and for those that   *)
(* the pumps of drivers that are not connected never put.                  *)
(***************************************************************************)
THEOREM SentinelsToCome == Spec => []SentinelsCounted
<1>1. FleetInv => SentinelsCounted
  <2> SUFFICES ASSUME FleetInv, stream \in {"waiting", "yielding"}
               PROVE  /\ remaining = Cardinality({d \in Drivers : pump[d] \in Live})
                                       + Cardinality(Dones) + Cardinality(Silent)
                      /\ Silent \subseteq Drivers \ connected
    BY DEF SentinelsCounted
  <2> DEFINE late == Cardinality({d \in Drivers : pump[d] # "done"})
             live == Cardinality({d \in Drivers : pump[d] \in Live})
  <2>1. remaining = late + Cardinality(Dones) /\ Silent \subseteq Drivers \ connected
    BY DEF FleetInv, Counted
  <2>2. late = live + Cardinality(Silent)
    BY LateOrSilent
  <2>3. /\ live \in Nat /\ Cardinality(Silent) \in Nat
        /\ Cardinality(Dones) \in Nat
    BY DriversCounted, DonesFinite DEF Silent, FleetInv, TypeOK, Entry, Dones, DonesOf
  <2> HIDE DEF late, live
  <2>4. remaining = live + Cardinality(Dones) + Cardinality(Silent)
    BY <2>1, <2>2, <2>3
  <2> QED BY <2>1, <2>4 DEF live
<1> QED BY SpecFleetInv, <1>1, PTL

\* With nothing left in the queue, every driver's items have been delivered.
LEMMA CompleteEnd == FleetInv => EndsComplete
<1> SUFFICES ASSUME FleetInv, stream \in {"finished", "raised"}
             PROVE  /\ \A d \in Drivers : pump[d] = "done"
                    /\ delivered = sent
                    /\ (stream = "raised") = (errors # <<>>)
  BY DEF EndsComplete
<1>1. queue = <<>> /\ (stream = "raised") = (errors # <<>>)
  BY DEF FleetInv, Complete
<1>2. /\ sent \in [Drivers -> 0..PerDriver] /\ delivered \in [Drivers -> 0..PerDriver]
      /\ PerDriver \in Nat
  BY FleetAssumption DEF FleetInv, TypeOK
<1>3. ASSUME NEW d \in Drivers PROVE delivered[d] = sent[d]
  <2>1. delivered[d] <= sent[d] /\ (delivered[d] + 1)..sent[d] = {}
    BY <1>1 DEF FleetInv, Outstanding
  <2>2. delivered[d] \in Nat /\ sent[d] \in Nat
    BY <1>2
  <2>3. sent[d] \notin (delivered[d] + 1)..sent[d]
    BY <2>1
  <2> QED BY <2>1, <2>2, <2>3
<1>4. delivered = sent
  BY <1>2, <1>3
<1> QED BY <1>1, <1>4 DEF FleetInv, Places

(***************************************************************************)
(* A stream that ends by itself has delivered all that the drivers yielded,*)
(* and raises exactly when one of them did.                                *)
(***************************************************************************)
THEOREM StreamComplete == Spec => []EndsComplete
BY SpecFleetInv, CompleteEnd, PTL

(***************************************************************************)
(* No pump task outlives the call, however it ends.                        *)
(***************************************************************************)
THEOREM PumpsGone == Spec => []NoOrphanPump
<1>1. FleetInv => NoOrphanPump
  BY DEF FleetInv, Places, NoOrphanPump
<1> QED BY SpecFleetInv, <1>1, PTL

-----------------------------------------------------------------------------
(* The refinement: what the abstract stream sees of the call. *)

Running == {d \in Drivers : pump[d] # "done"}
Failed == {errors[i] : i \in DOMAIN errors}
Status == CASE stream \in {"idle", "waiting", "yielding"} -> "open"
            [] stream = "closing" -> "closed"
            [] OTHER -> stream
mergeVars == <<sent, delivered, Running, Failed, Status>>

LEMMA MergeVars == UNCHANGED mergeVars => UNCHANGED Merge!vars
BY DEF mergeVars, Running, Failed, Status, Merge!vars

LEMMA InitMerges == Init => Merge!Init
<1> SUFFICES ASSUME Init PROVE Merge!Init
  OBVIOUS
<1>1. Running = Drivers /\ Failed = {} /\ Status = "open"
  BY DEF Init, Running, Failed, Status
<1> QED BY <1>1 DEF Init, Merge!Init, Running, Failed, Status

\* What the call yields is the driver's next tag.
LEMMA GetItemDelivers ==
  ASSUME FleetInv, GetItem
  PROVE  Merge!Next
<1> DEFINE x == Head(queue)
<1>1. x.driver \in Drivers /\ x.n = delivered[x.driver] + 1 /\ x.n <= sent[x.driver]
  BY GetItemNext
<1>2. /\ stream = "waiting" /\ stream' = "yielding"
      /\ delivered' = [delivered EXCEPT ![x.driver] = x.n]
      /\ UNCHANGED <<sent, pump, errors>>
  BY DEF GetItem, Get, pumps
<1>3. Status = "open" /\ UNCHANGED <<sent, Running, Failed, Status>>
  BY <1>2 DEF Running, Failed, Status
<1>4. delivered[x.driver] \in Nat /\ sent[x.driver] \in Nat
  BY <1>1, FleetAssumption DEF FleetInv, TypeOK
<1> HIDE DEF x
<1>5. Merge!Deliver(x.driver)
  <2>1. delivered[x.driver] < sent[x.driver]
    BY <1>1, <1>4
  <2>2. delivered' = [delivered EXCEPT ![x.driver] = @ + 1]
    BY <1>1, <1>2
  <2> QED BY <1>3, <2>1, <2>2 DEF Merge!Deliver, Running, Failed, Status
<1> QED BY <1>1, <1>5 DEF Merge!Next

\* The last sentinel is the end of the stream, the others do not show.
LEMMA GetDoneFinishes ==
  ASSUME FleetInv, EndsComplete', GetDone
  PROVE  [Merge!Next]_(Merge!vars)
<1>1. /\ stream = "waiting"
      /\ stream' = IF remaining > 1 THEN "waiting"
                   ELSE IF errors = <<>> THEN "finished" ELSE "raised"
      /\ UNCHANGED <<sent, delivered, pump, errors>>
  BY DEF GetDone, Get, pumps
<1>2. CASE remaining > 1
  BY <1>1, <1>2, MergeVars DEF mergeVars, Running, Failed, Status
<1>3. CASE ~(remaining > 1)
  <2>1. stream' = IF errors = <<>> THEN "finished" ELSE "raised"
    BY <1>1, <1>3
  <2>2. (\A d \in Drivers : pump[d] = "done") /\ delivered = sent
    BY <1>1, <2>1 DEF EndsComplete
  <2>3. Running = {} /\ Status = "open" /\ Status' = stream'
    BY <1>1, <2>1, <2>2 DEF Running, Status
  <2>4. Failed = {} <=> errors = <<>>
    <3>1. errors = <<>> <=> DOMAIN errors = {}
      BY DEF FleetInv, TypeOK
    <3> QED BY <3>1 DEF Failed
  <2>5. Merge!Finish
    BY <1>1, <2>1, <2>2, <2>3, <2>4 DEF Merge!Finish, Running, Failed, Status
  <2> QED BY <2>5 DEF Merge!Next
<1> QED BY <1>2, <1>3

\* The call ends before its drivers do.
LEMMA CallRestMerges ==
  ASSUME FleetInv, RefuseWindows \/ Resume \/ Close \/ Closed
  PROVE  [Merge!Next]_(Merge!vars)
<1>1. UNCHANGED <<sent, delivered, pump, errors>>
  BY DEF RefuseWindows, Resume, Close, Closed, pumps
<1>2. UNCHANGED <<sent, delivered, Running, Failed>>
  BY <1>1 DEF Running, Failed
<1>3. CASE Resume \/ Closed
  <2>1. Status' = Status
    BY <1>3 DEF Resume, Closed, Status
  <2> QED BY <1>2, <2>1, MergeVars DEF mergeVars
<1>4. CASE RefuseWindows \/ Close
  <2>1. Status = "open" /\ Status' \in {"closed", "refused"}
    BY <1>4 DEF RefuseWindows, Close, Status
  <2>2. Merge!Close
    BY <1>2, <2>1 DEF Merge!Close, Running, Failed, Status
  <2> QED BY <2>2 DEF Merge!Next
<1> QED BY <1>3, <1>4

LEMMA PumpMerges ==
  ASSUME FleetInv, NEW d \in Drivers, Pump(d)
  PROVE  [Merge!Next]_(Merge!vars)
<1>1. /\ stream' = stream /\ delivered' = delivered
      /\ pump \in [Drivers -> Live \union {"none", "done", "dead"}]
      /\ errors \in Seq(Drivers)
  BY DEF Pump, PumpStarts, PumpPuts, PumpEnds, PumpFails, PumpNeverStarts, PumpStep,
         FleetInv, TypeOK
<1>2. Status' = Status
  BY <1>1 DEF Status
<1>3. CASE PumpStarts(d) \/ PumpNeverStarts(d)
  <2>1. /\ pump[d] = "new" /\ UNCHANGED <<sent, errors>>
        /\ \/ pump' = [pump EXCEPT ![d] = "iterating"]
           \/ pump' = [pump EXCEPT ![d] = "dead"]
    BY <1>3 DEF PumpStarts, PumpNeverStarts, PumpStep
  <2>2. Running' = Running
    BY <1>1, <2>1 DEF Running
  <2> QED BY <1>1, <1>2, <2>1, <2>2, MergeVars DEF mergeVars, Failed
<1>4. CASE PumpPuts(d)
  <2>1. /\ pump[d] = "iterating" /\ pump' = pump /\ errors' = errors
        /\ stream # "closing" /\ sent' = [sent EXCEPT ![d] = @ + 1]
    BY <1>1, <1>4 DEF PumpPuts, PumpStep
  <2>2. Status = "open"
    BY <2>1 DEF FleetInv, Places, TypeOK, Ended, Live, Status
  <2>3. d \in Running /\ UNCHANGED <<Running, Failed>>
    BY <2>1 DEF Running, Failed
  <2>4. Merge!Produce(d)
    BY <1>1, <1>2, <2>1, <2>2, <2>3 DEF Merge!Produce, Running, Failed, Status
  <2> QED BY <2>4 DEF Merge!Next
<1>5. CASE PumpEnds(d) \/ PumpFails(d)
  <2>1. /\ pump[d] = "iterating" /\ pump' = [pump EXCEPT ![d] = "done"] /\ sent' = sent
        /\ errors' = errors \/ errors' = Append(errors, d)
    BY <1>5 DEF PumpEnds, PumpFails, PumpStep
  <2>2. d \in Running /\ Running' = Running \ {d}
    BY <1>1, <2>1 DEF Running
  <2>3. Failed' \in {Failed, Failed \union {d}}
    <3>1. CASE errors' = errors
      BY <3>1 DEF Failed
    <3>2. CASE errors' = Append(errors, d)
      <4>1. /\ DOMAIN errors = 1..Len(errors) /\ Len(errors) \in Nat
            /\ DOMAIN errors' = 1..(Len(errors) + 1) /\ errors'[Len(errors) + 1] = d
            /\ \A i \in 1..Len(errors) : errors'[i] = errors[i]
        BY <1>1, <3>2
      <4>2. Failed' = Failed \union {d}
        BY <4>1 DEF Failed
      <4> QED BY <4>2
    <3> QED BY <2>1, <3>1, <3>2
  <2>4. Merge!End(d)
    BY <1>1, <1>2, <2>1, <2>2, <2>3 DEF Merge!End, Running, Failed, Status
  <2> QED BY <2>4 DEF Merge!Next
<1> QED BY <1>3, <1>4, <1>5 DEF Pump

LEMMA NextMerges == FleetInv /\ EndsComplete' /\ [Next]_vars => [Merge!Next]_(Merge!vars)
<1> SUFFICES ASSUME FleetInv, EndsComplete', [Next]_vars PROVE [Merge!Next]_(Merge!vars)
  OBVIOUS
<1>1. CASE StartStream \/ StartWindows
  <2>1. /\ stream = "idle" /\ stream' = "waiting"
        /\ pump' = [d \in Drivers |-> "new"] /\ UNCHANGED <<sent, delivered, errors>>
    BY <1>1 DEF StartStream, StartWindows, CreateTasks
  <2>2. \A d \in Drivers : pump[d] # "done"
    BY <2>1 DEF FleetInv, Places
  <2>3. Running' = Running /\ Status' = Status /\ Failed' = Failed
    BY <2>1, <2>2 DEF Running, Status, Failed
  <2> QED BY <2>1, <2>3, MergeVars DEF mergeVars
<1>2. CASE GetItem
  BY <1>2, GetItemDelivers
<1>3. CASE GetDone
  BY <1>3, GetDoneFinishes
<1>4. CASE RefuseWindows \/ Resume \/ Close \/ Closed
  BY <1>4, CallRestMerges
<1>5. ASSUME NEW d \in Drivers, Pump(d) PROVE [Merge!Next]_(Merge!vars)
  BY <1>5, PumpMerges
<1>6. CASE UNCHANGED vars
  BY <1>6, MergeVars DEF vars, mergeVars, Running, Failed, Status
<1> QED BY <1>1, <1>2, <1>3, <1>4, <1>5, <1>6 DEF Next, Call

(***************************************************************************)
(* The call, its queue and its tasks implement the merged stream: each     *)
(* driver's items in order, none lost, none twice, and an end that tells   *)
(* whether a driver failed.                                                *)
(***************************************************************************)
THEOREM FleetImplementsMerge == Spec => ImplementsMerge
BY SpecFleetInv, CompleteEnd, InitMerges, NextMerges, PTL DEF Spec, ImplementsMerge, Merge!Spec
=============================================================================
