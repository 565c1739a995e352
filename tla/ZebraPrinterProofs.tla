-------------------------- MODULE ZebraPrinterProofs --------------------------
(***************************************************************************)
(* Theorems about ZebraPrinter for every set of tasks, whatever they call  *)
(* encode_epc with, and every length of the 96-bit bank.                   *)
(***************************************************************************)
EXTENDS ZebraPrinter, SequenceTheorems, TLAPS

-----------------------------------------------------------------------------
(* What building a job gives. *)

RawJob == [epc |-> <<>>, barcode |-> {}, bank |-> "raw"]

\* The job writes the EPC epc to the tag, and prints it if it prints a bar code.
Encodes(job, epc) ==
    /\ job.epc = epc
    /\ job.barcode \subseteq {epc}
    /\ job.bank = "E" => Len(epc) = EPC96_HEX_LEN

\* A job is built for the EPC that encode_epc returns, or an error is raised.
LEMMA BuiltOrRefused ==
  ASSUME NEW q
  PROVE  \/ "error" \in DOMAIN BuildEncode(q) /\ BuildEncode(q).error \in Refusals
         \/ /\ "error" \notin DOMAIN BuildEncode(q)
            /\ Encodes(BuildEncode(q), NormalizeEpc(q.epc))
<1> DEFINE epcHex == NormalizeEpc(q.epc)
           job == [epc |-> epcHex, barcode |-> IF q.barcode THEN {epcHex} ELSE {}, bank |-> q.bank]
<1>1. CASE epcHex = ZPLError \/ ~BankTakes(q, epcHex) \/ ~RsTakes(q)
  <2>1. BuildEncode(q) = ZPLError
    BY <1>1 DEF BuildEncode
  <2> QED BY <2>1 DEF ZPLError, Refusals
<1>2. CASE ~(epcHex = ZPLError \/ ~BankTakes(q, epcHex) \/ ~RsTakes(q)) /\ ~q.ascii
  <2>1. BuildEncode(q) = UnicodeEncodeError
    BY <1>2 DEF BuildEncode
  <2> QED BY <2>1 DEF UnicodeEncodeError, Refusals
<1>3. CASE ~(epcHex = ZPLError \/ ~BankTakes(q, epcHex) \/ ~RsTakes(q)) /\ q.ascii
  <2>1. BuildEncode(q) = job
    BY <1>3 DEF BuildEncode
  <2>2. q.bank = "E" => Len(epcHex) = EPC96_HEX_LEN
    BY <1>3 DEF BankTakes
  <2> HIDE DEF epcHex
  <2>3. job.epc = epcHex /\ job.bank = q.bank /\ job.barcode \subseteq {epcHex}
    OBVIOUS
  <2>4. "error" \notin DOMAIN job
    OBVIOUS
  <2>5. Encodes(job, epcHex)
    BY <2>2, <2>3 DEF Encodes
  <2> QED BY <2>1, <2>4, <2>5 DEF epcHex
<1> QED BY <1>1, <1>2, <1>3

-----------------------------------------------------------------------------
(***************************************************************************)
(* What goes over the connection: the jobs are numbered by their calls, in *)
(* the order in which they were written, and a closed one holds none back. *)
(***************************************************************************)
Built == {job \in {BuildEncode(q) : q \in Requests} : "error" \notin DOMAIN job} \union {RawJob}
Entries == [call : Nat, epc : {job.epc : job \in Built}, barcode : {job.barcode : job \in Built},
            bank : {job.bank : job \in Built}]

SocketInv ==
    /\ calls \in Nat
    /\ buffer \in Seq(Entries) /\ wire \in Seq(Entries)
    /\ transport \in {"none", "closed"} => buffer = <<>>
    /\ \A i, k \in 1..Len(wire) : i < k => wire[i].call < wire[k].call
    /\ \A i, k \in 1..Len(buffer) : i < k => buffer[i].call < buffer[k].call
    /\ \A i \in 1..Len(wire), k \in 1..Len(buffer) : wire[i].call < buffer[k].call
    /\ \A job \in Jobs : job.call \in 1..calls

(***************************************************************************)
(* What the calls know of it: a call that drains has written its job, if   *)
(* the connection took it, and what it will return is in that job; a call  *)
(* that returned an EPC did so.  No job is lost but by a fault that the    *)
(* program is told of, or by the close of an injected transport.           *)
(***************************************************************************)
Kept == ~broken /\ ~injected

Draining(t) == at[t].state = "draining"

CallsInv ==
    /\ broken \in BOOLEAN
    /\ DOMAIN at = Tasks
    /\ \A t \in Tasks : Draining(t) =>
        /\ at[t].call \in 1..calls
        /\ \A job \in Jobs : job.call = at[t].call => Encodes(job, at[t].epc)
        /\ at[t].sent /\ Kept => \E job \in Jobs : job.call = at[t].call
    /\ \A o \in outcome :
        /\ o.call \in 1..calls
        /\ o.raised \in Refusals => \A job \in Jobs : job.call # o.call
        /\ o.raised = "" => \A job \in Jobs : job.call = o.call => Encodes(job, o.epc)
        /\ o.raised = "" /\ Kept => \E job \in Jobs : job.call = o.call

LEMMA InitInv == Init => SocketInv /\ CallsInv
<1> SUFFICES ASSUME Init PROVE SocketInv /\ CallsInv
  OBVIOUS
<1>1. buffer = <<>> /\ wire = <<>> /\ calls = 0 /\ outcome = {} /\ broken = FALSE
  BY DEF Init
<1>2. Jobs = {}
  BY <1>1 DEF Jobs
<1>3. at = [t \in Tasks |-> Idle]
  BY DEF Init
<1>4. \A t \in Tasks : ~Draining(t)
  BY <1>3 DEF Draining, Idle
<1>5. SocketInv
  BY <1>1, <1>2 DEF SocketInv
<1>6. DOMAIN at = Tasks
  BY <1>3
<1>7. CallsInv
  BY <1>1, <1>4, <1>6 DEF CallsInv
<1> QED BY <1>5, <1>7

-----------------------------------------------------------------------------
(* The connection. *)

\* A step that writes nothing and begins or ends no call; jobs go when it breaks.
LEMMA KeepsCalls ==
  ASSUME CallsInv, UNCHANGED <<at, calls, outcome>>, Jobs' \subseteq Jobs, broken' \in BOOLEAN,
         Kept' => Kept /\ Jobs' = Jobs
  PROVE  CallsInv'
BY DEF CallsInv, Draining

\* The kernel takes the oldest job, behind those it took before.
LEMMA HandOverInv ==
  ASSUME SocketInv, HandOver
  PROVE  SocketInv' /\ Jobs' = Jobs
<1>1. /\ buffer # <<>> /\ wire' = Append(wire, Head(buffer)) /\ buffer' = Tail(buffer)
      /\ calls' = calls
      /\ transport' = IF transport = "closing" /\ Tail(buffer) = <<>> THEN "closed" ELSE transport
      /\ buffer \in Seq(Entries) /\ wire \in Seq(Entries)
  BY DEF HandOver, SocketInv
<1>2. /\ Len(buffer) \in Nat \ {0} /\ Len(wire) \in Nat
      /\ buffer' \in Seq(Entries) /\ wire' \in Seq(Entries)
      /\ Len(buffer') = Len(buffer) - 1 /\ Len(wire') = Len(wire) + 1
      /\ wire'[Len(wire) + 1] = buffer[1]
      /\ \A i \in 1..Len(wire) : wire'[i] = wire[i]
      /\ \A i \in 1..Len(buffer') : buffer'[i] = buffer[i + 1]
      /\ DOMAIN buffer = 1..Len(buffer) /\ DOMAIN wire = 1..Len(wire)
      /\ DOMAIN buffer' = 1..Len(buffer') /\ DOMAIN wire' = 1..Len(wire')
  BY <1>1
<1>3. Jobs' = Jobs
  <2>1. ASSUME NEW job \in Jobs' PROVE job \in Jobs
    <3>1. CASE \E i \in 1..Len(buffer') : job = buffer'[i]
      <4>1. PICK i \in 1..Len(buffer') : job = buffer'[i]
        BY <3>1
      <4>2. i + 1 \in DOMAIN buffer /\ job = buffer[i + 1]
        BY <1>2, <4>1
      <4> QED BY <4>2 DEF Jobs
    <3>2. CASE \E i \in 1..Len(wire') : job = wire'[i]
      <4>1. PICK i \in 1..Len(wire') : job = wire'[i]
        BY <3>2
      <4>2. CASE i \in 1..Len(wire)
        BY <1>2, <4>1, <4>2 DEF Jobs
      <4>3. CASE i = Len(wire) + 1
        <5>1. 1 \in DOMAIN buffer /\ job = buffer[1]
          BY <1>2, <4>1, <4>3
        <5> QED BY <5>1 DEF Jobs
      <4> QED BY <1>2, <4>1, <4>2, <4>3
    <3> QED BY <1>2, <2>1, <3>1, <3>2 DEF Jobs
  <2>2. ASSUME NEW job \in Jobs PROVE job \in Jobs'
    <3>1. CASE \E i \in 1..Len(wire) : job = wire[i]
      BY <1>2, <3>1 DEF Jobs
    <3>2. CASE \E i \in 1..Len(buffer) : job = buffer[i]
      <4>1. PICK i \in 1..Len(buffer) : job = buffer[i]
        BY <3>2
      <4>2. CASE i = 1
        <5>1. Len(wire) + 1 \in DOMAIN wire' /\ job = wire'[Len(wire) + 1]
          BY <1>2, <4>1, <4>2
        <5> QED BY <5>1 DEF Jobs
      <4>3. CASE i # 1
        <5>1. i - 1 \in DOMAIN buffer' /\ job = buffer'[i - 1]
          BY <1>2, <4>1, <4>3
        <5> QED BY <5>1 DEF Jobs
      <4> QED BY <4>2, <4>3
    <3> QED BY <1>2, <2>2, <3>1, <3>2 DEF Jobs
  <2> QED BY <2>1, <2>2
<1>4. transport' \in {"none", "closed"} => buffer' = <<>>
  BY <1>1 DEF SocketInv
<1>5. ASSUME NEW i \in 1..Len(wire'), NEW k \in 1..Len(wire'), i < k
      PROVE  wire'[i].call < wire'[k].call
  <2>1. i \in 1..Len(wire) /\ wire'[i] = wire[i]
    BY <1>2, <1>5
  <2>2. CASE k \in 1..Len(wire)
    BY <1>2, <1>5, <2>1, <2>2 DEF SocketInv
  <2>3. CASE k = Len(wire) + 1
    <3>1. 1 \in 1..Len(buffer) /\ wire'[k] = buffer[1]
      BY <1>2, <2>3
    <3> QED BY <2>1, <3>1 DEF SocketInv
  <2> QED BY <1>2, <2>2, <2>3
<1>6. ASSUME NEW i \in 1..Len(buffer'), NEW k \in 1..Len(buffer'), i < k
      PROVE  buffer'[i].call < buffer'[k].call
  <2>1. /\ i + 1 \in 1..Len(buffer) /\ k + 1 \in 1..Len(buffer) /\ i + 1 < k + 1
        /\ buffer'[i] = buffer[i + 1] /\ buffer'[k] = buffer[k + 1]
    BY <1>2, <1>6
  <2> QED BY <2>1 DEF SocketInv
<1>7. ASSUME NEW i \in 1..Len(wire'), NEW k \in 1..Len(buffer')
      PROVE  wire'[i].call < buffer'[k].call
  <2>1. /\ k + 1 \in 1..Len(buffer) /\ buffer'[k] = buffer[k + 1]
        /\ 1 \in 1..Len(buffer) /\ 1 < k + 1
    BY <1>2
  <2>2. CASE i \in 1..Len(wire)
    BY <1>2, <2>1, <2>2 DEF SocketInv
  <2>3. CASE i = Len(wire) + 1
    BY <1>2, <2>1, <2>3 DEF SocketInv
  <2> QED BY <1>2, <2>2, <2>3
<1>8. \A job \in Jobs' : job.call \in 1..calls'
  BY <1>1, <1>3 DEF SocketInv
<1>9. calls' \in Nat
  BY <1>1 DEF SocketInv
<1> QED BY <1>2, <1>3, <1>4, <1>5, <1>6, <1>7, <1>8, <1>9 DEF SocketInv

\* A lost connection loses what it held.
LEMMA BreakInv ==
  ASSUME SocketInv, Break
  PROVE  SocketInv' /\ Jobs' \subseteq Jobs
<1>1. buffer' = <<>> /\ wire' = wire /\ calls' = calls
  BY DEF Break
<1>2. Jobs' \subseteq Jobs
  BY <1>1 DEF Jobs
<1> QED BY <1>1, <1>2 DEF SocketInv

\* Only an empty buffer is behind a closed transport.
LEMMA OwnerInv ==
  ASSUME SocketInv, Owner
  PROVE  /\ SocketInv' /\ Jobs' \subseteq Jobs
         /\ UNCHANGED <<injected, broken, at, calls, outcome>>
         /\ Kept' => Kept /\ Jobs' = Jobs
<1>1. UNCHANGED <<injected, broken, wire, at, calls, outcome>>
  BY DEF Owner, Connect, EnterWithTransport, Close, Left, made, socket
<1>2. \/ buffer' = buffer
      \/ injected /\ buffer' = <<>> /\ transport' = "closed"
  BY DEF Owner, Connect, EnterWithTransport, Close, ClosesFlushing, Aborts, Left, socket
<1>3. Jobs' \subseteq Jobs /\ (buffer' = buffer => Jobs' = Jobs)
  BY <1>1, <1>2 DEF Jobs
<1>4. Kept' => Kept /\ Jobs' = Jobs
  BY <1>1, <1>2, <1>3 DEF Kept
<1>5. transport' \in {"none", "closed"} => buffer' = <<>>
  BY <1>2 DEF Owner, Connect, EnterWithTransport, Close, ClosesFlushing, Aborts, Left, socket, SocketInv
<1>6. CASE buffer' = buffer
  BY <1>1, <1>3, <1>4, <1>5, <1>6 DEF SocketInv
<1>7. CASE buffer' = <<>>
  BY <1>1, <1>3, <1>4, <1>5, <1>7 DEF SocketInv
<1> QED BY <1>2, <1>6, <1>7

-----------------------------------------------------------------------------
(* A call. *)

LEMMA DrainingKnows ==
  ASSUME CallsInv, NEW t \in Tasks, Draining(t)
  PROVE  /\ at[t].call \in 1..calls
         /\ \A job \in Jobs : job.call = at[t].call => Encodes(job, at[t].epc)
         /\ at[t].sent /\ Kept => \E job \in Jobs : job.call = at[t].call
BY Zenon DEF CallsInv

\* The call that begins is the next one: no job and no outcome has its number.
LEMMA FreshCall ==
  ASSUME SocketInv, CallsInv
  PROVE  /\ \A job \in Jobs : job.call # calls + 1
         /\ \A o \in outcome : o.call # calls + 1
         /\ \A t \in Tasks : Draining(t) => at[t].call # calls + 1
         /\ 1..calls \subseteq 1..(calls + 1) /\ calls + 1 \in 1..(calls + 1)
<1>1. calls \in Nat /\ \A n \in 1..calls : n # calls + 1
  BY DEF SocketInv
<1>2. \A job \in Jobs : job.call \in 1..calls
  BY DEF SocketInv
<1>3. /\ \A o \in outcome : o.call \in 1..calls
      /\ \A t \in Tasks : Draining(t) => at[t].call \in 1..calls
  BY DEF CallsInv
<1>4. 1..calls \subseteq 1..(calls + 1) /\ calls + 1 \in 1..(calls + 1)
  BY <1>1
<1> QED BY <1>1, <1>2, <1>3, <1>4

\* A call refused before its write leaves the connection alone.
LEMMA RefusedInv ==
  ASSUME SocketInv, CallsInv, NEW error \in Refusals, calls' = calls + 1,
         Over(calls + 1, <<>>, error),
         UNCHANGED <<injected, transport, broken, buffer, wire, at>>
  PROVE  SocketInv' /\ CallsInv'
<1>1. Jobs' = Jobs
  BY DEF Jobs
<1>2. SocketInv'
  <2>1. \A job \in Jobs' : job.call \in 1..calls'
    BY <1>1, FreshCall DEF SocketInv
  <2> QED BY <2>1 DEF SocketInv
<1>3. PICK new : /\ new.call = calls + 1 /\ new.raised = error
                 /\ outcome' = outcome \union {new}
  BY DEF Over
<1>4. ASSUME NEW o \in outcome'
      PROVE  /\ o.call \in 1..calls'
             /\ o.raised \in Refusals => \A job \in Jobs' : job.call # o.call
             /\ o.raised = "" => \A job \in Jobs' : job.call = o.call => Encodes(job, o.epc)
             /\ o.raised = "" /\ Kept' => \E job \in Jobs' : job.call = o.call
  <2>1. CASE o \in outcome
    BY <1>1, <2>1, FreshCall DEF CallsInv, Kept
  <2>2. CASE o = new
    <3>1. o.raised # ""
      BY <1>3, <2>2 DEF Refusals
    <3> QED BY <1>1, <1>3, <2>2, <3>1, FreshCall
  <2> QED BY <1>3, <2>1, <2>2
<1>5. ASSUME NEW t \in Tasks, Draining(t)'
      PROVE  /\ at'[t].call \in 1..calls'
             /\ \A job \in Jobs' : job.call = at'[t].call => Encodes(job, at'[t].epc)
             /\ at'[t].sent /\ Kept' => \E job \in Jobs' : job.call = at'[t].call
  <2>1. Draining(t)
    BY <1>5 DEF Draining
  <2> QED BY <1>1, <2>1, FreshCall DEF CallsInv, Kept
<1>6. broken' \in BOOLEAN /\ DOMAIN at' = Tasks
  BY DEF CallsInv
<1>7. CallsInv'
  BY <1>4, <1>5, <1>6 DEF CallsInv
<1> QED BY <1>2, <1>7

\* What is written goes behind all other jobs.
LEMMA WrittenInv ==
  ASSUME SocketInv, NEW entry \in Entries, entry.call = calls + 1, calls' = calls + 1,
         Written(entry), UNCHANGED <<transport, wire>>
  PROVE  /\ SocketInv'
         /\ Jobs' \subseteq Jobs \union {entry} /\ Jobs \subseteq Jobs'
         /\ Sends => entry \in Jobs'
<1>1. calls \in Nat /\ 1..calls \subseteq 1..(calls + 1) /\ calls + 1 \in 1..(calls + 1)
  BY DEF SocketInv
<1>2. CASE Sends
  <2>1. buffer' = Append(buffer, entry) /\ buffer \in Seq(Entries) /\ wire \in Seq(Entries)
    BY <1>2 DEF Written, SocketInv
  <2>2. /\ Len(buffer') = Len(buffer) + 1 /\ buffer'[Len(buffer) + 1] = entry
        /\ \A i \in 1..Len(buffer) : buffer'[i] = buffer[i]
        /\ DOMAIN buffer = 1..Len(buffer) /\ DOMAIN buffer' = 1..(Len(buffer) + 1)
        /\ Len(buffer) \in Nat /\ buffer' \in Seq(Entries)
        /\ DOMAIN wire = 1..Len(wire)
    BY <2>1, AppendProperties
  <2>3. DOMAIN buffer' = DOMAIN buffer \union {Len(buffer) + 1}
    BY <2>2
  <2>4. {buffer'[i] : i \in DOMAIN buffer'} = {buffer[i] : i \in DOMAIN buffer} \union {entry}
    BY <2>2, <2>3
  <2>5. Jobs' = Jobs \union {entry}
    BY <2>4 DEF Jobs
  <2>6. \A job \in Jobs' : job.call \in 1..calls'
    BY <1>1, <2>5 DEF SocketInv
  <2>7. transport' \notin {"none", "closed"}
    BY <1>2 DEF Sends
  <2>8. /\ \A i \in 1..Len(buffer) : buffer[i].call \in 1..calls
        /\ \A i \in 1..Len(wire) : wire[i].call \in 1..calls
    BY <2>2 DEF SocketInv, Jobs
  <2>9. ASSUME NEW i \in 1..Len(buffer'), NEW k \in 1..Len(buffer'), i < k
        PROVE  buffer'[i].call < buffer'[k].call
    <3>1. i \in 1..Len(buffer) /\ buffer'[i] = buffer[i]
      BY <2>2, <2>9
    <3>2. CASE k \in 1..Len(buffer)
      BY <2>2, <2>9, <3>1, <3>2 DEF SocketInv
    <3>3. CASE k = Len(buffer) + 1
      <4>1. buffer[i].call \in 1..calls /\ buffer'[k].call = calls + 1
        BY <2>2, <2>8, <3>1, <3>3
      <4> QED BY <1>1, <3>1, <4>1
    <3> QED BY <2>2, <3>2, <3>3
  <2>10. ASSUME NEW i \in 1..Len(wire), NEW k \in 1..Len(buffer')
         PROVE  wire[i].call < buffer'[k].call
    <3>1. CASE k \in 1..Len(buffer)
      BY <2>2, <3>1 DEF SocketInv
    <3>2. CASE k = Len(buffer) + 1
      <4>1. wire[i].call \in 1..calls /\ buffer'[k].call = calls + 1
        BY <2>2, <2>8, <3>2
      <4> QED BY <1>1, <4>1
    <3> QED BY <2>2, <3>1, <3>2
  <2>11. SocketInv'
    BY <1>1, <2>2, <2>6, <2>7, <2>9, <2>10 DEF SocketInv
  <2> QED BY <2>5, <2>11
<1>3. CASE ~Sends
  <2>1. buffer' = buffer
    BY <1>3 DEF Written
  <2>2. Jobs' = Jobs
    BY <2>1 DEF Jobs
  <2>3. \A job \in Jobs' : job.call \in 1..calls'
    BY <1>1, <2>2 DEF SocketInv
  <2>4. SocketInv'
    BY <1>1, <2>1, <2>3 DEF SocketInv
  <2> QED BY <1>3, <2>2, <2>4
<1> QED BY <1>2, <1>3

\* A call that writes its job.
LEMMA WriteInv ==
  ASSUME SocketInv, CallsInv, NEW t \in Tasks, NEW returned,
         NEW job \in Built,
         Encodes(job, returned),
         Write(t, calls + 1, job, returned), calls' = calls + 1,
         UNCHANGED <<injected, transport, broken, wire>>
  PROVE  SocketInv' /\ CallsInv'
<1> DEFINE entry == [call |-> calls + 1, epc |-> job.epc, barcode |-> job.barcode, bank |-> job.bank]
           drain == [state |-> "draining", call |-> calls + 1, epc |-> returned, sent |-> Sends]
<1>1. entry \in Entries /\ entry.call = calls + 1
  <2>1. calls + 1 \in Nat
    BY DEF SocketInv
  <2>2. entry \in Entries
    BY <2>1 DEF Entries
  <2> QED BY <2>2
<1>2. Encodes(entry, returned)
  BY DEF Encodes
<1>3. Written(entry) /\ at' = [at EXCEPT ![t] = drain] /\ outcome' = outcome
  BY DEF Write
<1>4. drain.state = "draining" /\ drain.call = calls + 1 /\ drain.epc = returned
  OBVIOUS
<1>5. drain.sent => Sends
  OBVIOUS
<1> HIDE DEF entry, drain
<1>6. /\ SocketInv' /\ Jobs' \subseteq Jobs \union {entry} /\ Jobs \subseteq Jobs'
      /\ Sends => entry \in Jobs'
  BY <1>1, <1>3, WrittenInv
<1>7. /\ DOMAIN at' = Tasks /\ at'[t] = drain
      /\ \A u \in Tasks \ {t} : at'[u] = at[u]
  BY <1>3 DEF CallsInv
<1>8. ASSUME NEW u \in Tasks, Draining(u)'
      PROVE  /\ at'[u].call \in 1..calls'
             /\ \A j \in Jobs' : j.call = at'[u].call => Encodes(j, at'[u].epc)
             /\ at'[u].sent /\ Kept' => \E j \in Jobs' : j.call = at'[u].call
  <2>1. CASE u = t
    <3>1. at'[u] = drain
      BY <1>7, <2>1
    <3>2. \A j \in Jobs' : j.call = calls + 1 => j = entry
      BY <1>6, FreshCall
    <3>3. \A j \in Jobs' : j.call = at'[u].call => Encodes(j, at'[u].epc)
      BY <1>2, <1>4, <3>1, <3>2
    <3>4. at'[u].sent => \E j \in Jobs' : j.call = at'[u].call
      BY <1>1, <1>4, <1>5, <1>6, <3>1
    <3> QED BY <1>4, <3>1, <3>3, <3>4, FreshCall
  <2>2. CASE u # t
    <3>1. at'[u] = at[u]
      BY <1>7, <2>2
    <3>2. Draining(u)
      BY <1>8, <3>1 DEF Draining
    <3>3. at[u].call # calls + 1 /\ at[u].call \in 1..(calls + 1)
      BY <3>2, FreshCall DEF CallsInv
    <3>4. \A j \in Jobs' : j.call = at[u].call => j \in Jobs
      BY <1>1, <1>6, <3>3
    <3>5. \A j \in Jobs' : j.call = at'[u].call => Encodes(j, at'[u].epc)
      BY <3>1, <3>2, <3>4, DrainingKnows
    <3>6. ASSUME at'[u].sent, Kept'
          PROVE  \E j \in Jobs' : j.call = at'[u].call
      <4>1. at[u].sent /\ Kept
        BY <3>1, <3>6 DEF Kept
      <4>2. PICK j \in Jobs : j.call = at[u].call
        BY <3>2, <4>1, DrainingKnows
      <4> QED BY <1>6, <3>1, <4>2
    <3> QED BY <3>1, <3>3, <3>5, <3>6
  <2> QED BY <2>1, <2>2
<1>9. ASSUME NEW o \in outcome'
      PROVE  /\ o.call \in 1..calls'
             /\ o.raised \in Refusals => \A j \in Jobs' : j.call # o.call
             /\ o.raised = "" => \A j \in Jobs' : j.call = o.call => Encodes(j, o.epc)
             /\ o.raised = "" /\ Kept' => \E j \in Jobs' : j.call = o.call
  <2>1. o \in outcome /\ o.call # calls + 1 /\ o.call \in 1..(calls + 1)
    BY <1>3, <1>9, FreshCall DEF CallsInv
  <2>2. \A j \in Jobs' : j.call = o.call => j \in Jobs
    BY <1>1, <1>6, <2>1
  <2> QED BY <1>6, <2>1, <2>2 DEF CallsInv, Kept
<1>10. broken' \in BOOLEAN
  BY DEF CallsInv
<1>11. CallsInv'
  BY <1>7, <1>8, <1>9, <1>10 DEF CallsInv
<1> QED BY <1>6, <1>11

LEMMA SubmitInv ==
  ASSUME SocketInv, CallsInv, NEW t \in Tasks, EncodeEpc(t) \/ PrintZpl(t)
  PROVE  SocketInv' /\ CallsInv'
<1>1. PICK job, returned :
        /\ Submit(t, job, returned)
        /\ \/ "error" \in DOMAIN job /\ job.error \in Refusals
           \/ /\ "error" \notin DOMAIN job /\ Encodes(job, returned)
              /\ job \in Built
  <2>1. CASE EncodeEpc(t)
    BY <2>1, BuiltOrRefused DEF EncodeEpc, Built
  <2>2. CASE PrintZpl(t)
    <3>1. "error" \in DOMAIN UnicodeEncodeError /\ UnicodeEncodeError.error \in Refusals
      BY DEF UnicodeEncodeError, Refusals
    <3>2. "error" \notin DOMAIN RawJob /\ Encodes(RawJob, <<>>)
      BY DEF RawJob, Encodes
    <3> QED BY <2>2, <3>1, <3>2 DEF PrintZpl, RawJob, Built
  <2> QED BY <2>1, <2>2
<1>2. /\ calls' = calls + 1 /\ UNCHANGED <<injected, transport, broken, wire>>
      /\ Refuse(calls + 1, job) \/ NotConnected(calls + 1, job) \/ Write(t, calls + 1, job, returned)
  BY <1>1 DEF Submit, made
<1>3. CASE Refuse(calls + 1, job)
  BY <1>1, <1>2, <1>3, RefusedInv DEF Refuse
<1>4. CASE NotConnected(calls + 1, job)
  BY <1>2, <1>4, RefusedInv DEF NotConnected, Refusals
<1>5. CASE Write(t, calls + 1, job, returned)
  BY <1>1, <1>2, <1>5, WriteInv DEF Write
<1> QED BY <1>2, <1>3, <1>4, <1>5

\* A call that ends: an EPC is returned only for a job that is on its way.
LEMMA DrainEndsInv ==
  ASSUME SocketInv, CallsInv, NEW t \in Tasks, Drained(t) \/ DrainRaises(t) \/ Cancelled(t)
  PROVE  SocketInv' /\ CallsInv'
<1>1. PICK epc, raised :
        /\ EndsDraining(t, epc, raised)
        /\ \/ raised = "" /\ epc = at[t].epc /\ at[t].sent /\ ~broken
           \/ raised \in {"ConnectionResetError", "CancelledError"}
  BY DEF Drained, DrainRaises, Cancelled
<1>2. /\ Draining(t) /\ Over(at[t].call, epc, raised) /\ at' = [at EXCEPT ![t] = Idle]
      /\ UNCHANGED <<injected, transport, broken, buffer, wire, calls>>
  BY <1>1 DEF EndsDraining, Draining, made, socket
<1>3. Jobs' = Jobs
  BY <1>2 DEF Jobs
<1>4. SocketInv'
  BY <1>2, <1>3 DEF SocketInv
<1>5. /\ DOMAIN at' = Tasks /\ at'[t] = Idle
      /\ \A u \in Tasks \ {t} : at'[u] = at[u]
  BY <1>2 DEF CallsInv
<1>6. PICK new : /\ new.call = at[t].call /\ new.epc = epc /\ new.raised = raised
                 /\ outcome' = outcome \union {new}
  BY <1>2 DEF Over
<1>7. ASSUME NEW u \in Tasks, Draining(u)'
      PROVE  Draining(u) /\ at'[u] = at[u]
  <2>1. u # t
    BY <1>5, <1>7 DEF Draining, Idle
  <2> QED BY <1>5, <1>7, <2>1 DEF Draining
<1>8. ASSUME NEW o \in outcome'
      PROVE  /\ o.call \in 1..calls'
             /\ o.raised \in Refusals => \A job \in Jobs' : job.call # o.call
             /\ o.raised = "" => \A job \in Jobs' : job.call = o.call => Encodes(job, o.epc)
             /\ o.raised = "" /\ Kept' => \E job \in Jobs' : job.call = o.call
  <2>1. CASE o \in outcome
    BY <1>2, <1>3, <2>1 DEF CallsInv, Kept
  <2>2. CASE o = new
    <3>1. o.raised \notin Refusals /\ o.call = at[t].call /\ o.call \in 1..calls'
      BY <1>1, <1>2, <1>6, <2>2 DEF Refusals, CallsInv
    <3>2. CASE o.raised = ""
      <4>1. o.epc = at[t].epc /\ at[t].sent /\ ~broken
        BY <1>1, <1>6, <2>2, <3>2
      <4>2. /\ \A job \in Jobs : job.call = o.call => Encodes(job, o.epc)
            /\ Kept => \E job \in Jobs : job.call = o.call
        BY <1>2, <3>1, <4>1, DrainingKnows
      <4> QED BY <1>2, <1>3, <3>1, <4>2 DEF Kept
    <3>3. CASE o.raised # ""
      BY <3>1, <3>3
    <3> QED BY <3>2, <3>3
  <2> QED BY <1>6, <2>1, <2>2
<1>9. CallsInv'
  <2>1. broken' \in BOOLEAN
    BY <1>2 DEF CallsInv
  <2>2. ASSUME NEW u \in Tasks, Draining(u)'
        PROVE  /\ at'[u].call \in 1..calls'
               /\ \A job \in Jobs' : job.call = at'[u].call => Encodes(job, at'[u].epc)
               /\ at'[u].sent /\ Kept' => \E job \in Jobs' : job.call = at'[u].call
    <3>1. /\ at[u].call \in 1..calls
          /\ \A job \in Jobs : job.call = at[u].call => Encodes(job, at[u].epc)
          /\ at[u].sent /\ Kept => \E job \in Jobs : job.call = at[u].call
      BY <1>7, <2>2 DEF CallsInv
    <3> QED BY <1>2, <1>3, <1>7, <2>2, <3>1 DEF Kept
  <2> QED BY <1>5, <1>8, <2>1, <2>2 DEF CallsInv
<1> QED BY <1>4, <1>9

LEMMA NextInv == SocketInv /\ CallsInv /\ [Next]_vars => SocketInv' /\ CallsInv'
<1> SUFFICES ASSUME SocketInv, CallsInv, [Next]_vars PROVE SocketInv' /\ CallsInv'
  OBVIOUS
<1>1. broken \in BOOLEAN
  BY DEF CallsInv
<1>2. CASE Owner
  BY <1>1, <1>2, OwnerInv, KeepsCalls
<1>3. CASE HandOver
  <2>1. UNCHANGED <<injected, broken, at, calls, outcome>>
    BY <1>3 DEF HandOver, made
  <2>2. Kept' => Kept
    BY <2>1 DEF Kept
  <2> QED BY <1>1, <1>3, <2>1, <2>2, HandOverInv, KeepsCalls
<1>4. CASE Break
  <2>1. broken' = TRUE /\ ~Kept' /\ UNCHANGED <<at, calls, outcome>>
    BY <1>4 DEF Break, Kept
  <2> QED BY <1>4, <2>1, BreakInv, KeepsCalls
<1>5. CASE \E t \in Tasks : Task(t)
  BY <1>5, SubmitInv, DrainEndsInv DEF Task
<1>6. CASE UNCHANGED vars
  <2>1. UNCHANGED <<injected, transport, broken, buffer, wire, at, calls, outcome>> /\ (Kept' => Kept)
    BY <1>6 DEF vars, made, socket, Kept
  <2>2. Jobs' = Jobs
    BY <2>1 DEF Jobs
  <2>3. SocketInv'
    BY <2>1, <2>2 DEF SocketInv
  <2> QED BY <1>1, <2>1, <2>2, <2>3, KeepsCalls
<1> QED BY <1>2, <1>3, <1>4, <1>5, <1>6 DEF Next

-----------------------------------------------------------------------------
(***************************************************************************)
(* A refused call has left nothing on the connection, whatever it was      *)
(* called with and however many tasks share the printer.                   *)
(***************************************************************************)
THEOREM RefusalSendsNothing == Spec => []RefusedSentNothing
<1>1. CallsInv => RefusedSentNothing
  BY DEF CallsInv, RefusedSentNothing
<1> QED BY InitInv, NextInv, <1>1, PTL DEF Spec

(***************************************************************************)
(* The EPC returned is the EPC in the job.                                 *)
(***************************************************************************)
THEOREM EncodesWhatIsReturned == Spec => []ReturnsWhatItEncodes
<1>1. CallsInv => ReturnsWhatItEncodes
  BY DEF CallsInv, ReturnsWhatItEncodes, Encodes
<1> QED BY InitInv, NextInv, <1>1, PTL DEF Spec

(***************************************************************************)
(* A socket that closed unbroken has handed over to the kernel every job   *)
(* whose call returned, each once and in the order of the calls; a call on *)
(* a printer entered again, which can write nothing, never returns.        *)
(***************************************************************************)
THEOREM LabelsHandedOver == Spec => []LeavingHandsAllOver
<1>1. SocketInv /\ CallsInv => LeavingHandsAllOver
  <2> SUFFICES ASSUME SocketInv, CallsInv PROVE LeavingHandsAllOver
    OBVIOUS
  <2>1. DOMAIN wire = 1..Len(wire)
    BY DEF SocketInv
  <2>2. ASSUME transport = "closed", Kept, NEW o \in outcome, o.raised = ""
        PROVE  \E i \in DOMAIN wire : wire[i].call = o.call
    <3>1. PICK job \in Jobs : job.call = o.call
      BY <2>2 DEF CallsInv
    <3>2. buffer = <<>>
      BY <2>2 DEF SocketInv
    <3> QED BY <3>1, <3>2 DEF Jobs
  <2>3. \A i, k \in DOMAIN wire : i < k => wire[i].call < wire[k].call
    BY <2>1 DEF SocketInv
  <2> QED BY <2>2, <2>3 DEF LeavingHandsAllOver, Kept
<1> QED BY InitInv, NextInv, <1>1, PTL DEF Spec
=============================================================================
