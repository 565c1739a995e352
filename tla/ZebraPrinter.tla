---------------------------- MODULE ZebraPrinter ----------------------------
(***************************************************************************)
(* omnitag/printers/zebra.py: one connection to a label printer, entered   *)
(* and left by its owner, and tasks that encode labels through it.  The    *)
(* socket is external, as asyncio's StreamWriter behaves: write buffers,   *)
(* drain waits while much is buffered, and close waits until the kernel    *)
(* has what is buffered.  What becomes of a job from there on, on the      *)
(* network and in the printer, the program is never told.  Of an injected  *)
(* transport only send and close are known: its close may drop all.        *)
(***************************************************************************)
EXTENDS Zpl

CONSTANTS
    Tasks,      \* who prints
    Requests,   \* what they call encode_epc with
    MaxCalls    \* bound: how many calls there are

ASSUME ZebraAssumption == MaxCalls \in Nat

VARIABLES
    host,       \* whether the printer was constructed with a host
    injected,   \* whether it was constructed with a transport
    scope,      \* where the owner is in its async with
    transport,  \* _transport: none, or a socket's state
    broken,     \* the connection was lost
    buffer,     \* jobs written that the program still holds, oldest first
    wire,       \* history: jobs handed over to the kernel, in order
    at,         \* what each task does
    calls,      \* how many calls there were
    outcome     \* history: [call, epc, raised] of each call that is over

made == <<host, injected>>
socket == <<transport, broken, buffer, wire>>
vars == <<made, scope, socket, at, calls, outcome>>

Idle == [state |-> "idle"]

Init ==
    /\ host \in BOOLEAN /\ injected \in BOOLEAN
    /\ scope = "out"
    /\ transport = IF injected THEN "open" ELSE "none"
    /\ broken = FALSE
    /\ buffer = <<>>
    /\ wire = <<>>
    /\ at = [t \in Tasks |-> Idle]
    /\ calls = 0
    /\ outcome = {}

-----------------------------------------------------------------------------
(* The owner. *)

\* open_connection succeeds; when it raises, nothing has changed.
Connect ==
    /\ scope = "out"
    /\ transport = "none" /\ host
    /\ scope' = "in"
    /\ transport' = "open"
    /\ UNCHANGED <<made, broken, buffer, wire, at, calls, outcome>>

\* A transport that is there is used: injected, or left behind, and then closed.
EnterWithTransport ==
    /\ scope = "out"
    /\ transport # "none"
    /\ scope' = "in"
    /\ UNCHANGED <<made, socket, at, calls, outcome>>

\* The transport is closed, and what it still holds is dropped.
Aborts == transport' = "closed" /\ buffer' = <<>>

\* The transport goes on until what it still holds is handed over.
ClosesFlushing ==
    /\ transport' = IF buffer = <<>> THEN "closed" ELSE "closing"
    /\ buffer' = buffer

\* Bug: the socket is aborted instead of closed.
BugCloseAborts ==
    /\ scope = "in"
    /\ scope' = "leaving"
    /\ Aborts
    /\ UNCHANGED <<made, broken, wire, at, calls, outcome>>

\* __aexit__ closes the transport.
Close ==
    /\ scope = "in"
    /\ scope' = "leaving"
    /\ ClosesFlushing \/ (injected /\ Aborts)
    /\ UNCHANGED <<made, broken, wire, at, calls, outcome>>

\* wait_closed returns, or raises what broke the connection.
Left ==
    /\ scope = "leaving"
    /\ transport = "closed"
    /\ scope' = "out"
    /\ UNCHANGED <<made, socket, at, calls, outcome>>

-----------------------------------------------------------------------------
(* encode_epc and print_zpl. *)

Over(n, epc, raised) == outcome' = outcome \union {[call |-> n, epc |-> epc, raised |-> raised]}

Sends == transport \in {"open", "closing"} /\ ~broken

\* StreamWriter.write: once closed, what is written is dropped.
Written(job) == buffer' = IF Sends THEN Append(buffer, job) ELSE buffer

\* Bug: the setup goes out before the EPC is looked at.
BugRefuse(n, job) ==
    /\ "error" \in DOMAIN job
    /\ Over(n, <<>>, job.error)
    /\ Written([call |-> n, epc |-> <<>>, barcode |-> {}, bank |-> "E"])
    /\ at' = at

\* The job cannot be built.
Refuse(n, job) ==
    /\ "error" \in DOMAIN job
    /\ Over(n, <<>>, job.error)
    /\ UNCHANGED <<buffer, at>>

\* The assertion of _send.
NotConnected(n, job) ==
    /\ "error" \notin DOMAIN job
    /\ transport = "none"
    /\ Over(n, <<>>, "AssertionError")
    /\ UNCHANGED <<buffer, at>>

Write(t, n, job, returned) ==
    /\ "error" \notin DOMAIN job
    /\ transport # "none"
    /\ Written([call |-> n, epc |-> job.epc, barcode |-> job.barcode, bank |-> job.bank])
    /\ at' = [at EXCEPT ![t] = [state |-> "draining", call |-> n, epc |-> returned, sent |-> Sends]]
    /\ outcome' = outcome

\* _send with what building the job gave.
Submit(t, job, returned) ==
    /\ at[t] = Idle
    /\ calls < MaxCalls
    /\ calls' = calls + 1
    /\ Refuse(calls', job) \/ NotConnected(calls', job) \/ Write(t, calls', job, returned)
    /\ UNCHANGED <<made, scope, transport, broken, wire>>

EncodeEpc(t) == \E q \in Requests : Submit(t, BuildEncode(q), NormalizeEpc(q.epc))

\* Any text, which may not be ASCII.
PrintZpl(t) ==
    \E job \in {UnicodeEncodeError, [epc |-> <<>>, barcode |-> {}, bank |-> "raw"]} :
        Submit(t, job, <<>>)

EndsDraining(t, epc, raised) ==
    /\ at[t].state = "draining"
    /\ Over(at[t].call, epc, raised)
    /\ at' = [at EXCEPT ![t] = Idle]
    /\ UNCHANGED <<made, scope, socket, calls>>

\* drain returns, and encode_epc returns the EPC.
Drained(t) == EndsDraining(t, at[t].epc, "") /\ at[t].sent /\ ~broken

\* drain raises: the connection is gone, by a fault or by the close.
DrainRaises(t) ==
    EndsDraining(t, <<>>, "ConnectionResetError") /\ (broken \/ transport = "closed")

\* The task is cancelled in the drain; its job stays written.
Cancelled(t) == EndsDraining(t, <<>>, "CancelledError")

-----------------------------------------------------------------------------
(* The kernel takes a job; the connection is lost with all that is buffered. *)

HandOver ==
    /\ buffer # <<>>
    /\ wire' = Append(wire, Head(buffer))
    /\ buffer' = Tail(buffer)
    /\ transport' = IF transport = "closing" /\ Tail(buffer) = <<>> THEN "closed" ELSE transport
    /\ UNCHANGED <<made, scope, broken, at, calls, outcome>>

Break ==
    /\ transport \in {"open", "closing"}
    /\ ~broken
    /\ broken' = TRUE
    /\ buffer' = <<>>
    /\ transport' = IF transport = "closing" THEN "closed" ELSE transport
    /\ UNCHANGED <<made, scope, wire, at, calls, outcome>>

Owner == Connect \/ EnterWithTransport \/ Close \/ Left
Task(t) == EncodeEpc(t) \/ PrintZpl(t) \/ Drained(t) \/ DrainRaises(t) \/ Cancelled(t)
Next == Owner \/ HandOver \/ Break \/ \E t \in Tasks : Task(t)

Spec == Init /\ [][Next]_vars

-----------------------------------------------------------------------------
Jobs == {buffer[i] : i \in DOMAIN buffer} \union {wire[i] : i \in DOMAIN wire}

Refusals == {"ZPLError", "UnicodeEncodeError", "AssertionError"}

(***************************************************************************)
(* encode_epc raises on bad input "before anything is sent" (zebra.py,     *)
(* docs/printers.md): a call that was refused has left no job, or part of  *)
(* one, on the connection that other tasks use.                            *)
(***************************************************************************)
RefusedSentNothing ==
    \A o \in outcome : o.raised \in Refusals => \A j \in Jobs : j.call # o.call

(***************************************************************************)
(* The EPC that encode_epc returns is what the job of that call writes to  *)
(* the tag and prints as a bar code, and has as many characters as its     *)
(* bank takes digits.  (That each is a digit is EncodesCleanHex below.)    *)
(***************************************************************************)
ReturnsWhatItEncodes ==
    \A o \in outcome : o.raised = "" => \A j \in Jobs : j.call = o.call =>
        /\ j.epc = o.epc
        /\ j.barcode \subseteq {o.epc}
        /\ j.bank = "E" => Len(o.epc) = EPC96_HEX_LEN

(***************************************************************************)
(* An EPC is returned only for a job that is on its way, and leaving waits *)
(* for it: once a socket is closed, and unless the program was told that   *)
(* the connection was lost, each job whose call returned was handed over   *)
(* to the kernel, once and in the order of the calls.  A call made on a    *)
(* printer that was entered again, whose transport is closed, wrote        *)
(* nothing, so that it cannot have returned.  That the printer prints what *)
(* the kernel has is not said: close and wait_closed do not wait for it.   *)
(***************************************************************************)
LeavingHandsAllOver ==
    /\ transport = "closed" /\ ~broken /\ ~injected =>
           \A o \in outcome : o.raised = "" => \E i \in DOMAIN wire : wire[i].call = o.call
    /\ \A i, k \in DOMAIN wire : i < k => wire[i].call < wire[k].call

(***************************************************************************)
(* zpl.py:46 says that normalize_epc returns "clean uppercase hex": what a *)
(* job writes to the tag is made of hex digits only.                       *)
(***************************************************************************)
EncodesCleanHex == \A j \in Jobs : \A i \in DOMAIN j.epc : j.epc[i] = "hex"
=============================================================================
