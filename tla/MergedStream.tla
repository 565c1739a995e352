---------------------------- MODULE MergedStream ----------------------------
(***************************************************************************)
(* What Fleet.stream promises, without its queue and its tasks: one stream *)
(* that carries every tag of every driver, each driver's in its order, and *)
(* that ends only when all drivers have ended and every tag was delivered, *)
(* with an exception exactly when some driver failed.  The program may     *)
(* close it earlier.                                                       *)
(***************************************************************************)
EXTENDS Naturals

CONSTANT Drivers

VARIABLES
    produced,   \* how many tags each driver has yielded
    delivered,  \* how many of them the stream has yielded
    running,    \* the drivers that have not ended
    failed,     \* the drivers that ended by an exception
    status      \* "open", or how the stream ended

vars == <<produced, delivered, running, failed, status>>

Init ==
    /\ produced = [d \in Drivers |-> 0]
    /\ delivered = [d \in Drivers |-> 0]
    /\ running = Drivers
    /\ failed = {}
    /\ status = "open"

Produce(d) ==
    /\ status = "open"
    /\ d \in running
    /\ produced' = [produced EXCEPT ![d] = @ + 1]
    /\ UNCHANGED <<delivered, running, failed, status>>

End(d) ==
    /\ d \in running
    /\ running' = running \ {d}
    /\ failed' \in {failed, failed \union {d}}
    /\ UNCHANGED <<produced, delivered, status>>

Deliver(d) ==
    /\ status = "open"
    /\ delivered[d] < produced[d]
    /\ delivered' = [delivered EXCEPT ![d] = @ + 1]
    /\ UNCHANGED <<produced, running, failed, status>>

Finish ==
    /\ status = "open"
    /\ running = {}
    /\ delivered = produced
    /\ status' = IF failed = {} THEN "finished" ELSE "raised"
    /\ UNCHANGED <<produced, delivered, running, failed>>

Close ==
    /\ status = "open"
    /\ status' \in {"closed", "refused"}
    /\ UNCHANGED <<produced, delivered, running, failed>>

Next ==
    \/ Finish
    \/ Close
    \/ \E d \in Drivers : Produce(d) \/ End(d) \/ Deliver(d)

Spec == Init /\ [][Next]_vars
=============================================================================
