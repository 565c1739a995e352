--------------------------- MODULE DropOldestFifo ---------------------------
(***************************************************************************)
(* What the hand-off of a ThreadedDriver promises the program that drains  *)
(* it: one channel, first in first out, closed by its last item, that      *)
(* forgets its oldest item, and only when more than Limit items are        *)
(* waiting in it.  Limit = 0 is asyncio's unbounded queue: nothing is ever *)
(* forgotten.                                                              *)
(***************************************************************************)
EXTENDS Naturals, Sequences

CONSTANTS
    Item,   \* what may be sent
    Last,   \* the item that closes the channel
    Limit   \* how many items the channel may hold for a slow receiver

VARIABLES
    chan,    \* the items sent, neither received nor forgotten
    taken,   \* the items received, in order
    closed   \* Last was sent

vars == <<chan, taken, closed>>

Init ==
    /\ chan = <<>>
    /\ taken = <<>>
    /\ closed = FALSE

Send(x) ==
    /\ ~closed
    /\ chan' = Append(chan, x)
    /\ closed' = (x \in Last)
    /\ taken' = taken

Forget ==
    /\ Limit > 0
    /\ Len(chan) > Limit
    /\ chan' = Tail(chan)
    /\ UNCHANGED <<taken, closed>>

Receive ==
    /\ chan # <<>>
    /\ taken' = Append(taken, Head(chan))
    /\ chan' = Tail(chan)
    /\ closed' = closed

Next == Forget \/ Receive \/ \E x \in Item : Send(x)

Spec == Init /\ [][Next]_vars
=============================================================================
