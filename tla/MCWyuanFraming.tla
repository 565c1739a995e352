--------------------------- MODULE MCWyuanFraming ---------------------------
(* WyuanFraming on a small instance; the bounds are in the .cfg file. *)
EXTENDS WyuanFraming

\* One plain reader, one of 16 antennas that asks for the TID, one option out of range.
MCOptions ==
    LET Driver(q, antenna, fastId, count) ==
            [qValue |-> q, session |-> 0, antenna |-> antenna, scanTime |-> 2,
             fastId |-> fastId, adr |-> 0, antennaCount |-> count]
    IN {Driver(4, 0, FALSE, 4), Driver(4, 3, TRUE, 16), Driver(16, 0, FALSE, 4)}

\* EPCs whose bytes can be taken for the length of a frame.
MCScans ==
    LET first  == [epc |-> <<226, 0>>, tid |-> [i \in 1..12 |-> 7]]
        second == [epc |-> <<4, 0>>, tid |-> [i \in 1..12 |-> 5]]
    IN {<<>>, <<second>>, <<first, second>>}

MCFlips == {{0}, 0..7}
=============================================================================
