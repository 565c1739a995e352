--------------------------- MODULE MCZebraPrinter ---------------------------
(* ZebraPrinter on a small instance; the bounds are in the .cfg files. *)
EXTENDS ZebraPrinter, TLC

\* White space around, between and within pairs of digits, ASCII or not, an odd
\* digit, no digit, another character; and what the 96-bit bank has no room for.
MCTexts ==
    LET h == "hex" b == "blank" t == "tab" n == "nbsp"
    IN {<<h, h, h, h>>, <<b, h, b, h, h, h, t>>, <<h, h, h, t, h>>, <<h, h, h>>,
        <<b, t>>, <<h, "other">>, <<h, h>>, <<h, h, t, t>>, <<n, h, h, h, h, n>>,
        <<h, h, n, n>>, <<h, h, n, n, h, h>>}
MCEpcs == {[bytes |-> FALSE, chars |-> s] : s \in MCTexts} \union {[bytes |-> TRUE, chars |-> <<"hex", "hex">>]}

Plain == [bank |-> "A", ascii |-> TRUE, barcode |-> FALSE, retry |-> {}, errorAction |-> {}]
Request(epc, options) == options @@ [epc |-> epc] @@ Plain

MCRequests ==
    LET four == [bytes |-> FALSE, chars |-> <<"hex", "hex", "hex", "hex">>]
    IN {Request(e, [bank |-> b, barcode |-> TRUE]) : e \in MCEpcs, b \in {"A", "E"}}
       \union {Request(four, o) : o \in
           {[retry |-> {10}], [retry |-> {0}], [retry |-> {11}], [errorAction |-> {"P"}],
            [errorAction |-> {"X"}], [ascii |-> FALSE]}}

\* Two tabs between two pairs of digits.
MCTabRequests ==
    {Request([bytes |-> FALSE, chars |-> <<"hex", "hex", "tab", "tab", "hex", "hex">>], [bank |-> b]) :
        b \in {"A", "E"}} \union MCRequests

Symmetry == Permutations(Tasks)
=============================================================================
