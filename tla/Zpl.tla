-------------------------------- MODULE Zpl --------------------------------
(***************************************************************************)
(* omnitag/printers/zpl.py: what build_encode accepts, and what of it      *)
(* stands in the job.  Of a character the model knows its class: a hex     *)
(* digit, a blank, another white space of ASCII (tab), white space beyond  *)
(* ASCII (nbsp), or anything else.  An optional argument is a set, empty   *)
(* for None.  What the code raises is returned.                            *)
(***************************************************************************)
EXTENDS Naturals, Sequences, FiniteSets

CONSTANT EPC96_HEX_LEN   \* how many hex digits the 96-bit bank writes: 24

ASSUME HexLenAssumption == EPC96_HEX_LEN \in Nat

Char == {"hex", "blank", "tab", "nbsp", "other"}
ErrorActions == {"N", "P", "E"}

ZPLError == [error |-> "ZPLError"]
UnicodeEncodeError == [error |-> "UnicodeEncodeError"]

\* str.strip takes white space of any kind off both ends.
Strip(text) ==
    LET ink == {i \in DOMAIN text : text[i] \notin {"blank", "tab", "nbsp"}}
    IN SelectSeq([i \in DOMAIN text |-> <<i, text[i]>>],
                 LAMBDA p : \E i, j \in ink : i <= p[1] /\ p[1] <= j)

\* bytes.fromhex takes pairs of digits, with white space of ASCII between the pairs.
FromHexTakes(text) ==
    LET Even(i) == Cardinality({j \in 1..i : text[j] = "hex"}) % 2 = 0
    IN /\ \A i \in DOMAIN text : text[i] = "hex" \/ (text[i] = "tab" /\ Even(i))
       /\ Even(Len(text))

\* An EPC is [bytes, chars]; the hex of bytes is two digits for each.
NormalizeEpc(epc) ==
    LET stripped == Strip(epc.chars)
        clean == SelectSeq([i \in DOMAIN stripped |-> stripped[i][2]], LAMBDA c : c # "blank")
    IN IF epc.bytes THEN epc.chars
       ELSE IF clean = <<>> \/ Len(clean) % 2 # 0 \/ ~FromHexTakes(clean) THEN ZPLError
       ELSE clean

\* The ^RS setup: whether its retry count and its error action are legal.
RsTakes(q) == q.retry \subseteq 1..10 /\ q.errorAction \subseteq ErrorActions

\* Bug: the length of the EPC is not compared with the bank's.
BugBankTakes(q, epcHex) == TRUE

BankTakes(q, epcHex) == q.bank = "E" => Len(epcHex) = EPC96_HEX_LEN

\* A request q is what encode_epc is called with.  The EPC stands in the job
\* as the field to write and, if asked for, as a bar code.
BuildEncode(q) ==
    LET epcHex == NormalizeEpc(q.epc)
    IN IF epcHex = ZPLError \/ ~BankTakes(q, epcHex) \/ ~RsTakes(q) THEN ZPLError
       ELSE IF ~q.ascii THEN UnicodeEncodeError
       ELSE [epc |-> epcHex, barcode |-> IF q.barcode THEN {epcHex} ELSE {}, bank |-> q.bank]
=============================================================================
