------------------------------ MODULE Listings ------------------------------
(***************************************************************************)
(* What the seeders promise to everyone who asks for the active            *)
(* instruments, with nothing said of downloads, transactions, locks or     *)
(* faults: an exchange's listing changes at once, from one published       *)
(* archive to another.                                                     *)
(***************************************************************************)
CONSTANTS Instruments, Exchanges, ExchangeOf, Days, Archive

VARIABLES
    status,     \* of each instrument: "unknown", "listed" or "delisted"
    published   \* the archives that are out, pairs of an exchange and a day

vars == <<status, published>>

Init ==
    /\ status = [i \in Instruments |-> "unknown"]
    /\ published = {}

Publish ==
    /\ published' \in SUBSET (Exchanges \X Days) /\ published \subseteq published'
    /\ status' = status

(* Nobody loses a row, and nobody of another exchange is touched.          *)
Adopt(ex, d) ==
    /\ <<ex, d>> \in published /\ Archive[ex][d] # {}
    /\ status' = [i \in Instruments |->
                    IF ExchangeOf[i] # ex THEN status[i]
                    ELSE IF i \in Archive[ex][d] THEN "listed"
                    ELSE IF status[i] = "listed" THEN "delisted" ELSE status[i]]
    /\ published' = published

Next == Publish \/ \E ex \in Exchanges, d \in Days : Adopt(ex, d)

Spec == Init /\ [][Next]_vars
=============================================================================
