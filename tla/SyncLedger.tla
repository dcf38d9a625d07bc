----------------------------- MODULE SyncLedger -----------------------------
(***************************************************************************)
(* What the synchronisation promises to the readers of the database, with  *)
(* nothing said of jobs, tasks, clocks or faults: for each instrument a    *)
(* ledger of final bars and a watermark, where every entry starts at or    *)
(* before the first day beyond the watermark.                              *)
(***************************************************************************)
EXTENDS Integers

CONSTANTS Instruments, MaxDay

VARIABLES
    bars,       \* what the readers see
    wm,         \* the newest day stored
    asked       \* the days accounted for, with or without a bar

vars == <<bars, wm, asked>>

Days == 1..MaxDay

Init ==
    /\ bars = [i \in Instruments |-> [d \in Days |-> "none"]]
    /\ wm = [i \in Instruments |-> 0]
    /\ asked = [i \in Instruments |-> {}]

(* Final bars for some of the days frm..last, the last one among them.     *)
Enter(i, frm, last) ==
    /\ frm <= wm[i] + 1
    /\ frm <= last
    /\ \E days \in SUBSET (frm..last) :
         /\ last \in days
         /\ bars' = [bars EXCEPT ![i] =
                       [d \in Days |-> IF d \in days THEN "final" ELSE bars[i][d]]]
    /\ wm' = [wm EXCEPT ![i] = IF wm[i] < last THEN last ELSE wm[i]]
    /\ asked' = [asked EXCEPT ![i] = asked[i] \cup frm..last]

Next == \E i \in Instruments : \E frm, last \in Days : Enter(i, frm, last)

Spec == Init /\ [][Next]_vars
=============================================================================
