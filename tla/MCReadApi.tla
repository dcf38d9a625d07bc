----------------------------- MODULE MCReadApi ------------------------------
(* Small instances of ReadApi for TLC.                                     *)
EXTENDS ReadApi

(* The bars of one instrument: one row per date.                           *)
DistinctKeys == [r \in Rows |-> r]

(* Instruments, rows 2 and 3 with one ticker on two exchanges.             *)
SharedKeys == [r \in Rows |-> IF r <= 2 THEN r ELSE r - 1]
=============================================================================
