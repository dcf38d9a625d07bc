--------------------------- MODULE SyncRefinement ---------------------------
(* The synchronisation engine, without backfills, implements the ledger.   *)
EXTENDS SyncProperties

Ledger == INSTANCE SyncLedger

(***************************************************************************)
(* Every committed transaction of the worker is one entry of the ledger,   *)
(* and no other step of jobs, tasks, clock or faults touches it.           *)
(***************************************************************************)
KeepsLedger == Ledger!Spec
=============================================================================
