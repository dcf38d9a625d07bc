------------------------------ MODULE Planner -------------------------------
(***************************************************************************)
(* The windows planned by chronosync/sync/planner.py, as pure operators.   *)
(* NoDate stands for a NULL last_synced_ts.                                *)
(***************************************************************************)
EXTENDS Calendar

CONSTANT Lookback   \* default_lookback_days: how far back a cold start reaches

ASSUME LookbackAssumption == Lookback \in Nat

NoDate == 0

(***************************************************************************)
(* build_tasks: the first day still to be fetched, given the watermark and *)
(* the fetch ceiling "today"; an instrument is due when some session lies  *)
(* in between.                                                             *)
(***************************************************************************)
FirstMissing_SkipsADay(last, today) ==     \* mutant: one day too far
    IF last # NoDate THEN last + 2 ELSE today - Lookback

FirstMissing(last, today) ==
    IF last # NoDate THEN last + 1 ELSE today - Lookback

Due_NotToday(ex, last, today) ==           \* mutant: the ceiling left out
    TradingDays(ex, FirstMissing(last, today), today - 1) # {}

Due(ex, last, today) ==
    TradingDays(ex, FirstMissing(last, today), today) # {}

(***************************************************************************)
(* split_backfill: consecutive chunks of n days, the last one cut at "to". *)
(* Module BackfillSplit has the loop itself.                               *)
(***************************************************************************)
SplitBackfill(frm, to, n) ==
    {[frm |-> s, to |-> IF s + n - 1 < to THEN s + n - 1 ELSE to] :
        s \in {d \in frm..to : (d - frm) % n = 0}}
=============================================================================
