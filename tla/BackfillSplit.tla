--------------------------- MODULE BackfillSplit ----------------------------
(***************************************************************************)
(* The loop of split_backfill in chronosync/sync/planner.py, one iteration *)
(* per step, started on any window and any positive chunk length.          *)
(***************************************************************************)
EXTENDS Integers, Sequences

CONSTANTS
    Dates,          \* the dates a window may start or end on
    BatchSizes      \* the values of settings.sync.backfill_batch_days

ASSUME DatesAssumption == Dates \subseteq Int
ASSUME BatchSizesAssumption == BatchSizes \subseteq Nat \ {0}

VARIABLES
    frm, to, batch_days,    \* the arguments, never assigned
    cursor,                 \* start of the next chunk
    out                     \* the chunks cut so far

vars == <<frm, to, batch_days, cursor, out>>

Chunk == [frm : Int, to : Int]

Init ==
    /\ frm \in Dates /\ to \in Dates
    /\ batch_days \in BatchSizes
    /\ cursor = frm
    /\ out = << >>

(* "if frm > to: return []" needs no step of its own: the loop's condition *)
(* is false at once.                                                       *)
CutChunk_LeavesASeam ==     \* mutant: a day between two chunks is left out
    /\ cursor <= to
    /\ LET full == cursor + batch_days - 1
           end  == IF full < to THEN full ELSE to
       IN  /\ out' = Append(out, [frm |-> cursor, to |-> end])
           /\ cursor' = end + 2
    /\ UNCHANGED <<frm, to, batch_days>>

CutChunk ==
    /\ cursor <= to
    /\ LET full == cursor + batch_days - 1
           end  == IF full < to THEN full ELSE to
       IN  /\ out' = Append(out, [frm |-> cursor, to |-> end])
           /\ cursor' = end + 1
    /\ UNCHANGED <<frm, to, batch_days>>

Next == CutChunk

Spec == Init /\ [][Next]_vars

-----------------------------------------------------------------------------

(* The loop's variables keep their types: dates and a list of windows.     *)
TypeOK ==
    /\ frm \in Int /\ to \in Int /\ cursor \in Int
    /\ batch_days \in Nat \ {0}
    /\ out \in Seq(Chunk)

Done == cursor > to

(***************************************************************************)
(* split_backfill's promise: the chunks, in the order of the list, are     *)
(* back to back from the window's first day, none is empty or longer than  *)
(* batch_days, and none reaches past the window; when the loop ends they   *)
(* cover the window, so a window of several years is fetched without a     *)
(* seam and without a day fetched twice.                                   *)
(***************************************************************************)
BackToBack ==
    /\ \A k \in 1..Len(out) :
         /\ out[k].frm = IF k = 1 THEN frm ELSE out[k - 1].to + 1
         /\ out[k].frm <= out[k].to
         /\ out[k].to - out[k].frm < batch_days
         /\ out[k].to <= to
    /\ cursor = IF out = << >> THEN frm ELSE out[Len(out)].to + 1

ChunksTileWindow ==
    /\ BackToBack
    /\ Done => IF frm > to THEN out = << >>
                           ELSE out # << >> /\ out[Len(out)].to = to

(* The planner's operator needs no calendar here.                          *)
P == INSTANCE Planner WITH Exchanges <- {}, Sessions <- << >>, Lookback <- 0

(***************************************************************************)
(* The loop of split_backfill and the set of chunks that SyncEngine plans  *)
(* a backfill with are the same for every window and chunk length.         *)
(***************************************************************************)
LoopIsSplitBackfill ==
    Done => {out[k] : k \in 1..Len(out)} = P!SplitBackfill(frm, to, batch_days)
=============================================================================
