--------------------------- MODULE SyncProperties ---------------------------
(***************************************************************************)
(* What the synchronisation engine of module SyncEngine promises.          *)
(***************************************************************************)
EXTENDS SyncEngine

(***************************************************************************)
(* The period considered is no longer than the lookback of a cold start,   *)
(* so that the first sync of an instrument reaches back to day 1.          *)
(***************************************************************************)
ASSUME PeriodAssumption == MaxDay <= Lookback

(* Every variable keeps its type: in particular no watermark outside the   *)
(* calendar is ever stored, whatever window an operator backfills.         *)
TypeOK ==
    /\ day \in Days /\ eod \in BOOLEAN
    /\ active \subseteq Instruments
    /\ bars \in [Instruments -> [Days -> Quality]]
    /\ wm \in [Instruments -> 0..MaxDay]
    /\ row \in [Instruments -> [busy : BOOLEAN, err : BOOLEAN]]
    /\ up \in BOOLEAN
    /\ job \in [Jobs -> Job]
    /\ tasks \subseteq Task
    /\ faults \in 0..MaxFaults
    /\ asked \in [Instruments -> SUBSET Days]
    /\ lost \subseteq Instruments

-----------------------------------------------------------------------------
(* Safety of every run, backfills included.                                *)

(***************************************************************************)
(* The watermark is the newest stored bar, in every state: whatever the    *)
(* order in which overlapping runs, orphaned handlers and backfill chunks  *)
(* commit, last_synced_ts never names a day without a bar and no bar lies  *)
(* beyond it (one transaction for both tables, GREATEST in                 *)
(* mark_sync_success).                                                     *)
(***************************************************************************)
WatermarkIsNewestBar ==
    \A i \in Instruments :
        /\ wm[i] # NoDate => bars[i][wm[i]] # "none"
        /\ \A d \in Days : bars[i][d] # "none" => d <= wm[i]

(***************************************************************************)
(* A row that reads as in progress has a handler between its start mark    *)
(* and its end mark, unless a crash or an unexpected exception killed one: *)
(* each of the four ways out of _handle_one closes the row.                *)
(***************************************************************************)
BusyRowsAreWorkedOn ==
    \A i \in Instruments : row[i].busy =>
        i \in lost \/ \E t \in tasks : t.inst = i /\ t.st # "queued"

(***************************************************************************)
(* The store only grows: no step of a stale task, a second run or a        *)
(* restart removes a bar or moves a watermark back.                        *)
(***************************************************************************)
NeverMovesBack ==
    [][\A i \in Instruments :
         /\ wm[i] <= wm'[i]
         /\ \A d \in Days : bars[i][d] # "none" => bars'[i][d] # "none"]_vars

-----------------------------------------------------------------------------
(* Safety of the daemon and "run --once", as long as nobody backfills.     *)

(***************************************************************************)
(* No gap behind the watermark: every session up to it was asked for by    *)
(* some fetch that was stored.  Plans are made from a watermark read       *)
(* earlier and land in any order, next to other runs' plans, after crashes *)
(* and after exceptions; still the watermark never jumps over a session    *)
(* that planning would then not look at again.                             *)
(***************************************************************************)
NoSilentGap ==
    \A i \in Instruments : \A d \in Sessions[ExchangeOf[i]] :
        d <= wm[i] => d \in asked[i]

(***************************************************************************)
(* No half-formed bar is ever stored: the ceiling is computed from the     *)
(* clock when the run turns to an exchange, the provider is asked at any   *)
(* later time, and in between other exchanges may take hours.              *)
(***************************************************************************)
NoHalfFormedBar ==
    \A i \in Instruments, d \in Days : bars[i][d] # "partial"

-----------------------------------------------------------------------------
(* Why: the inductive invariants behind the four properties above.         *)

(* A run under way has an exchange to work on.                             *)
RunsHaveExchange ==
    \A j \in Jobs : job[j].st \in {"plan", "match", "batch"} => job[j].todo # << >>

(* Fetched rows lie in their task's window and end with the day "last".    *)
FetchedRowsFit ==
    \A t \in tasks : t.st = "fetched" =>
        /\ t.last \in Days /\ t.rows[t.last] # "none"
        /\ \A d \in Days : t.rows[d] # "none" => t.frm <= d /\ d <= t.last

(* Session d is over: its bar does not move any more.                      *)
IsFinal(d) == d < day \/ (d = day /\ eod)

(***************************************************************************)
(* Ceilings and windows reach finalised sessions only, from the moment the *)
(* plan is made until the last stale task has landed.                      *)
(***************************************************************************)
CeilingsAreFinal ==
    /\ \A j \in Jobs : job[j].st \in {"plan", "match"} => IsFinal(job[j].through)
    /\ \A t \in tasks : IsFinal(t.to) /\ \A d \in Days : t.rows[d] # "partial"

(* No plan in flight, however stale, starts beyond the next day wanted.    *)
PlansReachBack == \A t \in tasks : t.frm <= wm[t.inst] + 1

(* The days accounted for are exactly those up to the watermark.           *)
AskedUpToWatermark == \A i \in Instruments : asked[i] = 1..wm[i]

(***************************************************************************)
(* Nothing is planned behind the reader's back: whatever is in flight, was *)
(* killed or is stale, the next watermark continues the present one.       *)
(***************************************************************************)
SyncInvariant ==
    /\ RunsHaveExchange /\ FetchedRowsFit /\ WatermarkIsNewestBar
    /\ CeilingsAreFinal /\ NoHalfFormedBar
    /\ PlansReachBack /\ AskedUpToWatermark

-----------------------------------------------------------------------------
(* Liveness.                                                               *)

Behind(i) ==
    /\ i \in active
    /\ \E d \in Sessions[ExchangeOf[i]] :
         wm[i] < d /\ d <= ExpectedSession(ExchangeOf[i])

StepOf(j, i, g) ==
    \E t \in tasks : t.job = j /\ t.inst = i /\ t.gen = g /\ TaskStep(t)

ServesAll(j, i) ==
    \E t \in tasks :
        /\ t.job = j /\ t.inst = i
        /\ \E last \in Available(t) : FetchRows(t, Available(t), last)

(***************************************************************************)
(* asyncio resumes every coroutine that can go on; an exited process ends  *)
(* and a stopped daemon is started again.                                  *)
(***************************************************************************)
Scheduling ==
    /\ \A j \in Jobs : WF_vars(JobStep(j)) /\ WF_vars(ExitCli(j))
    /\ \A j \in Jobs, i \in Instruments, g \in 0..MaxFaults : WF_vars(StepOf(j, i, g))
    /\ WF_vars(DaemonStarts)

(***************************************************************************)
(* Every trigger keeps firing, and a provider that is asked again and      *)
(* again for an instrument's window now and then serves all of it.         *)
(***************************************************************************)
Retrying ==
    /\ \A j \in Jobs : WF_vars(StartSync(j))
    /\ \A j \in Jobs, i \in Instruments : SF_vars(ServesAll(j, i))

FairSyncSpec == SyncSpec /\ Scheduling

(***************************************************************************)
(* Every run ends, whatever its handlers meet: nobody waits forever for    *)
(* the semaphore, for gather, or for the next exchange.                    *)
(***************************************************************************)
RunsEnd == \A j \in Jobs : job[j].st # "idle" ~> job[j].st = "idle"

(***************************************************************************)
(* A gap heals: an instrument behind its last finalised session gets there *)
(* by incremental syncs alone, through failures, crashes and exceptions,   *)
(* as long as the triggers and the provider do their part (Retrying).      *)
(***************************************************************************)
GapsHeal == Retrying => \A i \in Instruments : Behind(i) ~> ~Behind(i)

-----------------------------------------------------------------------------
(* What the documentation claims and the code does not keep.               *)

(***************************************************************************)
(* repositories.py (mark_sync_success): the watermark keeps the highest    *)
(* date "so the column is monotonic and incremental planning is correct".  *)
(* When the failure of a backfill chunk is recorded, the sessions it       *)
(* should have brought still lie beyond the watermark, where the next plan *)
(* begins.                                                                 *)
(***************************************************************************)
FailedChunksAreReplanned ==
    [][\A t \in tasks : MarkError(t) =>
         \A d \in TradingDays(ExchangeOf[t.inst], t.frm, t.to) :
             d <= wm[t.inst] => d \in asked[t.inst]]_vars

(***************************************************************************)
(* daemon.py: the catch-up recognises the gap of a missed sync and heals   *)
(* it at once.  If it decides that there is nothing to do, and nothing     *)
(* else is under way, then no instrument whose sync was cut off by a crash *)
(* is behind (a cold instrument is left to the cron on purpose).           *)
(***************************************************************************)
CatchUpSeesGaps ==
    [][\A j \in Jobs :
         /\ job[j].st = "decide" /\ job'[j].st = "idle" /\ up'
         /\ tasks = {} /\ \A k \in Jobs \ {j} : job[k].st = "idle"
         => \A i \in lost : wm[i] # NoDate => ~Behind(i)]_vars
=============================================================================
