----------------------------- MODULE SyncEngine -----------------------------
(***************************************************************************)
(* The synchronisation engine of chronosync: the daemon's three jobs that  *)
(* may run a sync (the EOD cron "sync_iteration", "catch_up_on_start" and  *)
(* "catch_up_periodic"), any number of CLI processes that run once or      *)
(* backfill, the planner and the worker, over the tables daily_bars and    *)
(* sync_state.                                                             *)
(*                                                                         *)
(* Every database transaction is one step (session_scope commits or rolls  *)
(* back), but for the planner's, whose two queries see two snapshots.      *)
(* Every await between two steps is a point where the other jobs, the      *)
(* other tasks, the clock and the faults may act.                          *)
(***************************************************************************)
EXTENDS Planner, FiniteSets, Sequences

CONSTANTS
    Instruments,    \* numbered in the order of their tickers
    ExchangeOf,     \* ExchangeOf[i]: the exchange instrument i is listed on
    ExchangeOrder,  \* settings.sync.exchanges, a sequence
    DaemonJobs,     \* which of the daemon's three jobs exist
    OnceRuns,       \* the processes "chronosync run --once"
    Backfills,      \* the processes "chronosync backfill"
    Concurrency,    \* settings.providers.yfinance_concurrency
    BatchDays,      \* settings.sync.backfill_batch_days
    EodParses,      \* FALSE: eod_cron has no plain minute and hour
    Windows,        \* the <<from, to>> windows an operator backfills
    Seeding,        \* TRUE: seeders change the universe meanwhile
    MaxDay,         \* bound on the clock
    MaxFaults       \* bound on crashes and unexpected exceptions

CliJobs == OnceRuns \cup Backfills
Jobs    == DaemonJobs \cup CliJobs

ASSUME InstrumentsAssumption ==
    Instruments \subseteq Nat /\ ExchangeOf \in [Instruments -> Exchanges]
ASSUME ExchangeOrderAssumption ==
    ExchangeOrder \in Seq(Exchanges) /\ ExchangeOrder # << >>
ASSUME JobsAssumption ==
    /\ DaemonJobs \subseteq
         {"sync_iteration", "catch_up_on_start", "catch_up_periodic"}
    /\ DaemonJobs \cap CliJobs = {} /\ OnceRuns \cap Backfills = {}
ASSUME SettingsAssumption ==
    /\ Concurrency \in Nat \ {0}
    /\ BatchDays \in Nat \ {0}
    /\ EodParses \in BOOLEAN /\ Seeding \in BOOLEAN
ASSUME BoundsAssumption == MaxDay \in Nat \ {0} /\ MaxFaults \in Nat
ASSUME WindowsAssumption == Windows \subseteq Int \X Int

Days    == 1..MaxDay
Quality == {"none", "partial", "final"}
NoRows  == [d \in Days |-> "none"]

-----------------------------------------------------------------------------
(* State.                                                                  *)

VARIABLES
    day, eod,   \* today, and whether the EOD sync time of today has passed
    active,     \* instruments.is_active
    bars,       \* daily_bars: bars[i][d] is absent, half-formed or final
    wm,         \* sync_state.last_synced_ts
    row,        \* the rest of sync_state: started after finished, error set
    up,         \* is the daemon process running?
    job,        \* the coroutine of each job
    tasks,      \* the FetchTasks handed to worker.run and not yet done
    faults,     \* how many faults have struck
    asked,      \* history: days inside the window of a stored fetch
    lost        \* history: a handler died between its start and end mark

clock == <<day, eod>>
store == <<bars, wm, row, asked, lost>>
vars  == <<day, eod, active, bars, wm, row, up, job, tasks, faults, asked, lost>>

JobStates  == {"idle", "read", "decide", "plan", "match", "batch", "exiting"}
TaskStates == {"queued", "started", "failed", "empty", "fetched"}

Job == [st : JobStates,
        todo : Seq(Exchanges),      \* exchanges left, the current one first
        through : Int,              \* fetch ceiling of the current exchange
        picked : SUBSET Instruments,    \* the instruments the planner found
        last : 0..MaxDay,           \* newest watermark, as the catch-up read it
        gen : 0..MaxFaults]         \* which batch is this job's

Task == [job : Jobs, gen : 0..MaxFaults,    \* the batch it belongs to
         inst : Instruments, frm : Int, to : Int,
         st : TaskStates,
         rows : [Days -> Quality],
         last : 0..MaxDay]                  \* rows[-1]["ts"]

At(st) == [st |-> st, todo |-> << >>, through |-> NoDate, picked |-> {},
           last |-> NoDate, gen |-> 0]

Idle == At("idle")

Listed(ex) == {i \in Instruments : ExchangeOf[i] = ex}

NewTask(j, i, frm, to) ==
    [job |-> j, gen |-> faults, inst |-> i, frm |-> frm, to |-> to,
     st |-> "queued", rows |-> NoRows, last |-> NoDate]

Batch(j) == {t \in tasks : t.job = j /\ t.gen = job[j].gen}

-----------------------------------------------------------------------------
(* What the daemon computes from the clock and the calendar.               *)

ExpectedSession_WhileOpen(ex) ==    \* mutant: today counts before EOD too
    IF IsTradingDay(ex, day) THEN day ELSE PrevTradingDay(ex, day)

(* The last finalised session of an exchange, also the fetch ceiling.      *)
ExpectedSession(ex) ==
    LET ref == IF EodParses /\ eod THEN day ELSE day - 1
    IN  IF IsTradingDay(ex, ref) THEN ref ELSE PrevTradingDay(ex, ref)

ExpectedLatest == Max({ExpectedSession(ex) : ex \in Range(ExchangeOrder)})

NewestWatermark == Max({NoDate} \cup {wm[i] : i \in Instruments})

(* A run starts, or goes on, with the first exchange of todo.              *)
Iterate(todo) ==
    [st |-> "plan", todo |-> todo, through |-> ExpectedSession(Head(todo)),
     picked |-> {}, last |-> NoDate, gen |-> 0]

-----------------------------------------------------------------------------
(* The clock.  Until EOD the provider's bar for today still moves.         *)

EodPasses == ~eod /\ eod' = TRUE /\ day' = day
Midnight  == eod /\ day < MaxDay /\ day' = day + 1 /\ eod' = FALSE

Tick ==
    /\ EodPasses \/ Midnight
    /\ UNCHANGED <<active, store, up, job, tasks, faults>>

-----------------------------------------------------------------------------
(* Jobs.  The scheduler never runs two instances of one job.               *)

Quiet == UNCHANGED <<clock, active, store, up, faults>>

MayStart(j) == job[j].st = "idle" /\ (j \in DaemonJobs => up)

StartSync(j) ==
    /\ j = "sync_iteration" \/ j \in OnceRuns
    /\ MayStart(j)
    /\ job' = [job EXCEPT ![j] = Iterate(ExchangeOrder)]
    /\ UNCHANGED tasks /\ Quiet

StartCatchUp(j) ==
    /\ j = "catch_up_periodic"
    /\ MayStart(j)
    /\ job' = [job EXCEPT ![j] = At("read")]
    /\ UNCHANGED tasks /\ Quiet

(* A cold database ends the catch-up.                                      *)
ReadWatermark(j) ==
    /\ job[j].st = "read"
    /\ job' = [job EXCEPT ![j] =
                IF NewestWatermark = NoDate THEN Idle
                ELSE [At("decide") EXCEPT !.last = NewestWatermark]]
    /\ UNCHANGED tasks /\ Quiet

DecideCatchUp(j) ==
    /\ job[j].st = "decide"
    /\ job' = [job EXCEPT ![j] =
                IF job[j].last >= ExpectedLatest THEN Idle
                ELSE Iterate(ExchangeOrder)]
    /\ UNCHANGED tasks /\ Quiet

(* build_tasks first lists the active instruments; none, no tasks.         *)
PickInstruments(j) ==
    /\ job[j].st = "plan"
    /\ LET found == active \cap Listed(Head(job[j].todo))
       IN  job' = [job EXCEPT ![j].st = IF found = {} THEN "batch" ELSE "match",
                              ![j].picked = found, ![j].gen = faults]
    /\ UNCHANGED tasks /\ Quiet

(* Then it reads their watermarks.                                         *)
BuildTasks(j) ==
    /\ job[j].st = "match"
    /\ LET ex    == Head(job[j].todo)
           today == job[j].through
       IN  tasks' = tasks \cup
             {NewTask(j, i, FirstMissing(wm[i], today), today) :
                i \in {k \in job[j].picked : Due(ex, wm[k], today)}}
    /\ job' = [job EXCEPT ![j].st = "batch", ![j].picked = {}, ![j].gen = faults]
    /\ Quiet

(* gather returned: the next exchange, or the end of the run.              *)
FinishBatch(j) ==
    /\ job[j].st = "batch"
    /\ Batch(j) = {}
    /\ job' = [job EXCEPT ![j] = IF Tail(job[j].todo) = << >> THEN Idle
                                 ELSE Iterate(Tail(job[j].todo))]
    /\ UNCHANGED tasks /\ Quiet

BackfillTasks(j, picked, w) ==
    {NewTask(j, p[1], p[2].frm, p[2].to) :
        p \in picked \X SplitBackfill(w[1], w[2], BatchDays)}

(* chronosync backfill: the operator's window, in chunks, with no ceiling. *)
StartBackfill(j) ==
    /\ j \in Backfills
    /\ MayStart(j)
    /\ \E ex \in Exchanges, w \in Windows :
         \E picked \in (SUBSET (active \cap Listed(ex))) \ {{}} :
           /\ w[1] <= w[2]
           /\ tasks' = tasks \cup BackfillTasks(j, picked, w)
           /\ job' = [job EXCEPT ![j] = 
                    [st |-> "batch", todo |-> <<ex>>, through |-> NoDate,
                     picked |-> {}, last |-> NoDate, gen |-> faults]]
    /\ Quiet

-----------------------------------------------------------------------------
(* The worker: _handle_one, one step per transaction and one per fetch.    *)

Before(t, u) == t.inst < u.inst \/ (t.inst = u.inst /\ t.frm < u.frm)

(* The semaphore is fair and the tasks queue up in list order, so it is    *)
(* held by the first Concurrency tasks that are not done.                  *)
Admitted(t) ==
    Cardinality({u \in tasks : u.job = t.job /\ u.gen = t.gen /\ Before(u, t)})
        < Concurrency

Becomes(t, u) == tasks' = (tasks \ {t}) \cup {u}

NoFault == UNCHANGED <<clock, active, up, job, faults>>

MarkStarted(t) ==
    /\ t.st = "queued" /\ Admitted(t)
    /\ row' = [row EXCEPT ![t.inst].busy = TRUE]
    /\ Becomes(t, [t EXCEPT !.st = "started"])
    /\ UNCHANGED <<bars, wm, asked, lost>> /\ NoFault

(* What the provider may serve: sessions of the window that have begun,    *)
(* any of which it may leave out or serve without prices.                  *)
Available(t) ==
    TradingDays(ExchangeOf[t.inst], t.frm, t.to) \cap 1..day

Served(days) ==
    [d \in Days |-> IF d \notin days THEN "none"
                    ELSE IF d = day /\ ~eod THEN "partial" ELSE "final"]

FetchRows(t, days, last) ==
    /\ t.st = "started"
    /\ last \in days /\ \A d \in days : d <= last
    /\ Becomes(t, [t EXCEPT !.st = "fetched", !.rows = Served(days),
                            !.last = last])
    /\ UNCHANGED store /\ NoFault

FetchNothing(t) ==
    /\ t.st = "started"
    /\ Becomes(t, [t EXCEPT !.st = "empty"])
    /\ UNCHANGED store /\ NoFault

(* A permanent error, or retries exhausted.                                *)
FetchFails(t) ==
    /\ t.st = "started"
    /\ Becomes(t, [t EXCEPT !.st = "failed"])
    /\ UNCHANGED store /\ NoFault

Upsert(old, new) ==
    [d \in Days |-> IF new[d] = "none" THEN old[d] ELSE new[d]]

Greatest_LastWriter(a, b) == b      \* mutant: SET last_synced_ts = EXCLUDED

Greatest(a, b) == IF a < b THEN b ELSE a

(* sync_state of i after mark_sync_success and after mark_sync_finished.   *)
Closed == [busy |-> FALSE, err |-> FALSE]

LastTs_EndOfWindow(t) == t.to       \* mutant: the task's to_date

LastTs(t) == t.last

(* upsert_daily_bars and mark_sync_success, in one transaction.            *)
Store(t) ==
    /\ t.st = "fetched"
    /\ bars' = [bars EXCEPT ![t.inst] = Upsert(bars[t.inst], t.rows)]
    /\ wm' = [wm EXCEPT ![t.inst] = Greatest(wm[t.inst], LastTs(t))]
    /\ row' = [row EXCEPT ![t.inst] = Closed]
    /\ asked' = [asked EXCEPT ![t.inst] =
                    asked[t.inst] \cup {d \in Days : t.frm <= d /\ d <= t.last}]
    /\ lost' = lost \ {t.inst}
    /\ tasks' = tasks \ {t}
    /\ NoFault

MarkFinished_LeavesRowOpen(t) ==    \* mutant: an empty answer marks nothing
    /\ t.st = "empty"
    /\ tasks' = tasks \ {t}
    /\ UNCHANGED store /\ NoFault

MarkFinished(t) ==
    /\ t.st = "empty"
    /\ row' = [row EXCEPT ![t.inst] = Closed]
    /\ lost' = lost \ {t.inst}
    /\ tasks' = tasks \ {t}
    /\ UNCHANGED <<bars, wm, asked>> /\ NoFault

MarkError_RetriesAtOnce(t) ==       \* mutant: a failed task starts over
    /\ t.st = "failed"
    /\ row' = [row EXCEPT ![t.inst] = [busy |-> FALSE, err |-> TRUE]]
    /\ Becomes(t, [t EXCEPT !.st = "queued"])
    /\ UNCHANGED <<bars, wm, asked, lost>> /\ NoFault

MarkError(t) ==
    /\ t.st = "failed"
    /\ row' = [row EXCEPT ![t.inst] = [busy |-> FALSE, err |-> TRUE]]
    /\ lost' = lost \ {t.inst}
    /\ tasks' = tasks \ {t}
    /\ UNCHANGED <<bars, wm, asked>> /\ NoFault

-----------------------------------------------------------------------------
(* Faults.  Handlers that die after their start mark are lost.             *)

Strikes == faults < MaxFaults /\ faults' = faults + 1

Started(dead) == {t.inst : t \in {u \in dead : u.st # "queued"}}

Kill(dead) ==
    /\ tasks' = tasks \ dead
    /\ lost' = lost \cup Started(dead)
    /\ UNCHANGED <<clock, active, bars, wm, row, asked>>

(* Any exception but a ProviderError leaves _handle_one, a transaction     *)
(* that fails above all.  gather passes on the first one at once and       *)
(* leaves the batch's other handlers running; the run is over, but a CLI   *)
(* process still has to wind down.                                         *)
HandlerRaises(t) ==
    /\ Strikes
    /\ t.st = "queued" => Admitted(t)
    /\ Kill({t})
    /\ job' = IF job[t.job].st = "batch" /\ job[t.job].gen = t.gen
              THEN [job EXCEPT ![t.job] =
                      IF t.job \in CliJobs THEN At("exiting")
                      ELSE Idle]
              ELSE job
    /\ UNCHANGED up

(* The catch-up's or the planner's transaction fails.                      *)
JobRaises(j) ==
    /\ Strikes
    /\ job[j].st \in {"read", "plan", "match"}
    /\ job' = [job EXCEPT ![j] = Idle]
    /\ UNCHANGED <<clock, active, store, up, tasks>>

Of(js) == {t \in tasks : t.job \in js}

(* asyncio.run cancels what is still running when the CLI's main is over.  *)
ExitCli(j) ==
    /\ job[j].st = "exiting"
    /\ Kill(Of({j}))
    /\ job' = [job EXCEPT ![j] = Idle]
    /\ UNCHANGED <<up, faults>>

KillCli(j) ==
    /\ Strikes
    /\ j \in CliJobs /\ job[j].st \notin {"idle", "exiting"}
    /\ Kill(Of({j}))
    /\ job' = [job EXCEPT ![j] = Idle]
    /\ UNCHANGED up

(* Power loss, kill, or a shutdown: the scheduler does not wait for jobs.  *)
DaemonStops ==
    /\ Strikes
    /\ up /\ up' = FALSE
    /\ Kill(Of(DaemonJobs))
    /\ job' = [j \in Jobs |-> IF j \in DaemonJobs THEN Idle ELSE job[j]]

Boot(j) == IF j = "catch_up_on_start" THEN At("read") ELSE Idle

DaemonStarts ==
    /\ ~up /\ up' = TRUE
    /\ job' = [j \in Jobs |-> IF j \in DaemonJobs THEN Boot(j) ELSE job[j]]
    /\ UNCHANGED <<clock, active, store, tasks, faults>>

(* A seeder run relists or delists instruments of one exchange.            *)
Seed(ex) ==
    /\ Seeding
    /\ \E seen \in SUBSET Listed(ex) : active' = (active \ Listed(ex)) \cup seen
    /\ UNCHANGED <<clock, store, up, job, tasks, faults>>

-----------------------------------------------------------------------------

Init ==
    /\ day = 1 /\ eod = FALSE
    /\ active = Instruments
    /\ bars = [i \in Instruments |-> NoRows]
    /\ wm = [i \in Instruments |-> NoDate]
    /\ row = [i \in Instruments |-> Closed]
    /\ up = TRUE
    /\ job = [j \in Jobs |-> Boot(j)]
    /\ tasks = {}
    /\ faults = 0
    /\ asked = [i \in Instruments |-> {}]
    /\ lost = {}

JobStep(j) ==
    \/ ReadWatermark(j) \/ DecideCatchUp(j)
    \/ PickInstruments(j) \/ BuildTasks(j) \/ FinishBatch(j)

Fetch(t) ==
    \/ \E days \in SUBSET Available(t) : \E last \in days : FetchRows(t, days, last)
    \/ FetchNothing(t)
    \/ FetchFails(t)

TaskStep(t) ==
    MarkStarted(t) \/ Fetch(t) \/ Store(t) \/ MarkFinished(t) \/ MarkError(t)

Fault ==
    \/ \E t \in tasks : HandlerRaises(t)
    \/ \E j \in Jobs : JobRaises(j) \/ KillCli(j)
    \/ DaemonStops

(* Without an operator's backfill.                                         *)
SyncNext ==
    \/ Tick
    \/ \E j \in Jobs : StartSync(j) \/ StartCatchUp(j) \/ JobStep(j) \/ ExitCli(j)
    \/ \E t \in tasks : TaskStep(t)
    \/ Fault
    \/ DaemonStarts
    \/ \E ex \in Exchanges : Seed(ex)

Next == SyncNext \/ \E j \in Jobs : StartBackfill(j)

SyncSpec == Init /\ [][SyncNext]_vars
Spec     == Init /\ [][Next]_vars
=============================================================================
