# A verification development for chronosync

chronosync keeps daily bars of exchange-listed instruments in Postgres: a daemon
fetches what is missing from a provider (yfinance) every evening, a CLI backfills
and administers, a REST API reads. This directory holds TLA+ models of the parts
whose correctness depends on the order of steps, TLC configurations that check
them on small instances, and TLAPS proofs of the main safety theorems for every
value of the constants.

The models are translated from the code in `src/chronosync/`. `PROJECT.json` maps
every definition to the lines it stands for, lists the runs, the mutants that show
what each property can catch, the hazards, the findings and the theorems.

## Inventory

| component | state | operations | interacts through | hard behaviour |
|---|---|---|---|---|
| Trading calendar (`calendars.py`) | none | `trading_days`, `is_trading_day`, `prev_trading_day` | called by planner, daemon, seeders | holidays differ per exchange; the hunt gives up after 14 days |
| Planner (`sync/planner.py`) | none | `build_tasks`, `split_backfill` | reads `instruments`, `sync_state` | plans from a watermark that is stale by the time the plan is carried out |
| Worker (`sync/worker.py`) | semaphore, tasks in flight | `run`, `_handle_one` | provider; writes `daily_bars`, `sync_state` | concurrent handlers, aborts, one transaction per mark |
| Daemon (`daemon.py`) | APScheduler jobs, no state across restarts | `run_sync_iteration`, `_catch_up_if_stale`, seed and meta iterations, start and shutdown | planner, worker, seeders, repositories | jobs overlap; crash and restart; the clock passes EOD under a run |
| Repositories (`db/repositories.py`) | the Postgres tables | one function per statement | every component | upserts whose conflict clauses decide what wins |
| Sessions (`db/engine.py`) | engine, pool | `session_scope`, `dispose` | every transaction | commit or roll back; disposed under running jobs |
| Provider (`providers/yfinance_feed.py`) | semaphore, one shared `AsyncRetrying` | `fetch_daily_bars`, `fetch_instrument_meta` | worker, metadata refresh | retries, missing rows, NaN rows, moving bar of today |
| CLI (`cli.py`) | none | `run --once`, `backfill`, `seed`, `refresh-meta`, `status`, `admin ...` | processes of their own beside the daemon | cancelled or killed half-way |
| Seeders (`seeders/*`) | none | download, parse, `upsert_instruments`, `deactivate_missing` | `instruments` | late or partial archive; writes columns that others own |
| Metadata refresh (`sync/meta_refresh.py`) | semaphore | `run` | provider, `instruments.market_cap` | concurrent with the seeders |
| Secret backends (`secrets/*`) | vault file, its temporary file | `get`, `put`, `rotate`, `delete` | CLI credential commands | read-modify-write from several processes; a death half-way through writing |
| Users, accounts, credentials | three tables | admin commands | vault | vault and row are not written atomically; an account goes while a credential comes |
| Read API (`api/*`), client (`chronosync_client/*`) | none | list, bars, sync status, health | reads every table | cursors over a set that changes |
| Registry, settings, logging, migrations | start-up only | | | none |

What makes each correct, in one sentence: the **planner, worker and daemon** never
let the watermark jump over a session nobody asked the provider for, never store a
bar that still moves, keep watermark and bars consistent, close every row they
open, and end every run; the **seeders** keep each exchange's listing equal to one published archive, end,
and do not let one exchange's failure reach the next; the **provider's feed**
gives a download all its attempts, asks a bounded number of times and lets every call
end; the **vault** file is never torn or half-written by a command that dies, commands that
meet in it cost no third credential its value, and every committed credential has its
secret; the **API** shows each
row that stays exactly once, and a walk over it ends.

## What is modelled

### `Calendar`, `Planner`: pure operators

A date is an integer, a calendar a constant set of days per exchange. `Planner`
has the window arithmetic of `build_tasks` (`FirstMissing`, `Due`) and the chunks
of `split_backfill` as a set; nothing is recursive, so the proofs can use both.

### `BackfillSplit`: the loop of `split_backfill`

One step per iteration, from any window and any positive chunk length. TLC and a
proof show that the chunks tile the window (`ChunksTileWindow`) and that they are the
set `Planner!SplitBackfill` names (`LoopIsSplitBackfill`), which the engine uses.

### `SyncEngine`: daemon, CLI, worker and tables

| variable | code |
|---|---|
| `day`, `eod` | the date in `settings.sync.timezone`; has the time in `eod_cron` passed? |
| `active` | `instruments.is_active` |
| `bars` | `daily_bars`: no row, a half-formed one, or a final one, per instrument and day |
| `wm` | `sync_state.last_synced_ts` (0 is NULL) |
| `row` | `busy`: `last_run_started_at` after `last_run_finished_at`; `err`: `last_error` is set |
| `up`, `job` | the daemon process; the coroutine of each of its jobs and of each CLI process |
| `tasks` | the `FetchTask`s given to `worker.run` and not done, with the point `_handle_one` is at |
| `faults` | how many faults have struck; also the name of a batch (`gen`), so that the orphans of an aborted run are not taken for the next run's tasks |
| `asked`, `lost` | history only: days inside the window of a stored fetch; handlers that died after their start mark |

Which jobs there are is a matter of constants: which of the daemon's three
(`DaemonJobs`), and the processes of `run --once` (`OnceRuns`) and of `backfill`
(`Backfills`), any number of each.

Each database transaction is one step (`session_scope` commits or rolls back), but for
the planner's two queries, which see two snapshots (READ COMMITTED), and
each await between two of them is a point where everything else may move:

| action | code |
|---|---|
| `EodPasses`, `Midnight` | the clock |
| `StartSync`, `StartCatchUp` | the cron, the interval job, `run --once` |
| `ReadWatermark`, `DecideCatchUp` | `_catch_up_if_stale`, before and after its query |
| `PickInstruments`, `BuildTasks`, `FinishBatch` | `run_sync_iteration`: the planner's query for the active instruments, its query for their watermarks and the tasks, and the next exchange when `gather` returns. The ceiling (`through`) is computed when the run turns to the exchange, in `Iterate` |
| `StartBackfill` | `chronosync backfill`: any active instruments, a window, no ceiling |
| `MarkStarted`, `FetchRows`, `FetchNothing`, `FetchFails`, `Store`, `MarkFinished`, `MarkError` | `_handle_one`. `Store` is the one transaction of `upsert_daily_bars` and `mark_sync_success` |
| `HandlerRaises`, `JobRaises` | an exception that is not a `ProviderError`, above all a failed transaction. `gather` gives up at once; the daemon's other handlers stay at work, a CLI process cancels them when its main is over (`ExitCli`) |
| `DaemonStops`, `DaemonStarts`, `KillCli` | crash, kill or `shutdown(wait=False)`; restart with `catch_up_on_start`; a killed CLI process |
| `Seed` | a seeder run relists or delists instruments |

Choices worth knowing:

- The semaphore is fair and tasks queue up in list order, so it is held by the
  first `Concurrency` tasks of the batch that are not done (`Admitted`). The
  provider's own semaphore is of the same size, and taken inside it.
- A provider's answer is any non-empty subset of the sessions of the window that
  have begun: rows may be missing, or dropped for NaN prices. The bar of today is
  half-formed until EOD. `last` is the newest row, `rows[-1]["ts"]`: the rows come
  in date order.
- `SyncNext` is the system without an operator's backfill, `Next` is everything.
  A backfill has no ceiling and no relation to the watermark, so three of the
  properties hold only of `SyncNext`; each says so.
- An exception after which a commit may or may not have happened is one of two
  steps (the commit, then the exception elsewhere; or the exception). Timestamps
  are not modelled: `busy` follows the order of the commits, not of the clock
  readings, which differ by the length of a transaction.

### `SyncLedger`, `SyncRefinement`: what readers are promised

The abstract specification knows no jobs, clocks or faults: per instrument a ledger
of final bars and a watermark, where each entry starts at or before the first day
beyond the watermark. `SyncRefinement` instantiates it on the engine's own
`bars`, `wm` and `asked`; `KeepsLedger` says that every transaction of the worker is
one entry and everything else a stutter.

### `SyncProperties`: the properties

- `TypeOK`: among the types, no watermark outside the calendar, whatever window is
  backfilled.
- `WatermarkIsNewestBar` (backfills included): `last_synced_ts` always names the
  newest stored bar.
- `NeverMovesBack` (included): no watermark moves back, no bar disappears.
- `BusyRowsAreWorkedOn`: a row in progress has a handler, unless a fault killed it.
- `NoSilentGap` (without backfills): every session up to the watermark was inside
  the window of a stored fetch. Planning starts behind the watermark, so a session
  it jumps is lost for good.
- `NoHalfFormedBar` (without backfills): no moving bar is ever stored.
- `SyncInvariant`: the inductive invariant behind the last two.
- `RunsEnd`, `GapsHeal`: liveness, below.
- `CatchUpSeesGaps`, `FailedChunksAreReplanned`: claims of the documentation that
  the code does not keep.

### `ProviderRetry`: one process's feed under many calls

`YFinanceFeed` has one semaphore and one `AsyncRetrying` object. tenacity keeps the
state of the retries (`attempt_number`, `outcome`) in that object, replaces it when
an iteration begins and reads the current one to decide what comes next, so every
download that runs beside another meets the other's state.

| variable | code |
|---|---|
| `calls` | how many downloads have begun; names their states |
| `retry` | the `RetryCallState` in the `AsyncRetrying` object: whose, `attempt_number`, `outcome` |
| `dl` | the calls of `fetch_daily_bars`: waiting for a slot, in a request, in a back-off sleep, done or failed; the state its current attempt reports to (`held`). `tries`, `err`, `alone` are history |
| `meta` | the calls of `fetch_instrument_meta`, which share the semaphore and never fail |

| action | code |
|---|---|
| `Begin` | `async with self._sem` and the first turn of the loop; a new state |
| `Succeeds`, `Fails` | the end of a request; `Kind` is the classification by words of `_yf_download_sync`; `Reported` is `AttemptManager.__exit__`, which writes to the state the attempt was made with |
| `Iterate` = `AsksAgain`, `BacksOff` or `GivesUp` | the next turn of `async for attempt in self._retry`: ask again, sleep, or raise (the state's own error, or the line behind the loop) |
| `Wakes` | the back-off is over |
| `BeginMeta`, `EndMeta` | `fetch_instrument_meta` |

Only a request and a sleep suspend, so a step goes from the end of one to the
beginning of the next. The slot is held across the back-offs, as in the code.
tenacity is outside the repository; its definitions are marked external.

- `AttemptsBounded`: with its failures partly uncounted a download still makes at
  most `MaxAttempts` requests per download that began with it or after it.
- `AloneEarnsFailure`: a download without company fails only after `MaxAttempts`
  errors of its own that the code takes for retriable, or one that it takes for
  permanent (`Earned`). This is the code's classification and not that of the documents:
  a server error counts as permanent here, as in `_yf_download_sync`, where FR-3.1
  would have it retried (see the end of Findings). `EveryFailureIsEarned`, the same of
  every download, does not hold (finding 4).
- `CallsEnd`: no call waits or holds its slot for ever.

The engine's `FetchFails`, in which any fetch may fail at any time, covers
everything a download can do here, and `Available` and `Served` what it may return.

### `ReadApi`: a walk of the client over a list

`/instruments` and `/bars/daily` cut their answer into pages by key (`ticker`, `ts`);
`ChronoSyncClient._paginate` asks for page after page. `table` is the set of rows
that match the filters and changes between two requests (`Appears`, `Disappears`:
bars stored, instruments listed and delisted); `Request` is the endpoint's query and
the client's iteration in one, `RequestFails` the `raise_for_status`. `kept` is
history: the rows that have matched ever since the walk began.

- `PagesAscend`: no page overlaps an earlier one.
- `StableRowsListed`: a walk that ends well has listed every row that was there
  throughout. It holds when keys differ (bars of an instrument; proved) and fails
  for instruments, whose cursor is the ticker alone (finding 3).
- `WalkEnds`: the loop has no bound of its own; the cursors give it one.

### `InstrumentUniverse`: the seeders over `instruments`

| variable | code |
|---|---|
| `day`, `closed` | the date; is today's session over, and its archive published? |
| `table` | `instruments`: is there a row, `is_active`, is there a `market_cap` |
| `seed` | one coroutine per job (the daemon's, and each process `chronosync seed` of the constant `CliJobs`): the exchanges still to do, the archive's day, the download's attempts, and the transaction: rows its statement has still to take, rows written and locked |

| action | code |
|---|---|
| `StartSeed`, `SeedNext`, `AfterFailure` | the loop of `run_seed_iteration`, which goes on behind a failed exchange, and of `cmd_seed`, which does not; the daemon takes `ExchangeOrder`, a CLI process any list of `CliTargets` (`Targets`) |
| `Download`, `RetryRequest`, `GiveUp`, `RejectArchive` | `_with_retry` and `_fetch`; `_parse_zip_csv` and the check for an empty archive, which are not retried |
| `WriteRow` | one row of `upsert_instruments` or `deactivate_missing`: locked until the end of the transaction, waited for when another has it |
| `BeginDeactivate` | the second statement takes its snapshot: the committed rows that the archive lacks |
| `Commit`, `SeedRaises`, `KillCli`, `DaemonStops` | `session_scope` commits, rolls back, or dies with its process |
| `DeadlockVictim` | PostgreSQL ends one of the transactions that wait for each other in a circle (`InCycle`), two or more |
| `RefreshCap` | the one-row transaction of `meta_refresh.run`, which may be for an instrument delisted meanwhile |

In the engine a seeding is one atomic step; here it is not, because its two
statements see each other's commits (READ COMMITTED, PostgreSQL's default, which
the engine is not told to change). The rows of a statement are taken in any order.

- `ListingIsOneArchive`: what is active on an exchange is exactly one published
  archive, never a mixture and never a half of one. The assumption `ArchivesOverlap`
  is what it needs of the world: two archives of an exchange share at least one
  ticker. Without it two seeders might not meet in any row, and each could miss the
  rows the other inserts.
- `RunsEnd`, `EveryExchangeHasItsTurn`: liveness, below.

### `Listings`, `UniverseRefinement`: what readers of the universe are promised

`Listings` knows a status per instrument (unknown, listed, delisted) and the archives
that are out; its one step besides `Publish` is `Adopt(ex, d)`: an exchange goes to a
published archive at once, and no row is lost or touched elsewhere. The
refinement reads a row's status off `known` and `is_active` and the archives off the
clock (`Published`). `KeepsListings` says more than `ListingIsOneArchive`: it also
speaks of each step, of the rows that are delisted and of the other exchanges. To the
engine an adoption is its `Seed` (`SeedsOneExchange`).

### `CredentialVault`: the vault file and the credential commands

Every `chronosync admin cred ...` is a process, so the backend's `asyncio.Lock`
orders nothing between two of them. A step is one call on a file or one transaction.

| variable | code |
|---|---|
| `accounts`, `rows` | the rows of `accounts` and `vendor_credentials` |
| `file`, `tmp` | `vault.enc` and `vault.enc.tmp`: absent, empty, torn (part or mixture of tokens), or a token with the secrets it holds |
| `proc` | the command of each process, where it is, the blob it has read and edited, and which file its open handle is on |
| `started`, `faults` | bounds: commands begun, faults struck |
| `met`, `contested`, `cut`, `truth` | history: credentials whose command was between read and replace beside another; commands for the credential overlapped; a delete died between vault and row; what was written, command by command |

| action | code |
|---|---|
| `Start`, `Look` | `cred set`, `rotate`, `delete`: the account (`_vendor_for`) or the row (`get_credential`) |
| `ReadVault` | `_read_blob` and the change of one entry; `delete` of an entry that is not there writes nothing |
| `OpenTmp`, `FillTmp`, `ReplaceVault` | `_write_blob`: `write_bytes` opens and truncates, then writes; `os.replace`, under which an open file keeps its contents (`Moved`) |
| `CommitRow` | `upsert_credential`, refused by the foreign key when the account is gone, or `delete_credential` |
| `RemoveAccount` | `admin account remove`, with the cascade to the credentials' rows |
| `VaultFails`, `VaultRaises` | a vault that cannot be decrypted, a temporary file another command took away; a wrong key, a full disk. `set` and `rotate` end, `delete` goes on to its row |
| `Dies` | the process is killed or its transaction fails |

A write that is cut off may leave part of a token (`CutOff`). A value is named by
its command's number. Creating accounts is left out: a new account has a new UUID,
and is as if it had been there all the time.

- `VaultIsWhole`: until two commands were between read and replace at the same time,
  the file is one whole token whoever died where.
- `NoUpdateIsLost`: also when commands do meet, a vault that can be read holds, for
  every credential whose own commands met nobody, what was last written. Each command
  writes back the secrets it read, possibly before others' replaces, through one
  temporary file that may be another's or a dead one's: none of this brings a third
  credential's old value back. For the credentials that met nothing is claimed,
  because one of the two can lose its update, and nothing while the file is torn.
- `RowsHaveSecrets`: a committed row has its secret, whatever died, failed or removed
  the account in between. `ReportedIsServed`: what set or rotate report as stored, a
  vault that can be read serves, unless the credential's own commands overlapped or met
  another.

### `CredentialStore`, `CredentialRefinement`: what users of the secrets are promised

The abstract store has secrets and rows that change one credential at a time: `Put`
brings a later value than the one there, `List` needs a secret to list, `Close` takes
an account's rows along. For credentials whose commands met (`mixed`) older values may
come back; once two processes met in the vault, the refinement takes every credential
for mixed, and the secrets may be garbled: what is left then is said by
`NoUpdateIsLost`, credential by credential. The secrets are those of the vault file,
and `KeepsStore` says that every step of reading, editing, writing, replacing and
committing, of every death and failure, is one of the store's or none.

These conditions are not a convenience. Without them TLC shows what the lock cannot
prevent: see the end of Findings.

## Runs

| run | question | bounds |
|---|---|---|
| `backfill_split` | do the chunks tile the window, and are they the planned ones? | all windows over 8 dates, chunk lengths 1, 2, 3, 9 |
| `sync_overlap` | cron, start-up catch-up and `run --once` on one instrument that seeders list and delist meanwhile; crash and restart | 3 days, 1 fault |
| `sync_backfill` | chunks of three days out of order next to a cron whose time cannot be parsed, while the instrument is delisted and relisted | windows empty and from before to beyond the period; 3 days, 1 fault |
| `sync_live` | is every stored bar final, does every run end, and every gap heal? | 3 instruments of 2 exchanges with different holidays, semaphore of 1, 2 days, 1 fault |
| `walk_bars` | is a walk ordered, complete and finite? | all tables over 5 rows, pages of 2 |
| `universe_seeding` | overlapping seeders: one archive, changed in one step; every run ends, every exchange has its turn | 2 exchanges, 4 instruments of which one comes and one goes, the daemon and a CLI process with the exchanges in the opposite order, 2 days, 2 attempts, 1 fault |
| `provider_retry` | are requests bounded, lone failures earned, and does every call end? | 3 downloads, 1 metadata call, 2 slots, 3 attempts |
| `vault_commands` | is the vault whole, does it keep the values of those that met nobody, does every row have its secret, and is it all a store that changes one credential at a time? | 3 credentials of 2 accounts, 2 processes, 4 commands, 1 fault |
| `catch_up_misses`, `backfill_gap`, `walk_same_ticker`, `retry_shared` | findings: TLC shows the violation | the smallest instances that do |

Why the bounds are enough. An instrument's rows are touched by its own tasks only,
so one instrument is enough for the order of commits; two are needed where tasks
queue for the semaphore, for the newest watermark and for the exchanges. Jobs
overlap in every way more of them would: their batches share only the tables. Three
days allow a stale plan, a newer one and a session between. One fault reaches each
fault action at each point; orphans of an aborted run meet a new run. `MaxDay` and
`MaxFaults` bound the clock and the faults, `Lookback` is never below `MaxDay`
(`PeriodAssumption`): a cold start reaches back to day 1, and the period before the
lookback is by intention never fetched. In `universe_seeding` the archives of NSE
differ by a row added, one removed and one kept, which is all two statements can
tell apart; the second attempt stands for all further ones. In `provider_retry` a
third download begins while two overlap, so that a state is replaced twice under one
of them, and three attempts tell a first, a middle and a last one. The seeders' interference
with the sync (`Seed`) is checked in `sync_overlap` and `sync_backfill`; the
theorems about the engine include it everywhere. Two seeders are enough for every
interleaving of two transactions on one exchange and for a deadlock of two; what is
listed under more of them, and under larger circles, is left to the theorems, and that
larger circles end is not checked. In
`vault_commands` four commands are a set, its rotation or deletion, and one of
another credential on either side; two processes that meet, and a third
credential beside theirs, show what a meeting may cost whom (the proofs allow any number
of both). Processes are interchangeable there, and
so are the two credentials of the first account, hence the symmetry set. Deadlock is checked wherever the
cfg does not say otherwise: a loop, or a set of calls or commands, that is done stops.

## Fairness

`Scheduling`: asyncio resumes every coroutine that can go on (weak fairness of each
job's steps and of each handler's, per job, instrument and batch), an exiting
process exits, a stopped daemon is restarted (systemd or Docker, HLD 4.2). No
fairness is assumed of faults, operators, seeders or the clock. `RunsEnd` needs no
more than this.

`Retrying`, the hypothesis of `GapsHeal` only: the triggers keep firing, and a
provider asked again and again for one instrument by one job now and then answers
in full (strong fairness of `ServesAll`). Without it a provider that always fails
is a counterexample, as it should be.

`ReadApi!FairSpec`: the client goes on until an answer or its timeout. The walk
ends although rows may appear for ever, because keys are finitely many.

`InstrumentUniverse!FairSpec`: every coroutine that can go on does; and a seeder
that again and again could have a row gets one (strong fairness of `WriteRow`),
because PostgreSQL serves those that wait for a row lock in their order, so that the
refresh or the other seeder cannot keep overtaking. No fairness of faults, of the
site, of the clock or of the jobs' starts.

`ProviderRetry!Fairness`: asyncio resumes every call that can go on (weak fairness of
each call), and a request ends, because yfinance's requests have a timeout. A waiting
call needs no more: calls are made once, so slots come free and stay free.

`CredentialVault` states no fairness and claims nothing of what must happen: the
commands are an operator's.

## Proofs

Proved with TLAPS for every universe, calendar, job set, window, concurrency,
lookback and bound:

- `BackfillSplitProofs!SplitTilesWindow`: `ChunksTileWindow` is implied by the
  inductive `BackToBack` and the exit condition of the loop. `LoopCutsThePlan`: the
  loop's chunks are the operator's, because the loop stands at a multiple of the chunk
  length and has cut all chunks that start before it (`CutIsPlanned`); what it takes is
  arithmetic of `%`, kept in lemmas behind `IsStart`. `PlanTilesWindow`, for the
  operator itself: every day of a window is in exactly one chunk.
- `SyncEngineProofs!TypeCorrect`. `TypeOK` is inductive together with
  `RunsHaveExchange` (a run that plans has an exchange to plan).
- `WatermarkSound`: inductive with `FetchedRowsFit` (rows lie in their window and
  the task's `last` names one of them); the step that matters is `Store`.
- `StoreOnlyGrows`: from the types and the definition of `Greatest` and `Upsert`.
- `RowsAreClosed`: every way out of `_handle_one` closes the row or, by a fault,
  records the handler as lost.
- `SyncInductive`, and from it `BarsAreFinal` and `NoGapBehindWatermark`. That
  nothing half-formed is stored needs that every ceiling of a plan and every window
  in flight ends on a finalised day (`CeilingsAreFinal`), which the clock cannot
  undo. That no session is jumped needs that every task in flight, however stale,
  starts at or before the day after the present watermark (`PlansReachBack`), which
  holds because watermarks only grow, and that the days accounted for are exactly
  those up to the watermark (`AskedUpToWatermark`).
- `EngineKeepsLedger`: the engine implements the ledger. Only
  `Store` is an entry; `SyncInvariant` supplies the ledger's guard.

- `ReadApiProofs!PagesNeverOverlap` and `WalkIsComplete`, from `ListedUpToCursor`:
  every stable row up to the cursor is listed and no listed row lies beyond it.
  Completeness assumes that no two rows share a key; finding 3 is that assumption's
  counterexample. `WalkSkipsOnlyNamesakes` needs no assumption and bounds that finding:
  a stable row is passed over only if another row with its key is listed.
- `InstrumentUniverseProofs!ListingIsWhole` and `UniverseTypeCorrect`, from
  `UniverseInductive`. Rows are written exclusively (`LocksAreExclusive`); a seeder
  in its second statement holds its whole archive's rows (`Deactivating`), and two
  archives share a row (`ArchivesOverlap`), so an exchange has one transaction in its
  second statement at a time. Therefore no row that it must deactivate has been
  committed behind its snapshot, and what it commits is its archive (`CommitEffect`).
  `SeedersKeepListings`, the refinement of `Listings`, follows: a commit is an adoption
  (`CommitAdopts`), the clock publishes (`TickPublishes`), and nothing else changes
  which rows are known or active (`OthersKeepRows`). `SeedingIsOneStep` states the
  same for the instruments the planner reads: what the engine assumes in `Seed`.
- `ProviderRetryProofs`: `RetryTypeCorrect`; `RequestsAreBounded`, by counting per
  state met (`TriesAreCounted`: a state that was replaced counts in full, the current
  one by its number); `LoneFailureIsEarned`, because a download by itself is the
  owner of the current state, whose number is that of its own requests
  (`AloneOwnsState`); and `SequentialFailuresAreEarned`: with `Concurrency = 1` every
  download is alone, so finding 4 needs two slots.
- `CredentialVaultProofs`: `VaultTypeCorrect`; `VaultStaysWhole` and
  `UpdatesAreKept` from `VaultInvariant`: two in the vault are known to have met
  (`MeetingsAreSeen`); the blob of each, and a token in the temporary file, hold the
  truth of every credential that met nobody, but for its own edit (`BlobIsCurrent`,
  `TmpIsCurrent`), because a replace by one who has not met anybody finds no blob
  that could be out of date; and one who met nobody has the temporary file to itself
  (`TmpIsOwn`), so that it replaces the vault by a whole token.
  `RowsKeepTheirSecrets` and `ReportedValuesAreServed` from `RowsInvariant`: commands
  that overlap on a credential are seen to (`OverlapsAreSeen`), and from its
  replace to its commit a command's value is the last one written (`LandedAreWritten`),
  as is some value for every row (`RowsAreWritten`). `VaultKeepsStore`,
  the refinement of `CredentialStore`, adds `PutsAreNewer`: a blob under way that sets a
  credential nobody else is at holds a later value than the vault. A replace is then a
  `Put`, a `Remove` or a stutter (`ReplaceIsPut`), a commit a `List` (`CommitIsList`),
  and what processes that met may do a `Garble` (`MetIsGarble`).
  `OneCommandAtATime`: with one process nobody ever meets (`NobodyMeets`), so the
  properties hold without their conditions.

`MaxLemmas` and `CalendarProofs` hold the lemmas on maxima and on `PrevTradingDay`
the others share. The theorems rest on the named assumptions of the modules:
settings are positive, the calls of a feed are finitely many, every credential has
an account, `Sessions` gives days from 1 on, `ExchangeOrder` is not empty
(engine), `MaxDay <= Lookback`, archives list tickers of their exchange and overlap.

Only model-checked: liveness (`RunsEnd`, `GapsHeal`, `WalkEnds`, `CallsEnd`,
`EveryExchangeHasItsTurn`), which is out of the prover's reach, as are fairness and
ENABLED. Every safety property that a passing run checks is also stated by a theorem.

## Findings

1. **Catch-up looks at the newest watermark of all** (`daemon.py:188`). Once one
   instrument is stored, the instruments a crash left behind look current to it,
   and wait for the next cron. Run `catch_up_misses`.
2. **A failed backfill chunk is never planned again** (`db/repositories.py:265`)
   when a later chunk has moved the watermark past it. Run `backfill_gap`.
3. **The instrument list pages by ticker alone** (`db/repositories.py:68`). A ticker
   of two exchanges that straddles two pages is listed for one of them only. Run
   `walk_same_ticker`; no ticker is missed altogether (proved).
4. **All downloads share one retry state** (`providers/yfinance_feed.py:60`). A
   download that meets one rate limit while another succeeds, fails for good or uses
   up its attempts may be given up at once, through a line marked as never reached
   (`yfinance_feed.py:88`), or be retried more often than configured. Run
   `retry_shared`; with a semaphore of one it cannot happen (proved).

Noticed while modelling, without a run of their own:

- An aborted run leaves its handlers at work (`sync/worker.py:45`): `gather` raises on
  the first database error and the siblings write on beside the next run, where
  FR-3.3 has the iteration abort cleanly. The tables stay consistent: the theorems
  on `NoSilentGap` and `WatermarkIsNewestBar` include such orphans.
- The morning's seeding (`config.py:45`, 09:00) asks for the archive of today
  (`seeders/nse_bhavcopy.py:44`), which does not exist before the evening, so all its
  attempts fail on a trading day.
- Two vault commands at the same time can lose an update, leave a truncated file, or
  leave a mixture of two tokens under the vault's name, which no command can read any
  more (`secrets/local.py:72-83`: one temporary name for all). A set that overlaps a
  delete of the same credential can leave a row without its secret.
- `cred delete` reports a failing backend and deletes the row all the same, and
  `account remove` does not touch the vault: both leave secrets nothing refers to.
- A server error (5xx) is retriable by FR-3.1 (`Requirements.md:86`: "429, 5xx, network
  errors"), by the taxonomy of LLD 7 (`docs/LLD.md:431`) and by `docs/HLD.md:143`, but
  `_yf_download_sync` (`yfinance_feed.py:129-131`) goes by the words "rate", "429",
  "timeout" and "connection" in the message and takes every other error, a 5xx among
  them, for permanent: such a download ends after one request. The model's `Kind` and
  `Earned` follow the code.
- A seeding sets `market_cap` to NULL for every listed instrument
  (`db/repositories.py:90`; the model's `Upserted` does the same).
- `/sync/status` returns no cursor although the client is said to auto-paginate
  (`LLD.md:515`); a ticker of two exchanges makes the lookup raise instead of the 409
  of `LLD.md:495`; `/healthz` judges by `last_run_finished_at`, which failed runs set
  as well, where `HLD.md:202` says "last successful sync".

## Not modelled

Prices and volumes (a bar is absent, half-formed or final); statement chunking in
`upsert_daily_bars` (one transaction); wording, logging, summaries; the pool. The
registry is filled once at start-up; settings are constants of the models; the
migration is declarative. Keyring and HashiCorp vault delegate to services outside
the repository. The statements that add or list users and accounts, single lookups,
`/sync/status` and the health answer are one statement each: there is no order of
steps to get wrong. The metadata refresh's own semaphore has the size of the
provider's, behind which it queues anyway.

## Order of the modules

`Calendar` and `Planner` are pure and come first; `BackfillSplit` justifies one of
`Planner`'s operators; `SyncEngine` uses both and is the core, with its properties
(`SyncProperties`), its abstract specification (`SyncLedger`) and the refinement
(`SyncRefinement`). `InstrumentUniverse` details the engine's `Seed` step by step
(`Listings` and `UniverseRefinement` say what remains of it from outside),
`ProviderRetry` what stands behind its fetch steps, `ReadApi` is what readers see of
the same tables, and `CredentialVault`, with `CredentialStore` and `CredentialRefinement`, is separate:
nothing else reads the vault.
The modules are checked apart and meet in the engine's steps, each of which allows
at least what the detailed module can do; one composition of all of them would have
more states than TLC can visit and no property that spans more than two.
