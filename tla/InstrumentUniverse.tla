------------------------- MODULE InstrumentUniverse -------------------------
(***************************************************************************)
(* The universe of instruments: the Bhavcopy seeders (the daemon's         *)
(* run_seed_iteration, the CLI's seed) over the table instruments, beside  *)
(* the refresh of market_cap, whose handlers write one row at a time.      *)
(*                                                                         *)
(* A seeder's transaction upserts the rows of an archive and then          *)
(* deactivates the rows that are missing from it.  It is not one step      *)
(* here: its two statements take one row after the other, lock it until    *)
(* the transaction ends, and see what other transactions have committed    *)
(* when the statement begins (PostgreSQL, READ COMMITTED).                 *)
(***************************************************************************)
EXTENDS Calendar, FiniteSets, Sequences

CONSTANTS
    Instruments,    \* tickers of one exchange each, numbered in their order
    ExchangeOf,     \* ExchangeOf[i]: the exchange instrument i is listed on
    ExchangeOrder,  \* settings.sync.exchanges, a sequence
    Archive,        \* Archive[ex][d]: what the Bhavcopy of day d lists
    CliJobs,        \* the processes "chronosync seed", any number of them
    CliTargets,     \* the lists of exchanges that are given to one of them
    Attempts,       \* stop_after_attempt of a download
    MaxDay,         \* bound on the clock
    MaxFaults       \* bound on crashes and unexpected exceptions

DaemonJobs == {"run_seed_iteration"}
Jobs       == DaemonJobs \cup CliJobs

Days == 1..MaxDay

Listed(ex) == {i \in Instruments : ExchangeOf[i] = ex}

ASSUME UniverseAssumption ==
    /\ Instruments \subseteq Nat /\ ExchangeOf \in [Instruments -> Exchanges]
    /\ ExchangeOrder \in Seq(Exchanges) /\ CliTargets \subseteq Seq(Exchanges)
    /\ Archive \in [Exchanges -> [Days -> SUBSET Instruments]]
ASSUME ArchiveAssumption ==
    \A ex \in Exchanges, d \in Days : Archive[ex][d] \subseteq Listed(ex)
(* Archives that have rows share some: no listing changes altogether.      *)
ASSUME ArchivesOverlap ==
    \A ex \in Exchanges : \A c, d \in Days :
        Archive[ex][c] # {} /\ Archive[ex][d] # {}
            => Archive[ex][c] \cap Archive[ex][d] # {}
ASSUME JobsAssumption == DaemonJobs \cap CliJobs = {}
ASSUME BoundsAssumption ==
    /\ Attempts \in Nat \ {0}
    /\ MaxDay \in Nat \ {0} /\ MaxFaults \in Nat

VARIABLES
    day, closed,    \* today, and whether today's session is over
    up,             \* is the daemon process running?
    table,          \* the rows of instruments
    seed,           \* the coroutine of each seeder run, with its transaction
    faults          \* how many faults have struck

clock == <<day, closed>>
vars  == <<day, closed, up, table, seed, faults>>

(* Is there a row, is_active, and is there a market_cap with its as-of date?*)
Row == [known : BOOLEAN, active : BOOLEAN, cap : BOOLEAN]

Seeding == [st : {"idle", "fetch", "upsert", "deactivate"},
            todo : Seq(Exchanges),      \* the current exchange first
            target : Int,               \* whose day's archive is wanted
            tries : 0..Attempts,
            rows : SUBSET Instruments,  \* what the statement has still to take
            wrote : SUBSET Instruments] \* written and locked

IdleSeed == [st |-> "idle", todo |-> << >>, target |-> 0, tries |-> 0,
             rows |-> {}, wrote |-> {}]

MayStart(j) == j \in DaemonJobs => up

-----------------------------------------------------------------------------
(* The clock, and the archive site: a day's archive is there once its      *)
(* session is over.                                                        *)

Published(ex, d) == d \in Sessions[ex] /\ (d < day \/ (d = day /\ closed))

SessionCloses == ~closed /\ closed' = TRUE /\ day' = day
Midnight      == closed /\ day < MaxDay /\ day' = day + 1 /\ closed' = FALSE

Tick ==
    /\ SessionCloses \/ Midnight
    /\ UNCHANGED <<up, table, seed, faults>>

-----------------------------------------------------------------------------
(* The seeders.                                                            *)

OnlySeed(j, s) ==
    /\ seed' = [seed EXCEPT ![j] = s]
    /\ UNCHANGED <<clock, up, table, faults>>

(* The newest session up to and including today.                           *)
Target(ex) == PrevTradingDay(ex, day + 1)

(* The next exchange's seeder, in a session of its own, or the end.        *)
SeedNext(todo) ==
    IF todo = << >> THEN IdleSeed
    ELSE [IdleSeed EXCEPT !.st = "fetch", !.todo = todo, !.target = Target(Head(todo))]

Current(j) == Head(seed[j].todo)
Content(j) == Archive[Current(j)][seed[j].target]

(* The CLI's --exchange; without it, the configured ones.                  *)
Targets(j) == IF j \in DaemonJobs THEN {ExchangeOrder} ELSE CliTargets

StartSeed(j) ==
    /\ seed[j].st = "idle" /\ MayStart(j)
    /\ \E todo \in Targets(j) : OnlySeed(j, SeedNext(todo))

(* The transaction is rolled back; the daemon goes on with the next        *)
(* exchange, the CLI ends.                                                 *)
AfterFailure_EndsTheRun(j) == IdleSeed      \* mutant: no except per exchange

AfterFailure(j) ==
    IF j \in DaemonJobs THEN SeedNext(Tail(seed[j].todo)) ELSE IdleSeed

Download(j) ==
    /\ seed[j].st = "fetch" /\ Published(Current(j), seed[j].target)
    /\ Content(j) # {}
    /\ OnlySeed(j, [seed[j] EXCEPT !.st = "upsert", !.rows = Content(j)])

(* A request that fails: the site is down, or has no such archive.         *)
RetryRequest_ForEver(j) ==      \* mutant: attempts are not counted
    /\ seed[j].st = "fetch"
    /\ OnlySeed(j, seed[j])

RetryRequest_NoStop(j) ==       \* mutant: attempts are not limited
    /\ seed[j].st = "fetch"
    /\ OnlySeed(j, [seed[j] EXCEPT !.tries = seed[j].tries + 1])

RetryRequest(j) ==
    /\ seed[j].st = "fetch" /\ seed[j].tries + 1 < Attempts
    /\ OnlySeed(j, [seed[j] EXCEPT !.tries = seed[j].tries + 1])

GiveUp(j) ==
    /\ seed[j].st = "fetch" /\ seed[j].tries + 1 = Attempts
    /\ OnlySeed(j, AfterFailure(j))

(* An archive that cannot be parsed or has no rows is not asked for again. *)
RejectArchive(j) ==
    /\ seed[j].st = "fetch" /\ Published(Current(j), seed[j].target)
    /\ OnlySeed(j, AfterFailure(j))

(* Another transaction's row is waited for.                                *)
Free(j, i) == \A k \in Jobs \ {j} : i \notin seed[k].wrote

WriteRow(j, i) ==
    /\ seed[j].st \in {"upsert", "deactivate"}
    /\ i \in seed[j].rows /\ Free(j, i)
    /\ OnlySeed(j, [seed[j] EXCEPT !.rows = seed[j].rows \ {i},
                                   !.wrote = seed[j].wrote \cup {i}])

BeginDeactivate_Everywhere(j) ==    \* mutant: the exchange is not asked for
    /\ seed[j].st = "upsert" /\ seed[j].rows = {}
    /\ OnlySeed(j, [seed[j] EXCEPT !.st = "deactivate",
                        !.rows = {i \in Instruments : table[i].known} \ Content(j)])

BeginDeactivate(j) ==
    /\ seed[j].st = "upsert" /\ seed[j].rows = {}
    /\ OnlySeed(j, [seed[j] EXCEPT !.st = "deactivate",
                        !.rows = {i \in Listed(Current(j)) : table[i].known}
                                    \ Content(j)])

(* Rows as the transaction wrote them: upserted ones are active and lose   *)
(* their market_cap, the others are inactive.                              *)
Upserted == [known |-> TRUE, active |-> TRUE, cap |-> FALSE]

Written(j, i) ==
    IF i \notin seed[j].wrote THEN table[i]
    ELSE IF i \in Content(j) THEN Upserted
    ELSE [table[i] EXCEPT !.active = FALSE]

Commit_BeforeDeactivating(j) ==     \* mutant: a session for each statement
    /\ seed[j].st \in {"upsert", "deactivate"} /\ seed[j].rows = {}
    /\ table' = [i \in Instruments |-> Written(j, i)]
    /\ seed' = [seed EXCEPT ![j] =
                  IF seed[j].st = "upsert"
                  THEN [seed[j] EXCEPT !.st = "deactivate", !.wrote = {},
                            !.rows = {i \in Listed(Current(j)) : table[i].known}
                                        \ Content(j)]
                  ELSE SeedNext(Tail(seed[j].todo))]
    /\ UNCHANGED <<clock, up, faults>>

Commit(j) ==
    /\ seed[j].st = "deactivate" /\ seed[j].rows = {}
    /\ table' = [i \in Instruments |-> Written(j, i)]
    /\ seed' = [seed EXCEPT ![j] = SeedNext(Tail(seed[j].todo))]
    /\ UNCHANGED <<clock, up, faults>>

WaitsFor(j, k) == k # j /\ seed[j].rows \cap seed[k].wrote # {}

(* j is among those it waits for, those they wait for, and so on.          *)
InCycle(j) ==
    \A S \in SUBSET Jobs :
        (\A k \in Jobs : (\E l \in S \cup {j} : WaitsFor(l, k)) => k \in S)
            => j \in S

(* Of transactions that wait for each other's rows in a circle, of two or  *)
(* more, the database ends one.                                            *)
DeadlockVictim(j) ==
    /\ InCycle(j)
    /\ OnlySeed(j, AfterFailure(j))

-----------------------------------------------------------------------------
(* The refresh of market_cap: one transaction for each instrument that was *)
(* active when the refresh began and for which the provider has a value.   *)
(* It waits for a seeder that has written the row.                         *)
RefreshCap(i) ==
    /\ table[i].known /\ \A j \in Jobs : i \notin seed[j].wrote
    /\ table' = [table EXCEPT ![i].cap = TRUE]
    /\ UNCHANGED <<clock, up, seed, faults>>

-----------------------------------------------------------------------------
(* Faults.                                                                 *)

Strikes == faults < MaxFaults /\ faults' = faults + 1

(* A statement fails: for the daemon's seeder one more failed exchange.    *)
SeedRaises(j) ==
    /\ Strikes
    /\ seed[j].st \in {"upsert", "deactivate"}
    /\ seed' = [seed EXCEPT ![j] = AfterFailure(j)]
    /\ UNCHANGED <<clock, up, table>>

(* A process that ends takes its coroutine along; the database rolls the   *)
(* transaction back.                                                       *)
DaemonStops ==
    /\ Strikes
    /\ up /\ up' = FALSE
    /\ seed' = [j \in Jobs |-> IF j \in DaemonJobs THEN IdleSeed ELSE seed[j]]
    /\ UNCHANGED <<clock, table>>

KillCli(j) ==
    /\ Strikes
    /\ j \in CliJobs /\ seed[j].st # "idle"
    /\ seed' = [seed EXCEPT ![j] = IdleSeed]
    /\ UNCHANGED <<clock, up, table>>

DaemonStarts ==
    /\ ~up /\ up' = TRUE
    /\ UNCHANGED <<clock, table, seed, faults>>

-----------------------------------------------------------------------------

Init ==
    /\ day = 1 /\ closed = FALSE
    /\ up = TRUE
    /\ table = [i \in Instruments |-> [known |-> FALSE, active |-> FALSE, cap |-> FALSE]]
    /\ seed = [j \in Jobs |-> IdleSeed]
    /\ faults = 0

SeedStep(j) ==
    \/ Download(j) \/ RetryRequest(j) \/ GiveUp(j) \/ RejectArchive(j)
    \/ \E i \in Instruments : WriteRow(j, i)
    \/ BeginDeactivate(j) \/ Commit(j) \/ DeadlockVictim(j)

Fault ==
    \/ \E j \in Jobs : SeedRaises(j) \/ KillCli(j)
    \/ DaemonStops

Next ==
    \/ Tick
    \/ \E j \in Jobs : StartSeed(j) \/ SeedStep(j)
    \/ \E i \in Instruments : RefreshCap(i)
    \/ Fault
    \/ DaemonStarts

Spec == Init /\ [][Next]_vars

-----------------------------------------------------------------------------
(* Properties.                                                             *)

(* Every variable keeps its type.                                          *)
TypeOK ==
    /\ day \in Days /\ closed \in BOOLEAN /\ up \in BOOLEAN
    /\ table \in [Instruments -> Row]
    /\ seed \in [Jobs -> Seeding]
    /\ faults \in 0..MaxFaults

Active(ex) == {i \in Listed(ex) : table[i].active}

(***************************************************************************)
(* What is active on an exchange is exactly what one published archive     *)
(* lists: never a mixture of two archives, never a half-applied one, in    *)
(* whatever order the statements of overlapping seeders reach their rows,  *)
(* and whichever of them fails, is killed or loses a deadlock.             *)
(***************************************************************************)
ListingIsOneArchive ==
    \A ex \in Exchanges :
        \/ \A i \in Listed(ex) : ~table[i].known
        \/ \E d \in Days : Published(ex, d) /\ Active(ex) = Archive[ex][d]

-----------------------------------------------------------------------------
(* Why: the inductive invariant behind ListingIsOneArchive.                *)

(* A row has one writer at a time.                                         *)
LocksAreExclusive ==
    \A j, k \in Jobs : j # k => seed[j].wrote \cap seed[k].wrote = {}

ActiveIsKnown == \A i \in Instruments : table[i].active => table[i].known

Untouched(s) ==
    /\ s.st \in {"idle", "fetch"} /\ s.rows = {} /\ s.wrote = {}
    /\ s.st = "fetch" => s.todo # << >>

Upserting(j) ==
    /\ seed[j].st = "upsert"
    /\ seed[j].rows \cup seed[j].wrote = Content(j)

(* No row that has to be deactivated has escaped the statement's snapshot. *)
Deactivating(j) ==
    /\ seed[j].st = "deactivate"
    /\ Content(j) \subseteq seed[j].wrote
    /\ seed[j].rows \cup seed[j].wrote \subseteq Listed(Current(j))
    /\ \A i \in Listed(Current(j)) :
         table[i].known => i \in seed[j].rows \cup seed[j].wrote

(* A transaction under way works on a published archive.                   *)
HasArchive(j) ==
    /\ seed[j].todo # << >>
    /\ Published(Current(j), seed[j].target)
    /\ Content(j) # {}

SeedersInOrder ==
    \A j \in Jobs :
        Untouched(seed[j]) \/ (HasArchive(j) /\ (Upserting(j) \/ Deactivating(j)))

(* One archive at a time: an exchange's seeders meet in a row of theirs.   *)
UniverseInvariant ==
    /\ TypeOK /\ SeedersInOrder /\ LocksAreExclusive
    /\ ActiveIsKnown /\ ListingIsOneArchive

-----------------------------------------------------------------------------
(* Liveness.                                                               *)

(***************************************************************************)
(* asyncio resumes every coroutine that can go on, a request is answered   *)
(* or times out, the database resolves a deadlock and lets those that wait *)
(* for a row have it in their order (hence strong fairness of WriteRow).   *)
(***************************************************************************)
FairSpec ==
    /\ Spec
    /\ \A j \in Jobs : WF_vars(SeedStep(j))
    /\ \A j \in Jobs : SF_vars(\E i \in Instruments : WriteRow(j, i))

(***************************************************************************)
(* Every seeding ends: no download is retried for ever, and no two seeders *)
(* wait for each other's rows.                                             *)
(***************************************************************************)
RunsEnd == \A j \in Jobs : seed[j].st # "idle" ~> seed[j].st = "idle"

(***************************************************************************)
(* Every exchange gets its turn in a seeding of the daemon, however the    *)
(* one before it fails; only the end of the process cuts the list short.   *)
(***************************************************************************)
EveryExchangeHasItsTurn ==
    \A j \in DaemonJobs : \A n \in 2..Len(ExchangeOrder) :
        seed[j].todo = SubSeq(ExchangeOrder, n - 1, Len(ExchangeOrder))
            ~> seed[j].todo = SubSeq(ExchangeOrder, n, Len(ExchangeOrder)) \/ ~up
=============================================================================
