-------------------------- MODULE SyncEngineProofs --------------------------
(***************************************************************************)
(* What the runs check on small instances of SyncEngine, proved for every  *)
(* number of instruments, exchanges, days, faults and every calendar.      *)
(***************************************************************************)
EXTENDS SyncRefinement, SequenceTheorems, CalendarProofs, TLAPS

-----------------------------------------------------------------------------
(* The fetch ceiling and the newest watermark.                             *)

(* The clock and the calendar agree that the expected session is over.     *)
LEMMA ExpectedSessionFinal ==
    ASSUME day \in Days, eod \in BOOLEAN, NEW ex \in Exchanges
    PROVE  ExpectedSession(ex) \in Int /\ IsFinal(ExpectedSession(ex))
<1> DEFINE ref == IF EodParses /\ eod THEN day ELSE day - 1
<1>1. day \in Int
  BY BoundsAssumption DEF Days
<1>2. ref \in Int /\ IsFinal(ref)
  BY <1>1, SettingsAssumption DEF IsFinal
<1>3. PrevTradingDay(ex, ref) \in Int /\ PrevTradingDay(ex, ref) < ref
  BY <1>2, PrevTradingDayType
<1>4. IsFinal(PrevTradingDay(ex, ref))
  BY <1>1, <1>2, <1>3 DEF IsFinal
<1> QED
  BY <1>2, <1>3, <1>4 DEF ExpectedSession

(* A run turns to an exchange with a ceiling that is final.                *)
LEMMA IterateType ==
    ASSUME day \in Days, eod \in BOOLEAN,
           NEW todo \in Seq(Exchanges), todo # << >>
    PROVE  /\ Iterate(todo) \in Job
           /\ Iterate(todo).st = "plan" /\ Iterate(todo).todo = todo
           /\ IsFinal(Iterate(todo).through)
<1>1. Head(todo) \in Exchanges
  BY HeadTailProperties
<1>2. /\ ExpectedSession(Head(todo)) \in Int
      /\ IsFinal(ExpectedSession(Head(todo)))
  BY <1>1, ExpectedSessionFinal
<1>3. Iterate(todo) = [st |-> "plan", todo |-> todo,
                       through |-> ExpectedSession(Head(todo)),
                       picked |-> {}, last |-> 0, gen |-> 0]
  BY DEF Iterate, NoDate
<1>4. 0 \in 0..MaxDay /\ 0 \in 0..MaxFaults
  BY BoundsAssumption
<1> QED
  BY <1>2, <1>3, <1>4 DEF Job, JobStates

(* The newest watermark is a date of the calendar, or none.                *)
LEMMA NewestWatermarkType ==
    ASSUME wm \in [Instruments -> 0..MaxDay]
    PROVE  NewestWatermark \in 0..MaxDay
<1> DEFINE S == {NoDate} \cup {wm[i] : i \in Instruments}
<1>1. S \subseteq 0..MaxDay /\ S # {}
  BY BoundsAssumption DEF NoDate
<1>2. S \subseteq Int /\ MaxDay \in Int /\ \A x \in S : x <= MaxDay
  BY <1>1, BoundsAssumption
<1>3. Max(S) \in S
  BY <1>1, <1>2, MaxOfBounded
<1> QED
  BY <1>1, <1>3 DEF NewestWatermark

-----------------------------------------------------------------------------
(* Types.                                                                  *)

LEMMA IdleTypes ==
    ASSUME NEW st \in JobStates
    PROVE  At(st) \in Job /\ At(st).st = st /\ Idle = At("idle")
  BY BoundsAssumption, EmptySeq DEF At, Idle, Job, NoDate

(* A freshly planned task (build_tasks, split_backfill) is well-typed.      *)
LEMMA NewTaskType ==
    ASSUME faults \in 0..MaxFaults,
           NEW j \in Jobs, NEW i \in Instruments, NEW frm \in Int, NEW to \in Int
    PROVE  /\ NewTask(j, i, frm, to) \in Task
           /\ NewTask(j, i, frm, to).st = "queued"
           /\ NewTask(j, i, frm, to).frm = frm
           /\ NewTask(j, i, frm, to).to = to
           /\ NewTask(j, i, frm, to).inst = i
           /\ NewTask(j, i, frm, to).rows = NoRows
<1>1. 0 \in 0..MaxDay
  BY BoundsAssumption
<1>2. NoRows \in [Days -> Quality]
  BY DEF NoRows, Quality
<1> QED
  BY <1>1, <1>2 DEF NewTask, Task, TaskStates, NoDate

(* Where planning begins is a date.                                        *)
LEMMA FirstMissingType ==
    ASSUME NEW last \in Int, NEW today \in Int
    PROVE  FirstMissing(last, today) \in Int
  BY LookbackAssumption DEF FirstMissing, NoDate

(* The chunks of a backfill lie in the operator's window.                  *)
LEMMA SplitBackfillType ==
    ASSUME NEW frm \in Int, NEW to \in Int, NEW n \in Nat \ {0}
    PROVE  \A c \in SplitBackfill(frm, to, n) : c.frm \in Int /\ c.to \in Int
<1> SUFFICES ASSUME NEW s \in frm..to
             PROVE  s \in Int /\ (IF s + n - 1 < to THEN s + n - 1 ELSE to) \in Int
  BY DEF SplitBackfill
<1> QED
  OBVIOUS

(* Types, and the little about a run's control its next step relies on.    *)
Typed == TypeOK /\ RunsHaveExchange

(* A job's coroutine moves on to a well-formed state.                      *)
LEMMA JobMoves ==
    ASSUME Typed, NEW j \in Jobs, NEW c \in Job,
           job' = [job EXCEPT ![j] = c],
           c.st \in {"plan", "match", "batch"} => c.todo # << >>
    PROVE  job' \in [Jobs -> Job] /\ RunsHaveExchange'
<1>1. job \in [Jobs -> Job]
  BY DEF Typed, TypeOK
<1>2. job' \in [Jobs -> Job]
  BY <1>1
<1>3. ASSUME NEW k \in Jobs, job'[k].st \in {"plan", "match", "batch"}
      PROVE  job'[k].todo # << >>
  BY <1>1, <1>3 DEF Typed, RunsHaveExchange
<1> QED
  BY <1>2, <1>3 DEF RunsHaveExchange

(* A task of the worker moves on to a well-formed state.                   *)
LEMMA TaskMoves ==
    ASSUME Typed, NEW t \in tasks, NEW u \in Task,
           tasks' \subseteq tasks \cup {u}
    PROVE  tasks' \subseteq Task
  BY DEF Typed, TypeOK

(* The daemon and the CLI begin in well-formed states.                     *)
LEMMA TypedInit == Init => Typed
<1> SUFFICES ASSUME Init PROVE Typed
  OBVIOUS
<1>1. 1 \in Days /\ 0 \in 0..MaxDay /\ 0 \in 0..MaxFaults
  BY BoundsAssumption DEF Days
<1>2. bars \in [Instruments -> [Days -> Quality]]
  BY DEF Init, NoRows, Quality
<1>3. job \in [Jobs -> Job] /\ \A j \in Jobs : job[j].st \in {"idle", "read"}
  <2>1. "idle" \in JobStates /\ "read" \in JobStates
    BY DEF JobStates
  <2>2. \A j \in Jobs : Boot(j) \in Job /\ Boot(j).st \in {"idle", "read"}
    BY <2>1, IdleTypes DEF Boot
  <2> QED
    BY <2>2 DEF Init
<1>4. TypeOK
  BY <1>1, <1>2, <1>3 DEF Init, TypeOK, NoDate, Closed
<1>5. RunsHaveExchange
  BY <1>3 DEF RunsHaveExchange
<1> QED
  BY <1>4, <1>5 DEF Typed

(* The steps of jobs.                                                      *)
JobsNext ==
    \E j \in Jobs : StartSync(j) \/ StartCatchUp(j) \/ JobStep(j) \/ StartBackfill(j)

(* The steps of the jobs, an operator's backfill included, keep the types.  *)
LEMMA TypedJobs == Typed /\ JobsNext => Typed'
<1> SUFFICES ASSUME Typed, NEW j \in Jobs,
                    StartSync(j) \/ StartCatchUp(j) \/ JobStep(j) \/ StartBackfill(j)
             PROVE  Typed'
  BY DEF JobsNext
<1>1. /\ day \in Days /\ eod \in BOOLEAN /\ job \in [Jobs -> Job]
      /\ faults \in 0..MaxFaults /\ tasks \subseteq Task
      /\ job[j].st \in {"plan", "match", "batch"} => job[j].todo # << >>
  BY DEF Typed, TypeOK, RunsHaveExchange
<1>2. ASSUME job' \in [Jobs -> Job], RunsHaveExchange', tasks' \subseteq Task, Quiet
      PROVE  Typed'
  BY <1>2 DEF Typed, TypeOK, Quiet, clock, store
<1>3. "idle" \in JobStates /\ "read" \in JobStates /\ "decide" \in JobStates
  BY DEF JobStates
<1>4. /\ Iterate(ExchangeOrder) \in Job
      /\ Iterate(ExchangeOrder).todo # << >>
  BY <1>1, IterateType, ExchangeOrderAssumption
<1>5. CASE StartSync(j)
  BY <1>1, <1>2, <1>4, <1>5, JobMoves DEF StartSync
<1>6. CASE StartCatchUp(j)
  <2>1. At("read") \in Job /\ At("read").st = "read"
    BY <1>3, IdleTypes
  <2> QED
    BY <1>1, <1>2, <1>6, <2>1, JobMoves DEF StartCatchUp
<1>7. CASE ReadWatermark(j)
  <2>1. NewestWatermark \in 0..MaxDay
    BY NewestWatermarkType DEF Typed, TypeOK
  <2>2. At("decide") \in Job /\ At("decide").st = "decide"
    BY <1>3, IdleTypes
  <2>3. Idle \in Job /\ Idle.st = "idle"
    BY <1>3, IdleTypes
  <2> DEFINE c == [At("decide") EXCEPT !.last = NewestWatermark]
  <2>4. c \in Job /\ c.st = "decide"
    BY <2>1, <2>2 DEF Job
  <2> QED
    BY <1>1, <1>2, <1>7, <2>3, <2>4, JobMoves DEF ReadWatermark
<1>8. CASE DecideCatchUp(j)
  <2>1. Idle \in Job /\ Idle.st = "idle"
    BY <1>3, IdleTypes
  <2> QED
    BY <1>1, <1>2, <1>4, <1>8, <2>1, JobMoves DEF DecideCatchUp
<1>9. CASE PickInstruments(j)
  <2> DEFINE found == active \cap Listed(Head(job[j].todo))
             c     == [job[j] EXCEPT !.st = IF found = {} THEN "batch" ELSE "match",
                                     !.picked = found, !.gen = faults]
  <2>1. job[j] \in Job /\ job[j].todo # << >>
    BY <1>1, <1>9 DEF PickInstruments
  <2>2. found \in SUBSET Instruments
    BY DEF Typed, TypeOK
  <2>3. c \in Job /\ c.todo # << >>
    BY <1>1, <2>1, <2>2 DEF Job, JobStates
  <2>4. job' = [job EXCEPT ![j] = c]
    BY <1>9 DEF PickInstruments
  <2>5. job' \in [Jobs -> Job] /\ RunsHaveExchange'
    BY <2>3, <2>4, JobMoves
  <2> QED
    BY <1>1, <1>2, <1>9, <2>5 DEF PickInstruments
<1>10. CASE BuildTasks(j)
  <2> DEFINE today == job[j].through
             due   == {k \in job[j].picked :
                         Due(Head(job[j].todo), wm[k], today)}
             new   == {NewTask(j, i, FirstMissing(wm[i], today), today) : i \in due}
             c     == [job[j] EXCEPT !.st = "batch", !.picked = {}, !.gen = faults]
  <2>1. today \in Int /\ due \subseteq Instruments
    BY <1>1 DEF Job, Typed, TypeOK
  <2>2. \A i \in due : wm[i] \in Int
    BY <2>1, BoundsAssumption DEF Typed, TypeOK
  <2>3. new \subseteq Task
    <3>1. ASSUME NEW i \in due
          PROVE  NewTask(j, i, FirstMissing(wm[i], today), today) \in Task
      <4>1. i \in Instruments /\ FirstMissing(wm[i], today) \in Int
        BY <2>1, <2>2, FirstMissingType
      <4> QED
        BY <1>1, <2>1, <4>1, NewTaskType
    <3> QED
      BY <3>1
  <2>4. tasks' = tasks \cup new /\ Quiet
    BY <1>10 DEF BuildTasks
  <2>5. job[j] \in Job /\ job[j].todo # << >>
    BY <1>1, <1>10 DEF BuildTasks
  <2>6. c \in Job /\ c.todo # << >>
    BY <1>1, <2>5 DEF Job, JobStates
  <2>7. job' = [job EXCEPT ![j] = c]
    BY <1>10 DEF BuildTasks
  <2>8. job' \in [Jobs -> Job] /\ RunsHaveExchange'
    BY <2>6, <2>7, JobMoves
  <2> QED
    BY <1>1, <1>2, <2>3, <2>4, <2>8
<1>11. CASE FinishBatch(j)
  <2> DEFINE rest == Tail(job[j].todo)
  <2>1. job[j].todo \in Seq(Exchanges) /\ job[j].todo # << >>
    BY <1>1, <1>11 DEF FinishBatch, Job
  <2>2. rest \in Seq(Exchanges)
    BY <2>1, HeadTailProperties
  <2>3. rest # << >> => Iterate(rest) \in Job /\ Iterate(rest).todo # << >>
    BY <1>1, <2>2, IterateType
  <2>4. Idle \in Job /\ Idle.st = "idle"
    BY <1>3, IdleTypes
  <2> QED
    BY <1>1, <1>2, <1>11, <2>3, <2>4, JobMoves DEF FinishBatch
<1>12. CASE StartBackfill(j)
  <2>1. PICK ex \in Exchanges, w \in Windows :
          \E picked \in (SUBSET (active \cap Listed(ex))) \ {{}} :
            /\ tasks' = tasks \cup BackfillTasks(j, picked, w)
            /\ job' = [job EXCEPT ![j] =
                     [st |-> "batch", todo |-> <<ex>>, through |-> NoDate,
                      picked |-> {}, last |-> NoDate, gen |-> faults]]
    BY <1>12 DEF StartBackfill
  <2>2. PICK picked \in (SUBSET (active \cap Listed(ex))) \ {{}} :
          /\ tasks' = tasks \cup BackfillTasks(j, picked, w)
          /\ job' = [job EXCEPT ![j] =
                   [st |-> "batch", todo |-> <<ex>>, through |-> NoDate,
                    picked |-> {}, last |-> NoDate, gen |-> faults]]
    BY <2>1
  <2>3. w[1] \in Int /\ w[2] \in Int /\ picked \subseteq Instruments
    BY WindowsAssumption DEF Typed, TypeOK
  <2>4. BackfillTasks(j, picked, w) \subseteq Task
    <3> DEFINE chunks == SplitBackfill(w[1], w[2], BatchDays)
    <3>1. \A c \in chunks : c.frm \in Int /\ c.to \in Int
      BY <2>3, SplitBackfillType, SettingsAssumption
    <3>2. ASSUME NEW q \in picked \X chunks
          PROVE  NewTask(j, q[1], q[2].frm, q[2].to) \in Task
      <4>1. q[1] \in Instruments /\ q[2].frm \in Int /\ q[2].to \in Int
        BY <2>3, <3>1
      <4> QED
        BY <1>1, <4>1, NewTaskType
    <3> QED
      BY <3>2 DEF BackfillTasks
  <2> DEFINE c == [st |-> "batch", todo |-> <<ex>>, through |-> NoDate,
                   picked |-> {}, last |-> NoDate, gen |-> faults]
  <2>5. c \in Job /\ c.todo # << >>
    BY <1>1, BoundsAssumption DEF Job, JobStates, NoDate
  <2>6. job' \in [Jobs -> Job] /\ RunsHaveExchange'
    BY <2>2, <2>5, JobMoves
  <2> QED
    BY <1>1, <1>2, <1>12, <2>2, <2>4, <2>6 DEF StartBackfill
<1> QED
  BY <1>5, <1>6, <1>7, <1>8, <1>9, <1>10, <1>11, <1>12 DEF JobStep

(* Which days a fetch can return: sessions of the window that have begun.  *)
LEMMA AvailableDays ==
    ASSUME Typed, NEW t \in tasks
    PROVE  \A d \in Available(t) :
             d \in Days /\ d <= day /\ t.frm <= d /\ d <= t.to
<1>1. t \in Task /\ day \in Days
  BY DEF Typed, TypeOK
<1>2. t.inst \in Instruments /\ ExchangeOf[t.inst] \in Exchanges
  BY <1>1, InstrumentsAssumption DEF Task
<1> QED
  BY <1>1, <1>2, SessionsAssumption, BoundsAssumption
     DEF Available, TradingDays, Days

(* The worker's steps, the task of each replaced or removed.               *)
LEMMA TypedTasks == ASSUME Typed, NEW t \in tasks, TaskStep(t) PROVE Typed'
<1>1. /\ t \in Task /\ t.inst \in Instruments /\ tasks \subseteq Task
      /\ row \in [Instruments -> [busy : BOOLEAN, err : BOOLEAN]]
  BY DEF Typed, TypeOK, Task
<1>2. ASSUME NoFault, tasks' \subseteq Task,
             row' \in [Instruments -> [busy : BOOLEAN, err : BOOLEAN]],
             lost' \subseteq Instruments, UNCHANGED <<bars, wm, asked>>
      PROVE  Typed'
  BY <1>2 DEF Typed, TypeOK, RunsHaveExchange, NoFault, clock
<1>3. lost \ {t.inst} \subseteq Instruments /\ lost \subseteq Instruments
  BY DEF Typed, TypeOK
<1>4. CASE MarkStarted(t)
  <2>1. [t EXCEPT !.st = "started"] \in Task
    BY <1>1 DEF Task, TaskStates
  <2> QED
    BY <1>1, <1>2, <1>3, <1>4, <2>1 DEF MarkStarted, Becomes
<1>5. CASE Fetch(t)
  <2>1. \E u \in Task : Becomes(t, u) /\ UNCHANGED store /\ NoFault
    <3>1. ASSUME NEW days \in SUBSET Available(t), NEW last \in days,
                 FetchRows(t, days, last)
          PROVE  \E u \in Task : Becomes(t, u) /\ UNCHANGED store /\ NoFault
      <4> DEFINE u == [t EXCEPT !.st = "fetched", !.rows = Served(days),
                                !.last = last]
      <4>1. last \in 0..MaxDay
        BY AvailableDays, BoundsAssumption DEF Days
      <4>2. Served(days) \in [Days -> Quality]
        BY DEF Served, Quality
      <4>3. u \in Task
        BY <1>1, <4>1, <4>2 DEF Task, TaskStates
      <4> QED
        BY <3>1, <4>3 DEF FetchRows
    <3>2. [t EXCEPT !.st = "empty"] \in Task /\ [t EXCEPT !.st = "failed"] \in Task
      BY <1>1 DEF Task, TaskStates
    <3>3. ASSUME FetchNothing(t) \/ FetchFails(t)
          PROVE  \E u \in Task : Becomes(t, u) /\ UNCHANGED store /\ NoFault
      BY <3>2, <3>3 DEF FetchNothing, FetchFails
    <3> QED
      BY <1>5, <3>1, <3>3 DEF Fetch
  <2> QED
    BY <1>1, <1>2, <1>3, <2>1 DEF Becomes, store
<1>6. CASE Store(t)
  <2>1. bars' \in [Instruments -> [Days -> Quality]]
    <3>1. t.rows \in [Days -> Quality] /\ bars \in [Instruments -> [Days -> Quality]]
      BY <1>1 DEF Task, Typed, TypeOK
    <3>2. Upsert(bars[t.inst], t.rows) \in [Days -> Quality]
      BY <1>1, <3>1 DEF Upsert
    <3> QED
      BY <1>6, <3>1, <3>2 DEF Store
  <2>2. wm' \in [Instruments -> 0..MaxDay]
    <3>1. wm \in [Instruments -> 0..MaxDay] /\ t.last \in 0..MaxDay
      BY <1>1 DEF Task, Typed, TypeOK
    <3>2. Greatest(wm[t.inst], LastTs(t)) \in 0..MaxDay
      BY <1>1, <3>1 DEF Greatest, LastTs
    <3> QED
      BY <1>6, <3>1, <3>2 DEF Store
  <2>3. asked' \in [Instruments -> SUBSET Days]
    BY <1>1, <1>6 DEF Store, Typed, TypeOK
  <2>4. row' \in [Instruments -> [busy : BOOLEAN, err : BOOLEAN]]
    BY <1>1, <1>6 DEF Store, Closed
  <2> QED
    BY <1>1, <1>3, <1>6, <2>1, <2>2, <2>3, <2>4
       DEF Store, NoFault, clock, Typed, TypeOK, RunsHaveExchange
<1>7. CASE MarkFinished(t)
  BY <1>1, <1>2, <1>3, <1>7 DEF MarkFinished, Closed
<1>8. CASE MarkError(t)
  BY <1>1, <1>2, <1>3, <1>8 DEF MarkError
<1> QED
  BY <1>4, <1>5, <1>6, <1>7, <1>8 DEF TaskStep

(* Faults, the end of processes and their restart.                         *)
ProcessesNext ==
    Fault \/ DaemonStarts \/ \E j \in Jobs : ExitCli(j)

(* Faults, restarts, CLI exits and seeder runs keep the types.             *)
LEMMA TypedProcesses == Typed /\ ProcessesNext => Typed'
<1> SUFFICES ASSUME Typed, ProcessesNext PROVE Typed'
  OBVIOUS
<1>1. /\ job \in [Jobs -> Job] /\ tasks \subseteq Task /\ lost \subseteq Instruments
      /\ faults \in 0..MaxFaults
  BY DEF Typed, TypeOK
<1>2. \A dead \in SUBSET tasks :
         tasks \ dead \subseteq Task /\ lost \cup Started(dead) \subseteq Instruments
  BY <1>1 DEF Started, Task
<1>3. Strikes => faults' \in 0..MaxFaults
  BY <1>1, BoundsAssumption DEF Strikes
<1>4. /\ Idle \in Job /\ Idle.st = "idle"
      /\ At("exiting") \in Job /\ At("exiting").st = "exiting"
      /\ At("read") \in Job /\ At("read").st = "read"
  BY IdleTypes DEF JobStates
<1>5. ASSUME NEW dead \in SUBSET tasks, Kill(dead),
             job' \in [Jobs -> Job], RunsHaveExchange',
             faults' \in 0..MaxFaults, up' \in BOOLEAN
      PROVE  Typed'
  BY <1>2, <1>5 DEF Kill, clock, Typed, TypeOK
<1>6. ASSUME NEW t \in tasks, HandlerRaises(t)
      PROVE  Typed'
  <2>1. t.job \in Jobs /\ {t} \in SUBSET tasks
    BY <1>1 DEF Task
  <2> DEFINE c == IF t.job \in CliJobs THEN At("exiting") ELSE Idle
  <2>2. c \in Job /\ c.st \notin {"plan", "match", "batch"}
    BY <1>4
  <2>3. job' = [job EXCEPT ![t.job] = c] \/ job' = job
    BY <1>6 DEF HandlerRaises
  <2>4. job' \in [Jobs -> Job] /\ RunsHaveExchange'
    BY <1>1, <2>1, <2>2, <2>3, JobMoves DEF Typed, RunsHaveExchange
  <2> QED
    BY <1>3, <1>5, <1>6, <2>1, <2>4 DEF HandlerRaises, Typed, TypeOK
<1>7. ASSUME NEW j \in Jobs, JobRaises(j)
      PROVE  Typed'
  <2>1. job' \in [Jobs -> Job] /\ RunsHaveExchange'
    BY <1>4, <1>7, JobMoves DEF JobRaises
  <2> QED
    BY <1>3, <1>7, <2>1 DEF JobRaises, clock, store, Typed, TypeOK
<1>8. ASSUME NEW j \in Jobs, ExitCli(j) \/ KillCli(j)
      PROVE  Typed'
  <2>1. job' \in [Jobs -> Job] /\ RunsHaveExchange'
    BY <1>4, <1>8, JobMoves DEF ExitCli, KillCli
  <2>2. Of({j}) \in SUBSET tasks
    BY DEF Of
  <2> QED
    BY <1>1, <1>3, <1>5, <1>8, <2>1, <2>2 DEF ExitCli, KillCli, Typed, TypeOK
<1>9. CASE DaemonStops
  <2>1. job' \in [Jobs -> Job] /\ RunsHaveExchange'
    BY <1>1, <1>4, <1>9 DEF DaemonStops, Typed, RunsHaveExchange
  <2>2. Of(DaemonJobs) \in SUBSET tasks
    BY DEF Of
  <2> QED
    BY <1>3, <1>5, <1>9, <2>1, <2>2 DEF DaemonStops
<1>10. CASE DaemonStarts
  <2>1. \A j \in Jobs : Boot(j) \in Job /\ Boot(j).st \notin {"plan", "match", "batch"}
    BY <1>4 DEF Boot
  <2>2. job' \in [Jobs -> Job] /\ RunsHaveExchange'
    BY <1>1, <1>10, <2>1 DEF DaemonStarts, Typed, RunsHaveExchange
  <2> QED
    BY <1>10, <2>2 DEF DaemonStarts, clock, store, Typed, TypeOK
<1> QED
  BY <1>6, <1>7, <1>8, <1>9, <1>10 DEF ProcessesNext, Fault

(* The clock and the seeders leave the runs alone.                         *)
LEMMA TypedWorld ==
    Typed /\ (Tick \/ \E ex \in Exchanges : Seed(ex)) => Typed'
<1>1. Typed /\ Tick => Typed'
  <2> SUFFICES ASSUME Typed, Tick PROVE Typed'
    OBVIOUS
  <2>1. day' \in Days /\ eod' \in BOOLEAN
    <3>1. day \in 1..MaxDay /\ MaxDay \in Nat
      BY BoundsAssumption DEF Typed, TypeOK, Days
    <3>2. CASE EodPasses
      <4>1. eod' \in BOOLEAN
        BY <3>2 DEF EodPasses
      <4>2. day' = day
        BY <3>2 DEF EodPasses
      <4> QED
        BY <3>1, <4>1, <4>2 DEF Days
    <3>3. CASE Midnight
      <4>1. eod' \in BOOLEAN
        BY <3>3 DEF Midnight
      <4>2. day' = day + 1 /\ day < MaxDay
        BY <3>3 DEF Midnight
      <4> QED
        BY <3>1, <4>1, <4>2 DEF Days
    <3> QED
      BY <3>2, <3>3 DEF Tick
  <2> QED
    BY <2>1 DEF Tick, store, Typed, TypeOK, RunsHaveExchange
<1>2. ASSUME Typed, NEW ex \in Exchanges, Seed(ex) PROVE Typed'
  BY <1>2 DEF Seed, Listed, clock, store, Typed, TypeOK, RunsHaveExchange
<1> QED
  BY <1>1, <1>2

(* Every step of the system is one of the four kinds.                      *)
LEMMA StepKinds ==
    Next => \/ Tick \/ \E ex \in Exchanges : Seed(ex)
            \/ JobsNext \/ ProcessesNext
            \/ \E t \in tasks : TaskStep(t)
  BY DEF Next, SyncNext, JobsNext, ProcessesNext

(* Every step, or stutter, keeps the types.                                *)
LEMMA TypedStep == Typed /\ [Next]_vars => Typed'
<1> SUFFICES ASSUME Typed, [Next]_vars PROVE Typed'
  OBVIOUS
<1>1. CASE Next
  BY <1>1, StepKinds, TypedWorld, TypedJobs, TypedProcesses, TypedTasks
<1>2. CASE UNCHANGED vars
  BY <1>2 DEF vars, Typed, TypeOK, RunsHaveExchange
<1> QED
  BY <1>1, <1>2

(***************************************************************************)
(* Every variable keeps its type, whatever jobs, tasks, operators, seeders *)
(* and faults do.                                                          *)
(***************************************************************************)
THEOREM TypeCorrect == Spec => []TypeOK
<1>1. Typed => TypeOK
  BY DEF Typed
<1> QED
  BY <1>1, TypedInit, TypedStep, PTL DEF Spec

-----------------------------------------------------------------------------
(* The watermark and the bars, with any mixture of runs and backfills.     *)

(* Planning commits nothing; what it adds has not started.                 *)
LEMMA JobsOnlyPlan ==
    ASSUME Typed, JobsNext
    PROVE  Quiet /\ \A u \in tasks' \ tasks : u.st = "queued" /\ u.rows = NoRows
<1> PICK j \in Jobs :
        StartSync(j) \/ StartCatchUp(j) \/ JobStep(j) \/ StartBackfill(j)
  BY DEF JobsNext
<1>1. CASE BuildTasks(j)
  BY <1>1 DEF BuildTasks, NewTask
<1>2. CASE StartBackfill(j)
  <2>1. \A i, frm, to : /\ NewTask(j, i, frm, to).st = "queued"
                        /\ NewTask(j, i, frm, to).rows = NoRows
    BY DEF NewTask
  <2>2. PICK picked, w : tasks' = tasks \cup BackfillTasks(j, picked, w)
    BY <1>2 DEF StartBackfill
  <2> QED
    BY <1>2, <2>1, <2>2 DEF StartBackfill, BackfillTasks
<1> QED
  BY <1>1, <1>2
     DEF StartSync, StartCatchUp, JobStep, ReadWatermark, DecideCatchUp,
         PickInstruments, FinishBatch

(* Faults and restarts commit nothing and only ever drop tasks.            *)
LEMMA ProcessesOnlyDrop ==
    ASSUME Typed, ProcessesNext
    PROVE  tasks' \subseteq tasks /\ UNCHANGED <<day, eod, bars, wm, row, asked>>
<1>1. ASSUME NEW t \in tasks, HandlerRaises(t)
      PROVE  tasks' \subseteq tasks /\ UNCHANGED <<day, eod, bars, wm, row, asked>>
  BY <1>1 DEF HandlerRaises, Kill, clock
<1>2. ASSUME NEW j \in Jobs, JobRaises(j) \/ KillCli(j) \/ ExitCli(j)
      PROVE  tasks' \subseteq tasks /\ UNCHANGED <<day, eod, bars, wm, row, asked>>
  BY <1>2 DEF JobRaises, KillCli, ExitCli, Kill, clock, store
<1>3. CASE DaemonStops
  BY <1>3 DEF DaemonStops, Kill, clock
<1>4. CASE DaemonStarts
  BY <1>4 DEF DaemonStarts, clock, store
<1> QED
  BY <1>1, <1>2, <1>3, <1>4 DEF ProcessesNext, Fault

(* Only Store touches bars, watermarks and what has been asked for.        *)
LEMMA HandlersMove ==
    ASSUME Typed, NEW t \in tasks, TaskStep(t), ~ Store(t)
    PROVE  /\ UNCHANGED <<day, eod, bars, wm, asked>>
           /\ \A u \in tasks' \ tasks :
                /\ u.frm = t.frm /\ u.to = t.to /\ u.inst = t.inst
                /\ \/ u.st # "fetched" /\ u.rows = t.rows
                   \/ \E days \in SUBSET Available(t) : \E last \in days :
                        /\ u.rows = Served(days) /\ u.last = last
                        /\ \A d \in days : d <= last
<1>1. t \in Task
  BY DEF Typed, TypeOK
<1>2. CASE MarkStarted(t)
  BY <1>1, <1>2 DEF MarkStarted, Becomes, NoFault, clock, Task
<1>3. CASE MarkFinished(t) \/ MarkError(t)
  BY <1>3 DEF MarkFinished, MarkError, NoFault, clock
<1>4. CASE FetchNothing(t) \/ FetchFails(t)
  BY <1>1, <1>4 DEF FetchNothing, FetchFails, Becomes, NoFault, clock, store, Task
<1>5. ASSUME NEW days \in SUBSET Available(t), NEW last \in days,
             FetchRows(t, days, last)
      PROVE  /\ UNCHANGED <<day, eod, bars, wm, asked>>
             /\ \A u \in tasks' \ tasks :
                  /\ u.frm = t.frm /\ u.to = t.to /\ u.inst = t.inst
                  /\ u.rows = Served(days) /\ u.last = last
                  /\ \A d \in days : d <= last
  BY <1>1, <1>5 DEF FetchRows, Becomes, NoFault, clock, store, Task
<1> QED
  BY <1>2, <1>3, <1>4, <1>5 DEF TaskStep, Fetch

(* What a fetch brings fits its window.                                    *)
LEMMA FetchedRowsFitStep ==
    Typed /\ FetchedRowsFit /\ [Next]_vars => FetchedRowsFit'
<1> SUFFICES ASSUME Typed, FetchedRowsFit, [Next]_vars,
                    NEW u \in tasks', u.st = "fetched"
             PROVE  /\ u.last \in Days /\ u.rows[u.last] # "none"
                    /\ \A d \in Days : u.rows[d] # "none" => u.frm <= d /\ d <= u.last
  BY DEF FetchedRowsFit, Days
<1>1. CASE u \in tasks
  BY <1>1 DEF FetchedRowsFit
<1>2. CASE u \notin tasks
  <2>1. PICK t \in tasks : TaskStep(t) /\ ~ Store(t)
    <3>1. ~ Tick /\ ~ (\E ex \in Exchanges : Seed(ex)) /\ ~ UNCHANGED vars
      BY <1>2 DEF Tick, Seed, vars
    <3>2. ~ ProcessesNext /\ ~ JobsNext
      BY <1>2, ProcessesOnlyDrop, JobsOnlyPlan
    <3>3. \A t \in tasks : Store(t) => tasks' \subseteq tasks
      BY DEF Store
    <3> QED
      BY <1>2, <3>1, <3>2, <3>3, StepKinds
  <2>2. PICK days \in SUBSET Available(t) :
             \E last \in days : /\ u.rows = Served(days) /\ u.last = last
                               /\ \A d \in days : d <= last
    BY <1>2, <2>1, HandlersMove
  <2>3. \A d \in days : d \in Days /\ t.frm <= d
    BY AvailableDays
  <2>4. u.frm = t.frm
    BY <1>2, <2>1, HandlersMove
  <2>5. u.last \in days /\ u.rows = Served(days) /\ \A d \in days : d <= u.last
    BY <2>2
  <2>6. \A d \in Days : u.rows[d] # "none" <=> d \in days
    BY <2>5 DEF Served
  <2> QED
    BY <2>3, <2>4, <2>5, <2>6
<1> QED
  BY <1>1, <1>2

(* A landing task keeps bars and watermark together.                       *)
LEMMA StoreKeepsNewest ==
    ASSUME Typed, FetchedRowsFit, WatermarkIsNewestBar, NEW t \in tasks, Store(t)
    PROVE  WatermarkIsNewestBar'
<1> SUFFICES ASSUME NEW i \in Instruments
             PROVE  /\ wm'[i] # NoDate => bars'[i][wm'[i]] # "none"
                    /\ \A d \in Days : bars'[i][d] # "none" => d <= wm'[i]
  BY DEF WatermarkIsNewestBar, Days
<1>1. /\ t \in Task /\ t.inst \in Instruments /\ wm \in [Instruments -> 0..MaxDay]
      /\ bars \in [Instruments -> [Days -> Quality]] /\ t.rows \in [Days -> Quality]
  BY DEF Typed, TypeOK, Task
<1>2. /\ t.last \in Days /\ t.rows[t.last] # "none"
      /\ \A d \in Days : t.rows[d] # "none" => d <= t.last
  BY DEF Store, FetchedRowsFit
<1>3. CASE i # t.inst
  BY <1>1, <1>3 DEF Store, WatermarkIsNewestBar
<1>4. CASE i = t.inst
  <2>1. bars'[i] = Upsert(bars[i], t.rows) /\ wm'[i] = Greatest(wm[i], t.last)
    BY <1>1, <1>4 DEF Store, LastTs
  <2>2. \A d \in Days : bars'[i][d] = IF t.rows[d] = "none" THEN bars[i][d] ELSE t.rows[d]
    BY <2>1 DEF Upsert
  <2>3. wm[i] \in 0..MaxDay /\ t.last \in 1..MaxDay /\ MaxDay \in Nat
    BY <1>1, <1>2, BoundsAssumption DEF Days
  <2>4. wm'[i] \in Days /\ wm[i] <= wm'[i] /\ t.last <= wm'[i]
    BY <2>1, <2>3 DEF Greatest, Days
  <2>5. \A d \in Days : bars'[i][d] # "none" => d <= wm'[i]
    <3> SUFFICES ASSUME NEW d \in Days, bars'[i][d] # "none" PROVE d <= wm'[i]
      OBVIOUS
    <3>1. d <= wm[i] \/ d <= t.last
      BY <1>2, <2>2 DEF WatermarkIsNewestBar
    <3>2. d \in Int /\ wm[i] \in Int /\ t.last \in Int /\ wm'[i] \in Int
      BY <2>3, <2>4 DEF Days
    <3> QED
      BY <2>4, <3>1, <3>2
  <2>6. bars'[i][wm'[i]] # "none"
    <3>1. CASE wm[i] < t.last
      <4>1. wm'[i] = t.last
        BY <2>1, <3>1 DEF Greatest
      <4> QED
        BY <1>2, <2>2, <4>1
    <3>2. CASE ~ (wm[i] < t.last)
      <4>1. wm'[i] = wm[i] /\ wm[i] # NoDate
        BY <2>1, <2>3, <3>2 DEF Greatest, NoDate
      <4>2. bars[i][wm[i]] # "none"
        BY <4>1 DEF WatermarkIsNewestBar
      <4> QED
        BY <2>2, <2>4, <4>1, <4>2
    <3> QED
      BY <3>1, <3>2
  <2> QED
    BY <2>5, <2>6
<1> QED
  BY <1>3, <1>4

(* Only the worker's transactions change bars and watermarks.              *)
LEMMA OnlyStoreWrites ==
    ASSUME Typed, [Next]_vars, \A t \in tasks : ~ Store(t)
    PROVE  UNCHANGED <<bars, wm, asked>>
<1>1. Tick \/ (\E ex \in Exchanges : Seed(ex)) => UNCHANGED <<bars, wm, asked>>
  BY DEF Tick, Seed, store
<1>2. JobsNext => UNCHANGED <<bars, wm, asked>>
  BY JobsOnlyPlan DEF Quiet, store
<1>3. ProcessesNext => UNCHANGED <<bars, wm, asked>>
  BY ProcessesOnlyDrop
<1>4. \A t \in tasks : TaskStep(t) => UNCHANGED <<bars, wm, asked>>
  BY HandlersMove
<1>5. UNCHANGED vars => UNCHANGED <<bars, wm, asked>>
  BY DEF vars
<1> QED
  BY <1>1, <1>2, <1>3, <1>4, <1>5, StepKinds

(* Every step keeps the watermark on the newest stored bar.                *)
LEMMA NewestStep ==
    Typed /\ FetchedRowsFit /\ WatermarkIsNewestBar /\ [Next]_vars
        => WatermarkIsNewestBar'
<1> SUFFICES ASSUME Typed, FetchedRowsFit, WatermarkIsNewestBar, [Next]_vars
             PROVE  WatermarkIsNewestBar'
  OBVIOUS
<1>1. CASE \E t \in tasks : Store(t)
  BY <1>1, StoreKeepsNewest
<1>2. CASE \A t \in tasks : ~ Store(t)
  <2>1. UNCHANGED <<bars, wm>>
    BY <1>2, OnlyStoreWrites
  <2> QED
    BY <2>1 DEF WatermarkIsNewestBar, Days
<1> QED
  BY <1>1, <1>2

(* An empty database has no bar and no watermark.                          *)
LEMMA NewestInit == Init => FetchedRowsFit /\ WatermarkIsNewestBar
  BY BoundsAssumption
     DEF Init, FetchedRowsFit, WatermarkIsNewestBar, NoRows, NoDate, Days

(***************************************************************************)
(* The watermark is the newest stored bar, whatever the interleaving of    *)
(* runs, orphaned handlers, backfill chunks, crashes and restarts.         *)
(***************************************************************************)
THEOREM WatermarkSound == Spec => []WatermarkIsNewestBar
  BY TypedInit, TypedStep, NewestInit, FetchedRowsFitStep, NewestStep, PTL DEF Spec

(***************************************************************************)
(* No step removes a bar or moves a watermark back.                        *)
(***************************************************************************)
THEOREM StoreOnlyGrows == Spec => NeverMovesBack
<1> DEFINE Grows == \A i \in Instruments :
                      /\ wm[i] <= wm'[i]
                      /\ \A d \in Days : bars[i][d] # "none" => bars'[i][d] # "none"
<1>1. Typed /\ [Next]_vars => [Grows]_vars
  <2> SUFFICES ASSUME Typed, [Next]_vars, NEW i \in Instruments
               PROVE  /\ wm[i] <= wm'[i]
                      /\ \A d \in Days : bars[i][d] # "none" => bars'[i][d] # "none"
    OBVIOUS
  <2>1. wm[i] \in Int /\ bars \in [Instruments -> [Days -> Quality]]
        /\ wm \in [Instruments -> 0..MaxDay]
    BY BoundsAssumption DEF Typed, TypeOK
  <2>2. CASE \A t \in tasks : ~ Store(t)
    <3>1. UNCHANGED <<bars, wm>>
      BY <2>2, OnlyStoreWrites
    <3> QED
      BY <2>1, <3>1
  <2>3. ASSUME NEW t \in tasks, Store(t)
        PROVE  /\ wm[i] <= wm'[i]
               /\ \A d \in Days : bars[i][d] # "none" => bars'[i][d] # "none"
    <3>1. t.inst \in Instruments /\ t.last \in Int
      BY BoundsAssumption DEF Typed, TypeOK, Task
    <3>2. CASE i # t.inst
      BY <2>1, <2>3, <3>2 DEF Store
    <3>3. CASE i = t.inst
      <4>1. wm'[i] = Greatest(wm[i], t.last) /\ bars'[i] = Upsert(bars[i], t.rows)
        BY <2>1, <2>3, <3>1, <3>3 DEF Store, LastTs
      <4>2. wm[i] <= wm'[i]
        BY <2>1, <3>1, <4>1 DEF Greatest
      <4> QED
        BY <4>1, <4>2 DEF Upsert
    <3> QED
      BY <3>2, <3>3
  <2> QED
    BY <2>2, <2>3
<1> QED
  BY <1>1, TypedInit, TypedStep, PTL DEF Spec, NeverMovesBack

-----------------------------------------------------------------------------
(* Syncs without backfills: no gap and no half-formed bar.                 *)

(* A session that is over stays so.                                        *)
LEMMA FinalStays ==
    ASSUME Typed, [Next]_vars, NEW d \in Int, IsFinal(d)
    PROVE  IsFinal(d)'
<1>1. day \in Int
  BY BoundsAssumption DEF Typed, TypeOK, Days
<1>2. Tick => IsFinal(d)'
  BY <1>1 DEF Tick, EodPasses, Midnight, IsFinal
<1>3. UNCHANGED clock => IsFinal(d)'
  BY DEF clock, IsFinal
<1>4. Tick \/ UNCHANGED clock
  <2>1. JobsNext \/ ProcessesNext => UNCHANGED clock
    BY JobsOnlyPlan, ProcessesOnlyDrop DEF Quiet, clock
  <2>2. \A t \in tasks : TaskStep(t) => UNCHANGED clock
    BY HandlersMove DEF Store, NoFault, clock
  <2>3. (\E ex \in Exchanges : Seed(ex)) \/ UNCHANGED vars => UNCHANGED clock
    BY DEF Seed, vars, clock
  <2> QED
    BY <2>1, <2>2, <2>3, StepKinds
<1> QED
  BY <1>2, <1>3, <1>4

(* A run that turns to an exchange gets a final ceiling.                   *)
LEMMA CeilingSet ==
    ASSUME Typed, [Next]_vars, NEW k \in Jobs, job'[k].st \in {"plan", "match"}
    PROVE  \/ job[k].st \in {"plan", "match"} /\ job'[k].through = job[k].through
           \/ IsFinal(job'[k].through)
<1>1. /\ job \in [Jobs -> Job] /\ day \in Days /\ eod \in BOOLEAN
      /\ \A j \in Jobs : job[j].st \in {"plan", "match", "batch"} =>
            job[j].todo # << >> /\ job[j].todo \in Seq(Exchanges)
  BY DEF Typed, TypeOK, RunsHaveExchange, Job
<1>2. IsFinal(Iterate(ExchangeOrder).through)
  BY <1>1, IterateType, ExchangeOrderAssumption
<1>3. \A j \in Jobs : job[j].st = "batch" /\ Tail(job[j].todo) # << >> =>
         IsFinal(Iterate(Tail(job[j].todo)).through)
  <2> SUFFICES ASSUME NEW j \in Jobs, job[j].st = "batch", Tail(job[j].todo) # << >>
               PROVE  IsFinal(Iterate(Tail(job[j].todo)).through)
    OBVIOUS
  <2>1. Tail(job[j].todo) \in Seq(Exchanges)
    BY <1>1, HeadTailProperties
  <2> QED
    BY <1>1, <2>1, IterateType
<1>4. /\ At("read").st = "read" /\ At("decide").st = "decide"
      /\ At("exiting").st = "exiting" /\ Idle.st = "idle"
  BY IdleTypes DEF JobStates
<1>5. ASSUME JobsNext
      PROVE  \/ job[k].st \in {"plan", "match"} /\ job'[k].through = job[k].through
             \/ IsFinal(job'[k].through)
  <2> PICK j \in Jobs :
          StartSync(j) \/ StartCatchUp(j) \/ JobStep(j) \/ StartBackfill(j)
    BY <1>5 DEF JobsNext
  <2>1. CASE StartSync(j)
    BY <1>1, <1>2, <2>1 DEF StartSync
  <2>2. CASE StartCatchUp(j)
    BY <1>1, <1>4, <2>2 DEF StartCatchUp
  <2>3. CASE ReadWatermark(j)
    <3>1. [At("decide") EXCEPT !.last = NewestWatermark].st = "decide"
      BY <1>4 DEF At
    <3> QED
      BY <1>1, <1>4, <2>3, <3>1 DEF ReadWatermark
  <2>4. CASE DecideCatchUp(j)
    BY <1>1, <1>2, <1>4, <2>4 DEF DecideCatchUp
  <2>5. CASE PickInstruments(j)
    <3>1. job[j].st = "plan" /\ \E st, found :
            job' = [job EXCEPT ![j].st = st, ![j].picked = found, ![j].gen = faults]
      BY <2>5 DEF PickInstruments
    <3>2. job[j] \in Job
      BY <1>1
    <3>3. job'[j].through = job[j].through
      BY <1>1, <3>1, <3>2 DEF Job
    <3> QED
      BY <1>1, <3>1, <3>3
  <2>6. CASE BuildTasks(j)
    <3>1. job' = [job EXCEPT ![j].st = "batch", ![j].picked = {}, ![j].gen = faults]
      BY <2>6 DEF BuildTasks
    <3>2. job[j] \in Job
      BY <1>1
    <3>3. job'[j].st = "batch"
      BY <1>1, <3>1, <3>2 DEF Job
    <3> QED
      BY <1>1, <3>1, <3>3
  <2>7. CASE FinishBatch(j)
    BY <1>1, <1>3, <1>4, <2>7 DEF FinishBatch
  <2>8. CASE StartBackfill(j)
    <3>1. PICK ex \in Exchanges :
            job' = [job EXCEPT ![j] =
                     [st |-> "batch", todo |-> <<ex>>, through |-> NoDate,
                      picked |-> {}, last |-> NoDate, gen |-> faults]]
      BY <2>8 DEF StartBackfill
    <3> QED
      BY <1>1, <3>1
  <2> QED
    BY <2>1, <2>2, <2>3, <2>4, <2>5, <2>6, <2>7, <2>8 DEF JobStep
<1>6. ASSUME ProcessesNext PROVE job'[k] = job[k]
  <2>1. ASSUME NEW t \in tasks, HandlerRaises(t) PROVE job'[k] = job[k]
    BY <1>1, <1>4, <2>1 DEF HandlerRaises
  <2>2. ASSUME NEW j \in Jobs, JobRaises(j) \/ KillCli(j) \/ ExitCli(j)
        PROVE  job'[k] = job[k]
    BY <1>1, <1>4, <2>2 DEF JobRaises, KillCli, ExitCli
  <2>3. CASE DaemonStops
    BY <1>1, <1>4, <2>3 DEF DaemonStops
  <2>4. CASE DaemonStarts
    BY <1>1, <1>4, <2>4 DEF DaemonStarts, Boot
  <2> QED
    BY <1>6, <2>1, <2>2, <2>3, <2>4 DEF ProcessesNext, Fault
<1>7. ASSUME NEW t \in tasks, TaskStep(t) PROVE job' = job
  BY <1>7 DEF TaskStep, Fetch, MarkStarted, FetchRows, FetchNothing, FetchFails,
              Store, MarkFinished, MarkError, NoFault
<1>8. Tick \/ (\E ex \in Exchanges : Seed(ex)) \/ UNCHANGED vars => job' = job
  BY DEF Tick, Seed, vars
<1> QED
  BY <1>5, <1>6, <1>7, <1>8, StepKinds

(* What a sync plans: from the day after the watermark up to the ceiling.  *)
LEMMA SyncOnlyPlansAhead ==
    ASSUME Typed, SyncNext, NEW u \in tasks' \ tasks,
           ~ \E t \in tasks : TaskStep(t)
    PROVE  \E j \in Jobs, i \in Instruments :
             /\ job[j].st = "match" /\ UNCHANGED <<clock, store>>
             /\ u.inst = i /\ u.rows = NoRows /\ u.to = job[j].through
             /\ u.frm = FirstMissing(wm[i], job[j].through)
<1>1. PICK j \in Jobs : StartSync(j) \/ StartCatchUp(j) \/ JobStep(j)
  <2>1. ~ ProcessesNext
    BY ProcessesOnlyDrop
  <2>2. ~ Tick /\ ~ \E ex \in Exchanges : Seed(ex)
    BY DEF Tick, Seed
  <2> QED
    BY <2>1, <2>2 DEF SyncNext, ProcessesNext
<1>2. BuildTasks(j)
  BY <1>1 DEF StartSync, StartCatchUp, JobStep, ReadWatermark, DecideCatchUp,
     PickInstruments, FinishBatch
<1>3. PICK i \in job[j].picked :
        u = NewTask(j, i, FirstMissing(wm[i], job[j].through), job[j].through)
  BY <1>2 DEF BuildTasks
<1>4. i \in Instruments
  BY DEF Typed, TypeOK, Job
<1> QED
  BY <1>2, <1>3, <1>4 DEF BuildTasks, NewTask, Quiet

(* No step plans a ceiling or a window that reaches a bar still moving.     *)
LEMMA CeilingsAreFinalStep ==
    Typed /\ CeilingsAreFinal /\ [SyncNext]_vars => CeilingsAreFinal'
<1> SUFFICES ASSUME Typed, CeilingsAreFinal, [SyncNext]_vars
             PROVE  CeilingsAreFinal'
  OBVIOUS
<1>1. [Next]_vars /\ Typed'
  BY TypedStep DEF Next
<1>2. /\ \A j \in Jobs : job[j].through \in Int /\ job'[j].through \in Int
      /\ \A t \in tasks : t.to \in Int
  BY <1>1 DEF Typed, TypeOK, Job, Task
<1>3. ASSUME NEW j \in Jobs, job'[j].st \in {"plan", "match"}
      PROVE  IsFinal(job[j].through)'
  <2>1. IsFinal(job'[j].through)
    BY <1>1, <1>3, CeilingSet DEF CeilingsAreFinal
  <2>2. ASSUME NEW d \in Int, IsFinal(d) PROVE IsFinal(d)'
    BY <1>1, <2>2, FinalStays
  <2>3. \A d \in Int : IsFinal(d) => (d < day' \/ (d = day' /\ eod'))
    BY <2>2 DEF IsFinal
  <2> QED
    BY <1>2, <2>1, <2>3 DEF IsFinal
<1>4. ASSUME NEW u \in tasks'
      PROVE  /\ u.to \in Int /\ IsFinal(u.to)
             /\ \A d \in Days : u.rows[d] # "partial"
  <2>1. CASE u \in tasks
    BY <1>2, <2>1 DEF CeilingsAreFinal
  <2>2. CASE u \notin tasks /\ \E t \in tasks : TaskStep(t)
    <3>1. PICK t \in tasks : TaskStep(t)
      BY <2>2
    <3>2. ~ Store(t)
      BY <2>2 DEF Store
    <3>3. u.to = t.to /\ t.to \in Int /\ IsFinal(t.to)
      BY <1>2, <2>2, <3>1, <3>2, HandlersMove DEF CeilingsAreFinal
    <3>4. CASE u.rows = t.rows
      BY <3>3, <3>4 DEF CeilingsAreFinal
    <3>5. ASSUME NEW days \in SUBSET Available(t), u.rows = Served(days)
          PROVE  \A d \in Days : u.rows[d] # "partial"
      <4> SUFFICES ASSUME NEW d \in Days, d \in days, d = day, ~ eod PROVE FALSE
        BY <3>5 DEF Served
      <4>1. d <= t.to /\ day \in Int
        BY AvailableDays, BoundsAssumption DEF Days, Typed, TypeOK
      <4> QED
        BY <3>3, <4>1 DEF IsFinal
    <3> QED
      BY <2>2, <3>1, <3>2, <3>3, <3>4, <3>5, HandlersMove
  <2>3. CASE u \notin tasks /\ ~ \E t \in tasks : TaskStep(t)
    <3>1. ~ UNCHANGED vars
      BY <2>3 DEF vars
    <3>2. PICK j \in Jobs : /\ job[j].st = "match" /\ u.to = job[j].through
                            /\ u.rows = NoRows
      BY <2>3, <3>1, SyncOnlyPlansAhead
    <3> QED
      BY <1>2, <3>2 DEF CeilingsAreFinal, NoRows
  <2> QED
    BY <2>1, <2>2, <2>3
<1>5. ASSUME NEW u \in tasks' PROVE IsFinal(u.to)'
  <2>1. ASSUME NEW d \in Int, IsFinal(d) PROVE IsFinal(d)'
    BY <1>1, <2>1, FinalStays
  <2>2. \A d \in Int : IsFinal(d) => (d < day' \/ (d = day' /\ eod'))
    BY <2>1 DEF IsFinal
  <2> QED
    BY <1>4, <2>2 DEF IsFinal
<1> QED
  BY <1>3, <1>4, <1>5 DEF CeilingsAreFinal, Days

(* Only finalised rows are upserted, so no half-formed bar appears.        *)
LEMMA NoHalfFormedStep ==
    Typed /\ CeilingsAreFinal /\ NoHalfFormedBar /\ [Next]_vars => NoHalfFormedBar'
<1> SUFFICES ASSUME Typed, CeilingsAreFinal, NoHalfFormedBar, [Next]_vars,
                    NEW i \in Instruments, NEW d \in Days
             PROVE  bars'[i][d] # "partial"
  BY DEF NoHalfFormedBar, Days
<1>1. bars \in [Instruments -> [Days -> Quality]]
  BY DEF Typed, TypeOK
<1>2. CASE \A t \in tasks : ~ Store(t)
  BY <1>2, OnlyStoreWrites DEF NoHalfFormedBar
<1>3. ASSUME NEW t \in tasks, Store(t) PROVE bars'[i][d] # "partial"
  <2>1. t.rows[d] # "partial" /\ bars[i][d] # "partial"
    BY DEF CeilingsAreFinal, NoHalfFormedBar
  <2>2. bars' = [bars EXCEPT ![t.inst] = Upsert(bars[t.inst], t.rows)]
    BY <1>3 DEF Store
  <2>3. CASE i = t.inst
    BY <1>1, <2>1, <2>2, <2>3 DEF Upsert
  <2> QED
    BY <1>1, <2>1, <2>2, <2>3
<1> QED
  BY <1>2, <1>3

(***************************************************************************)
(* As long as nobody backfills, no half-formed bar is ever stored, however *)
(* long after its plan a task reaches the provider or the database.        *)
(***************************************************************************)
THEOREM BarsAreFinal == SyncSpec => []NoHalfFormedBar
<1>1. Init => CeilingsAreFinal /\ NoHalfFormedBar
  BY IdleTypes DEF Init, Boot, CeilingsAreFinal, NoHalfFormedBar, NoRows, At, Idle
<1>2. [SyncNext]_vars => [Next]_vars
  BY DEF Next
<1> QED
  BY <1>1, <1>2, TypedInit, TypedStep, CeilingsAreFinalStep, NoHalfFormedStep,
     PTL DEF SyncSpec

(* A plan made now starts right behind the watermark or before it.         *)
LEMMA PlanReachesBack ==
    ASSUME Typed, CeilingsAreFinal, NEW j \in Jobs, job[j].st = "match",
           NEW i \in Instruments
    PROVE  FirstMissing(wm[i], job[j].through) <= wm[i] + 1
<1>1. /\ wm[i] \in 0..MaxDay /\ job[j].through \in Int
      /\ day \in 1..MaxDay /\ MaxDay \in Nat /\ Lookback \in Nat
  BY BoundsAssumption, LookbackAssumption DEF Typed, TypeOK, Job, Days
<1>2. job[j].through <= day
  BY <1>1 DEF CeilingsAreFinal, IsFinal
<1> QED
  BY <1>1, <1>2, PeriodAssumption DEF FirstMissing, NoDate

(* GREATEST in mark_sync_success: a watermark never decreases.             *)
LEMMA WatermarkGrows ==
    ASSUME Typed, [Next]_vars, NEW i \in Instruments
    PROVE  wm[i] \in Int /\ wm'[i] \in Int /\ wm[i] <= wm'[i]
<1>1. /\ wm \in [Instruments -> 0..MaxDay] /\ wm' \in [Instruments -> 0..MaxDay]
      /\ MaxDay \in Nat
  BY TypedStep, BoundsAssumption DEF Typed, TypeOK
<1>2. CASE \A t \in tasks : ~ Store(t)
  BY <1>1, <1>2, OnlyStoreWrites
<1>3. ASSUME NEW t \in tasks, Store(t) PROVE wm[i] <= wm'[i]
  <2>1. t.last \in Int /\ wm' = [wm EXCEPT ![t.inst] = Greatest(wm[t.inst], t.last)]
    BY <1>3, BoundsAssumption DEF Store, LastTs, Typed, TypeOK, Task
  <2>2. i = t.inst => wm'[i] = Greatest(wm[i], t.last)
    BY <1>1, <2>1
  <2>3. i # t.inst => wm'[i] = wm[i]
    BY <1>1, <2>1
  <2> QED
    BY <1>1, <2>1, <2>2, <2>3 DEF Greatest
<1> QED
  BY <1>1, <1>2, <1>3

(* Plans keep starting at or before the next day wanted.                   *)
LEMMA PlansReachBackStep ==
    Typed /\ CeilingsAreFinal /\ PlansReachBack /\ [SyncNext]_vars => PlansReachBack'
<1> SUFFICES ASSUME Typed, CeilingsAreFinal, PlansReachBack, [SyncNext]_vars,
                    NEW u \in tasks'
             PROVE  u.frm <= wm'[u.inst] + 1
  BY DEF PlansReachBack
<1>1. [Next]_vars /\ Typed'
  BY TypedStep DEF Next
<1>2. u.inst \in Instruments /\ u.frm \in Int
  BY <1>1 DEF Typed, TypeOK, Task
<1>3. wm[u.inst] \in Int /\ wm'[u.inst] \in Int /\ wm[u.inst] <= wm'[u.inst]
  BY <1>1, <1>2, WatermarkGrows
<1>4. u.frm <= wm[u.inst] + 1
  <2>1. CASE u \in tasks
    BY <2>1 DEF PlansReachBack
  <2>2. CASE u \notin tasks /\ \E t \in tasks : TaskStep(t)
    <3>1. PICK t \in tasks : TaskStep(t) /\ ~ Store(t)
      BY <2>2 DEF Store
    <3> QED
      BY <2>2, <3>1, HandlersMove DEF PlansReachBack
  <2>3. CASE u \notin tasks /\ ~ \E t \in tasks : TaskStep(t)
    <3>1. ~ UNCHANGED vars
      BY <2>3 DEF vars
    <3>2. PICK j \in Jobs, i \in Instruments :
            /\ job[j].st = "match" /\ u.inst = i
            /\ u.frm = FirstMissing(wm[i], job[j].through)
      BY <2>3, <3>1, SyncOnlyPlansAhead
    <3> QED
      BY <3>2, PlanReachesBack
  <2> QED
    BY <2>1, <2>2, <2>3
<1> QED
  BY <1>2, <1>3, <1>4

(* What landing means for the days asked for.                              *)
LEMMA StoreExtendsAsked ==
    ASSUME Typed, FetchedRowsFit, PlansReachBack, AskedUpToWatermark,
           NEW t \in tasks, Store(t)
    PROVE  AskedUpToWatermark'
<1> SUFFICES ASSUME NEW i \in Instruments PROVE asked'[i] = 1..wm'[i]
  BY DEF AskedUpToWatermark
<1>1. /\ t.inst \in Instruments /\ t.frm \in Int /\ t.last \in 1..MaxDay
      /\ MaxDay \in Nat /\ wm \in [Instruments -> 0..MaxDay]
      /\ asked \in [Instruments -> SUBSET Days]
  BY BoundsAssumption DEF Store, FetchedRowsFit, Typed, TypeOK, Task, Days
<1>2. asked[i] = 1..wm[i] /\ t.frm <= wm[t.inst] + 1
  BY DEF AskedUpToWatermark, PlansReachBack
<1>3. CASE i # t.inst
  BY <1>1, <1>2, <1>3 DEF Store
<1>4. CASE i = t.inst
  <2> DEFINE new == {d \in Days : t.frm <= d /\ d <= t.last}
             w   == Greatest(wm[i], t.last)
  <2>1. asked'[i] = asked[i] \cup new /\ wm'[i] = w
    BY <1>1, <1>4 DEF Store, LastTs
  <2>2. wm[i] \in 0..MaxDay /\ w \in 1..MaxDay
    BY <1>1 DEF Greatest
  <2>3. ASSUME NEW d \in 1..wm[i] PROVE d \in 1..w
    BY <1>1, <2>2, <2>3 DEF Greatest
  <2>4. ASSUME NEW d \in new PROVE d \in 1..w
    BY <1>1, <2>2, <2>4 DEF Greatest, Days
  <2>5. ASSUME NEW d \in 1..w PROVE d \in 1..wm[i] \/ d \in new
    BY <1>1, <1>2, <1>4, <2>2, <2>5 DEF Greatest, Days
  <2> QED
    BY <1>2, <2>1, <2>3, <2>4, <2>5
<1> QED
  BY <1>3, <1>4

(* A stored fetch extends the days accounted for without a seam.           *)
LEMMA AskedStep ==
    Typed /\ FetchedRowsFit /\ PlansReachBack /\ AskedUpToWatermark /\ [Next]_vars
        => AskedUpToWatermark'
<1> SUFFICES ASSUME Typed, FetchedRowsFit, PlansReachBack, AskedUpToWatermark,
                    [Next]_vars
             PROVE  AskedUpToWatermark'
  OBVIOUS
<1>1. CASE \E t \in tasks : Store(t)
  BY <1>1, StoreExtendsAsked
<1>2. CASE \A t \in tasks : ~ Store(t)
  BY <1>2, OnlyStoreWrites DEF AskedUpToWatermark
<1> QED
  BY <1>1, <1>2

(***************************************************************************)
(* The inductive invariant of syncs without backfills.                     *)
(***************************************************************************)
THEOREM SyncInductive == SyncSpec => [](Typed /\ SyncInvariant)
<1>1. Init => Typed /\ SyncInvariant
  <2> SUFFICES ASSUME Init PROVE Typed /\ SyncInvariant
    OBVIOUS
  <2>1. Typed /\ FetchedRowsFit /\ WatermarkIsNewestBar
    BY TypedInit, NewestInit
  <2>2. CeilingsAreFinal /\ NoHalfFormedBar
    BY IdleTypes DEF Init, Boot, CeilingsAreFinal, NoHalfFormedBar, NoRows, At, Idle
  <2>3. PlansReachBack /\ AskedUpToWatermark
    BY DEF Init, PlansReachBack, AskedUpToWatermark, NoDate
  <2> QED
    BY <2>1, <2>2, <2>3 DEF SyncInvariant, Typed
<1>2. Typed /\ SyncInvariant /\ [SyncNext]_vars => (Typed /\ SyncInvariant)'
  <2> SUFFICES ASSUME Typed, SyncInvariant, [SyncNext]_vars
               PROVE  Typed' /\ SyncInvariant'
    OBVIOUS
  <2>1. [Next]_vars
    BY DEF Next
  <2>2. Typed' /\ RunsHaveExchange'
    BY <2>1, TypedStep DEF Typed
  <2>3. FetchedRowsFit' /\ WatermarkIsNewestBar'
    BY <2>1, FetchedRowsFitStep, NewestStep DEF SyncInvariant
  <2>4. CeilingsAreFinal' /\ NoHalfFormedBar'
    BY <2>1, CeilingsAreFinalStep, NoHalfFormedStep DEF SyncInvariant
  <2>5. PlansReachBack' /\ AskedUpToWatermark'
    BY <2>1, PlansReachBackStep, AskedStep DEF SyncInvariant
  <2> QED
    BY <2>2, <2>3, <2>4, <2>5 DEF SyncInvariant
<1> QED
  BY <1>1, <1>2, PTL DEF SyncSpec

(***************************************************************************)
(* As long as nobody backfills, no session behind a watermark was skipped. *)
(***************************************************************************)
THEOREM NoGapBehindWatermark == SyncSpec => []NoSilentGap
<1>1. Typed /\ SyncInvariant => NoSilentGap
  <2> SUFFICES ASSUME Typed, SyncInvariant, NEW i \in Instruments,
                      NEW d \in Sessions[ExchangeOf[i]], d <= wm[i]
               PROVE  d \in asked[i]
    BY DEF NoSilentGap
  <2>1. d \in Nat \ {0} /\ wm[i] \in Int
    BY SessionsAssumption, InstrumentsAssumption, BoundsAssumption
       DEF Typed, TypeOK
  <2> QED
    BY <2>1 DEF SyncInvariant, AskedUpToWatermark
<1> QED
  BY <1>1, SyncInductive, PTL

-----------------------------------------------------------------------------
(* Rows in progress.                                                       *)

LEMMA BusyStep == Typed /\ BusyRowsAreWorkedOn /\ [Next]_vars => BusyRowsAreWorkedOn'
<1> SUFFICES ASSUME Typed, BusyRowsAreWorkedOn, [Next]_vars,
                    NEW i \in Instruments, row'[i].busy
             PROVE  i \in lost' \/ \E t \in tasks' : t.inst = i /\ t.st # "queued"
  BY DEF BusyRowsAreWorkedOn
<1>1. row \in [Instruments -> [busy : BOOLEAN, err : BOOLEAN]]
  BY DEF Typed, TypeOK
<1>2. row[i].busy => i \in lost \/ \E t \in tasks : t.inst = i /\ t.st # "queued"
  BY DEF BusyRowsAreWorkedOn
<1>3. ASSUME row' = row, lost \subseteq lost', tasks \subseteq tasks'
      PROVE  i \in lost' \/ \E t \in tasks' : t.inst = i /\ t.st # "queued"
  BY <1>2, <1>3
<1>4. ASSUME NEW dead \in SUBSET tasks, Kill(dead)
      PROVE  i \in lost' \/ \E t \in tasks' : t.inst = i /\ t.st # "queued"
  <2>1. \A t \in dead : t.st # "queued" => t.inst \in lost'
    BY <1>4 DEF Kill, Started
  <2> QED
    BY <1>2, <1>4, <2>1 DEF Kill
<1>5. CASE JobsNext
  <2>1. row' = row /\ lost' = lost
    BY <1>5, JobsOnlyPlan DEF Quiet, store
  <2>2. tasks \subseteq tasks'
    BY <1>5 DEF JobsNext, JobStep, StartSync, StartCatchUp, ReadWatermark,
                DecideCatchUp, PickInstruments, BuildTasks, FinishBatch,
                StartBackfill
  <2> QED
    BY <1>3, <2>1, <2>2
<1>6. CASE ProcessesNext
  <2>1. ASSUME NEW t \in tasks, HandlerRaises(t)
        PROVE  i \in lost' \/ \E u \in tasks' : u.inst = i /\ u.st # "queued"
    BY <1>4, <2>1 DEF HandlerRaises
  <2>2. ASSUME NEW j \in Jobs, KillCli(j) \/ ExitCli(j)
        PROVE  i \in lost' \/ \E u \in tasks' : u.inst = i /\ u.st # "queued"
    <3>1. Of({j}) \in SUBSET tasks
      BY DEF Of
    <3> QED
      BY <1>4, <2>2, <3>1 DEF KillCli, ExitCli
  <2>3. CASE DaemonStops
    <3>1. Of(DaemonJobs) \in SUBSET tasks
      BY DEF Of
    <3> QED
      BY <1>4, <2>3, <3>1 DEF DaemonStops
  <2>4. (\E j \in Jobs : JobRaises(j)) \/ DaemonStarts =>
          row' = row /\ lost' = lost /\ tasks' = tasks
    BY DEF JobRaises, DaemonStarts, store
  <2> QED
    BY <1>3, <1>6, <2>1, <2>2, <2>3, <2>4 DEF ProcessesNext, Fault
<1>7. ASSUME NEW t \in tasks, TaskStep(t)
      PROVE  i \in lost' \/ \E u \in tasks' : u.inst = i /\ u.st # "queued"
  <2>1. t \in Task
    BY DEF Typed, TypeOK
  <2>2. CASE MarkStarted(t)
    <3> DEFINE v == [t EXCEPT !.st = "started"]
    <3>1. v \in tasks' /\ v.inst = t.inst /\ v.st = "started"
      BY <2>1, <2>2 DEF MarkStarted, Becomes, Task
    <3>2. CASE i = t.inst
      BY <3>1, <3>2
    <3>3. CASE i # t.inst
      <4>1. row'[i] = row[i] /\ lost' = lost /\ tasks \ {t} \subseteq tasks'
        BY <1>1, <2>2, <3>3 DEF MarkStarted, Becomes
      <4> QED
        BY <1>2, <3>3, <4>1
    <3> QED
      BY <3>2, <3>3
  <2>3. CASE Fetch(t)
    <3>1. /\ row' = row /\ lost' = lost /\ tasks \ {t} \subseteq tasks'
          /\ \E u \in tasks' : u.inst = t.inst /\ u.st # "queued"
      <4>1. ASSUME NEW days, NEW last, FetchRows(t, days, last)
            PROVE  /\ row' = row /\ lost' = lost /\ tasks \ {t} \subseteq tasks'
                   /\ \E u \in tasks' : u.inst = t.inst /\ u.st # "queued"
        <5> DEFINE v == [t EXCEPT !.st = "fetched", !.rows = Served(days),
                                  !.last = last]
        <5>1. v \in tasks' /\ v.inst = t.inst /\ v.st = "fetched"
          BY <2>1, <4>1 DEF FetchRows, Becomes, Task
        <5> QED
          BY <4>1, <5>1 DEF FetchRows, Becomes, store
      <4>2. ASSUME FetchNothing(t) \/ FetchFails(t)
            PROVE  /\ row' = row /\ lost' = lost /\ tasks \ {t} \subseteq tasks'
                   /\ \E u \in tasks' : u.inst = t.inst /\ u.st # "queued"
        <5>1. PICK st \in {"empty", "failed"} : Becomes(t, [t EXCEPT !.st = st])
          BY <4>2 DEF FetchNothing, FetchFails
        <5> DEFINE v == [t EXCEPT !.st = st]
        <5>2. v \in tasks' /\ v.inst = t.inst /\ v.st # "queued"
          BY <2>1, <5>1 DEF Becomes, Task
        <5> QED
          BY <4>2, <5>1, <5>2 DEF FetchNothing, FetchFails, Becomes, store
      <4> QED
        BY <2>3, <4>1, <4>2 DEF Fetch
    <3> QED
      BY <1>2, <3>1
  <2>4. CASE Store(t) \/ MarkFinished(t) \/ MarkError(t)
    <3>1. tasks' = tasks \ {t} /\ lost' = lost \ {t.inst}
          /\ \E r : r.busy = FALSE /\ row' = [row EXCEPT ![t.inst] = r]
      BY <2>4 DEF Store, MarkFinished, MarkError, Closed
    <3>2. t.inst \in Instruments
      BY <2>1 DEF Task
    <3>3. i # t.inst /\ row'[i] = row[i]
      BY <1>1, <3>1, <3>2
    <3> QED
      BY <1>2, <3>1, <3>3
  <2> QED
    BY <1>7, <2>2, <2>3, <2>4 DEF TaskStep
<1>8. Tick \/ (\E ex \in Exchanges : Seed(ex)) \/ UNCHANGED vars =>
        row' = row /\ lost' = lost /\ tasks' = tasks
  BY DEF Tick, Seed, vars, store
<1> QED
  BY <1>3, <1>5, <1>6, <1>7, <1>8, StepKinds

(***************************************************************************)
(* A row in progress is being worked on, or a fault cut its handler off.   *)
(***************************************************************************)
THEOREM RowsAreClosed == Spec => []BusyRowsAreWorkedOn
<1>1. Init => BusyRowsAreWorkedOn
  BY DEF Init, BusyRowsAreWorkedOn, Closed
<1> QED
  BY <1>1, TypedInit, TypedStep, BusyStep, PTL DEF Spec

-----------------------------------------------------------------------------
(* The engine implements the ledger.                                       *)

(* A task that lands enters its rows into the ledger.                      *)
LEMMA StoreEnters ==
    ASSUME Typed, SyncInvariant, NEW t \in tasks, Store(t)
    PROVE  Ledger!Next
<1> DEFINE i    == t.inst
           from == IF t.frm < 1 THEN 1 ELSE t.frm
           days == {d \in Days : t.rows[d] # "none"}
<1>1. /\ i \in Instruments /\ t.frm \in Int /\ t.last \in 1..MaxDay
      /\ MaxDay \in Nat /\ wm \in [Instruments -> 0..MaxDay]
      /\ t.rows \in [Days -> Quality] /\ bars \in [Instruments -> [Days -> Quality]]
      /\ asked \in [Instruments -> SUBSET Days]
  BY BoundsAssumption
     DEF Store, SyncInvariant, FetchedRowsFit, Typed, TypeOK, Task, Days
<1>2. /\ t.frm <= wm[i] + 1 /\ t.rows[t.last] # "none"
      /\ \A d \in Days : t.rows[d] # "none" => t.frm <= d /\ d <= t.last
      /\ \A d \in Days : t.rows[d] # "partial"
  BY DEF Store, SyncInvariant, PlansReachBack, FetchedRowsFit, CeilingsAreFinal
<1>3. t.frm <= t.last
  BY <1>1, <1>2 DEF Days
<1>4. wm[i] \in 0..MaxDay
  BY <1>1
<1>5. /\ from \in Days /\ t.last \in Days /\ from <= wm[i] + 1 /\ from <= t.last
  BY <1>1, <1>2, <1>3, <1>4 DEF Days
<1>6. days \in SUBSET (from..t.last) /\ t.last \in days
  BY <1>1, <1>2, <1>5 DEF Days
<1>7. bars' = [bars EXCEPT ![i] =
                 [d \in Days |-> IF d \in days THEN "final" ELSE bars[i][d]]]
  <2>1. \A d \in Days : t.rows[d] \in {"none", "final"}
    BY <1>1, <1>2 DEF Quality
  <2>2. Upsert(bars[i], t.rows) =
          [d \in Days |-> IF d \in days THEN "final" ELSE bars[i][d]]
    BY <2>1 DEF Upsert
  <2> QED
    BY <2>2 DEF Store
<1>8. wm' = [wm EXCEPT ![i] = IF wm[i] < t.last THEN t.last ELSE wm[i]]
  BY DEF Store, Greatest, LastTs
<1>9. asked' = [asked EXCEPT ![i] = asked[i] \cup from..t.last]
  <2>1. {d \in Days : t.frm <= d /\ d <= t.last} = from..t.last
    BY <1>1, <1>5 DEF Days
  <2> QED
    BY <2>1 DEF Store
<1>10. Ledger!Enter(i, from, t.last)
  BY <1>5, <1>6, <1>7, <1>8, <1>9, Zenon DEF Ledger!Enter, Ledger!Days, Days
<1> QED
  BY <1>1, <1>5, <1>10 DEF Ledger!Next, Ledger!Days, Days

(***************************************************************************)
(* SyncEngine implements SyncLedger: for a reader of the database, a run   *)
(* of any jobs, tasks and faults looks like a sequence of ledger entries.  *)
(***************************************************************************)
THEOREM EngineKeepsLedger == SyncSpec => KeepsLedger
<1>1. Init => Ledger!Init
  BY DEF Init, Ledger!Init, Ledger!Days, Days, NoRows, NoDate
<1>2. Typed /\ SyncInvariant /\ [SyncNext]_vars => [Ledger!Next]_(Ledger!vars)
  <2> SUFFICES ASSUME Typed, SyncInvariant, [SyncNext]_vars
               PROVE  Ledger!Next \/ UNCHANGED Ledger!vars
    OBVIOUS
  <2>1. CASE \E t \in tasks : Store(t)
    BY <2>1, StoreEnters
  <2>2. CASE \A t \in tasks : ~ Store(t)
    BY <2>2, OnlyStoreWrites DEF Next, Ledger!vars
  <2> QED
    BY <2>1, <2>2
<1> QED
  BY <1>1, <1>2, SyncInductive, PTL DEF SyncSpec, KeepsLedger, Ledger!Spec
=============================================================================
