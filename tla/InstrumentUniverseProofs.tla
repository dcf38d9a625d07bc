---------------------- MODULE InstrumentUniverseProofs ----------------------
(***************************************************************************)
(* Whatever seeders overlap, an exchange's active instruments are those of *)
(* one archive: proved for every universe, calendar, number of attempts    *)
(* and bound, provided any two archives of an exchange share a row.        *)
(***************************************************************************)
EXTENDS UniverseRefinement, SequenceTheorems, CalendarProofs, TLAPS

-----------------------------------------------------------------------------
(* Fresh runs: no transaction, nothing locked.                             *)

(* A seeder that turns to its next exchange, or is done, holds no rows.    *)
LEMMA SeedNextUntouched ==
    ASSUME day \in Days, NEW todo \in Seq(Exchanges)
    PROVE  /\ SeedNext(todo) \in Seeding /\ Untouched(SeedNext(todo))
           /\ IdleSeed \in Seeding /\ Untouched(IdleSeed)
<1>1. IdleSeed \in Seeding /\ Untouched(IdleSeed)
  BY BoundsAssumption, EmptySeq DEF IdleSeed, Seeding, Untouched
<1>2. CASE todo = << >>
  BY <1>1, <1>2 DEF SeedNext
<1>3. CASE todo # << >>
  <2>1. Head(todo) \in Exchanges /\ day + 1 \in Int
    BY <1>3, HeadTailProperties DEF Days
  <2>2. Target(Head(todo)) \in Int
    BY <2>1, PrevTradingDayType DEF Target
  <2>3. SeedNext(todo) = [st |-> "fetch", todo |-> todo,
                          target |-> Target(Head(todo)), tries |-> 0,
                          rows |-> {}, wrote |-> {}]
    BY <1>3 DEF SeedNext, IdleSeed
  <2> QED
    BY <1>1, <1>3, <2>2, <2>3, BoundsAssumption DEF Seeding, Untouched
<1> QED
  BY <1>2, <1>3

(* So does one whose exchange failed.                                      *)
LEMMA AfterFailureUntouched ==
    ASSUME day \in Days, NEW j \in Jobs, seed[j] \in Seeding, seed[j].todo # << >>
    PROVE  AfterFailure(j) \in Seeding /\ Untouched(AfterFailure(j))
<1>1. Tail(seed[j].todo) \in Seq(Exchanges)
  BY HeadTailProperties DEF Seeding
<1> QED
  BY <1>1, SeedNextUntouched DEF AfterFailure

(* A published archive stays published, and is that of a day considered.   *)
LEMMA PublishedDay ==
    ASSUME day \in Days, NEW ex \in Exchanges, NEW d, Published(ex, d)
    PROVE  d \in Days
  BY SessionsAssumption, BoundsAssumption DEF Published, Days

(* A seeder's record, and the exchange it is at.                           *)
LEMMA RunTypes ==
    ASSUME TypeOK, NEW j \in Jobs
    PROVE  /\ day \in Days /\ seed[j] \in Seeding
           /\ seed[j].todo # << >> =>
                Current(j) \in Exchanges /\ Tail(seed[j].todo) \in Seq(Exchanges)
  BY HeadTailProperties DEF TypeOK, Seeding, Current

-----------------------------------------------------------------------------
(* The steps that leave the table alone.                                   *)

(* The nontemporal invariants of one seeder depend on its own record, the  *)
(* table and the clock only.                                               *)
LEMMA SameTable ==
    ASSUME UniverseInvariant, UNCHANGED <<clock, table>>,
           up' \in BOOLEAN, faults' \in 0..MaxFaults,
           seed' \in [Jobs -> Seeding], LocksAreExclusive',
           \A j \in Jobs : \/ seed'[j] = seed[j]
                           \/ Untouched(seed'[j])
                           \/ (HasArchive(j) /\ (Upserting(j) \/ Deactivating(j)))'
    PROVE  UniverseInvariant'
<1>1. TypeOK' /\ ActiveIsKnown' /\ ListingIsOneArchive'
  BY DEF UniverseInvariant, TypeOK, ActiveIsKnown, ListingIsOneArchive,
         Active, Published, clock
<1>2. ASSUME NEW j \in Jobs, seed'[j] = seed[j]
      PROVE  (Untouched(seed[j]) \/ (HasArchive(j) /\ (Upserting(j) \/ Deactivating(j))))'
  BY <1>2 DEF UniverseInvariant, SeedersInOrder, HasArchive, Upserting,
              Deactivating, Content, Current, Published, clock
<1>3. SeedersInOrder'
  BY <1>2 DEF SeedersInOrder
<1> QED
  BY <1>1, <1>3 DEF UniverseInvariant

(* Seeders that are started, fail, are killed or try again.                *)
LEMMA Resets ==
    ASSUME UniverseInvariant, UNCHANGED <<clock, table>>,
           up' \in BOOLEAN, faults' \in 0..MaxFaults,
           seed' \in [Jobs -> Seeding],
           \A j \in Jobs : seed'[j] = seed[j] \/ Untouched(seed'[j])
    PROVE  UniverseInvariant'
<1>1. \A j \in Jobs : seed'[j].wrote \subseteq seed[j].wrote
  BY DEF Untouched
<1>2. LocksAreExclusive'
  BY <1>1 DEF UniverseInvariant, LocksAreExclusive
<1> QED
  BY <1>2, SameTable

(* One seeder moves on with a fresh record.                                *)
LEMMA OneResets ==
    ASSUME UniverseInvariant, NEW j \in Jobs, NEW s \in Seeding, Untouched(s),
           seed' = [seed EXCEPT ![j] = s], UNCHANGED <<clock, table>>,
           up' \in BOOLEAN, faults' \in 0..MaxFaults
    PROVE  UniverseInvariant'
<1>1. seed \in [Jobs -> Seeding]
  BY DEF UniverseInvariant, TypeOK
<1>2. seed' \in [Jobs -> Seeding]
  BY <1>1
<1>3. \A k \in Jobs : seed'[k] = seed[k] \/ Untouched(seed'[k])
  BY <1>1
<1> QED
  BY <1>2, <1>3, Resets

(* Every state of a seeder with rows or with a transaction has a todo.     *)
LEMMA BusyHasTodo ==
    ASSUME UniverseInvariant, NEW j \in Jobs
    PROVE  /\ seed[j].st # "idle" => seed[j].todo # << >>
           /\ seed[j].rows # {} => seed[j].st \in {"upsert", "deactivate"}
  BY DEF UniverseInvariant, SeedersInOrder, Untouched, HasArchive, Upserting,
         Deactivating

-----------------------------------------------------------------------------
(* Each step of a seeder.                                                  *)

(* A download begins the transaction: nothing is written yet.              *)
LEMMA DownloadKeeps ==
    ASSUME UniverseInvariant, NEW j \in Jobs, Download(j)
    PROVE  UniverseInvariant'
<1> DEFINE s == [seed[j] EXCEPT !.st = "upsert", !.rows = Content(j)]
<1>1. /\ seed[j] \in Seeding /\ seed \in [Jobs -> Seeding]
      /\ seed[j].todo # << >> /\ Current(j) \in Exchanges /\ day \in Days
      /\ up \in BOOLEAN /\ faults \in 0..MaxFaults
  BY BusyHasTodo, RunTypes DEF UniverseInvariant, TypeOK, Download
<1>2. seed[j].wrote = {}
  BY DEF UniverseInvariant, SeedersInOrder, Untouched, Upserting, Deactivating,
         Download
<1>3. seed[j].target \in Days
  BY <1>1, PublishedDay DEF Download
<1>4. Content(j) \subseteq Instruments
  BY <1>1, <1>3, UniverseAssumption DEF Content
<1>5. s \in Seeding /\ seed' = [seed EXCEPT ![j] = s] /\ UNCHANGED <<clock, up, table, faults>>
  BY <1>1, <1>4 DEF Download, OnlySeed, Seeding
<1>6. /\ seed' \in [Jobs -> Seeding] /\ \A k \in Jobs \ {j} : seed'[k] = seed[k]
      /\ seed'[j] = s /\ s.st = "upsert" /\ s.rows = Content(j)
      /\ s.wrote = seed[j].wrote /\ s.todo = seed[j].todo /\ s.target = seed[j].target
  BY <1>1, <1>5 DEF Seeding
<1>7. LocksAreExclusive'
  BY <1>2, <1>6 DEF UniverseInvariant, LocksAreExclusive
<1>8. (HasArchive(j) /\ Upserting(j))'
  BY <1>1, <1>2, <1>5, <1>6
     DEF HasArchive, Upserting, Content, Current, Published, Download, clock
<1> QED
  BY <1>1, <1>5, <1>6, <1>7, <1>8, SameTable

(* A statement takes a row only if no other transaction has it.            *)
LEMMA WriteRowKeeps ==
    ASSUME UniverseInvariant, NEW j \in Jobs, NEW i \in Instruments, WriteRow(j, i)
    PROVE  UniverseInvariant'
<1> DEFINE s == [seed[j] EXCEPT !.rows = seed[j].rows \ {i},
                                !.wrote = seed[j].wrote \cup {i}]
<1>1. /\ seed[j] \in Seeding /\ seed \in [Jobs -> Seeding]
      /\ up \in BOOLEAN /\ faults \in 0..MaxFaults
  BY DEF UniverseInvariant, TypeOK
<1>2. s \in Seeding /\ seed' = [seed EXCEPT ![j] = s] /\ UNCHANGED <<clock, up, table, faults>>
  BY <1>1 DEF WriteRow, OnlySeed, Seeding
<1>3. /\ seed' \in [Jobs -> Seeding] /\ \A k \in Jobs \ {j} : seed'[k] = seed[k]
      /\ seed'[j] = s /\ s.wrote = seed[j].wrote \cup {i}
  BY <1>1, <1>2 DEF Seeding
<1>4. LocksAreExclusive'
  <2>1. \A k \in Jobs \ {j} : seed[j].wrote \cap seed[k].wrote = {} /\ i \notin seed[k].wrote
    BY DEF UniverseInvariant, LocksAreExclusive, WriteRow, Free
  <2>2. \A k \in Jobs \ {j} : seed'[j].wrote \cap seed'[k].wrote = {}
    BY <1>3, <2>1
  <2> QED
    BY <1>3, <2>2 DEF UniverseInvariant, LocksAreExclusive
<1>5. HasArchive(j) /\ (Upserting(j) \/ Deactivating(j))
  BY DEF UniverseInvariant, SeedersInOrder, Untouched, WriteRow
<1>6. s.st = seed[j].st /\ s.todo = seed[j].todo /\ s.target = seed[j].target
      /\ s.rows \cup s.wrote = seed[j].rows \cup seed[j].wrote
      /\ seed[j].wrote \subseteq s.wrote
  BY <1>1 DEF Seeding, WriteRow
<1>7. HasArchive(j)'
  BY <1>2, <1>3, <1>5, <1>6 DEF HasArchive, Content, Current, Published, clock
<1>8. Upserting(j) => Upserting(j)'
  BY <1>3, <1>6 DEF Upserting, Content, Current
<1>9. Deactivating(j) => Deactivating(j)'
  BY <1>2, <1>3, <1>6 DEF Deactivating, Content, Current
<1> QED
  BY <1>1, <1>2, <1>3, <1>4, <1>5, <1>7, <1>8, <1>9, SameTable

(* The second statement sees every committed row.                          *)
LEMMA BeginDeactivateKeeps ==
    ASSUME UniverseInvariant, NEW j \in Jobs, BeginDeactivate(j)
    PROVE  UniverseInvariant'
<1> DEFINE due == {i \in Listed(Current(j)) : table[i].known} \ Content(j)
           s == [seed[j] EXCEPT !.st = "deactivate", !.rows = due]
<1>1. /\ seed[j] \in Seeding /\ seed \in [Jobs -> Seeding]
      /\ seed[j].todo # << >> /\ Current(j) \in Exchanges /\ day \in Days
      /\ up \in BOOLEAN /\ faults \in 0..MaxFaults
  BY BusyHasTodo, RunTypes DEF UniverseInvariant, TypeOK, BeginDeactivate
<1>2. HasArchive(j) /\ Upserting(j)
  BY DEF UniverseInvariant, SeedersInOrder, Untouched, Deactivating, BeginDeactivate
<1>3. seed[j].wrote = Content(j)
  BY <1>2 DEF Upserting, BeginDeactivate
<1>4. seed[j].target \in Days
  BY <1>1, <1>2, PublishedDay DEF HasArchive
<1>5. Content(j) \subseteq Listed(Current(j)) /\ due \subseteq Instruments
  BY <1>1, <1>4, ArchiveAssumption DEF Content, Listed
<1>6. s \in Seeding /\ seed' = [seed EXCEPT ![j] = s] /\ UNCHANGED <<clock, up, table, faults>>
  BY <1>1, <1>5 DEF BeginDeactivate, OnlySeed, Seeding
<1>7. /\ seed' \in [Jobs -> Seeding] /\ \A k \in Jobs \ {j} : seed'[k] = seed[k]
      /\ seed'[j] = s /\ s.st = "deactivate" /\ s.rows = due
      /\ s.wrote = seed[j].wrote /\ s.todo = seed[j].todo /\ s.target = seed[j].target
  BY <1>1, <1>6 DEF Seeding
<1>8. LocksAreExclusive'
  <2>1. \A k \in Jobs : seed'[k].wrote = seed[k].wrote
    BY <1>7
  <2> QED
    BY <2>1 DEF UniverseInvariant, LocksAreExclusive
<1>9. HasArchive(j)'
  BY <1>2, <1>6, <1>7 DEF HasArchive, Content, Current, Published, clock
<1>10. Deactivating(j)'
  BY <1>3, <1>5, <1>6, <1>7 DEF Deactivating, Content, Current
<1> QED
  BY <1>1, <1>6, <1>7, <1>8, <1>9, <1>10, SameTable

-----------------------------------------------------------------------------
(* A transaction commits.                                                  *)

(* Two transactions on one exchange cannot both be in their second         *)
(* statement: each would have written the row their archives share.        *)
LEMMA OneDeactivates ==
    ASSUME UniverseInvariant, NEW j \in Jobs, NEW k \in Jobs, j # k,
           HasArchive(j), Deactivating(j), HasArchive(k), Deactivating(k)
    PROVE  Current(j) # Current(k)
<1>1. /\ Current(j) \in Exchanges /\ Current(k) \in Exchanges /\ day \in Days
  BY RunTypes DEF HasArchive, UniverseInvariant
<1>2. seed[j].target \in Days /\ seed[k].target \in Days
  BY <1>1, PublishedDay DEF HasArchive
<1>3. ASSUME Current(j) = Current(k) PROVE FALSE
  <2>1. Content(j) \cap Content(k) # {}
    BY <1>1, <1>2, <1>3, ArchivesOverlap DEF HasArchive, Content
  <2> QED
    BY <2>1 DEF Deactivating, UniverseInvariant, LocksAreExclusive
<1> QED
  BY <1>3

(* What a commit makes of the rows: those of the archive are active, the   *)
(* others of the exchange are not, nobody else's change.                   *)
LEMMA CommitEffect ==
    ASSUME UniverseInvariant, NEW j \in Jobs, Commit(j)
    PROVE  /\ Current(j) \in Exchanges /\ seed[j].target \in Days
           /\ HasArchive(j) /\ Deactivating(j)
           /\ Content(j) \subseteq Listed(Current(j))
           /\ \A i \in Content(j) : table'[i] = Upserted
           /\ \A i \in Listed(Current(j)) \ Content(j) :
                ~table'[i].active /\ table'[i].known = table[i].known
           /\ \A i \in Instruments \ Listed(Current(j)) : table'[i] = table[i]
<1>1. /\ Current(j) \in Exchanges /\ day \in Days
      /\ table \in [Instruments -> Row] /\ seed[j].st = "deactivate"
  BY BusyHasTodo, RunTypes DEF UniverseInvariant, TypeOK, Commit
<1>2. HasArchive(j) /\ Deactivating(j) /\ seed[j].rows = {}
  BY DEF UniverseInvariant, SeedersInOrder, Untouched, Upserting, Commit
<1>3. seed[j].target \in Days
  BY <1>1, <1>2, PublishedDay DEF HasArchive
<1>4. /\ Content(j) \subseteq seed[j].wrote
      /\ seed[j].wrote \subseteq Listed(Current(j))
      /\ \A i \in Listed(Current(j)) : table[i].known => i \in seed[j].wrote
  BY <1>2 DEF Deactivating
<1>5. \A i \in Instruments : table'[i] = Written(j, i)
  BY DEF Commit
<1>6. \A i \in Content(j) : table'[i] = Upserted
  <2>1. \A i \in Content(j) : i \in Instruments /\ i \in seed[j].wrote
    BY <1>4 DEF Listed
  <2> QED
    BY <1>5, <2>1 DEF Written
<1>7. ASSUME NEW i \in Listed(Current(j)) \ Content(j)
      PROVE  ~table'[i].active /\ table'[i].known = table[i].known
  <2>1. i \in Instruments /\ table[i] \in Row
    BY <1>1 DEF Listed
  <2>2. CASE i \in seed[j].wrote
    BY <1>5, <2>1, <2>2 DEF Written, Row
  <2>3. CASE i \notin seed[j].wrote
    BY <1>4, <1>5, <2>1, <2>3 DEF Written, UniverseInvariant, ActiveIsKnown
  <2> QED
    BY <2>2, <2>3
<1>8. \A i \in Instruments \ Listed(Current(j)) : table'[i] = table[i]
  BY <1>4, <1>5 DEF Written
<1> QED
  BY <1>1, <1>2, <1>3, <1>4, <1>6, <1>7, <1>8

(* A commit leaves the listing of one archive, and no other transaction    *)
(* with a row it does not know of.                                         *)
LEMMA CommitKeeps ==
    ASSUME UniverseInvariant, NEW j \in Jobs, Commit(j)
    PROVE  UniverseInvariant'
<1> DEFINE rest == SeedNext(Tail(seed[j].todo))
<1>1. /\ seed[j] \in Seeding /\ seed \in [Jobs -> Seeding]
      /\ seed[j].todo # << >> /\ day \in Days
      /\ up \in BOOLEAN /\ closed \in BOOLEAN /\ faults \in 0..MaxFaults
      /\ table \in [Instruments -> Row]
      /\ rest \in Seeding /\ Untouched(rest)
  BY BusyHasTodo, RunTypes, SeedNextUntouched DEF UniverseInvariant, TypeOK, Commit
<1>2. HasArchive(j) /\ Deactivating(j)
  BY CommitEffect
<1> PICK ex \in Exchanges, target \in Days :
       ex = Current(j) /\ target = seed[j].target /\ Content(j) = Archive[ex][target]
  BY CommitEffect DEF Content
<1> DEFINE listing == Archive[ex][target]
<1>3. /\ seed' \in [Jobs -> Seeding] /\ Untouched(seed'[j])
      /\ \A k \in Jobs \ {j} : seed'[k] = seed[k]
      /\ UNCHANGED <<clock, up, faults>>
  BY <1>1 DEF Commit
<1>4. listing \subseteq Listed(ex)
  BY CommitEffect
<1>6. table' \in [Instruments -> Row]
  <2>1. \A i \in Instruments : Written(j, i) \in Row
    BY <1>1 DEF Written, Upserted, Row
  <2> QED
    BY <2>1 DEF Commit
<1>7. TypeOK'
  BY <1>1, <1>3, <1>6 DEF TypeOK, clock
<1>8. LocksAreExclusive'
  <2>1. \A k \in Jobs : seed'[k].wrote \subseteq seed[k].wrote
    BY <1>3 DEF Untouched
  <2> QED
    BY <2>1 DEF UniverseInvariant, LocksAreExclusive
<1>9. \A i \in listing : i \in Instruments /\ table'[i].known /\ table'[i].active
  BY <1>4, CommitEffect DEF Listed, Upserted
<1>10. \A i \in Listed(ex) \ listing : ~table'[i].active /\ table'[i].known = table[i].known
  BY CommitEffect
<1>11. \A i \in Instruments \ Listed(ex) : table'[i] = table[i]
  BY CommitEffect
<1>12. ActiveIsKnown'
  BY <1>9, <1>10, <1>11 DEF UniverseInvariant, ActiveIsKnown, Listed
<1>13. ListingIsOneArchive'
  <2> SUFFICES ASSUME NEW e \in Exchanges
               PROVE  \/ \A i \in Listed(e) : ~table'[i].known
                      \/ \E d \in Days : Published(e, d)' /\ Active(e)' = Archive[e][d]
    BY DEF ListingIsOneArchive
  <2>1. CASE e = ex
    <3>1. Active(ex)' = listing
      BY <1>4, <1>9, <1>10 DEF Active
    <3>2. Published(ex, target)'
      BY <1>2, <1>3 DEF HasArchive, Published, clock
    <3> QED
      BY <2>1, <3>1, <3>2
  <2>2. CASE e # ex
    <3>1. \A i \in Listed(e) : table'[i] = table[i]
      BY <1>11, <2>2 DEF Listed
    <3>2. Active(e)' = Active(e)
      BY <3>1 DEF Active
    <3>3. \/ \A i \in Listed(e) : ~table[i].known
          \/ \E d \in Days : Published(e, d) /\ Active(e) = Archive[e][d]
      BY DEF UniverseInvariant, ListingIsOneArchive
    <3> QED
      BY <1>3, <3>1, <3>2, <3>3 DEF Published, clock
  <2> QED
    BY <2>1, <2>2
<1>14. SeedersInOrder'
  <2> SUFFICES ASSUME NEW k \in Jobs, k # j, ~Untouched(seed[k])
               PROVE  (HasArchive(k) /\ (Upserting(k) \/ Deactivating(k)))'
    BY <1>3 DEF SeedersInOrder
  <2>1. seed'[k] = seed[k] /\ HasArchive(k) /\ (Upserting(k) \/ Deactivating(k))
    BY <1>3 DEF UniverseInvariant, SeedersInOrder
  <2>2. HasArchive(k)'
    BY <1>3, <2>1 DEF HasArchive, Content, Current, Published, clock
  <2>3. Upserting(k) => Upserting(k)'
    BY <2>1 DEF Upserting, Content, Current
  <2>4. ASSUME Deactivating(k) PROVE Deactivating(k)'
    <3>1. Current(k) # ex
      BY <1>2, <2>1, <2>4, OneDeactivates
    <3>2. \A i \in Listed(Current(k)) : table'[i] = table[i]
      BY <1>11, <3>1 DEF Listed
    <3> QED
      BY <2>1, <2>4, <3>2 DEF Deactivating, Content, Current
  <2> QED
    BY <2>1, <2>2, <2>3, <2>4
<1> QED
  BY <1>7, <1>8, <1>12, <1>13, <1>14 DEF UniverseInvariant

-----------------------------------------------------------------------------
(* Everything else, and the theorems.                                      *)

(* The other column and the clock leave listings and transactions alone.   *)
LEMMA RefreshKeeps ==
    ASSUME UniverseInvariant, NEW i \in Instruments, RefreshCap(i)
    PROVE  UniverseInvariant'
<1>1. table \in [Instruments -> Row]
  BY DEF UniverseInvariant, TypeOK
<1>2. table' \in [Instruments -> Row] /\ UNCHANGED <<day, closed, up, seed, faults>>
  BY <1>1 DEF RefreshCap, Row, clock
<1>3. \A k \in Instruments :
        table'[k].known = table[k].known /\ table'[k].active = table[k].active
  BY <1>1 DEF RefreshCap, Row
<1>4. TypeOK' /\ LocksAreExclusive' /\ ActiveIsKnown'
  BY <1>2, <1>3 DEF UniverseInvariant, TypeOK, LocksAreExclusive, ActiveIsKnown
<1>5. \A ex \in Exchanges : Active(ex)' = Active(ex)
  BY <1>3 DEF Active, Listed
<1>6. ListingIsOneArchive'
  BY <1>2, <1>3, <1>5 DEF UniverseInvariant, ListingIsOneArchive, Published, Listed
<1>7. SeedersInOrder'
  BY <1>2, <1>3 DEF UniverseInvariant, SeedersInOrder, Untouched, HasArchive,
                    Upserting, Deactivating, Content, Current, Published, Listed
<1> QED
  BY <1>4, <1>6, <1>7 DEF UniverseInvariant

(* The clock stays in the period, and what is published stays so.          *)
LEMMA TickPublishes ==
    ASSUME TypeOK, Tick
    PROVE  /\ day' \in Days /\ closed' \in BOOLEAN
           /\ \A ex \in Exchanges : \A d : Published(ex, d) => Published(ex, d)'
<1>1. day \in Days /\ day' \in Days /\ closed' \in BOOLEAN
  <2>1. day \in Days /\ closed \in BOOLEAN
    BY DEF TypeOK
  <2>2. CASE SessionCloses
    BY <2>1, <2>2 DEF SessionCloses
  <2>3. CASE Midnight
    <3>1. day < MaxDay /\ day' = day + 1 /\ closed' = FALSE
      BY <2>3 DEF Midnight
    <3>2. day' \in Days
      BY <2>1, <3>1, BoundsAssumption DEF Days
    <3> QED
      BY <2>1, <3>1, <3>2
  <2> QED
    BY <2>1, <2>2, <2>3 DEF Tick
<1>2. \A ex \in Exchanges : \A d : Published(ex, d) => Published(ex, d)'
  BY <1>1, SessionsAssumption, BoundsAssumption
     DEF Published, Tick, SessionCloses, Midnight, Days
<1> QED
  BY <1>1, <1>2


(* The clock takes nothing away from a seeder or a listing.                *)
LEMMA TickKeeps == ASSUME UniverseInvariant, Tick PROVE UniverseInvariant'
<1>1. /\ day' \in Days /\ closed' \in BOOLEAN
      /\ \A ex \in Exchanges : \A d : Published(ex, d) => Published(ex, d)'
  BY TickPublishes DEF UniverseInvariant
<1>2. UNCHANGED <<up, table, seed, faults>>
  BY DEF Tick
<1>4. TypeOK' /\ LocksAreExclusive' /\ ActiveIsKnown'
  BY <1>1, <1>2 DEF UniverseInvariant, TypeOK, LocksAreExclusive, ActiveIsKnown
<1>5. ListingIsOneArchive'
  BY <1>1, <1>2 DEF UniverseInvariant, ListingIsOneArchive, Active
<1>6. \A j \in Jobs : HasArchive(j) => HasArchive(j)'
  BY <1>1, <1>2, RunTypes DEF UniverseInvariant, HasArchive, Content, Current
<1>7. SeedersInOrder'
  BY <1>2, <1>6 DEF UniverseInvariant, SeedersInOrder, Untouched, Upserting,
                    Deactivating, Content, Current
<1> QED
  BY <1>4, <1>5, <1>7 DEF UniverseInvariant

(* No exchange is seeded yet.                                              *)
LEMMA UniverseInit == Init => UniverseInvariant
<1> SUFFICES ASSUME Init PROVE UniverseInvariant
  OBVIOUS
<1>1. 1 \in Days /\ 0 \in 0..MaxFaults
  BY BoundsAssumption DEF Days
<1>2. IdleSeed \in Seeding /\ Untouched(IdleSeed)
  BY <1>1, SeedNextUntouched, EmptySeq DEF Init
<1>3. TypeOK /\ SeedersInOrder
  BY <1>1, <1>2 DEF Init, TypeOK, SeedersInOrder, Row
<1>4. LocksAreExclusive /\ ActiveIsKnown /\ ListingIsOneArchive
  BY <1>2 DEF Init, LocksAreExclusive, ActiveIsKnown, ListingIsOneArchive,
              Listed, Untouched
<1> QED
  BY <1>3, <1>4 DEF UniverseInvariant

(* Whoever is in a circle of waiting transactions has rows to wait for.    *)
LEMMA VictimsWait ==
    ASSUME NEW j \in Jobs, InCycle(j)
    PROVE  seed[j].rows # {}
<1>1. SUFFICES ASSUME seed[j].rows = {} PROVE FALSE
  OBVIOUS
<1>2. \A k \in Jobs : ~ \E l \in {} \cup {j} : WaitsFor(l, k)
  BY <1>1 DEF WaitsFor
<1>3. {} \in SUBSET Jobs
  OBVIOUS
<1> QED
  BY <1>2, <1>3 DEF InCycle

(* No step of a seeder mixes archives.                                     *)
LEMMA SeedStepKeeps ==
    ASSUME UniverseInvariant, NEW j \in Jobs, StartSeed(j) \/ SeedStep(j)
    PROVE  UniverseInvariant'
<1>1. /\ day \in Days /\ seed[j] \in Seeding /\ up \in BOOLEAN
      /\ faults \in 0..MaxFaults
      /\ seed[j].st # "idle" => seed[j].todo # << >>
      /\ seed[j].rows # {} => seed[j].st \in {"upsert", "deactivate"}
  BY BusyHasTodo DEF UniverseInvariant, TypeOK
<1>2. ASSUME NEW s \in Seeding, Untouched(s), OnlySeed(j, s)
      PROVE  UniverseInvariant'
  BY <1>1, <1>2, OneResets DEF OnlySeed
<1>3. CASE StartSeed(j)
  <2>1. PICK todo \in Targets(j) : OnlySeed(j, SeedNext(todo))
    BY <1>3 DEF StartSeed
  <2>2. todo \in Seq(Exchanges)
    BY <2>1, UniverseAssumption DEF Targets
  <2> QED
    BY <1>1, <1>2, <2>1, <2>2, SeedNextUntouched
<1>4. CASE Download(j)
  BY <1>4, DownloadKeeps
<1>5. CASE RetryRequest(j)
  <2> DEFINE s == [seed[j] EXCEPT !.tries = seed[j].tries + 1]
  <2>1. s \in Seeding /\ s.st = "fetch" /\ s.todo = seed[j].todo
        /\ s.rows = seed[j].rows /\ s.wrote = seed[j].wrote
    BY <1>1, <1>5, BoundsAssumption DEF RetryRequest, Seeding
  <2>2. Untouched(s)
    BY <1>5, <2>1 DEF UniverseInvariant, SeedersInOrder, Untouched, Upserting,
                      Deactivating, RetryRequest
  <2> QED
    BY <1>2, <1>5, <2>1, <2>2 DEF RetryRequest
<1>6. CASE GiveUp(j) \/ RejectArchive(j) \/ DeadlockVictim(j)
  <2>1. seed[j].todo # << >>
    BY <1>1, <1>6, VictimsWait DEF GiveUp, RejectArchive, DeadlockVictim
  <2>2. AfterFailure(j) \in Seeding /\ Untouched(AfterFailure(j))
    BY <1>1, <2>1, AfterFailureUntouched
  <2> QED
    BY <1>2, <1>6, <2>2 DEF GiveUp, RejectArchive, DeadlockVictim
<1>7. CASE \E i \in Instruments : WriteRow(j, i)
  BY <1>7, WriteRowKeeps
<1>8. CASE BeginDeactivate(j)
  BY <1>8, BeginDeactivateKeeps
<1>9. CASE Commit(j)
  BY <1>9, CommitKeeps
<1> QED
  BY <1>3, <1>4, <1>5, <1>6, <1>7, <1>8, <1>9 DEF SeedStep

(* A crash, a kill or a failed statement rolls back, whatever was done.    *)
LEMMA FaultKeeps == ASSUME UniverseInvariant, Fault PROVE UniverseInvariant'
<1>1. /\ day \in Days /\ seed \in [Jobs -> Seeding] /\ up \in BOOLEAN
      /\ IdleSeed \in Seeding /\ Untouched(IdleSeed)
  BY SeedNextUntouched, EmptySeq DEF UniverseInvariant, TypeOK
<1>2. Strikes => faults' \in 0..MaxFaults
  BY BoundsAssumption DEF Strikes, UniverseInvariant, TypeOK
<1>3. ASSUME NEW j \in Jobs, SeedRaises(j)
      PROVE  UniverseInvariant'
  <2>1. seed[j].todo # << >>
    BY <1>3, BusyHasTodo DEF SeedRaises
  <2>2. AfterFailure(j) \in Seeding /\ Untouched(AfterFailure(j))
    BY <1>1, <2>1, AfterFailureUntouched
  <2> QED
    BY <1>1, <1>2, <1>3, <2>2, OneResets DEF SeedRaises
<1>4. ASSUME NEW j \in Jobs, KillCli(j)
      PROVE  UniverseInvariant'
  BY <1>1, <1>2, <1>4, OneResets DEF KillCli
<1>5. CASE DaemonStops
  <2>1. seed' \in [Jobs -> Seeding]
    BY <1>1, <1>5 DEF DaemonStops
  <2>2. \A j \in Jobs : seed'[j] = seed[j] \/ Untouched(seed'[j])
    BY <1>1, <1>5 DEF DaemonStops
  <2> QED
    BY <1>1, <1>2, <1>5, <2>1, <2>2, Resets DEF DaemonStops
<1> QED
  BY <1>3, <1>4, <1>5 DEF Fault

(* The inductive invariant of the universe.                                *)
THEOREM UniverseInductive == Spec => []UniverseInvariant
<1>1. UniverseInvariant /\ [Next]_vars => UniverseInvariant'
  <2> SUFFICES ASSUME UniverseInvariant, [Next]_vars PROVE UniverseInvariant'
    OBVIOUS
  <2>1. CASE Tick
    BY <2>1, TickKeeps
  <2>2. CASE \E j \in Jobs : StartSeed(j) \/ SeedStep(j)
    BY <2>2, SeedStepKeeps
  <2>3. CASE \E i \in Instruments : RefreshCap(i)
    BY <2>3, RefreshKeeps
  <2>4. CASE Fault
    BY <2>4, FaultKeeps
  <2>5. CASE DaemonStarts
    BY <2>5, Resets DEF DaemonStarts, UniverseInvariant, TypeOK
  <2>6. CASE UNCHANGED vars
    BY <2>6, Resets DEF vars, clock, UniverseInvariant, TypeOK
  <2> QED
    BY <2>1, <2>2, <2>3, <2>4, <2>5, <2>6 DEF Next
<1> QED
  BY <1>1, UniverseInit, PTL DEF Spec

(***************************************************************************)
(* The active instruments of an exchange are exactly those of one          *)
(* published archive, or it was never seeded, for every universe and every *)
(* interleaving of seeders, refreshes, failures, deadlocks and crashes.    *)
(***************************************************************************)
THEOREM ListingIsWhole == Spec => []ListingIsOneArchive
<1>1. UniverseInvariant => ListingIsOneArchive
  BY DEF UniverseInvariant
<1> QED
  BY <1>1, UniverseInductive, PTL

(* Every reachable state is well-typed.                                    *)
THEOREM UniverseTypeCorrect == Spec => []TypeOK
<1>1. UniverseInvariant => TypeOK
  BY DEF UniverseInvariant
<1> QED
  BY <1>1, UniverseInductive, PTL

-----------------------------------------------------------------------------
(* The seeders implement listings that change at once.                     *)

(* A commit is the adoption of its archive.                                *)
LEMMA CommitAdopts ==
    ASSUME UniverseInvariant, NEW j \in Jobs, Commit(j)
    PROVE  Public!Next
<1> PICK ex \in Exchanges, d \in Days :
       ex = Current(j) /\ d = seed[j].target /\ Content(j) = Archive[ex][d]
  BY CommitEffect DEF Content
<1>1. /\ Published(ex, d) /\ Archive[ex][d] # {}
      /\ \A e \in Exchanges, c \in Days : Published(e, c)' = Published(e, c)
  BY CommitEffect DEF HasArchive, Commit, clock, Published
<1>2. ASSUME NEW i \in Instruments
      PROVE  Status(table'[i]) =
               IF ExchangeOf[i] # ex THEN Status(table[i])
               ELSE IF i \in Archive[ex][d] THEN "listed"
               ELSE IF Status(table[i]) = "listed" THEN "delisted"
               ELSE Status(table[i])
  <2>1. table[i] \in Row /\ (table[i].active => table[i].known)
    BY DEF UniverseInvariant, TypeOK, ActiveIsKnown
  <2>2. CASE ExchangeOf[i] # ex
    BY <2>2, CommitEffect DEF Listed
  <2>3. CASE ExchangeOf[i] = ex /\ i \in Archive[ex][d]
    BY <2>3, CommitEffect DEF Status, Upserted
  <2>4. CASE ExchangeOf[i] = ex /\ i \notin Archive[ex][d]
    <3>1. ~table'[i].active /\ table'[i].known = table[i].known
      BY <2>4, CommitEffect DEF Listed
    <3> QED
      BY <2>1, <2>4, <3>1 DEF Status, Row
  <2> QED
    BY <2>2, <2>3, <2>4
<1>3. Public!Adopt(ex, d)
  BY <1>1, <1>2 DEF Public!Adopt
<1> QED
  BY <1>3 DEF Public!Next

(* Only a commit changes which rows there are, or which of them are active. *)
LEMMA OthersKeepRows ==
    ASSUME UniverseInvariant, [Next]_vars, \A j \in Jobs : ~Commit(j),
           NEW i \in Instruments
    PROVE  table'[i].known = table[i].known /\ table'[i].active = table[i].active
<1>1. CASE \E k \in Instruments : RefreshCap(k)
  <2>1. PICK k \in Instruments : table' = [table EXCEPT ![k].cap = TRUE]
    BY <1>1 DEF RefreshCap
  <2> QED
    BY <2>1 DEF UniverseInvariant, TypeOK, Row
<1>2. CASE ~ \E k \in Instruments : RefreshCap(k)
  <2>1. table' = table
    BY <1>2 DEF Next, Tick, StartSeed, SeedStep, Download, RetryRequest, GiveUp,
       RejectArchive, WriteRow, BeginDeactivate, DeadlockVictim, OnlySeed, Fault,
       SeedRaises, KillCli, DaemonStops, DaemonStarts, vars
  <2> QED
    BY <2>1
<1> QED
  BY <1>1, <1>2

(* No other step of a seeder, a refresh or a fault shows.                  *)
LEMMA OthersKeepPublic ==
    ASSUME UniverseInvariant, [Next]_vars, ~Tick, \A j \in Jobs : ~Commit(j)
    PROVE  UNCHANGED Public!vars
<1>1. clock' = clock
  <2>1. CASE \E i \in Instruments : RefreshCap(i)
    BY <2>1 DEF RefreshCap
  <2>2. CASE ~ \E i \in Instruments : RefreshCap(i)
    BY <2>2 DEF Next, StartSeed, SeedStep, Download, RetryRequest, GiveUp,
       RejectArchive, WriteRow, BeginDeactivate, DeadlockVictim, OnlySeed, Fault,
       SeedRaises, KillCli, DaemonStops, DaemonStarts, vars, clock
  <2> QED
    BY <2>1, <2>2
<1>2. \A i \in Instruments : Status(table'[i]) = Status(table[i])
  BY OthersKeepRows DEF Status
<1> QED
  BY <1>1, <1>2 DEF Public!vars, Published, clock

(***************************************************************************)
(* InstrumentUniverse implements Listings: to a reader every seeding is    *)
(* one step from archive to archive, however the seeders' statements, a    *)
(* refresh, deadlocks, failures and crashes interleave.                    *)
(***************************************************************************)
THEOREM SeedersKeepListings == Spec => KeepsListings
<1>1. Init => Public!Init
  BY SessionsAssumption DEF Init, Public!Init, Status, Published, Days
<1>2. UniverseInvariant /\ [Next]_vars => [Public!Next]_(Public!vars)
  <2> SUFFICES ASSUME UniverseInvariant, [Next]_vars
               PROVE  Public!Next \/ UNCHANGED Public!vars
    OBVIOUS
  <2>1. CASE Tick
    <3>1. \A ex \in Exchanges, d \in Days : Published(ex, d) => Published(ex, d)'
      BY <2>1, TickPublishes DEF UniverseInvariant
    <3>2. {a \in Exchanges \X Days : Published(a[1], a[2])}
            \subseteq {a \in Exchanges \X Days : Published(a[1], a[2])}'
      BY <3>1
    <3> QED
      BY <2>1, <3>2 DEF Tick, Public!Next, Public!Publish
  <2> QED
    BY <2>1, CommitAdopts, OthersKeepPublic
<1> QED
  BY <1>1, <1>2, UniverseInductive, PTL DEF Spec, KeepsListings, Public!Spec

(***************************************************************************)
(* The engine's one-step Seed is what the seeders, statement by statement, *)
(* amount to for those who read is_active.                                 *)
(***************************************************************************)
THEOREM SeedingIsOneStep == Spec => SeedsOneExchange
<1>1. ASSUME UniverseInvariant, NEW j \in Jobs, Commit(j)
      PROVE  \E ex \in Exchanges : \E seen \in SUBSET Listed(ex) :
               ToSync' = (ToSync \ Listed(ex)) \cup seen
  <2> DEFINE ex == Current(j)
  <2>1. ex \in Exchanges /\ Content(j) \subseteq Listed(ex)
    BY <1>1, CommitEffect
  <2>2. \A i \in Content(j) : table'[i].active
    BY <1>1, CommitEffect DEF Upserted
  <2>3. \A i \in Listed(ex) \ Content(j) : ~table'[i].active
    BY <1>1, CommitEffect
  <2>4. \A i \in Instruments \ Listed(ex) : table'[i] = table[i]
    BY <1>1, CommitEffect
  <2>5. ToSync' = (ToSync \ Listed(ex)) \cup Content(j)
    <3> HIDE DEF ex
    <3>1. Listed(ex) \subseteq Instruments
      BY DEF Listed
    <3>2. ToSync' = {i \in Instruments : table'[i].active}
      BY DEF ToSync
    <3> QED
      BY <2>1, <2>2, <2>3, <2>4, <3>1, <3>2, Zenon DEF ToSync
  <2> QED
    BY <2>1, <2>5
<1>2. ASSUME UniverseInvariant, [Next]_vars, \A j \in Jobs : ~Commit(j)
      PROVE  ToSync' = ToSync
  BY <1>2, OthersKeepRows DEF ToSync
<1>3. UniverseInvariant /\ [Next]_vars
        => [\E ex \in Exchanges : \E seen \in SUBSET Listed(ex) :
              ToSync' = (ToSync \ Listed(ex)) \cup seen]_ToSync
  BY <1>1, <1>2
<1> QED
  BY <1>3, UniverseInductive, PTL DEF Spec, SeedsOneExchange
=============================================================================
