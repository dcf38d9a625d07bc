------------------------- MODULE UniverseRefinement -------------------------
(* The seeders, row by row, implement listings that change at once.        *)
EXTENDS InstrumentUniverse

Status(row) ==
    IF ~row.known THEN "unknown" ELSE IF row.active THEN "listed" ELSE "delisted"

Public == INSTANCE Listings WITH
    status    <- [i \in Instruments |-> Status(table[i])],
    published <- {a \in Exchanges \X Days : Published(a[1], a[2])}

(***************************************************************************)
(* However the two statements of a seeding and those of another one take   *)
(* turns at the rows, and whatever fails in between: to a reader a seeding *)
(* is one step, which puts one exchange on one published archive.          *)
(***************************************************************************)
KeepsListings == Public!Spec

(***************************************************************************)
(* What the planner reads of it, the instruments that are active, changes  *)
(* as SyncEngine's Seed has it: at once, and for one exchange only.        *)
(***************************************************************************)
ToSync == {i \in Instruments : table[i].active}

SeedsOneExchange ==
    [][\E ex \in Exchanges : \E seen \in SUBSET Listed(ex) :
          ToSync' = (ToSync \ Listed(ex)) \cup seen]_ToSync
=============================================================================
