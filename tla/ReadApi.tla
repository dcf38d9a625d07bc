------------------------------ MODULE ReadApi -------------------------------
(***************************************************************************)
(* One walk of chronosync_client over a list of the read API: page after   *)
(* page of /instruments or /bars/daily, while the sync and the seeders     *)
(* change the table between two requests.                                  *)
(***************************************************************************)
EXTENDS Integers, FiniteSetsExt

CONSTANTS
    Rows,       \* the rows that may ever match the walk's filters
    Key,        \* Key[r]: the ticker of an instrument, the date of a bar
    Limit       \* the query parameter "limit"

ASSUME RowsAssumption == IsFiniteSet(Rows) /\ Key \in [Rows -> Nat \ {0}]
ASSUME LimitAssumption == Limit \in Nat \ {0}

VARIABLES
    table,      \* the rows that match now
    walk,       \* the client's loop
    after,      \* the cursor: the last key seen, 0 before the first page
    page,       \* the last page received
    listed,     \* the rows of all pages before it
    kept        \* history: rows that have matched ever since the walk began

vars == <<table, walk, after, page, listed, kept>>

Matches_FromCursorOn ==     \* mutant: >= after_ticker
    {r \in table : Key[r] >= after}

(* WHERE ticker > :after_ticker, or ts > :after_ts.                        *)
Matches == {r \in table : Key[r] > after}

(* ORDER BY key LIMIT limit: rows with the same key come in any order.     *)
FirstOf(rows) ==
    IF Cardinality(rows) <= Limit THEN {rows}
    ELSE {p \in kSubset(Limit, rows) :
            \A r \in p, s \in rows \ p : Key[r] <= Key[s]}

HasMore_OffByOne == Cardinality(Matches) > Limit + 1    \* mutant

(* The endpoints fetch limit + 1 rows to see whether there is a next page. *)
HasMore == Cardinality(Matches) > Limit

NextCursor_Forgotten(rows) == after     \* mutant: the client asks again

NextCursor(rows) == Max({Key[r] : r \in rows})

(* One request; the client stops at the first page without a next_cursor.  *)
Request ==
    /\ walk = "paging"
    /\ page' \in FirstOf(Matches)
    /\ listed' = listed \cup page
    /\ IF HasMore
       THEN after' = NextCursor(page') /\ walk' = walk
       ELSE after' = after /\ walk' = "done"
    /\ UNCHANGED <<table, kept>>

(* An answer other than 2xx, or none: raise_for_status ends the walk.      *)
RequestFails ==
    /\ walk = "paging" /\ walk' = "failed"
    /\ UNCHANGED <<table, after, page, listed, kept>>

(* A bar is stored, an instrument listed or relisted; one is delisted.     *)
Appears(r) ==
    /\ table' = table \cup {r}
    /\ UNCHANGED <<walk, after, page, listed, kept>>

Disappears(r) ==
    /\ table' = table \ {r}
    /\ kept' = kept \ {r}
    /\ UNCHANGED <<walk, after, page, listed>>

Init ==
    /\ table \in SUBSET Rows
    /\ walk = "paging"
    /\ after = 0
    /\ page = {} /\ listed = {}
    /\ kept = table

Next ==
    \/ Request \/ RequestFails
    \/ \E r \in Rows : Appears(r) \/ Disappears(r)

Spec     == Init /\ [][Next]_vars
FairSpec == Spec /\ WF_vars(Request)

-----------------------------------------------------------------------------

(* A walk's variables keep their types.                                    *)
TypeOK ==
    /\ table \subseteq Rows /\ kept \subseteq table
    /\ walk \in {"paging", "done", "failed"}
    /\ after \in Nat
    /\ page \subseteq Rows /\ listed \subseteq Rows

(***************************************************************************)
(* Each page begins where the one before it ended: however the table       *)
(* changes between two requests, no row is delivered twice and the walk    *)
(* does not go back (keyset cursors of the endpoints).                     *)
(***************************************************************************)
PagesAscend == \A r \in listed, s \in page : Key[r] < Key[s]

(***************************************************************************)
(* A walk that ends well has listed every row that was there from its      *)
(* first request to its last, whatever came and went meanwhile.            *)
(***************************************************************************)
StableRowsListed == walk = "done" => kept \subseteq listed \cup page

(***************************************************************************)
(* The walk ends: rows stored while it lasts cannot keep it going for ever *)
(* (_paginate has no bound of its own).                                    *)
(***************************************************************************)
WalkEnds == <>(walk # "paging")

(***************************************************************************)
(* The inductive part: every stable row up to the cursor has been listed,  *)
(* and no listed row lies beyond it.                                       *)
(***************************************************************************)
ListedUpToCursor ==
    walk = "paging" =>
        /\ \A r \in kept : Key[r] <= after => r \in listed \cup page
        /\ \A r \in listed \cup page : Key[r] <= after
=============================================================================
