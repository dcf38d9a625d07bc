--------------------------- MODULE ReadApiProofs ----------------------------
(***************************************************************************)
(* A walk over a list whose rows have different keys lists every row that  *)
(* is there throughout, each once; proved for any table, any page size and *)
(* any changes between the requests.                                       *)
(***************************************************************************)
EXTENDS ReadApi, MaxLemmas

(* No two rows of the list have the same key.                              *)
KeysDiffer == \A r, s \in Rows : Key[r] = Key[s] => r = s

(***************************************************************************)
(* What is left of it when keys repeat, as tickers do between exchanges:   *)
(* a stable row that is passed over has a namesake in the list.            *)
(***************************************************************************)
Named(r) == \E s \in listed \cup page : Key[s] = Key[r]

EveryKeyListed == walk = "done" => \A r \in kept : Named(r)

KeysUpToCursor ==
    walk = "paging" => \A r \in kept : Key[r] <= after => Named(r)

(* Pages ascend, and so far none of them has gone beyond the cursor.       *)
WalkAscends ==
    /\ TypeOK /\ PagesAscend
    /\ walk = "paging" => \A r \in listed \cup page : Key[r] <= after

(***************************************************************************)
(* A page is part of what matches; if it is not all of it, it has at least *)
(* one row, and no row left out comes before one in it.                    *)
(***************************************************************************)
LEMMA PageOfMatches ==
    ASSUME TypeOK, NEW p \in FirstOf(Matches)
    PROVE  /\ p \subseteq Matches
           /\ ~HasMore => p = Matches
           /\ HasMore => /\ p # {}
                         /\ \A r \in p, s \in Matches \ p : Key[r] <= Key[s]
<1>1. IsFiniteSet(Matches) /\ Cardinality(Matches) \in Nat
  <2>1. Matches \in SUBSET Rows
    BY DEF TypeOK, Matches
  <2> QED
    BY <2>1, RowsAssumption, FS_Subset, FS_CardinalityType
<1>2. CASE HasMore
  <2>1. p \in kSubset(Limit, Matches)
    BY <1>1, <1>2, LimitAssumption DEF HasMore, FirstOf
  <2>2. p \subseteq Matches /\ Cardinality(p) = Limit
    BY <2>1 DEF kSubset
  <2>3. p # {}
    BY <2>2, FS_EmptySet, LimitAssumption
  <2>4. \A r \in p, s \in Matches \ p : Key[r] <= Key[s]
    BY <1>1, <1>2, LimitAssumption DEF HasMore, FirstOf
  <2> QED
    BY <1>2, <2>2, <2>3, <2>4
<1>3. CASE ~HasMore
  <2>1. p = Matches
    BY <1>1, <1>3, LimitAssumption DEF HasMore, FirstOf
  <2> QED
    BY <1>3, <2>1
<1> QED
  BY <1>2, <1>3

(***************************************************************************)
(* The cursor is the key of a row of the page, and no row lies beyond it.  *)
(***************************************************************************)
LEMMA CursorIsLastKey ==
    ASSUME NEW p \in SUBSET Rows, p # {}
    PROVE  /\ \E r \in p : NextCursor(p) = Key[r]
           /\ \A r \in p : Key[r] <= NextCursor(p)
<1> DEFINE K == {Key[r] : r \in p}
<1>1. IsFiniteSet(K)
  <2>1. IsFiniteSet(p)
    BY RowsAssumption, FS_Subset
  <2>2. [r \in p |-> Key[r]] \in Surjection(p, K)
    BY DEF Surjection
  <2> QED
    BY <2>1, <2>2, FS_Surjection
<1>2. K \in SUBSET Nat /\ K # {}
  BY RowsAssumption
<1>3. Max(K) \in K /\ \A y \in K : y <= Max(K)
  BY <1>1, <1>2, MaxOfFinite
<1> QED
  BY <1>3 DEF NextCursor

(***************************************************************************)
(* The rows listed so far lie before the next page, whatever the keys.     *)
(***************************************************************************)
LEMMA RequestAscends ==
    ASSUME WalkAscends, Request PROVE WalkAscends'
<1> USE DEF WalkAscends, TypeOK
<1>1. /\ page' \subseteq Matches
      /\ HasMore => page' # {}
  BY PageOfMatches DEF Request
<1>2. Matches \subseteq Rows /\ \A s \in Matches : after < Key[s]
  BY RowsAssumption DEF Matches
<1>3. \A r \in listed \cup page : Key[r] <= after
  BY DEF Request
<1>4. PagesAscend'
  BY <1>1, <1>2, <1>3, RowsAssumption DEF Request, PagesAscend
<1>5. CASE HasMore
  <2>1. after' = NextCursor(page') /\ walk' = "paging"
    BY <1>5 DEF Request
  <2>2. page' \in SUBSET Rows /\ page' # {}
    BY <1>1, <1>2, <1>5
  <2>3. PICK r \in page' : after' = Key[r]
    BY <2>1, <2>2, CursorIsLastKey
  <2>4. \A s \in page' : Key[s] <= after'
    BY <2>1, <2>2, CursorIsLastKey
  <2>5. after' \in Nat /\ after < after'
    BY <1>1, <1>2, <2>2, <2>3, RowsAssumption
  <2>6. \A s \in listed \cup page : Key[s] <= after'
    BY <1>3, <2>5, RowsAssumption
  <2> QED
    BY <1>4, <2>1, <2>2, <2>4, <2>5, <2>6 DEF Request
<1>6. CASE ~HasMore
  BY <1>1, <1>2, <1>4, <1>6 DEF Request
<1> QED
  BY <1>5, <1>6

(* Neither a failing request nor a change of the table disturbs the walk.  *)
LEMMA OthersAscend ==
    ASSUME WalkAscends,
           RequestFails \/ (\E r \in Rows : Appears(r) \/ Disappears(r)) \/ UNCHANGED vars
    PROVE  WalkAscends'
BY DEF WalkAscends, TypeOK, PagesAscend, RequestFails, Appears, Disappears, vars

(***************************************************************************)
(* With different keys no stable row is left behind by a request.          *)
(***************************************************************************)
LEMMA RequestLosesNothing ==
    ASSUME WalkAscends, ListedUpToCursor, Request, KeysDiffer
    PROVE  ListedUpToCursor' /\ StableRowsListed'
<1> USE DEF WalkAscends, TypeOK
<1>0. WalkAscends'
  BY RequestAscends
<1>1. /\ page' \subseteq Matches
      /\ ~HasMore => page' = Matches
      /\ HasMore => page' # {} /\ \A r \in page', s \in Matches \ page' : Key[r] <= Key[s]
  BY PageOfMatches DEF Request
<1>2. \A r \in kept : r \in listed' \/ r \in Matches
  BY RowsAssumption DEF Request, ListedUpToCursor, Matches
<1>3. CASE HasMore
  <2>1. after' = NextCursor(page') /\ walk' = "paging"
    BY <1>3 DEF Request
  <2>2. page' \in SUBSET Rows /\ page' # {}
    BY <1>1, <1>3 DEF Matches
  <2>3. PICK p \in page' : after' = Key[p]
    BY <2>1, <2>2, CursorIsLastKey
  <2>4. ASSUME NEW r \in kept, Key[r] <= after', r \in Matches PROVE r \in page'
    <3>1. SUFFICES ASSUME r \notin page' PROVE FALSE
      OBVIOUS
    <3>2. Key[p] <= Key[r]
      BY <1>1, <1>3, <2>3, <2>4, <3>1
    <3>3. Key[p] = Key[r]
      BY <2>2, <2>3, <2>4, <3>2, RowsAssumption
    <3> QED
      BY <2>2, <2>3, <3>1, <3>3 DEF KeysDiffer
  <2> QED
    BY <1>0, <1>2, <2>1, <2>4 DEF Request, StableRowsListed, ListedUpToCursor
<1>4. CASE ~HasMore
  BY <1>1, <1>2, <1>4 DEF Request, StableRowsListed, ListedUpToCursor
<1> QED
  BY <1>3, <1>4

(***************************************************************************)
(* Whatever the keys, no key of a stable row is left behind: a row cut off *)
(* at the cursor has the key of the page's last row.                       *)
(***************************************************************************)
LEMMA RequestSkipsNoKey ==
    ASSUME WalkAscends, KeysUpToCursor, Request
    PROVE  KeysUpToCursor' /\ EveryKeyListed'
<1> USE DEF WalkAscends, TypeOK
<1>1. /\ page' \subseteq Matches
      /\ ~HasMore => page' = Matches
      /\ HasMore => page' # {} /\ \A r \in page', s \in Matches \ page' : Key[r] <= Key[s]
  BY PageOfMatches DEF Request
<1>2. kept' = kept /\ listed' = listed \cup page /\ walk = "paging"
  BY DEF Request
<1>3. ASSUME NEW r \in kept, r \notin Matches PROVE Named(r)'
  <2>1. Named(r)
    BY <1>2, <1>3, RowsAssumption DEF KeysUpToCursor, Matches
  <2> QED
    BY <1>2, <2>1 DEF Named
<1>4. ASSUME NEW r \in page' PROVE Named(r)'
  BY <1>4 DEF Named
<1>5. CASE HasMore
  <2>1. after' = NextCursor(page') /\ walk' = "paging"
    BY <1>5 DEF Request
  <2>2. page' \in SUBSET Rows /\ page' # {}
    BY <1>1, <1>5 DEF Matches
  <2>3. PICK p \in page' : after' = Key[p]
    BY <2>1, <2>2, CursorIsLastKey
  <2>4. ASSUME NEW r \in Matches \ page', Key[r] <= after' PROVE Named(r)'
    <3>1. Key[p] <= Key[r]
      BY <1>1, <1>5, <2>3, <2>4
    <3>2. Key[p] = Key[r]
      BY <2>2, <2>3, <2>4, <3>1, RowsAssumption DEF Matches
    <3> QED
      BY <3>2 DEF Named
  <2> QED
    BY <1>2, <1>3, <1>4, <2>1, <2>4 DEF KeysUpToCursor, EveryKeyListed
<1>6. CASE ~HasMore
  BY <1>1, <1>2, <1>3, <1>4, <1>6 DEF Request, KeysUpToCursor, EveryKeyListed
<1> QED
  BY <1>5, <1>6

(***************************************************************************)
(* No page of a walk overlaps an earlier one or goes back, whatever the    *)
(* keys, the page size and the changes of the table (find_instruments,     *)
(* daily_bars_range and the cursors of their endpoints).                   *)
(***************************************************************************)
THEOREM PagesNeverOverlap == Spec => []PagesAscend
<1>1. Init => WalkAscends
  BY DEF Init, WalkAscends, TypeOK, PagesAscend
<1>2. WalkAscends /\ [Next]_vars => WalkAscends'
  BY RequestAscends, OthersAscend DEF Next
<1>3. WalkAscends => PagesAscend
  BY DEF WalkAscends
<1> QED
  BY <1>1, <1>2, <1>3, PTL DEF Spec

(***************************************************************************)
(* A walk of a list whose keys differ, the bars of an instrument above     *)
(* all, lists every row that is there throughout.                          *)
(***************************************************************************)
THEOREM WalkIsComplete == KeysDiffer => (Spec => []StableRowsListed)
<1> SUFFICES ASSUME KeysDiffer PROVE Spec => []StableRowsListed
  OBVIOUS
<1> DEFINE Complete == WalkAscends /\ ListedUpToCursor /\ StableRowsListed
<1>1. Init => Complete
  BY RowsAssumption
     DEF Init, WalkAscends, TypeOK, PagesAscend, ListedUpToCursor, StableRowsListed
<1>2. Complete /\ [Next]_vars => Complete'
  <2> SUFFICES ASSUME Complete, [Next]_vars PROVE Complete'
    OBVIOUS
  <2>1. CASE Request
    BY <2>1, RequestAscends, RequestLosesNothing
  <2>2. CASE ~Request
    <3>1. WalkAscends'
      BY <2>2, OthersAscend DEF Next
    <3>2. kept' \subseteq kept /\ UNCHANGED <<after, page, listed>>
          /\ (walk' = walk \/ walk' = "failed")
      BY <2>2 DEF Next, RequestFails, Appears, Disappears, vars
    <3> QED
      BY <3>1, <3>2 DEF ListedUpToCursor, StableRowsListed
  <2> QED
    BY <2>1, <2>2
<1> QED
  BY <1>1, <1>2, PTL DEF Spec

(***************************************************************************)
(* Keys that repeat cost a walk no more than namesakes: whatever the keys, *)
(* the walk over /instruments that skips a stable row has listed another   *)
(* one with its ticker.                                                    *)
(***************************************************************************)
THEOREM WalkSkipsOnlyNamesakes == Spec => []EveryKeyListed
<1> DEFINE Covered == WalkAscends /\ KeysUpToCursor /\ EveryKeyListed
<1>1. Init => Covered
  BY RowsAssumption
     DEF Init, WalkAscends, TypeOK, PagesAscend, KeysUpToCursor, EveryKeyListed
<1>2. Covered /\ [Next]_vars => Covered'
  <2> SUFFICES ASSUME Covered, [Next]_vars PROVE Covered'
    OBVIOUS
  <2>1. CASE Request
    BY <2>1, RequestAscends, RequestSkipsNoKey
  <2>2. CASE ~Request
    <3>1. WalkAscends'
      BY <2>2, OthersAscend DEF Next
    <3>2. kept' \subseteq kept /\ UNCHANGED <<after, page, listed>>
          /\ (walk' = walk \/ walk' = "failed")
      BY <2>2 DEF Next, RequestFails, Appears, Disappears, vars
    <3>3. \A r : Named(r)' <=> Named(r)
      BY <3>2 DEF Named
    <3> QED
      BY <3>1, <3>2, <3>3 DEF KeysUpToCursor, EveryKeyListed
  <2> QED
    BY <2>1, <2>2
<1> QED
  BY <1>1, <1>2, PTL DEF Spec
=============================================================================
