------------------------ MODULE BackfillSplitProofs -------------------------
(* What BackfillSplit promises, for every window and chunk length.         *)
EXTENDS BackfillSplit, SequenceTheorems, TLAPS

(* The loop's variables keep their types.                                  *)
LEMMA TypeCorrect == Spec => []TypeOK
<1>1. Init => TypeOK
  BY DatesAssumption, BatchSizesAssumption DEF Init, TypeOK, Chunk
<1>2. TypeOK /\ [Next]_vars => TypeOK'
  <2> SUFFICES ASSUME TypeOK, CutChunk PROVE TypeOK'
    BY DEF TypeOK, Next, vars
  <2> DEFINE full == cursor + batch_days - 1
             end  == IF full < to THEN full ELSE to
             c    == [frm |-> cursor, to |-> end]
  <2>1. cursor \in Int /\ end \in Int
    BY DEF TypeOK
  <2>2. out' = Append(out, c) /\ cursor' = end + 1
        /\ UNCHANGED <<frm, to, batch_days>>
    BY DEF CutChunk
  <2>3. c \in Chunk
    BY <2>1 DEF Chunk
  <2>4. out' \in Seq(Chunk)
    BY <2>2, <2>3, AppendProperties DEF TypeOK
  <2> QED
    BY <2>1, <2>2, <2>4 DEF TypeOK
<1> QED
  BY <1>1, <1>2, PTL DEF Spec

(* No iteration overlaps its predecessor, leaves a seam or overshoots.     *)
LEMMA CutKeepsBackToBack ==
    TypeOK /\ BackToBack /\ CutChunk => BackToBack'
<1> SUFFICES ASSUME TypeOK, BackToBack, CutChunk PROVE BackToBack'
  OBVIOUS
<1> DEFINE full == cursor + batch_days - 1
           end  == IF full < to THEN full ELSE to
           c    == [frm |-> cursor, to |-> end]
           n    == Len(out)
<1>1. /\ out' = Append(out, c) /\ cursor' = end + 1
      /\ UNCHANGED <<frm, to, batch_days>> /\ cursor <= to
  BY DEF CutChunk
<1>2. c \in Chunk /\ n \in Nat /\ cursor \in Int /\ to \in Int
  BY DEF TypeOK, Chunk
<1>3. /\ Len(out') = n + 1 /\ out'[n + 1] = c
      /\ \A k \in 1..n : out'[k] = out[k]
  BY <1>1, <1>2, AppendProperties DEF TypeOK
<1>4. out' # << >>
  BY <1>2, <1>3
<1>5. ASSUME NEW k \in 1..n
      PROVE  /\ out'[k].frm = IF k = 1 THEN frm ELSE out'[k - 1].to + 1
             /\ out'[k].frm <= out'[k].to
             /\ out'[k].to - out'[k].frm < batch_days
             /\ out'[k].to <= to
  <2>1. k # 1 => k - 1 \in 1..n
    BY <1>2
  <2> QED
    BY <1>3, <2>1 DEF BackToBack
<1>6. /\ c.frm = IF n + 1 = 1 THEN frm ELSE out'[n].to + 1
      /\ c.frm <= c.to /\ c.to - c.frm < batch_days /\ c.to <= to
  <2>1. cursor = IF n = 0 THEN frm ELSE out'[n].to + 1
    BY <1>2, <1>3, EmptySeq DEF BackToBack, TypeOK
  <2>2. cursor <= end /\ end - cursor < batch_days /\ end <= to
    BY <1>1, <1>2 DEF TypeOK
  <2> QED
    BY <1>2, <2>1, <2>2
<1>7. cursor' = out'[Len(out')].to + 1
  BY <1>1, <1>3
<1>8. ASSUME NEW k \in 1..(n + 1)
      PROVE  /\ out'[k].frm = IF k = 1 THEN frm ELSE out'[k - 1].to + 1
             /\ out'[k].frm <= out'[k].to
             /\ out'[k].to - out'[k].frm < batch_days
             /\ out'[k].to <= to
  <2>1. CASE k \in 1..n
    BY <1>5, <2>1
  <2>2. CASE k = n + 1
    BY <1>2, <1>3, <1>6, <2>2
  <2> QED
    BY <1>2, <2>1, <2>2
<1> QED
  BY <1>1, <1>3, <1>4, <1>7, <1>8 DEF BackToBack

(***************************************************************************)
(* split_backfill tiles the window: when the loop is over, the chunks it   *)
(* returns cover every day once, none longer than batch_days.              *)
(***************************************************************************)
THEOREM SplitTilesWindow == Spec => []ChunksTileWindow
<1> DEFINE Inv == BackToBack /\ (out = << >> => cursor = frm)
<1>1. Init => Inv
  <2> SUFFICES ASSUME Init PROVE BackToBack
    BY DEF Init
  <2> QED
    BY DEF Init, BackToBack
<1>2. TypeOK /\ Inv /\ [Next]_vars => Inv'
  <2> SUFFICES ASSUME TypeOK, BackToBack, [Next]_vars PROVE BackToBack'
    BY DEF BackToBack
  <2>1. CASE CutChunk
    BY <2>1, CutKeepsBackToBack
  <2>2. CASE UNCHANGED vars
    BY <2>2 DEF vars, BackToBack
  <2> QED
    BY <2>1, <2>2 DEF Next
<1>3. TypeOK /\ Inv => ChunksTileWindow
  <2> SUFFICES ASSUME TypeOK, BackToBack, cursor > to
               PROVE  IF frm > to THEN out = << >>
                                  ELSE out # << >> /\ out[Len(out)].to = to
    BY DEF ChunksTileWindow, Done
  <2>1. CASE out = << >>
    BY <2>1 DEF BackToBack, TypeOK
  <2>2. CASE out # << >>
    <3>1. Len(out) \in 1..Len(out) /\ 1 \in 1..Len(out)
      BY <2>2, EmptySeq, LenProperties DEF TypeOK
    <3>2. out[Len(out)] \in Chunk /\ out[1] \in Chunk
      BY <3>1, ElementOfSeq DEF TypeOK
    <3>3. out[Len(out)].to = to
      BY <2>2, <3>1, <3>2 DEF BackToBack, TypeOK, Chunk
    <3>4. frm <= to
      BY <3>1, <3>2 DEF BackToBack, TypeOK, Chunk
    <3> QED
      BY <2>2, <3>3, <3>4 DEF TypeOK
  <2> QED
    BY <2>1, <2>2
<1> QED
  BY <1>1, <1>2, <1>3, TypeCorrect, PTL DEF Spec

-----------------------------------------------------------------------------
(* The loop against the planner's set of chunks.                           *)

(* Quotient and residue.                                                   *)
LEMMA DivMod ==
    ASSUME NEW x \in Int, NEW n \in Nat \ {0}
    PROVE  \E q \in Int, r \in 0..(n - 1) : x = n * q + r
<1>1. /\ x = n * (x \div n) + (x % n)
      /\ x \div n \in Int /\ x % n \in 0..(n - 1)
  OBVIOUS
<1> QED
  BY <1>1

LEMMA Multiples ==
    ASSUME NEW x \in Int, NEW n \in Nat \ {0}, x % n = 0
    PROVE  \E q \in Int : x = n * q
<1>1. x = n * (x \div n) + (x % n) /\ x \div n \in Int
  OBVIOUS
<1> QED
  BY <1>1

LEMMA ResidueIsUnique ==
    ASSUME NEW n \in Nat \ {0}, NEW q \in Int, NEW r \in 0..(n - 1)
    PROVE  (n * q + r) % n = r
  OBVIOUS

(* Does a chunk of n days start on s, when the first starts on a?          *)
IsStart(s, a, n) == (s - a) % n = 0

(* From one start of a chunk to the next, there is no other.               *)
LEMMA NextStart ==
    ASSUME NEW a \in Int, NEW c \in Int, NEW s \in Int, NEW n \in Nat \ {0},
           IsStart(c, a, n), c <= s, s <= c + n
    PROVE  IsStart(s, a, n) <=> s = c \/ s = c + n
<1>1. PICK q \in Int : c - a = n * q
  <2>1. c - a \in Int /\ (c - a) % n = 0
    BY DEF IsStart
  <2> QED
    BY <2>1, Multiples
<1>2. CASE s = c + n
  <2>1. s - a = n * (q + 1) + 0 /\ q + 1 \in Int /\ 0 \in 0..(n - 1)
    BY <1>1, <1>2
  <2>2. (n * (q + 1) + 0) % n = 0
    BY <2>1, ResidueIsUnique
  <2> QED
    BY <1>2, <2>1, <2>2 DEF IsStart
<1>3. CASE s # c + n
  <2> DEFINE k == s - c
  <2>1. k \in 0..(n - 1) /\ s - a = n * q + k /\ (k = 0 <=> s = c)
    BY <1>1, <1>3
  <2> HIDE DEF k
  <2>2. (n * q + k) % n = k
    BY <2>1, ResidueIsUnique
  <2> QED
    BY <1>3, <2>1, <2>2 DEF IsStart
<1> QED
  BY <1>2, <1>3

(* The chunk that starts on day s, and the days the planner starts one on. *)
ChunkAt(s) ==
    [frm |-> s, to |-> IF s + batch_days - 1 < to THEN s + batch_days - 1 ELSE to]

StartsBefore(d) == {s \in frm..to : IsStart(s, frm, batch_days) /\ s < d}

(* Behind every iteration: the chunks cut are those that start before the  *)
(* cursor, and the cursor, unless it has left the window, is on a start.   *)
CutIsPlanned ==
    /\ frm <= cursor
    /\ cursor <= to => IsStart(cursor, frm, batch_days)
    /\ {out[k] : k \in 1..Len(out)} = {ChunkAt(s) : s \in StartsBefore(cursor)}

LEMMA CutKeepsPlan == TypeOK /\ CutIsPlanned /\ CutChunk => CutIsPlanned'
<1> SUFFICES ASSUME TypeOK, CutIsPlanned, CutChunk PROVE CutIsPlanned'
  OBVIOUS
<1> DEFINE n    == batch_days
           full == cursor + n - 1
           end  == IF full < to THEN full ELSE to
<1>1. /\ cursor \in Int /\ frm \in Int /\ to \in Int /\ n \in Nat \ {0}
      /\ cursor <= to /\ frm <= cursor /\ IsStart(cursor, frm, n)
  BY DEF TypeOK, CutIsPlanned, CutChunk
<1>2. /\ out' = Append(out, ChunkAt(cursor)) /\ cursor' = end + 1
      /\ UNCHANGED <<frm, to, batch_days>>
  BY DEF CutChunk, ChunkAt
<1>3. /\ cursor < cursor' /\ cursor' <= cursor + n
      /\ cursor' <= to => cursor' = cursor + n
  BY <1>1, <1>2
<1>4. \A s \in Int : cursor <= s /\ s <= cursor + n =>
        (IsStart(s, frm, n) <=> s = cursor \/ s = cursor + n)
  BY <1>1, NextStart
<1>5. cursor' <= to => IsStart(cursor', frm, n)
  <2> SUFFICES ASSUME cursor' <= to PROVE IsStart(cursor', frm, n)
    OBVIOUS
  <2>1. cursor + n \in Int /\ cursor' = cursor + n /\ cursor <= cursor + n
    BY <1>1, <1>3
  <2> QED
    BY <1>4, <2>1
<1>6. StartsBefore(cursor)' = StartsBefore(cursor) \cup {cursor}
  <2>1. StartsBefore(cursor)'
          = {s \in frm..to : IsStart(s, frm, n) /\ s < cursor'}
    BY <1>2 DEF StartsBefore
  <2>2. \A s \in frm..to : cursor <= s /\ s < cursor' =>
          s <= cursor + n /\ s # cursor + n
    BY <1>1, <1>3, <1>2
  <2>3. \A s \in frm..to : (s < cursor => s < cursor') /\ s \in Int
                            /\ (~(s < cursor) => cursor <= s)
    BY <1>1, <1>2, <1>3
  <2>4. cursor \in frm..to /\ cursor < cursor'
    BY <1>1, <1>3
  <2>5. \A s \in frm..to : IsStart(s, frm, n) /\ s < cursor' =>
          s < cursor \/ s = cursor
    BY <1>4, <2>2, <2>3
  <2> QED
    BY <1>1, <2>1, <2>3, <2>4, <2>5 DEF StartsBefore
<1>7. {out[k] : k \in 1..Len(out)}' = {out[k] : k \in 1..Len(out)} \cup {ChunkAt(cursor)}
  <2> DEFINE m == Len(out)
  <2>1. m \in Nat /\ ChunkAt(cursor) \in Chunk
    BY <1>1 DEF TypeOK, ChunkAt, Chunk
  <2>2. /\ Len(out') = m + 1 /\ out'[m + 1] = ChunkAt(cursor)
        /\ \A k \in 1..m : out'[k] = out[k]
    BY <1>2, <2>1, AppendProperties DEF TypeOK
  <2>3. 1..(m + 1) = (1..m) \cup {m + 1}
    BY <2>1
  <2> HIDE DEF m
  <2>4. {out'[k] : k \in 1..(m + 1)} = {out'[k] : k \in 1..m} \cup {out'[m + 1]}
    BY <2>3
  <2>5. {out'[k] : k \in 1..m} = {out[k] : k \in 1..m}
    BY <2>2
  <2> QED
    BY <2>2, <2>4, <2>5 DEF m
<1>8. \A s : ChunkAt(s)' = ChunkAt(s)
  BY <1>2 DEF ChunkAt
<1>9. {out[k] : k \in 1..Len(out)}' = {ChunkAt(s) : s \in StartsBefore(cursor)}'
  BY <1>6, <1>7, <1>8 DEF CutIsPlanned
<1>10. (frm <= cursor)' /\ (cursor <= to => IsStart(cursor, frm, batch_days))'
  BY <1>1, <1>2, <1>3, <1>5
<1> QED
  BY <1>9, <1>10, Zenon DEF CutIsPlanned

(***************************************************************************)
(* split_backfill returns the chunks SyncEngine plans a backfill with, for *)
(* every window and chunk length.                                          *)
(***************************************************************************)
THEOREM LoopCutsThePlan == Spec => []LoopIsSplitBackfill
<1>1. Init => CutIsPlanned
  <2> SUFFICES ASSUME Init PROVE CutIsPlanned
    OBVIOUS
  <2>1. frm \in Int /\ to \in Int /\ batch_days \in Nat \ {0}
    BY DatesAssumption, BatchSizesAssumption DEF Init
  <2>2. IsStart(cursor, frm, batch_days)
    <3>1. (batch_days * 0 + 0) % batch_days = 0
      BY <2>1, ResidueIsUnique
    <3> QED
      BY <2>1, <3>1 DEF Init, IsStart
  <2>3. StartsBefore(cursor) = {} /\ {out[k] : k \in 1..Len(out)} = {}
    BY <2>1 DEF Init, StartsBefore
  <2> QED
    BY <2>1, <2>2, <2>3 DEF CutIsPlanned, Init
<1>2. TypeOK /\ CutIsPlanned /\ [Next]_vars => CutIsPlanned'
  <2>1. CutIsPlanned /\ UNCHANGED vars => CutIsPlanned'
    BY DEF vars, CutIsPlanned, StartsBefore, ChunkAt
  <2> QED
    BY <2>1, CutKeepsPlan DEF Next
<1>3. TypeOK /\ CutIsPlanned => LoopIsSplitBackfill
  <2> SUFFICES ASSUME TypeOK, CutIsPlanned, Done
               PROVE  {out[k] : k \in 1..Len(out)} = P!SplitBackfill(frm, to, batch_days)
    BY DEF LoopIsSplitBackfill
  <2>1. StartsBefore(cursor) = {s \in frm..to : IsStart(s, frm, batch_days)}
    BY DEF StartsBefore, Done, TypeOK
  <2> QED
    BY <2>1 DEF CutIsPlanned, ChunkAt, P!SplitBackfill, IsStart
<1> QED
  BY <1>1, <1>2, <1>3, TypeCorrect, PTL DEF Spec

-----------------------------------------------------------------------------
(* What the engine relies on when it plans with the set.                   *)

(* Two starts are a whole chunk apart.                                     *)
LEMMA StartsAreApart ==
    ASSUME NEW a \in Int, NEW c \in Int, NEW s \in Int, NEW n \in Nat \ {0},
           IsStart(c, a, n), IsStart(s, a, n), c < s
    PROVE  c + n <= s
<1>1. CASE s <= c + n
  BY <1>1, NextStart
<1>2. CASE ~(s <= c + n)
  BY <1>2
<1> QED
  BY <1>1, <1>2

(***************************************************************************)
(* Every day of a window is in one chunk of the plan and in no second one, *)
(* every chunk lies in the window and none is longer than n days: two      *)
(* tasks of a backfill never fetch the same day of an instrument.          *)
(***************************************************************************)
THEOREM PlanTilesWindow ==
    ASSUME NEW a \in Int, NEW b \in Int, NEW n \in Nat \ {0}
    PROVE  /\ \A c \in P!SplitBackfill(a, b, n) :
                a <= c.frm /\ c.frm <= c.to /\ c.to <= b /\ c.to - c.frm < n
           /\ \A d \in a..b : \E c \in P!SplitBackfill(a, b, n) :
                c.frm <= d /\ d <= c.to
           /\ \A d \in a..b : \A c, e \in P!SplitBackfill(a, b, n) :
                c.frm <= d /\ d <= c.to /\ e.frm <= d /\ d <= e.to => c = e
<1> DEFINE At(s) == [frm |-> s, to |-> IF s + n - 1 < b THEN s + n - 1 ELSE b]
<1>1. P!SplitBackfill(a, b, n) = {At(s) : s \in {d \in a..b : IsStart(d, a, n)}}
  BY DEF P!SplitBackfill, IsStart
<1>2. \A s \in a..b : /\ At(s).frm = s /\ s <= At(s).to
                      /\ At(s).to <= b /\ At(s).to < s + n
  OBVIOUS
<1>3. ASSUME NEW d \in a..b
      PROVE  \E s \in a..b : IsStart(s, a, n) /\ s <= d /\ d <= At(s).to
  <2>1. PICK q \in Int, r \in 0..(n - 1) : d - a = n * q + r
    <3>1. d - a \in Int
      OBVIOUS
    <3> QED
      BY <3>1, DivMod
  <2>2. IsStart(d - r, a, n)
    <3>1. (d - r) - a = n * q + 0 /\ 0 \in 0..(n - 1)
      BY <2>1
    <3>2. (n * q + 0) % n = 0
      BY <3>1, ResidueIsUnique
    <3> QED
      BY <3>1, <3>2 DEF IsStart
  <2>3. d - r \in a..b
    <3>1. q >= 0
      <4>1. d - a >= 0 /\ r < n
        OBVIOUS
      <4>2. CASE q < 0
        <5>1. q <= 0 - 1 /\ q + 1 <= 0
          BY <4>2
        <5>2. n * (q + 1) <= 0
          BY <5>1
        <5>3. n * q + n = n * (q + 1)
          OBVIOUS
        <5> QED
          BY <2>1, <4>1, <5>2, <5>3
      <4> QED
        BY <4>2
    <3>2. n * q >= 0
      BY <3>1
    <3> QED
      BY <2>1, <3>2
  <2>4. d - r <= d /\ d <= At(d - r).to
    BY <2>3
  <2> QED
    BY <2>2, <2>3, <2>4
<1>4. ASSUME NEW d \in a..b, NEW s \in a..b, NEW t \in a..b,
             IsStart(s, a, n), IsStart(t, a, n),
             s <= d, d <= At(s).to, t <= d, d <= At(t).to
      PROVE  s = t
  <2>1. d < s + n /\ d < t + n
    BY <1>2, <1>4
  <2>2. CASE s < t
    BY <1>4, <2>1, <2>2, StartsAreApart
  <2>3. CASE t < s
    BY <1>4, <2>1, <2>3, StartsAreApart
  <2> QED
    BY <2>2, <2>3
<1>5. \A c : c \in P!SplitBackfill(a, b, n)
              <=> \E s \in a..b : IsStart(s, a, n) /\ c = At(s)
  BY <1>1
<1> HIDE DEF At
<1>6. ASSUME NEW c \in P!SplitBackfill(a, b, n)
      PROVE  a <= c.frm /\ c.frm <= c.to /\ c.to <= b /\ c.to - c.frm < n
  <2>1. PICK s \in a..b : c = At(s)
    BY <1>5
  <2>2. s \in Int /\ c.frm = s /\ s <= c.to /\ c.to <= b /\ c.to < s + n
    BY <1>2, <2>1
  <2>3. c.to \in Int
    BY <2>1 DEF At
  <2> QED
    BY <2>2, <2>3
<1>7. ASSUME NEW d \in a..b
      PROVE  \E c \in P!SplitBackfill(a, b, n) : c.frm <= d /\ d <= c.to
  BY <1>2, <1>3, <1>5
<1>8. ASSUME NEW d \in a..b, NEW c \in P!SplitBackfill(a, b, n),
             NEW e \in P!SplitBackfill(a, b, n),
             c.frm <= d, d <= c.to, e.frm <= d, d <= e.to
      PROVE  c = e
  <2>1. PICK s \in a..b, t \in a..b : /\ IsStart(s, a, n) /\ c = At(s)
                                      /\ IsStart(t, a, n) /\ e = At(t)
    BY <1>5
  <2> QED
    BY <1>2, <1>4, <1>8, <2>1
<1> QED
  BY <1>6, <1>7, <1>8
=============================================================================
