------------------------- MODULE ProviderRetryProofs -------------------------
(* For any number of calls, slots and attempts: how often a download asks  *)
(* the provider, and when its failure is its own.                          *)
EXTENDS ProviderRetry, FiniteSetTheorems, TLAPS

USE RetryAssumption

(* Who has begun, and whose states they report to.                         *)
CallsAreNumbered ==
    /\ retry.call = calls
    /\ \A d \in Downloads :
         dl[d].st # "waiting" => dl[d].own \in 1..calls
                                 /\ dl[d].held \in dl[d].own..calls

(* The requests a download may have made so far, by the states it has met: *)
(* one that is replaced counts in full, the current one by its number.     *)
Earlier(own, n) == MaxAttempts * (n - own)

TriesAreCounted ==
    \A d \in Downloads :
      /\ dl[d].st = "request" =>
           dl[d].tries <= Earlier(dl[d].own, dl[d].held) +
             (IF dl[d].held = calls THEN retry.number ELSE MaxAttempts)
      /\ dl[d].st = "asleep" =>
           dl[d].tries <= Earlier(dl[d].own, calls) + retry.number - 1
      /\ dl[d].st \in {"done", "failed"} =>
           dl[d].tries <= Earlier(dl[d].own, calls) + MaxAttempts

(* A download that is by itself has the state to itself.                   *)
AloneOwnsState ==
    \A d \in Downloads : dl[d].alone /\ dl[d].st \in Active =>
      /\ ActiveDownloads = {d}
      /\ dl[d].own = calls /\ dl[d].held = calls
      /\ retry.outcome = "none"
      /\ dl[d].st = "request" => retry.number = dl[d].tries
      /\ dl[d].st = "asleep" => retry.number = dl[d].tries + 1
                                /\ dl[d].err = "retriable"

-----------------------------------------------------------------------------
(* What one step does.                                                     *)

LEMMA KindType == ASSUME NEW fault \in Faults
                  PROVE  Kind(fault) \in {"retriable", "permanent"}
BY DEF Kind, Faults

State == [call : 0..calls, number : 1..MaxAttempts, outcome : Outcomes]

LEMMA ReportedType ==
    ASSUME TypeOK, NEW d \in Downloads, NEW outcome \in Outcomes
    PROVE  /\ Reported(d, outcome) \in State
           /\ Reported(d, outcome).call = retry.call
           /\ Reported(d, outcome).number = retry.number
           /\ dl[d].held = retry.call => Reported(d, outcome).outcome = outcome
           /\ dl[d].held # retry.call => Reported(d, outcome) = retry
BY DEF TypeOK, Reported, State

LEMMA IterateType ==
    ASSUME TypeOK, NEW d \in Downloads, NEW err \in Outcomes, NEW state \in State,
           Iterate(d, state, err), UNCHANGED <<calls, meta>>
    PROVE  TypeOK'
<1>1. /\ dl[d] \in Download /\ dl[d].tries + 1 \in Nat
      /\ state.call \in Nat
  BY DEF TypeOK, Download, State
<1>2. CASE AsksAgain(d, state, err)
  <2>1. [dl[d] EXCEPT !.st = "request", !.held = state.call,
                      !.tries = dl[d].tries + 1, !.err = err] \in Download
    BY <1>1 DEF Download, Active
  <2> QED BY <1>2, <2>1 DEF AsksAgain, TypeOK, State
<1>3. CASE BacksOff(d, state, err)
  <2>1. [dl[d] EXCEPT !.st = "asleep", !.err = err] \in Download
    BY <1>1 DEF Download, Active
  <2>2. NextAttempt(state) \in State
    <3>1. state.number \in 1..MaxAttempts /\ state.number < MaxAttempts
      BY <1>3 DEF BacksOff, Exhausted, State
    <3>2. state.number + 1 \in 1..MaxAttempts
      BY <3>1
    <3> QED BY <3>2 DEF NextAttempt, State, Outcomes
  <2> QED BY <1>3, <2>1, <2>2 DEF BacksOff, TypeOK, State
<1>4. CASE GivesUp(d, state, err)
  <2>1. [dl[d] EXCEPT !.st = "failed", !.err = err] \in Download
    BY <1>1 DEF Download
  <2> QED BY <1>4, <2>1 DEF GivesUp, TypeOK, State
<1> QED BY <1>2, <1>3, <1>4 DEF Iterate

-----------------------------------------------------------------------------
(* The type invariant.                                                     *)

(* The retry loop keeps to the types and never counts past MaxAttempts     *)
(* (stop_after_attempt and prepare_for_next_attempt).                      *)
THEOREM RetryTypeCorrect == Spec => []TypeOK
<1>1. Init => TypeOK
  BY DEF Init, TypeOK, Download, Active, Outcomes
<1>2. TypeOK /\ [Next]_vars => TypeOK'
  <2> SUFFICES ASSUME TypeOK, [Next]_vars PROVE TypeOK'
    OBVIOUS
  <2>1. ASSUME NEW d \in Downloads, Begin(d) PROVE TypeOK'
    <3>1. ASSUME NEW e \in Downloads PROVE dl'[e] \in Download
      <4>1. dl[e] \in Download
        BY DEF TypeOK
      <4>2. [dl[e] EXCEPT !.alone = FALSE] \in Download
        BY <4>1 DEF Download
      <4>3. [st |-> "request", own |-> calls + 1, held |-> calls + 1, tries |-> 1,
             err |-> "none", alone |-> ActiveDownloads = {}] \in Download
        <5>1. calls + 1 \in Nat /\ "none" \in Outcomes /\ "request" \in Active
          BY DEF TypeOK, Outcomes, Active
        <5>2. (ActiveDownloads = {}) \in BOOLEAN
          OBVIOUS
        <5> HIDE DEF Outcomes, Active
        <5> QED BY <5>1, <5>2 DEF Download
      <4> QED BY <2>1, <4>1, <4>2, <4>3, Zenon DEF Begin
    <3> QED BY <2>1, <3>1 DEF TypeOK, Begin, FreshState, Outcomes
  <2>2. ASSUME NEW d \in Downloads, Succeeds(d) PROVE TypeOK'
    <3>1. [dl[d] EXCEPT !.st = "done", !.err = "ok"] \in Download
      <4>1. dl[d] \in Download
        BY DEF TypeOK
      <4> QED BY <4>1 DEF Download, Outcomes
    <3> QED BY <2>2, <3>1, ReportedType DEF TypeOK, Succeeds, Outcomes, State
  <2>3. ASSUME NEW d \in Downloads, Fails(d) PROVE TypeOK'
    BY <2>3, KindType, ReportedType, IterateType DEF Fails, Outcomes
  <2>4. ASSUME NEW d \in Downloads, Wakes(d) PROVE TypeOK'
    <3>1. dl[d].err \in Outcomes
      BY DEF TypeOK, Download
    <3> QED BY <2>4, <3>1, IterateType DEF Wakes, TypeOK, State
  <2>5. ASSUME NEW m \in Metas, MetaStep(m) PROVE TypeOK'
    BY <2>5 DEF TypeOK, MetaStep, BeginMeta, EndMeta
  <2>6. CASE UNCHANGED vars
    BY <2>6 DEF TypeOK, vars
  <2> QED BY <2>1, <2>2, <2>3, <2>4, <2>5, <2>6 DEF Next, StepOf
<1> QED BY <1>1, <1>2, PTL DEF Spec
-----------------------------------------------------------------------------
(* How often the provider is asked.                                        *)

LEMMA TimesSum == \A a, x, y \in Nat : /\ a * x \in Nat
                                      /\ a * (x + y) = a * x + a * y
                                      /\ a * 1 = a
OBVIOUS

LEMMA EarlierGrows ==
    ASSUME NEW o \in Nat, NEW n \in Nat, NEW m \in Nat, o <= n, n <= m
    PROVE  /\ Earlier(o, n) \in Nat
           /\ Earlier(o, n + 1) = Earlier(o, n) + MaxAttempts
           /\ n < m => Earlier(o, n) + MaxAttempts <= Earlier(o, m)
<1>1. PICK x \in Nat : x = n - o
  OBVIOUS
<1>2. MaxAttempts * x \in Nat /\ MaxAttempts * (x + 1) = MaxAttempts * x + MaxAttempts
  BY TimesSum
<1>3. ASSUME n < m
      PROVE  MaxAttempts * (x + 1) <= MaxAttempts * (m - o)
  <2>1. PICK k \in Nat : m = n + 1 + k
    <3>1. m - n - 1 \in Nat
      BY <1>3
    <3> QED BY <3>1
  <2>2. m - o = (x + 1) + k
    BY <2>1, <1>1
  <2>3. MaxAttempts * ((x + 1) + k) = MaxAttempts * (x + 1) + MaxAttempts * k
        /\ MaxAttempts * (x + 1) \in Nat /\ MaxAttempts * k \in Nat
    BY TimesSum
  <2> QED BY <2>2, <2>3
<1>4. n + 1 - o = x + 1
  BY <1>1
<1> QED BY <1>1, <1>2, <1>3, <1>4 DEF Earlier

LEMMA EarlierNat == \A o, n \in Nat : o <= n => Earlier(o, n) \in Nat
<1> SUFFICES ASSUME NEW o \in Nat, NEW n \in Nat, o <= n PROVE Earlier(o, n) \in Nat
  OBVIOUS
<1>1. n <= n
  OBVIOUS
<1> QED BY <1>1, EarlierGrows

LEMMA EarlierNext ==
    \A o, n \in Nat : o <= n =>
        /\ Earlier(o, n + 1) = Earlier(o, n) + MaxAttempts
        /\ Earlier(o, n + 1) = MaxAttempts * (n - o + 1)
<1> SUFFICES ASSUME NEW o \in Nat, NEW n \in Nat, o <= n
             PROVE  /\ Earlier(o, n + 1) = Earlier(o, n) + MaxAttempts
                    /\ Earlier(o, n + 1) = MaxAttempts * (n - o + 1)
  OBVIOUS
<1>1. n <= n /\ n + 1 - o = n - o + 1
  OBVIOUS
<1>2. Earlier(o, n + 1) = Earlier(o, n) + MaxAttempts
  BY <1>1, EarlierGrows
<1> QED BY <1>1, <1>2 DEF Earlier

(* The effect of Iterate, field by field.                                  *)
LEMMA IterateEffect ==
    ASSUME TypeOK, NEW d \in Downloads, NEW err \in Outcomes, NEW state \in State,
           Iterate(d, state, err)
    PROVE  /\ \A e \in Downloads \ {d} : dl'[e] = dl[e]
           /\ dl'[d].own = dl[d].own /\ dl'[d].alone = dl[d].alone
           /\ dl'[d].err = err
           /\ retry'.call = state.call
           /\ \/ /\ state.outcome = "none" /\ retry' = state
                 /\ dl'[d].st = "request" /\ dl'[d].held = state.call
                 /\ dl'[d].tries = dl[d].tries + 1
              \/ /\ state.outcome = "retriable" /\ state.number < MaxAttempts
                 /\ retry'.number = state.number + 1 /\ retry'.outcome = "none"
                 /\ dl'[d].st = "asleep"
                 /\ dl'[d].held = dl[d].held /\ dl'[d].tries = dl[d].tries
              \/ /\ state.outcome # "none"
                 /\ state.outcome = "retriable" => state.number = MaxAttempts
                 /\ retry' = state /\ dl'[d].st = "failed"
                 /\ dl'[d].held = dl[d].held /\ dl'[d].tries = dl[d].tries
<1>1. dl[d] \in Download /\ dl \in [Downloads -> Download]
  BY DEF TypeOK
<1>2. CASE AsksAgain(d, state, err)
  <2>1. dl'[d] = [dl[d] EXCEPT !.st = "request", !.held = state.call,
                               !.tries = dl[d].tries + 1, !.err = err]
    BY <1>1, <1>2 DEF AsksAgain
  <2>2. \A e \in Downloads \ {d} : dl'[e] = dl[e]
    BY <1>1, <1>2 DEF AsksAgain
  <2>3. state.outcome = "none" /\ retry' = state
    BY <1>2 DEF AsksAgain
  <2> QED BY <1>1, <2>1, <2>2, <2>3 DEF Download
<1>3. CASE BacksOff(d, state, err)
  <2>1. dl'[d] = [dl[d] EXCEPT !.st = "asleep", !.err = err]
    BY <1>1, <1>3 DEF BacksOff
  <2>2. \A e \in Downloads \ {d} : dl'[e] = dl[e]
    BY <1>1, <1>3 DEF BacksOff
  <2>3. state.outcome = "retriable" /\ state.number < MaxAttempts
    BY <1>3 DEF BacksOff, Exhausted, State
  <2>4. /\ retry'.number = state.number + 1 /\ retry'.outcome = "none"
        /\ retry'.call = state.call
    BY <1>3 DEF BacksOff, NextAttempt, State
  <2> QED BY <1>1, <2>1, <2>2, <2>3, <2>4 DEF Download
<1>4. CASE GivesUp(d, state, err)
  <2>1. dl'[d] = [dl[d] EXCEPT !.st = "failed", !.err = err]
    BY <1>1, <1>4 DEF GivesUp
  <2>2. \A e \in Downloads \ {d} : dl'[e] = dl[e]
    BY <1>1, <1>4 DEF GivesUp
  <2>3. /\ state.outcome # "none" /\ retry' = state
        /\ state.outcome = "retriable" => state.number = MaxAttempts
    BY <1>4 DEF GivesUp, Exhausted, State
  <2> QED BY <1>1, <2>1, <2>2, <2>3 DEF Download
<1> QED BY <1>2, <1>3, <1>4 DEF Iterate

LEMMA BeginEffect ==
    ASSUME TypeOK, NEW d \in Downloads, Begin(d)
    PROVE  /\ dl[d].st = "waiting" /\ calls' = calls + 1 /\ UNCHANGED meta
           /\ retry' = [call |-> calls + 1, number |-> 1, outcome |-> "none"]
           /\ dl'[d].st = "request" /\ dl'[d].own = calls + 1
           /\ dl'[d].held = calls + 1 /\ dl'[d].tries = 1
           /\ \A e \in Downloads \ {d} :
                /\ dl'[e].st = dl[e].st /\ dl'[e].own = dl[e].own
                /\ dl'[e].held = dl[e].held /\ dl'[e].tries = dl[e].tries
                /\ dl'[e].err = dl[e].err
<1>1. dl \in [Downloads -> Download]
  BY DEF TypeOK
<1>2. dl'[d] = [st |-> "request", own |-> calls + 1, held |-> calls + 1, tries |-> 1,
                err |-> "none", alone |-> ActiveDownloads = {}]
  BY Zenon DEF Begin
<1>3. \A e \in Downloads \ {d} :
        dl'[e] = IF e \in ActiveDownloads THEN [dl[e] EXCEPT !.alone = FALSE] ELSE dl[e]
  BY Zenon DEF Begin
<1>4. /\ dl'[d].st = "request" /\ dl'[d].own = calls + 1
      /\ dl'[d].held = calls + 1 /\ dl'[d].tries = 1
  BY <1>2
<1>6. ASSUME NEW e \in Downloads \ {d}
      PROVE  /\ dl'[e].st = dl[e].st /\ dl'[e].own = dl[e].own
             /\ dl'[e].held = dl[e].held /\ dl'[e].tries = dl[e].tries
             /\ dl'[e].err = dl[e].err
  <2>1. dl[e] \in Download
    BY <1>1
  <2>2. CASE e \in ActiveDownloads
    BY <1>3, <2>1, <2>2 DEF Download
  <2>3. CASE e \notin ActiveDownloads
    BY <1>3, <2>3
  <2> QED BY <2>2, <2>3
<1>7. /\ dl[d].st = "waiting" /\ calls' = calls + 1 /\ UNCHANGED meta
      /\ retry' = [call |-> calls + 1, number |-> 1, outcome |-> "none"]
  BY DEF Begin, FreshState
<1> QED BY <1>4, <1>6, <1>7

LEMMA SucceedsEffect ==
    ASSUME TypeOK, NEW d \in Downloads, Succeeds(d)
    PROVE  /\ dl[d].st = "request" /\ UNCHANGED <<calls, meta>>
           /\ retry'.call = retry.call /\ retry'.number = retry.number
           /\ dl'[d].st = "done" /\ dl'[d].own = dl[d].own
           /\ dl'[d].held = dl[d].held /\ dl'[d].tries = dl[d].tries
           /\ dl'[d].alone = dl[d].alone
           /\ \A e \in Downloads \ {d} : dl'[e] = dl[e]
<1>1. dl[d] \in Download /\ dl \in [Downloads -> Download]
  BY DEF TypeOK
<1>2. dl'[d] = [dl[d] EXCEPT !.st = "done", !.err = "ok"]
      /\ \A e \in Downloads \ {d} : dl'[e] = dl[e]
  BY <1>1 DEF Succeeds
<1>3. /\ dl[d].st = "request" /\ UNCHANGED <<calls, meta>>
      /\ retry'.call = retry.call /\ retry'.number = retry.number
  BY ReportedType DEF Succeeds, Outcomes
<1> QED BY <1>1, <1>2, <1>3 DEF Download

(* What the count comes to, whatever the download is doing.                *)
LEMMA TriesNow ==
    ASSUME TypeOK, CallsAreNumbered, TriesAreCounted,
           NEW d \in Downloads, dl[d].st # "waiting"
    PROVE  /\ dl[d].tries <= Earlier(dl[d].own, calls) + MaxAttempts
           /\ dl[d].st = "request" /\ dl[d].held # calls =>
                dl[d].tries <= Earlier(dl[d].own, calls)
<1> DEFINE o == dl[d].own
           h == dl[d].held
<1>1. /\ o \in Nat /\ h \in Nat /\ o <= h /\ h <= calls /\ calls \in Nat
      /\ dl[d].tries \in Nat /\ retry.number \in 1..MaxAttempts
      /\ dl[d].st \in {"request", "asleep", "done", "failed"}
  BY DEF TypeOK, CallsAreNumbered, Download, Active
<1>2. /\ Earlier(o, h) \in Nat /\ Earlier(o, calls) \in Nat
      /\ h # calls => Earlier(o, h) + MaxAttempts <= Earlier(o, calls)
  <2> HIDE DEF o, h
  <2>1. Earlier(o, calls) \in Nat
    BY <1>1, EarlierNat
  <2>2. /\ Earlier(o, h) \in Nat
        /\ h < calls => Earlier(o, h) + MaxAttempts <= Earlier(o, calls)
    BY <1>1, EarlierGrows
  <2> QED BY <1>1, <2>1, <2>2
<1> QED BY <1>1, <1>2 DEF TriesAreCounted

(* A download that asks again, backs off or gives up stays within it.      *)
LEMMA IterateCounts ==
    ASSUME TypeOK, CallsAreNumbered, TriesAreCounted,
           NEW d \in Downloads, dl[d].st \in Active,
           NEW err \in Outcomes, NEW state \in State,
           state.call = calls, state.number = retry.number,
           dl[d].st = "request" /\ dl[d].held = calls => state.outcome # "none",
           Iterate(d, state, err), UNCHANGED <<calls, meta>>
    PROVE  CallsAreNumbered' /\ TriesAreCounted'
<1>1. \A e \in Downloads : dl[e] \in Download
  BY DEF TypeOK
<1>2. /\ calls \in Nat /\ calls' = calls
      /\ state.number \in 1..MaxAttempts
      /\ retry'.call = calls
      /\ retry'.number \in {state.number, state.number + 1}
  BY IterateEffect DEF TypeOK, State
<1>3. \A e \in Downloads :
        dl[e].st # "waiting" =>
          /\ dl[e].own \in 1..calls /\ dl[e].held \in dl[e].own..calls
          /\ Earlier(dl[e].own, calls) \in Nat
          /\ Earlier(dl[e].own, dl[e].held) \in Nat
  <2> SUFFICES ASSUME NEW e \in Downloads, dl[e].st # "waiting"
               PROVE  /\ dl[e].own \in 1..calls /\ dl[e].held \in dl[e].own..calls
                      /\ Earlier(dl[e].own, calls) \in Nat
                      /\ Earlier(dl[e].own, dl[e].held) \in Nat
    OBVIOUS
  <2>1. dl[e].own \in 1..calls /\ dl[e].held \in dl[e].own..calls
    BY DEF CallsAreNumbered
  <2>2. /\ dl[e].own \in Nat /\ dl[e].held \in Nat
        /\ dl[e].own <= calls /\ dl[e].own <= dl[e].held
    BY <1>2, <2>1
  <2> QED BY <1>2, <2>1, <2>2, EarlierNat
<1>4. CallsAreNumbered'
  BY <1>2, <1>3, IterateEffect DEF CallsAreNumbered, Active
<1>5. ASSUME NEW e \in Downloads \ {d}
      PROVE  /\ dl[e].st = "request" /\ dl[e].held = calls =>
                   dl[e].tries <= Earlier(dl[e].own, calls) + retry'.number
             /\ dl[e].st = "asleep" =>
                   dl[e].tries <= Earlier(dl[e].own, calls) + retry'.number - 1
  BY <1>1, <1>2, <1>3 DEF TriesAreCounted, Download
<1>6. dl[d].st # "waiting" /\ dl[d].tries \in Nat
  BY <1>1 DEF Active, Download
<1>7. /\ dl'[d].st = "request" =>
            dl'[d].held = calls
            /\ dl'[d].tries <= Earlier(dl[d].own, calls) + retry'.number
      /\ dl'[d].st = "asleep" =>
            dl'[d].tries <= Earlier(dl[d].own, calls) + retry'.number - 1
      /\ dl'[d].tries <= Earlier(dl[d].own, calls) + MaxAttempts
         \/ dl'[d].st \notin {"done", "failed"}
  <2> DEFINE bound == Earlier(dl[d].own, calls)
  <2>1. bound \in Nat /\ dl[d].tries <= bound + MaxAttempts
        /\ (dl[d].st = "request" /\ dl[d].held # calls => dl[d].tries <= bound)
        /\ (dl[d].st = "request" /\ dl[d].held = calls
              => dl[d].tries <= bound + retry.number)
        /\ (dl[d].st = "asleep" => dl[d].tries <= bound + retry.number - 1)
    BY <1>3, <1>6, TriesNow DEF TriesAreCounted
  <2> HIDE DEF bound
  <2> SUFFICES /\ dl'[d].st = "request" =>
                    dl'[d].held = calls /\ dl'[d].tries <= bound + retry'.number
               /\ dl'[d].st = "asleep" =>
                    dl'[d].tries <= bound + retry'.number - 1
               /\ dl'[d].tries <= bound + MaxAttempts
                  \/ dl'[d].st \notin {"done", "failed"}
    BY DEF bound
  <2>2. dl[d].st \in {"request", "asleep"}
    BY DEF Active
  <2>3. /\ \/ /\ state.outcome = "none" /\ retry' = state
              /\ dl'[d].st = "request" /\ dl'[d].held = state.call
              /\ dl'[d].tries = dl[d].tries + 1
           \/ /\ retry'.number = state.number + 1
              /\ dl'[d].st = "asleep" /\ dl'[d].tries = dl[d].tries
           \/ /\ dl'[d].st = "failed" /\ dl'[d].tries = dl[d].tries
    BY IterateEffect
  <2> QED BY <1>2, <1>6, <2>1, <2>2, <2>3
<1>8. TriesAreCounted'
  <2> SUFFICES ASSUME NEW e \in Downloads
               PROVE  /\ dl'[e].st = "request" =>
                           dl'[e].tries <= Earlier(dl'[e].own, dl'[e].held) +
                             (IF dl'[e].held = calls' THEN retry'.number
                              ELSE MaxAttempts)
                      /\ dl'[e].st = "asleep" =>
                           dl'[e].tries <= Earlier(dl'[e].own, calls') +
                             retry'.number - 1
                      /\ dl'[e].st \in {"done", "failed"} =>
                           dl'[e].tries <= Earlier(dl'[e].own, calls') + MaxAttempts
    BY DEF TriesAreCounted
  <2>1. CASE e = d
    <3>1. dl'[d].own = dl[d].own
      BY IterateEffect
    <3> QED BY <1>2, <1>7, <2>1, <3>1
  <2>2. CASE e # d
    <3>1. dl'[e] = dl[e]
      BY <2>2, IterateEffect
    <3> QED BY <1>2, <1>5, <2>2, <3>1 DEF TriesAreCounted
  <2> QED BY <2>1, <2>2
<1> QED BY <1>4, <1>8

RetryInv == TypeOK /\ CallsAreNumbered /\ TriesAreCounted

LEMMA BeginCounts ==
    ASSUME TypeOK, CallsAreNumbered, TriesAreCounted, NEW d \in Downloads, Begin(d)
    PROVE  CallsAreNumbered' /\ TriesAreCounted'
<1>1. /\ calls \in Nat /\ calls' = calls + 1
      /\ retry'.call = calls + 1 /\ retry'.number = 1
      /\ retry.number \in 1..MaxAttempts /\ MaxAttempts \in Nat
  BY BeginEffect DEF TypeOK
<1>2. CallsAreNumbered'
  <2> SUFFICES ASSUME NEW e \in Downloads, dl'[e].st # "waiting"
               PROVE  dl'[e].own \in 1..calls' /\ dl'[e].held \in dl'[e].own..calls'
    BY <1>1 DEF CallsAreNumbered
  <2>1. CASE e = d
    BY <1>1, <2>1, BeginEffect
  <2>2. CASE e # d
    <3>1. /\ dl[e].own \in 1..calls /\ dl[e].held \in dl[e].own..calls
          /\ dl'[e].own = dl[e].own /\ dl'[e].held = dl[e].held
      BY <2>2, BeginEffect DEF CallsAreNumbered
    <3> QED BY <1>1, <3>1
  <2> QED BY <2>1, <2>2
<1>3. TriesAreCounted'
  <2> SUFFICES ASSUME NEW e \in Downloads
               PROVE  /\ dl'[e].st = "request" =>
                           dl'[e].tries <= Earlier(dl'[e].own, dl'[e].held) +
                             (IF dl'[e].held = calls' THEN retry'.number
                              ELSE MaxAttempts)
                      /\ dl'[e].st = "asleep" =>
                           dl'[e].tries <= Earlier(dl'[e].own, calls') +
                             retry'.number - 1
                      /\ dl'[e].st \in {"done", "failed"} =>
                           dl'[e].tries <= Earlier(dl'[e].own, calls') + MaxAttempts
    BY DEF TriesAreCounted
  <2>1. CASE e = d
    <3>1. Earlier(calls + 1, calls + 1) = 0
      <4>1. MaxAttempts * 0 = 0 /\ (calls + 1) - (calls + 1) = 0
        BY <1>1
      <4> QED BY <4>1 DEF Earlier
    <3> QED BY <1>1, <2>1, <3>1, BeginEffect
  <2>2. CASE e # d /\ dl[e].st = "waiting"
    BY <2>2, BeginEffect
  <2>3. CASE e # d /\ dl[e].st # "waiting"
    <3>1. /\ dl'[e].st = dl[e].st /\ dl'[e].own = dl[e].own
          /\ dl'[e].held = dl[e].held /\ dl'[e].tries = dl[e].tries
      BY <2>3, BeginEffect
    <3>2. /\ dl[e].own \in Nat /\ dl[e].held \in Nat /\ dl[e].tries \in Nat
          /\ dl[e].own <= dl[e].held /\ dl[e].held <= calls /\ dl[e].own <= calls
      BY <1>1, <2>3 DEF TypeOK, Download, CallsAreNumbered
    <3>3. /\ Earlier(dl[e].own, calls) \in Nat
          /\ Earlier(dl[e].own, calls + 1) = Earlier(dl[e].own, calls) + MaxAttempts
      BY <1>1, <3>2, EarlierNat, EarlierNext
    <3>4. Earlier(dl[e].own, dl[e].held) \in Nat
      BY <3>2, EarlierNat
    <3>5. dl[e].held # calls'
      BY <1>1, <3>2
    <3>6. dl[e].tries <= Earlier(dl[e].own, calls) + MaxAttempts
      BY <2>3, TriesNow
    <3>7. dl[e].st = "request" =>
            dl[e].tries <= Earlier(dl[e].own, dl[e].held) + MaxAttempts
      BY <1>1, <3>2, <3>4 DEF TriesAreCounted
    <3> QED BY <1>1, <3>1, <3>2, <3>3, <3>4, <3>5, <3>6, <3>7
  <2> QED BY <2>1, <2>2, <2>3
<1> QED BY <1>2, <1>3

LEMMA SucceedsCounts ==
    ASSUME TypeOK, CallsAreNumbered, TriesAreCounted, NEW d \in Downloads, Succeeds(d)
    PROVE  CallsAreNumbered' /\ TriesAreCounted'
<1>1. dl[d].tries <= Earlier(dl[d].own, calls) + MaxAttempts
  BY SucceedsEffect, TriesNow
<1>2. CallsAreNumbered'
  BY SucceedsEffect DEF CallsAreNumbered
<1>3. TriesAreCounted'
  BY <1>1, SucceedsEffect DEF TriesAreCounted
<1> QED BY <1>2, <1>3

LEMMA RetryInductive == Spec => []RetryInv
<1>1. Init => RetryInv
  BY DEF Init, RetryInv, TypeOK, Download, Active, Outcomes,
         CallsAreNumbered, TriesAreCounted
<1>2. RetryInv /\ TypeOK' /\ [Next]_vars => RetryInv'
  <2> SUFFICES ASSUME RetryInv, TypeOK', [Next]_vars
               PROVE  CallsAreNumbered' /\ TriesAreCounted'
    BY DEF RetryInv
  <2>1. ASSUME NEW d \in Downloads, Begin(d)
        PROVE  CallsAreNumbered' /\ TriesAreCounted'
    BY <2>1, BeginCounts DEF RetryInv
  <2>2. ASSUME NEW d \in Downloads, Succeeds(d)
        PROVE  CallsAreNumbered' /\ TriesAreCounted'
    BY <2>2, SucceedsCounts DEF RetryInv
  <2>3. ASSUME NEW d \in Downloads, Fails(d)
        PROVE  CallsAreNumbered' /\ TriesAreCounted'
    <3>1. PICK fault \in Faults : Iterate(d, Reported(d, Kind(fault)), Kind(fault))
      BY <2>3 DEF Fails
    <3> DEFINE state == Reported(d, Kind(fault))
    <3>2. Kind(fault) \in Outcomes /\ Kind(fault) # "none"
      BY KindType DEF Outcomes
    <3>3. /\ state \in State /\ state.call = calls /\ state.number = retry.number
          /\ dl[d].held = calls => state.outcome # "none"
      BY <3>2, ReportedType DEF RetryInv, CallsAreNumbered
    <3>4. dl[d].st \in Active /\ UNCHANGED <<calls, meta>>
      BY <2>3 DEF Fails, Active
    <3> HIDE DEF state
    <3> QED BY <3>1, <3>2, <3>3, <3>4, IterateCounts DEF RetryInv, state
  <2>4. ASSUME NEW d \in Downloads, Wakes(d)
        PROVE  CallsAreNumbered' /\ TriesAreCounted'
    <3>1. /\ retry \in State /\ retry.call = calls /\ dl[d].err \in Outcomes
      BY DEF RetryInv, TypeOK, State, CallsAreNumbered, Download
    <3>2. /\ dl[d].st = "asleep" /\ Iterate(d, retry, dl[d].err)
          /\ UNCHANGED <<calls, meta>>
      BY <2>4 DEF Wakes
    <3>3. dl[d].st \in Active /\ dl[d].st # "request"
      BY <3>2 DEF Active
    <3> QED BY <3>1, <3>2, <3>3, IterateCounts DEF RetryInv
  <2>5. ASSUME NEW m \in Metas, MetaStep(m)
        PROVE  CallsAreNumbered' /\ TriesAreCounted'
    BY <2>5 DEF MetaStep, BeginMeta, EndMeta, RetryInv, CallsAreNumbered,
                TriesAreCounted
  <2>6. CASE UNCHANGED vars
    BY <2>6 DEF vars, RetryInv, CallsAreNumbered, TriesAreCounted
  <2> QED BY <2>1, <2>2, <2>3, <2>4, <2>5, <2>6 DEF Next, StepOf
<1> QED BY <1>1, <1>2, RetryTypeCorrect, PTL DEF Spec

(* No download asks the provider more than MaxAttempts times per state it  *)
(* can have met (the shared AsyncRetrying of yfinance_feed.py:60).         *)
THEOREM RequestsAreBounded == Spec => []AttemptsBounded
<1>1. RetryInv => AttemptsBounded
  <2> SUFFICES ASSUME RetryInv, NEW d \in Downloads, dl[d].st # "waiting"
               PROVE  dl[d].tries <= MaxAttempts * (calls - dl[d].own + 1)
    BY DEF AttemptsBounded
  <2>1. calls \in Nat /\ dl[d].own \in Nat /\ dl[d].own <= calls
    BY DEF RetryInv, TypeOK, CallsAreNumbered
  <2>2. /\ Earlier(dl[d].own, calls + 1) = Earlier(dl[d].own, calls) + MaxAttempts
        /\ Earlier(dl[d].own, calls + 1) = MaxAttempts * (calls - dl[d].own + 1)
    BY <2>1, EarlierNext
  <2>3. dl[d].tries <= Earlier(dl[d].own, calls) + MaxAttempts
    BY TriesNow DEF RetryInv
  <2> QED BY <2>2, <2>3
<1> QED BY <1>1, RetryInductive, PTL

-----------------------------------------------------------------------------
(* Whose failure it is.                                                    *)

LEMMA BeginAlone ==
    ASSUME TypeOK, NEW d \in Downloads, Begin(d)
    PROVE  /\ dl'[d].alone => ActiveDownloads = {}
           /\ ActiveDownloads = {} => dl'[d].alone
           /\ \A e \in Downloads \ {d} :
                /\ dl[e].st \in Active => ~dl'[e].alone
                /\ dl[e].st \notin Active => dl'[e] = dl[e]
<1>1. dl'[d] = [st |-> "request", own |-> calls + 1, held |-> calls + 1, tries |-> 1,
                err |-> "none", alone |-> ActiveDownloads = {}]
  BY Zenon DEF Begin
<1>2. PICK b \in BOOLEAN : b <=> (ActiveDownloads = {})
  OBVIOUS
<1>3. dl'[d] = [st |-> "request", own |-> calls + 1, held |-> calls + 1, tries |-> 1,
                err |-> "none", alone |-> b]
  BY <1>1, <1>2
<1>4. dl'[d].alone = b
  BY <1>3
<1>5. \A e \in Downloads \ {d} :
        dl'[e] = IF e \in ActiveDownloads THEN [dl[e] EXCEPT !.alone = FALSE] ELSE dl[e]
  BY Zenon DEF Begin
<1>6. ASSUME NEW e \in Downloads \ {d}, dl[e].st \in Active
      PROVE  ~dl'[e].alone
  <2>1. dl[e] \in Download /\ e \in ActiveDownloads
    BY <1>6 DEF TypeOK, ActiveDownloads
  <2>2. dl'[e] = [dl[e] EXCEPT !.alone = FALSE]
    BY <1>5, <2>1
  <2> QED BY <2>1, <2>2 DEF Download
<1>7. ASSUME NEW e \in Downloads \ {d}, dl[e].st \notin Active
      PROVE  dl'[e] = dl[e]
  BY <1>5, <1>7 DEF ActiveDownloads
<1> QED BY <1>2, <1>4, <1>6, <1>7

(* A step of an active download d disturbs no lonely one but d itself.     *)
LEMMA OthersAreNotAlone ==
    ASSUME AloneOwnsState, NEW d \in Downloads, dl[d].st \in Active,
           NEW e \in Downloads \ {d}, dl[e].alone
    PROVE  dl[e].st \notin Active
BY DEF AloneOwnsState, ActiveDownloads

AloneInv == AloneOwnsState /\ AloneEarnsFailure

LEMMA BeginLeavesAlone ==
    ASSUME TypeOK, CallsAreNumbered, AloneInv, NEW d \in Downloads, Begin(d)
    PROVE  AloneInv'
<1>1. /\ retry' = [call |-> calls + 1, number |-> 1, outcome |-> "none"]
      /\ calls' = calls + 1
      /\ dl'[d].st = "request" /\ dl'[d].tries = 1
      /\ dl'[d].own = calls + 1 /\ dl'[d].held = calls + 1
  BY BeginEffect
<1>2. ASSUME NEW e \in Downloads \ {d}, dl'[e].alone
      PROVE  dl'[e] = dl[e] /\ dl[e].st \notin Active
  BY <1>2, BeginAlone
<1>3. ASSUME dl'[d].alone PROVE ActiveDownloads' = {d}
  <2>1. \A e \in Downloads \ {d} : dl[e].st \notin Active
    BY <1>3, BeginAlone DEF ActiveDownloads
  <2>2. \A e \in Downloads \ {d} : dl'[e].st \notin Active
    BY <2>1, BeginAlone
  <2> QED BY <1>1, <2>2 DEF ActiveDownloads, Active
<1>4. AloneOwnsState'
  <2> SUFFICES ASSUME NEW e \in Downloads, dl'[e].alone, dl'[e].st \in Active
               PROVE  /\ ActiveDownloads' = {e}
                      /\ dl'[e].own = calls' /\ dl'[e].held = calls'
                      /\ retry'.outcome = "none"
                      /\ dl'[e].st = "request" => retry'.number = dl'[e].tries
                      /\ dl'[e].st = "asleep" => retry'.number = dl'[e].tries + 1
                                                 /\ dl'[e].err = "retriable"
    BY DEF AloneOwnsState
  <2>1. e = d
    BY <1>2
  <2> QED BY <1>1, <1>3, <2>1
<1>5. AloneEarnsFailure'
  BY <1>1, <1>2 DEF AloneInv, AloneEarnsFailure, Earned
<1> QED BY <1>4, <1>5 DEF AloneInv

LEMMA SucceedsLeavesAlone ==
    ASSUME TypeOK, AloneInv, NEW d \in Downloads, Succeeds(d)
    PROVE  AloneInv'
<1>1. dl[d].st \in Active /\ dl'[d].st = "done"
  BY SucceedsEffect DEF Active
<1>2. \A e \in Downloads \ {d} : dl'[e] = dl[e]
  BY SucceedsEffect
<1>3. \A e \in Downloads : dl'[e].alone => dl'[e].st \notin Active
  BY <1>1, <1>2, OthersAreNotAlone DEF AloneInv, Active
<1>4. AloneOwnsState'
  BY <1>3 DEF AloneOwnsState
<1>5. AloneEarnsFailure'
  BY <1>1, <1>2 DEF AloneInv, AloneEarnsFailure, Earned
<1> QED BY <1>4, <1>5 DEF AloneInv

LEMMA IterateLeavesAlone ==
    ASSUME TypeOK, AloneInv, NEW d \in Downloads, dl[d].st \in Active,
           NEW err \in Outcomes, NEW state \in State,
           Iterate(d, state, err), UNCHANGED <<calls, meta>>,
           state.call = calls, state.number = retry.number,
           dl[d].alone /\ dl[d].st = "request" => state.outcome = err
                                                  /\ err \in {"retriable", "permanent"},
           dl[d].alone /\ dl[d].st = "asleep" => state.outcome = "none"
    PROVE  AloneInv'
<1>1. \A e \in Downloads \ {d} : dl'[e] = dl[e]
  BY IterateEffect
<1>2. ASSUME NEW e \in Downloads \ {d}, dl'[e].alone
      PROVE  dl'[e].st \notin Active
  BY <1>1, <1>2, OthersAreNotAlone DEF AloneInv
<1>3. /\ dl'[d].alone = dl[d].alone /\ dl'[d].own = dl[d].own
      /\ dl'[d].err = err
      /\ \/ /\ state.outcome = "none" /\ retry' = state
            /\ dl'[d].st = "request" /\ dl'[d].held = state.call
            /\ dl'[d].tries = dl[d].tries + 1
         \/ /\ state.outcome = "retriable"
            /\ retry'.number = state.number + 1 /\ retry'.outcome = "none"
            /\ dl'[d].st = "asleep"
            /\ dl'[d].held = dl[d].held /\ dl'[d].tries = dl[d].tries
         \/ /\ state.outcome # "none"
            /\ state.outcome = "retriable" => state.number = MaxAttempts
            /\ dl'[d].st = "failed" /\ dl'[d].tries = dl[d].tries
  BY IterateEffect
<1>4. ASSUME dl[d].alone
      PROVE  /\ ActiveDownloads = {d} /\ dl[d].own = calls /\ dl[d].held = calls
             /\ dl[d].st = "request" => retry.number = dl[d].tries
             /\ dl[d].st = "asleep" => retry.number = dl[d].tries + 1
  BY <1>4 DEF AloneInv, AloneOwnsState
<1>5. dl[d].st \in {"request", "asleep"}
  BY DEF Active
<1>6. ASSUME dl'[d].alone, dl'[d].st \in Active PROVE ActiveDownloads' = {d}
  BY <1>1, <1>3, <1>4, <1>6 DEF ActiveDownloads
<1>7. AloneOwnsState'
  <2> SUFFICES ASSUME NEW e \in Downloads, dl'[e].alone, dl'[e].st \in Active
               PROVE  /\ ActiveDownloads' = {e}
                      /\ dl'[e].own = calls' /\ dl'[e].held = calls'
                      /\ retry'.outcome = "none"
                      /\ dl'[e].st = "request" => retry'.number = dl'[e].tries
                      /\ dl'[e].st = "asleep" => retry'.number = dl'[e].tries + 1
                                                 /\ dl'[e].err = "retriable"
    BY DEF AloneOwnsState
  <2>1. e = d
    BY <1>2
  <2>2. dl[d].alone
    BY <1>3, <2>1
  <2>3. dl'[d].st # "failed"
    BY <2>1 DEF Active
  <2> QED BY <1>3, <1>4, <1>5, <1>6, <2>1, <2>2, <2>3
<1>8. AloneEarnsFailure'
  <2> SUFFICES ASSUME NEW e \in Downloads, dl'[e].alone, dl'[e].st = "failed"
               PROVE  \/ dl'[e].err = "permanent"
                      \/ dl'[e].err = "retriable" /\ dl'[e].tries = MaxAttempts
    BY DEF AloneEarnsFailure, Earned
  <2>1. CASE e = d
    BY <1>3, <1>4, <1>5, <2>1
  <2>2. CASE e # d
    BY <1>1, <2>2 DEF AloneInv, AloneEarnsFailure, Earned
  <2> QED BY <2>1, <2>2
<1> QED BY <1>7, <1>8 DEF AloneInv

LEMMA AloneInductive == Spec => []AloneInv
<1>1. Init => AloneInv
  BY DEF Init, AloneInv, AloneOwnsState, AloneEarnsFailure
<1>2. AloneInv /\ RetryInv /\ [Next]_vars => AloneInv'
  <2> SUFFICES ASSUME AloneInv, TypeOK, CallsAreNumbered, [Next]_vars
               PROVE  AloneInv'
    BY DEF RetryInv
  <2>1. ASSUME NEW d \in Downloads, Begin(d) PROVE AloneInv'
    BY <2>1, BeginLeavesAlone
  <2>2. ASSUME NEW d \in Downloads, Succeeds(d) PROVE AloneInv'
    BY <2>2, SucceedsLeavesAlone
  <2>3. ASSUME NEW d \in Downloads, Fails(d) PROVE AloneInv'
    <3>1. PICK fault \in Faults : Iterate(d, Reported(d, Kind(fault)), Kind(fault))
      BY <2>3 DEF Fails
    <3> DEFINE err   == Kind(fault)
               state == Reported(d, err)
    <3>2. err \in Outcomes /\ err \in {"retriable", "permanent"}
      BY KindType DEF Outcomes
    <3>3. dl[d].st = "request" /\ dl[d].st \in Active /\ UNCHANGED <<calls, meta>>
      BY <2>3 DEF Fails, Active
    <3>4. retry.call = calls /\ (dl[d].alone => dl[d].held = calls)
      BY <3>3 DEF CallsAreNumbered, AloneInv, AloneOwnsState
    <3>5. /\ state \in State /\ state.call = calls /\ state.number = retry.number
          /\ dl[d].held = calls => state.outcome = err
      BY <3>2, <3>4, ReportedType
    <3>6. Iterate(d, state, err)
      BY <3>1
    <3> HIDE DEF state, err
    <3> QED BY <3>2, <3>3, <3>4, <3>5, <3>6, IterateLeavesAlone
  <2>4. ASSUME NEW d \in Downloads, Wakes(d) PROVE AloneInv'
    <3>1. /\ dl[d].st = "asleep" /\ Iterate(d, retry, dl[d].err)
          /\ UNCHANGED <<calls, meta>>
      BY <2>4 DEF Wakes
    <3>2. /\ retry \in State /\ retry.call = calls /\ dl[d].err \in Outcomes
      BY DEF TypeOK, State, CallsAreNumbered, Download
    <3>3. dl[d].st \in Active /\ dl[d].st # "request"
          /\ (dl[d].alone => retry.outcome = "none")
      BY <3>1 DEF Active, AloneInv, AloneOwnsState
    <3> QED BY <3>1, <3>2, <3>3, IterateLeavesAlone
  <2>5. ASSUME NEW m \in Metas, MetaStep(m) PROVE AloneInv'
    BY <2>5 DEF MetaStep, BeginMeta, EndMeta, AloneInv, AloneOwnsState,
                ActiveDownloads, AloneEarnsFailure, Earned
  <2>6. CASE UNCHANGED vars
    BY <2>6 DEF vars, AloneInv, AloneOwnsState, ActiveDownloads,
                AloneEarnsFailure, Earned
  <2> QED BY <2>1, <2>2, <2>3, <2>4, <2>5, <2>6 DEF Next, StepOf
<1> QED BY <1>1, <1>2, RetryInductive, PTL DEF Spec

(* A download that no other one overlaps gives up after MaxAttempts errors *)
(* of its own that the code takes for retriable, or one that it takes for  *)
(* permanent, and never before (_download_with_retry and                   *)
(* _yf_download_sync, yfinance_feed.py:84-88, 127-132).                    *)
THEOREM LoneFailureIsEarned == Spec => []AloneEarnsFailure
<1>1. AloneInv => AloneEarnsFailure
  BY DEF AloneInv
<1> QED BY <1>1, AloneInductive, PTL

Sequential == \A d \in Downloads : dl[d].st # "waiting" => dl[d].alone

(* With one slot nothing overlaps, and then every failure is the           *)
(* download's own: what goes wrong takes a concurrency of at least two.    *)
THEOREM SequentialFailuresAreEarned ==
    ASSUME Concurrency = 1
    PROVE  Spec => []EveryFailureIsEarned
<1>1. Init => Sequential
  BY DEF Init, Sequential
<1>2. Sequential /\ TypeOK /\ [Next]_vars => Sequential'
  <2> SUFFICES ASSUME Sequential, TypeOK, [Next]_vars PROVE Sequential'
    OBVIOUS
  <2>1. ASSUME NEW d \in Downloads, Begin(d) PROVE Sequential'
    <3>1. ActiveDownloads = {}
      <4>1. IsFiniteSet(ActiveDownloads)
        BY CallsAssumption, FS_Subset DEF ActiveDownloads
      <4>2. IsFiniteSet({m \in Metas : meta[m] = "request"})
        BY CallsAssumption, FS_Subset
      <4>3. /\ Cardinality(ActiveDownloads) \in Nat
            /\ Cardinality({m \in Metas : meta[m] = "request"}) \in Nat
        BY <4>1, <4>2, FS_CardinalityType
      <4>4. Cardinality(ActiveDownloads) = 0
        BY <2>1, <4>3 DEF Begin, InUse
      <4> QED BY <4>1, <4>4, FS_EmptySet
    <3>2. \A e \in Downloads \ {d} : dl'[e] = dl[e]
      BY <2>1, <3>1, BeginAlone DEF ActiveDownloads
    <3>3. dl'[d].alone
      BY <2>1, <3>1, BeginAlone
    <3> QED BY <3>2, <3>3 DEF Sequential
  <2>2. ASSUME NEW d \in Downloads, Succeeds(d) PROVE Sequential'
    BY <2>2, SucceedsEffect DEF Sequential
  <2>3. ASSUME NEW d \in Downloads, Fails(d) \/ Wakes(d) PROVE Sequential'
    <3>1. \E err \in Outcomes, state \in State : Iterate(d, state, err)
      <4>1. CASE Fails(d)
        BY <4>1, KindType, ReportedType DEF Fails, Outcomes
      <4>2. CASE Wakes(d)
        <5>1. retry \in State /\ dl[d].err \in Outcomes
          BY DEF TypeOK, State, Download
        <5> QED BY <4>2, <5>1 DEF Wakes
      <4> QED BY <2>3, <4>1, <4>2
    <3>2. dl[d].st # "waiting"
      BY <2>3 DEF Fails, Wakes
    <3> QED BY <3>1, <3>2, IterateEffect DEF Sequential
  <2>4. ASSUME NEW m \in Metas, MetaStep(m) PROVE Sequential'
    BY <2>4 DEF MetaStep, BeginMeta, EndMeta, Sequential
  <2>5. CASE UNCHANGED vars
    BY <2>5 DEF vars, Sequential
  <2> QED BY <2>1, <2>2, <2>3, <2>4, <2>5 DEF Next, StepOf
<1>3. Sequential /\ AloneInv => EveryFailureIsEarned
  BY DEF Sequential, AloneInv, AloneEarnsFailure, EveryFailureIsEarned
<1> QED BY <1>1, <1>2, <1>3, RetryTypeCorrect, AloneInductive, PTL DEF Spec

=============================================================================
