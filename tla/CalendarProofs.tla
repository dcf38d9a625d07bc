--------------------------- MODULE CalendarProofs ---------------------------
(* What the hunt for the previous session returns, for every calendar.     *)
EXTENDS Calendar, MaxLemmas, TLAPS

(* The previous session is a date before the day asked about.              *)
LEMMA PrevTradingDayType ==
    ASSUME NEW ex \in Exchanges, NEW d \in Int
    PROVE  PrevTradingDay(ex, d) \in Int /\ PrevTradingDay(ex, d) < d
<1> DEFINE hits == TradingDays(ex, d - HuntDays, d - 1)
<1>1. hits \subseteq Int /\ \A x \in hits : x <= d - 1
  BY SessionsAssumption DEF TradingDays, HuntDays
<1>2. CASE hits = {}
  BY <1>2 DEF PrevTradingDay, HuntDays
<1>3. CASE hits # {}
  <2>1. Max(hits) \in hits
    BY <1>1, <1>3, MaxOfBounded, d - 1 \in Int
  <2> QED
    BY <1>1, <1>3, <2>1 DEF PrevTradingDay
<1> QED
  BY <1>2, <1>3
=============================================================================
