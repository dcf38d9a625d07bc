---------------------------- MODULE MCSyncEngine ----------------------------
(* Small instances of SyncEngine for TLC.                                  *)
EXTENDS SyncRefinement

(* A holiday of one exchange is a session of the other.                    *)
OneExchange == {"NSE"}
OneOrder    == <<"NSE">>
OneListing  == [i \in Instruments |-> "NSE"]
OneSessions == [ex \in Exchanges |-> Days]

TwoExchanges == {"NSE", "BSE"}
TwoOrder     == <<"NSE", "BSE">>
TwoListings  == [i \in Instruments |-> IF i = 3 THEN "BSE" ELSE "NSE"]
TwoSessions  == [ex \in Exchanges |-> IF ex = "NSE" THEN Days ELSE Days \ {2}]

NoWindow     == {}
WholePeriod  == {<<1, MaxDay>>}
AnyWindow    == {<<0, MaxDay + 1>>, <<2, 1>>}
=============================================================================
