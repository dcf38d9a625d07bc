------------------------ MODULE MCInstrumentUniverse ------------------------
(* Small instances of InstrumentUniverse for TLC: on the second day one    *)
(* instrument of NSE is new and another one has gone; BSE has a holiday.   *)
EXTENDS UniverseRefinement

TwoExchanges == {"NSE", "BSE"}
TwoOrder     == <<"NSE", "BSE">>
CliOrder     == {<<"BSE", "NSE">>}
TwoListings  == [i \in Instruments |-> IF i = 4 THEN "BSE" ELSE "NSE"]
TwoSessions  == [ex \in Exchanges |-> IF ex = "NSE" THEN Days ELSE Days \ {2}]
TwoArchives  ==
    [ex \in Exchanges |-> [d \in Days |->
        IF ex = "BSE" THEN {4} ELSE IF d = 1 THEN {1, 2} ELSE {2, 3}]]
=============================================================================
