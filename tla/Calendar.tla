------------------------------ MODULE Calendar ------------------------------
(***************************************************************************)
(* The trading calendar of chronosync/calendars.py.                        *)
(*                                                                         *)
(* A date is an integer: day 1 is the first date of the period considered. *)
(* Sessions[ex] is the set of days on which exchange ex trades, that is,   *)
(* what pandas_market_calendars answers; weekends and holidays are the     *)
(* days it leaves out, and they may differ between exchanges.              *)
(***************************************************************************)
EXTENDS Integers, FiniteSetsExt

CONSTANTS
    Exchanges,      \* the configured exchanges
    Sessions        \* Sessions[ex]: the trading days of exchange ex

ASSUME SessionsAssumption == Sessions \in [Exchanges -> SUBSET (Nat \ {0})]

TradingDays(ex, frm, to) == {d \in Sessions[ex] : frm <= d /\ d <= to}

IsTradingDay(ex, d) == d \in TradingDays(ex, d, d)

(***************************************************************************)
(* The hunt for the previous session gives up after 14 candidates and then *)
(* returns the 15th day back, trading day or not.                          *)
(***************************************************************************)
HuntDays == 14

PrevTradingDay(ex, d) ==
    LET hits == TradingDays(ex, d - HuntDays, d - 1)
    IN  IF hits = {} THEN d - HuntDays - 1 ELSE Max(hits)
=============================================================================
