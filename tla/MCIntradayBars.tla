--------------------------- MODULE MCIntradayBars ---------------------------
(* A small instance of IntradayBars: days of three ticks, two of them seeded and two lived *)
(* through.                                                                                *)
EXTENDS IntradayBars, TLC

MCWatchlist == <<"AAPL">>
=============================================================================
