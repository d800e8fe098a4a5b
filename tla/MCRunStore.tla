----------------------------- MODULE MCRunStore -----------------------------
(* A small store: two thesis ids.*)
EXTENDS RunStore, TLC

MCThesisIds == {<<"AAPL", 1>>, <<"AAPL", 2>>}
MCTheses == {[direction |-> "long", confident |-> FALSE, size |-> 1, stop |-> 1],
             [direction |-> "short", confident |-> TRUE, size |-> 2, stop |-> 1]}
MCGroupOf == [t \in Tickers |-> "equity"]
MCGroupCap == [g \in {"equity"} |-> 2]
=============================================================================
