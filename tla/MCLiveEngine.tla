---------------------------- MODULE MCLiveEngine ----------------------------
(* Small instances of LiveEngine; the .cfg files choose among the definitions. *)
EXTENDS LiveEngine

WeakLong == [direction |-> "long", confident |-> FALSE, size |-> 1, stop |-> 1]
StrongShort == [direction |-> "short", confident |-> TRUE, size |-> 2, stop |-> 1]
MCTheses == {WeakLong, StrongShort}
MCGroupOf == [t \in Tickers |-> t]
MCGroupCap == [g \in Tickers |-> 2]

\* Two news items of one ticker; or of two tickers at one instant and one later.
OneTicker == {<<"AAPL", 1>>, <<"AAPL", 2>>}
TwoTickers == {<<"AAPL", 1>>, <<"MSFT", 1>>, <<"AAPL", 2>>}
ThesisOfItem == [i \in Items |-> i]

\* No level is touched; the first position's is, at 2.
QuietOrTouched == {[id \in ThesisIds |-> 0], [id \in ThesisIds |-> IF id = <<"AAPL", 1>> THEN 2 ELSE 0]}
FirstTouched == {[id \in ThesisIds |-> IF id = <<"AAPL", 1>> THEN 2 ELSE 0]}
Quiet == {[id \in ThesisIds |-> 0]}
=============================================================================
