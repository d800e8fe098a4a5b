---------------------------- MODULE MCNewsInputs ----------------------------
(* A small instance of NewsInputs: one article that two tickers share, one that names a  *)
(* second ticker, one that only a ticker's query returns; feeds with two hints for one.  *)
EXTENDS NewsInputs, TLC

MCReturnedBy == [a \in Articles |-> CASE a = "both" -> {"AAPL", "MSFT"} [] OTHER -> {"AAPL"}]
MCMentions == [a \in Articles |-> IF a = "names" THEN {"MSFT"} ELSE {}]
MCDayOf == [a \in Articles |-> CASE a = "old" -> 1 [] a = "both" -> 2 [] a = "names" -> 3]
MCFeeds == {Entry("both", {"AAPL"}), Entry("both", {"MSFT"})}
MCBatches == {<<"AAPL">>, <<"feeds", "MSFT">>}
MCSymmetry == Permutations(Invocations)
=============================================================================
