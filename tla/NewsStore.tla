------------------------------ MODULE NewsStore ------------------------------
(***************************************************************************)
(* The news rows of the inputs database (storage/inputs_view.js): articles *)
(* and the tickers each is filed under.  Live ingestion and the operator's *)
(* backfill write the same rows; both only ever add.                       *)
(*                                                                         *)
(* An entry is an article as one request returned it, with the tickers     *)
(* that resolveTickers gave it: [id, tickers].                             *)
(***************************************************************************)
EXTENDS Integers, FiniteSets, FiniteSetsExt

CONSTANTS
  Tickers,     \* the watchlist
  Articles,    \* ids: url and publication time
  ReturnedBy,  \* [Articles -> SUBSET Tickers]: the tickers whose queries return it
  Mentions,    \* [Articles -> SUBSET Tickers]: the tickers its domain or its title names
  ChunkSize,   \* articles per D1 batch, messages per sendBatch
  MaxFaults    \* bound: what fails or is changed by the operator, in all

ASSUME NewsAssumption ==
  /\ ReturnedBy \in [Articles -> SUBSET Tickers] /\ Mentions \in [Articles -> SUBSET Tickers]
  /\ ChunkSize \in Nat \ {0} /\ MaxFaults \in Nat

VARIABLES
  articles,    \* news_items (and their revision 1)
  filed,       \* news_item_tickers, as <<article, ticker>>
  faults       \* how much went wrong so far

storeVars == <<articles, filed>>
Fault == faults < MaxFaults /\ faults' = faults + 1

\* resolveTickers: the ticker that was asked for, and the ones the article names.
Entry(a, hint) == [id |-> a, tickers |-> hint \cup Mentions[a]]
Filings(entries) == UNION {{<<e.id, t>> : t \in e.tickers} : e \in entries}

\* insertNewsItems: one transaction; what conflicts is left as it is.
Insert(entries) ==
  /\ articles' = articles \cup {e.id : e \in entries}
  /\ filed' = filed \cup Filings(entries)
InsertedIds(entries) == {e.id : e \in entries} \ articles
NewFilings(entries) == Filings(entries) \ filed

\* The next chunk of a list of entries or messages (their order does not matter here).
Chunks(list) == {c \in SUBSET list : c # {} /\ Cardinality(c) = Min({ChunkSize, Cardinality(list)})}
=============================================================================
