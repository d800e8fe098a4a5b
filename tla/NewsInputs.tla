----------------------------- MODULE NewsInputs -----------------------------
(***************************************************************************)
(* Both writers of the news rows at work: live ticks and an operator's     *)
(* backfill.  An article that the backfill stores first is not fresh to    *)
(* the live tick any more; nobody sends its ANALYZE message.               *)
(***************************************************************************)
EXTENDS NewsIngest, NewsBackfill

vars == <<storeVars, faults, liveVars, backfillVars>>

Init == articles = {} /\ filed = {} /\ faults = 0 /\ LiveInit /\ BackfillInit

Live == LiveNext /\ UNCHANGED backfillVars

\* The backfill files without a message.
Backfill ==
  /\ BackfillNext
  /\ history' = [history EXCEPT !.filings = @ \cup
       {[pair |-> p, by |-> "backfill", batch |-> 0, analysis |-> TRUE] : p \in filed' \ filed}]
  /\ UNCHANGED <<analyze, switches, inv, batches>>

Next == Live \/ Backfill
Spec == Init /\ [][Next]_vars
=============================================================================
