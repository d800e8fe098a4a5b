----------------------------- MODULE TickerBook -----------------------------
(***************************************************************************)
(* What the trading tables promise, without their rows: a ticker holds at  *)
(* most one thesis; it enters one when it holds none, switches straight    *)
(* from one to the next, or leaves; and a thesis it has left never comes   *)
(* back.  RunStore implements this specification.                          *)
(***************************************************************************)
CONSTANTS Tickers, ThesisIds

VARIABLES
  holding,   \* per ticker, the theses it holds: none or one
  past       \* the theses some ticker has held and left

bookVars == <<holding, past>>

Init ==
  /\ holding = [t \in Tickers |-> {}]
  /\ past = {}

\* Only a thesis that was never held before can be taken on.
IsNew(id) == id \notin past /\ \A t \in Tickers : id \notin holding[t]

Enter(t, id) ==
  /\ holding[t] = {}
  /\ IsNew(id)
  /\ holding' = [holding EXCEPT ![t] = {id}]
  /\ UNCHANGED past

Switch(t, id) ==
  /\ holding[t] # {}
  /\ IsNew(id)
  /\ holding' = [holding EXCEPT ![t] = {id}]
  /\ past' = past \cup holding[t]

Leave(t) ==
  /\ holding[t] # {}
  /\ holding' = [holding EXCEPT ![t] = {}]
  /\ past' = past \cup holding[t]

Next == \E t \in Tickers :
  \/ Leave(t)
  \/ \E id \in ThesisIds : Enter(t, id) \/ Switch(t, id)

Spec == Init /\ [][Next]_bookVars
=============================================================================
