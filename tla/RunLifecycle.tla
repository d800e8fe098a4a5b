---------------------------- MODULE RunLifecycle ----------------------------
(***************************************************************************)
(* What the registry promises of a backtest run: it runs, may be paused    *)
(* and resumed, and ends once, as complete, failed or cancelled.  A failed *)
(* or cancelled run may be purged; nothing brings it back.                 *)
(***************************************************************************)
VARIABLE status

Live == {"running", "paused"}
Terminal == {"complete", "failed", "cancelled"}
Purgeable == {"failed", "cancelled"}

Init == status = "absent"

Begin == status = "absent" /\ status' = "running"
Pause == status = "running" /\ status' = "paused"
Resume == status = "paused" /\ status' = "running"
End == status \in Live /\ status' \in Terminal
Purge == status \in Purgeable /\ status' = "purged"

Next == Begin \/ Pause \/ Resume \/ End \/ Purge

Spec == Init /\ [][Next]_status
=============================================================================
