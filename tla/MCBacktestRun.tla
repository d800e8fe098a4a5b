---------------------------- MODULE MCBacktestRun ---------------------------
(* Small instances of BacktestRun; the .cfg files give the constants. *)
EXTENDS BacktestRun, TLC

Symmetric == Permutations(Operators)
=============================================================================
