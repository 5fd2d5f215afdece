----------------------------- MODULE MCEventLog -----------------------------
(***************************************************************************)
(* A small instance of EventLog for TLC.                                   *)
(***************************************************************************)
EXTENDS EventLog, TLC

CONSTANTS gui, w1, w2

WorkerSymmetry == Permutations(Worker)

=============================================================================
