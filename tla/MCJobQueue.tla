----------------------------- MODULE MCJobQueue -----------------------------
(***************************************************************************)
(* A small instance of JobQueue for TLC.                                   *)
(***************************************************************************)
EXTENDS JobQueue, TLC

CONSTANTS j1, j2, j3

(* Two LOW jobs, told apart by their submit_time, and a CRITICAL one.      *)
MCJobs == {j1, j2, j3}
MCPriorityOf == j1 :> 1 @@ j2 :> 1 @@ j3 :> 4
MCSubmitTime == j1 :> 1 @@ j2 :> 2 @@ j3 :> 3
MCNone == [j \in Jobs |-> 0]
MCQuantum == [l \in Levels |-> 1]

PusherSymmetry == Permutations(Pusher)

=============================================================================
