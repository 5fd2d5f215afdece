---------------------------- MODULE MCScheduler ----------------------------
(***************************************************************************)
(* Small instances of Scheduler for TLC.                                   *)
(***************************************************************************)
EXTENDS SchedulerQueue, TLC

CONSTANTS j1, j2, j3

(* A long LOW job, a short one of the same priority, and a CRITICAL one;   *)
(* j1 and j3 together exceed the CPU budget, any other two fit.  With      *)
(* MCBurstLong, j1 runs through three levels and uses up the quantum of    *)
(* the last.                                                               *)
MCJobs == {j1, j2, j3}
MCJobs2 == {j1, j3}
MCPriorityOf == [j \in Jobs |-> IF j = j3 THEN 4 ELSE 1]
MCSubmitTime == [j \in Jobs |-> IF j = j1 THEN 1 ELSE IF j = j2 THEN 2 ELSE 3]
MCCpuRequired == [j \in Jobs |-> IF j = j2 THEN 1 ELSE 2]
MCMemoryRequired == [j \in Jobs |-> 1]
MCBurstTime == [j \in Jobs |-> IF j = j1 THEN 2 ELSE 1]

MCBurstLong == [j \in Jobs |-> IF j = j1 THEN 4 ELSE 1]

WorkerSymmetry == Permutations(Worker)

(* Where symmetry must not be used, for liveness, a new worker thread, one *)
(* of several alike, takes the lowest identity that is free.               *)
LowestWorker ==
  \A v, w \in Worker :
     wpc[v] = "off" /\ wpc[w] = "off" /\ wpc'[w] # "off" => w <= v

MCQuantum1 == 0 :> 1
MCQuantum2 == 0 :> 1 @@ 1 :> 2
MCQuantum3 == 0 :> 1 @@ 1 :> 1 @@ 2 :> 1

=============================================================================
