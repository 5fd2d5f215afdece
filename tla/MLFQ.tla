-------------------------------- MODULE MLFQ --------------------------------
(***************************************************************************)
(* MLFQJobQueue of job_queue.h as its callers see it.  A level is the set  *)
(* of the jobs in its list: push keeps the list in the order Precedes and  *)
(* that order is total, so the set determines the list.  Module JobQueue   *)
(* has the lists themselves and shows that they implement these sets.      *)
(*                                                                         *)
(* Each operator below is one critical section of a SingleLevelQueue       *)
(* mutex, together with the Job fields the caller writes while no other    *)
(* thread can reach the job.                                               *)
(***************************************************************************)
EXTENDS Job

CONSTANT AGED_BUF   \* the most jobs one drainAged call takes out of a level

ASSUME AgedBufAssumption == AGED_BUF \in Nat \ {0}

VARIABLES
  level,              \* level[l]: the jobs in levels_[l]
  mlfq_level,         \* Job::mlfq_level
  ticks_this_slice,   \* Job::ticks_this_slice
  aging_ticks         \* Job::aging_ticks, counted up to AGING_THRESHOLD

fieldVars == <<mlfq_level, ticks_this_slice, aging_ticks>>
queueVars == <<level, mlfq_level, ticks_this_slice, aging_ticks, status>>

Queued == UNION {level[l] : l \in Levels}

QueueTypeOK ==
  /\ level \in [Levels -> SUBSET Jobs]
  /\ mlfq_level \in [Jobs -> Levels]
  /\ ticks_this_slice \in [Jobs -> Nat]
  /\ aging_ticks \in [Jobs -> 0 .. AGING_THRESHOLD]
  /\ status \in [Jobs -> JobStatus]

QueueInit ==
  /\ level = [l \in Levels |-> {}]
  /\ mlfq_level = [j \in Jobs |-> 0]
  /\ ticks_this_slice = [j \in Jobs |-> 0]
  /\ aging_ticks = [j \in Jobs |-> 0]
  /\ LifecycleInit

-----------------------------------------------------------------------------
push(l, j) == level' = [level EXCEPT ![l] = @ \cup {j}]

(* Mutant: the new slice goes on with the ticks of the old one.            *)
enterLevelWithSlice(l, j) ==
  /\ mlfq_level' = [mlfq_level EXCEPT ![j] = l]
  /\ aging_ticks' = [aging_ticks EXCEPT ![j] = 0]
  /\ push(l, j)
  /\ UNCHANGED ticks_this_slice

(* Put j into level l with a fresh slice and a fresh aging count.          *)
enterLevel(l, j) ==
  /\ mlfq_level' = [mlfq_level EXCEPT ![j] = l]
  /\ ticks_this_slice' = [ticks_this_slice EXCEPT ![j] = 0]
  /\ aging_ticks' = [aging_ticks EXCEPT ![j] = 0]
  /\ push(l, j)

pushNew(j) ==
  /\ enterLevel(0, j)
  /\ status' = [status EXCEPT ![j] = "READY"]

(* Mutant: no clamp at the last level.                                     *)
demotedPastEnd(j, demote) ==
  IF demote THEN mlfq_level[j] + 1 ELSE mlfq_level[j]

(* The level a job is put back into: one lower when its quantum expired.   *)
demotedLevel(j, demote) ==
  IF demote /\ mlfq_level[j] < LastLevel
  THEN mlfq_level[j] + 1
  ELSE mlfq_level[j]

(* Mutant: only a job to be demoted is requeued.                           *)
requeueDemoted(j, demote) ==
  IF demote
  THEN /\ enterLevel(demotedLevel(j, demote), j)
       /\ status' = [status EXCEPT ![j] = "READY"]
  ELSE UNCHANGED queueVars

requeuePreempted(j, demote) ==
  /\ enterLevel(demotedLevel(j, demote), j)
  /\ status' = [status EXCEPT ![j] = "READY"]

(* Mutant: the head is handed out and stays in the list.                   *)
peekFirst(l, j) == IsFirst(j, level[l]) /\ UNCHANGED level

(* SingleLevelQueue::tryPop() on a level that is not empty takes its head. *)
popFirst(l, j) ==
  /\ IsFirst(j, level[l])
  /\ level' = [level EXCEPT ![l] = @ \ {j}]

(* Mutant: a job of equal priority is a better candidate.                  *)
isAsGoodCandidate(l, lvl, prio) ==
  IF l < lvl
  THEN level[l] # {}
  ELSE \E k \in level[l] : PriorityOf[k] >= prio

(* What hasBetterCandidate(lvl, prio) asks level l, for l from 0 to lvl.   *)
isBetterCandidate(l, lvl, prio) ==
  IF l < lvl
  THEN level[l] # {}
  ELSE \E k \in level[l] : PriorityOf[k] > prio

tickLevel(l) ==
  aging_ticks' = [j \in Jobs |->
                    IF j \in level[l] /\ aging_ticks[j] < AGING_THRESHOLD
                    THEN aging_ticks[j] + 1
                    ELSE aging_ticks[j]]

(* What drainAged takes out of level l: its aged jobs, the first AGED_BUF  *)
(* of them in list order.                                                  *)
agedIn(l) == {j \in level[l] : aging_ticks[j] >= AGING_THRESHOLD}

isDrained(l, A) ==
  /\ A \subseteq agedIn(l)
  /\ \/ A = agedIn(l) /\ Cardinality(A) <= AGED_BUF
     \/ Cardinality(A) = AGED_BUF
  /\ \A i \in A, j \in agedIn(l) \ A : Precedes(i, j)

(* Mutant: the aged jobs are copied out, and stay in the list.             *)
copyAged(l, A) ==
  /\ isDrained(l, A)
  /\ UNCHANGED level

drainAged(l, A) ==
  /\ isDrained(l, A)
  /\ level' = [level EXCEPT ![l] = @ \ A]

(* Mutant: straight to the top.                                            *)
promoteToTop(l, j) == enterLevel(0, j)

(* runAging puts a drained job into the level above the one it came from.  *)
promote(l, j) == enterLevel(l - 1, j)

=============================================================================
