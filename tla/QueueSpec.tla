------------------------------ MODULE QueueSpec -----------------------------
(***************************************************************************)
(* What MLFQJobQueue promises the threads that share it: every call acts   *)
(* on a level at once, a pop returns the first job of the first level that *)
(* is not empty when its turn comes, an aged job moves one level up, and   *)
(* no call loses or copies a job.                                          *)
(*                                                                         *)
(* The callers are those of Scheduler, free in their order: threads that   *)
(* push new jobs or put back the ones they were given, the dispatcher that *)
(* ticks, compares and pops, and the aging thread.                         *)
(***************************************************************************)
EXTENDS MLFQ

VARIABLES
  out,              \* the jobs popped and not put back
  dpc, dlvl,        \* dispatcher: the call it is in, and its lvl
  asked, better,    \* arguments and result of hasBetterCandidate
  apc, alvl, aged   \* aging thread: where it is, its lvl and buffer

dispatchVars == <<dpc, dlvl, asked, better>>
drainVars == <<apc, alvl, aged>>
specVars == <<queueVars, out, dispatchVars, drainVars>>

NotAsked == [lvl |-> 0, prio |-> 0]

SpecInit ==
  /\ QueueInit
  /\ out = {}
  /\ dpc = "idle" /\ dlvl = 0
  /\ asked = NotAsked /\ better = FALSE
  /\ apc = "sleep" /\ alvl = 1 /\ aged = {}

-----------------------------------------------------------------------------
PushNew(j) ==
  /\ status[j] = "WAITING"
  /\ pushNew(j)
  /\ UNCHANGED <<out, dispatchVars, drainVars>>

(* The job uses a tick of its slice, ...                                   *)
UseTick(j) ==
  /\ j \in out
  /\ ~ quantumExpired(mlfq_level[j], ticks_this_slice[j])
  /\ ticks_this_slice' = [ticks_this_slice EXCEPT ![j] = @ + 1]
  /\ UNCHANGED <<level, mlfq_level, aging_ticks, status, out, dispatchVars,
                 drainVars>>

(* ... and is put back, one level lower if that was its last one.          *)
Requeue(j) ==
  /\ j \in out
  /\ requeuePreempted(j, quantumExpired(mlfq_level[j], ticks_this_slice[j]))
  /\ out' = out \ {j}
  /\ UNCHANGED <<dispatchVars, drainVars>>

Tick(l) ==
  /\ dpc = "idle"
  /\ tickLevel(l)
  /\ UNCHANGED <<level, mlfq_level, ticks_this_slice, status, out,
                 dispatchVars, drainVars>>

-----------------------------------------------------------------------------
(* hasBetterCandidate for a job that runs, level after level.              *)
Ask(j) ==
  /\ dpc = "idle"
  /\ j \in out
  /\ dpc' = "probe" /\ dlvl' = 0
  /\ asked' = [lvl |-> mlfq_level[j], prio |-> PriorityOf[j]]
  /\ UNCHANGED <<queueVars, out, better, drainVars>>

Probe ==
  /\ dpc = "probe"
  /\ LET found == isBetterCandidate(dlvl, asked.lvl, asked.prio)
     IN IF found \/ dlvl = asked.lvl
        THEN dpc' = "idle" /\ dlvl' = 0 /\ asked' = NotAsked /\ better' = found
        ELSE dlvl' = dlvl + 1 /\ UNCHANGED <<dpc, asked, better>>
  /\ UNCHANGED <<queueVars, out, drainVars>>

(* The dispatcher acts on the answer, and forgets it.                      *)
UseAnswer ==
  /\ dpc = "idle"
  /\ better
  /\ better' = FALSE
  /\ UNCHANGED <<queueVars, out, dpc, dlvl, asked, drainVars>>

(* tryPop, level after level.  It begins with its look at level 0.         *)
popping == dpc = "idle" \/ dpc = "pop"

PopEmpty ==
  /\ popping
  /\ level[dlvl] = {}
  /\ IF dlvl = LastLevel
     THEN dpc' = "idle" /\ dlvl' = 0
     ELSE dpc' = "pop" /\ dlvl' = dlvl + 1
  /\ UNCHANGED <<queueVars, out, asked, better, drainVars>>

Pop ==
  /\ popping
  /\ \E j \in level[dlvl] : popFirst(dlvl, j) /\ out' = out \cup {j}
  /\ dpc' = "idle" /\ dlvl' = 0
  /\ UNCHANGED <<fieldVars, status, asked, better, drainVars>>

-----------------------------------------------------------------------------
(* runAging.                                                               *)
StartAging ==
  /\ apc = "sleep"
  /\ apc' = "drain" /\ alvl' = 1
  /\ UNCHANGED <<queueVars, out, dispatchVars, aged>>

nextAgingLevel ==
  IF alvl = LastLevel
  THEN apc' = "sleep" /\ alvl' = 1
  ELSE apc' = "drain" /\ alvl' = alvl + 1

Drain ==
  /\ apc = "drain"
  /\ \E A \in SUBSET agedIn(alvl) : drainAged(alvl, A) /\ aged' = A
  /\ IF aged' = {} THEN nextAgingLevel ELSE apc' = "push" /\ UNCHANGED alvl
  /\ UNCHANGED <<fieldVars, status, out, dispatchVars>>

Promote ==
  /\ apc = "push"
  /\ \E j \in aged :
        /\ IsFirst(j, aged)
        /\ promote(alvl, j)
        /\ aged' = aged \ {j}
  /\ IF aged' = {} THEN nextAgingLevel ELSE UNCHANGED <<apc, alvl>>
  /\ UNCHANGED <<status, out, dispatchVars>>

-----------------------------------------------------------------------------
SpecNext ==
  \/ \E j \in Jobs : PushNew(j) \/ UseTick(j) \/ Requeue(j) \/ Ask(j)
  \/ \E l \in Levels : Tick(l)
  \/ Probe \/ UseAnswer \/ PopEmpty \/ Pop
  \/ StartAging \/ Drain \/ Promote

Spec == SpecInit /\ [][SpecNext]_specVars

=============================================================================
