-------------------------- MODULE SchedulerProofs --------------------------
(***************************************************************************)
(* Theorems about module Scheduler, for any jobs, any number of levels and *)
(* slots, and any number of worker threads: every variable keeps its type, *)
(* no job is ever in two places, none is dropped, and an ended job stays   *)
(* ended.                                                                  *)
(***************************************************************************)
EXTENDS SchedulerProperties, TLAPS

(* What the steps are called in the proofs.                                *)
GuiStep == (\E j \in Jobs : SubmitJob(j)) \/ Stop \/ StopReturns

(* The facts about the constants that nearly every step of a proof needs.  *)
LEMMA ConstantFacts ==
  /\ 0 \in Levels
  /\ LastLevel \in Levels
  /\ \A l \in Levels : l \in Nat
  /\ \A l \in Levels : l # LastLevel => l + 1 \in Levels
  /\ \A l \in Levels : l # 0 => l - 1 \in Levels
  /\ 0 \in SlotIds
  /\ \A s \in SlotIds : s \in Nat
  /\ \A s \in SlotIds : s # MAX_CONCURRENT - 1 => s + 1 \in SlotIds
  /\ -1 \notin SlotIds
  /\ NoJob \notin Jobs
  /\ NoId = NoJob
  /\ AGING_THRESHOLD \in Nat
BY JobAssumption, ResourceAssumption, SchedulerAssumption
   DEF Levels, LastLevel, SlotIds

-----------------------------------------------------------------------------
(* Type correctness.                                                       *)

LEMMA TypeInit == Init => TypeOK
BY ConstantFacts, JobAssumption, ResourceAssumption, SchedulerAssumption
   DEF Init, QueueInit, LifecycleInit, ResourceInit, FreeSlot, TypeOK, QueueTypeOK,
       ResourceTypeOK, ThreadTypeOK, DispatcherTypeOK, AgingTypeOK,
       WorkerTypeOK, WorkerSteps, SlotSteps, LoopSteps, JobStatus

(* What an action leaves alone keeps its type.                             *)
LEMMA TypeFrame ==
  ASSUME TypeOK
  PROVE  /\ UNCHANGED queueVars => QueueTypeOK'
         /\ UNCHANGED resourceVars => ResourceTypeOK(Jobs \cup {NoJob})'
         /\ UNCHANGED <<elapsed_ticks, stopVars, active>> => ThreadTypeOK'
         /\ UNCHANGED <<dispatcherVars, active>> => DispatcherTypeOK'
         /\ UNCHANGED agingVars => AgingTypeOK'
         /\ UNCHANGED workerVars => WorkerTypeOK'
<1>1. UNCHANGED queueVars => QueueTypeOK'
  BY DEF TypeOK, QueueTypeOK, queueVars
<1>2. UNCHANGED resourceVars => ResourceTypeOK(Jobs \cup {NoJob})'
  BY DEF TypeOK, ResourceTypeOK, resourceVars, budgetVars
<1>3. UNCHANGED <<elapsed_ticks, stopVars, active>> => ThreadTypeOK'
  BY DEF TypeOK, ThreadTypeOK, stopVars
<1>4. UNCHANGED <<dispatcherVars, active>> => DispatcherTypeOK'
  BY DEF TypeOK, DispatcherTypeOK, dispatcherVars
<1>5. UNCHANGED agingVars => AgingTypeOK'
  BY DEF TypeOK, AgingTypeOK, agingVars
<1>6. UNCHANGED workerVars => WorkerTypeOK'
  BY DEF TypeOK, WorkerTypeOK, workerVars, localVars
<1> QED
  BY <1>1, <1>2, <1>3, <1>4, <1>5, <1>6

(* Every entry into a level keeps the types of the queue.                  *)
LEMMA EnterLevelType ==
  ASSUME QueueTypeOK, NEW l \in Levels, NEW j \in Jobs, enterLevel(l, j),
         UNCHANGED status \/ status' = [status EXCEPT ![j] = "READY"]
  PROVE  QueueTypeOK'
BY ConstantFacts DEF QueueTypeOK, enterLevel, push, JobStatus

(* A demoted job stays within the levels.                                  *)
LEMMA DemotedLevelType ==
  ASSUME QueueTypeOK, NEW j \in Jobs, NEW d \in BOOLEAN
  PROVE  demotedLevel(j, d) \in Levels
BY JobAssumption DEF QueueTypeOK, demotedLevel, Levels, LastLevel

(* The GUI thread's steps keep the types.                                  *)
LEMMA TypeGui == TypeOK /\ GuiStep => TypeOK'
<1> SUFFICES ASSUME TypeOK, GuiStep PROVE TypeOK'
  OBVIOUS
<1> USE TypeFrame DEF TypeOK, guiFrame
<1>1. ASSUME NEW j \in Jobs, SubmitJob(j) PROVE TypeOK'
  <2>1. QueueTypeOK'
    BY <1>1, ConstantFacts, EnterLevelType DEF SubmitJob, pushNew
  <2> QED
    BY <1>1, <2>1 DEF SubmitJob
<1>2. CASE Stop
  BY <1>2 DEF Stop, ThreadTypeOK, jobVars
<1>3. CASE StopReturns
  BY <1>3 DEF StopReturns, ThreadTypeOK, jobVars
<1> QED
  BY <1>1, <1>2, <1>3 DEF GuiStep

(* checkPreemptions moves on to an index in range.                         *)
LEMMA NextSlotType ==
  ASSUME DispatcherTypeOK, didx \in SlotIds, dpc # "spawn", nextSlot,
         UNCHANGED <<cycle, djob>>
  PROVE  DispatcherTypeOK'
BY ConstantFacts DEF DispatcherTypeOK, nextSlot

(* The dispatcher's steps keep the types, and its loop indices in range.   *)
LEMMA TypeDispatcher == TypeOK /\ Dispatcher => TypeOK'
<1> SUFFICES ASSUME TypeOK, Dispatcher PROVE TypeOK'
  OBVIOUS
<1> USE TypeFrame DEF TypeOK, atDispatch
<1>1. CASE DispatchTop
  <2>1. (cycle + 1) % TICK_CYCLES \in 0 .. TICK_CYCLES - 1
    BY SchedulerAssumption DEF DispatcherTypeOK
  <2>2. DispatcherTypeOK'
    BY <1>1, <2>1, ConstantFacts DEF DispatchTop, DispatcherTypeOK
  <2> QED
    BY <1>1, <2>2 DEF DispatchTop
<1>2. CASE DispatchTick
  <2>1. QueueTypeOK'
    BY <1>2, ConstantFacts DEF DispatchTick, tickLevel, QueueTypeOK
  <2>2. DispatcherTypeOK'
    BY <1>2, ConstantFacts DEF DispatchTick, DispatcherTypeOK
  <2> QED
    BY <1>2, <2>1, <2>2 DEF DispatchTick
<1>3. CASE DispatchScan
  <2>1. didx \in SlotIds
    BY <1>3 DEF DispatchScan, DispatcherTypeOK
  <2>2. DispatcherTypeOK'
    <3>1. CASE nextSlot
      BY <1>3, <2>1, <3>1, NextSlotType DEF DispatchScan
    <3>2. CASE ~ nextSlot
      BY <1>3, <2>1, <3>2 DEF DispatchScan, DispatcherTypeOK
    <3> QED
      BY <3>1, <3>2
  <2> QED
    BY <1>3, <2>2 DEF DispatchScan
<1>4. CASE DispatchProbe
  <2>1. didx \in SlotIds /\ active[didx] \in Jobs
    BY <1>4 DEF DispatchProbe, DispatcherTypeOK, ThreadTypeOK
  <2>2. DispatcherTypeOK'
    <3>1. CASE nextSlot
      BY <1>4, <2>1, <3>1, NextSlotType DEF DispatchProbe
    <3>2. CASE dpc' = "cas" /\ dlvl' = 0 /\ UNCHANGED didx
      BY <1>4, <3>2, ConstantFacts DEF DispatchProbe, DispatcherTypeOK
    <3>3. CASE /\ dlvl < mlfq_level[active[didx]]
               /\ dlvl' = dlvl + 1 /\ UNCHANGED <<dpc, didx>>
      <4>1. dlvl + 1 \in Levels
        <5>1. mlfq_level[active[didx]] \in Levels /\ dlvl \in Levels
          BY <2>1 DEF QueueTypeOK, DispatcherTypeOK
        <5> QED
          BY <3>3, <5>1, JobAssumption DEF Levels
      <4> QED
        BY <1>4, <2>1, <3>3, <4>1, ConstantFacts
           DEF DispatchProbe, DispatcherTypeOK
    <3> QED
      BY <1>4, <3>1, <3>2, <3>3 DEF DispatchProbe
  <2> QED
    BY <1>4, <2>2 DEF DispatchProbe
<1>5. CASE DispatchCas
  <2>1. didx \in SlotIds
    BY <1>5 DEF DispatchCas, DispatcherTypeOK
  <2>2. DispatcherTypeOK'
    BY <1>5, <2>1, NextSlotType DEF DispatchCas
  <2>3. QueueTypeOK'
    BY <1>5 DEF DispatchCas, QueueTypeOK, fieldVars, JobStatus
  <2> QED
    BY <1>5, <2>2, <2>3 DEF DispatchCas
<1>6. CASE DispatchPopEmpty
  <2>1. DispatcherTypeOK'
    BY <1>6, ConstantFacts DEF DispatchPopEmpty, DispatcherTypeOK
  <2> QED
    BY <1>6, <2>1 DEF DispatchPopEmpty
<1>7. CASE DispatchPop
  <2>1. PICK j \in level[didx] : popFirst(didx, j) /\ djob' = j
    BY <1>7 DEF DispatchPop
  <2>2. j \in Jobs
    BY <1>7, <2>1 DEF DispatchPop, QueueTypeOK, DispatcherTypeOK
  <2>3. QueueTypeOK'
    BY <1>7, <2>1 DEF DispatchPop, popFirst, QueueTypeOK, fieldVars
  <2>4. DispatcherTypeOK'
    BY <1>7, <2>1, <2>2, ConstantFacts DEF DispatchPop, DispatcherTypeOK
  <2> QED
    BY <1>7, <2>3, <2>4 DEF DispatchPop
<1>8. ASSUME NEW w \in Worker, DispatchSpawn(w) PROVE TypeOK'
  <2>1. DispatcherTypeOK'
    BY <1>8, ConstantFacts DEF DispatchSpawn, DispatcherTypeOK
  <2>2. djob \in Jobs
    BY <1>8 DEF DispatchSpawn, DispatcherTypeOK
  <2>3. WorkerTypeOK'
    BY <1>8, <2>2, ConstantFacts
       DEF DispatchSpawn, WorkerTypeOK, WorkerSteps, OwnerSteps, PermitSteps,
           SlotSteps, LoopSteps
  <2> QED
    BY <1>8, <2>1, <2>3 DEF DispatchSpawn
<1> QED
  BY <1>1, <1>2, <1>3, <1>4, <1>5, <1>6, <1>7, <1>8 DEF Dispatcher

(* The aging thread's steps keep the types, and alvl within the levels.    *)
LEMMA TypeAging == TypeOK /\ Aging => TypeOK'
<1> SUFFICES ASSUME TypeOK, Aging PROVE TypeOK'
  OBVIOUS
<1> USE TypeFrame DEF TypeOK, atAging
<1>1. CASE AgingWake
  <2>1. LastLevel # 0 => 1 \in Levels
    BY JobAssumption DEF Levels, LastLevel
  <2>2. AgingTypeOK'
    BY <1>1, <2>1 DEF AgingWake, AgingTypeOK
  <2>3. UNCHANGED queueVars
    BY <1>1 DEF AgingWake, queueVars, fieldVars
  <2> QED
    BY <1>1, <2>2, <2>3 DEF AgingWake
<1>2. CASE AgingDrain
  <2>1. PICK A \in SUBSET agedIn(alvl) : drainAged(alvl, A) /\ aged' = A
    BY <1>2 DEF AgingDrain
  <2>2. A \subseteq Jobs
    BY <1>2, <2>1 DEF AgingDrain, agedIn, AgingTypeOK, QueueTypeOK
  <2>3. QueueTypeOK'
    BY <1>2, <2>1 DEF AgingDrain, drainAged, QueueTypeOK, fieldVars
  <2>4. AgingTypeOK'
    <3>1. CASE aged' = {}
      <4>1. nextLevel /\ alvl \in Levels
        BY <1>2, <3>1 DEF AgingDrain, AgingTypeOK
      <4>2. alvl + 1 \in Nat \ {0} /\ (alvl # LastLevel => alvl + 1 \in Levels)
        BY <4>1, ConstantFacts
      <4> QED
        BY <3>1, <4>1, <4>2 DEF nextLevel, AgingTypeOK
    <3>2. CASE aged' # {}
      BY <1>2, <2>1, <2>2, <3>2 DEF AgingDrain, AgingTypeOK
    <3> QED
      BY <3>1, <3>2
  <2> QED
    BY <1>2, <2>3, <2>4 DEF AgingDrain
<1>3. CASE AgingPush
  <2>1. PICK j \in aged : promote(alvl, j) /\ aged' = aged \ {j}
    BY <1>3 DEF AgingPush
  <2>2. alvl \in Levels /\ alvl - 1 \in Levels /\ j \in Jobs
    BY <1>3, <2>1, ConstantFacts DEF AgingPush, AgingTypeOK
  <2>3. QueueTypeOK'
    BY <1>3, <2>1, <2>2, EnterLevelType DEF AgingPush, promote
  <2>4. AgingTypeOK'
    <3>1. CASE aged' = {}
      BY <1>3, <2>2, <3>1, ConstantFacts DEF AgingPush, nextLevel, AgingTypeOK
    <3>2. CASE aged' # {}
      BY <1>3, <2>1, <3>2 DEF AgingPush, AgingTypeOK
    <3> QED
      BY <3>1, <3>2
  <2> QED
    BY <1>3, <2>3, <2>4 DEF AgingPush
<1> QED
  BY <1>1, <1>2, <1>3 DEF Aging

(* A worker that goes on with its job keeps the types of the workers.      *)
LEMMA GoType ==
  ASSUME WorkerTypeOK, NEW w \in Worker, NEW from, NEW to \in OwnerSteps,
         from # "off", go(w, from, to), UNCHANGED wjob,
         wslot' \in [Worker -> SlotIds \cup {-1}],
         \A v \in Worker \ {w} : wslot'[v] = wslot[v],
         to \in {"claim", "hide"} \cup SlotSteps => wslot'[w] \in SlotIds,
         was_preempted' \in [Worker -> BOOLEAN]
  PROVE  WorkerTypeOK'
BY DEF WorkerTypeOK, go, WorkerSteps

(* A worker that leaves has no job, no slot and no step to take.           *)
LEMMA LeaveType ==
  ASSUME WorkerTypeOK, NEW w \in Worker, NEW from, leave(w, from)
  PROVE  WorkerTypeOK'
BY ConstantFacts
   DEF WorkerTypeOK, leave, go, WorkerSteps, SlotSteps, LoopSteps

(* A worker's steps keep the types, and its slot in range once claimed.    *)
LEMMA TypeWorker ==
  ASSUME TypeOK, NEW w \in Worker, workerStep(w)
  PROVE  TypeOK'
<1> USE TypeFrame DEF TypeOK, go, leave, jobVars
<1>0. wpc[w] # "off" => wjob[w] \in Jobs
  BY DEF WorkerTypeOK
<1>a. /\ wslot \in [Worker -> SlotIds \cup {-1}]
      /\ was_preempted \in [Worker -> BOOLEAN]
      /\ wpc[w] \in {"claim", "hide"} \cup SlotSteps => wslot[w] \in SlotIds
  BY DEF WorkerTypeOK
<1>b. /\ {"hint", "claim", "hide", "release", "finish"} \subseteq OwnerSteps
      /\ SlotSteps \subseteq OwnerSteps
      /\ SlotSteps = {"mark", "show", "loop", "look", "expire", "clear"}
  BY DEF OwnerSteps, PermitSteps, SlotSteps, LoopSteps
<1>1. CASE Acquire(w)
  <2>1. ResourceTypeOK(Jobs \cup {NoJob})'
    BY <1>0, <1>1, JobAssumption DEF Acquire, acquire, ResourceTypeOK
  <2>2. wslot[w] < 0 \/ wslot[w] \in SlotIds
    BY <1>a DEF SlotIds
  <2>3. WorkerTypeOK'
    BY <1>1, <1>a, <1>b, <2>2, GoType DEF Acquire, localVars
  <2> QED
    BY <1>1, <2>1, <2>3 DEF Acquire
<1>2. CASE Fail(w)
  <2>1. QueueTypeOK'
    BY <1>2 DEF Fail, QueueTypeOK, fieldVars, JobStatus
  <2>2. UNCHANGED resourceVars
    BY <1>2 DEF Fail, refuse, resourceVars, budgetVars
  <2> QED
    BY <1>2, <2>1, <2>2, LeaveType DEF Fail
<1>3. CASE HintSlot(w)
  <2>1. PICK s \in SlotIds \cup {-1} :
           wslot' = [wslot EXCEPT ![w] = IF s < 0 THEN 0 ELSE s]
    BY <1>3 DEF HintSlot
  <2>2. (IF s < 0 THEN 0 ELSE s) \in SlotIds
    BY ConstantFacts DEF SlotIds
  <2>3. /\ wslot' \in [Worker -> SlotIds \cup {-1}]
        /\ \A v \in Worker \ {w} : wslot'[v] = wslot[v]
        /\ wslot'[w] \in SlotIds
    BY <1>a, <2>1, <2>2
  <2>4. WorkerTypeOK'
    BY <1>3, <1>a, <1>b, <2>3, GoType DEF HintSlot
  <2> QED
    BY <1>3, <2>4 DEF HintSlot
<1>4. CASE ClaimSlot(w)
  <2>1. PICK s \in SlotIds : /\ wslot' = [wslot EXCEPT ![w] = s]
                            /\ active' = [active EXCEPT ![s] = wjob[w]]
    BY <1>4 DEF ClaimSlot
  <2>2. ThreadTypeOK'
    BY <1>0, <1>4, <2>1 DEF ClaimSlot, ThreadTypeOK, stopVars
  <2>3. DispatcherTypeOK'
    BY <1>4 DEF ClaimSlot, ActiveMutexFree, DispatcherTypeOK, dispatcherVars
  <2>4. WorkerTypeOK'
    BY <1>4, <1>a, <1>b, <2>1, GoType DEF ClaimSlot
  <2> QED
    BY <1>4, <2>2, <2>3, <2>4 DEF ClaimSlot
<1>5. CASE MarkRunning(w)
  <2>1. QueueTypeOK'
    BY <1>5 DEF MarkRunning, QueueTypeOK, fieldVars, JobStatus
  <2>2. WorkerTypeOK'
    BY <1>5, <1>a, <1>b, GoType DEF MarkRunning, localVars
  <2> QED
    BY <1>5, <2>1, <2>2 DEF MarkRunning
<1>6. CASE ShowBusy(w)
  <2>1. ResourceTypeOK(Jobs \cup {NoJob})'
    BY <1>0, <1>6 DEF ShowBusy, setWorkerBusy, ResourceTypeOK, budgetVars
  <2>2. WorkerTypeOK'
    BY <1>6, <1>a, <1>b, GoType DEF ShowBusy, localVars
  <2> QED
    BY <1>6, <2>1, <2>2 DEF ShowBusy
<1>7. CASE TestLoop(w)
  <2>1. wpc'[w] \in {"clear", "look"} /\ go(w, "loop", wpc'[w])
    BY <1>7 DEF TestLoop, WorkerTypeOK
  <2>2. WorkerTypeOK'
    BY <1>7, <1>a, <1>b, <2>1, GoType DEF TestLoop, localVars
  <2> QED
    BY <1>7, <2>2 DEF TestLoop
<1>8. CASE ExpireQuantum(w)
  <2>1. QueueTypeOK'
    BY <1>8 DEF ExpireQuantum, QueueTypeOK, fieldVars, JobStatus
  <2>2. WorkerTypeOK'
    BY <1>8, <1>a, <1>b, GoType DEF ExpireQuantum
  <2> QED
    BY <1>8, <2>1, <2>2 DEF ExpireQuantum
<1>9. CASE ClearActive(w)
  <2>1. ThreadTypeOK'
    BY <1>9 DEF ClearActive, ThreadTypeOK, stopVars
  <2>2. DispatcherTypeOK'
    BY <1>9 DEF ClearActive, ActiveMutexFree, DispatcherTypeOK, dispatcherVars
  <2>3. WorkerTypeOK'
    BY <1>9, <1>a, <1>b, GoType DEF ClearActive, localVars
  <2> QED
    BY <1>9, <2>1, <2>2, <2>3 DEF ClearActive
<1>10. CASE HideBusy(w)
  <2>1. ResourceTypeOK(Jobs \cup {NoJob})'
    BY <1>10, ConstantFacts
       DEF HideBusy, setWorkerFree, FreeSlot, ResourceTypeOK, budgetVars
  <2>2. WorkerTypeOK'
    BY <1>10, <1>a, <1>b, GoType DEF HideBusy, localVars
  <2> QED
    BY <1>10, <2>1, <2>2 DEF HideBusy
<1>11. CASE Release(w)
  <2>1. ResourceTypeOK(Jobs \cup {NoJob})'
    BY <1>0, <1>11, JobAssumption
       DEF Release, release, atLeastZero, ResourceTypeOK
  <2>2. WorkerTypeOK'
    BY <1>11, <1>a, <1>b, GoType DEF Release, localVars
  <2> QED
    BY <1>11, <2>1, <2>2 DEF Release
<1>12. CASE Finish(w)
  <2> DEFINE d == quantumExpired(mlfq_level[wjob[w]],
                                 ticks_this_slice[wjob[w]])
  <2>1. wjob[w] \in Jobs
    BY <1>0, <1>12 DEF Finish
  <2>2. QueueTypeOK'
    <3>1. CASE requeuePreempted(wjob[w], d)
      <4>1. d \in BOOLEAN
        BY DEF quantumExpired
      <4> HIDE DEF d
      <4> QED
        BY <2>1, <3>1, <4>1, DemotedLevelType, EnterLevelType
           DEF requeuePreempted
    <3>2. CASE UNCHANGED queueVars
      BY <3>2
    <3>3. CASE /\ status' = [status EXCEPT ![wjob[w]] = "COMPLETED"]
               /\ UNCHANGED <<level, fieldVars>>
      BY <3>3 DEF QueueTypeOK, fieldVars, JobStatus
    <3> QED
      BY <1>12, <3>1, <3>2, <3>3 DEF Finish
  <2> QED
    BY <1>12, <2>2, LeaveType DEF Finish
<1>13. CASE RunTick(w)
  <2>1. QueueTypeOK' /\ ThreadTypeOK'
    BY <1>0, <1>13 DEF RunTick, QueueTypeOK, ThreadTypeOK, stopVars
  <2>2. was_preempted' \in [Worker -> BOOLEAN]
    BY <1>13, <1>a DEF RunTick
  <2>3. wpc'[w] \in {"clear", "expire", "loop"} /\ go(w, "look", wpc'[w])
    BY <1>13 DEF RunTick, WorkerTypeOK
  <2>4. WorkerTypeOK'
    BY <1>13, <1>a, <1>b, <2>2, <2>3, GoType DEF RunTick
  <2> QED
    BY <1>13, <2>1, <2>4 DEF RunTick
<1> QED
  BY <1>1, <1>2, <1>3, <1>4, <1>5, <1>6, <1>7, <1>8, <1>9, <1>10, <1>11,
     <1>12, <1>13 DEF workerStep

(* TypeOK is inductive.                                                    *)
LEMMA TypeNext == TypeOK /\ [Next]_vars => TypeOK'
<1> SUFFICES ASSUME TypeOK, [Next]_vars PROVE TypeOK'
  OBVIOUS
<1>1. CASE UNCHANGED vars
  BY <1>1, TypeFrame DEF TypeOK, vars, jobVars
<1> QED
  BY <1>1, TypeGui, TypeDispatcher, TypeAging, TypeWorker DEF Next, GuiStep

(* Type correctness of every variable of every thread.                     *)
THEOREM TypeCorrect == Spec => []TypeOK
  BY TypeInit, TypeNext, PTL DEF Spec

-----------------------------------------------------------------------------
(* What the queue operations do to the set of the queued jobs.             *)

LEMMA QueuedMembers == \A j : j \in Queued <=> \E l \in Levels : j \in level[l]
BY DEF Queued

(* Pushing a job that is in no level adds it to the queued jobs, and keeps *)
(* the levels disjoint.                                                    *)
LEMMA PushQueued ==
  ASSUME level \in [Levels -> SUBSET Jobs], LevelsDisjoint,
         NEW l \in Levels, NEW j \in Jobs, j \notin Queued, push(l, j)
  PROVE  /\ Queued' = Queued \cup {j}
         /\ LevelsDisjoint'
<1>1. /\ level'[l] = level[l] \cup {j}
      /\ \A m \in Levels \ {l} : level'[m] = level[m]
  BY DEF push
<1>2. LevelsDisjoint'
  BY <1>1, QueuedMembers DEF LevelsDisjoint
<1>3. \A k : k \in Queued' <=> \E m \in Levels : k \in level'[m]
  BY DEF Queued
<1>4. \A k : k \in Queued' <=> k \in Queued \cup {j}
  BY <1>1, <1>3, QueuedMembers
<1> QED
  BY <1>2, <1>4

(* Taking jobs out of one level takes them out of the queued jobs.         *)
LEMMA TakeQueued ==
  ASSUME level \in [Levels -> SUBSET Jobs], LevelsDisjoint,
         NEW l \in Levels, NEW A \in SUBSET level[l],
         level' = [level EXCEPT ![l] = @ \ A]
  PROVE  /\ Queued' = Queued \ A
         /\ LevelsDisjoint'
<1>1. /\ level'[l] = level[l] \ A
      /\ \A m \in Levels \ {l} : level'[m] = level[m]
  OBVIOUS
<1>2. LevelsDisjoint'
  BY <1>1 DEF LevelsDisjoint
<1>3. \A k : k \in Queued' <=> \E m \in Levels : k \in level'[m]
  BY DEF Queued
<1>4. \A m \in Levels \ {l} : level[m] \cap A = {}
  BY DEF LevelsDisjoint
<1>5. \A k : k \in Queued' <=> k \in Queued \ A
  BY <1>1, <1>3, <1>4, QueuedMembers
<1> QED
  BY <1>2, <1>5

(* A step that leaves the levels alone leaves the queued jobs alone.       *)
LEMMA SameQueued ==
  ASSUME UNCHANGED level
  PROVE  /\ Queued' = Queued
         /\ LevelsDisjoint' = LevelsDisjoint
BY DEF Queued, LevelsDisjoint

-----------------------------------------------------------------------------
(* What the worker steps do to the set of the owned jobs.                  *)

OneOwner ==
  \A v, w \in Worker :
     /\ wpc[v] \in OwnerSteps
     /\ wpc[w] \in OwnerSteps
     /\ wjob[v] = wjob[w]
     => v = w

(* A job is owned when some worker thread is at work on it.                *)
LEMMA OwnedMembers ==
  \A j : j \in Owned <=>
           \E w \in Worker : wpc[w] \in OwnerSteps /\ wjob[w] = j
BY DEF Owned

(* Only jobs are owned: a worker at work has a job.                        *)
LEMMA OwnedInJobs == WorkerTypeOK => Owned \subseteq Jobs
BY OwnedMembers
   DEF WorkerTypeOK, OwnerSteps, PermitSteps, SlotSteps, LoopSteps

(* A step of another thread does not change who owns what.                 *)
LEMMA SameOwned ==
  ASSUME UNCHANGED <<wpc, wjob>>
  PROVE  Owned' = Owned /\ OneOwner' = OneOwner
BY DEF Owned, OneOwner

(* A worker that goes on keeps its job.                                    *)
LEMMA GoOwned ==
  ASSUME WorkerTypeOK, OneOwner, NEW w \in Worker, NEW from \in OwnerSteps,
         NEW to \in OwnerSteps, go(w, from, to), UNCHANGED wjob
  PROVE  Owned' = Owned /\ OneOwner'
<1>1. \A v \in Worker : wpc'[v] \in OwnerSteps <=> wpc[v] \in OwnerSteps
  BY DEF go, WorkerTypeOK
<1> QED
  BY <1>1 DEF Owned, OneOwner

(* A worker that leaves gives up its job and no other.                     *)
LEMMA LeaveOwned ==
  ASSUME WorkerTypeOK, OneOwner, NEW w \in Worker, NEW from \in OwnerSteps,
         leave(w, from)
  PROVE  Owned' = Owned \ {wjob[w]} /\ OneOwner'
<1>1. /\ wpc[w] \in OwnerSteps /\ wpc'[w] \notin OwnerSteps
      /\ \A v \in Worker \ {w} : wpc'[v] = wpc[v] /\ wjob'[v] = wjob[v]
  BY DEF leave, go, WorkerTypeOK, OwnerSteps, PermitSteps, SlotSteps, LoopSteps
<1>2. OneOwner'
  BY <1>1 DEF OneOwner
<1>3. \A j : j \in Owned' <=>
               \E v \in Worker : wpc'[v] \in OwnerSteps /\ wjob'[v] = j
  BY DEF Owned
<1>4. \A j : j \in Owned' <=> j \in Owned \ {wjob[w]}
  BY <1>1, <1>3, OwnedMembers DEF OneOwner
<1> QED
  BY <1>2, <1>4

(* A new worker thread owns the job it was started for.                    *)
LEMMA SpawnOwned ==
  ASSUME WorkerTypeOK, OneOwner, NEW w \in Worker, DispatchSpawn(w),
         djob \notin Owned
  PROVE  Owned' = Owned \cup {djob} /\ OneOwner'
<1>1. /\ wpc[w] \notin OwnerSteps /\ wpc'[w] \in OwnerSteps /\ wjob'[w] = djob
      /\ \A v \in Worker \ {w} : wpc'[v] = wpc[v] /\ wjob'[v] = wjob[v]
  BY DEF DispatchSpawn, WorkerTypeOK, OwnerSteps, PermitSteps, SlotSteps,
         LoopSteps
<1>2. OneOwner'
  BY <1>1, OwnedMembers DEF OneOwner
<1>3. \A j : j \in Owned' <=>
               \E v \in Worker : wpc'[v] \in OwnerSteps /\ wjob'[v] = j
  BY DEF Owned
<1>4. \A j : j \in Owned' <=> j \in Owned \cup {djob}
  BY <1>1, <1>3, OwnedMembers
<1> QED
  BY <1>2, <1>4

-----------------------------------------------------------------------------
(* The inductive invariant.  OnePlace needs Accounted: that a job can be   *)
(* submitted, or requeued, without being anywhere else follows from its    *)
(* status.                                                                 *)

PlaceInv == TypeOK /\ OnePlace /\ Accounted

(* At first every job is WAITING and nowhere.                              *)
LEMMA PlaceInit == Init => PlaceInv
<1> SUFFICES ASSUME Init PROVE PlaceInv
  OBVIOUS
<1>1. Queued = {} /\ LevelsDisjoint
  BY DEF Init, QueueInit, LifecycleInit, Queued, LevelsDisjoint
<1>2. Owned = {}
  BY DEF Init, Owned, OwnerSteps, PermitSteps, SlotSteps, LoopSteps
<1>3. OnePlace
  BY <1>1, <1>2, ConstantFacts
     DEF Init, OnePlace, Held, OwnerSteps, PermitSteps, SlotSteps, LoopSteps
<1>4. Accounted
  BY <1>1, <1>2
     DEF Init, QueueInit, LifecycleInit, Accounted, JobsAccounted, LeavesForAReason,
         LeaveSteps, StartedInProgress, StartedSteps, LoopSteps, Held
<1> QED
  BY <1>3, <1>4, TypeInit DEF PlaceInv

(* OnePlace in terms of the three sets it relates.                         *)
LEMMA OnePlaceParts ==
  OnePlace <=> /\ LevelsDisjoint
               /\ Queued \cap aged = {}
               /\ djob \notin Queued \cup aged
               /\ Owned \cap Held = {}
               /\ OneOwner
BY DEF OnePlace, OneOwner

(* A step that moves no job keeps the jobs where they are.                 *)
LEMMA SamePlaces ==
  ASSUME OnePlace, UNCHANGED <<level, aged, djob, wpc, wjob>>
  PROVE  OnePlace' /\ Held' = Held /\ Owned' = Owned
<1>1. Queued' = Queued /\ LevelsDisjoint'
  BY SameQueued, OnePlaceParts
<1>2. Owned' = Owned /\ OneOwner'
  BY SameOwned, OnePlaceParts
<1> QED
  BY <1>1, <1>2, OnePlaceParts DEF Held, OnePlace, OneOwner

(* A step of another thread leaves the jobs of the workers in progress.    *)
LEMMA OthersInProgress ==
  ASSUME TypeOK, StartedInProgress, UNCHANGED <<wpc, wjob>>,
         \A j \in Owned : \/ status'[j] = status[j]
                          \/ status'[j] = "PREEMPTED"
  PROVE  StartedInProgress'
<1>1. StartedSteps \subseteq OwnerSteps
  BY DEF StartedSteps, LeaveSteps, OwnerSteps, PermitSteps, SlotSteps
<1> QED
  BY <1>1, OwnedMembers DEF StartedInProgress

(* So does a step of a worker, which has a job of its own.                 *)
LEMMA WorkerInProgress ==
  ASSUME StartedInProgress, OneOwner, NEW w \in Worker,
         wpc[w] \in OwnerSteps,
         \A v \in Worker \ {w} : wpc'[v] = wpc[v] /\ wjob'[v] = wjob[v],
         \A j \in Owned \ {wjob[w]} : status'[j] = status[j],
         wpc'[w] \in StartedSteps =>
            status'[wjob'[w]] \in {"RUNNING", "PREEMPTED"}
  PROVE  StartedInProgress'
<1>1. StartedSteps \subseteq OwnerSteps
  BY DEF StartedSteps, LeaveSteps, OwnerSteps, PermitSteps, SlotSteps
<1>2. ASSUME NEW v \in Worker \ {w}, wpc'[v] \in StartedSteps
      PROVE  status'[wjob'[v]] \in {"RUNNING", "PREEMPTED"}
  <2>1. wjob[v] \in Owned \ {wjob[w]}
    BY <1>1, <1>2, OwnedMembers DEF OneOwner
  <2> QED
    BY <1>2, <2>1 DEF StartedInProgress
<1> QED
  BY <1>2 DEF StartedInProgress

(* submitJob puts a job that is nowhere into level 0; stop() moves none.   *)
LEMMA PlaceGui == PlaceInv /\ GuiStep => OnePlace' /\ Accounted'
<1> SUFFICES ASSUME PlaceInv, GuiStep PROVE OnePlace' /\ Accounted'
  OBVIOUS
<1> USE DEF PlaceInv
<1>1. ASSUME NEW j \in Jobs, SubmitJob(j) PROVE OnePlace' /\ Accounted'
  <2>1. j \notin Held \cup Owned
    BY <1>1 DEF SubmitJob, Accounted, JobsAccounted
  <2>2. level \in [Levels -> SUBSET Jobs] /\ push(0, j)
    BY <1>1 DEF SubmitJob, pushNew, enterLevel, TypeOK, QueueTypeOK
  <2>3. Queued' = Queued \cup {j} /\ LevelsDisjoint'
    BY <2>1, <2>2, PushQueued, OnePlaceParts, ConstantFacts DEF Held
  <2>4. Owned' = Owned /\ OneOwner' /\ UNCHANGED <<aged, djob>>
    BY <1>1, SameOwned, OnePlaceParts
       DEF SubmitJob, guiFrame, workerVars, localVars, agingVars,
           dispatcherVars
  <2>5. Held' = Held \cup {j}
    BY <2>3, <2>4 DEF Held
  <2>6. OnePlace'
    BY <1>1, <2>1, <2>3, <2>4, <2>5, OnePlaceParts, ConstantFacts
       DEF Held, OnePlace, OneOwner
  <2>7. JobsAccounted'
    <3>1. /\ \A k \in Jobs : status'[k] = IF k = j THEN "READY" ELSE status[k]
          /\ UNCHANGED running
      BY <1>1 DEF SubmitJob, pushNew, stopVars, TypeOK, QueueTypeOK
    <3> QED
      BY <2>4, <2>5, <3>1 DEF Accounted, JobsAccounted
  <2>8. LeavesForAReason'
    BY <1>1
       DEF SubmitJob, guiFrame, workerVars, localVars, stopVars, Accounted,
           LeavesForAReason
  <2>9. StartedInProgress'
    <3>1. /\ \A k \in Owned : status'[k] = status[k]
          /\ UNCHANGED <<wpc, wjob>>
      BY <1>1, <2>1
         DEF SubmitJob, pushNew, guiFrame, workerVars, localVars, TypeOK,
             QueueTypeOK
    <3> QED
      BY <3>1, OthersInProgress DEF Accounted
  <2> QED
    BY <2>6, <2>7, <2>8, <2>9 DEF Accounted
<1>2. ASSUME Stop \/ StopReturns PROVE OnePlace' /\ Accounted'
  <2>1. /\ UNCHANGED <<level, aged, djob, wpc, wjob>>
        /\ UNCHANGED <<status, elapsed_ticks, was_preempted>>
        /\ running' => running
    BY <1>2
       DEF Stop, StopReturns, guiFrame, jobVars, queueVars, agingVars,
           dispatcherVars, workerVars, localVars
  <2> QED
    BY <2>1, SamePlaces
       DEF Accounted, JobsAccounted, LeavesForAReason, StartedInProgress
<1> QED
  BY <1>1, <1>2 DEF GuiStep

(* The dispatcher moves a job from a level to its hands and to a worker;   *)
(* its CAS changes RUNNING jobs only, and these are owned.                 *)
LEMMA PlaceDispatcher == PlaceInv /\ Dispatcher => OnePlace' /\ Accounted'
<1> SUFFICES ASSUME PlaceInv, Dispatcher PROVE OnePlace' /\ Accounted'
  OBVIOUS
<1> USE DEF PlaceInv
<1>1. ASSUME DispatchTop \/ DispatchTick \/ DispatchScan \/ DispatchProbe
             \/ DispatchPopEmpty
      PROVE  OnePlace' /\ Accounted'
  <2>1. /\ UNCHANGED <<level, aged, djob, wpc, wjob>>
        /\ UNCHANGED <<status, elapsed_ticks, was_preempted, running>>
    BY <1>1
       DEF DispatchTop, DispatchTick, DispatchScan, DispatchProbe,
           DispatchPopEmpty, atDispatch, queueVars, stopVars, agingVars,
           workerVars, localVars
  <2> QED
    BY <2>1, SamePlaces
       DEF Accounted, JobsAccounted, LeavesForAReason, StartedInProgress
<1>2. CASE DispatchCas
  <2>1. /\ UNCHANGED <<level, aged, djob, wpc, wjob>>
        /\ UNCHANGED <<elapsed_ticks, was_preempted, running>>
    BY <1>2
       DEF DispatchCas, atDispatch, stopVars, agingVars, workerVars, localVars
  <2>2. \A j \in Jobs :
           \/ status'[j] = status[j]
           \/ status[j] = "RUNNING" /\ status'[j] = "PREEMPTED"
    BY <1>2 DEF DispatchCas, TypeOK, QueueTypeOK
  <2>3. OnePlace' /\ Held' = Held /\ Owned' = Owned
    BY <2>1, SamePlaces
  <2>4. JobsAccounted'
    BY <2>1, <2>2, <2>3 DEF Accounted, JobsAccounted
  <2>5. Owned \subseteq Jobs
    BY OwnedMembers, OwnedInJobs DEF TypeOK
  <2>6. StartedInProgress'
    BY <2>1, <2>2, <2>5, OthersInProgress DEF Accounted
  <2> QED
    BY <2>1, <2>3, <2>4, <2>6 DEF Accounted, LeavesForAReason
<1>3. CASE DispatchPop
  <2>1. PICK j \in level[didx] : popFirst(didx, j) /\ djob' = j
    BY <1>3 DEF DispatchPop
  <2>2. /\ didx \in Levels /\ djob = NoJob /\ j \in Jobs
        /\ level \in [Levels -> SUBSET Jobs]
    BY <1>3, <2>1
       DEF DispatchPop, atDispatch, TypeOK, QueueTypeOK, DispatcherTypeOK
  <2>3. Queued' = Queued \ {j} /\ LevelsDisjoint' /\ j \in Queued
    <3>1. {j} \in SUBSET level[didx] /\ level' = [level EXCEPT ![didx] = @ \ {j}]
      BY <2>1 DEF popFirst
    <3>2. LevelsDisjoint /\ j \in Queued
      BY <2>2, OnePlaceParts, QueuedMembers
    <3> QED
      BY <2>2, <3>1, <3>2, TakeQueued
  <2>a. UNCHANGED <<aged, wpc, wjob>>
    BY <1>3 DEF DispatchPop, atDispatch, workerVars, localVars, agingVars
  <2>4. Owned' = Owned /\ OneOwner'
    BY <2>a, SameOwned, OnePlaceParts
  <2>5. Held' = Held
    BY <2>1, <2>2, <2>3, <2>a, ConstantFacts DEF Held
  <2>6. OnePlace'
    BY <2>1, <2>3, <2>4, <2>5, <2>a, OnePlaceParts DEF OnePlace, OneOwner
  <2> QED
    BY <1>3, <2>4, <2>5, <2>6
       DEF DispatchPop, atDispatch, workerVars, localVars, stopVars,
           Accounted, JobsAccounted, LeavesForAReason, StartedInProgress
<1>4. ASSUME NEW w \in Worker, DispatchSpawn(w)
      PROVE  OnePlace' /\ Accounted'
  <2>1. djob \in Jobs /\ djob' = NoJob /\ UNCHANGED <<level, aged>>
    BY <1>4
       DEF DispatchSpawn, atDispatch, queueVars, agingVars, TypeOK,
           DispatcherTypeOK
  <2>2. djob \in Held /\ djob \notin Owned
    BY <2>1, ConstantFacts, OnePlaceParts DEF Held
  <2>3. Owned' = Owned \cup {djob} /\ OneOwner'
    BY <1>4, <2>2, SpawnOwned, OnePlaceParts DEF TypeOK
  <2>4. Queued' = Queued /\ LevelsDisjoint'
    BY <2>1, SameQueued, OnePlaceParts
  <2>5. Held' = Held \ {djob}
    BY <2>1, <2>4, OnePlaceParts DEF Held
  <2>6. NoJob \notin Queued \cup aged
    BY ConstantFacts, QueuedMembers
       DEF TypeOK, QueueTypeOK, AgingTypeOK
  <2>7. OnePlace'
    BY <2>1, <2>2, <2>3, <2>4, <2>5, <2>6, OnePlaceParts
       DEF OnePlace, OneOwner
  <2>8. JobsAccounted'
    <3>1. UNCHANGED <<status, running>>
      BY <1>4 DEF DispatchSpawn, atDispatch, queueVars, stopVars
    <3> QED
      BY <2>2, <2>3, <2>5, <3>1 DEF Accounted, JobsAccounted
  <2>9. LeavesForAReason' /\ StartedInProgress'
    BY <1>4
       DEF DispatchSpawn, atDispatch, queueVars, stopVars, Accounted,
           LeavesForAReason, StartedInProgress, LeaveSteps, StartedSteps,
           LoopSteps, TypeOK, WorkerTypeOK
  <2> QED
    BY <2>7, <2>8, <2>9 DEF Accounted
<1> QED
  BY <1>1, <1>2, <1>3, <1>4 DEF Dispatcher

(* The aging thread moves jobs from a level to its buffer and back.        *)
LEMMA PlaceAging == PlaceInv /\ Aging => OnePlace' /\ Accounted'
<1> SUFFICES ASSUME PlaceInv, Aging PROVE OnePlace' /\ Accounted'
  OBVIOUS
<1> USE DEF PlaceInv
<1>0. /\ Owned' = Owned /\ OneOwner'
      /\ UNCHANGED <<djob, status, elapsed_ticks, running, wpc, wjob,
                     was_preempted>>
  BY SameOwned, OnePlaceParts
     DEF Aging, AgingWake, AgingDrain, AgingPush, atAging, stopVars,
         dispatcherVars, workerVars, localVars
<1>1. CASE AgingWake
  BY <1>0, <1>1, SamePlaces
     DEF AgingWake, Accounted, JobsAccounted, LeavesForAReason,
         StartedInProgress
<1>2. CASE AgingDrain
  <2>1. PICK A \in SUBSET agedIn(alvl) : drainAged(alvl, A) /\ aged' = A
    BY <1>2 DEF AgingDrain
  <2>2. /\ alvl \in Levels /\ aged = {} /\ A \subseteq level[alvl]
        /\ level \in [Levels -> SUBSET Jobs]
    BY <1>2, <2>1
       DEF AgingDrain, atAging, agedIn, TypeOK, QueueTypeOK, AgingTypeOK
  <2>3. Queued' = Queued \ A /\ LevelsDisjoint' /\ A \subseteq Queued
    BY <2>1, <2>2, TakeQueued, OnePlaceParts, QueuedMembers DEF drainAged
  <2>4. Held' = Held
    BY <1>0, <2>1, <2>2, <2>3 DEF Held
  <2>5. OnePlace'
    BY <1>0, <2>1, <2>2, <2>3, <2>4, OnePlaceParts DEF OnePlace, OneOwner
  <2> QED
    BY <1>0, <2>4, <2>5
       DEF Accounted, JobsAccounted, LeavesForAReason, StartedInProgress
<1>3. CASE AgingPush
  <2>1. PICK j \in aged : promote(alvl, j) /\ aged' = aged \ {j}
    BY <1>3 DEF AgingPush
  <2>2. /\ alvl - 1 \in Levels /\ j \in Jobs /\ j \notin Queued
        /\ level \in [Levels -> SUBSET Jobs] /\ push(alvl - 1, j)
    BY <1>3, <2>1, ConstantFacts, OnePlaceParts
       DEF AgingPush, atAging, promote, enterLevel, TypeOK, QueueTypeOK,
           AgingTypeOK
  <2>3. Queued' = Queued \cup {j} /\ LevelsDisjoint'
    BY <2>2, PushQueued, OnePlaceParts
  <2>4. Held' = Held
    BY <1>0, <2>1, <2>3 DEF Held
  <2>5. OnePlace'
    BY <1>0, <2>1, <2>3, <2>4, OnePlaceParts DEF OnePlace, OneOwner
  <2> QED
    BY <1>0, <2>4, <2>5
       DEF Accounted, JobsAccounted, LeavesForAReason, StartedInProgress
<1> QED
  BY <1>1, <1>2, <1>3 DEF Aging

(* A worker that goes on with its job moves no job.                        *)
LEMMA GoPlaces ==
  ASSUME TypeOK, OnePlace, NEW w \in Worker, NEW from \in OwnerSteps,
         NEW to \in OwnerSteps, go(w, from, to), UNCHANGED <<level, wjob>>
  PROVE  OnePlace' /\ Held' = Held /\ Owned' = Owned
<1>1. Owned' = Owned /\ OneOwner'
  BY GoOwned, OnePlaceParts DEF TypeOK
<1>2. Queued' = Queued /\ LevelsDisjoint' /\ UNCHANGED <<aged, djob>>
  BY SameQueued, OnePlaceParts DEF go, agingVars, dispatcherVars
<1> QED
  BY <1>1, <1>2, OnePlaceParts DEF Held, OnePlace, OneOwner

(* An owned job may change status among the three of a job in progress.    *)
LEMMA OwnedAccounted ==
  ASSUME JobsAccounted, NEW j \in Owned, Held' = Held, Owned' = Owned,
         UNCHANGED running, status'[j] \in {"READY", "RUNNING", "PREEMPTED"},
         \A k \in Jobs \ {j} : status'[k] = status[k]
  PROVE  JobsAccounted'
BY DEF JobsAccounted

(* A worker stores the status of its own job only, and puts it back, or    *)
(* ends it, as it leaves.                                                  *)
LEMMA PlaceWorker ==
  ASSUME PlaceInv, NEW w \in Worker, workerStep(w)
  PROVE  OnePlace' /\ Accounted'
<1> USE DEF PlaceInv
<1>a. /\ {"wait", "hint", "claim", "mark", "show", "loop", "look", "expire", "clear",
          "hide", "release", "finish"} \subseteq OwnerSteps
      /\ LeaveSteps \subseteq OwnerSteps
  BY DEF OwnerSteps, PermitSteps, SlotSteps, LoopSteps, LeaveSteps
<1>b. wpc[w] \in OwnerSteps => wjob[w] \in Jobs /\ wjob[w] \in Owned
  BY OwnedMembers
     DEF TypeOK, WorkerTypeOK, OwnerSteps, PermitSteps, SlotSteps, LoopSteps
<1>1. ASSUME Acquire(w) \/ HintSlot(w) \/ ClaimSlot(w) \/ ShowBusy(w)
             \/ ClearActive(w) \/ HideBusy(w) \/ Release(w)
      PROVE  OnePlace' /\ Accounted'
  <2>1. PICK from \in OwnerSteps, to \in OwnerSteps :
           /\ go(w, from, to)
           /\ to \in LeaveSteps => from \in LeaveSteps
           /\ to \in StartedSteps => from \in StartedSteps
    BY <1>1, <1>a
       DEF Acquire, HintSlot, ClaimSlot, ShowBusy, ClearActive, HideBusy,
           Release, LeaveSteps, StartedSteps, LoopSteps
  <2>2. /\ UNCHANGED <<level, status, elapsed_ticks, wjob, was_preempted>>
        /\ UNCHANGED running
    BY <1>1
       DEF Acquire, HintSlot, ClaimSlot, ShowBusy, ClearActive, HideBusy,
           Release, go, jobVars, queueVars, stopVars, localVars
  <2>3. OnePlace' /\ Held' = Held /\ Owned' = Owned
    BY <2>1, <2>2, GoPlaces
  <2>4. JobsAccounted'
    BY <2>2, <2>3 DEF Accounted, JobsAccounted
  <2>5. LeavesForAReason' /\ StartedInProgress'
    BY <2>1, <2>2
       DEF go, Accounted, LeavesForAReason, StartedInProgress, TypeOK,
           WorkerTypeOK
  <2> QED
    BY <2>3, <2>4, <2>5 DEF Accounted
<1>2. CASE MarkRunning(w)
  <2>1. /\ go(w, "mark", "show")
        /\ UNCHANGED <<level, elapsed_ticks, wjob, was_preempted, running>>
    BY <1>2 DEF MarkRunning, go, stopVars, localVars
  <2>2. OnePlace' /\ Held' = Held /\ Owned' = Owned
    BY <1>a, <2>1, GoPlaces
  <2>3. wjob[w] \in Jobs /\ wjob[w] \in Owned
    BY <1>a, <1>b, <2>1 DEF go
  <2>4. JobsAccounted'
    BY <1>2, <2>1, <2>2, <2>3, OwnedAccounted
       DEF MarkRunning, Accounted, TypeOK, QueueTypeOK
  <2>5. LeavesForAReason'
    BY <2>1
       DEF go, Accounted, LeavesForAReason, LeaveSteps, TypeOK, WorkerTypeOK
  <2>6. StartedInProgress'
    BY <1>2, <1>a, <2>1, <2>3, OwnedInJobs, OnePlaceParts, WorkerInProgress
       DEF MarkRunning, go, Accounted, TypeOK, QueueTypeOK, WorkerTypeOK
  <2> QED
    BY <2>2, <2>4, <2>5, <2>6 DEF Accounted
<1>3. CASE RunTick(w)
  <2> DEFINE j == wjob[w]
             to == wpc'[w]
  <2>1. /\ go(w, "look", to) /\ to \in OwnerSteps
        /\ UNCHANGED <<level, status, wjob, running>>
    BY <1>3, <1>a DEF RunTick, go, stopVars, TypeOK, WorkerTypeOK
  <2>2. OnePlace' /\ Held' = Held /\ Owned' = Owned
    BY <1>a, <2>1, GoPlaces
  <2>3. JobsAccounted'
    BY <2>1, <2>2 DEF Accounted, JobsAccounted
  <2>4. j \in Jobs
    BY <1>a, <1>b, <2>1 DEF go
  <2>5. /\ \A v \in Worker \ {w} : /\ wpc'[v] = wpc[v]
                                  /\ was_preempted'[v] = was_preempted[v]
        /\ \A k \in Jobs \ {j} : elapsed_ticks'[k] = elapsed_ticks[k]
    BY <1>3 DEF RunTick, go, TypeOK, WorkerTypeOK, ThreadTypeOK
  <2>6. \A v \in Worker \ {w} : wpc[v] \in LeaveSteps => wjob[v] \in Jobs \ {j}
    BY <1>a, <2>1, OnePlaceParts
       DEF go, OneOwner, TypeOK, WorkerTypeOK, LeaveSteps
  <2>7. to \in LeaveSteps =>
           \/ elapsed_ticks'[j] >= BurstTime[j]
           \/ was_preempted'[w]
           \/ ~ running
    BY <1>3 DEF RunTick, LeaveSteps, TypeOK, WorkerTypeOK, go
  <2>8. LeavesForAReason'
    BY <2>1, <2>5, <2>6, <2>7 DEF Accounted, LeavesForAReason
  <2>9. StartedInProgress'
    <3>1. wpc[w] \in StartedSteps
      BY <2>1 DEF go, StartedSteps, LoopSteps
    <3> QED
      BY <2>1, <2>5, <3>1 DEF Accounted, StartedInProgress
  <2> QED
    BY <2>2, <2>3, <2>8, <2>9 DEF Accounted
<1>4. CASE ExpireQuantum(w)
  <2>1. /\ go(w, "expire", "clear")
        /\ UNCHANGED <<level, elapsed_ticks, wjob, running>>
    BY <1>4 DEF ExpireQuantum, go, stopVars
  <2>2. OnePlace' /\ Held' = Held /\ Owned' = Owned
    BY <1>a, <2>1, GoPlaces
  <2>3. wjob[w] \in Jobs /\ wjob[w] \in Owned
    BY <1>a, <1>b, <2>1 DEF go
  <2>4. JobsAccounted'
    BY <1>4, <2>1, <2>2, <2>3, OwnedAccounted
       DEF ExpireQuantum, Accounted, TypeOK, QueueTypeOK
  <2>5. LeavesForAReason'
    BY <1>4, <2>1
       DEF ExpireQuantum, go, Accounted, LeavesForAReason, TypeOK,
           WorkerTypeOK
  <2>6. StartedInProgress'
    BY <1>4, <1>a, <2>1, <2>3, OwnedInJobs, OnePlaceParts, WorkerInProgress
       DEF ExpireQuantum, go, Accounted, TypeOK, QueueTypeOK, WorkerTypeOK
  <2> QED
    BY <2>2, <2>4, <2>5, <2>6 DEF Accounted
<1>6. CASE TestLoop(w)
  <2> DEFINE to == wpc'[w]
  <2>1. /\ go(w, "loop", to) /\ to \in OwnerSteps
        /\ UNCHANGED <<level, status, elapsed_ticks, wjob, was_preempted>>
        /\ UNCHANGED running
        /\ to \in LeaveSteps =>
              elapsed_ticks[wjob[w]] >= BurstTime[wjob[w]] \/ ~ running
    BY <1>6, <1>a
       DEF TestLoop, go, jobVars, queueVars, stopVars, localVars, LeaveSteps,
           TypeOK, WorkerTypeOK
  <2>2. OnePlace' /\ Held' = Held /\ Owned' = Owned
    BY <1>a, <2>1, GoPlaces
  <2>3. JobsAccounted'
    BY <2>1, <2>2 DEF Accounted, JobsAccounted
  <2>4. LeavesForAReason' /\ StartedInProgress'
    <3>1. /\ wpc[w] \in StartedSteps
          /\ \A v \in Worker \ {w} : wpc'[v] = wpc[v]
      BY <2>1 DEF go, StartedSteps, LoopSteps, TypeOK, WorkerTypeOK
    <3> QED
      BY <2>1, <3>1 DEF Accounted, LeavesForAReason, StartedInProgress
  <2> QED
    BY <2>2, <2>3, <2>4 DEF Accounted
<1>5. ASSUME Fail(w) \/ Finish(w) PROVE OnePlace' /\ Accounted'
  <2> DEFINE j == wjob[w]
  <2>1. PICK from \in OwnerSteps : leave(w, from) /\ wpc[w] = from
    BY <1>5, <1>a DEF Fail, Finish, leave, go
  <2>2. /\ j \in Jobs /\ j \in Owned /\ j \notin Held
        /\ UNCHANGED <<aged, djob, elapsed_ticks, running>>
    BY <1>5, <1>b, <2>1, OnePlaceParts
       DEF Fail, Finish, leave, go, agingVars, dispatcherVars, stopVars
  <2>3. Owned' = Owned \ {j} /\ OneOwner'
    BY <2>1, LeaveOwned, OnePlaceParts DEF TypeOK
  <2>4. LeavesForAReason'
    BY <2>1, <2>2
       DEF leave, go, Accounted, LeavesForAReason, LeaveSteps, TypeOK,
           WorkerTypeOK
  <2>5. ASSUME \A k \in Jobs \ {j} : status'[k] = status[k]
        PROVE  StartedInProgress'
    <3>1. /\ wpc'[w] \notin StartedSteps
          /\ \A v \in Worker \ {w} : wpc'[v] = wpc[v] /\ wjob'[v] = wjob[v]
      BY <2>1
         DEF leave, go, StartedSteps, LoopSteps, LeaveSteps, TypeOK,
             WorkerTypeOK
    <3>2. Owned \subseteq Jobs
      BY OwnedInJobs DEF TypeOK
    <3> QED
      BY <2>1, <2>5, <3>1, <3>2, OnePlaceParts, WorkerInProgress
         DEF Accounted
  <2>6. ASSUME UNCHANGED level,
               \A k \in Jobs \ {j} : status'[k] = status[k],
               \/ status'[j] \in {"COMPLETED", "FAILED"}
               \/ status'[j] \in {"RUNNING", "PREEMPTED"} /\ ~ running
        PROVE  OnePlace' /\ Accounted'
    <3>1. Queued' = Queued /\ LevelsDisjoint' /\ Held' = Held
      BY <2>2, <2>6, SameQueued, OnePlaceParts DEF Held
    <3>2. OnePlace'
      BY <2>2, <2>3, <3>1, OnePlaceParts DEF OnePlace, OneOwner
    <3>3. JobsAccounted'
      BY <2>2, <2>3, <2>6, <3>1 DEF Accounted, JobsAccounted
    <3> QED
      BY <2>4, <2>5, <2>6, <3>2, <3>3 DEF Accounted
  <2>7. ASSUME NEW l \in Levels, push(l, j),
               status' = [status EXCEPT ![j] = "READY"]
        PROVE  OnePlace' /\ Accounted'
    <3>1. Queued' = Queued \cup {j} /\ LevelsDisjoint'
      BY <2>2, <2>7, PushQueued, OnePlaceParts DEF Held, TypeOK, QueueTypeOK
    <3>2. Held' = Held \cup {j}
      BY <2>2, <3>1 DEF Held
    <3>3. OnePlace'
      BY <2>2, <2>3, <3>1, <3>2, OnePlaceParts, ConstantFacts
         DEF Held, OnePlace, OneOwner
    <3>4. /\ status'[j] = "READY"
          /\ \A k \in Jobs \ {j} : status'[k] = status[k]
      BY <2>2, <2>7 DEF TypeOK, QueueTypeOK
    <3>5. JobsAccounted'
      BY <2>2, <2>3, <3>2, <3>4 DEF Accounted, JobsAccounted
    <3> QED
      BY <2>4, <2>5, <3>3, <3>4, <3>5 DEF Accounted
  <2>8. CASE Fail(w)
    BY <2>2, <2>6, <2>8 DEF Fail, TypeOK, QueueTypeOK
  <2>9. CASE Finish(w)
    <3> DEFINE d == quantumExpired(mlfq_level[j], ticks_this_slice[j])
    <3>1. CASE status' = [status EXCEPT ![j] = "COMPLETED"] /\ UNCHANGED level
      BY <2>2, <2>6, <3>1 DEF TypeOK, QueueTypeOK
    <3>2. CASE requeuePreempted(j, d)
      <4>1. d \in BOOLEAN
        BY DEF quantumExpired
      <4> HIDE DEF d
      <4>2. demotedLevel(j, d) \in Levels
        BY <2>2, <4>1, DemotedLevelType DEF TypeOK
      <4> QED
        BY <2>7, <3>2, <4>2 DEF requeuePreempted, enterLevel
    <3>3. CASE /\ ~ (elapsed_ticks[j] >= BurstTime[j])
               /\ ~ was_preempted[w]
               /\ UNCHANGED queueVars
      <4>1. wpc[w] = "finish"
        BY <2>9 DEF Finish, leave, go
      <4>2. ~ running
        BY <3>3, <4>1 DEF Accounted, LeavesForAReason, LeaveSteps
      <4>3. status[j] \in {"RUNNING", "PREEMPTED"}
        BY <4>1 DEF Accounted, StartedInProgress, StartedSteps, LeaveSteps
      <4> QED
        BY <2>6, <3>3, <4>2, <4>3 DEF queueVars
    <3> QED
      BY <2>9, <3>1, <3>2, <3>3 DEF Finish
  <2> QED
    BY <1>5, <2>8, <2>9
<1> QED
  BY <1>1, <1>2, <1>3, <1>4, <1>5, <1>6 DEF workerStep

(* The invariant is inductive.                                             *)
LEMMA PlaceNext == PlaceInv /\ [Next]_vars => PlaceInv'
<1> SUFFICES ASSUME PlaceInv, [Next]_vars PROVE PlaceInv'
  OBVIOUS
<1>1. TypeOK'
  BY TypeNext DEF PlaceInv
<1>2. CASE UNCHANGED vars
  <2>1. /\ UNCHANGED <<level, aged, djob, wpc, wjob>>
        /\ UNCHANGED <<status, elapsed_ticks, was_preempted, running>>
    BY <1>2
       DEF vars, jobVars, queueVars, stopVars, agingVars, dispatcherVars,
           workerVars, localVars
  <2>2. OnePlace' /\ Accounted'
    BY <2>1, SamePlaces
       DEF PlaceInv, Accounted, JobsAccounted, LeavesForAReason,
           StartedInProgress
  <2> QED
    BY <1>1, <2>2 DEF PlaceInv
<1>3. CASE Next
  <2>1. OnePlace' /\ Accounted'
    BY <1>3, PlaceGui, PlaceDispatcher, PlaceAging, PlaceWorker
       DEF Next, GuiStep
  <2> QED
    BY <1>1, <2>1 DEF PlaceInv
<1> QED
  BY <1>2, <1>3

(* The inductive invariant holds in every run of the scheduler.            *)
THEOREM PlaceInvariant == Spec => []PlaceInv
  BY PlaceInit, PlaceNext, PTL DEF Spec

(* No job is in two places at once, for any number of jobs and threads.    *)
THEOREM JobInOnePlace == Spec => []OnePlace
<1>1. PlaceInv => OnePlace
  BY DEF PlaceInv
<1> QED
  BY <1>1, PlaceInvariant, PTL

(* No job is dropped, and none that ended is still around.                 *)
THEOREM JobsAreAccounted == Spec => []Accounted
<1>1. PlaceInv => Accounted
  BY DEF PlaceInv
<1> QED
  BY <1>1, PlaceInvariant, PTL

-----------------------------------------------------------------------------
(* Which jobs a step may give a new status: a job a worker owns, a job not *)
(* yet submitted, or a running one.                                        *)
LEMMA StatusChanges ==
  ASSUME PlaceInv, Next, NEW j \in Jobs, status'[j] # status[j]
  PROVE  j \in Owned \/ status[j] \in {"WAITING", "RUNNING"}
<1> USE DEF PlaceInv
<1>1. CASE GuiStep
  BY <1>1
     DEF GuiStep, SubmitJob, pushNew, Stop, StopReturns, jobVars, queueVars,
         TypeOK, QueueTypeOK
<1>2. CASE Dispatcher
  BY <1>2
     DEF Dispatcher, DispatchTop, DispatchTick, DispatchScan, DispatchProbe,
         DispatchCas, DispatchPopEmpty, DispatchPop, DispatchSpawn,
         queueVars, TypeOK, QueueTypeOK
<1>3. CASE Aging
  BY <1>3 DEF Aging, AgingWake, AgingDrain, AgingPush, atAging
<1>4. ASSUME NEW w \in Worker, workerStep(w)
      PROVE  j \in Owned \/ status[j] \in {"WAITING", "RUNNING"}
  <2>1. \A k \in Jobs \ {wjob[w]} : status'[k] = status[k]
    BY <1>4
       DEF workerStep, Acquire, Fail, HintSlot, ClaimSlot, MarkRunning,
           ShowBusy, TestLoop, RunTick, ExpireQuantum, ClearActive, HideBusy, Release,
           Finish, requeuePreempted, jobVars, queueVars, TypeOK, QueueTypeOK
  <2>2. wpc[w] \in OwnerSteps
    BY <1>4
       DEF workerStep, Acquire, Fail, HintSlot, ClaimSlot, MarkRunning,
           ShowBusy, TestLoop, RunTick, ExpireQuantum, ClearActive, HideBusy, Release,
           Finish, leave, go, OwnerSteps, PermitSteps, SlotSteps, LoopSteps
  <2>3. wjob[w] \in Owned
    BY <2>2, OwnedMembers
  <2> QED
    BY <2>1, <2>3
<1> QED
  BY <1>1, <1>2, <1>3, <1>4 DEF Next, GuiStep

(* An ended job stays ended: whatever store or CAS comes late, and however *)
(* many jobs and threads there are, COMPLETED and FAILED are final.        *)
THEOREM EndedForGood == Spec => EndIsFinal
<1>1. PlaceInv /\ [Next]_vars =>
         [\A j \in Jobs : status[j] \in {"COMPLETED", "FAILED"} =>
             status'[j] = status[j]]_vars
  <2> SUFFICES ASSUME PlaceInv, Next, NEW j \in Jobs,
                      status[j] \in {"COMPLETED", "FAILED"}
               PROVE  status'[j] = status[j]
    OBVIOUS
  <2>1. j \notin Owned
    BY DEF PlaceInv, Accounted, JobsAccounted
  <2> QED
    BY <2>1, StatusChanges
<1> QED
  BY <1>1, PlaceInvariant, PTL DEF Spec, EndIsFinal

=============================================================================
