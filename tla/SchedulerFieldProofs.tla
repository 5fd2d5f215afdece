------------------------ MODULE SchedulerFieldProofs ------------------------
(***************************************************************************)
(* What the threads write into the fields of the jobs they hold: the life  *)
(* of a job follows JobLifecycle, a quantum is never overrun, and levels   *)
(* change by one, for a reason.                                            *)
(***************************************************************************)
EXTENDS SchedulerProofs

(* The steps before a worker has started its job.                          *)
EarlySteps == {"wait", "hint", "claim", "mark"}

StartingReady ==
  \A w \in Worker : wpc[w] \in EarlySteps => status[wjob[w]] = "READY"

LeavesPreempted ==
  \A w \in Worker :
     was_preempted[w] => wpc[w] \in LeaveSteps /\ status[wjob[w]] = "PREEMPTED"

WorkLeft ==
  \A w \in Worker :
     wpc[w] = "look" => elapsed_ticks[wjob[w]] < BurstTime[wjob[w]]

WaitingAtTop == \A j \in Jobs : status[j] = "WAITING" => mlfq_level[j] = 0

AgedInFull == \A j \in aged : aging_ticks[j] = AGING_THRESHOLD

(* What a worker knows of its job between its own steps.                   *)
WorkerKnows == StartingReady /\ LeavesPreempted /\ WorkLeft

(* What holds of the jobs that wait.                                       *)
WaitersKnow == QueuedFresh /\ WaitingAtTop /\ AgedInFull

(* The invariant that makes the stores of one thread fit those of the      *)
(* others: it needs PlaceInv, by which no two of them hold the same job.   *)
FieldInv == PlaceInv /\ WorkerKnows /\ WaitersKnow /\ WithinQuantum

-----------------------------------------------------------------------------
(* At first nothing is started, preempted or queued.                       *)
LEMMA FieldInit == Init => FieldInv
<1> SUFFICES ASSUME Init PROVE FieldInv
  OBVIOUS
<1>1. WorkerKnows
  BY DEF Init, WorkerKnows, StartingReady, LeavesPreempted, WorkLeft, EarlySteps
<1>2. WaitersKnow
  BY ConstantFacts
     DEF Init, QueueInit, LifecycleInit, WaitersKnow, QueuedFresh, WaitingAtTop,
         AgedInFull, Held, Queued
<1>3. WithinQuantum
  BY JobAssumption, ConstantFacts DEF Init, QueueInit, WithinQuantum
<1> QED
  BY <1>1, <1>2, <1>3, PlaceInit DEF FieldInv

(* A step of another thread leaves a worker what it knows: the only status *)
(* it may change under the worker is RUNNING, to PREEMPTED.                *)
LEMMA OthersKnow ==
  ASSUME WorkerKnows, UNCHANGED <<wpc, wjob, was_preempted, elapsed_ticks>>,
         \A j \in Owned : \/ status'[j] = status[j]
                          \/ status[j] = "RUNNING" /\ status'[j] = "PREEMPTED"
  PROVE  WorkerKnows'
<1>1. EarlySteps \cup LeaveSteps \subseteq OwnerSteps
  BY DEF EarlySteps, LeaveSteps, OwnerSteps, PermitSteps, SlotSteps
<1>2. StartingReady'
  BY <1>1, OwnedMembers DEF WorkerKnows, StartingReady
<1>3. LeavesPreempted'
  BY <1>1, OwnedMembers DEF WorkerKnows, LeavesPreempted
<1> QED
  BY <1>2, <1>3 DEF WorkerKnows, WorkLeft

(* So does a step of a worker, for the others have other jobs.             *)
LEMMA WorkerKnowsNext ==
  ASSUME WorkerKnows, OneOwner, NEW w \in Worker, wpc[w] \in OwnerSteps,
         \A v \in Worker \ {w} : /\ wpc'[v] = wpc[v] /\ wjob'[v] = wjob[v]
                                 /\ was_preempted'[v] = was_preempted[v],
         \A j \in Owned \ {wjob[w]} : /\ status'[j] = status[j]
                                      /\ elapsed_ticks'[j] = elapsed_ticks[j],
         wpc'[w] \in EarlySteps => status'[wjob'[w]] = "READY",
         was_preempted'[w] =>
            wpc'[w] \in LeaveSteps /\ status'[wjob'[w]] = "PREEMPTED",
         wpc'[w] = "look" => elapsed_ticks'[wjob'[w]] < BurstTime[wjob'[w]]
  PROVE  WorkerKnows'
<1>1. EarlySteps \cup LeaveSteps \cup {"look"} \subseteq OwnerSteps
  BY DEF EarlySteps, LeaveSteps, OwnerSteps, PermitSteps, SlotSteps, LoopSteps
<1>2. \A v \in Worker \ {w} :
         wpc[v] \in OwnerSteps => wjob[v] \in Owned \ {wjob[w]}
  BY OwnedMembers DEF OneOwner
<1>3. StartingReady'
  BY <1>1, <1>2 DEF WorkerKnows, StartingReady
<1>4. LeavesPreempted'
  BY <1>1, <1>2 DEF WorkerKnows, LeavesPreempted
<1>5. WorkLeft'
  BY <1>1, <1>2 DEF WorkerKnows, WorkLeft
<1> QED
  BY <1>3, <1>4, <1>5 DEF WorkerKnows

(* A step that moves no waiting job and leaves its fields alone.           *)
LEMMA SameWaiters ==
  ASSUME TypeOK, WaitersKnow, UNCHANGED <<level, aged, djob, alvl, mlfq_level>>,
         \A j \in Held : /\ status'[j] = status[j]
                         /\ ticks_this_slice'[j] = ticks_this_slice[j],
         \A j \in aged : aging_ticks'[j] = aging_ticks[j],
         \A j \in Jobs : status'[j] = "WAITING" => status[j] = "WAITING"
  PROVE  WaitersKnow'
<1>1. Held' = Held
  BY SameQueued DEF Held
<1>2. QueuedFresh'
  BY <1>1 DEF WaitersKnow, QueuedFresh
<1> QED
  BY <1>2 DEF WaitersKnow, WaitingAtTop, AgedInFull

(* A job that was not waiting enters a level.                              *)
LEMMA EnterWaiters ==
  ASSUME TypeOK, WaitersKnow, NEW l \in Levels, NEW j \in Jobs, j \notin Held,
         enterLevel(l, j), status' = [status EXCEPT ![j] = "READY"],
         UNCHANGED <<aged, djob, alvl>>
  PROVE  WaitersKnow'
<1>1. /\ mlfq_level'[j] = l /\ ticks_this_slice'[j] = 0 /\ status'[j] = "READY"
      /\ \A k \in Jobs \ {j} : /\ mlfq_level'[k] = mlfq_level[k]
                               /\ ticks_this_slice'[k] = ticks_this_slice[k]
                               /\ aging_ticks'[k] = aging_ticks[k]
                               /\ status'[k] = status[k]
      /\ level'[l] = level[l] \cup {j}
      /\ \A m \in Levels \ {l} : level'[m] = level[m]
  BY DEF enterLevel, push, TypeOK, QueueTypeOK
<1>2. /\ \A m \in Levels : level[m] \subseteq Jobs \ {j}
      /\ aged \subseteq Jobs \ {j}
      /\ djob # j
  BY ConstantFacts, QueuedMembers
     DEF Held, TypeOK, QueueTypeOK, AgingTypeOK, DispatcherTypeOK
<1>3. \A k \in Held' : k = j \/ (k \in Held /\ k # j)
  BY <1>1, <1>2, QueuedMembers DEF Held, Queued
<1>4. Held \subseteq Jobs
  BY QueuedMembers DEF Held, TypeOK, QueueTypeOK, AgingTypeOK, DispatcherTypeOK
<1>5. \A k \in Held' : status'[k] = "READY" /\ ticks_this_slice'[k] = 0
  BY <1>1, <1>3, <1>4 DEF WaitersKnow, QueuedFresh
<1>6. \A m \in Levels : \A k \in level'[m] : mlfq_level'[k] = m
  BY <1>1, <1>2 DEF WaitersKnow, QueuedFresh
<1>7. \A k \in aged : mlfq_level'[k] = alvl /\ aging_ticks'[k] = AGING_THRESHOLD
  BY <1>1, <1>2 DEF WaitersKnow, QueuedFresh, AgedInFull
<1>8. WaitingAtTop'
  BY <1>1 DEF WaitersKnow, WaitingAtTop
<1> QED
  BY <1>5, <1>6, <1>7, <1>8 DEF WaitersKnow, QueuedFresh, AgedInFull

(* A job that enters a level starts a new slice.                           *)
LEMMA EnterQuantum ==
  ASSUME TypeOK, WithinQuantum, NEW l \in Levels, NEW j \in Jobs,
         enterLevel(l, j), UNCHANGED elapsed_ticks
  PROVE  WithinQuantum'
<1>1. /\ mlfq_level'[j] = l /\ ticks_this_slice'[j] = 0
      /\ \A k \in Jobs \ {j} : /\ mlfq_level'[k] = mlfq_level[k]
                               /\ ticks_this_slice'[k] = ticks_this_slice[k]
  BY DEF enterLevel, TypeOK, QueueTypeOK
<1>2. MLFQ_QUANTUM[l] \in Nat
  BY JobAssumption
<1> QED
  BY <1>1, <1>2 DEF WithinQuantum

-----------------------------------------------------------------------------
(* The steps of the three threads that are not workers.                    *)

(* submitJob makes a job that is nowhere READY and puts it into level 0.   *)
LEMMA FieldGui ==
  ASSUME FieldInv, GuiStep
  PROVE  WorkerKnows' /\ WaitersKnow' /\ WithinQuantum'
<1> USE DEF FieldInv, PlaceInv
<1>1. ASSUME NEW j \in Jobs, SubmitJob(j)
      PROVE  WorkerKnows' /\ WaitersKnow' /\ WithinQuantum'
  <2>1. /\ j \notin Held \cup Owned /\ enterLevel(0, j)
        /\ status' = [status EXCEPT ![j] = "READY"]
        /\ UNCHANGED <<aged, djob, alvl, elapsed_ticks>>
        /\ UNCHANGED <<wpc, wjob, was_preempted>>
    BY <1>1
       DEF SubmitJob, pushNew, guiFrame, workerVars, localVars, agingVars,
           dispatcherVars, Accounted, JobsAccounted
  <2>2. \A k \in Owned : status'[k] = status[k]
    BY <2>1 DEF TypeOK, QueueTypeOK
  <2> QED
    BY <2>1, <2>2, ConstantFacts, OthersKnow, EnterWaiters, EnterQuantum
<1>2. ASSUME Stop \/ StopReturns
      PROVE  WorkerKnows' /\ WaitersKnow' /\ WithinQuantum'
  <2>1. /\ UNCHANGED <<level, aged, djob, alvl, mlfq_level, status>>
        /\ UNCHANGED <<elapsed_ticks, ticks_this_slice, aging_ticks>>
        /\ UNCHANGED <<wpc, wjob, was_preempted>>
    BY <1>2
       DEF Stop, StopReturns, guiFrame, jobVars, queueVars, agingVars,
           dispatcherVars, workerVars, localVars
  <2> QED
    BY <2>1, OthersKnow, SameWaiters DEF WithinQuantum
<1> QED
  BY <1>1, <1>2 DEF GuiStep

(* The CAS turns a RUNNING job PREEMPTED, which the waiting ones are not   *)
(* and a worker allows for; a job handed out to a worker is READY.         *)
LEMMA FieldDispatcher ==
  ASSUME FieldInv, Dispatcher
  PROVE  WorkerKnows' /\ WaitersKnow' /\ WithinQuantum'
<1> USE DEF FieldInv, PlaceInv
<1>1. ASSUME DispatchTop \/ DispatchScan \/ DispatchProbe \/ DispatchPopEmpty
             \/ DispatchTick
      PROVE  WorkerKnows' /\ WaitersKnow' /\ WithinQuantum'
  <2>1. /\ UNCHANGED <<level, aged, djob, alvl, mlfq_level, status>>
        /\ UNCHANGED <<elapsed_ticks, ticks_this_slice>>
        /\ UNCHANGED <<wpc, wjob, was_preempted>>
    BY <1>1
       DEF DispatchTop, DispatchTick, DispatchScan, DispatchProbe,
           DispatchPopEmpty, atDispatch, queueVars, agingVars, workerVars,
           localVars
  <2>2. \A j \in aged : aging_ticks'[j] = aging_ticks[j]
    <3>1. CASE DispatchTick
      <4>1. \A j \in aged : j \in Jobs /\ aging_ticks[j] = AGING_THRESHOLD
        BY DEF WaitersKnow, AgedInFull, TypeOK, AgingTypeOK
      <4> QED
        BY <3>1, <4>1, ConstantFacts DEF DispatchTick, tickLevel
    <3>2. CASE ~ DispatchTick
      BY <1>1, <3>2
         DEF DispatchTop, DispatchScan, DispatchProbe, DispatchPopEmpty,
             queueVars
    <3> QED
      BY <3>1, <3>2
  <2> QED
    BY <2>1, <2>2, OthersKnow, SameWaiters DEF WithinQuantum
<1>2. CASE DispatchCas
  <2>1. /\ UNCHANGED <<level, aged, djob, alvl, mlfq_level>>
        /\ UNCHANGED <<elapsed_ticks, ticks_this_slice, aging_ticks>>
        /\ UNCHANGED <<wpc, wjob, was_preempted>>
    BY <1>2
       DEF DispatchCas, atDispatch, fieldVars, agingVars, workerVars, localVars
  <2>2. \A j \in Jobs : \/ status'[j] = status[j]
                        \/ status[j] = "RUNNING" /\ status'[j] = "PREEMPTED"
    BY <1>2 DEF DispatchCas, TypeOK, QueueTypeOK
  <2>3. Owned \subseteq Jobs /\ Held \subseteq Jobs
    BY OwnedInJobs, QueuedMembers
       DEF Held, TypeOK, QueueTypeOK, AgingTypeOK, DispatcherTypeOK
  <2>4. \A j \in Held : status'[j] = status[j]
    BY <2>2, <2>3 DEF WaitersKnow, QueuedFresh
  <2>5. WorkerKnows'
    BY <2>1, <2>2, <2>3, OthersKnow
  <2>6. WaitersKnow'
    BY <2>1, <2>2, <2>4, SameWaiters
  <2> QED
    BY <2>1, <2>5, <2>6 DEF WithinQuantum
<1>3. CASE DispatchPop
  <2>1. PICK j \in level[didx] : popFirst(didx, j) /\ djob' = j
    BY <1>3 DEF DispatchPop
  <2>2. /\ UNCHANGED <<aged, alvl, mlfq_level, ticks_this_slice, aging_ticks>>
        /\ UNCHANGED <<status, elapsed_ticks, wpc, wjob, was_preempted>>
        /\ didx \in Levels
    BY <1>3
       DEF DispatchPop, atDispatch, fieldVars, agingVars, workerVars, localVars,
           TypeOK, DispatcherTypeOK
  <2>3. \A l \in Levels : level'[l] \subseteq level[l]
    BY <2>1 DEF popFirst, TypeOK, QueueTypeOK
  <2>4. Held' \subseteq Held
    BY <2>1, <2>2, <2>3, QueuedMembers DEF Held, Queued
  <2>5. WaitersKnow'
    BY <2>2, <2>3, <2>4 DEF WaitersKnow, QueuedFresh, WaitingAtTop, AgedInFull
  <2> QED
    BY <2>2, <2>5, OthersKnow DEF WithinQuantum
<1>4. ASSUME NEW w \in Worker, DispatchSpawn(w)
      PROVE  WorkerKnows' /\ WaitersKnow' /\ WithinQuantum'
  <2>1. /\ UNCHANGED <<level, aged, alvl, mlfq_level, ticks_this_slice>>
        /\ UNCHANGED <<status, elapsed_ticks, aging_ticks, was_preempted>>
        /\ djob' = NoJob /\ djob # NoJob
        /\ wpc[w] = "off" /\ wpc'[w] = "wait" /\ wjob'[w] = djob
        /\ \A v \in Worker \ {w} : wpc'[v] = wpc[v] /\ wjob'[v] = wjob[v]
    BY <1>4
       DEF DispatchSpawn, atDispatch, queueVars, agingVars, TypeOK,
           DispatcherTypeOK, WorkerTypeOK
  <2>2. Held' \subseteq Held /\ djob \in Held
    BY <2>1 DEF Held, Queued
  <2>3. WaitersKnow'
    BY <2>1, <2>2 DEF WaitersKnow, QueuedFresh, WaitingAtTop, AgedInFull
  <2>4. status[djob] = "READY"
    BY <2>2 DEF WaitersKnow, QueuedFresh
  <2>5. ~ was_preempted[w]
    BY <2>1 DEF WorkerKnows, LeavesPreempted, LeaveSteps
  <2>6. WorkerKnows'
    BY <2>1, <2>4, <2>5
       DEF WorkerKnows, StartingReady, LeavesPreempted, WorkLeft, EarlySteps
  <2> QED
    BY <2>1, <2>3, <2>6 DEF WithinQuantum
<1> QED
  BY <1>1, <1>2, <1>3, <1>4 DEF Dispatcher

(* A promoted job starts a new slice one level up.                         *)
LEMMA FieldAging ==
  ASSUME FieldInv, Aging
  PROVE  WorkerKnows' /\ WaitersKnow' /\ WithinQuantum'
<1> USE DEF FieldInv, PlaceInv
<1>1. CASE AgingWake
  <2>1. /\ UNCHANGED <<level, aged, djob, mlfq_level, ticks_this_slice>>
        /\ UNCHANGED <<status, elapsed_ticks, aging_ticks>>
        /\ UNCHANGED <<wpc, wjob, was_preempted>>
        /\ aged = {}
    BY <1>1
       DEF AgingWake, atAging, fieldVars, dispatcherVars, workerVars, localVars,
           TypeOK, AgingTypeOK
  <2>2. Held' = Held
    BY <2>1 DEF Held, Queued
  <2> QED
    BY <2>1, <2>2, OthersKnow
       DEF WithinQuantum, WaitersKnow, QueuedFresh, WaitingAtTop, AgedInFull
<1>2. CASE AgingDrain
  <2>1. PICK A \in SUBSET agedIn(alvl) : drainAged(alvl, A) /\ aged' = A
    BY <1>2 DEF AgingDrain
  <2>2. /\ UNCHANGED <<djob, mlfq_level, ticks_this_slice, aging_ticks>>
        /\ UNCHANGED <<status, elapsed_ticks, wpc, wjob, was_preempted>>
        /\ alvl \in Levels
        /\ aged' # {} => UNCHANGED alvl
    BY <1>2
       DEF AgingDrain, atAging, fieldVars, dispatcherVars, workerVars, localVars,
           TypeOK, AgingTypeOK
  <2>3. /\ \A l \in Levels : level'[l] \subseteq level[l]
        /\ A \subseteq level[alvl]
    BY <2>1 DEF drainAged, agedIn, TypeOK, QueueTypeOK
  <2>4. Held' \subseteq Held
    BY <2>1, <2>2, <2>3, QueuedMembers DEF Held, Queued
  <2>5. \A j \in A : mlfq_level[j] = alvl /\ aging_ticks[j] = AGING_THRESHOLD
    <3>1. \A j \in A : /\ aging_ticks[j] \in 0 .. AGING_THRESHOLD
                       /\ aging_ticks[j] >= AGING_THRESHOLD
      BY <2>1, <2>2 DEF agedIn, TypeOK, QueueTypeOK
    <3> QED
      BY <2>2, <2>3, <3>1, ConstantFacts DEF WaitersKnow, QueuedFresh
  <2>6. WaitersKnow'
    BY <2>1, <2>2, <2>3, <2>4, <2>5
       DEF WaitersKnow, QueuedFresh, WaitingAtTop, AgedInFull
  <2> QED
    BY <2>2, <2>6, OthersKnow DEF WithinQuantum
<1>3. CASE AgingPush
  <2>1. PICK j \in aged : promote(alvl, j) /\ aged' = aged \ {j}
    BY <1>3 DEF AgingPush
  <2> DEFINE l == alvl - 1
  <2>2. /\ l \in Levels /\ j \in Jobs /\ enterLevel(l, j)
        /\ UNCHANGED <<djob, status, elapsed_ticks, wpc, wjob, was_preempted>>
        /\ aged' # {} => UNCHANGED alvl
    BY <1>3, <2>1, ConstantFacts
       DEF AgingPush, atAging, promote, dispatcherVars, workerVars, localVars,
           TypeOK, AgingTypeOK
  <2> HIDE DEF l
  <2>3. /\ mlfq_level'[j] = l /\ ticks_this_slice'[j] = 0
        /\ \A k \in Jobs \ {j} : /\ mlfq_level'[k] = mlfq_level[k]
                                 /\ ticks_this_slice'[k] = ticks_this_slice[k]
                                 /\ aging_ticks'[k] = aging_ticks[k]
        /\ level'[l] = level[l] \cup {j}
        /\ \A m \in Levels \ {l} : level'[m] = level[m]
    BY <2>2 DEF enterLevel, push, TypeOK, QueueTypeOK
  <2>4. /\ \A m \in Levels : level[m] \subseteq Jobs \ {j}
        /\ aged' \subseteq Jobs \ {j} /\ aged' \subseteq aged
        /\ j \in Held /\ Held \subseteq Jobs
    BY <2>1, QueuedMembers, OnePlaceParts
       DEF Held, TypeOK, QueueTypeOK, AgingTypeOK, DispatcherTypeOK
  <2>5. Held' \subseteq Held
    BY <2>2, <2>3, <2>4, QueuedMembers DEF Held, Queued
  <2>6. \A k \in Held' : status[k] = "READY" /\ ticks_this_slice'[k] = 0
    BY <2>3, <2>4, <2>5 DEF WaitersKnow, QueuedFresh
  <2>7. \A m \in Levels : \A k \in level'[m] : mlfq_level'[k] = m
    BY <2>3, <2>4 DEF WaitersKnow, QueuedFresh
  <2>8. \A k \in aged' : mlfq_level'[k] = alvl' /\ aging_ticks'[k] = AGING_THRESHOLD
    BY <2>2, <2>3, <2>4 DEF WaitersKnow, QueuedFresh, AgedInFull
  <2>9. WaitingAtTop'
    BY <2>2, <2>3, <2>4 DEF WaitersKnow, QueuedFresh, WaitingAtTop
  <2>10. WaitersKnow'
    BY <2>2, <2>6, <2>7, <2>8, <2>9 DEF WaitersKnow, QueuedFresh, AgedInFull
  <2> QED
    BY <2>2, <2>10, OthersKnow, EnterQuantum
<1> QED
  BY <1>1, <1>2, <1>3 DEF Aging

(* A worker's steps.  It is the one to know that its job has work left,    *)
(* quantum left, or was preempted, and other threads do not disturb that.  *)
LEMMA FieldWorker ==
  ASSUME FieldInv, NEW w \in Worker, workerStep(w)
  PROVE  WorkerKnows' /\ WaitersKnow' /\ WithinQuantum'
<1> USE DEF FieldInv, PlaceInv
<1> DEFINE j == wjob[w]
<1>a. /\ EarlySteps = {"wait", "hint", "claim", "mark"}
      /\ LeaveSteps = {"clear", "hide", "release", "finish"}
      /\ {"wait", "hint", "claim", "mark", "show", "loop", "look", "expire",
          "clear", "hide", "release", "finish"} \subseteq OwnerSteps
  BY DEF EarlySteps, LeaveSteps, OwnerSteps, PermitSteps, SlotSteps, LoopSteps
<1>b. /\ wpc[w] \in OwnerSteps
      /\ \A v \in Worker \ {w} : wpc'[v] = wpc[v]
      /\ UNCHANGED <<aged, djob, alvl>>
  BY <1>a
     DEF workerStep, Acquire, Fail, HintSlot, ClaimSlot, MarkRunning, ShowBusy,
         TestLoop, RunTick, ExpireQuantum, ClearActive, HideBusy, Release,
         Finish, leave, go, agingVars, dispatcherVars, TypeOK, WorkerTypeOK
<1>c. j \in Jobs /\ j \in Owned /\ j \notin Held /\ OneOwner
  BY <1>b, OwnedMembers, OnePlaceParts
     DEF TypeOK, WorkerTypeOK, OwnerSteps, PermitSteps, SlotSteps, LoopSteps
<1>d. Owned \subseteq Jobs /\ Held \subseteq Jobs /\ aged \subseteq Held
  BY OwnedInJobs, QueuedMembers
     DEF Held, TypeOK, QueueTypeOK, AgingTypeOK, DispatcherTypeOK
<1> HIDE DEF j
<1>1. ASSUME Acquire(w) \/ HintSlot(w) \/ ClaimSlot(w) \/ ShowBusy(w)
             \/ ClearActive(w) \/ HideBusy(w) \/ Release(w)
      PROVE  WorkerKnows' /\ WaitersKnow' /\ WithinQuantum'
  <2>1. /\ UNCHANGED <<level, status, mlfq_level, ticks_this_slice, aging_ticks>>
        /\ UNCHANGED <<elapsed_ticks, wjob, was_preempted>>
    BY <1>1
       DEF Acquire, HintSlot, ClaimSlot, ShowBusy, ClearActive, HideBusy,
           Release, jobVars, queueVars, localVars
  <2>2. /\ wpc'[w] \in EarlySteps => wpc[w] \in EarlySteps
        /\ wpc[w] \in LeaveSteps => wpc'[w] \in LeaveSteps
        /\ wpc'[w] # "look"
    BY <1>1, <1>a
       DEF Acquire, HintSlot, ClaimSlot, ShowBusy, ClearActive, HideBusy,
           Release, go, TypeOK, WorkerTypeOK
  <2>3. WorkerKnows'
    BY <1>b, <1>c, <2>1, <2>2, WorkerKnowsNext
       DEF WorkerKnows, StartingReady, LeavesPreempted
  <2>4. WaitersKnow'
    BY <1>b, <2>1, SameWaiters
  <2> QED
    BY <2>1, <2>3, <2>4 DEF WithinQuantum
<1>2. CASE MarkRunning(w)
  <2>1. /\ UNCHANGED <<level, mlfq_level, ticks_this_slice, aging_ticks>>
        /\ UNCHANGED <<elapsed_ticks, wjob, was_preempted>>
        /\ status' = [status EXCEPT ![j] = "RUNNING"]
        /\ wpc[w] = "mark" /\ wpc'[w] = "show"
    BY <1>2 DEF MarkRunning, go, fieldVars, localVars, TypeOK, WorkerTypeOK, j
  <2>2. \A k \in Jobs \ {j} : status'[k] = status[k]
    BY <2>1 DEF TypeOK, QueueTypeOK
  <2>3. ~ was_preempted[w]
    BY <1>a, <2>1 DEF WorkerKnows, LeavesPreempted
  <2>4. WorkerKnows'
    BY <1>a, <1>b, <1>c, <1>d, <2>1, <2>2, <2>3, WorkerKnowsNext DEF j
  <2>5. WaitersKnow'
    BY <1>b, <1>c, <1>d, <2>1, <2>2, SameWaiters DEF TypeOK, QueueTypeOK
  <2> QED
    BY <2>1, <2>4, <2>5 DEF WithinQuantum
<1>3. CASE TestLoop(w)
  <2>1. /\ UNCHANGED <<level, status, mlfq_level, ticks_this_slice, aging_ticks>>
        /\ UNCHANGED <<elapsed_ticks, wjob, was_preempted>>
        /\ wpc[w] = "loop" /\ wpc'[w] \in {"clear", "look"}
        /\ wpc'[w] = "look" => ~ (elapsed_ticks[j] >= BurstTime[j])
    BY <1>3
       DEF TestLoop, go, jobVars, queueVars, localVars, TypeOK, WorkerTypeOK, j
  <2>2. elapsed_ticks[j] \in Nat /\ BurstTime[j] \in Nat
    BY <1>c, JobAssumption DEF TypeOK, ThreadTypeOK
  <2>3. ~ was_preempted[w]
    BY <1>a, <2>1 DEF WorkerKnows, LeavesPreempted
  <2>a. wpc'[w] = "look" => elapsed_ticks[j] < BurstTime[j]
    BY <2>1, <2>2
  <2>4. WorkerKnows'
    BY <1>a, <1>b, <1>c, <2>1, <2>3, <2>a, WorkerKnowsNext DEF j
  <2>5. WaitersKnow'
    BY <1>b, <2>1, SameWaiters
  <2> QED
    BY <2>1, <2>4, <2>5 DEF WithinQuantum
<1>4. CASE ExpireQuantum(w)
  <2>1. /\ UNCHANGED <<level, mlfq_level, ticks_this_slice, aging_ticks>>
        /\ UNCHANGED <<elapsed_ticks, wjob>>
        /\ status' = [status EXCEPT ![j] = "PREEMPTED"]
        /\ wpc'[w] = "clear"
        /\ \A v \in Worker \ {w} : was_preempted'[v] = was_preempted[v]
    BY <1>4 DEF ExpireQuantum, go, fieldVars, TypeOK, WorkerTypeOK, j
  <2>2. /\ \A k \in Jobs \ {j} : status'[k] = status[k]
        /\ status'[j] = "PREEMPTED"
    BY <1>c, <2>1 DEF TypeOK, QueueTypeOK
  <2>3. WorkerKnows'
    BY <1>a, <1>b, <1>c, <1>d, <2>1, <2>2, WorkerKnowsNext DEF j
  <2>4. WaitersKnow'
    BY <1>b, <1>c, <1>d, <2>1, <2>2, SameWaiters
  <2> QED
    BY <2>1, <2>3, <2>4 DEF WithinQuantum
<1>5. CASE RunTick(w)
  <2> DEFINE preempted == status[j] = "PREEMPTED"
             expired == quantumExpired(mlfq_level[j], ticks_this_slice[j])
  <2>1. /\ UNCHANGED <<level, status, mlfq_level, aging_ticks, wjob>>
        /\ wpc[w] = "look" /\ wpc'[w] \in {"clear", "expire", "loop"}
        /\ preempted <=> wpc'[w] = "clear"
        /\ was_preempted'[w] = preempted
        /\ \A v \in Worker \ {w} : was_preempted'[v] = was_preempted[v]
    BY <1>5 DEF RunTick, go, TypeOK, WorkerTypeOK, j
  <2>2. \/ UNCHANGED <<elapsed_ticks, ticks_this_slice>>
        \/ /\ elapsed_ticks' = [elapsed_ticks EXCEPT ![j] = @ + 1]
           /\ ticks_this_slice' = [ticks_this_slice EXCEPT ![j] = @ + 1]
           /\ ~ expired
    BY <1>5 DEF RunTick, j
  <2>3. \A k \in Jobs \ {j} : /\ elapsed_ticks'[k] = elapsed_ticks[k]
                             /\ ticks_this_slice'[k] = ticks_this_slice[k]
    BY <2>2 DEF TypeOK, ThreadTypeOK, QueueTypeOK
  <2>4. WorkerKnows'
    BY <1>a, <1>b, <1>c, <1>d, <2>1, <2>3, WorkerKnowsNext DEF j
  <2>5. WaitersKnow'
    BY <1>b, <1>c, <1>d, <2>1, <2>3, SameWaiters
  <2>6. WithinQuantum'
    <3>1. CASE UNCHANGED <<elapsed_ticks, ticks_this_slice>>
      BY <2>1, <3>1 DEF WithinQuantum
    <3>2. CASE /\ elapsed_ticks' = [elapsed_ticks EXCEPT ![j] = @ + 1]
               /\ ticks_this_slice' = [ticks_this_slice EXCEPT ![j] = @ + 1]
               /\ ~ expired
      <4>1. /\ elapsed_ticks'[j] = elapsed_ticks[j] + 1
            /\ ticks_this_slice'[j] = ticks_this_slice[j] + 1
        BY <1>c, <3>2 DEF TypeOK, ThreadTypeOK, QueueTypeOK
      <4>2. /\ mlfq_level[j] \in Levels
            /\ elapsed_ticks[j] \in Nat /\ ticks_this_slice[j] \in Nat
            /\ BurstTime[j] \in Nat /\ MLFQ_QUANTUM[mlfq_level[j]] \in Nat
        BY <1>c, JobAssumption DEF TypeOK, ThreadTypeOK, QueueTypeOK
      <4>3. elapsed_ticks[j] < BurstTime[j]
        BY <2>1 DEF WorkerKnows, WorkLeft, j
      <4>4. ticks_this_slice[j] < MLFQ_QUANTUM[mlfq_level[j]]
        BY <3>2, <4>2 DEF quantumExpired
      <4> QED
        BY <2>1, <2>3, <4>1, <4>2, <4>3, <4>4 DEF WithinQuantum
    <3> QED
      BY <2>2, <3>1, <3>2
  <2> QED
    BY <2>4, <2>5, <2>6
<1>6. ASSUME Fail(w) \/ Finish(w)
      PROVE  WorkerKnows' /\ WaitersKnow' /\ WithinQuantum'
  <2>1. /\ wpc'[w] = "off" /\ was_preempted'[w] = FALSE
        /\ \A v \in Worker \ {w} : /\ wjob'[v] = wjob[v]
                                   /\ was_preempted'[v] = was_preempted[v]
        /\ UNCHANGED elapsed_ticks
    BY <1>6 DEF Fail, Finish, leave, go, TypeOK, WorkerTypeOK
  <2>2. ASSUME \A k \in Jobs \ {j} : status'[k] = status[k]
        PROVE  WorkerKnows'
    BY <1>a, <1>b, <1>c, <1>d, <2>1, <2>2, WorkerKnowsNext DEF j
  <2>3. ASSUME UNCHANGED <<level, mlfq_level, ticks_this_slice, aging_ticks>>,
               \A k \in Jobs \ {j} : status'[k] = status[k],
               status'[j] # "WAITING"
        PROVE  WorkerKnows' /\ WaitersKnow' /\ WithinQuantum'
    <3>1. WaitersKnow'
      BY <1>b, <1>c, <1>d, <2>3, SameWaiters
    <3> QED
      BY <2>1, <2>2, <2>3, <3>1 DEF WithinQuantum
  <2>4. CASE Fail(w)
    <3>1. /\ UNCHANGED <<level, mlfq_level, ticks_this_slice, aging_ticks>>
          /\ status' = [status EXCEPT ![j] = "FAILED"]
      BY <2>4 DEF Fail, fieldVars, j
    <3> QED
      BY <1>c, <2>3, <3>1 DEF TypeOK, QueueTypeOK
  <2>5. CASE Finish(w)
    <3> DEFINE d == quantumExpired(mlfq_level[j], ticks_this_slice[j])
    <3>0. status[j] \in {"RUNNING", "PREEMPTED"}
      BY <2>5
         DEF Finish, leave, go, Accounted, StartedInProgress, StartedSteps,
             LeaveSteps, j
    <3>1. CASE /\ status' = [status EXCEPT ![j] = "COMPLETED"]
               /\ UNCHANGED <<level, fieldVars>>
      BY <1>c, <2>3, <3>1 DEF TypeOK, QueueTypeOK, fieldVars
    <3>2. CASE requeuePreempted(j, d)
      <4>1. d \in BOOLEAN
        BY DEF quantumExpired
      <4> HIDE DEF d
      <4>2. PICK l \in Levels :
               enterLevel(l, j) /\ status' = [status EXCEPT ![j] = "READY"]
        BY <1>c, <3>2, <4>1, DemotedLevelType DEF requeuePreempted, TypeOK
      <4>3. WorkerKnows'
        BY <2>2, <4>2 DEF TypeOK, QueueTypeOK
      <4>4. WaitersKnow'
        BY <1>b, <1>c, <4>2, EnterWaiters
      <4> QED
        BY <1>c, <2>1, <4>2, <4>3, <4>4, EnterQuantum
    <3>3. CASE UNCHANGED queueVars
      BY <2>3, <3>0, <3>3 DEF queueVars
    <3> QED
      BY <2>5, <3>1, <3>2, <3>3 DEF Finish, j
  <2> QED
    BY <1>6, <2>4, <2>5
<1> QED
  BY <1>1, <1>2, <1>3, <1>4, <1>5, <1>6 DEF workerStep

(* The invariant is inductive.                                             *)
LEMMA FieldNext == FieldInv /\ [Next]_vars => FieldInv'
<1> SUFFICES ASSUME FieldInv, [Next]_vars PROVE FieldInv'
  OBVIOUS
<1>1. PlaceInv'
  BY PlaceNext DEF FieldInv
<1>2. CASE UNCHANGED vars
  <2>1. /\ UNCHANGED <<level, aged, djob, alvl, mlfq_level, status>>
        /\ UNCHANGED <<elapsed_ticks, ticks_this_slice, aging_ticks>>
        /\ UNCHANGED <<wpc, wjob, was_preempted>>
    BY <1>2
       DEF vars, jobVars, queueVars, agingVars, dispatcherVars, workerVars,
           localVars
  <2>2. WorkerKnows' /\ WaitersKnow'
    BY <2>1, OthersKnow, SameWaiters DEF FieldInv, PlaceInv
  <2> QED
    BY <1>1, <2>1, <2>2 DEF FieldInv, WithinQuantum
<1>3. CASE Next
  <2>1. WorkerKnows' /\ WaitersKnow' /\ WithinQuantum'
    BY <1>3, FieldGui, FieldDispatcher, FieldAging, FieldWorker
       DEF Next, GuiStep
  <2> QED
    BY <1>1, <2>1 DEF FieldInv
<1> QED
  BY <1>2, <1>3

(* The inductive invariant holds in every run of the scheduler.            *)
THEOREM FieldInvariant == Spec => []FieldInv
  BY FieldInit, FieldNext, PTL DEF Spec

(* A queued job is READY, in the list of its own level, with the whole     *)
(* quantum ahead of it, for any number of jobs, threads and levels.        *)
THEOREM QueuedAreFresh == Spec => []QueuedFresh
<1>1. FieldInv => QueuedFresh
  BY DEF FieldInv, WaitersKnow
<1> QED
  BY <1>1, FieldInvariant, PTL

(* No slice overruns the quantum of its level and no job its burst.        *)
THEOREM QuantumIsKept == Spec => []WithinQuantum
<1>1. FieldInv => WithinQuantum
  BY DEF FieldInv
<1> QED
  BY <1>1, FieldInvariant, PTL

-----------------------------------------------------------------------------
(* A store of one job's status that the life of a job allows.              *)
LEMMA BecomeStep ==
  ASSUME TypeOK, NEW j \in Jobs, NEW t \in JobStatus,
         status' = [status EXCEPT ![j] = t], MayBecome(status[j], t)
  PROVE  LifecycleNext
BY DEF LifecycleNext, become

(* Every step of the scheduler leaves the statuses alone or changes one of *)
(* them as the life of a job allows: the refinement of JobLifecycle.       *)
LEMMA LifecycleStep ==
  ASSUME FieldInv, Next
  PROVE  LifecycleNext \/ UNCHANGED status
<1> USE DEF FieldInv, PlaceInv
<1>0. JobStatus =
        {"WAITING", "READY", "RUNNING", "PREEMPTED", "COMPLETED", "FAILED"}
  BY DEF JobStatus
<1>1. CASE GuiStep
  <2>1. ASSUME NEW j \in Jobs, SubmitJob(j) PROVE LifecycleNext
    BY <1>0, <2>1, BecomeStep DEF SubmitJob, pushNew, MayBecome
  <2> QED
    BY <1>1, <2>1 DEF GuiStep, Stop, StopReturns, jobVars, queueVars
<1>2. CASE Dispatcher
  <2>1. CASE DispatchCas /\ status[active[didx]] = "RUNNING"
    <3>1. /\ active[didx] \in Jobs
          /\ status' = [status EXCEPT ![active[didx]] = "PREEMPTED"]
      BY <2>1
         DEF DispatchCas, atDispatch, TypeOK, ThreadTypeOK, DispatcherTypeOK
    <3> QED
      BY <1>0, <2>1, <3>1, BecomeStep DEF MayBecome
  <2>2. CASE ~ (DispatchCas /\ status[active[didx]] = "RUNNING")
    BY <1>2, <2>2
       DEF Dispatcher, DispatchTop, DispatchTick, DispatchScan, DispatchProbe,
           DispatchCas, DispatchPopEmpty, DispatchPop, DispatchSpawn, queueVars
  <2> QED
    BY <2>1, <2>2
<1>3. CASE Aging
  BY <1>3 DEF Aging, AgingWake, AgingDrain, AgingPush, atAging
<1>4. ASSUME NEW w \in Worker, workerStep(w)
      PROVE  LifecycleNext \/ UNCHANGED status
  <2> DEFINE j == wjob[w]
  <2>1. wpc[w] # "off" => j \in Jobs
    BY DEF TypeOK, WorkerTypeOK
  <2> HIDE DEF j
  <2>2. CASE Fail(w) \/ MarkRunning(w)
    <3>1. /\ j \in Jobs /\ status[j] = "READY"
          /\ \/ status' = [status EXCEPT ![j] = "FAILED"]
             \/ status' = [status EXCEPT ![j] = "RUNNING"]
      BY <2>1, <2>2
         DEF Fail, MarkRunning, leave, go, WorkerKnows, StartingReady,
             EarlySteps, j
    <3> QED
      BY <1>0, <3>1, BecomeStep DEF MayBecome
  <2>3. CASE ExpireQuantum(w)
    <3>1. /\ j \in Jobs /\ status[j] \in {"RUNNING", "PREEMPTED"}
          /\ status' = [status EXCEPT ![j] = "PREEMPTED"]
      BY <2>1, <2>3
         DEF ExpireQuantum, go, Accounted, StartedInProgress, StartedSteps,
             LoopSteps, j
    <3>2. CASE status[j] = "RUNNING"
      BY <1>0, <3>1, <3>2, BecomeStep DEF MayBecome
    <3>3. CASE status[j] = "PREEMPTED"
      BY <3>1, <3>3 DEF TypeOK, QueueTypeOK
    <3> QED
      BY <3>1, <3>2, <3>3
  <2>4. CASE Finish(w)
    <3>1. j \in Jobs /\ status[j] \in {"RUNNING", "PREEMPTED"}
      BY <2>1, <2>4
         DEF Finish, leave, go, Accounted, StartedInProgress, StartedSteps,
             LeaveSteps, j
    <3>2. CASE status' = [status EXCEPT ![j] = "COMPLETED"]
      BY <1>0, <3>1, <3>2, BecomeStep DEF MayBecome
    <3>3. CASE was_preempted[w] /\ status' = [status EXCEPT ![j] = "READY"]
      <4>1. status[j] = "PREEMPTED"
        BY <3>3 DEF WorkerKnows, LeavesPreempted, j
      <4> QED
        BY <1>0, <3>1, <3>3, <4>1, BecomeStep DEF MayBecome
    <3> QED
      BY <2>4, <3>2, <3>3 DEF Finish, requeuePreempted, queueVars, j
  <2> QED
    BY <1>4, <2>2, <2>3, <2>4
       DEF workerStep, Acquire, HintSlot, ClaimSlot, ShowBusy, TestLoop,
           RunTick, ClearActive, HideBusy, Release, jobVars, queueVars
<1> QED
  BY <1>1, <1>2, <1>3, <1>4 DEF Next, GuiStep

(* The scheduler implements JobLifecycle, for any number of threads: their *)
(* stores and swaps of a status never cross.                               *)
THEOREM LivesByLifecycle == Spec => FollowsLifecycle
<1>1. Init => LifecycleInit
  BY DEF Init, QueueInit
<1>2. FieldInv /\ [Next]_vars => [LifecycleNext]_status
  <2>1. UNCHANGED vars => UNCHANGED status
    BY DEF vars, jobVars, queueVars
  <2> QED
    BY <2>1, LifecycleStep
<1> QED
  BY <1>1, <1>2, FieldInvariant, PTL
     DEF Spec, FollowsLifecycle, LifecycleSpec

-----------------------------------------------------------------------------
(* A step that moves a job to another level moves it down for a used-up    *)
(* quantum, or up for having aged.                                         *)
LEMMA LevelStep ==
  ASSUME FieldInv, Next, NEW j \in Jobs, mlfq_level'[j] # mlfq_level[j]
  PROVE  \/ /\ mlfq_level'[j] = mlfq_level[j] + 1
            /\ ticks_this_slice[j] = MLFQ_QUANTUM[mlfq_level[j]]
            /\ elapsed_ticks[j] < BurstTime[j]
         \/ /\ mlfq_level'[j] = mlfq_level[j] - 1
            /\ aging_ticks[j] = AGING_THRESHOLD
<1> USE DEF FieldInv, PlaceInv
<1>1. CASE GuiStep
  <2>1. PICK k \in Jobs : SubmitJob(k)
    BY <1>1 DEF GuiStep, Stop, StopReturns, jobVars, queueVars
  <2>2. mlfq_level[k] = 0 /\ mlfq_level' = [mlfq_level EXCEPT ![k] = 0]
    BY <2>1
       DEF SubmitJob, pushNew, enterLevel, WaitersKnow, WaitingAtTop
  <2> QED
    BY <2>2 DEF TypeOK, QueueTypeOK
<1>2. CASE Dispatcher
  BY <1>2
     DEF Dispatcher, DispatchTop, DispatchTick, DispatchScan, DispatchProbe,
         DispatchCas, DispatchPopEmpty, DispatchPop, DispatchSpawn, tickLevel,
         fieldVars, queueVars
<1>3. CASE Aging
  <2>1. PICK k \in aged : promote(alvl, k)
    BY <1>3 DEF Aging, AgingWake, AgingDrain, AgingPush, fieldVars
  <2>2. /\ k \in Jobs /\ mlfq_level[k] = alvl
        /\ aging_ticks[k] = AGING_THRESHOLD
        /\ mlfq_level' = [mlfq_level EXCEPT ![k] = alvl - 1]
    BY <2>1
       DEF promote, enterLevel, WaitersKnow, QueuedFresh, AgedInFull, TypeOK,
           AgingTypeOK
  <2> QED
    BY <2>2 DEF TypeOK, QueueTypeOK
<1>4. ASSUME NEW w \in Worker, workerStep(w)
      PROVE  /\ mlfq_level'[j] = mlfq_level[j] + 1
             /\ ticks_this_slice[j] = MLFQ_QUANTUM[mlfq_level[j]]
             /\ elapsed_ticks[j] < BurstTime[j]
  <2> DEFINE k == wjob[w]
             d == quantumExpired(mlfq_level[k], ticks_this_slice[k])
  <2>1. /\ wpc[w] = "finish"
        /\ ~ (elapsed_ticks[k] >= BurstTime[k])
        /\ requeuePreempted(k, d)
    BY <1>4
       DEF workerStep, Acquire, Fail, HintSlot, ClaimSlot, MarkRunning,
           ShowBusy, TestLoop, RunTick, ExpireQuantum, ClearActive, HideBusy,
           Release, Finish, leave, go, jobVars, queueVars, fieldVars
  <2>2. /\ k \in Jobs /\ k = j
        /\ mlfq_level'[k] = demotedLevel(k, d)
    BY <2>1
       DEF requeuePreempted, enterLevel, TypeOK, QueueTypeOK, WorkerTypeOK
  <2> HIDE DEF k
  <2>3. d /\ mlfq_level'[k] = mlfq_level[k] + 1
    BY <2>2 DEF demotedLevel
  <2>4. /\ mlfq_level[k] \in Levels
        /\ elapsed_ticks[k] \in Nat /\ ticks_this_slice[k] \in Nat
        /\ BurstTime[k] \in Nat /\ MLFQ_QUANTUM[mlfq_level[k]] \in Nat
    BY <2>2, JobAssumption DEF TypeOK, ThreadTypeOK, QueueTypeOK
  <2>5. /\ ticks_this_slice[k] >= MLFQ_QUANTUM[mlfq_level[k]]
        /\ ticks_this_slice[k] <= MLFQ_QUANTUM[mlfq_level[k]]
    BY <2>2, <2>3, <2>4 DEF quantumExpired, WithinQuantum
  <2>6. /\ ticks_this_slice[k] = MLFQ_QUANTUM[mlfq_level[k]]
        /\ elapsed_ticks[k] < BurstTime[k]
    BY <2>1, <2>4, <2>5
  <2> QED
    BY <2>2, <2>3, <2>6
<1> QED
  BY <1>1, <1>2, <1>3, <1>4 DEF Next, GuiStep

(* However submissions, demotions and promotions fall, a job goes down one *)
(* level for a used-up quantum, up one for having aged, and never else.    *)
THEOREM LevelsMoveByOne == Spec => LevelMoves
<1>1. FieldInv /\ [Next]_vars =>
         [\A j \in Jobs : mlfq_level'[j] # mlfq_level[j] =>
            \/ /\ mlfq_level'[j] = mlfq_level[j] + 1
               /\ ticks_this_slice[j] = MLFQ_QUANTUM[mlfq_level[j]]
               /\ elapsed_ticks[j] < BurstTime[j]
            \/ /\ mlfq_level'[j] = mlfq_level[j] - 1
               /\ aging_ticks[j] = AGING_THRESHOLD]_vars
  BY LevelStep
<1> QED
  BY <1>1, FieldInvariant, PTL DEF Spec, LevelMoves

=============================================================================
