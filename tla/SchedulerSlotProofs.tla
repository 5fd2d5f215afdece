------------------------ MODULE SchedulerSlotProofs ------------------------
(***************************************************************************)
(* Slots, permits and the budget, for any number of them: what acquire()   *)
(* took is given back in full, a slot has one user, and a job is refused   *)
(* or preempted only for the sake of another.                              *)
(***************************************************************************)
EXTENDS SchedulerFieldProofs, FiniteSetTheorems, WellFoundedInduction

(* The threads other than the workers take and give back nothing, and only *)
(* a worker that was off may change its place.                             *)
LEMMA OthersHoldNothing ==
  ASSUME TypeOK, GuiStep \/ Dispatcher \/ Aging
  PROVE  /\ UNCHANGED <<budgetVars, workers, active>>
         /\ \A v \in Worker :
               \/ wpc'[v] = wpc[v] /\ wjob'[v] = wjob[v] /\ wslot'[v] = wslot[v]
               \/ wpc[v] = "off" /\ wpc'[v] = "wait"
<1>1. CASE GuiStep
  BY <1>1
     DEF GuiStep, SubmitJob, Stop, StopReturns, guiFrame, workerVars, localVars,
         resourceVars
<1>2. CASE Dispatcher
  <2>1. UNCHANGED <<budgetVars, workers, active>>
    BY <1>2
       DEF Dispatcher, DispatchTop, DispatchTick, DispatchScan, DispatchProbe,
           DispatchCas, DispatchPopEmpty, DispatchPop, DispatchSpawn,
           atDispatch, resourceVars
  <2>2. ASSUME NEW w \in Worker, DispatchSpawn(w), NEW v \in Worker
        PROVE  \/ wpc'[v] = wpc[v] /\ wjob'[v] = wjob[v] /\ wslot'[v] = wslot[v]
               \/ wpc[v] = "off" /\ wpc'[v] = "wait"
    BY <2>2 DEF DispatchSpawn, TypeOK, WorkerTypeOK
  <2> QED
    BY <1>2, <2>1, <2>2
       DEF Dispatcher, DispatchTop, DispatchTick, DispatchScan, DispatchProbe,
           DispatchCas, DispatchPopEmpty, DispatchPop, workerVars, localVars
<1>3. CASE Aging
  BY <1>3
     DEF Aging, AgingWake, AgingDrain, AgingPush, atAging, workerVars,
         localVars, resourceVars
<1> QED
  BY <1>1, <1>2, <1>3

-----------------------------------------------------------------------------
(* The semaphore.                                                          *)

LEMMA PermittedFinite == IsFiniteSet(Permitted) /\ Cardinality(Permitted) \in Nat
<1>1. Permitted \in SUBSET Worker
  BY DEF Permitted
<1> QED
  BY <1>1, SchedulerAssumption, FS_Subset, FS_CardinalityType

(* A step that takes no permit and gives none back leaves those who hold   *)
(* one as they were.                                                       *)
LEMMA SamePermitted ==
  ASSUME \A v \in Worker : wpc'[v] \in PermitSteps <=> wpc[v] \in PermitSteps
  PROVE  Permitted' = Permitted
BY DEF Permitted

LEMMA GoPermitted ==
  ASSUME TypeOK, NEW w \in Worker, NEW from, NEW to, go(w, from, to)
  PROVE  /\ from \notin PermitSteps /\ to \in PermitSteps =>
               w \notin Permitted /\ Permitted' = Permitted \cup {w}
         /\ from \in PermitSteps /\ to \notin PermitSteps =>
               w \in Permitted /\ Permitted' = Permitted \ {w}
         /\ (from \in PermitSteps <=> to \in PermitSteps) =>
               Permitted' = Permitted
BY DEF go, TypeOK, WorkerTypeOK, Permitted

(* What each step of a worker does to the permits.                         *)
LEMMA WorkerPermits ==
  ASSUME TypeOK, NEW w \in Worker, workerStep(w)
  PROVE  \/ /\ Acquire(w)
            /\ w \notin Permitted
            /\ Permitted' = Permitted \cup {w}
         \/ /\ Release(w)
            /\ w \in Permitted
            /\ Permitted' = Permitted \ {w}
         \/ /\ Permitted' = Permitted
            /\ UNCHANGED budgetVars
<1> USE GoPermitted DEF PermitSteps, SlotSteps, LoopSteps
<1>1. CASE Acquire(w)
  BY <1>1 DEF Acquire
<1>2. CASE Release(w)
  BY <1>2 DEF Release
<1>3. CASE Fail(w) \/ Finish(w)
  BY <1>3 DEF Fail, Finish, leave, refuse, budgetVars, resourceVars
<1>4. CASE HintSlot(w) \/ ClaimSlot(w) \/ MarkRunning(w) \/ ShowBusy(w)
  BY <1>4 DEF HintSlot, ClaimSlot, MarkRunning, ShowBusy, resourceVars
<1>5. CASE TestLoop(w) \/ RunTick(w)
  BY <1>5 DEF TestLoop, RunTick, resourceVars
<1>6. CASE ExpireQuantum(w) \/ ClearActive(w) \/ HideBusy(w)
  BY <1>6 DEF ExpireQuantum, ClearActive, HideBusy, resourceVars
<1> QED
  BY <1>1, <1>2, <1>3, <1>4, <1>5, <1>6 DEF workerStep

LEMMA PermitsInit == Init => PermitsConserved
<1> SUFFICES ASSUME Init PROVE PermitsConserved
  OBVIOUS
<1>1. Permitted = {}
  BY DEF Init, Permitted, PermitSteps, SlotSteps, LoopSteps
<1> QED
  BY <1>1, FS_EmptySet, ResourceAssumption DEF Init, ResourceInit, PermitsConserved

LEMMA PermitsNext == TypeOK /\ PermitsConserved /\ [Next]_vars => PermitsConserved'
<1> SUFFICES ASSUME TypeOK, PermitsConserved, [Next]_vars
             PROVE  PermitsConserved'
  OBVIOUS
<1> USE DEF PermitsConserved
<1>1. CASE GuiStep \/ Dispatcher \/ Aging
  <2>1. Permitted' = Permitted /\ UNCHANGED slots
    BY <1>1, OthersHoldNothing, SamePermitted
       DEF PermitSteps, SlotSteps, LoopSteps, budgetVars
  <2> QED
    BY <2>1
<1>2. ASSUME NEW w \in Worker, workerStep(w) PROVE PermitsConserved'
  <2>0. slots \in Nat
    BY DEF TypeOK, ResourceTypeOK
  <2>1. CASE /\ Acquire(w)
             /\ w \notin Permitted
             /\ Permitted' = Permitted \cup {w}
    <3>1. Cardinality(Permitted') = Cardinality(Permitted) + 1
      BY <2>1, PermittedFinite, FS_AddElement
    <3> QED
      BY <2>0, <2>1, <3>1, PermittedFinite DEF Acquire, acquire
  <2>2. CASE /\ Release(w)
             /\ w \in Permitted
             /\ Permitted' = Permitted \ {w}
    <3>1. Cardinality(Permitted') = Cardinality(Permitted) - 1
      BY <2>2, PermittedFinite, FS_RemoveElement
    <3> QED
      BY <2>0, <2>2, <3>1, PermittedFinite DEF Release, release
  <2>3. CASE Permitted' = Permitted /\ UNCHANGED budgetVars
    BY <2>3 DEF budgetVars
  <2> QED
    BY <1>2, <2>1, <2>2, <2>3, WorkerPermits
<1>3. CASE UNCHANGED vars
  BY <1>3 DEF vars, workerVars, resourceVars, budgetVars, Permitted
<1> QED
  BY <1>1, <1>2, <1>3 DEF Next, GuiStep

(* No path through acquire() and release() loses a permit or posts one     *)
(* twice, for any number of threads and slots.                             *)
THEOREM PermitsAddUp == Spec => []PermitsConserved
BY TypeCorrect, PermitsInit, PermitsNext, PTL DEF Spec

-----------------------------------------------------------------------------
(* The entries of active_jobs_.                                            *)

(* The permit count is what makes the unlocked guess of a slot harmless: a *)
(* worker that holds a permit and has no entry yet is one of at most       *)
(* MAX_CONCURRENT, so that the others cannot have filled every entry.      *)
LEMMA ClaimsEmptyEntry ==
  ASSUME TypeOK, PermitsConserved, SlotExclusive,
         NEW w \in Worker, wpc[w] = "claim",
         NEW s \in SlotIds, isChosenSlot(wslot[w], s)
  PROVE  active[s] = NoJob
<1> SUFFICES ASSUME \A t \in SlotIds : active[t] # NoJob PROVE FALSE
  BY DEF isChosenSlot
<1> DEFINE H == {v \in Worker : wpc[v] \in SlotSteps}
           slotOf == [v \in H |-> wslot[v]]
<1>1. slotOf \in Surjection(H, SlotIds)
  <2>1. slotOf \in [H -> SlotIds]
    BY DEF TypeOK, WorkerTypeOK
  <2>2. \A t \in SlotIds : \E v \in H : slotOf[v] = t
    BY DEF SlotExclusive
  <2> QED
    BY <2>1, <2>2 DEF Surjection
<1>2. H \in SUBSET (Permitted \ {w})
  BY DEF Permitted, PermitSteps, SlotSteps, LoopSteps
<1>3. /\ IsFiniteSet(Permitted \ {w})
      /\ Cardinality(Permitted \ {w}) = Cardinality(Permitted) - 1
  BY PermittedFinite, FS_RemoveElement DEF Permitted, PermitSteps
<1>4. IsFiniteSet(H) /\ Cardinality(H) <= Cardinality(Permitted) - 1
  BY <1>2, <1>3, FS_Subset
<1>5. Cardinality(SlotIds) <= Cardinality(H)
  BY <1>1, <1>4, FS_Surjection
<1>6. Cardinality(SlotIds) = MAX_CONCURRENT
  <2>1. /\ 0 \in Int /\ MAX_CONCURRENT - 1 \in Int
        /\ ~ 0 > MAX_CONCURRENT - 1
        /\ (MAX_CONCURRENT - 1) - 0 + 1 = MAX_CONCURRENT
    BY ResourceAssumption
  <2> QED
    BY <2>1, FS_Interval, Zenon DEF SlotIds
<1>7. Cardinality(H) \in Nat
  BY <1>4, FS_CardinalityType
<1> QED
  BY <1>4, <1>5, <1>6, <1>7, PermittedFinite, ResourceAssumption
     DEF PermitsConserved, TypeOK, ResourceTypeOK

LEMMA SameSlots ==
  ASSUME SlotExclusive, UNCHANGED active,
         \A v \in Worker :
            /\ wpc'[v] \in SlotSteps <=> wpc[v] \in SlotSteps
            /\ wpc[v] \in SlotSteps =>
                  wjob'[v] = wjob[v] /\ wslot'[v] = wslot[v]
  PROVE  SlotExclusive'
BY DEF SlotExclusive

LEMMA SlotsWorker ==
  ASSUME TypeOK, PermitsConserved, SlotExclusive,
         NEW w \in Worker, workerStep(w)
  PROVE  SlotExclusive'
<1> USE DEF TypeOK, WorkerTypeOK, ThreadTypeOK
<1>0. SlotSteps = {"mark", "show", "loop", "look", "expire", "clear"}
  BY DEF SlotSteps, LoopSteps
<1>1. CASE Acquire(w) \/ Fail(w) \/ HintSlot(w) \/ HideBusy(w) \/ Release(w)
           \/ Finish(w)
  BY <1>0, <1>1, SameSlots
     DEF Acquire, Fail, HintSlot, HideBusy, Release, Finish, leave, go, localVars
<1>2. CASE MarkRunning(w) \/ ShowBusy(w) \/ TestLoop(w) \/ RunTick(w)
           \/ ExpireQuantum(w)
  BY <1>0, <1>2, SameSlots
     DEF MarkRunning, ShowBusy, TestLoop, RunTick, ExpireQuantum, go, localVars
<1>3. CASE ClaimSlot(w)
  <2>1. PICK s \in SlotIds : /\ isChosenSlot(wslot[w], s)
                             /\ wslot' = [wslot EXCEPT ![w] = s]
                             /\ active' = [active EXCEPT ![s] = wjob[w]]
    BY <1>3 DEF ClaimSlot
  <2>2. active[s] = NoJob
    BY <1>3, <2>1, ClaimsEmptyEntry DEF ClaimSlot, go
  <2>3. \A v \in Worker : wpc[v] \in SlotSteps => wslot[v] # s
    BY <1>0, <2>2 DEF SlotExclusive, OwnerSteps
  <2>4. /\ wpc[w] = "claim" /\ wpc' = [wpc EXCEPT ![w] = "mark"]
        /\ wjob' = wjob
    BY <1>3 DEF ClaimSlot, go
  <2> QED
    BY <1>0, <2>1, <2>3, <2>4 DEF SlotExclusive
<1>4. CASE ClearActive(w)
  <2>1. /\ wpc[w] = "clear" /\ wpc' = [wpc EXCEPT ![w] = "hide"]
        /\ wjob' = wjob /\ wslot' = wslot
        /\ active' = [active EXCEPT ![wslot[w]] = NoJob]
    BY <1>4 DEF ClearActive, go, localVars
  <2> QED
    BY <1>0, <2>1 DEF SlotExclusive
<1> QED
  BY <1>1, <1>2, <1>3, <1>4 DEF workerStep

LEMMA SlotsInit == Init => SlotExclusive
BY DEF Init, SlotExclusive, SlotSteps, LoopSteps

LEMMA SlotsNext ==
  TypeOK /\ PermitsConserved /\ SlotExclusive /\ [Next]_vars => SlotExclusive'
<1> SUFFICES ASSUME TypeOK, PermitsConserved, SlotExclusive, [Next]_vars
             PROVE  SlotExclusive'
  OBVIOUS
<1>1. CASE GuiStep \/ Dispatcher \/ Aging
  BY <1>1, OthersHoldNothing, SameSlots DEF SlotSteps, LoopSteps
<1>2. CASE UNCHANGED vars
  BY <1>2, SameSlots DEF vars, workerVars, localVars
<1> QED
  BY <1>1, <1>2, SlotsWorker DEF Next, GuiStep

(* Two running jobs never share an entry of active_jobs_, and no entry     *)
(* outlives its job, for any number of threads and slots.                  *)
THEOREM SlotsAreExclusive == Spec => []SlotExclusive
BY TypeCorrect, PermitsAddUp, SlotsInit, SlotsNext, PTL DEF Spec

-----------------------------------------------------------------------------
(* The WorkerSlot array of the dashboard.                                  *)

(* A worker that will set its slot free.                                   *)
FreesSteps == LoopSteps \cup {"clear", "hide"}

LEMMA SameShown ==
  ASSUME ShownBusyIsUsed, UNCHANGED workers,
         \A v \in Worker : wpc[v] \in FreesSteps =>
            wpc'[v] \in FreesSteps /\ wslot'[v] = wslot[v]
  PROVE  ShownBusyIsUsed'
BY DEF ShownBusyIsUsed, FreesSteps

LEMMA ShownWorker ==
  ASSUME TypeOK, ShownBusyIsUsed, NEW w \in Worker, workerStep(w)
  PROVE  ShownBusyIsUsed'
<1> USE DEF TypeOK, WorkerTypeOK, ResourceTypeOK
<1>0. FreesSteps = {"loop", "look", "expire", "clear", "hide"}
  BY DEF FreesSteps, LoopSteps
<1>1. CASE Acquire(w) \/ Fail(w) \/ HintSlot(w) \/ ClaimSlot(w) \/ Release(w)
           \/ Finish(w)
  BY <1>0, <1>1, SameShown
     DEF Acquire, Fail, HintSlot, ClaimSlot, Release, Finish, leave, go,
         localVars, resourceVars
<1>2. CASE MarkRunning(w) \/ TestLoop(w) \/ RunTick(w)
           \/ ExpireQuantum(w) \/ ClearActive(w)
  BY <1>0, <1>2, SameShown
     DEF MarkRunning, TestLoop, RunTick, ExpireQuantum, ClearActive, go,
         localVars, resourceVars
<1>3. CASE ShowBusy(w)
  <2>1. /\ wpc[w] = "show" /\ wpc' = [wpc EXCEPT ![w] = "loop"]
        /\ wslot' = wslot /\ wslot[w] \in SlotIds
        /\ \A s \in SlotIds \ {wslot[w]} : workers'[s] = workers[s]
    BY <1>3 DEF ShowBusy, go, localVars, setWorkerBusy, SlotSteps
  <2> QED
    BY <1>0, <2>1 DEF ShownBusyIsUsed, FreesSteps
<1>4. CASE HideBusy(w)
  <2>1. /\ wpc[w] = "hide" /\ wpc' = [wpc EXCEPT ![w] = "release"]
        /\ wslot' = wslot /\ wslot[w] \in SlotIds
        /\ \A s \in SlotIds \ {wslot[w]} : workers'[s] = workers[s]
        /\ ~ workers'[wslot[w]].busy
    BY <1>4 DEF HideBusy, go, localVars, setWorkerFree, FreeSlot
  <2> QED
    BY <1>0, <2>1 DEF ShownBusyIsUsed, FreesSteps
<1> QED
  BY <1>1, <1>2, <1>3, <1>4 DEF workerStep

LEMMA ShownInit == Init => ShownBusyIsUsed
BY DEF Init, ResourceInit, FreeSlot, ShownBusyIsUsed

LEMMA ShownNext == TypeOK /\ ShownBusyIsUsed /\ [Next]_vars => ShownBusyIsUsed'
<1> SUFFICES ASSUME TypeOK, ShownBusyIsUsed, [Next]_vars PROVE ShownBusyIsUsed'
  OBVIOUS
<1>1. CASE GuiStep \/ Dispatcher \/ Aging
  BY <1>1, OthersHoldNothing, SameShown DEF FreesSteps, LoopSteps
<1>2. CASE UNCHANGED vars
  BY <1>2, SameShown DEF vars, workerVars, localVars, resourceVars
<1> QED
  BY <1>1, <1>2, ShownWorker DEF Next, GuiStep

(* Whatever the races between the guess of a slot, its claim and the two   *)
(* calls that mark it busy and free, no slot is left busy for ever by      *)
(* workers that are gone.                                                  *)
THEOREM BusySlotsAreUsed == Spec => []ShownBusyIsUsed
BY TypeCorrect, ShownInit, ShownNext, PTL DEF Spec

-----------------------------------------------------------------------------
(* What the dispatcher has seen when it preempts.                          *)

(* While it looks for a candidate it asks no level below the job's own,    *)
(* and when it goes for the CAS a better job waits.                        *)
CandidateKnown ==
  /\ dpc # "probe" => dlvl = 0
  /\ dpc = "probe" => dlvl <= mlfq_level[active[didx]]
  /\ dpc = "cas" => \E k \in Queued \cup aged : Better(k, active[didx])

(* Only the dispatcher's pop takes a job away from those that wait, and no *)
(* one moves it to a worse level.                                          *)
LEMMA WaitersStay ==
  ASSUME FieldInv, Next, dpc # "pop", NEW k \in Queued \cup aged
  PROVE  /\ k \in Queued' \cup aged'
         /\ mlfq_level'[k] <= mlfq_level[k]
<1> USE DEF FieldInv, PlaceInv
<1>0. /\ k \in Jobs /\ k \in Held /\ k \notin Owned
      /\ status[k] = "READY"
      /\ mlfq_level[k] \in Nat
  BY QueuedMembers, ConstantFacts, OnePlaceParts
     DEF Held, TypeOK, QueueTypeOK, AgingTypeOK, WaitersKnow, QueuedFresh
<1>1. ASSUME NEW l \in Levels, NEW j \in Jobs, j # k, enterLevel(l, j),
             UNCHANGED aged
      PROVE  /\ k \in Queued' \cup aged'
             /\ mlfq_level'[k] <= mlfq_level[k]
  <2>1. mlfq_level'[k] = mlfq_level[k]
    BY <1>1 DEF enterLevel, TypeOK, QueueTypeOK
  <2>2. \A m \in Levels : level[m] \subseteq level'[m]
    BY <1>1 DEF enterLevel, push, TypeOK, QueueTypeOK
  <2> QED
    BY <1>0, <1>1, <2>1, <2>2, QueuedMembers DEF Queued
<1>2. CASE UNCHANGED <<level, mlfq_level, aged>>
  BY <1>0, <1>2, SameQueued
<1>3. CASE GuiStep
  <2>1. ASSUME NEW j \in Jobs, SubmitJob(j)
        PROVE  j # k /\ enterLevel(0, j) /\ UNCHANGED aged
    BY <1>0, <2>1 DEF SubmitJob, pushNew, guiFrame, agingVars
  <2> QED
    BY <1>1, <1>2, <1>3, <2>1, ConstantFacts
       DEF GuiStep, Stop, StopReturns, guiFrame, agingVars, jobVars, queueVars
<1>4. CASE Dispatcher
  BY <1>2, <1>4
     DEF Dispatcher, DispatchTop, DispatchTick, DispatchScan, DispatchProbe,
         DispatchCas, DispatchPopEmpty, DispatchPop, DispatchSpawn, atDispatch,
         tickLevel, agingVars, fieldVars, queueVars
<1>5. CASE Aging
  <2>1. CASE AgingWake
    BY <1>2, <2>1 DEF AgingWake, fieldVars
  <2>2. CASE AgingDrain
    <3>1. PICK A \in SUBSET agedIn(alvl) : drainAged(alvl, A) /\ aged' = A
      BY <2>2 DEF AgingDrain
    <3>2. aged = {} /\ alvl \in Levels /\ mlfq_level' = mlfq_level
      BY <2>2 DEF AgingDrain, atAging, fieldVars, TypeOK, AgingTypeOK
    <3>3. \A m \in Levels : level[m] \subseteq level'[m] \cup A
      BY <3>1, <3>2 DEF drainAged, TypeOK, QueueTypeOK
    <3> QED
      BY <1>0, <3>1, <3>2, <3>3, QueuedMembers DEF Queued
  <2>3. CASE AgingPush
    <3>1. PICK j \in aged : promote(alvl, j) /\ aged' = aged \ {j}
      BY <2>3 DEF AgingPush
    <3>2. /\ alvl - 1 \in Levels /\ alvl \in Nat /\ alvl - 1 \in Nat
          /\ enterLevel(alvl - 1, j) /\ j \in Jobs
          /\ mlfq_level[j] = alvl
      BY <2>3, <3>1, ConstantFacts
         DEF AgingPush, atAging, promote, TypeOK, AgingTypeOK, WaitersKnow,
             QueuedFresh
    <3>3. /\ \A m \in Levels : level[m] \subseteq level'[m]
          /\ j \in level'[alvl - 1]
          /\ mlfq_level'[j] = alvl - 1
          /\ k # j => mlfq_level'[k] = mlfq_level[k]
      BY <1>0, <3>2 DEF enterLevel, push, TypeOK, QueueTypeOK
    <3>4. k \in Queued' \cup aged'
      BY <3>1, <3>2, <3>3, QueuedMembers DEF Queued
    <3> QED
      BY <1>0, <3>2, <3>3, <3>4
  <2> QED
    BY <1>5, <2>1, <2>2, <2>3 DEF Aging
<1>6. ASSUME NEW w \in Worker, workerStep(w)
      PROVE  /\ k \in Queued' \cup aged'
             /\ mlfq_level'[k] <= mlfq_level[k]
  <2>1. UNCHANGED aged
    BY <1>6
       DEF workerStep, Acquire, Fail, HintSlot, ClaimSlot, MarkRunning,
           ShowBusy, TestLoop, RunTick, ExpireQuantum, ClearActive, HideBusy,
           Release, Finish, leave, go, agingVars
  <2>2. CASE Finish(w)
    <3>1. wpc[w] = "finish" /\ wjob[w] \in Jobs /\ wjob[w] \in Owned
      BY <2>2, OwnedMembers
         DEF Finish, leave, go, OwnerSteps, TypeOK, WorkerTypeOK
    <3> DEFINE d == quantumExpired(mlfq_level[wjob[w]], ticks_this_slice[wjob[w]])
    <3>2. d \in BOOLEAN
      BY DEF quantumExpired
    <3>3. requeuePreempted(wjob[w], d) \/ UNCHANGED <<level, mlfq_level>>
      BY <2>2 DEF Finish, queueVars, fieldVars
    <3> HIDE DEF d
    <3>4. \/ UNCHANGED <<level, mlfq_level>>
          \/ \E l \in Levels : enterLevel(l, wjob[w])
      BY <3>1, <3>2, <3>3, DemotedLevelType DEF requeuePreempted, TypeOK
    <3> QED
      BY <1>0, <1>1, <1>2, <2>1, <3>1, <3>4
  <2>3. CASE UNCHANGED <<level, mlfq_level>>
    BY <1>2, <2>1, <2>3
  <2> QED
    BY <1>6, <2>2, <2>3
       DEF workerStep, Acquire, Fail, HintSlot, ClaimSlot, MarkRunning,
           ShowBusy, TestLoop, RunTick, ExpireQuantum, ClearActive, HideBusy,
           Release, jobVars, queueVars, fieldVars
<1> QED
  BY <1>3, <1>4, <1>5, <1>6 DEF Next, GuiStep

(* The job of an entry of active_jobs_ keeps its entry and its level while *)
(* the dispatcher has active_mutex_: its worker cannot get past the mutex. *)
LEMMA EntryStays ==
  ASSUME FieldInv, SlotExclusive, Next, ~ ActiveMutexFree,
         NEW s \in SlotIds, active[s] # NoJob
  PROVE  /\ active' = active
         /\ mlfq_level'[active[s]] = mlfq_level[active[s]]
<1> USE DEF FieldInv, PlaceInv
<1> DEFINE j == active[s]
<1>1. PICK v \in Worker : wpc[v] \in SlotSteps /\ wjob[v] = j
  BY DEF SlotExclusive
<1>2. /\ wpc[v] \in OwnerSteps /\ wpc[v] # "finish"
      /\ j \in Jobs /\ j \in Owned /\ j \notin Held
      /\ status[j] # "WAITING"
  BY <1>1, OwnedMembers, OnePlaceParts
     DEF OwnerSteps, PermitSteps, SlotSteps, LoopSteps, TypeOK, WorkerTypeOK,
         Accounted, JobsAccounted
<1> HIDE DEF j
<1>3. active' = active
  BY DEF Next, SubmitJob, Stop, StopReturns, guiFrame, Dispatcher, DispatchTop,
         DispatchTick, DispatchScan, DispatchProbe, DispatchCas,
         DispatchPopEmpty, DispatchPop, DispatchSpawn, atDispatch, Aging,
         AgingWake, AgingDrain, AgingPush, atAging, workerStep, Acquire, Fail,
         HintSlot, ClaimSlot, MarkRunning, ShowBusy, TestLoop, RunTick,
         ExpireQuantum, ClearActive, HideBusy, Release, Finish
<1> SUFFICES mlfq_level'[j] = mlfq_level[j]
  BY <1>3 DEF j
<1>4. ASSUME NEW l, NEW k \in Jobs, k # j, enterLevel(l, k)
      PROVE  mlfq_level'[j] = mlfq_level[j]
  BY <1>2, <1>4 DEF enterLevel, TypeOK, QueueTypeOK
<1>5. CASE GuiStep
  <2>1. ASSUME NEW k \in Jobs, SubmitJob(k)
        PROVE  k # j /\ enterLevel(0, k)
    BY <1>2, <2>1 DEF SubmitJob, pushNew
  <2> QED
    BY <1>4, <1>5, <2>1
       DEF GuiStep, Stop, StopReturns, jobVars, queueVars
<1>6. CASE Dispatcher
  BY <1>6
     DEF Dispatcher, DispatchTop, DispatchTick, DispatchScan, DispatchProbe,
         DispatchCas, DispatchPopEmpty, DispatchPop, DispatchSpawn, tickLevel,
         fieldVars, queueVars
<1>7. CASE Aging
  <2>1. \/ mlfq_level' = mlfq_level
        \/ \E k \in aged : enterLevel(alvl - 1, k)
    BY <1>7 DEF Aging, AgingWake, AgingDrain, AgingPush, promote, fieldVars
  <2> QED
    BY <1>2, <1>4, <2>1 DEF Held, TypeOK, AgingTypeOK
<1>8. ASSUME NEW w \in Worker, workerStep(w)
      PROVE  mlfq_level'[j] = mlfq_level[j]
  <2>1. \/ mlfq_level' = mlfq_level
        \/ wpc[w] = "finish" /\ \E l : enterLevel(l, wjob[w])
    BY <1>8
       DEF workerStep, Acquire, Fail, HintSlot, ClaimSlot, MarkRunning,
           ShowBusy, TestLoop, RunTick, ExpireQuantum, ClearActive, HideBusy,
           Release, Finish, leave, go, requeuePreempted, jobVars, queueVars,
           fieldVars
  <2>2. wpc[w] = "finish" => wjob[w] \in Jobs /\ wjob[w] # j
    BY <1>1, <1>2, OnePlaceParts DEF OneOwner, OwnerSteps, TypeOK, WorkerTypeOK
  <2> QED
    BY <1>4, <2>1, <2>2
<1> QED
  BY <1>5, <1>6, <1>7, <1>8 DEF Next, GuiStep

LEMMA CandidateNext ==
  FieldInv /\ SlotExclusive /\ CandidateKnown /\ [Next]_vars => CandidateKnown'
<1> SUFFICES ASSUME FieldInv, SlotExclusive, CandidateKnown, [Next]_vars
             PROVE  CandidateKnown'
  OBVIOUS
<1> USE DEF FieldInv, PlaceInv
<1>0. /\ dpc \in {"scan", "probe", "cas"} => didx \in SlotIds
      /\ dpc \in {"probe", "cas"} => active[didx] \in Jobs
      /\ dlvl \in Nat
      /\ \A k \in Jobs : mlfq_level[k] \in Levels /\ mlfq_level[k] \in Nat
  BY ConstantFacts
     DEF TypeOK, DispatcherTypeOK, ThreadTypeOK, QueueTypeOK
<1>1. CASE Dispatcher
  <2>1. CASE DispatchTop \/ DispatchTick \/ DispatchPopEmpty \/ DispatchPop
             \/ \E w \in Worker : DispatchSpawn(w)
    BY <2>1
       DEF DispatchTop, DispatchTick, DispatchPopEmpty, DispatchPop,
           DispatchSpawn, atDispatch, CandidateKnown
  <2>2. CASE DispatchScan
    <3>1. CASE nextSlot
      BY <3>1 DEF nextSlot, CandidateKnown
    <3>2. CASE dpc' = "probe" /\ UNCHANGED <<didx, dlvl>>
      <4>1. /\ dpc = "scan" /\ active[didx] # NoJob
            /\ UNCHANGED <<active, mlfq_level>>
        BY <2>2, <3>2, ConstantFacts
           DEF DispatchScan, atDispatch, queueVars, nextSlot
      <4>2. dlvl = 0 /\ active[didx] \in Jobs
        BY <1>0, <4>1 DEF CandidateKnown, TypeOK, ThreadTypeOK
      <4> QED
        BY <1>0, <3>2, <4>1, <4>2 DEF CandidateKnown
    <3> QED
      BY <2>2, <3>1, <3>2 DEF DispatchScan
  <2>3. CASE DispatchProbe
    <3> DEFINE j == active[didx]
    <3>1. /\ dpc = "probe" /\ j \in Jobs /\ dlvl <= mlfq_level[j]
          /\ UNCHANGED <<active, level, mlfq_level, aged>>
      BY <1>0, <2>3
         DEF DispatchProbe, atDispatch, queueVars, agingVars, CandidateKnown
    <3>2. CASE nextSlot
      BY <3>2 DEF nextSlot, CandidateKnown
    <3>3. CASE /\ dlvl < mlfq_level[j]
               /\ dlvl' = dlvl + 1 /\ UNCHANGED <<dpc, didx>>
      BY <1>0, <3>1, <3>3 DEF CandidateKnown
    <3>4. CASE /\ isBetterCandidate(dlvl, mlfq_level[j], PriorityOf[j])
               /\ dpc' = "cas" /\ dlvl' = 0 /\ UNCHANGED didx
      <4>1. dlvl \in Levels
        BY DEF TypeOK, DispatcherTypeOK
      <4>2. \E k \in level[dlvl] : Better(k, j)
        BY <1>0, <3>1, <3>4, <4>1
           DEF isBetterCandidate, Better, WaitersKnow, QueuedFresh, TypeOK,
               QueueTypeOK
      <4>3. \E k \in Queued \cup aged : Better(k, j)
        BY <4>1, <4>2, QueuedMembers
      <4>4. Queued' = Queued /\ \A k : Better(k, j)' <=> Better(k, j)
        BY <3>1, <3>4, SameQueued DEF Better
      <4> QED
        BY <3>1, <3>4, <4>3, <4>4 DEF CandidateKnown, Better
    <3> QED
      BY <2>3, <3>2, <3>3, <3>4 DEF DispatchProbe
  <2>4. CASE DispatchCas
    BY <2>4 DEF DispatchCas, nextSlot, CandidateKnown
  <2> QED
    BY <1>1, <2>1, <2>2, <2>3, <2>4 DEF Dispatcher
<1>2. CASE (GuiStep \/ Aging \/ \E w \in Worker : workerStep(w)) /\ Next
  <2>1. UNCHANGED <<dpc, didx, dlvl>>
    BY <1>2
       DEF GuiStep, SubmitJob, Stop, StopReturns, guiFrame, Aging, AgingWake,
           AgingDrain, AgingPush, atAging, workerStep, Acquire, Fail, HintSlot,
           ClaimSlot, MarkRunning, ShowBusy, TestLoop, RunTick, ExpireQuantum,
           ClearActive, HideBusy, Release, Finish, leave, go, dispatcherVars
  <2>2. CASE dpc \notin {"probe", "cas"}
    BY <2>1, <2>2 DEF CandidateKnown
  <2>3. CASE dpc \in {"probe", "cas"}
    <3> DEFINE j == active[didx]
    <3>1. /\ didx \in SlotIds /\ j \in Jobs /\ j # NoJob
      BY <1>0, <2>3, ConstantFacts
    <3>2. active' = active /\ mlfq_level'[j] = mlfq_level[j]
      BY <1>2, <2>3, <3>1, EntryStays DEF ActiveMutexFree
    <3>3. ASSUME dpc = "cas"
          PROVE  \E k \in Queued' \cup aged' : Better(k, j)'
      <4>1. PICK k \in Queued \cup aged : Better(k, j)
        BY <3>3 DEF CandidateKnown
      <4>2. k \in Queued' \cup aged' /\ mlfq_level'[k] <= mlfq_level[k]
        BY <1>2, <3>3, WaitersStay
      <4>3. k \in Jobs /\ mlfq_level'[k] \in Nat
        <5>1. k \in Jobs
          BY QueuedMembers DEF TypeOK, QueueTypeOK, AgingTypeOK
        <5>2. QueueTypeOK'
          BY TypeNext DEF TypeOK
        <5> QED
          BY <5>1, <5>2, ConstantFacts DEF QueueTypeOK
      <4> QED
        BY <1>0, <2>1, <3>1, <3>2, <4>1, <4>2, <4>3 DEF Better
    <3> QED
      BY <1>0, <2>1, <2>3, <3>1, <3>2, <3>3 DEF CandidateKnown, Better
  <2> QED
    BY <2>2, <2>3
<1>3. CASE UNCHANGED vars
  <2>1. /\ UNCHANGED <<dpc, dlvl, didx, active, level, aged, mlfq_level>>
        /\ Queued' = Queued
    BY <1>3, SameQueued
       DEF vars, jobVars, queueVars, dispatcherVars, agingVars
  <2> QED
    BY <2>1 DEF CandidateKnown, Better
<1> QED
  BY <1>1, <1>2, <1>3 DEF Next, GuiStep

LEMMA CandidateInit == Init => CandidateKnown
BY DEF Init, CandidateKnown

LEMMA CandidateInvariant == Spec => []CandidateKnown
BY FieldInvariant, SlotsAreExclusive, CandidateInit, CandidateNext, PTL DEF Spec

(* What the CAS does: its target is the job in the slot being looked at.   *)
LEMMA PreemptStep ==
  ASSUME TypeOK, CandidateKnown, Next, dpc = "cas", dpc' # "cas",
         NEW j \in Jobs, status[j] = "RUNNING", status'[j] = "PREEMPTED"
  PROVE  \E k \in Queued \cup aged : Better(k, j)
<1>1. DispatchCas
  BY DEF Next, SubmitJob, Stop, StopReturns, guiFrame, Dispatcher, DispatchTop,
         DispatchTick, DispatchScan, DispatchProbe, DispatchPopEmpty,
         DispatchPop, DispatchSpawn, atDispatch, Aging, AgingWake, AgingDrain,
         AgingPush, atAging, workerStep, Acquire, Fail, HintSlot, ClaimSlot,
         MarkRunning, ShowBusy, TestLoop, RunTick, ExpireQuantum, ClearActive,
         HideBusy, Release, Finish, leave, go, dispatcherVars
<1>2. j = active[didx]
  BY <1>1 DEF DispatchCas, TypeOK, QueueTypeOK
<1> QED
  BY <1>2 DEF CandidateKnown

(* The dispatcher's CAS is never for nothing, for any number of jobs,      *)
(* slots and levels: whatever was promoted, requeued or submitted since it *)
(* looked, a better job than the one it preempts still waits.              *)
THEOREM PreemptionHasCause == Spec => PreemptsForBetter
<1>1. TypeOK /\ CandidateKnown /\ [Next]_vars =>
         [\A j \in Jobs :
            /\ dpc = "cas" /\ dpc' # "cas"
            /\ status[j] = "RUNNING" /\ status'[j] = "PREEMPTED"
            => \E k \in Queued \cup aged : Better(k, j)]_vars
  BY PreemptStep
<1> QED
  BY <1>1, TypeCorrect, CandidateInvariant, PTL DEF Spec, PreemptsForBetter

-----------------------------------------------------------------------------
(* Sums over finite sets.                                                  *)

(* The element of s that MapThenSumSet adds first.                         *)
choice(s) == CHOOSE x \in s : TRUE

(* F gives the sum of f over each subset of S, the way MapThenSumSet does. *)
IsSum(F, f, S) ==
  F = [s \in SUBSET S |->
         IF s = {} THEN 0 ELSE f[choice(s)] + F[s \ {choice(s)}]]

(* Induction over the subsets of a finite set, as a minimal counterexample: *)
(* that such a counterexample exists can be cited for a set of subsets,    *)
(* where the induction rule itself would have to be given a predicate.     *)
LEMMA MinimalSubset ==
  ASSUME NEW S, IsFiniteSet(S), NEW B \in SUBSET SUBSET S, B # {}
  PROVE  \E T \in B : \A U \in B : U \subseteq T => U = T
<1>1. FiniteSubsetsOf(S) = SUBSET S
  BY FS_FiniteSubsetsOfFinite
<1>2. IsWellFoundedOn(StrictSubsetOrdering(S), SUBSET S)
  BY <1>1, FS_StrictSubsetOrderingWellFounded
<1>3. PICK T \in B : \A U \in B : ~ (<<U, T>> \in StrictSubsetOrdering(S))
  BY <1>2, WFMin
<1> QED
  BY <1>3 DEF StrictSubsetOrdering

LEMMA ChoiceIn == \A s : s # {} => choice(s) \in s
BY DEF choice

LEMMA SumEquation ==
  ASSUME NEW S, NEW f, NEW F, IsSum(F, f, S), NEW s \in SUBSET S
  PROVE  /\ s = {} => F[s] = 0
         /\ s # {} => F[s] = f[choice(s)] + F[s \ {choice(s)}]
BY DEF IsSum

(* The sum of f over a set is the same within any larger set.              *)
LEMMA SumUnique ==
  ASSUME NEW S, IsFiniteSet(S), NEW T, NEW f, NEW F, NEW G,
         IsSum(F, f, S), IsSum(G, f, T),
         NEW V \in SUBSET S, V \subseteq T
  PROVE  F[V] = G[V]
<1> DEFINE B == {U \in SUBSET S : U \subseteq T /\ F[U] # G[U]}
<1> SUFFICES ASSUME B # {} PROVE FALSE
  OBVIOUS
<1>0. B \in SUBSET SUBSET S
  OBVIOUS
<1>1. PICK U \in B : \A W \in B : W \subseteq U => W = U
  <2> HIDE DEF B
  <2> QED
    BY <1>0, MinimalSubset
<1>2. U \in SUBSET S /\ U \in SUBSET T
  OBVIOUS
<1>3. U # {}
  BY <1>1, <1>2, SumEquation
<1>4. F[U \ {choice(U)}] = G[U \ {choice(U)}]
  BY <1>1, <1>2, <1>3, ChoiceIn
<1>5. F[U] = G[U]
  BY <1>2, <1>3, <1>4, SumEquation
<1> QED
  BY <1>5

(* There is a function that sums as the recursion of MapThenSumSet says.   *)
LEMMA SumExists ==
  ASSUME NEW S, IsFiniteSet(S), NEW f
  PROVE  \E F : IsSum(F, f, S)
<1> DEFINE B == {U \in SUBSET S : ~ \E F : IsSum(F, f, U)}
<1> SUFFICES ASSUME B # {} PROVE FALSE
  OBVIOUS
<1>0. B \in SUBSET SUBSET S
  OBVIOUS
<1>1. PICK T \in B : \A U \in B : U \subseteq T => U = T
  <2> HIDE DEF B
  <2> QED
    BY <1>0, MinimalSubset
<1> DEFINE sumOf(U) == CHOOSE F : IsSum(F, f, U)
           x == choice(T)
           g == [U \in SUBSET T |-> IF U = {} THEN 0
                   ELSE IF U = T THEN f[x] + sumOf(T \ {x})[T \ {x}]
                   ELSE sumOf(U)[U]]
<1>2. ASSUME NEW U \in SUBSET T, U # T
      PROVE  IsSum(sumOf(U), f, U)
  BY <1>1, <1>2
<1>3. IsSum(g, f, T)
  <2>1. ASSUME NEW U \in SUBSET T, U # {}
        PROVE  g[U] = f[choice(U)] + g[U \ {choice(U)}]
    <3> DEFINE V == U \ {choice(U)}
    <3>1. V \in SUBSET T /\ V # T /\ V \subseteq U /\ V \in SUBSET U /\ V \in SUBSET V
      BY <2>1, ChoiceIn
    <3>2. IsSum(sumOf(V), f, V)
      BY <1>2, <3>1
    <3>3. sumOf(V)[V] = g[V]
      <4>1. CASE V = {}
        BY <3>1, <3>2, <4>1, SumEquation
      <4>2. CASE V # {}
        BY <3>1, <4>2
      <4> QED
        BY <4>1, <4>2
    <3>4. CASE U = T
      BY <2>1, <3>3, <3>4
    <3>5. CASE U # T
      <4>1. IsSum(sumOf(U), f, U) /\ U \in SUBSET U
        BY <1>2, <3>5
      <4>2. g[U] = sumOf(U)[U]
        BY <2>1, <3>5
      <4> HIDE DEF sumOf, g
      <4>3. IsFiniteSet(U)
        BY FS_Subset
      <4>4. sumOf(U)[V] = sumOf(V)[V]
        BY <3>1, <3>2, <4>1, <4>3, SumUnique
      <4>5. sumOf(U)[U] = f[choice(U)] + sumOf(U)[V]
        BY <2>1, <4>1, SumEquation
      <4> QED
        BY <3>3, <4>2, <4>4, <4>5
    <3> QED
      BY <3>4, <3>5
  <2>2. g[{}] = 0
    OBVIOUS
  <2>3. g = [U \in SUBSET T |-> g[U]]
    OBVIOUS
  <2> HIDE DEF g
  <2>4. g = [s \in SUBSET T |->
               IF s = {} THEN 0 ELSE f[choice(s)] + g[s \ {choice(s)}]]
    BY <2>1, <2>2, <2>3
  <2> QED
    BY <2>4 DEF IsSum
<1> QED
  BY <1>1, <1>3

(* A sum of natural numbers is one.                                        *)
LEMMA SumType ==
  ASSUME NEW S, IsFiniteSet(S), NEW f, \A s \in S : f[s] \in Nat,
         NEW F, IsSum(F, f, S),
         NEW T \in SUBSET S
  PROVE  F[T] \in Nat
<1> DEFINE B == {U \in SUBSET S : F[U] \notin Nat}
<1> SUFFICES ASSUME B # {} PROVE FALSE
  OBVIOUS
<1>0. B \in SUBSET SUBSET S
  OBVIOUS
<1>1. PICK U \in B : \A W \in B : W \subseteq U => W = U
  <2> HIDE DEF B
  <2> QED
    BY <1>0, MinimalSubset
<1>a. U \in SUBSET S /\ F[U] \notin Nat
  BY <1>1
<1>2. U # {}
  <2>1. {} \in SUBSET S
    OBVIOUS
  <2>2. F[{}] = 0
    BY <2>1 DEF IsSum
  <2> QED
    BY <1>a, <2>2
<1>3. choice(U) \in U /\ F[U \ {choice(U)}] \in Nat
  BY <1>1, <1>2, ChoiceIn
<1>4. F[U] = f[choice(U)] + F[U \ {choice(U)}]
  BY <1>a, <1>2, SumEquation
<1> QED
  BY <1>a, <1>3, <1>4

(* Any element may be the one that is added last.                          *)
LEMMA SumStep ==
  ASSUME NEW S, IsFiniteSet(S), NEW f, \A s \in S : f[s] \in Nat,
         NEW F, IsSum(F, f, S),
         NEW T \in SUBSET S, NEW e \in T
  PROVE  F[T] = f[e] + F[T \ {e}]
<1> DEFINE wrong(U, d) == F[U] # f[d] + F[U \ {d}]
           B == {U \in SUBSET S : \E d \in U : wrong(U, d)}
<1> SUFFICES ASSUME B # {} PROVE FALSE
  OBVIOUS
<1>0. B \in SUBSET SUBSET S
  OBVIOUS
<1>1. PICK U \in B : \A W \in B : W \subseteq U => W = U
  <2> HIDE DEF B
  <2> QED
    BY <1>0, MinimalSubset
<1>2. PICK d \in U : wrong(U, d)
  BY <1>1
<1> DEFINE x == choice(U)
<1>3. U \in SUBSET S /\ x \in U /\ F[U] = f[x] + F[U \ {x}]
  BY <1>2, ChoiceIn, SumEquation
<1>4. x # d
  BY <1>2, <1>3
<1>5. /\ ~ wrong(U \ {x}, d)
      /\ ~ wrong(U \ {d}, x)
  BY <1>1, <1>2, <1>3, <1>4
<1>6. (U \ {x}) \ {d} = (U \ {d}) \ {x}
  OBVIOUS
<1>7. f[x] \in Nat /\ f[d] \in Nat /\ F[(U \ {x}) \ {d}] \in Nat
  <2>1. (U \ {x}) \ {d} \in SUBSET S
    BY <1>3
  <2> QED
    BY <1>2, <1>3, <2>1, SumType
<1> DEFINE n == F[(U \ {x}) \ {d}]
<1>8. /\ F[U \ {x}] = f[d] + n /\ F[U \ {d}] = f[x] + n
      /\ F[U] # f[d] + F[U \ {d}]
  BY <1>2, <1>5, <1>6
<1> HIDE DEF x, B, n, wrong
<1>9. F[U] = f[x] + (f[d] + n) /\ F[U] # f[d] + (f[x] + n)
  BY <1>3, <1>8
<1> QED
  BY <1>7, <1>9 DEF n

-----------------------------------------------------------------------------
(* The budget.                                                             *)

LEMMA TotalIs ==
  ASSUME NEW S, IsFiniteSet(S), NEW req, NEW job, NEW f, NEW F,
         f = [w \in S |-> req[job[w]]], IsSum(F, f, S), NEW T \in SUBSET S
  PROVE  total(req, job, T) = F[T]
<1> DEFINE sums(G) ==
             G = [s \in SUBSET T |->
                    IF s = {} THEN 0
                    ELSE req[job[choice(s)]] + G[s \ {choice(s)}]]
           sum == CHOOSE G : sums(G)
<1>1. \A s \in SUBSET T : s # {} => f[choice(s)] = req[job[choice(s)]]
  BY ChoiceIn
<1>2. \A G : sums(G) <=> IsSum(G, f, T)
  BY <1>1 DEF IsSum
<1>3. \E G : IsSum(G, f, T)
  BY SumExists, FS_Subset
<1>4. IsSum(sum, f, T)
  <2> HIDE DEF sums
  <2> QED
    BY <1>2, <1>3
<1>5. total(req, job, T) = sum[T]
  BY DEF total, MapThenSumSet, MapThenFoldSet, choice
<1>6. sum[T] = F[T]
  <2> HIDE DEF sum
  <2> QED
    BY <1>4, SumUnique, FS_Subset
<1> QED
  BY <1>5, <1>6

LEMMA TotalOfNone ==
  ASSUME NEW req, NEW job
  PROVE  total(req, job, {}) = 0
<1> DEFINE S == {}
           f == [w \in S |-> req[job[w]]]
<1>1. IsFiniteSet(S)
  BY FS_EmptySet
<1>2. f = [w \in S |-> req[job[w]]]
  OBVIOUS
<1>0. S = {}
  OBVIOUS
<1> HIDE DEF f, S
<1>3. PICK F : IsSum(F, f, S)
  BY <1>1, SumExists
<1>4. total(req, job, S) = F[S]
  BY <1>1, <1>2, <1>3, TotalIs
<1>5. F[S] = 0
  BY <1>0, <1>3 DEF IsSum
<1> QED
  BY <1>0, <1>4, <1>5

LEMMA TotalSame ==
  ASSUME NEW S, IsFiniteSet(S), NEW req, NEW job, NEW job2,
         \A w \in S : job2[w] = job[w]
  PROVE  total(req, job2, S) = total(req, job, S)
<1> DEFINE f == [w \in S |-> req[job[w]]]
<1>1. PICK F : IsSum(F, f, S)
  BY SumExists
<1>2. f = [w \in S |-> req[job[w]]] /\ f = [w \in S |-> req[job2[w]]]
  OBVIOUS
<1> HIDE DEF f
<1>3. total(req, job, S) = F[S]
  BY <1>1, <1>2, TotalIs
<1>4. total(req, job2, S) = F[S]
  BY <1>1, <1>2, TotalIs
<1> QED
  BY <1>3, <1>4

LEMMA TotalStep ==
  ASSUME NEW S, IsFiniteSet(S), NEW req, NEW job,
         \A v \in S : req[job[v]] \in Nat, NEW w \in S
  PROVE  /\ total(req, job, S) = req[job[w]] + total(req, job, S \ {w})
         /\ total(req, job, S \ {w}) \in Nat
<1> DEFINE f == [v \in S |-> req[job[v]]]
<1>1. PICK F : IsSum(F, f, S)
  BY SumExists
<1>2. \A v \in S : f[v] = req[job[v]] /\ f[v] \in Nat
  OBVIOUS
<1>3. total(req, job, S) = F[S] /\ total(req, job, S \ {w}) = F[S \ {w}]
  BY <1>1, TotalIs
<1> HIDE DEF f
<1>4. F[S] = f[w] + F[S \ {w}] /\ F[S \ {w}] \in Nat
  BY <1>1, <1>2, SumStep, SumType
<1> QED
  BY <1>2, <1>3, <1>4

-----------------------------------------------------------------------------
(* One resource, of which used is reserved, and limit there is.            *)
Reserved(used, limit, req) ==
  used = total(req, wjob, Permitted) /\ used <= limit

LEMMA BudgetParts ==
  BudgetConserved <=> /\ Reserved(used_cpu, TOTAL_CPU, CpuRequired)
                      /\ Reserved(used_memory, TOTAL_MEMORY, MemoryRequired)
                      /\ active_jobs = Cardinality(Permitted)
BY DEF BudgetConserved, Reserved

LEMMA BudgetPartsNext ==
  BudgetConserved' <=> /\ Reserved(used_cpu, TOTAL_CPU, CpuRequired)'
                       /\ Reserved(used_memory, TOTAL_MEMORY, MemoryRequired)'
                       /\ active_jobs' = Cardinality(Permitted')
BY DEF BudgetConserved, Reserved

(* A worker with a permit has a job, and every job has its requirements.   *)
LEMMA PermittedRequire ==
  ASSUME TypeOK, NEW req \in [Jobs -> Nat], NEW v \in Worker, wpc[v] # "off"
  PROVE  req[wjob[v]] \in Nat
BY DEF TypeOK, WorkerTypeOK

LEMMA ReserveStep ==
  ASSUME TypeOK, NEW req \in [Jobs -> Nat], NEW limit \in Nat,
         NEW used, Reserved(used, limit, req),
         NEW w \in Worker, wpc[w] = "wait",
         Permitted' = Permitted \cup {w}, UNCHANGED wjob,
         used + req[wjob[w]] <= limit
  PROVE  /\ used + req[wjob[w]] = total(req, wjob', Permitted')
         /\ used + req[wjob[w]] <= limit
<1>1. w \notin Permitted
  BY DEF Permitted, PermitSteps, SlotSteps, LoopSteps
<1>2. IsFiniteSet(Permitted') /\ Permitted' \ {w} = Permitted /\ w \in Permitted'
  BY <1>1, PermittedFinite, FS_AddElement
<1>3. \A v \in Permitted \cup {w} : req[wjob[v]] \in Nat
  BY PermittedRequire DEF Permitted, PermitSteps, SlotSteps, LoopSteps
<1>4. /\ total(req, wjob, Permitted') =
           req[wjob[w]] + total(req, wjob, Permitted)
      /\ total(req, wjob, Permitted) \in Nat
  BY <1>2, <1>3, TotalStep
<1>5. req[wjob[w]] \in Nat
  BY <1>3
<1> QED
  BY <1>4, <1>5 DEF Reserved

(* The clamp at zero does nothing: what is given back was reserved.        *)
LEMMA ReturnStep ==
  ASSUME TypeOK, NEW req \in [Jobs -> Nat], NEW limit \in Nat,
         NEW used, Reserved(used, limit, req),
         NEW w \in Permitted, Permitted' = Permitted \ {w}, UNCHANGED wjob
  PROVE  /\ atLeastZero(used - req[wjob[w]]) = total(req, wjob', Permitted')
         /\ atLeastZero(used - req[wjob[w]]) <= limit
<1>1. \A v \in Permitted : req[wjob[v]] \in Nat
  BY PermittedRequire DEF Permitted, PermitSteps, SlotSteps, LoopSteps
<1>2. /\ total(req, wjob, Permitted) =
           req[wjob[w]] + total(req, wjob, Permitted \ {w})
      /\ total(req, wjob, Permitted \ {w}) \in Nat
  BY <1>1, PermittedFinite, TotalStep
<1>3. req[wjob[w]] \in Nat
  BY <1>1
<1> QED
  BY <1>2, <1>3 DEF Reserved, atLeastZero

LEMMA BudgetInit == Init => BudgetConserved
<1> SUFFICES ASSUME Init PROVE BudgetConserved
  OBVIOUS
<1>1. Permitted = {}
  BY DEF Init, Permitted, PermitSteps, SlotSteps, LoopSteps
<1>2. \A req : total(req, wjob, Permitted) = 0
  BY <1>1, TotalOfNone
<1> QED
  BY <1>1, <1>2, BudgetParts, FS_EmptySet, ResourceAssumption
     DEF Init, ResourceInit, Reserved

(* A step that lets no worker get or give back anything.                   *)
LEMMA BudgetSame ==
  ASSUME BudgetConserved, Permitted' = Permitted,
         UNCHANGED <<used_cpu, used_memory, active_jobs>>,
         \A v \in Permitted : wjob'[v] = wjob[v]
  PROVE  BudgetConserved'
<1>1. \A req : total(req, wjob', Permitted) = total(req, wjob, Permitted)
  BY PermittedFinite, TotalSame
<1>2. /\ used_cpu' = total(CpuRequired, wjob', Permitted')
      /\ used_memory' = total(MemoryRequired, wjob', Permitted')
  BY <1>1, BudgetParts DEF Reserved
<1> QED
  BY <1>2, BudgetParts, BudgetPartsNext DEF Reserved

LEMMA BudgetWorker ==
  ASSUME TypeOK, BudgetConserved, NEW w \in Worker, workerStep(w)
  PROVE  BudgetConserved'
<1>0. /\ CpuRequired \in [Jobs -> Nat] /\ MemoryRequired \in [Jobs -> Nat]
      /\ TOTAL_CPU \in Nat /\ TOTAL_MEMORY \in Nat
      /\ used_cpu \in Nat /\ used_memory \in Nat
  BY JobAssumption, ResourceAssumption DEF TypeOK, ResourceTypeOK
<1>1. CASE /\ Acquire(w)
           /\ w \notin Permitted
           /\ Permitted' = Permitted \cup {w}
  <2>1. /\ wpc[w] = "wait" /\ UNCHANGED wjob
        /\ acquire(CpuRequired[wjob[w]], MemoryRequired[wjob[w]])
    BY <1>1 DEF Acquire, go, localVars
  <2>2. active_jobs' = Cardinality(Permitted')
    <3>1. Cardinality(Permitted') = Cardinality(Permitted) + 1
      BY <1>1, PermittedFinite, FS_AddElement
    <3> QED
      BY <2>1, <3>1, BudgetParts DEF acquire
  <2>3. /\ used_cpu' = total(CpuRequired, wjob', Permitted')
        /\ used_cpu' <= TOTAL_CPU
    BY <1>0, <1>1, <2>1, ReserveStep, BudgetParts DEF acquire, fits
  <2>4. /\ used_memory' = total(MemoryRequired, wjob', Permitted')
        /\ used_memory' <= TOTAL_MEMORY
    BY <1>0, <1>1, <2>1, ReserveStep, BudgetParts DEF acquire, fits
  <2> QED
    BY <2>2, <2>3, <2>4, BudgetPartsNext DEF Reserved
<1>2. CASE /\ Release(w)
           /\ w \in Permitted
           /\ Permitted' = Permitted \ {w}
  <2>1. /\ UNCHANGED wjob
        /\ release(CpuRequired[wjob[w]], MemoryRequired[wjob[w]])
    BY <1>2 DEF Release, localVars
  <2>2. active_jobs' = Cardinality(Permitted')
    <3>1. /\ Cardinality(Permitted') = Cardinality(Permitted) - 1
          /\ Cardinality(Permitted') \in Nat
      BY <1>2, PermittedFinite, FS_RemoveElement, FS_CardinalityType
    <3> QED
      BY <2>1, <3>1, BudgetParts, PermittedFinite DEF release, atLeastZero
  <2>3. /\ used_cpu' = total(CpuRequired, wjob', Permitted')
        /\ used_cpu' <= TOTAL_CPU
    BY <1>0, <1>2, <2>1, ReturnStep, BudgetParts DEF release
  <2>4. /\ used_memory' = total(MemoryRequired, wjob', Permitted')
        /\ used_memory' <= TOTAL_MEMORY
    BY <1>0, <1>2, <2>1, ReturnStep, BudgetParts DEF release
  <2> QED
    BY <2>2, <2>3, <2>4, BudgetPartsNext DEF Reserved
<1>3. CASE Permitted' = Permitted /\ UNCHANGED budgetVars
  <2>1. \A v \in Permitted : wjob'[v] = wjob[v]
    <3>1. CASE Fail(w) \/ Finish(w)
      BY <3>1
         DEF Fail, Finish, leave, go, Permitted, PermitSteps, SlotSteps,
             LoopSteps, TypeOK, WorkerTypeOK
    <3>2. CASE UNCHANGED wjob
      BY <3>2
    <3> QED
      BY <3>1, <3>2
         DEF workerStep, Acquire, HintSlot, ClaimSlot, MarkRunning, ShowBusy,
             TestLoop, RunTick, ExpireQuantum, ClearActive, HideBusy, Release,
             localVars
  <2> QED
    BY <1>3, <2>1, BudgetSame DEF budgetVars
<1> QED
  BY <1>1, <1>2, <1>3, WorkerPermits

LEMMA BudgetNext == TypeOK /\ BudgetConserved /\ [Next]_vars => BudgetConserved'
<1> SUFFICES ASSUME TypeOK, BudgetConserved, [Next]_vars PROVE BudgetConserved'
  OBVIOUS
<1>1. CASE GuiStep \/ Dispatcher \/ Aging
  <2>1. Permitted' = Permitted /\ UNCHANGED budgetVars
    BY <1>1, OthersHoldNothing, SamePermitted
       DEF PermitSteps, SlotSteps, LoopSteps
  <2>2. \A v \in Permitted : wjob'[v] = wjob[v]
    BY <1>1, OthersHoldNothing DEF Permitted, PermitSteps, SlotSteps, LoopSteps
  <2> QED
    BY <2>1, <2>2, BudgetSame DEF budgetVars
<1>2. CASE UNCHANGED vars
  <2>1. Permitted' = Permitted /\ UNCHANGED <<budgetVars, wjob>>
    BY <1>2 DEF vars, workerVars, localVars, resourceVars, Permitted
  <2> QED
    BY <2>1, BudgetSame DEF budgetVars
<1> QED
  BY <1>1, <1>2, BudgetWorker DEF Next, GuiStep

(* What is reserved is what the jobs with a permit require, and never more *)
(* than there is, for any number of jobs and whatever they require.        *)
THEOREM BudgetAddsUp == Spec => []BudgetConserved
BY TypeCorrect, BudgetInit, BudgetNext, PTL DEF Spec

-----------------------------------------------------------------------------
(* Only Fail makes a job FAILED, and it finds the budget short.            *)
LEMMA FailStep ==
  ASSUME FieldInv, BudgetConserved, Next, NEW w \in Worker, wpc[w] = "wait",
         status'[wjob[w]] = "FAILED",
         CpuRequired[wjob[w]] <= TOTAL_CPU,
         MemoryRequired[wjob[w]] <= TOTAL_MEMORY
  PROVE  Permitted # {}
<1> USE DEF FieldInv, PlaceInv
<1> DEFINE j == wjob[w]
<1>1. j \in Jobs /\ status[j] = "READY"
  BY DEF WorkerKnows, StartingReady, EarlySteps, TypeOK, WorkerTypeOK
<1>2. PICK v \in Worker : Fail(v) /\ wjob[v] = j
  <2>1. CASE GuiStep
    BY <1>1, <2>1
       DEF GuiStep, SubmitJob, pushNew, Stop, StopReturns, jobVars, queueVars,
           TypeOK, QueueTypeOK
  <2>2. CASE Dispatcher
    BY <1>1, <2>2
       DEF Dispatcher, DispatchTop, DispatchTick, DispatchScan, DispatchProbe,
           DispatchCas, DispatchPopEmpty, DispatchPop, DispatchSpawn,
           tickLevel, queueVars, TypeOK, QueueTypeOK
  <2>3. CASE Aging
    BY <1>1, <2>3 DEF Aging, AgingWake, AgingDrain, AgingPush, atAging
  <2>4. ASSUME NEW v \in Worker, workerStep(v)
        PROVE  Fail(v) /\ wjob[v] = j
    BY <1>1, <2>4
       DEF workerStep, Acquire, Fail, HintSlot, ClaimSlot, MarkRunning,
           ShowBusy, TestLoop, RunTick, ExpireQuantum, ClearActive, HideBusy,
           Release, Finish, leave, go, requeuePreempted, jobVars, queueVars,
           TypeOK, QueueTypeOK, WorkerTypeOK
  <2> QED
    BY <2>1, <2>2, <2>3, <2>4 DEF Next, GuiStep
<1>3. ~ fits(CpuRequired[j], MemoryRequired[j])
  BY <1>2 DEF Fail, refuse
<1>4. Permitted = {} => used_cpu = 0 /\ used_memory = 0
  BY BudgetParts, TotalOfNone DEF Reserved
<1>5. CpuRequired[j] \in Nat /\ MemoryRequired[j] \in Nat
  BY <1>1, JobAssumption
<1> QED
  BY <1>3, <1>4, <1>5 DEF fits

(* A job that fits the machine is refused only because of others, for any  *)
(* budget and any requirements: nothing leaks away over a long run.        *)
THEOREM FailureHasCause == Spec => FailsOnlyWhenTaken
<1>1. FieldInv /\ BudgetConserved /\ [Next]_vars =>
         [\A w \in Worker :
            LET j == wjob[w]
            IN /\ wpc[w] = "wait" /\ status'[j] = "FAILED"
               /\ CpuRequired[j] <= TOTAL_CPU
               /\ MemoryRequired[j] <= TOTAL_MEMORY
               => Permitted # {}]_vars
  BY FailStep
<1> QED
  BY <1>1, FieldInvariant, BudgetAddsUp, PTL DEF Spec, FailsOnlyWhenTaken

=============================================================================
