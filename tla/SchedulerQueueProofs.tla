------------------------ MODULE SchedulerQueueProofs ------------------------
(***************************************************************************)
(* The threads of Scheduler use the queue as QueueSpec lets its callers,   *)
(* for any jobs, levels, slots and worker threads: a refinement, step by   *)
(* step.                                                                   *)
(***************************************************************************)
EXTENDS SchedulerSlotProofs, SchedulerQueue

(* What stands for the variables of QueueSpec.                             *)
absStatus ==
  [j \in Jobs |-> IF status[j] = "WAITING" THEN "WAITING" ELSE "READY"]

absOut == {j \in Jobs : status[j] # "WAITING"} \ (Queued \cup aged)

absDpc == IF dpc = "probe" THEN "probe"
          ELSE IF dpc = "pop" /\ didx # 0 THEN "pop"
          ELSE "idle"

absDlvl == IF dpc = "pop" THEN didx ELSE dlvl

absAsked ==
  IF dpc = "probe"
  THEN [lvl |-> mlfq_level[active[didx]], prio |-> PriorityOf[active[didx]]]
  ELSE [lvl |-> 0, prio |-> 0]

absBetter == dpc = "cas"

absApc == IF apc = "done" THEN "sleep" ELSE apc

absCall == <<absDpc, absDlvl, absAsked, absBetter>>

absVars == <<level, mlfq_level, ticks_this_slice, aging_ticks, absStatus, absOut,
             absCall, absApc, alvl, aged>>

(* The definitions of module Job are the same on both sides, ...           *)
LEMMA SameJob ==
  /\ Queue!Levels = Levels /\ Queue!LastLevel = LastLevel
  /\ \A i, j : Queue!Precedes(i, j) <=> Precedes(i, j)
  /\ \A j, S : Queue!IsFirst(j, S) <=> IsFirst(j, S)
  /\ \A l, n : Queue!quantumExpired(l, n) <=> quantumExpired(l, n)
  /\ Queue!NotAsked = [lvl |-> 0, prio |-> 0]
BY DEF Queue!Levels, Levels, Queue!LastLevel, LastLevel, Queue!Precedes,
       Precedes, Queue!IsFirst, IsFirst, Queue!quantumExpired, quantumExpired,
       Queue!NotAsked

LEMMA SameSize == \A S : Queue!Cardinality(S) = Cardinality(S)
BY Zenon DEF Queue!Cardinality, Cardinality

(* ... and those of module MLFQ that do not touch the status.              *)
LEMMA SameQueueOps ==
  /\ \A l : Queue!agedIn(l) = agedIn(l)
  /\ \A l, A : Queue!drainAged(l, A) <=> drainAged(l, A)
  /\ \A l, j : Queue!popFirst(l, j) <=> popFirst(l, j)
  /\ \A l, j : Queue!enterLevel(l, j) <=> enterLevel(l, j)
  /\ \A l : Queue!tickLevel(l) <=> tickLevel(l)
  /\ \A l, m, p : Queue!isBetterCandidate(l, m, p) <=> isBetterCandidate(l, m, p)
  /\ \A j, d : Queue!demotedLevel(j, d) = demotedLevel(j, d)
<1>1. \A l : Queue!agedIn(l) = agedIn(l)
  BY DEF Queue!agedIn, agedIn
<1>2. \A l, A : Queue!isDrained(l, A) <=> isDrained(l, A)
  BY <1>1, SameJob, SameSize, Zenon DEF Queue!isDrained, isDrained
<1>3. \A l, A : Queue!drainAged(l, A) <=> drainAged(l, A)
  BY <1>2 DEF Queue!drainAged, drainAged
<1>4. \A l, j : Queue!popFirst(l, j) <=> popFirst(l, j)
  BY SameJob DEF Queue!popFirst, popFirst
<1>5. \A l, j : Queue!enterLevel(l, j) <=> enterLevel(l, j)
  BY DEF Queue!enterLevel, enterLevel, Queue!push, push
<1>6. /\ \A l : Queue!tickLevel(l) <=> tickLevel(l)
      /\ \A l, m, p : Queue!isBetterCandidate(l, m, p) <=> isBetterCandidate(l, m, p)
  BY DEF Queue!tickLevel, tickLevel, Queue!isBetterCandidate, isBetterCandidate
<1>7. \A j, d : Queue!demotedLevel(j, d) = demotedLevel(j, d)
  BY SameJob DEF Queue!demotedLevel, demotedLevel
<1> QED
  BY <1>1, <1>3, <1>4, <1>5, <1>6, <1>7

LEMMA AbsStutter ==
  ASSUME UNCHANGED absVars
  PROVE  UNCHANGED Queue!specVars
BY DEF absVars, absStatus, absOut, absCall, absDpc, absDlvl, absAsked,
       absBetter, absApc, Queue!specVars, Queue!queueVars, Queue!dispatchVars,
       Queue!drainVars

-----------------------------------------------------------------------------
(* The invariant: what the threads know of jobs, slots and candidates, and *)
(* that the aging thread begins with level 1.                              *)
AgingAtTop == apc \in {"sleep", "done"} => alvl = 1

CallInv == FieldInv /\ SlotExclusive /\ CandidateKnown /\ AgingAtTop

LEMMA AgingInit == Init => AgingAtTop
BY DEF Init, AgingAtTop

LEMMA AgingNext == AgingAtTop /\ [Next]_vars => AgingAtTop'
<1> SUFFICES ASSUME AgingAtTop, [Next]_vars PROVE AgingAtTop'
  OBVIOUS
<1>1. CASE Aging
  BY <1>1
     DEF Aging, AgingWake, AgingDrain, AgingPush, atAging, nextLevel, AgingAtTop
<1>2. CASE GuiStep \/ Dispatcher \/ UNCHANGED vars
  BY <1>2
     DEF GuiStep, SubmitJob, Stop, StopReturns, guiFrame, Dispatcher,
         DispatchTop, DispatchTick, DispatchScan, DispatchProbe, DispatchCas,
         DispatchPopEmpty, DispatchPop, DispatchSpawn, atDispatch, agingVars,
         vars, AgingAtTop
<1>3. ASSUME NEW w \in Worker, workerStep(w)
      PROVE  AgingAtTop'
  BY <1>3
     DEF workerStep, Acquire, Fail, HintSlot, ClaimSlot, MarkRunning, ShowBusy,
         TestLoop, RunTick, ExpireQuantum, ClearActive, HideBusy, Release,
         Finish, leave, go, agingVars, AgingAtTop
<1> QED
  BY <1>1, <1>2, <1>3 DEF Next, GuiStep

LEMMA CallInvariant == Spec => []CallInv
<1>1. AgingAtTop /\ [Next]_vars => AgingAtTop'
  BY AgingNext
<1>2. Spec => []AgingAtTop
  BY <1>1, AgingInit, PTL DEF Spec
<1> QED
  BY <1>2, FieldInvariant, SlotsAreExclusive, CandidateInvariant, PTL DEF CallInv

-----------------------------------------------------------------------------
(* What happens to the jobs that are out.                                  *)

(* A job someone owns is out.                                              *)
LEMMA OwnedIsOut ==
  ASSUME CallInv, NEW j \in Owned
  PROVE  /\ j \in Jobs /\ j \notin Held /\ status[j] # "WAITING"
         /\ j \in absOut
<1> USE DEF CallInv, FieldInv, PlaceInv
<1>1. j \in Jobs /\ j \notin Held
  BY OwnedInJobs, OnePlaceParts DEF TypeOK
<1>2. status[j] # "WAITING"
  BY <1>1 DEF Accounted, JobsAccounted
<1> QED
  BY <1>1, <1>2 DEF absOut, Held

LEMMA WorkerOwns ==
  ASSUME CallInv, NEW w \in Worker, wpc[w] \in OwnerSteps
  PROVE  wjob[w] \in Owned
BY DEF Owned

(* A job that waits, between two levels too, is submitted.                 *)
LEMMA WaitingIsHeld ==
  ASSUME CallInv, NEW j \in Queued \cup aged
  PROVE  j \in Jobs /\ status[j] = "READY"
BY QueuedMembers
   DEF CallInv, FieldInv, PlaceInv, TypeOK, QueueTypeOK, AgingTypeOK,
       WaitersKnow, QueuedFresh, Held

(* A step that submits no job and moves none.                              *)
LEMMA SameOut ==
  ASSUME \A j \in Jobs : status'[j] = "WAITING" <=> status[j] = "WAITING",
         Queued' \cup aged' = Queued \cup aged
  PROVE  UNCHANGED <<absStatus, absOut>>
BY DEF absStatus, absOut

(* A step of another thread leaves the call of the dispatcher alone.       *)
LEMMA SameCall ==
  ASSUME CallInv, Next, UNCHANGED <<dpc, didx, dlvl>>
  PROVE  UNCHANGED absCall
<1>1. UNCHANGED <<absDpc, absDlvl, absBetter>>
  BY DEF absDpc, absDlvl, absBetter
<1>2. CASE dpc # "probe"
  BY <1>1, <1>2 DEF absAsked, absCall
<1>3. CASE dpc = "probe"
  <2>1. didx \in SlotIds /\ active[didx] # NoJob
    BY <1>3 DEF CallInv, FieldInv, PlaceInv, TypeOK, DispatcherTypeOK
  <2>2. active' = active /\ mlfq_level'[active[didx]] = mlfq_level[active[didx]]
    BY <1>3, <2>1, EntryStays DEF CallInv, ActiveMutexFree
  <2> QED
    BY <1>1, <1>3, <2>2 DEF absAsked, absCall
<1> QED
  BY <1>2, <1>3

(* When it asks nothing it stands before level 0.                          *)
LEMMA IdleCall ==
  ASSUME CallInv, dpc \notin {"probe", "pop", "cas"}
  PROVE  /\ absDpc = "idle" /\ absDlvl = 0 /\ ~ absBetter
         /\ absAsked = [lvl |-> 0, prio |-> 0] /\ dlvl = 0
BY DEF CallInv, CandidateKnown, absDpc, absDlvl, absBetter, absAsked

(* So it does after checkPreemptions went on to the next slot.             *)
LEMMA NextSlotCall ==
  ASSUME nextSlot
  PROVE  /\ absDpc' = "idle" /\ absDlvl' = 0 /\ absBetter' = FALSE
         /\ absAsked' = [lvl |-> 0, prio |-> 0]
BY DEF nextSlot, absDpc, absDlvl, absBetter, absAsked

-----------------------------------------------------------------------------
(* The steps of the GUI thread.                                            *)

LEMMA RefineSubmit ==
  ASSUME CallInv, Next, NEW j \in Jobs, SubmitJob(j)
  PROVE  Queue!SpecNext
<1> USE DEF CallInv, FieldInv, PlaceInv
<1>1. /\ status[j] = "WAITING" /\ enterLevel(0, j)
      /\ status' = [status EXCEPT ![j] = "READY"]
      /\ UNCHANGED <<dpc, didx, dlvl, apc, alvl, aged>>
  BY DEF SubmitJob, pushNew, guiFrame, dispatcherVars, agingVars
<1>2. j \notin Held
  BY <1>1 DEF Accounted, JobsAccounted
<1>3. Queued' = Queued \cup {j}
  BY <1>1, <1>2, PushQueued, ConstantFacts
     DEF enterLevel, Held, OnePlace, TypeOK, QueueTypeOK
<1>4. \A k \in Jobs : status'[k] = IF k = j THEN "READY" ELSE status[k]
  BY <1>1 DEF TypeOK, QueueTypeOK
<1>5. absOut' = absOut
  BY <1>1, <1>2, <1>3, <1>4 DEF absOut
<1>6. absStatus[j] = "WAITING" /\ absStatus' = [absStatus EXCEPT ![j] = "READY"]
  BY <1>1, <1>4 DEF absStatus
<1>7. UNCHANGED <<absCall, absApc, alvl, aged>>
  BY <1>1, SameCall DEF absApc
<1>8. Queue!pushNew(j)
  BY <1>1, <1>6, SameQueueOps DEF Queue!pushNew, absStatus
<1>9. Queue!PushNew(j)
  BY <1>5, <1>6, <1>7, <1>8
     DEF Queue!PushNew, Queue!dispatchVars, Queue!drainVars, absStatus, absOut,
         absCall, absDpc, absDlvl, absAsked, absBetter, absApc
<1> QED
  BY <1>9 DEF Queue!SpecNext

LEMMA RefineStop ==
  ASSUME CallInv, Next, Stop \/ StopReturns
  PROVE  UNCHANGED absVars
<1>1. UNCHANGED <<queueVars, dpc, didx, dlvl, apc, alvl, aged>>
  BY DEF Stop, StopReturns, guiFrame, jobVars, dispatcherVars, agingVars
<1>2. UNCHANGED <<absStatus, absOut>>
  BY <1>1, SameOut, SameQueued DEF queueVars
<1> QED
  BY <1>1, <1>2, SameCall DEF absVars, absApc, queueVars

-----------------------------------------------------------------------------
(* The steps of the dispatcher.                                            *)

(* They leave the aging thread alone, and but for the pop and the CAS they *)
(* leave the jobs alone.                                                   *)
LEMMA DispatchFrame ==
  ASSUME UNCHANGED <<level, status, agingVars>>
  PROVE  UNCHANGED <<absStatus, absOut, absApc, alvl, aged>>
<1>1. Queued' = Queued /\ UNCHANGED <<status, apc, alvl, aged>>
  BY SameQueued DEF agingVars
<1> QED
  BY <1>1 DEF absStatus, absOut, absApc

LEMMA RefineTop ==
  ASSUME CallInv, \/ DispatchTop
                  \/ \E w \in Worker : DispatchSpawn(w)
  PROVE  UNCHANGED absVars
<1>1. /\ dpc \in {"top", "spawn"} /\ dpc' \in {"ticks", "scan", "done", "top"}
      /\ UNCHANGED <<queueVars, dlvl, agingVars>>
  BY DEF DispatchTop, DispatchSpawn, atDispatch
<1>2. UNCHANGED <<absStatus, absOut, absApc, alvl, aged>>
  BY <1>1, DispatchFrame DEF queueVars
<1>3. UNCHANGED absCall
  <2>1. dlvl = 0 /\ dlvl' = 0
    BY <1>1, IdleCall
  <2> QED
    BY <1>1, <2>1 DEF absCall, absDpc, absDlvl, absAsked, absBetter
<1> QED
  BY <1>1, <1>2, <1>3 DEF absVars, queueVars

LEMMA RefineTick ==
  ASSUME CallInv, DispatchTick
  PROVE  Queue!SpecNext
<1>1. /\ dpc = "ticks" /\ dpc' \in {"ticks", "scan"} /\ tickLevel(didx)
      /\ UNCHANGED <<level, mlfq_level, ticks_this_slice, status, dlvl, agingVars>>
      /\ didx \in Levels
  BY DEF DispatchTick, atDispatch, CallInv, FieldInv, PlaceInv, TypeOK,
         DispatcherTypeOK
<1>2. UNCHANGED <<absStatus, absOut, absApc, alvl, aged>>
  BY <1>1, DispatchFrame
<1>3. UNCHANGED absCall
  <2>1. dlvl = 0 /\ dlvl' = 0
    BY <1>1, IdleCall
  <2> QED
    BY <1>1, <2>1 DEF absCall, absDpc, absDlvl, absAsked, absBetter
<1>4. absDpc = "idle"
  BY <1>1 DEF absDpc
<1>5. Queue!Tick(didx)
  BY <1>1, <1>2, <1>3, <1>4, SameQueueOps
     DEF Queue!Tick, Queue!dispatchVars, Queue!drainVars, absStatus, absOut,
         absCall, absDpc, absDlvl, absAsked, absBetter, absApc
<1> QED
  BY <1>1, <1>5, SameJob DEF Queue!SpecNext

(* The entry the dispatcher looks at is that of a job someone owns.        *)
LEMMA EntryIsOwned ==
  ASSUME CallInv, NEW s \in SlotIds, active[s] # NoJob
  PROVE  active[s] \in Owned
<1>1. PICK w \in Worker : wpc[w] \in SlotSteps /\ active[s] = wjob[w]
  BY DEF CallInv, SlotExclusive
<1> QED
  BY <1>1, WorkerOwns DEF OwnerSteps, PermitSteps

LEMMA RefineScan ==
  ASSUME CallInv, DispatchScan
  PROVE  Queue!SpecNext \/ UNCHANGED absVars
<1>1. /\ dpc = "scan" /\ UNCHANGED <<queueVars, active, agingVars>>
      /\ didx \in SlotIds
  BY DEF DispatchScan, atDispatch, CallInv, FieldInv, PlaceInv, TypeOK,
         DispatcherTypeOK
<1>2. UNCHANGED <<absStatus, absOut, absApc, alvl, aged>>
  BY <1>1, DispatchFrame DEF queueVars
<1>3. /\ absDpc = "idle" /\ absDlvl = 0 /\ absBetter = FALSE /\ dlvl = 0
      /\ absAsked = [lvl |-> 0, prio |-> 0]
  BY <1>1, IdleCall DEF absBetter
<1>4. CASE nextSlot
  <2>1. UNCHANGED absCall
    BY <1>3, <1>4, NextSlotCall DEF absCall
  <2> QED
    BY <1>1, <1>2, <2>1 DEF absVars, queueVars
<1>5. CASE ~ nextSlot
  <2>1. active[didx] # NoJob /\ dpc' = "probe" /\ UNCHANGED <<didx, dlvl>>
    BY <1>5 DEF DispatchScan
  <2>2. PICK j \in Jobs : j = active[didx] /\ j \in absOut
    BY <1>1, <2>1, EntryIsOwned, OwnedIsOut
  <2>3. /\ absDpc' = "probe" /\ absDlvl' = 0 /\ absBetter' = absBetter
        /\ absAsked' = [lvl |-> mlfq_level[j], prio |-> PriorityOf[j]]
    BY <1>1, <1>3, <2>1, <2>2
       DEF absDpc, absDlvl, absAsked, absBetter, queueVars
  <2>4. Queue!Ask(j)
    BY <1>1, <1>2, <1>3, <2>2, <2>3
       DEF Queue!Ask, Queue!queueVars, Queue!drainVars, absStatus, absOut,
           absDpc, absDlvl, absAsked, absBetter, absApc, queueVars
  <2> QED
    BY <2>4 DEF Queue!SpecNext
<1> QED
  BY <1>4, <1>5

LEMMA RefineProbe ==
  ASSUME CallInv, DispatchProbe
  PROVE  Queue!SpecNext
<1> DEFINE j == active[didx]
           found == isBetterCandidate(dlvl, mlfq_level[j], PriorityOf[j])
<1>1. /\ dpc = "probe" /\ UNCHANGED <<queueVars, active, agingVars>>
      /\ j \in Jobs
  BY DEF DispatchProbe, atDispatch, CallInv, FieldInv, PlaceInv, TypeOK,
         DispatcherTypeOK, ThreadTypeOK
<1>2. UNCHANGED <<absStatus, absOut, absApc, alvl, aged>>
  BY <1>1, DispatchFrame DEF queueVars
<1>3. /\ absDpc = "probe" /\ absDlvl = dlvl /\ absBetter = FALSE
      /\ absAsked.lvl = mlfq_level[j] /\ absAsked.prio = PriorityOf[j]
  BY <1>1 DEF absDpc, absDlvl, absBetter, absAsked
<1>4. /\ dlvl \in Nat /\ mlfq_level[j] \in Nat /\ dlvl <= mlfq_level[j]
      /\ found \in BOOLEAN
  BY <1>1, ConstantFacts
     DEF CallInv, CandidateKnown, FieldInv, PlaceInv, TypeOK, DispatcherTypeOK,
         QueueTypeOK, isBetterCandidate
<1>5. \/ found /\ dpc' = "cas" /\ dlvl' = 0
      \/ /\ ~ found /\ dlvl < mlfq_level[j]
         /\ dlvl' = dlvl + 1 /\ UNCHANGED <<dpc, didx>>
      \/ ~ found /\ ~ (dlvl < mlfq_level[j]) /\ nextSlot
  BY DEF DispatchProbe
<1> HIDE DEF found
<1>6. IF found \/ absDlvl = absAsked.lvl
      THEN /\ absDpc' = "idle" /\ absDlvl' = 0
           /\ absAsked' = Queue!NotAsked /\ absBetter' = found
      ELSE absDlvl' = absDlvl + 1 /\ UNCHANGED <<absDpc, absAsked, absBetter>>
  <2>1. CASE found /\ dpc' = "cas" /\ dlvl' = 0
    BY <2>1, SameJob DEF absDpc, absDlvl, absAsked, absBetter
  <2>2. CASE /\ ~ found /\ dlvl < mlfq_level[j]
             /\ dlvl' = dlvl + 1 /\ UNCHANGED <<dpc, didx>>
    <3>1. dlvl # mlfq_level[j]
      BY <1>4, <2>2
    <3>2. absDlvl' = dlvl + 1 /\ UNCHANGED <<absDpc, absAsked, absBetter>>
      BY <1>1, <2>2 DEF absDpc, absDlvl, absAsked, absBetter, queueVars
    <3> QED
      BY <1>3, <2>2, <3>1, <3>2
  <2>3. CASE ~ found /\ ~ (dlvl < mlfq_level[j]) /\ nextSlot
    <3>1. dlvl = mlfq_level[j]
      BY <1>4, <2>3
    <3> QED
      BY <1>3, <1>4, <2>3, <3>1, NextSlotCall, SameJob
  <2> QED
    BY <1>5, <2>1, <2>2, <2>3
<1>7. found <=> Queue!isBetterCandidate(absDlvl, absAsked.lvl, absAsked.prio)
  BY <1>3, SameQueueOps DEF found
<1>8. Queue!Probe
  <2>1. found = Queue!isBetterCandidate(absDlvl, absAsked.lvl, absAsked.prio)
    BY <1>4, <1>7 DEF Queue!isBetterCandidate
  <2> QED
    BY <1>1, <1>2, <1>3, <1>6, <2>1
       DEF Queue!Probe, Queue!queueVars, Queue!drainVars, absStatus, absOut,
           absDpc, absDlvl, absAsked, absBetter, absApc, queueVars
<1> QED
  BY <1>8 DEF Queue!SpecNext

(* After the CAS the answer of hasBetterCandidate is no longer needed.     *)
LEMMA RefineCas ==
  ASSUME CallInv, DispatchCas
  PROVE  Queue!SpecNext
<1>1. /\ dpc = "cas" /\ UNCHANGED <<level, fieldVars, active, agingVars>>
      /\ nextSlot /\ dlvl = 0
      /\ \/ status' = status
         \/ /\ status[active[didx]] = "RUNNING"
            /\ status' = [status EXCEPT ![active[didx]] = "PREEMPTED"]
  <2>1. dpc = "cas" /\ dlvl = 0
    BY DEF DispatchCas, atDispatch, CallInv, CandidateKnown
  <2> QED
    BY <2>1 DEF DispatchCas, atDispatch
<1>2. \A j \in Jobs : status'[j] = "WAITING" <=> status[j] = "WAITING"
  BY <1>1 DEF CallInv, FieldInv, PlaceInv, TypeOK, QueueTypeOK
<1>3. UNCHANGED <<absStatus, absOut, absApc, alvl, aged>>
  <2>1. Queued' = Queued /\ UNCHANGED <<apc, alvl, aged>>
    BY <1>1, SameQueued DEF agingVars
  <2> QED
    BY <1>2, <2>1, SameOut DEF absApc
<1>4. /\ absDpc = "idle" /\ absDlvl = 0 /\ absBetter
      /\ absAsked = [lvl |-> 0, prio |-> 0]
  BY <1>1 DEF absDpc, absDlvl, absBetter, absAsked
<1>5. UNCHANGED <<absDpc, absDlvl, absAsked>> /\ absBetter' = FALSE
  BY <1>1, <1>4, NextSlotCall
<1>6. Queue!UseAnswer
  BY <1>1, <1>3, <1>4, <1>5
     DEF Queue!UseAnswer, Queue!queueVars, Queue!drainVars, absStatus, absOut,
         absDpc, absDlvl, absAsked, absBetter, absApc, fieldVars
<1> QED
  BY <1>6 DEF Queue!SpecNext

LEMMA RefinePop ==
  ASSUME CallInv, DispatchPopEmpty \/ DispatchPop
  PROVE  Queue!SpecNext
<1> USE DEF CallInv, FieldInv, PlaceInv
<1>1. /\ dpc = "pop" /\ dlvl = 0 /\ dlvl' = 0 /\ didx \in Levels /\ didx \in Nat
      /\ UNCHANGED <<fieldVars, status, agingVars>>
  <2>1. /\ dpc = "pop" /\ dlvl' = dlvl
        /\ UNCHANGED <<fieldVars, status, agingVars>>
    BY DEF DispatchPopEmpty, DispatchPop, atDispatch, queueVars, fieldVars
  <2>2. dlvl = 0 /\ didx \in Levels
    BY <2>1 DEF CandidateKnown, TypeOK, DispatcherTypeOK
  <2> QED
    BY <2>1, <2>2, ConstantFacts
<1>2. /\ absDpc \in {"idle", "pop"} /\ absDlvl = didx /\ absBetter = FALSE
      /\ absAsked = [lvl |-> 0, prio |-> 0]
  BY <1>1 DEF absDpc, absDlvl, absBetter, absAsked
<1>3. UNCHANGED <<absStatus, absApc, alvl, aged>>
  BY <1>1 DEF absStatus, absApc, agingVars
<1>4. CASE DispatchPopEmpty
  <2>1. /\ level[didx] = {} /\ UNCHANGED <<level, absOut>>
    BY <1>1, <1>4, DispatchFrame DEF DispatchPopEmpty, queueVars
  <2>2. IF absDlvl = LastLevel
        THEN absDpc' = "idle" /\ absDlvl' = 0
        ELSE absDpc' = "pop" /\ absDlvl' = absDlvl + 1
    BY <1>1, <1>2, <1>4 DEF DispatchPopEmpty, absDpc, absDlvl
  <2>3. UNCHANGED <<absAsked, absBetter>>
    BY <1>1, <1>2, <1>4 DEF DispatchPopEmpty, absAsked, absBetter
  <2>4. Queue!PopEmpty
    BY <1>1, <1>2, <1>3, <2>1, <2>2, <2>3, SameJob
       DEF Queue!PopEmpty, Queue!popping, Queue!queueVars, Queue!drainVars,
           fieldVars, absStatus, absOut, absDpc, absDlvl, absAsked, absBetter,
           absApc
  <2> QED
    BY <2>4 DEF Queue!SpecNext
<1>5. CASE DispatchPop
  <2>1. PICK j \in level[didx] : popFirst(didx, j)
    BY <1>5 DEF DispatchPop
  <2>2. j \in Jobs /\ j \in Queued /\ j \notin aged /\ status[j] # "WAITING"
    <3>1. j \in Queued
      BY <1>1, <2>1, QueuedMembers
    <3> QED
      BY <3>1, WaitingIsHeld DEF OnePlace
  <2>3. Queued' = Queued \ {j}
    <3>1. {j} \in SUBSET level[didx] /\ level' = [level EXCEPT ![didx] = @ \ {j}]
      BY <2>1 DEF popFirst
    <3>2. level \in [Levels -> SUBSET Jobs] /\ LevelsDisjoint
      BY DEF OnePlace, TypeOK, QueueTypeOK
    <3> QED
      BY <1>1, <3>1, <3>2, TakeQueued
  <2>4. absOut' = absOut \cup {j}
    BY <1>1, <2>2, <2>3 DEF absOut, agingVars
  <2>5. absDpc' = "idle" /\ absDlvl' = 0 /\ UNCHANGED <<absAsked, absBetter>>
    BY <1>1, <1>2, <1>5 DEF DispatchPop, absDpc, absDlvl, absAsked, absBetter
  <2>6. Queue!Pop
    BY <1>1, <1>2, <1>3, <2>1, <2>4, <2>5, SameQueueOps
       DEF Queue!Pop, Queue!popping, Queue!fieldVars, Queue!drainVars,
           fieldVars, absStatus, absOut, absDpc, absDlvl, absAsked, absBetter,
           absApc
  <2> QED
    BY <2>6 DEF Queue!SpecNext
<1> QED
  BY <1>4, <1>5

LEMMA RefineDispatcher ==
  ASSUME CallInv, Dispatcher
  PROVE  Queue!SpecNext \/ UNCHANGED absVars
BY RefineTop, RefineTick, RefineScan, RefineProbe, RefineCas, RefinePop
   DEF Dispatcher

-----------------------------------------------------------------------------
(* The steps of the aging thread.                                          *)

LEMMA SameNextLevel ==
  ASSUME nextLevel
  PROVE  Queue!nextAgingLevel
BY SameJob DEF nextLevel, Queue!nextAgingLevel, absApc

LEMMA RefineWake ==
  ASSUME CallInv, Next, AgingWake
  PROVE  Queue!SpecNext \/ UNCHANGED absVars
<1>1. /\ apc = "sleep" /\ alvl = 1 /\ alvl' = 1
      /\ apc' \in {"sleep", "done", "drain"}
      /\ UNCHANGED <<level, fieldVars, status, aged, dispatcherVars>>
  BY DEF AgingWake, atAging, CallInv, AgingAtTop
<1>2. UNCHANGED <<absStatus, absOut>>
  BY <1>1, SameQueued, SameOut
<1>3. UNCHANGED absCall
  BY <1>1, SameCall DEF dispatcherVars
<1>4. CASE apc' # "drain"
  BY <1>1, <1>2, <1>3, <1>4 DEF absVars, absApc, fieldVars
<1>5. CASE apc' = "drain"
  <2>1. absApc = "sleep" /\ absApc' = "drain"
    BY <1>1, <1>5 DEF absApc
  <2>2. Queue!StartAging
    BY <1>1, <1>2, <1>3, <2>1
       DEF Queue!StartAging, Queue!queueVars, Queue!dispatchVars, fieldVars,
           absStatus, absOut, absCall, absDpc, absDlvl, absAsked, absBetter,
           absApc
  <2> QED
    BY <2>2 DEF Queue!SpecNext
<1> QED
  BY <1>4, <1>5

LEMMA RefineDrain ==
  ASSUME CallInv, Next, AgingDrain
  PROVE  Queue!SpecNext
<1> USE DEF CallInv, FieldInv, PlaceInv
<1>1. /\ apc = "drain" /\ aged = {} /\ alvl \in Levels
      /\ UNCHANGED <<fieldVars, status, dispatcherVars>>
  BY DEF AgingDrain, atAging, TypeOK, AgingTypeOK
<1>2. PICK A \in SUBSET agedIn(alvl) : drainAged(alvl, A) /\ aged' = A
  BY DEF AgingDrain
<1>3. Queued' = Queued \ A /\ A \subseteq Queued
  <2>1. A \subseteq level[alvl]
    BY <1>2 DEF agedIn
  <2> QED
    BY <1>1, <1>2, <2>1, TakeQueued, QueuedMembers
       DEF drainAged, OnePlace, TypeOK, QueueTypeOK
<1>4. UNCHANGED <<absStatus, absOut>>
  BY <1>1, <1>2, <1>3, SameOut
<1>5. UNCHANGED absCall
  BY <1>1, SameCall DEF dispatcherVars
<1>6. IF aged' = {} THEN Queue!nextAgingLevel ELSE absApc' = "push" /\ UNCHANGED alvl
  BY SameNextLevel DEF AgingDrain, absApc
<1>7. /\ absApc = "drain"
      /\ \E B \in SUBSET Queue!agedIn(alvl) : Queue!drainAged(alvl, B) /\ aged' = B
  BY <1>1, <1>2, SameQueueOps DEF absApc
<1>8. Queue!Drain
  BY <1>1, <1>4, <1>5, <1>6, <1>7
     DEF Queue!Drain, Queue!fieldVars, Queue!dispatchVars, fieldVars, absStatus,
         absOut, absCall, absDpc, absDlvl, absAsked, absBetter, absApc
<1> QED
  BY <1>8 DEF Queue!SpecNext

LEMMA RefinePromote ==
  ASSUME CallInv, Next, AgingPush
  PROVE  Queue!SpecNext
<1> USE DEF CallInv, FieldInv, PlaceInv
<1>1. /\ apc = "push" /\ alvl - 1 \in Levels
      /\ UNCHANGED <<status, dispatcherVars>>
  BY ConstantFacts DEF AgingPush, atAging, TypeOK, AgingTypeOK
<1>2. PICK j \in aged :
        /\ IsFirst(j, aged) /\ enterLevel(alvl - 1, j) /\ aged' = aged \ {j}
  BY DEF AgingPush, promote
<1>3. Queued' = Queued \cup {j}
  BY <1>1, <1>2, PushQueued
     DEF enterLevel, OnePlace, TypeOK, QueueTypeOK, AgingTypeOK
<1>4. UNCHANGED <<absStatus, absOut>>
  <2>1. Queued' \cup aged' = Queued \cup aged
    BY <1>2, <1>3
  <2> QED
    BY <1>1, <2>1, SameOut
<1>5. UNCHANGED absCall
  BY <1>1, SameCall DEF dispatcherVars
<1>6. IF aged' = {} THEN Queue!nextAgingLevel ELSE UNCHANGED <<absApc, alvl>>
  BY SameNextLevel DEF AgingPush, absApc
<1>7. Queue!IsFirst(j, aged) /\ Queue!promote(alvl, j) /\ absApc = "push"
  BY <1>1, <1>2, SameJob, SameQueueOps DEF Queue!promote, absApc
<1>8. Queue!Promote
  BY <1>1, <1>2, <1>4, <1>5, <1>6, <1>7
     DEF Queue!Promote, Queue!dispatchVars, absStatus, absOut, absCall, absDpc,
         absDlvl, absAsked, absBetter, absApc
<1> QED
  BY <1>8 DEF Queue!SpecNext

-----------------------------------------------------------------------------
(* The steps of the workers.                                               *)

(* Most of them do not touch the queue.                                    *)
LEMMA RefineQuiet ==
  ASSUME CallInv, Next, UNCHANGED <<level, fieldVars, dispatcherVars, agingVars>>,
         \A j \in Jobs : status'[j] = "WAITING" <=> status[j] = "WAITING"
  PROVE  UNCHANGED absVars
<1>1. UNCHANGED <<absStatus, absOut>>
  BY SameQueued, SameOut DEF agingVars
<1>2. UNCHANGED absCall
  BY SameCall DEF dispatcherVars
<1> QED
  BY <1>1, <1>2 DEF absVars, absApc, fieldVars, agingVars

(* A tick of the slice is counted for a job that is out.                   *)
LEMMA RefineRun ==
  ASSUME CallInv, Next, NEW w \in Worker, RunTick(w)
  PROVE  Queue!SpecNext \/ UNCHANGED absVars
<1>1. /\ wpc[w] = "look"
      /\ UNCHANGED <<level, mlfq_level, aging_ticks, status, dispatcherVars, agingVars>>
  BY DEF RunTick, go
<1>2. PICK j \in Jobs : j = wjob[w] /\ j \in absOut
  BY <1>1, WorkerOwns, OwnedIsOut
     DEF OwnerSteps, PermitSteps, SlotSteps, LoopSteps
<1>3. CASE UNCHANGED ticks_this_slice
  BY <1>1, <1>3, RefineQuiet DEF fieldVars
<1>4. CASE ticks_this_slice' # ticks_this_slice
  <2>1. /\ ~ quantumExpired(mlfq_level[j], ticks_this_slice[j])
        /\ ticks_this_slice' = [ticks_this_slice EXCEPT ![j] = @ + 1]
    BY <1>2, <1>4 DEF RunTick
  <2>2. UNCHANGED <<absStatus, absOut, absApc, alvl, aged>>
    BY <1>1, DispatchFrame
  <2>3. UNCHANGED absCall
    BY <1>1, SameCall DEF dispatcherVars
  <2>4. Queue!UseTick(j)
    BY <1>1, <1>2, <2>1, <2>2, <2>3, SameJob
       DEF Queue!UseTick, Queue!dispatchVars, Queue!drainVars, absStatus,
           absOut, absCall, absDpc, absDlvl, absAsked, absBetter, absApc
  <2> QED
    BY <2>4 DEF Queue!SpecNext
<1> QED
  BY <1>3, <1>4

(* A job is put back when it is out, and is in the queue from then on.     *)
LEMMA RefineFinish ==
  ASSUME CallInv, Next, NEW w \in Worker, Finish(w)
  PROVE  Queue!SpecNext \/ UNCHANGED absVars
<1> USE DEF CallInv, FieldInv, PlaceInv
<1>1. wpc[w] = "finish" /\ UNCHANGED <<dispatcherVars, agingVars>>
  BY DEF Finish, leave, go
<1>2. PICK j \in Jobs : /\ j = wjob[w] /\ j \notin Held
                        /\ status[j] # "WAITING" /\ j \in absOut
  BY <1>1, WorkerOwns, OwnedIsOut DEF OwnerSteps
<1> DEFINE d == quantumExpired(mlfq_level[j], ticks_this_slice[j])
<1>3. \/ /\ status' = [status EXCEPT ![j] = "COMPLETED"]
         /\ UNCHANGED <<level, fieldVars>>
      \/ requeuePreempted(j, d)
      \/ UNCHANGED queueVars
  BY <1>2 DEF Finish
<1>4. CASE \/ /\ status' = [status EXCEPT ![j] = "COMPLETED"]
              /\ UNCHANGED <<level, fieldVars>>
           \/ UNCHANGED queueVars
  <2>1. \A k \in Jobs : status'[k] = "WAITING" <=> status[k] = "WAITING"
    BY <1>2, <1>4 DEF TypeOK, QueueTypeOK, queueVars
  <2> QED
    BY <1>1, <1>4, <2>1, RefineQuiet DEF queueVars, fieldVars
<1>5. CASE requeuePreempted(j, d)
  <2> DEFINE l == demotedLevel(j, d)
  <2>1. l \in Levels
    <3>1. d \in BOOLEAN
      BY DEF quantumExpired
    <3> QED
      BY <1>2, <3>1, DemotedLevelType DEF TypeOK
  <2>2. enterLevel(l, j) /\ status' = [status EXCEPT ![j] = "READY"]
    BY <1>5 DEF requeuePreempted
  <2>3. l = Queue!demotedLevel(j, Queue!quantumExpired(mlfq_level[j], ticks_this_slice[j]))
    BY SameJob, SameQueueOps DEF demotedLevel, Queue!demotedLevel
  <2> HIDE DEF l
  <2>4. Queued' = Queued \cup {j}
    BY <1>2, <2>1, <2>2, PushQueued
       DEF enterLevel, Held, OnePlace, TypeOK, QueueTypeOK
  <2>5. \A k \in Jobs : status'[k] = IF k = j THEN "READY" ELSE status[k]
    BY <2>2 DEF TypeOK, QueueTypeOK
  <2>6. /\ absStatus' = [absStatus EXCEPT ![j] = "READY"]
        /\ absOut' = absOut \ {j}
    BY <1>1, <1>2, <2>4, <2>5 DEF absStatus, absOut, agingVars
  <2>7. UNCHANGED <<absCall, absApc, alvl, aged>>
    BY <1>1, SameCall DEF absApc, agingVars, dispatcherVars
  <2>8. Queue!requeuePreempted(j, Queue!quantumExpired(mlfq_level[j], ticks_this_slice[j]))
    BY <2>2, <2>3, <2>6, SameQueueOps DEF Queue!requeuePreempted, absStatus
  <2>9. Queue!Requeue(j)
    BY <1>2, <2>6, <2>7, <2>8
       DEF Queue!Requeue, Queue!dispatchVars, Queue!drainVars, absStatus,
           absOut, absCall, absDpc, absDlvl, absAsked, absBetter, absApc
  <2> QED
    BY <2>9 DEF Queue!SpecNext
<1> QED
  BY <1>3, <1>4, <1>5

LEMMA RefineWorker ==
  ASSUME CallInv, Next, NEW w \in Worker, workerStep(w)
  PROVE  Queue!SpecNext \/ UNCHANGED absVars
<1>1. CASE RunTick(w) \/ Finish(w)
  BY <1>1, RefineRun, RefineFinish
<1>2. CASE ~ (RunTick(w) \/ Finish(w))
  <2>1. /\ UNCHANGED <<level, fieldVars, dispatcherVars, agingVars>>
        /\ wpc[w] \in OwnerSteps
        /\ \/ status' = status
           \/ \E s \in {"FAILED", "RUNNING", "PREEMPTED"} :
                 status' = [status EXCEPT ![wjob[w]] = s]
    <3> USE DEF OwnerSteps, PermitSteps, SlotSteps, LoopSteps, go
    <3>1. CASE Fail(w) \/ MarkRunning(w) \/ ExpireQuantum(w)
      BY <3>1 DEF Fail, MarkRunning, ExpireQuantum, leave
    <3>2. CASE Acquire(w) \/ HintSlot(w) \/ ClaimSlot(w) \/ ShowBusy(w)
      BY <3>2 DEF Acquire, HintSlot, ClaimSlot, ShowBusy, jobVars, queueVars, fieldVars
    <3>3. CASE TestLoop(w) \/ ClearActive(w) \/ HideBusy(w) \/ Release(w)
      BY <3>3 DEF TestLoop, ClearActive, HideBusy, Release, jobVars, queueVars, fieldVars
    <3> QED
      BY <1>2, <3>1, <3>2, <3>3 DEF workerStep
  <2>2. status[wjob[w]] # "WAITING"
    BY <2>1, WorkerOwns, OwnedIsOut
  <2>3. \A j \in Jobs : status'[j] = "WAITING" <=> status[j] = "WAITING"
    BY <2>1, <2>2 DEF CallInv, FieldInv, PlaceInv, TypeOK, QueueTypeOK
  <2> QED
    BY <2>1, <2>3, RefineQuiet
<1> QED
  BY <1>1, <1>2

-----------------------------------------------------------------------------
(* The refinement.                                                         *)

LEMMA RefineInit == Init => Queue!SpecInit
<1> SUFFICES ASSUME Init PROVE Queue!SpecInit
  OBVIOUS
<1>1. /\ absStatus = [j \in Jobs |-> "WAITING"] /\ absOut = {}
      /\ absDpc = "idle" /\ absDlvl = 0 /\ absBetter = FALSE /\ absApc = "sleep"
      /\ absAsked = [lvl |-> 0, prio |-> 0]
  BY DEF Init, QueueInit, LifecycleInit, absStatus, absOut, absDpc, absDlvl,
         absBetter, absApc, absAsked
<1>2. Queue!QueueInit
  BY <1>1, SameJob
     DEF Init, QueueInit, Queue!QueueInit, Queue!LifecycleInit, absStatus
<1> QED
  BY <1>1, <1>2, SameJob
     DEF Init, Queue!SpecInit, absOut, absDpc, absDlvl, absAsked, absBetter,
         absApc

LEMMA RefineNext ==
  ASSUME CallInv, [Next]_vars
  PROVE  [Queue!SpecNext]_Queue!specVars
<1>1. CASE UNCHANGED vars
  <2>1. UNCHANGED <<queueVars, dpc, didx, dlvl, active, apc, alvl, aged>>
    BY <1>1 DEF vars, jobVars, dispatcherVars, agingVars
  <2>2. UNCHANGED <<absStatus, absOut>>
    BY <2>1, SameQueued, SameOut DEF queueVars
  <2>3. UNCHANGED <<absCall, absApc>>
    BY <2>1
       DEF queueVars, absCall, absDpc, absDlvl, absAsked, absBetter, absApc
  <2> QED
    BY <2>1, <2>2, <2>3, AbsStutter DEF absVars, queueVars
<1>2. ASSUME Next
      PROVE  Queue!SpecNext \/ UNCHANGED absVars
  BY <1>2, RefineSubmit, RefineStop, RefineDispatcher, RefineWake, RefineDrain,
     RefinePromote, RefineWorker
     DEF Next, Aging
<1> QED
  BY <1>1, <1>2, AbsStutter

(* UsesQueueSpec: the scheduler's threads use the queue only as QueueSpec  *)
(* lets its callers, for any jobs, levels, slots and workers.  By theorem  *)
(* ListsImplementSets of JobQueueProofs the linked lists give such callers *)
(* what QueueSpec promises (two levels or more), which is why Scheduler    *)
(* may have sets in their place.                                           *)
THEOREM CallsAreAllowed == Spec => UsesQueueSpec
BY RefineInit, RefineNext, CallInvariant, PTL
   DEF Spec, UsesQueueSpec, Queue!Spec

=============================================================================
