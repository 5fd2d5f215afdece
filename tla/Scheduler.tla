----------------------------- MODULE Scheduler -----------------------------
(***************************************************************************)
(* The Scheduler of scheduler.h and scheduler.cpp with all its threads:    *)
(* the GUI thread that submits jobs and finally stops the scheduler, the   *)
(* dispatcher, the aging thread, and one detached worker thread for every  *)
(* job handed out.                                                         *)
(*                                                                         *)
(* A step is an access to shared state: an atomic load with the decision   *)
(* taken on it, an atomic store, a semaphore call, or a critical section   *)
(* of a mutex.  active_mutex_ is the one mutex held across several such    *)
(* steps, by checkPreemptions.                                             *)
(***************************************************************************)
EXTENDS MLFQ, ResourceManager

CONSTANTS
  Worker,        \* identities for worker threads (bounds the live ones)
  TICK_CYCLES,   \* dispatcher cycles per queue tick
  MayStop        \* whether the GUI thread may call stop()

ASSUME SchedulerAssumption ==
  /\ IsFiniteSet(Worker)
  /\ TICK_CYCLES \in Nat \ {0}
  /\ MayStop \in BOOLEAN
  /\ NoId = NoJob

VARIABLES
  elapsed_ticks,   \* Job::elapsed_ticks
  running,         \* running_
  active,          \* active_jobs_[s]
  gpc,             \* GUI thread: "gui", "join" (inside stop), "stopped"
  dpc, cycle, djob, \* dispatcher: step, cycle count, job popped
  didx, dlvl,       \* and the indices of the loops it is in
  apc, alvl, aged,          \* aging thread: step, lvl, the aged buffer
  wpc, wjob, wslot, was_preempted   \* workerFunc: step and its locals

dispatcherVars == <<dpc, cycle, didx, dlvl, djob>>
agingVars == <<apc, alvl, aged>>
localVars == <<wjob, wslot, was_preempted>>
workerVars == <<wpc, localVars>>
jobVars == <<queueVars, elapsed_ticks>>
stopVars == <<running, gpc>>
vars == <<jobVars, resourceVars, stopVars, active,
          dispatcherVars, agingVars, workerVars>>

(* Where a worker thread stands in workerFunc: it has an entry of          *)
(* active_jobs_, ...                                                       *)
LoopSteps == {"loop", "look", "expire"}
SlotSteps == {"mark", "show"} \cup LoopSteps \cup {"clear"}
(* ... it has a permit of the semaphore and a share of the budget, ...     *)
PermitSteps == {"hint", "claim"} \cup SlotSteps \cup {"hide", "release"}
(* ... it has a job.                                                       *)
OwnerSteps == {"wait"} \cup PermitSteps \cup {"finish"}
WorkerSteps == {"off"} \cup OwnerSteps

ActiveMutexFree == dpc \notin {"scan", "probe", "cas"}

Init ==
  /\ QueueInit
  /\ ResourceInit
  /\ elapsed_ticks = [j \in Jobs |-> 0]
  /\ running = TRUE
  /\ active = [s \in SlotIds |-> NoJob]
  /\ gpc = "gui"
  /\ dpc = "top" /\ cycle = 0 /\ didx = 0 /\ dlvl = 0 /\ djob = NoJob
  /\ apc = "sleep" /\ alvl = 1 /\ aged = {}
  /\ wpc = [w \in Worker |-> "off"]
  /\ wjob = [w \in Worker |-> NoJob]
  /\ wslot = [w \in Worker |-> -1]
  /\ was_preempted = [w \in Worker |-> FALSE]

-----------------------------------------------------------------------------
(* The GUI thread.  start() has run: it precedes every other call.         *)

guiFrame ==
  UNCHANGED <<resourceVars, active, dispatcherVars, agingVars, workerVars>>

(* submitJob, right after the constructor that took the submit_time.       *)
SubmitJob(j) ==
  /\ gpc = "gui"
  /\ status[j] = "WAITING"
  /\ \A i \in Jobs : SubmitTime[i] < SubmitTime[j] => status[i] # "WAITING"
  /\ pushNew(j)
  /\ UNCHANGED <<elapsed_ticks, stopVars>>
  /\ guiFrame

Stop ==
  /\ MayStop
  /\ gpc = "gui"
  /\ running
  /\ running' = FALSE
  /\ gpc' = "join"
  /\ UNCHANGED jobVars
  /\ guiFrame

(* Both pthread_join calls have returned, "All threads stopped cleanly".   *)
StopReturns ==
  /\ gpc = "join"
  /\ dpc = "done"
  /\ apc = "done"
  /\ gpc' = "stopped"
  /\ UNCHANGED <<jobVars, running>>
  /\ guiFrame

-----------------------------------------------------------------------------
(* The dispatcher thread: runDispatcher.                                   *)

atDispatch(step) ==
  /\ dpc = step
  /\ UNCHANGED <<resourceVars, elapsed_ticks, stopVars, active, agingVars>>

DispatchTop ==
  /\ atDispatch("top")
  /\ IF running
     THEN /\ cycle' = (cycle + 1) % TICK_CYCLES
          /\ dpc' = IF cycle' = 0 THEN "ticks" ELSE "scan"
     ELSE dpc' = "done" /\ UNCHANGED cycle
  /\ didx' = 0
  /\ UNCHANGED <<queueVars, dlvl, djob, workerVars>>

(* MLFQJobQueue::tickWaiting(), one level after the other.                 *)
DispatchTick ==
  /\ atDispatch("ticks")
  /\ tickLevel(didx)
  /\ IF didx = LastLevel
     THEN dpc' = "scan" /\ didx' = 0
     ELSE dpc' = dpc /\ didx' = didx + 1
  /\ UNCHANGED <<level, mlfq_level, ticks_this_slice, status, cycle, dlvl,
                 djob, workerVars>>

(* checkPreemptions goes on to the next slot, or unlocks active_mutex_.    *)
nextSlot ==
  /\ dlvl' = 0
  /\ IF didx = MAX_CONCURRENT - 1
     THEN dpc' = "pop" /\ didx' = 0
     ELSE dpc' = "scan" /\ didx' = didx + 1

(* checkPreemptions looks for a running job in a slot ...                  *)
DispatchScan ==
  /\ atDispatch("scan")
  /\ LET j == active[didx]
     IN IF j # NoJob /\ status[j] = "RUNNING"
        THEN dpc' = "probe" /\ UNCHANGED <<didx, dlvl>>
        ELSE nextSlot
  /\ UNCHANGED <<queueVars, cycle, djob, workerVars>>

(* Mutant: the levels below the job's own are asked as well.               *)
DispatchProbeAll ==
  /\ atDispatch("probe")
  /\ LET j == active[didx]
     IN IF isBetterCandidate(dlvl, mlfq_level[j], PriorityOf[j])
        THEN dpc' = "cas" /\ dlvl' = 0 /\ UNCHANGED didx
        ELSE IF dlvl < LastLevel
        THEN dlvl' = dlvl + 1 /\ UNCHANGED <<dpc, didx>>
        ELSE nextSlot
  /\ UNCHANGED <<queueVars, cycle, djob, workerVars>>

(* ... asks the levels down to the job's own for a better candidate ...    *)
DispatchProbe ==
  /\ atDispatch("probe")
  /\ LET j == active[didx]
     IN IF isBetterCandidate(dlvl, mlfq_level[j], PriorityOf[j])
        THEN dpc' = "cas" /\ dlvl' = 0 /\ UNCHANGED didx
        ELSE IF dlvl < mlfq_level[j]
        THEN dlvl' = dlvl + 1 /\ UNCHANGED <<dpc, didx>>
        ELSE nextSlot
  /\ UNCHANGED <<queueVars, cycle, djob, workerVars>>

(* ... and asks for preemption: compare_exchange_strong on the status.     *)
DispatchCas ==
  /\ atDispatch("cas")
  /\ LET j == active[didx]
     IN IF status[j] = "RUNNING"
        THEN status' = [status EXCEPT ![j] = "PREEMPTED"]
        ELSE UNCHANGED status
  /\ nextSlot
  /\ UNCHANGED <<level, fieldVars, cycle, djob, workerVars>>

(* tryPop finds level didx empty: on to the next one, or usleep and again. *)
DispatchPopEmpty ==
  /\ atDispatch("pop")
  /\ level[didx] = {}
  /\ IF didx = LastLevel
     THEN dpc' = "top" /\ didx' = 0
     ELSE dpc' = dpc /\ didx' = didx + 1
  /\ UNCHANGED <<queueVars, cycle, dlvl, djob, workerVars>>

DispatchPop ==
  /\ atDispatch("pop")
  /\ \E j \in level[didx] : popFirst(didx, j) /\ djob' = j
  /\ dpc' = "spawn"
  /\ didx' = 0
  /\ UNCHANGED <<fieldVars, status, cycle, dlvl, workerVars>>

(* getFreeWorkerSlot for a first guess, and a detached thread for the job. *)
DispatchSpawn(w) ==
  /\ atDispatch("spawn")
  /\ wpc[w] = "off"
  /\ wpc' = [wpc EXCEPT ![w] = "wait"]
  /\ wjob' = [wjob EXCEPT ![w] = djob]
  /\ \E s \in SlotIds \cup {-1} :
        isFreeWorkerSlot(s) /\ wslot' = [wslot EXCEPT ![w] = s]
  /\ dpc' = "top"
  /\ djob' = NoJob
  /\ UNCHANGED <<queueVars, cycle, didx, dlvl, was_preempted>>

Dispatcher ==
  \/ DispatchTop
  \/ DispatchTick
  \/ DispatchScan
  \/ DispatchProbe
  \/ DispatchCas
  \/ DispatchPopEmpty
  \/ DispatchPop
  \/ \E w \in Worker : DispatchSpawn(w)

-----------------------------------------------------------------------------
(* The aging thread: Scheduler::runAging around MLFQJobQueue::runAging.    *)

atAging(step) ==
  /\ apc = step
  /\ UNCHANGED <<resourceVars, elapsed_ticks, status, stopVars, active,
                 dispatcherVars, workerVars>>

(* The second is over: leave when stopped, else start with level 1.        *)
AgingWake ==
  /\ atAging("sleep")
  /\ IF running
     THEN apc' = IF LastLevel = 0 THEN "sleep" ELSE "drain"
     ELSE apc' = "done"
  /\ alvl' = 1
  /\ UNCHANGED <<level, fieldVars, aged>>

(* The level is done: go on to the next one, or sleep again.               *)
nextLevel ==
  IF alvl = LastLevel
  THEN apc' = "sleep" /\ alvl' = 1
  ELSE apc' = "drain" /\ alvl' = alvl + 1

AgingDrain ==
  /\ atAging("drain")
  /\ \E A \in SUBSET agedIn(alvl) : drainAged(alvl, A) /\ aged' = A
  /\ IF aged' = {}
     THEN nextLevel
     ELSE apc' = "push" /\ UNCHANGED alvl
  /\ UNCHANGED fieldVars

AgingPush ==
  /\ atAging("push")
  /\ \E j \in aged :
        /\ IsFirst(j, aged)
        /\ promote(alvl, j)
        /\ aged' = aged \ {j}
  /\ IF aged' = {}
     THEN nextLevel
     ELSE UNCHANGED <<apc, alvl>>

Aging == AgingWake \/ AgingDrain \/ AgingPush

-----------------------------------------------------------------------------
(* A worker thread: workerFunc for the job wjob[w].                        *)

go(w, from, to) ==
  /\ wpc[w] = from
  /\ wpc' = [wpc EXCEPT ![w] = to]
  /\ UNCHANGED <<stopVars, dispatcherVars, agingVars>>

(* The thread is at its end.  What is left is log lines.                   *)
leave(w, from) ==
  /\ go(w, from, "off")
  /\ wjob' = [wjob EXCEPT ![w] = NoJob]
  /\ wslot' = [wslot EXCEPT ![w] = -1]
  /\ was_preempted' = [was_preempted EXCEPT ![w] = FALSE]

(* The job gets its permit and its budget; a missing slot guess is made up *)
(* for.                                                                    *)
Acquire(w) ==
  /\ go(w, "wait", IF wslot[w] < 0 THEN "hint" ELSE "claim")
  /\ acquire(CpuRequired[wjob[w]], MemoryRequired[wjob[w]])
  /\ UNCHANGED <<jobVars, workers, active, localVars>>

Fail(w) ==
  /\ leave(w, "wait")
  /\ refuse(CpuRequired[wjob[w]], MemoryRequired[wjob[w]])
  /\ status' = [status EXCEPT ![wjob[w]] = "FAILED"]
  /\ UNCHANGED <<level, fieldVars, elapsed_ticks, workers, active>>

HintSlot(w) ==
  /\ go(w, "hint", "claim")
  /\ \E s \in SlotIds \cup {-1} :
        /\ isFreeWorkerSlot(s)
        /\ wslot' = [wslot EXCEPT ![w] = IF s < 0 THEN 0 ELSE s]
  /\ UNCHANGED <<jobVars, resourceVars, active, wjob, was_preempted>>

(* How far slot s is from the guess h in the scan (h + i) % MAX_CONCURRENT *)
distance(h, s) == IF s >= h THEN s - h ELSE s - h + MAX_CONCURRENT

(* Mutant: the guess is taken without the scan.                            *)
isGuessedSlot(h, s) == s = h

(* The slot the scan settles on: the nearest empty one, or the guess.      *)
isChosenSlot(h, s) ==
  LET empty == {t \in SlotIds : active[t] = NoJob}
  IN IF empty = {}
     THEN s = h
     ELSE s \in empty /\ \A t \in empty : distance(h, s) <= distance(h, t)

ClaimSlot(w) ==
  /\ go(w, "claim", "mark")
  /\ ActiveMutexFree
  /\ \E s \in SlotIds :
        /\ isChosenSlot(wslot[w], s)
        /\ wslot' = [wslot EXCEPT ![w] = s]
        /\ active' = [active EXCEPT ![s] = wjob[w]]
  /\ UNCHANGED <<jobVars, resourceVars, wjob, was_preempted>>

MarkRunning(w) ==
  /\ go(w, "mark", "show")
  /\ status' = [status EXCEPT ![wjob[w]] = "RUNNING"]
  /\ UNCHANGED <<level, fieldVars, resourceVars, elapsed_ticks, active,
                 localVars>>

ShowBusy(w) ==
  /\ go(w, "show", "loop")
  /\ setWorkerBusy(wslot[w], wjob[w])
  /\ UNCHANGED <<jobVars, budgetVars, active, localVars>>

(* The head of the loop: is there work left, and no stop?                  *)
TestLoop(w) ==
  /\ LET over == elapsed_ticks[wjob[w]] >= BurstTime[wjob[w]] \/ ~ running
     IN go(w, "loop", IF over THEN "clear" ELSE "look")
  /\ UNCHANGED <<jobVars, resourceVars, active, localVars>>

(* Its body: preempted, or at the end of the quantum, or one more tick.    *)
(* The tick counts at once: no other thread decides by these counters.     *)
RunTick(w) ==
  /\ LET j == wjob[w]
         preempted == status[j] = "PREEMPTED"
         expired == quantumExpired(mlfq_level[j], ticks_this_slice[j])
     IN /\ go(w, "look", IF preempted THEN "clear"
                         ELSE IF expired THEN "expire" ELSE "loop")
        /\ was_preempted' = [was_preempted EXCEPT ![w] = preempted]
        /\ IF preempted \/ expired
           THEN UNCHANGED <<elapsed_ticks, ticks_this_slice>>
           ELSE /\ elapsed_ticks' = [elapsed_ticks EXCEPT ![j] = @ + 1]
                /\ ticks_this_slice' = [ticks_this_slice EXCEPT ![j] = @ + 1]
  /\ UNCHANGED <<level, mlfq_level, aging_ticks, status, resourceVars,
                 active, wjob, wslot>>

(* The quantum is used up: the worker preempts its job itself.             *)
ExpireQuantum(w) ==
  /\ go(w, "expire", "clear")
  /\ status' = [status EXCEPT ![wjob[w]] = "PREEMPTED"]
  /\ was_preempted' = [was_preempted EXCEPT ![w] = TRUE]
  /\ UNCHANGED <<level, fieldVars, elapsed_ticks, resourceVars, active,
                 wjob, wslot>>

ClearActive(w) ==
  /\ go(w, "clear", "hide")
  /\ ActiveMutexFree
  /\ active' = [active EXCEPT ![wslot[w]] = NoJob]
  /\ UNCHANGED <<jobVars, resourceVars, localVars>>

HideBusy(w) ==
  /\ go(w, "hide", "release")
  /\ setWorkerFree(wslot[w])
  /\ UNCHANGED <<jobVars, budgetVars, active, localVars>>

Release(w) ==
  /\ go(w, "release", "finish")
  /\ release(CpuRequired[wjob[w]], MemoryRequired[wjob[w]])
  /\ UNCHANGED <<jobVars, workers, active, localVars>>

(* The three ways out: completed, requeued, or abandoned after a stop.     *)
Finish(w) ==
  /\ leave(w, "finish")
  /\ LET j == wjob[w]
     IN IF elapsed_ticks[j] >= BurstTime[j]
        THEN /\ status' = [status EXCEPT ![j] = "COMPLETED"]
             /\ UNCHANGED <<level, fieldVars>>
        ELSE IF was_preempted[w]
        THEN requeuePreempted(j, quantumExpired(mlfq_level[j],
                                                ticks_this_slice[j]))
        ELSE UNCHANGED queueVars
  /\ UNCHANGED <<elapsed_ticks, resourceVars, active>>

workerStep(w) ==
  \/ Acquire(w) \/ Fail(w) \/ HintSlot(w) \/ ClaimSlot(w)
  \/ MarkRunning(w) \/ ShowBusy(w) \/ TestLoop(w) \/ RunTick(w)
  \/ ExpireQuantum(w) \/ ClearActive(w) \/ HideBusy(w) \/ Release(w) \/ Finish(w)

-----------------------------------------------------------------------------
Next ==
  \/ \E j \in Jobs : SubmitJob(j)
  \/ Stop
  \/ StopReturns
  \/ Dispatcher
  \/ Aging
  \/ \E w \in Worker : workerStep(w)

Spec == Init /\ [][Next]_vars

(***************************************************************************)
(* Every thread the operating system runs keeps running.  A worker that    *)
(* waits for active_mutex_ gets it some time: the dispatcher holds it for  *)
(* one pass over the slots and then pops a job or sleeps.  Nothing of the  *)
(* kind is assumed of sem_wait.  The GUI user need not submit or quit, but *)
(* stop() once called returns when it can.                                 *)
(***************************************************************************)
Fairness ==
  /\ WF_vars(Dispatcher)
  /\ WF_vars(Aging)
  /\ WF_vars(StopReturns)
  /\ \A w \in Worker : WF_vars(workerStep(w))
  /\ \A w \in Worker : SF_vars(ClaimSlot(w) \/ ClearActive(w))

FairSpec == Spec /\ Fairness

=============================================================================
