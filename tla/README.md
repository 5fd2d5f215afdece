# TensorSched in TLA+

TensorSched is a multi-threaded job scheduler with an SDL2 dashboard: a user
submits jobs, and a multi-level feedback queue (MLFQ) with preemption and aging
decides which of them run, at most four at a time and within a CPU and memory
budget. This directory holds a model of it, the TLC runs that check the model
on small instances, and proofs, checked by TLAPS, of what holds for any number
of jobs, levels, slots and threads.

All paths below without a directory are in
`src/TensorSched/TensorSched/files (1)/`.

## 1. Inventory

### Components

| component | state | operations | correct when |
|---|---|---|---|
| `Job` (`job.h`) | atomics: `status`, `mlfq_level`, `ticks_this_slice`, `aging_ticks`, `elapsed_ticks`, `wait_ticks`, counters; plain attributes | `priorityValue`, `quantumExpired`, display helpers | read and written by several threads without a lock: each field has one writer at a time |
| `SingleLevelQueue` (`job_queue.h` 13-165) | `head_`, `size_`, `mutex_`, nodes | `push` (sorted insert), `tryPop`, `empty`, `topPriority`, `tickWaiting`, `drainAged`, `snapshot`, `clear` | the list is sorted, counted, and no job is in it twice |
| `MLFQJobQueue` (`job_queue.h` 167-273) | three levels | `pushNew`, `requeuePreempted`, `tryPop`, `hasBetterCandidate`, `tickWaiting`, `runAging` | no lock over the levels: a job moves between them without being lost or doubled |
| `ResourceManager` (`resource_manager.h`) | semaphore `slots_`, `used_cpu_`, `used_memory_`, `active_jobs_`, `workers_[]` | `acquire`, `release`, `setWorkerBusy`, `setWorkerFree`, `getFreeWorkerSlot` | permits and budget add up on every path |
| `Scheduler` (`scheduler.cpp`) | `running_`, `active_jobs_[]`, threads | `submitJob`, `start`, `stop`, `runDispatcher`, `checkPreemptions`, `requestPreemption`, `workerFunc`, `runAging` | every submitted job ends once; quanta, levels and preemptions follow the MLFQ rules |
| statistics, job array, destructor | `stats_`, `all_jobs_[]` | `recalcStats`, `allJobsSnapshot`, `~Scheduler` | averages and counters agree with the jobs |
| Gantt and log rings | `gantt_buf_[]`, `log_buf_[]` | `addGantt`, `addLog`, snapshots | a snapshot is the latest entries in order |
| UI log and UI state (`main.cpp`) | `UIState` | `pushLog`, `logSnapshot` | as the scheduler's log, fed by its callback |
| event loop and form (`main.cpp`) | `FormState`, the event of the frame, `g_next_job_id` | poll loop, `drawFormPanel`, `drawPresets`, `drawTabBar` | one job per click; values stay in range; a request to quit is obeyed |
| job table (`main.cpp`) | `jobs_buf`, `job_scroll` | `drawJobTable` and its sort | the sort is a permutation whatever changes meanwhile |
| dashboard panels | scroll positions of log and Gantt chart | drawing | a page is full while there is enough to show; counters add up |
| Win32 shims (`pthread_win.h`, `semaphore_win.h`) | none | wrappers | - |

### Threads and how they interact

- The **GUI thread** constructs jobs, calls `submitJob` (which pushes to level
  0), and calls `stop` on the way out, which joins the two threads below.
- The **dispatcher** cycles: every fourth cycle it counts queue ticks; it goes
  over `active_jobs_` under `active_mutex_` and asks running jobs to give way
  by a compare-and-swap of their status; it pops a job, guesses a free slot and
  starts a *detached* worker thread for it.
- The **aging thread** wakes once a second and moves jobs that have waited
  `AGING_THRESHOLD` queue ticks one level up.
- A **worker thread** waits on the semaphore, reserves the budget (or fails the
  job), claims an entry of `active_jobs_`, runs the job tick by tick until it
  is done, preempted, at the end of its quantum or the scheduler stops, and then
  gives everything back, in several separate steps, and completes or requeues
  the job.

They share the jobs' atomics, the levels (a mutex each), the resource manager
(a mutex and a semaphore) and `active_jobs_` (`active_mutex_`).

### What is hard

Three kinds of threads decide by values they read earlier: the slot is guessed
before the permit is there; a job is asked to give way for a candidate that may
be gone by then; a worker stores a status without a compare-and-swap while the
dispatcher may be about to swap it; an aged job is for a moment in no list.
What a worker took is returned in four steps, with other threads in between.
`stop` can come at any moment, and does not wait for workers.

On the other side the GUI thread looks at all this without a lock: it sorts jobs
by statuses that change under the sort, shows counters loaded one after the
other, and workers that finish together each compute the averages and store them
in whatever order they get there. The event loop reduces a frame's events to one,
and positions outlive the tables they point into. PROJECT.json lists these hazards
line by line with the properties aimed at them.

## 2. Modules

| module | models | proved about |
|---|---|---|
| `JobLifecycle` | `JobStatus` and the life of a job as others see it | |
| `Job` | `job.h`: attributes as CONSTANTS, order of the lists, `quantumExpired` | |
| `MLFQ` | `MLFQJobQueue` as its callers see it: a level is a set of jobs | |
| `ResourceManager` | `resource_manager.h` | |
| `Scheduler` | `scheduler.cpp` with all threads; EXTENDS `MLFQ` and `ResourceManager` | yes |
| `SchedulerProperties` | invariants, action and liveness properties, claims of the docs | |
| `SchedulerProofs` | type correctness; one place per job, none lost, ends are final | TLAPS |
| `SchedulerFieldProofs` | levels, slices and quanta; the life of a job | TLAPS |
| `SchedulerSlotProofs` | permits, slots, the budget; causes of preemption and failure | TLAPS |
| `QueueSpec` | what the queue promises: atomic calls on sets | |
| `SchedulerQueue` | the scheduler as a user of the queue: `Scheduler` mapped to `QueueSpec` | |
| `SchedulerQueueProofs` | the scheduler's calls are those `QueueSpec` allows | TLAPS |
| `JobQueue` | the linked lists, their mutexes and walks; refines `QueueSpec` | yes |
| `JobQueueProofs` | the lists, the walks, the refinement | TLAPS |
| `RingBuffer` | the ring of the Gantt chart and of both logs, as operators | |
| `LogSpec` | what the logs promise: the newest entries, in order | |
| `EventLog` | `addLog`, its callback `pushLog`, `addGantt`, the snapshots; refines `LogSpec` | yes |
| `EventLogProofs` | the rings, orders, what is still shown, the refinement | TLAPS |
| `JobArray` | `all_jobs_` and `submitJob`, on top of `JobLifecycle` | |
| `SchedulerStats` | the counters, a worker at the end of its job, `recalcStats` | |
| `JobTable` | `drawJobTable`: the copy and its sort | |
| `Dashboard` | the GUI thread between submitting, the table and the cards; EXTENDS `SchedulerStats` and `JobTable` | yes |
| `DashboardProofs` | the averages, the cards, the sort | TLAPS |
| `SubmitForm` | the form, the presets and the tabs, in pixels | |
| `EventLoop` | the loop of `main`, the user, the scroll positions; EXTENDS `SubmitForm` | yes |
| `EventLoopProofs` | ranges and pages, the cut-off form, clicks and jobs | TLAPS |
| `MCScheduler`, `MCJobQueue`, `MCEventLog`, `MCDashboard`, `MCEventLoop` | small instances for TLC | |

They make three compositions: `Scheduler` (jobs, queue, resources, threads),
`Dashboard` (array, statistics, table) and `EventLoop` (form, loop), with
`JobLifecycle` between the first two. `Scheduler` is shown to implement it, by
TLC and by proof (`FollowsLifecycle`); `Dashboard` puts it in the place of the
threads, so its jobs go through every run of statuses the threads can produce,
and some more.

**State.** A variable has the name of the field or member it stands for
(`mlfq_level`, `used_cpu`, `running`); `active[s]` is `Scheduler::active_jobs_`,
as `ResourceManager` has an `active_jobs` of its own. `gpc`, `dpc`, `apc` and
`wpc[w]` are the program counters of the GUI thread, the dispatcher, the aging
thread and worker `w`; `didx` and `dlvl` are the dispatcher's loop indices,
`djob` the job it popped, `alvl` and `aged` the aging thread's level and buffer,
`wjob`, `wslot`, `was_preempted` a worker's locals. An ended worker's identity
is used again by the next thread.

**Actions**, in the order of the code:

| code | actions of `Scheduler` |
|---|---|
| `submitJob`, `stop` | `SubmitJob`, `Stop`, `StopReturns` |
| `runDispatcher` | `DispatchTop`, `DispatchTick`, `DispatchPop`, `DispatchPopEmpty`, `DispatchSpawn` |
| `checkPreemptions`, `requestPreemption` | `DispatchScan`, `DispatchProbe`, `DispatchCas` |
| `runAging` (both) | `AgingWake`, `AgingDrain`, `AgingPush` |
| `workerFunc`: `acquire` | `Acquire`, `Fail` |
| `workerFunc`: slot | `HintSlot`, `ClaimSlot`, `MarkRunning`, `ShowBusy` |
| `workerFunc`: loop | `TestLoop`, `RunTick`, `ExpireQuantum` |
| `workerFunc`: way out | `ClearActive`, `HideBusy`, `Release`, `Finish` |

**Grain of atomicity.** A step is one access to shared state: a critical section
of a mutex, an atomic load with the decision taken on it, or an atomic store.
`active_mutex_` is the one mutex held over several such steps (the scan, probe
and CAS of `checkPreemptions`); `ActiveMutexFree` guards the two worker steps
that take it. It counts as taken from the end of the dispatcher's tick on, a little
before the code locks it (scheduler.cpp:155): a worker that claims or clears its
entry between the two can be moved before the tick ends, with the steps that led to
it, since none of them touches a queued job. (In a cycle without a tick the same
holds before the test of `running_`, but for a worker that leaves because `stop` fell
in between. All runs have `TICK_CYCLES` 1, so a tick in each cycle; the theorems
leave `TICK_CYCLES` open, and say nothing of that one order of steps.) Five groups
of accesses are one step, each for a reason:

- `acquire` and `release`: a `sem_wait` can be moved later, past steps of other
  threads, to the critical section it precedes, and a `sem_post` earlier, to the
  one it follows; no thread tests the semaphore's value otherwise. When the
  budget does not suffice, `acquire` posts the permit back and fails: it needed
  a free permit to get so far, and so does `refuse`.
- `Fail`: the refusal by `acquire` and the store of FAILED (scheduler.cpp:209, 212).
  The job is with this worker alone and no one swaps a READY one, so nothing
  another thread does in between depends on which of the two is done.
- The fields a push writes before it links the node (`enterLevel`): no other
  thread can reach the job until it is linked. That a job is never in two places
  is itself proved (`OnePlace`).
- The increments of `elapsed_ticks` and `ticks_this_slice` after a tick of work:
  only the worker decides by them. They count when the tick starts, so that a
  preemption during a tick finds the tick counted, as it is when the worker
  looks next.
- `status` COMPLETED or READY together with the thread's end: what follows is
  logging and statistics.

A level is a set in `MLFQ`: the order `Precedes` (priority, then `submit_time`)
is total on jobs, so the set determines the list. `JobQueue` does not assume that:
it is checked by TLC and proved (`ListsImplementSets`), and so is that the
scheduler calls the queue as that proof supposes (`CallsAreAllowed`).

## 3. The queue and its specification

`QueueSpec` states what the levels promise to threads that share them, with the
operators of `MLFQ` that `Scheduler` uses: each call acts on a level at once.
`JobQueue` has what the code has: `head_`, `size_`, `mutex_` and `next` pointers,
a push that walks to its place, a `drainAged` that unlinks nodes as it walks,
`hasBetterCandidate` that takes a mutex for `empty()` and again for
`topPriority()`. `ImplementsQueueSpec == Abstract!Spec` says the second
implements the first, with this mapping: a level is the set of nodes reachable
from its head; a push takes effect when the node is linked; a drain takes effect
when it unlocks, so until then the nodes it has taken count as still in the
level; the two halves of `hasBetterCandidate` are one probe, which takes effect
when it answers, or moves on. TLC checks the refinement on the instance of
`job_queue`, and `JobQueueProofs` proves it for all of them. A `tryPop` begins with
its look at level 0, in both.

**The callers.** `QueueSpec` fixes what its callers may do, no more: any thread
pushes a job not submitted yet; only a job that is out, which is to say handed
out by a pop and not put back, uses ticks of its slice or is requeued; the
dispatcher does one thing after the other, and asks for better candidates than a
job that is out, whose level and priority stand until the answer. `JobQueue` has
callers free to do just that. That the threads of `Scheduler` do nothing else is
`UsesQueueSpec == Queue!Spec` of module `SchedulerQueue`, the other half of the
argument. The mapping: the levels, the fields of the jobs and the aging thread's
level and buffer are the same variables; a job is out if it was submitted and
waits in no level and no buffer (with the dispatcher, a worker, or ended); the
call in progress is read off the dispatcher's program counter; what was asked is
the level and priority of the job in `active[didx]` *at this moment*, although the
code copied them before the search (scheduler.cpp:161): the refinement says that
they do not change during it. A pop of `Scheduler` that has yet to look at level 0
is no call yet.

Together the two refinements are why `Scheduler` may have sets where the code has
lists, and `DispatchProbe` may read a level the code remembers. (The lists are
proved about for two levels or more; the code has three.)

`LogSpec` and `EventLog` are a second pair. `addLog` writes a line to the
scheduler's ring under `log_mutex_`, unlocks, and calls the callback that pushes
the line to the UI's ring under another mutex; `addGantt` has a ring of its own.
In `LogSpec` the three are sequences that keep their newest entries; `EventLog`
has the arrays with `head` and `count`, and maps each ring to its full snapshot;
`EventLogProofs` proves this one as well.
Logging does not influence scheduling, so `EventLog` has threads that log and
record in any order instead of the threads of `Scheduler`; only what `main` does
at the start, `start()` and then lines of its own, is in the code's order.

## 4. The dashboard and the event loop

**`Dashboard`.** A worker has a step for each access at the end of its job
(`Stamp`, `Publish`, `CountCompleted`, then `recalcStats`: `Snapshot` under
`jobs_mutex_`, `ScanJob` for each job without a lock, three stores), the GUI
thread one for each at `submitJob` (`SubmitRecord`, `SubmitCount`, `SubmitPush`),
at each turn of the sort (two loads of a status, in either order, since C++ does
not fix it) and at each card. An average is represented by what it is taken over:
the set of jobs, each with whether its `finish_time` was written when it was
read. Two facts about `Scheduler` are used: a job has one worker, so a worker is
named by its job (`OnePlace`), and statuses move by `JobLifecycle`.
`AveragesSound` says the averages never have a job in them that has not ended or
whose time is not written; `StatsSettle`, that they have all that ended, which
fails. `quiet` is a history variable, for `SortedIfQuiet`.

**`EventLoop`.** One action per stage of a frame; the user and the threads that
log act in between. A mouse event has coordinates, and the panels test them
against the rectangles of the code, so what can be reached is a result and not
an assumption: with the window of `main` (880 high) the sliders and SUBMIT JOB
lie below its lower edge (`FormShown` is false), and the user gets to them by enlarging
the window (`Enlarge`). `submitJob` logs a line, so a click resets the log's
position; that is in the step that submits. The wheel handler's unlocked read and
write of `log_scroll` are two steps.

## 5. Runs

| run | shows |
|---|---|
| `scheduler_levels` | Three jobs, one slot, three levels: jobs are in one place and accounted for, queued jobs are fresh, quanta are kept, preemption is always for a better job that waits, ends are final, levels move by one and for a reason. |
| `scheduler_slots` | Three jobs, two slots, a budget two of them together exceed: no slot is shared, permits and budget add up after every step, a slot shown busy has a worker that will free it, a job fails only while others hold budget, statuses follow `JobLifecycle`. |
| `scheduler_stop` | Under fairness, with `stop` at any moment or never: every submitted job ends unless stopped, every preemption is noticed, `stop` returns and every worker, blocked in `sem_wait` or not, leaves in the end; no job in two places, none lost without cause. On the way the threads use the levels as `QueueSpec` lets its callers: a worker requeues only what it was handed, and the job `hasBetterCandidate` was asked about keeps its level until the answer. |
| `job_queue` | The lists stay sorted, counted and disjoint under two pushing threads, the dispatcher and the aging thread; walks stay in their list; the lists implement `QueueSpec`. |
| `event_log` | Rings that go round more than once hold the newest entries in order; each thread's lines keep their order in both logs; the chart is in the order of the ticks; the UI's log does not drop a line that the scheduler's log still has. |
| `dashboard` | Averages are over ended jobs with their times written; cards of one frame add up; the sort loses and doubles no job while statuses change, and sorts, stably, when none does. |
| `event_loop` | No value or position leaves its range, no view is blank while there is more to show, a press submits at most once, the loop ends when asked to. |

Five runs end in a violation: the code differs from what the documentation, a
message or a comment says.

| run | what the counterexample shows |
|---|---|
| `clean_stop` | `stop` logs "All threads stopped cleanly." (scheduler.cpp:93) with a detached worker still running or blocked. The worker then uses the `Scheduler` that the destructor is taking down. |
| `no_inversion` | A job waits in `sem_wait` outside the levels, so `checkPreemptions` does not see it: a CRITICAL job waits there while a LOW one runs, and nothing asks the LOW one to give way (main.cpp:1143 says it is preempted). |
| `stats_settle` | Two workers end together; the one that went over the jobs first stores its averages last, and the other's job is missing from them with no worker left (README.md:52). The next job to complete repairs it; the last two of a session stay wrong. |
| `aged_to_top` | A job is demoted to level 2, waits, ages, and is promoted to level 1 (`lvl - 1`, job_queue.h:243). The panel of the program says "Job waiting > threshold at L1/L2 → promoted to L0" (main.cpp:1144). |
| `add_jobs` | A press on a preset and another event in the same frame: `ev_copy` holds the second only and nothing is submitted (README.md:51: "one-click presets"); and the form the user could turn to has its button below the window. main.cpp:1213: "Use QUICK SUBMIT PRESETS or fill the form to add jobs." |

**`aged_to_top`.** `scheduler_levels` and `LevelsMoveByOne` are about the rule of the
code: `LevelMoves`, one level up at a time. README.md:13 ("bumped back up") leaves
open how far; the panel does not, and differs. It also says "> threshold" where
`drainAged` asks `>=` (job_queue.h:115), one tick earlier; the model does not tell
the two apart, because `aging_ticks` stops at the threshold.

**`add_jobs`.** `JobsCanBeAdded` is `OneClick \/ FormShown`, the two ways main.cpp:1213
names, and both fail in the counterexample. `OneClick` fails because the poll loop
keeps the last event of a frame; at 60 frames a second a mouse that moves while it
clicks suffices. `FormShown` fails in every state with the window `main` makes: the
panels above leave 86 pixels of the 880, the button is put below the sliders at
1000, and ends at 1034. README.md:51 promises "a submission form"; a user who does
not enlarge the window has its name and priority only. Theorem `FormIsCutOff` says so
for all heights up to 906. Whoever repairs one of the two should check the
other alone.

**A claim that fails and has no run.** `ShownBusyIsUsed` says a slot shown busy has a
worker that will free it. The converse fails: a worker empties its entry of
`active_jobs_` (scheduler.cpp:297) before it shows the slot free (300); another
worker can claim the slot and show it busy in between, and is then shown as free
while its job runs. A later guess by `getFreeWorkerSlot` is wrong as well, but
harmless (`SlotExclusive`).

### Bounds, and why they are enough

- **Jobs.** Three: two of equal priority (ordered by submission) and one
  CRITICAL. A preemption needs a victim and a better candidate, the third waits,
  ages or takes a budget meanwhile. `scheduler_stop`, which checks liveness, has
  two, a LOW and a CRITICAL one, on two levels. That is enough for `UsesQueueSpec` as
  well: a call relates a job that is out to one that is in the queue or out.
- **Bursts and quanta.** `scheduler_levels` has one job of four ticks over three
  levels with quantum 1: it is demoted twice, is preempted again at the last
  level, where there is no further demotion, and can be promoted from levels 2
  and 1. Elsewhere a job of two ticks, so that it is preempted or expires with a
  tick left.
- **Slots.** One in `scheduler_levels`, where every job competes for the same
  slot and permit; two in `scheduler_slots`, where a guess can be wrong and the
  circular scan has somewhere to go. With three workers and two slots one always
  waits.
- **Budget.** 3 of each; the jobs need 2, 1 and 2 of the CPU, so that two of them
  together do not fit. CPU and memory are treated alike by the code.
- **Worker** bounds the worker threads alive at once. There are as many as jobs,
  and a job is with one thread at most, so the bound never delays the dispatcher.
- **Aging.** `AGING_THRESHOLD` is 1 (15 in the code), so any wait over a tick
  makes a job old; the counter stops there, since only `>=` is asked of it.
  `AGED_BUF` is 1 (64 in the code), so that more jobs than fit are old at once;
  2 in `job_queue`, where a buffer half full matters as well.
- **TICK_CYCLES** is 1 (4 in the code): the dispatcher ticks as often as it can.
  How often it does is a matter of the relative speed of the threads; more
  cycles per tick only take behaviours away.
- **Symmetry** over worker identities, pushing threads or the jobs of `dashboard`
  (which have no attributes) is used in safety
  runs: they are alike in every respect. The liveness runs use no symmetry; there
  an action constraint gives a new thread the lowest free identity, which leaves
  out renamings only.
- **Rings** of 2, 5 and 2 entries in `event_log`, with three threads of three
  lines and three chart entries: each goes round. 5 is the least size for which
  `LoggedIsShown` holds with a log of 2, two other threads that may still hold a
  line back, and one line of `main` (2 + 2 + 1); with 4, TLC finds a
  counterexample. The code has 500 and 512, which is enough as long as fewer than
  ten other threads are between log and callback at once.
- **`dashboard`** has four jobs and an array for three, so that one is scheduled
  unrecorded and three are sorted. `FewEnding` bounds the workers that are at the
  end of their jobs at once: two (one overtakes another), or one during the sort,
  which sees nothing of the end but the statuses. `stats_settle` has two jobs.
- **`event_loop`** has three events (`MaxEvents`): click, then another event in
  the frame or the next, then a third that tells. `MCPoints` has a point on each
  kind of control. The pixels, ring sizes and the window are those of the code;
  `MAX_NAME` is 4 (58), so that a name fills up; `JOB_PAGE`, the rows' share of the
  job table, is less than a row so that one job can be scrolled; `TALL` is one
  height the window may be given, once.
- Deadlock is checked where the system cannot stop: in `scheduler_levels`,
  `scheduler_slots` and `job_queue`. Elsewhere the check is off, since `stop` or
  the user's wish to quit may have ended everything, or the jobs, lines or events
  of the instance may be used up.

### Fairness

`FairSpec` assumes that the operating system runs every thread that can run:
weak fairness of the dispatcher, the aging thread, each worker and the return of
`stop`. For `active_mutex_` it assumes strong fairness of the two worker steps
that take it: the dispatcher takes it in every cycle, and releases it in every
cycle, and a mutex that never lets a waiting thread in over infinitely many
releases would be a broken one. Nothing of the kind is assumed of `sem_wait`:
which of the waiting threads gets a permit is arbitrary. The user need not submit
or quit anything.

`EveryJobEnds` holds without a fair semaphore because the jobs are finitely many:
each permit is returned, and a job that is preferred for ever would end. With an
endless supply of new jobs it would not hold. For the same reason it says little
about aging: finitely many jobs end without it as well. What aging owes the jobs
is in `LevelMoves` and `ImplementsQueueSpec`.

`EventLoop` assumes one thing, weak fairness of the GUI thread's steps: `main` never
waits for anything but the next frame. `QuitEnds` also relies on there being
finitely many events: a user who causes events faster than the loop takes them
would keep it in `while (SDL_PollEvent(&ev))`.

## 6. Proofs

`SchedulerProofs` proves `TypeCorrect == Spec => []TypeOK`, for any values of the
constants that satisfy the assumptions in `Job`, `MLFQ`, `ResourceManager` and
`Scheduler` (finitely many jobs and workers, distinct submission times, positive
quanta, at least one level and slot). `TypeOK` is inductive as stated, because it
says more than types: at each step the indices the step uses are in range, and
the pointers it follows are not null (the dispatcher's `didx` while it scans
slots or levels, `active[didx]` between the look and the CAS, which relies on
`active_mutex_` keeping the workers out).

It proves too

- `JobInOnePlace == Spec => []OnePlace`: no job is in two levels, in a level and in
  a buffer, or with two workers;
- `JobsAreAccounted == Spec => []Accounted`: no job is dropped, and none that
  ended, or was not submitted, is anywhere;
- `EndedForGood == Spec => EndIsFinal`.

The inductive invariant is `PlaceInv == TypeOK /\ OnePlace /\ Accounted`. Neither
half is inductive alone. `OnePlace` needs `Accounted`: submitting a job is safe
because a WAITING job is nowhere, requeueing because the worker owned it alone.
`Accounted` needs `OnePlace`: when a worker stores COMPLETED, no other place may
hold the job. `Accounted` itself had to be strengthened by `LeavesForAReason`
(a worker at the end of its loop has the burst done, or `was_preempted`, or
`running_` is false) and `StartedInProgress` (a job a worker started is RUNNING
or PREEMPTED, whatever the dispatcher's CAS does). Without the first the third
way out of `workerFunc`, which neither completes nor requeues, could drop a job;
without the second the worker could find its job in a state no code put it in.
`EndIsFinal` then follows step by step: who stores a status owns the job, or
its CAS expects RUNNING, and an ended job is neither owned nor RUNNING.

The proofs go by process, then by action. Lemmas say once what a queue operation
does to the set of queued jobs (`PushQueued`, `TakeQueued`) and what a worker step
does to the set of owned ones (`GoOwned`, `LeaveOwned`, `SpawnOwned`).

`SchedulerFieldProofs` proves

- `QueuedAreFresh == Spec => []QueuedFresh`: a queued job is READY, in the list of
  its `mlfq_level`, with nothing of its slice used;
- `QuantumIsKept == Spec => []WithinQuantum`, for any quanta and bursts;
- `LivesByLifecycle == Spec => FollowsLifecycle`: the refinement of `JobLifecycle`;
- `LevelsMoveByOne == Spec => LevelMoves`, the rule of the code (not of the panel, see
  `aged_to_top`).

The invariant is `FieldInv == PlaceInv /\ WorkerKnows /\ WaitersKnow /\
WithinQuantum`. The fields of a job are written without a lock, so everything
hangs on who may write: `PlaceInv` says a job has one place, hence the stores of
one thread leave the jobs of the others alone, and each step need only be looked
at for the job it works on. `WorkerKnows` is what a worker may rely on between
its own steps: the job it has not started yet is READY (`StartingReady`), one it
leaves with `was_preempted` is PREEMPTED (`LeavesPreempted`), and a tick of work is
left when it is in the loop's body (`WorkLeft`). `WaitersKnow` is the same for those
who wait: `QueuedFresh`, jobs not submitted are at level 0 (`WaitingAtTop`), and an
aged one has waited in full (`AgedInFull`). Without them `WithinQuantum` is not
inductive (a job with a used-up slice could be queued), and neither action
property follows from the step alone: that FAILED comes from READY, or that a job
goes up a level after `AGING_THRESHOLD` ticks, is known from earlier steps.

`SchedulerSlotProofs` proves

- `PermitsAddUp == Spec => []PermitsConserved`: free permits and the workers that
  hold one are as many as there are slots. It is inductive with `TypeOK` alone.
- `SlotsAreExclusive == Spec => []SlotExclusive`. A worker that has its permit
  has a guess at an entry that was free earlier, and looks for an empty one from
  there on; if it found none, the code (and `ClaimSlot`) would overwrite the entry
  guessed. Lemma `ClaimsEmptyEntry` shows that there always is one: the entries in
  use belong to other holders of permits, who are fewer than the slots.
- `BusySlotsAreUsed == Spec => []ShownBusyIsUsed`.
- `PreemptionHasCause == Spec => PreemptsForBetter`, from `CandidateKnown`: when
  `checkPreemptions` goes for its CAS, a better job waits in a level or the aging
  thread's buffer. It still does although the probe gave the level's mutex back,
  because only the dispatcher pops, and aging only makes it better
  (`WaitersStay`). At the end of a quantum
  no one is asked: the worker stores PREEMPTED itself (`ExpireQuantum`).
- `BudgetAddsUp == Spec => []BudgetConserved`: `used_cpu` and `used_memory` are the
  sums of the requests of the workers that hold a permit, and within the totals.
  `FailureHasCause == Spec => FailsOnlyWhenTaken` follows: a request that does not
  fit although it is within the total finds another job's in its way.

`SchedulerQueueProofs` proves `CallsAreAllowed == Spec => UsesQueueSpec`, by mapping
each action to one of `QueueSpec` or a stutter (`RefineSubmit` to `RefineFinish`).
What the mapped step's guard asks is never visible in the step itself and comes
from the invariant, `CallInv == FieldInv /\ SlotExclusive /\ CandidateKnown /\
AgingAtTop`:

- that a job whose worker counts a tick, or requeues it, is out, and that one a pop
  takes was not, from `OnePlace`, `Accounted` and `QueuedFresh` of `FieldInv`;
- that no worker puts the job asked about back before the answer:
  `active[didx]` is its worker's entry (`SlotExclusive`), which that worker must
  clear under `active_mutex_` first;
- that the search never goes below the level of that job, and that `dlvl` is 0
  outside of it (`CandidateKnown`);
- that a run of the aging thread begins at level 1 (`AgingAtTop`).

`EventLogProofs` proves `SnapshotsAreEnds`, `ChartIsOrdered`, `LinesAreOrdered` and
`RingsImplementLogs`, for rings of any size. A ring (`IsRing`) has been written
`head` times; lemmas on remainders show that `latest` reads its newest entries
back in order, and `PutGrows` what a put does to the view: the last entry is new,
and the oldest is gone if the ring was full. All theorems argue about the views
from there on. `ThreadOrder` needs `LinesKnown`: the line a thread has still to
show is its last, and newer than all of its lines that are shown.

`LoggedStaysShown` is about the gap between `addLog`'s unlock and its callback, in
which other threads may log and show any number of lines: if at most `h` threads
are in it at a time, a UI log larger than the scheduler's by main's notices and
`h - 1` loses no line that the scheduler's log still has. The invariant,
`LinesShown(h)`, says what may have come in behind a shown line: later lines,
notices, and one line each of fewer than `h` threads that held it back. With the
code's 500, 512 and three notices that is `h = 10`. The theorem carries the bound
on threads as a hypothesis, since nothing in the code limits them; `event_log`
shows that one entry less is not enough. `FewWritersStayShown` replaces the hypothesis
by the number of threads there are.

`DashboardProofs` proves

- `TypeCorrect`, with the types of the data (`Types`);
- `AveragesAreSound == Spec => []AveragesSound`. Invariant: `AveragesKnow`. The
  `finish_time` is written before the status is published (`EndKnown`), and a
  scan has added up completed jobs only and still has its own job before it
  unless it has added it (`ScanKnows`).
- `CardsAddUp == Spec => []ShownAddUp`, from `CountsKnow`: each counter is the number
  of jobs with that status, but for the thread that is about to count, and a card
  never shows more than the counter has by now.
- `TableIsPermutation == Spec => []TablePermutes`: with the key put in the free
  place, each turn of the inner loop swaps two entries.
- `QuietTableIsSorted == Spec => []SortedIfQuiet`: the usual invariant of insertion
  sort (`SortKnows`), and that a loaded rank is still the rank while nothing changes
  (`LoadKnows`). As in the code, the rank of an entry is loaded again at each turn.

`EventLoopProofs` proves `TypeCorrect`; `PagesAreFull`, from the ranges of the scroll
positions; `FormIsCutOff`, that in the window `main` makes the form can neither
move a slider nor submit, for a `WIN_H` of up to 906 (the code has 880), which is the
defect `add_jobs` shows, in full and not a property to keep; and
`OncePerPress == Spec => []OncePerClick`. The last is by counting
(`ClicksAccounted`): jobs, presses in the queue and the press taken in this frame
are at most the user's presses. An event that is overwritten in the frame is a
press lost, which the invariant allows and `add_jobs` shows.

`JobQueueProofs` proves `TypeCorrect`, `ListsAreSorted`, `SizesMatchLists`,
`WalksStayInLists` and the refinement `ListsImplementSets`. The module describes a
list by following `next` for as many steps as there are jobs. The proof describes
it by a set: `IsList(h, next, S)` says that `h` is the first job of `S` in the
order `Precedes`, and `next` of each job is the first of those behind it. Lemma
`ChainIsList` shows that following `next` visits exactly `S`, so both agree; from
there on a push or an unlink is an argument about sets (`LinkedIsList`,
`UnlinkedIsList`). The invariant `Inv` has, besides the lists:

- `PlacesKnown` and `PushesKnown`: a job is in one list, or the buffer, or out, and
  no two threads push the same. So a pointer written by one thread is in a node no
  other thread's list has.
- `WalksKnown`: who walks has the mutex, stands on two neighbours, and a push has
  passed only jobs its own goes behind. Hence the place it links at is the right
  one.
- `BufferKnown` and `DrainKnown`: of the nodes it has seen, a drain took the aged
  ones and no others, and they precede those it has still to see. This is what
  makes `drainAged` atomic in `QueueSpec`, where it takes the first aged jobs that
  fit, at the moment it unlocks.
- `AskKnown`: `hasBetterCandidate` looks at the priority only in the level it was
  asked about, and the dispatcher is at level 0 between calls.

The refinement goes action by action (`RefinePush` to `RefineStutter`), with a
lemma each for the stutters.

**What the proofs rest on.** The assumptions named in the modules, which TLC
evaluates for each instance: `JobAssumption`, `AgedBufAssumption`,
`ResourceAssumption`, `SchedulerAssumption` and `JobArrayAssumption` (finitely many
jobs and threads, distinct submission times, positive quanta, at least one level
and slot), `JobQueueAssumption` (two levels or more; the threads are distinct),
`EventLogAssumption` (finitely many threads, rings with at least one entry),
`FormAssumption` (a name has room for the three letters of its default) and
`LoopAssumption` (types).

**Induction over data.** The library's rules for it take an operator and no prover
here can apply them. Two places need it all the same: sums over a set of workers
and the chain of a list. There the lemmas argue by a minimal counterexample: the
set of the subsets, or numbers, for which a fact fails has a minimal element by
`WFMin`, which takes a set, and that element is refuted (`MinimalSubset`,
`MinimalNumber`). The recursive functions in the model have finite domains, and
their existence is proved in the same way (`ChainExists`).

**What the proofs changed in the model.** `PreemptsForBetter` said that the
dispatcher preempts only for a better job that waits whenever `dpc = "cas"` and a
status becomes PREEMPTED; a worker whose quantum ends in that state does so as
well, so the property now also asks that it is the dispatcher that moves. The
assumptions on the constants of `SubmitForm` and `EventLoop` were found missing.

**Model-checked only.** `EveryJobEnds`, `PreemptionObserved`, `StopEnds` and
`QuitEnds`, which are liveness under fairness, and freedom from deadlock, which
rests on ENABLED: both beyond the prover. Every invariant and every action
property of the passing runs has a theorem, and so has each refinement. The five
violations are counterexamples and need no proof.

## 7. Not modelled

- `wait_ticks`, `preemption_count`, the counters of preemptions and promotions and
  `cpu_utilization`: numbers that are only shown.
- The sparklines, which one thread writes and reads.
- Restart: `main.cpp` calls `start` once and `stop` once.
- A failing `pthread_create`, whose result the code ignores.
- The destructor, which deletes memory the model does not have; `clean_stop` shows
  that there can be live workers by then.
- `SingleLevelQueue::snapshot`, which nobody calls, and `size`, which only the
  dashboard does.
- `drawWorkerSlots` reads a slot's `job_name` while `setWorkerBusy` may write it:
  one frame may show a mixed name.
- Time. Sleeps and ticks are steps that take place some time.
- Drawing, text, fonts and the Win32 wrappers.
- Memory that is freed: nodes are named by their jobs.

## 8. State

All modules of the plan are written; every safety property, action property and
refinement of the passing runs is checked and proved. What could follow:

1. Freedom from deadlock in `JobQueue` and `Scheduler`, stated by guards instead of
   ENABLED: some thread's guard holds in every state the invariants allow.
2. That `Dashboard` lives by `JobLifecycle`, so that its theorems are about the
   statuses that `LivesByLifecycle` is about. As modelled it uses the transitions
   of `JobLifecycle` themselves.
3. A module for the slots of `drawWorkerSlots`, if its torn reads ever matter.
