------------------------------ MODULE JobQueue ------------------------------
(***************************************************************************)
(* SingleLevelQueue and MLFQJobQueue of job_queue.h as they are built:     *)
(* three linked lists, each with a mutex and a size, and calls that walk   *)
(* them while other calls walk the other levels.  A job is in at most one  *)
(* list, so its QueueNode is named by the job.                             *)
(***************************************************************************)
EXTENDS Job, Sequences

CONSTANTS
  Pusher,         \* threads that push new jobs or requeue popped ones
  AgingThread,    \* the thread that calls runAging
  NoThread,       \* the owner of a mutex nobody holds
  AGED_BUF        \* the size of runAging's buffer

ASSUME JobQueueAssumption ==
  /\ AgingThread \notin Pusher
  /\ NoThread \notin Pusher \cup {AgingThread}
  /\ AGED_BUF \in Nat \ {0}
  /\ MLFQ_LEVELS > 1

Thread == Pusher \cup {AgingThread}

VARIABLES
  head, size, owner,   \* head_, size_ and mutex_ of each level
  next,                \* QueueNode::next of the node of each job
  mlfq_level, ticks_this_slice, aging_ticks,   \* Job's fields
  out,                 \* the jobs popped and not put back
  dpc, dlvl, asked, better,   \* dispatcher: its call, arguments, result
  apc, alvl, aged,     \* runAging: where it is, lvl, the buffer so far
  tpc, tjob,           \* a thread's push: where it is, the job
  prev, cur            \* the pointers of its walk

listVars == <<head, size, owner, next>>
fieldVars == <<mlfq_level, ticks_this_slice, aging_ticks, status>>
dispatchVars == <<dpc, dlvl, asked, better>>
drainVars == <<apc, alvl, aged>>
walkVars == <<prev, cur>>
pushVars == <<tpc, tjob>>
vars == <<listVars, fieldVars, out, dispatchVars, drainVars, walkVars,
          pushVars>>

(* What hasBetterCandidate is called with, and what that is between calls. *)
Asked == [lvl : Levels, prio : {PriorityOf[j] : j \in Jobs}]
NotAsked == [lvl |-> 0, prio |-> 0]

Init ==
  /\ head = [l \in Levels |-> NoJob]
  /\ size = [l \in Levels |-> 0]
  /\ owner = [l \in Levels |-> NoThread]
  /\ next = [j \in Jobs |-> NoJob]
  /\ mlfq_level = [j \in Jobs |-> 0]
  /\ ticks_this_slice = [j \in Jobs |-> 0]
  /\ aging_ticks = [j \in Jobs |-> 0]
  /\ LifecycleInit
  /\ out = {}
  /\ dpc = "idle" /\ dlvl = 0
  /\ asked = NotAsked /\ better = FALSE
  /\ apc = "sleep" /\ alvl = 1 /\ aged = <<>>
  /\ tpc = [t \in Thread |-> "off"]
  /\ tjob = [t \in Thread |-> NoJob]
  /\ prev = [t \in Thread |-> NoJob]
  /\ cur = [t \in Thread |-> NoJob]

-----------------------------------------------------------------------------
(* The lists.                                                              *)

(* Mutant: no mutual exclusion.                                            *)
isAnyones(l) == l \in Levels

(* A call waits until the mutex of the level is free.                      *)
isFree(l) == owner[l] = NoThread

(* A thread takes the mutex of level l and starts at the head of its list. *)
lockAndStart(t, l) ==
  /\ isFree(l)
  /\ owner' = [owner EXCEPT ![l] = t]
  /\ prev' = [prev EXCEPT ![t] = NoJob]
  /\ cur' = [cur EXCEPT ![t] = head[l]]

advance(t) ==
  /\ prev' = [prev EXCEPT ![t] = cur[t]]
  /\ cur' = [cur EXCEPT ![t] = next[cur[t]]]

(* Mutant: in front of the jobs of the same priority.                      *)
insertAtEqual(j, c) == PriorityOf[j] >= PriorityOf[c]

(* insert_here: job j goes in front of job c.                              *)
insertHere(j, c) ==
  \/ PriorityOf[j] > PriorityOf[c]
  \/ PriorityOf[j] = PriorityOf[c] /\ SubmitTime[j] < SubmitTime[c]

(* The node of j goes in behind p, or to the front where there is no p.    *)
link(l, j, p) ==
  /\ IF p = NoJob
     THEN /\ next' = [next EXCEPT ![j] = head[l]]
          /\ head' = [head EXCEPT ![l] = j]
     ELSE /\ next' = [next EXCEPT ![j] = next[p], ![p] = j]
          /\ UNCHANGED head
  /\ size' = [size EXCEPT ![l] = @ + 1]

(* Mutant: the node behind it becomes the head, whatever is before it.     *)
unlinkAtHead(l, j, p) ==
  /\ head' = [head EXCEPT ![l] = next[j]]
  /\ next' = [next EXCEPT ![j] = NoJob]
  /\ size' = [size EXCEPT ![l] = @ - 1]

(* Mutant: size_ is not counted down.                                      *)
unlinkUncounted(l, j, p) ==
  /\ IF p = NoJob
     THEN /\ head' = [head EXCEPT ![l] = next[j]]
          /\ next' = [next EXCEPT ![j] = NoJob]
     ELSE /\ next' = [next EXCEPT ![p] = next[j], ![j] = NoJob]
          /\ UNCHANGED head
  /\ UNCHANGED size

(* The node of j, behind p or the first, comes out and is deleted.         *)
unlink(l, j, p) ==
  /\ IF p = NoJob
     THEN /\ head' = [head EXCEPT ![l] = next[j]]
          /\ next' = [next EXCEPT ![j] = NoJob]
     ELSE /\ next' = [next EXCEPT ![p] = next[j], ![j] = NoJob]
          /\ UNCHANGED head
  /\ size' = [size EXCEPT ![l] = @ - 1]

-----------------------------------------------------------------------------
(* A push, by pushNew, requeuePreempted or runAging.                       *)

beginPush(t, j) ==
  /\ tpc[t] = "off"
  /\ \A u \in Thread : tjob[u] # j
  /\ tpc' = [tpc EXCEPT ![t] = "lock"]
  /\ tjob' = [tjob EXCEPT ![t] = j]
  /\ UNCHANGED <<listVars, fieldVars, out, dispatchVars, drainVars, walkVars>>

PushNew(t, j) == t \in Pusher /\ status[j] = "WAITING" /\ beginPush(t, j)

Requeue(t, j) == t \in Pusher /\ j \in out /\ beginPush(t, j)

Promote ==
  /\ apc = "push"
  /\ beginPush(AgingThread, Head(aged))

(* The level that is pushed to: 0, the one above for the aging thread, and *)
(* for a requeue the job's own or, after a full quantum, the next.         *)
targetLevel(t) ==
  LET j == tjob[t]
      demote == quantumExpired(mlfq_level[j], ticks_this_slice[j])
  IN IF t = AgingThread THEN alvl - 1
     ELSE IF status[j] = "WAITING" THEN 0
     ELSE IF demote /\ mlfq_level[j] < LastLevel THEN mlfq_level[j] + 1
     ELSE mlfq_level[j]

LockPush(t) ==
  /\ tpc[t] = "lock"
  /\ lockAndStart(t, targetLevel(t))
  /\ tpc' = [tpc EXCEPT ![t] = "scan"]
  /\ UNCHANGED <<head, size, next, fieldVars, out, dispatchVars, drainVars,
                 tjob>>

ScanPush(t) ==
  /\ tpc[t] = "scan"
  /\ cur[t] # NoJob
  /\ ~ insertHere(tjob[t], cur[t])
  /\ advance(t)
  /\ UNCHANGED <<listVars, fieldVars, out, dispatchVars, drainVars, pushVars>>

nextAgingLevel ==
  IF alvl = LastLevel
  THEN apc' = "sleep" /\ alvl' = 1
  ELSE apc' = "drain" /\ alvl' = alvl + 1

(* The node is linked in.  The fields of the job, which the caller wrote   *)
(* before, count from here: until now no other thread could reach it.      *)
LinkPush(t) ==
  /\ tpc[t] = "scan"
  /\ cur[t] # NoJob => insertHere(tjob[t], cur[t])
  /\ LET j == tjob[t]
         l == targetLevel(t)
     IN /\ link(l, j, prev[t])
        /\ owner' = [owner EXCEPT ![l] = NoThread]
        /\ mlfq_level' = [mlfq_level EXCEPT ![j] = l]
        /\ ticks_this_slice' = [ticks_this_slice EXCEPT ![j] = 0]
        /\ aging_ticks' = [aging_ticks EXCEPT ![j] = 0]
        /\ status' = [status EXCEPT ![j] = "READY"]
        /\ out' = out \ {j}
  /\ tpc' = [tpc EXCEPT ![t] = "off"]
  /\ tjob' = [tjob EXCEPT ![t] = NoJob]
  /\ IF t # AgingThread THEN UNCHANGED drainVars
     ELSE /\ aged' = Tail(aged)
          /\ IF aged' = <<>> THEN nextAgingLevel ELSE UNCHANGED <<apc, alvl>>
  /\ prev' = [prev EXCEPT ![t] = NoJob]
  /\ cur' = [cur EXCEPT ![t] = NoJob]
  /\ UNCHANGED dispatchVars

Push(t) ==
  \/ \E j \in Jobs : PushNew(t, j) \/ Requeue(t, j)
  \/ LockPush(t)
  \/ ScanPush(t)
  \/ LinkPush(t)

(* A worker runs a popped job for a tick.                                  *)
UseTick(j) ==
  /\ j \in out
  /\ \A t \in Thread : tjob[t] # j
  /\ ~ quantumExpired(mlfq_level[j], ticks_this_slice[j])
  /\ ticks_this_slice' = [ticks_this_slice EXCEPT ![j] = @ + 1]
  /\ UNCHANGED <<listVars, mlfq_level, aging_ticks, status, out,
                 dispatchVars, drainVars, walkVars, pushVars>>

-----------------------------------------------------------------------------
(* The dispatcher's calls.                                                 *)

(* The jobs in the list of level l, in its order: the n-th by following    *)
(* next from the head n - 1 times.                                         *)
nodeAt(l) ==
  LET f[n \in 1 .. Cardinality(Jobs)] ==
        IF n = 1 THEN head[l]
        ELSE IF f[n - 1] = NoJob THEN NoJob ELSE next[f[n - 1]]
  IN f

nodes(l) ==
  LET at == nodeAt(l) IN {at[n] : n \in 1 .. Cardinality(Jobs)} \ {NoJob}

Tick(l) ==
  /\ dpc = "idle"
  /\ isFree(l)
  /\ aging_ticks' = [j \in Jobs |->
                       IF j \in nodes(l) /\ aging_ticks[j] < AGING_THRESHOLD
                       THEN aging_ticks[j] + 1
                       ELSE aging_ticks[j]]
  /\ UNCHANGED <<listVars, mlfq_level, ticks_this_slice, status, out,
                 dispatchVars, drainVars, walkVars, pushVars>>

atDispatch(step) ==
  /\ dpc = step
  /\ UNCHANGED <<owner, fieldVars, drainVars, walkVars, pushVars>>

(* The dispatcher asks for the sake of a job that runs.                    *)
Ask(j) ==
  /\ atDispatch("idle")
  /\ j \in out
  /\ \A t \in Thread : tjob[t] # j
  /\ asked' = [lvl |-> mlfq_level[j], prio |-> PriorityOf[j]]
  /\ dpc' = "empty" /\ dlvl' = 0
  /\ UNCHANGED <<head, size, next, out, better>>

answer(b) ==
  dpc' = "idle" /\ dlvl' = 0 /\ asked' = NotAsked /\ better' = b

(* hasBetterCandidate first looks whether the level is empty() ...         *)
AskEmpty ==
  /\ atDispatch("empty")
  /\ isFree(dlvl)
  /\ IF head[dlvl] = NoJob
     THEN IF dlvl < asked.lvl
          THEN dlvl' = dlvl + 1 /\ UNCHANGED <<dpc, asked, better>>
          ELSE answer(FALSE)
     ELSE IF dlvl < asked.lvl
          THEN answer(TRUE)
          ELSE dpc' = "top" /\ UNCHANGED <<dlvl, asked, better>>
  /\ UNCHANGED <<head, size, next, out>>

(* ... and takes the mutex again for topPriority(), -1 if it is by now.    *)
AskTop ==
  /\ atDispatch("top")
  /\ isFree(dlvl)
  /\ answer(head[dlvl] # NoJob /\ PriorityOf[head[dlvl]] > asked.prio)
  /\ UNCHANGED <<head, size, next, out>>

StartPop ==
  /\ atDispatch("idle")
  /\ dpc' = "pop" /\ dlvl' = 0
  /\ UNCHANGED <<head, size, next, out, asked, better>>

TryPop ==
  /\ atDispatch("pop")
  /\ isFree(dlvl)
  /\ IF head[dlvl] = NoJob
     THEN /\ IF dlvl = LastLevel
             THEN dpc' = "idle" /\ dlvl' = 0
             ELSE dlvl' = dlvl + 1 /\ UNCHANGED dpc
          /\ UNCHANGED <<head, size, next, out>>
     ELSE /\ unlink(dlvl, head[dlvl], NoJob)
          /\ out' = out \cup {head[dlvl]}
          /\ dpc' = "idle" /\ dlvl' = 0
  /\ UNCHANGED <<asked, better>>

-----------------------------------------------------------------------------
(* The aging thread's drainAged, node by node.                             *)

atAging(step) ==
  /\ apc = step
  /\ UNCHANGED <<fieldVars, out, dispatchVars, pushVars>>

StartAging ==
  /\ atAging("sleep")
  /\ apc' = "drain" /\ alvl' = 1
  /\ UNCHANGED <<listVars, walkVars, aged>>

LockDrain ==
  /\ atAging("drain")
  /\ lockAndStart(AgingThread, alvl)
  /\ apc' = "walk"
  /\ UNCHANGED <<head, size, next, alvl, aged>>

(* Mutant: no look at the size of the buffer.                              *)
drainAtEnd == cur[AgingThread] = NoJob

drainDone == cur[AgingThread] = NoJob \/ Len(aged) = AGED_BUF

WalkDrain ==
  /\ atAging("walk")
  /\ ~ drainDone
  /\ LET j == cur[AgingThread]
     IN IF aging_ticks[j] >= AGING_THRESHOLD
        THEN /\ unlink(alvl, j, prev[AgingThread])
             /\ cur' = [cur EXCEPT ![AgingThread] = next[j]]
             /\ aged' = Append(aged, j)
             /\ UNCHANGED prev
        ELSE advance(AgingThread) /\ UNCHANGED <<head, size, next, aged>>
  /\ UNCHANGED <<owner, apc, alvl>>

UnlockDrain ==
  /\ atAging("walk")
  /\ drainDone
  /\ owner' = [owner EXCEPT ![alvl] = NoThread]
  /\ IF aged = <<>> THEN nextAgingLevel ELSE apc' = "push" /\ UNCHANGED alvl
  /\ prev' = [prev EXCEPT ![AgingThread] = NoJob]
  /\ cur' = [cur EXCEPT ![AgingThread] = NoJob]
  /\ UNCHANGED <<head, size, next, aged>>

-----------------------------------------------------------------------------
Next ==
  \/ \E t \in Thread : Push(t)
  \/ \E j \in Jobs : UseTick(j) \/ Ask(j)
  \/ \E l \in Levels : Tick(l)
  \/ AskEmpty \/ AskTop \/ StartPop \/ TryPop
  \/ StartAging \/ LockDrain \/ WalkDrain \/ UnlockDrain \/ Promote

Spec == Init /\ [][Next]_vars

-----------------------------------------------------------------------------
TypeOK ==
  /\ head \in [Levels -> Jobs \cup {NoJob}]
  /\ size \in [Levels -> Nat]
  /\ owner \in [Levels -> Thread \cup {NoThread}]
  /\ next \in [Jobs -> Jobs \cup {NoJob}]
  /\ mlfq_level \in [Jobs -> Levels]
  /\ ticks_this_slice \in [Jobs -> Nat]
  /\ aging_ticks \in [Jobs -> 0 .. AGING_THRESHOLD]
  /\ status \in [Jobs -> {"WAITING", "READY"}]
  /\ out \subseteq Jobs
  /\ dpc \in {"idle", "empty", "top", "pop"} /\ dlvl \in Levels
  /\ asked \in Asked \cup {NotAsked} /\ better \in BOOLEAN
  /\ apc \in {"sleep", "drain", "walk", "push"} /\ alvl \in Levels \ {0}
  /\ aged \in Seq(Jobs) /\ Len(aged) <= AGED_BUF
  /\ tpc \in [Thread -> {"off", "lock", "scan"}]
  /\ tjob \in [Thread -> Jobs \cup {NoJob}]
  /\ prev \in [Thread -> Jobs \cup {NoJob}]
  /\ cur \in [Thread -> Jobs \cup {NoJob}]

(* Every list is in order, higher priority first and the earlier submitted *)
(* first between equals, even in the middle of a push or a drain.          *)
Sorted ==
  \A l \in Levels : \A j \in nodes(l) :
     next[j] # NoJob => Precedes(j, next[j])

(* A list ends, its size_ counts its nodes, and no node is in two lists.   *)
SizeMatches ==
  /\ \A l \in Levels : size[l] = Cardinality(nodes(l))
  /\ \A l, m \in Levels : l # m => nodes(l) \cap nodes(m) = {}

(* A walk stands on two neighbours of the list it locked: what another     *)
(* thread does meanwhile, to this level or the others, never moves it off. *)
WalkInList ==
  LET onWalk(t, l) ==
        /\ owner[l] = t
        /\ IF prev[t] = NoJob
           THEN cur[t] = head[l]
           ELSE prev[t] \in nodes(l) /\ cur[t] = next[prev[t]]
  IN /\ \A t \in Thread : tpc[t] = "scan" => onWalk(t, targetLevel(t))
     /\ apc = "walk" => onWalk(AgingThread, alvl)

(* The lists implement the sets of QueueSpec: a drain takes effect when it *)
(* unlocks, and everything else when it links or unlinks.  A pop begins    *)
(* with its look at level 0.                                               *)
Abstract ==
  INSTANCE QueueSpec WITH
    level <- [l \in Levels |->
                IF apc = "walk" /\ alvl = l
                THEN nodes(l) \cup {aged[i] : i \in DOMAIN aged}
                ELSE nodes(l)],
    aged <- IF apc = "walk" THEN {} ELSE {aged[i] : i \in DOMAIN aged},
    apc <- IF apc = "walk" THEN "drain" ELSE apc,
    dpc <- IF dpc \in {"empty", "top"} THEN "probe"
           ELSE IF dpc = "pop" /\ dlvl = 0 THEN "idle"
           ELSE dpc

(* Whatever the interleaving of the calls, each acts as if at once.        *)
ImplementsQueueSpec == Abstract!Spec

=============================================================================
