------------------------------ MODULE EventLog ------------------------------
(***************************************************************************)
(* The logs and the Gantt chart: Scheduler::addLog and addGantt, called by *)
(* all threads, the callback by which addLog hands each line on to         *)
(* UIState::pushLog, and the snapshots the dashboard draws from.           *)
(*                                                                         *)
(* A step is a critical section of log_mutex_, gantt_mutex_ or the UI's    *)
(* log_mutex.  addLog calls back after it unlocked, so a thread stands     *)
(* between two steps there.  A line is named by its thread and its number. *)
(***************************************************************************)
EXTENDS RingBuffer, FiniteSets

CONSTANTS
  Writer,        \* the threads that write log lines
  Gui,           \* the GUI thread, which starts the scheduler
  Worker,        \* the threads that run jobs
  MAX_LOG,       \* the sizes of the rings
  UI_LOG_MAX,
  MAX_GANTT,
  START_LINES,   \* the lines start() logs
  NOTICES,       \* the lines main() pushes itself after start()
  LINES,         \* bound: lines a thread writes
  RECORDS,       \* bound: entries of the chart
  TICKS          \* bound: the global tick

ASSUME EventLogAssumption ==
  /\ IsFiniteSet(Writer)
  /\ Gui \in Writer
  /\ Worker \subseteq Writer \ {Gui}
  /\ MAX_LOG \in Nat \ {0}
  /\ UI_LOG_MAX \in Nat \ {0}
  /\ MAX_GANTT \in Nat \ {0}
  /\ {START_LINES, NOTICES, LINES, RECORDS, TICKS} \subseteq Nat

VARIABLES
  log_buf,       \* log_buf_, log_head_, log_count_
  log_entries,   \* UIState::log_entries, log_head, log_count
  gantt_buf,     \* gantt_buf_, gantt_head_, gantt_count_
  global_tick,   \* global_tick_
  sent,          \* how many lines a thread has written so far
  showing        \* its line between the log and the callback, 0 if none

vars == <<log_buf, log_entries, gantt_buf, global_tick, sent, showing>>

Init ==
  /\ log_buf = emptyRing(MAX_LOG)
  /\ log_entries = emptyRing(UI_LOG_MAX)
  /\ gantt_buf = emptyRing(MAX_GANTT)
  /\ global_tick = 0
  /\ sent = [t \in Writer |-> 0]
  /\ showing = [t \in Writer |-> 0]

-----------------------------------------------------------------------------
(* main() starts the scheduler, then pushes its notices, then runs frames. *)
inNotices(t) ==
  t = Gui /\ sent[t] \in START_LINES .. START_LINES + NOTICES - 1

(* The other threads exist only once start() has been called; the lines of *)
(* start() itself compete with theirs.                                     *)
addLog(t) ==
  /\ showing[t] = 0
  /\ ~ inNotices(t)
  /\ sent[t] < LINES
  /\ sent' = [sent EXCEPT ![t] = @ + 1]
  /\ showing' = [showing EXCEPT ![t] = sent[t] + 1]
  /\ log_buf' = put(log_buf, MAX_LOG, <<t, sent[t] + 1>>)
  /\ UNCHANGED <<log_entries, gantt_buf, global_tick>>

(* Mutant: the callback leaves the line out while another thread shows one *)
pushLogIfAlone(t) ==
  /\ showing[t] # 0
  /\ log_entries' = IF \A u \in Writer \ {t} : showing[u] = 0
                    THEN put(log_entries, UI_LOG_MAX, <<t, showing[t]>>)
                    ELSE log_entries
  /\ showing' = [showing EXCEPT ![t] = 0]
  /\ UNCHANGED <<log_buf, gantt_buf, global_tick, sent>>

(* log_cb_, called by addLog: pushLog.                                     *)
pushLog(t) ==
  /\ showing[t] # 0
  /\ log_entries' = put(log_entries, UI_LOG_MAX, <<t, showing[t]>>)
  /\ showing' = [showing EXCEPT ![t] = 0]
  /\ UNCHANGED <<log_buf, gantt_buf, global_tick, sent>>

(* main() calls pushLog directly.                                          *)
pushNotice(t) ==
  /\ inNotices(t)
  /\ showing[t] = 0
  /\ sent' = [sent EXCEPT ![t] = @ + 1]
  /\ log_entries' = put(log_entries, UI_LOG_MAX, <<t, sent[t] + 1>>)
  /\ UNCHANGED <<log_buf, gantt_buf, global_tick, showing>>

(* A worker has worked a tick.  global_tick_ is read under the mutex.      *)
addGantt(t) ==
  /\ t \in Worker
  /\ showing[t] = 0
  /\ gantt_buf.head < RECORDS
  /\ gantt_buf' = put(gantt_buf, MAX_GANTT, <<t, global_tick>>)
  /\ UNCHANGED <<log_buf, log_entries, global_tick, sent, showing>>

(* The dispatcher counts a tick.                                           *)
countTick ==
  /\ global_tick < TICKS
  /\ global_tick' = global_tick + 1
  /\ UNCHANGED <<log_buf, log_entries, gantt_buf, sent, showing>>

Next ==
  \/ \E t \in Writer :
        addLog(t) \/ pushLog(t) \/ pushNotice(t) \/ addGantt(t)
  \/ countTick

Spec == Init /\ [][Next]_vars

-----------------------------------------------------------------------------
logSnapshot(max) == latest(log_buf, MAX_LOG, max)
uiLogSnapshot(max) == latest(log_entries, UI_LOG_MAX, max)
ganttSnapshot(max) == latest(gantt_buf, MAX_GANTT, max)

(* The last n entries of s.                                                *)
lastOf(s, n) == SubSeq(s, Len(s) - n + 1, Len(s))

(* A snapshot, of whatever length the caller has room for, is the newest   *)
(* end of what the ring holds: also when the ring is full, or the head has *)
(* gone round it several times.                                            *)
SnapshotIsNewest ==
  /\ \A n \in 0 .. log_buf.count :
        logSnapshot(n) = lastOf(logSnapshot(MAX_LOG), n)
  /\ \A n \in 0 .. log_entries.count :
        uiLogSnapshot(n) = lastOf(uiLogSnapshot(UI_LOG_MAX), n)
  /\ \A n \in 0 .. gantt_buf.count :
        ganttSnapshot(n) = lastOf(ganttSnapshot(MAX_GANTT), n)

(* Every line in the scheduler's log is in the UI's log too, or its thread *)
(* is about to show it: the UI's log does not lose it before the scheduler *)
(* does.  That needs the UI's log to be the larger one, by the lines other *)
(* threads may still hold back and by main's own; it is larger by 12.      *)
LoggedIsShown ==
  \A i \in 1 .. log_buf.count :
     LET m == logSnapshot(MAX_LOG)[i]
     IN \/ showing[m[1]] = m[2]
        \/ \E k \in 1 .. log_entries.count : uiLogSnapshot(UI_LOG_MAX)[k] = m

(* The lines of one thread keep their order in both logs, even though the  *)
(* two logs may differ in the order of lines of different threads.         *)
ThreadOrder ==
  \A s \in {logSnapshot(MAX_LOG), uiLogSnapshot(UI_LOG_MAX)} :
     \A i, k \in DOMAIN s : i < k /\ s[i][1] = s[k][1] => s[i][2] < s[k][2]

(* The chart is in the order of the ticks: no worker enters a tick that is *)
(* older than one another worker has entered.                              *)
ChartInTickOrder ==
  LET s == ganttSnapshot(MAX_GANTT)
  IN \A i, k \in DOMAIN s : i < k => s[i][2] <= s[k][2]

Abstract ==
  INSTANCE LogSpec WITH
    log <- logSnapshot(MAX_LOG),
    shown <- uiLogSnapshot(UI_LOG_MAX),
    chart <- ganttSnapshot(MAX_GANTT),
    tick <- global_tick

(* The rings keep what LogSpec says: the newest entries, in order.         *)
ImplementsLogSpec == Abstract!Spec

=============================================================================
