------------------------------ MODULE LogSpec ------------------------------
(***************************************************************************)
(* What the scheduler's log, the UI's log and the Gantt chart promise: a   *)
(* line enters the first at once, and the second later, before the thread  *)
(* that wrote it writes another; each of the three holds the newest        *)
(* entries, as many as it has room for, in the order they entered it.      *)
(***************************************************************************)
EXTENDS Integers, Sequences

CONSTANTS
  Writer,       \* the threads that write log lines
  Gui,          \* the GUI thread, one of them
  MAX_LOG, UI_LOG_MAX, MAX_GANTT   \* the room in each

VARIABLES
  sent,      \* how many lines each thread has written
  showing,   \* the line a thread has logged and not shown yet, 0 if none
  log, shown, chart,   \* the entries of the log, the UI's log, the chart
  tick       \* the global tick

specVars == <<sent, showing, log, shown, chart, tick>>

(* The newest n entries of s.                                              *)
newest(s, n) == SubSeq(s, IF Len(s) > n THEN Len(s) - n + 1 ELSE 1, Len(s))

SpecInit ==
  /\ sent = [t \in Writer |-> 0]
  /\ showing = [t \in Writer |-> 0]
  /\ log = <<>> /\ shown = <<>> /\ chart = <<>>
  /\ tick = 0

Log(t) ==
  /\ showing[t] = 0
  /\ sent' = [sent EXCEPT ![t] = @ + 1]
  /\ showing' = [showing EXCEPT ![t] = sent[t] + 1]
  /\ log' = newest(Append(log, <<t, sent[t] + 1>>), MAX_LOG)
  /\ UNCHANGED <<shown, chart, tick>>

Show(t) ==
  /\ showing[t] # 0
  /\ shown' = newest(Append(shown, <<t, showing[t]>>), UI_LOG_MAX)
  /\ showing' = [showing EXCEPT ![t] = 0]
  /\ UNCHANGED <<sent, log, chart, tick>>

(* The GUI thread writes a line of its own to the UI's log only.           *)
Notice ==
  /\ showing[Gui] = 0
  /\ sent' = [sent EXCEPT ![Gui] = @ + 1]
  /\ shown' = newest(Append(shown, <<Gui, sent[Gui] + 1>>), UI_LOG_MAX)
  /\ UNCHANGED <<showing, log, chart, tick>>

(* A worker enters a tick it worked, with the global tick of the moment.   *)
Record(t) ==
  /\ t # Gui
  /\ showing[t] = 0
  /\ chart' = newest(Append(chart, <<t, tick>>), MAX_GANTT)
  /\ UNCHANGED <<sent, showing, log, shown, tick>>

Advance == tick' = tick + 1 /\ UNCHANGED <<sent, showing, log, shown, chart>>

SpecNext ==
  \/ \E t \in Writer : Log(t) \/ Show(t) \/ Record(t)
  \/ Notice
  \/ Advance

Spec == SpecInit /\ [][SpecNext]_specVars

=============================================================================
