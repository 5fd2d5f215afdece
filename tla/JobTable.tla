------------------------------ MODULE JobTable ------------------------------
(***************************************************************************)
(* The job table of the dashboard: drawJobTable copies the array and sorts *)
(* the copy by insertion, by statuses that the other threads go on         *)
(* changing.                                                               *)
(***************************************************************************)
EXTENDS JobArray

VARIABLES
  jobs_buf,       \* the copy
  key, ti, tj,    \* the job being inserted, i and j, both counted from 1
  tload           \* of the two loads a comparison makes, the one made

tableVars == <<jobs_buf, key, ti, tj, tload>>

NoLoad == [of |-> "none", rank |-> 0]

TableInit ==
  /\ jobs_buf = <<>>
  /\ key = NoJob /\ ti = 1 /\ tj = 0
  /\ tload = NoLoad

rankStatus(s) ==
  CASE s = "RUNNING" -> 0
    [] s = "PREEMPTED" -> 1
    [] s = "READY" -> 2
    [] s = "WAITING" -> 3
    [] s = "COMPLETED" -> 4
    [] s = "FAILED" -> 5

rankOf(j) == rankStatus(status[j])

othersSame == UNCHANGED <<status, arrayVars, gjob>>

CopyJobs ==
  /\ gui("idle", "table")
  /\ jobs_buf' = allJobsSnapshot
  /\ ti' = 1
  /\ UNCHANGED <<key, tj, tload>> /\ othersSame

(* The next turn of the outer loop.                                        *)
PickKey ==
  /\ gui("table", "insert")
  /\ ti < Len(jobs_buf)
  /\ ti' = ti + 1
  /\ tj' = ti
  /\ key' = jobs_buf[ti + 1]
  /\ UNCHANGED <<jobs_buf, tload>> /\ othersSame

(* C++ does not say which side of the comparison is loaded first.          *)
LoadOne ==
  /\ gui("insert", "insert")
  /\ tj >= 1 /\ tload = NoLoad
  /\ \/ tload' = [of |-> "entry", rank |-> rankOf(jobs_buf[tj])]
     \/ tload' = [of |-> "key", rank |-> rankOf(key)]
  /\ UNCHANGED <<jobs_buf, key, ti, tj>> /\ othersSame

(* Mutant: a job is put before those of its own rank.                      *)
goesNotAfter ==
  IF tload.of = "entry" THEN tload.rank >= rankOf(key)
                        ELSE rankOf(jobs_buf[tj]) >= tload.rank

(* With the other load, whether the key goes before the entry at tj.       *)
goesBefore ==
  IF tload.of = "entry" THEN tload.rank > rankOf(key)
                        ELSE rankOf(jobs_buf[tj]) > tload.rank

(* Mutant: the entry is not moved away.                                    *)
StepOver ==
  /\ gui("insert", "insert")
  /\ tload # NoLoad /\ goesBefore
  /\ tj' = tj - 1
  /\ tload' = NoLoad
  /\ UNCHANGED <<jobs_buf, key, ti>> /\ othersSame

Shift ==
  /\ gui("insert", "insert")
  /\ tload # NoLoad /\ goesBefore
  /\ jobs_buf' = [jobs_buf EXCEPT ![tj + 1] = jobs_buf[tj]]
  /\ tj' = tj - 1
  /\ tload' = NoLoad
  /\ UNCHANGED <<key, ti>> /\ othersSame

PlaceKey ==
  /\ gui("insert", "table")
  /\ tj = 0 \/ (tload # NoLoad /\ ~ goesBefore)
  /\ jobs_buf' = [jobs_buf EXCEPT ![tj + 1] = key]
  /\ key' = NoJob /\ tj' = 0
  /\ tload' = NoLoad
  /\ UNCHANGED ti /\ othersSame

(* The rows are drawn in the order of the copy; what stays in the buffer   *)
(* is overwritten by the next frame before it is read.                     *)
DrawRows ==
  /\ gui("table", "idle")
  /\ ti >= Len(jobs_buf)
  /\ jobs_buf' = <<>> /\ ti' = 1
  /\ UNCHANGED <<key, tj, tload>> /\ othersSame

DrawJobTable ==
  CopyJobs \/ PickKey \/ LoadOne \/ Shift \/ PlaceKey \/ DrawRows

=============================================================================
