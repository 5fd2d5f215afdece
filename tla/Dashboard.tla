----------------------------- MODULE Dashboard -----------------------------
(***************************************************************************)
(* The GUI thread at work on the jobs while their workers end them: it     *)
(* submits jobs, draws the table of JobTable and shows the counters of     *)
(* SchedulerStats, one after the other.                                    *)
(***************************************************************************)
EXTENDS SchedulerStats, JobTable

VARIABLES
  shown,    \* drawStatsDash: the counters loaded so far, in its order
  quiet     \* history: no status has changed since the table was copied

vars == <<status, arrayVars, guiVars, statsVars, tableVars, shown, quiet>>

Init ==
  /\ ArrayInit
  /\ StatsInit
  /\ TableInit
  /\ shown = <<>>
  /\ quiet = TRUE

(* Preemptions and promotions, the last two cards, are left out.           *)
cards == <<total_submitted, total_completed, total_failed>>

LoadCounter ==
  /\ IF shown = <<>> THEN gui("idle", "stats") ELSE gui("stats", "stats")
  /\ Len(shown) < 3
  /\ shown' = Append(shown, cards[Len(shown) + 1])
  /\ UNCHANGED <<status, arrayVars, gjob>>

ShowCounters ==
  /\ gui("stats", "idle")
  /\ Len(shown) = 3
  /\ shown' = <<>>
  /\ UNCHANGED <<status, arrayVars, gjob>>

DrawStatsDash == LoadCounter \/ ShowCounters

Next ==
  /\ \/ SubmitJob /\ UNCHANGED <<statsVars, tableVars, shown>>
     \/ DrawJobTable /\ UNCHANGED <<statsVars, shown>>
     \/ DrawStatsDash /\ UNCHANGED <<statsVars, tableVars>>
     \/ (\E j \in Jobs : workerStep(j)) /\ UNCHANGED <<tableVars, shown>>
  /\ quiet' = (gstep = "idle" \/ (quiet /\ status' = status))

Spec == Init /\ [][Next]_vars

-----------------------------------------------------------------------------
WorkerPlaces ==
  {"off", "fail", "publish", "count", "snapshot", "scan",
   "wait", "turnaround", "throughput"}

TypeOK ==
  /\ status \in [Jobs -> JobStatus]
  /\ Len(all_jobs) <= MAX_JOBS
  /\ gstep \in {"idle", "count", "push", "table", "insert", "stats"}
  /\ gstep \in {"count", "push"} <=> gjob # NoJob
  /\ wstep \in [Jobs -> WorkerPlaces]
  /\ \A j \in Jobs : wrest[j] # <<>> => wstep[j] = "scan"
  /\ gstep = "insert" => key \in Jobs /\ tj \in 0 .. ti - 1
  /\ gstep = "insert" => ti \in DOMAIN jobs_buf
  /\ Len(shown) <= 3

(* However the unlocked scans fall between the ends of other jobs, an      *)
(* average is over completed jobs only, each with its finish_time written, *)
(* and that of a worker about to store it includes the worker's own job.   *)
AveragesSound ==
  LET completed == {<<j, TRUE>> : j \in {k \in Recorded : status[k] = "COMPLETED"}}
  IN /\ avg_wait_ticks \cup avg_turnaround_sec \cup throughput \subseteq completed
     /\ \A j \in Recorded :
           wstep[j] \in {"wait", "turnaround", "throughput"} =>
              <<j, TRUE>> \in wsum[j]

(* The cards of one frame add up, although they are loaded one by one      *)
(* while jobs end: no more jobs completed and failed than were submitted.  *)
ShownAddUp ==
  Len(shown) = 3 => shown[2] + shown[3] <= shown[1]

(* Nothing the other threads do to the statuses makes the sort lose a job  *)
(* or list it twice: with the key where it is to go, the copy is always a  *)
(* permutation of an initial part of the array.                            *)
TablePermutes ==
  LET table == IF gstep = "insert" THEN [jobs_buf EXCEPT ![tj + 1] = key]
                                   ELSE jobs_buf
      n == Len(table)
  IN gstep \in {"table", "insert"} =>
       /\ n <= Len(all_jobs)
       /\ {table[i] : i \in 1 .. n} = {all_jobs[i] : i \in 1 .. n}

(* The order of the rows: by rank, then by submission.                     *)
placeOf(j) == CHOOSE i \in DOMAIN all_jobs : all_jobs[i] = j

comesFirst(a, b) ==
  \/ rankOf(a) < rankOf(b)
  \/ rankOf(a) = rankOf(b) /\ placeOf(a) < placeOf(b)

(* If no status changed meanwhile, the rows come out by rank, and jobs of  *)
(* the same rank in the order in which they were submitted.                *)
SortedIfQuiet ==
  gstep = "table" /\ quiet /\ ti >= Len(jobs_buf) =>
     \A i, k \in DOMAIN jobs_buf :
        i < k => comesFirst(jobs_buf[i], jobs_buf[k])

(* README.md:52: the stats tab shows the averages over the jobs.  So once  *)
(* the last worker is done they cover every recorded job that completed.   *)
StatsSettle ==
  (\A j \in Jobs : wstep[j] = "off") =>
     {e[1] : e \in avg_wait_ticks} = {j \in Recorded : status[j] = "COMPLETED"}

=============================================================================
