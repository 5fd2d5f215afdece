-------------------------- MODULE DashboardProofs --------------------------
(***************************************************************************)
(* Theorems about module Dashboard, for any jobs and any size of the       *)
(* array.                                                                  *)
(***************************************************************************)
EXTENDS Dashboard, SequenceTheorems, FiniteSetTheorems, TLAPS

(* What the steps are called in the proofs.                                *)
GuiStep ==
  \/ SubmitJob /\ UNCHANGED <<statsVars, tableVars, shown>>
  \/ DrawJobTable /\ UNCHANGED <<statsVars, shown>>
  \/ DrawStatsDash /\ UNCHANGED <<statsVars, tableVars>>

WorkerStep(j) == workerStep(j) /\ UNCHANGED <<tableVars, shown>>

LEMMA NextSteps ==
  [Next]_vars => GuiStep \/ (\E j \in Jobs : WorkerStep(j)) \/ UNCHANGED vars
BY DEF Next, GuiStep, WorkerStep

-----------------------------------------------------------------------------
(* The inductive invariant, in parts.                                      *)

AverageType == SUBSET (Jobs \X BOOLEAN)

(* What TypeOK does not say: the types of the data, ...                    *)
DataTypeOK ==
  /\ all_jobs \in Seq(Jobs)
  /\ jobs_buf \in Seq(Jobs)
  /\ gjob \in Jobs \cup {NoJob}
  /\ total_submitted \in Nat /\ total_completed \in Nat /\ total_failed \in Nat
  /\ shown \in Seq(Nat)
  /\ ti \in Nat \ {0} /\ tj \in Nat
  /\ tload \in [of : {"none", "entry", "key"}, rank : 0 .. 5]
  /\ finish_time \in [Jobs -> BOOLEAN]
  /\ wrest \in [Jobs -> Seq(Jobs)]
  /\ wsum \in [Jobs -> AverageType]

(* ... and which of it is in use at which step of the GUI thread.          *)
TableKnows ==
  /\ shown # <<>> <=> gstep = "stats"
  /\ gstep \in {"table", "insert"} => Len(jobs_buf) <= Len(all_jobs)
  /\ tload # NoLoad => gstep = "insert" /\ tj >= 1

StoreSteps == {"wait", "turnaround", "throughput"}
CompletedSteps == {"count", "snapshot", "scan"} \cup StoreSteps

(* What a worker at the end of its job knows of the job: its finish_time   *)
(* is written before anyone can see that it completed.                     *)
EndKnown ==
  \A j \in Jobs :
     /\ wstep[j] = "publish" =>
           status[j] \in {"RUNNING", "PREEMPTED"} /\ finish_time[j]
     /\ wstep[j] = "fail" => status[j] = "FAILED"
     /\ wstep[j] \in CompletedSteps => status[j] = "COMPLETED"
     /\ status[j] = "COMPLETED" => finish_time[j]
     /\ gjob = j => status[j] = "WAITING"

(* A job is recorded once, before the queue has it.                        *)
RecordedOnce ==
  /\ \A a, b \in DOMAIN all_jobs : all_jobs[a] = all_jobs[b] => a = b
  /\ \A a \in DOMAIN all_jobs :
        status[all_jobs[a]] = "WAITING" => all_jobs[a] = gjob

CompletedEntries ==
  {<<j, TRUE>> : j \in {k \in Recorded : status[k] = "COMPLETED"}}

(* Wherever a scan is, it has added up completed jobs only, the rest of    *)
(* its snapshot is of recorded jobs, and the scanning worker's own job has *)
(* been added or is yet to come.                                           *)
ScanKnows ==
  \A j \in Jobs :
     /\ wsum[j] \subseteq CompletedEntries
     /\ \A i \in DOMAIN wrest[j] : wrest[j][i] \in Recorded
     /\ wstep[j] = "scan" /\ j \in Recorded =>
           \/ <<j, TRUE>> \in wsum[j]
           \/ \E i \in DOMAIN wrest[j] : wrest[j][i] = j

(* The counters count what they say, but for the thread that is about to.  *)
Pushed == {j \in Jobs : status[j] # "WAITING"}
CountedCompleted ==
  {j \in Jobs : status[j] = "COMPLETED" /\ wstep[j] # "count"}
CountedFailed == {j \in Jobs : status[j] = "FAILED" /\ wstep[j] # "fail"}

CountersKnow ==
  /\ IsFiniteSet(Pushed)
  /\ total_submitted = Cardinality(Pushed) + (IF gstep = "push" THEN 1 ELSE 0)
  /\ total_completed = Cardinality(CountedCompleted)
  /\ total_failed = Cardinality(CountedFailed)

(* While the cards are loaded, nothing is submitted.                       *)
ShownKnows ==
  gstep = "stats" =>
     /\ shown[1] = total_submitted
     /\ Len(shown) >= 2 => shown[2] <= total_completed
     /\ Len(shown) >= 3 => shown[3] <= total_failed

-----------------------------------------------------------------------------
(* Types.                                                                  *)

Types == TypeOK /\ DataTypeOK /\ TableKnows

LEMMA NoLoadType == NoLoad \in [of : {"none", "entry", "key"}, rank : 0 .. 5]
BY DEF NoLoad

LEMMA RankType == ASSUME Types, NEW j \in Jobs PROVE rankOf(j) \in 0 .. 5
BY DEF Types, TypeOK, rankOf, rankStatus, JobStatus

LEMMA LengthTypes ==
  ASSUME Types
  PROVE  /\ Len(jobs_buf) \in Nat /\ DOMAIN jobs_buf = 1 .. Len(jobs_buf)
         /\ Len(all_jobs) \in Nat /\ DOMAIN all_jobs = 1 .. Len(all_jobs)
         /\ Len(shown) \in Nat /\ Len(shown) <= 3 /\ DOMAIN shown = 1 .. Len(shown)
<1>1. /\ jobs_buf \in Seq(Jobs) /\ all_jobs \in Seq(Jobs) /\ shown \in Seq(Nat)
      /\ Len(shown) <= 3
  BY DEF Types, TypeOK, DataTypeOK
<1>2. Len(jobs_buf) \in Nat /\ DOMAIN jobs_buf = 1 .. Len(jobs_buf)
  BY <1>1, LenProperties
<1>3. Len(all_jobs) \in Nat /\ DOMAIN all_jobs = 1 .. Len(all_jobs)
  BY <1>1, LenProperties
<1>4. Len(shown) \in Nat /\ DOMAIN shown = 1 .. Len(shown)
  BY <1>1, LenProperties
<1> QED
  BY <1>1, <1>2, <1>3, <1>4

LEMMA TypeInit == Init => Types
<1> SUFFICES ASSUME Init PROVE Types
  OBVIOUS
<1>1. TypeOK
  BY JobArrayAssumption
     DEF Init, ArrayInit, StatsInit, TableInit, LifecycleInit, TypeOK,
         JobStatus, WorkerPlaces
<1>2. DataTypeOK
  BY NoLoadType
     DEF Init, ArrayInit, StatsInit, TableInit, DataTypeOK, AverageType
<1>3. TableKnows
  BY DEF Init, ArrayInit, TableInit, TableKnows
<1> QED
  BY <1>1, <1>2, <1>3 DEF Types

(* A job that becomes something keeps the statuses typed.                  *)
LEMMA BecomeType ==
  ASSUME status \in [Jobs -> JobStatus], NEW j \in Jobs, NEW t \in JobStatus,
         become(j, t)
  PROVE  /\ status' \in [Jobs -> JobStatus]
         /\ status'[j] = t
         /\ \A k \in Jobs : k # j => status'[k] = status[k]
         /\ MayBecome(status[j], t)
BY DEF become

(* submitJob keeps the types.                                              *)
LEMMA TypeSubmit ==
  ASSUME Types, SubmitJob, UNCHANGED <<statsVars, tableVars, shown>>
  PROVE  Types'
<1> USE DEF Types, TypeOK, DataTypeOK, TableKnows, statsVars, tableVars,
            counters, scanVars, gui
<1>1. ASSUME NEW j \in Jobs, SubmitRecord(j) PROVE Types'
  <2>1. /\ all_jobs' \in Seq(Jobs)
        /\ Len(all_jobs') <= MAX_JOBS
    BY <1>1, AppendProperties, JobArrayAssumption DEF SubmitRecord
  <2> QED
    BY <1>1, <2>1, JobArrayAssumption DEF SubmitRecord
<1>2. CASE SubmitCount
  BY <1>2 DEF SubmitCount
<1>3. CASE SubmitPush
  <2>1. gjob \in Jobs
    BY <1>3 DEF SubmitPush
  <2>2. status' \in [Jobs -> JobStatus]
    BY <1>3, <2>1, BecomeType DEF SubmitPush, JobStatus
  <2> QED
    BY <1>3, <2>2 DEF SubmitPush, arrayVars
<1> QED
  BY <1>1, <1>2, <1>3 DEF SubmitJob

(* Drawing the table keeps the types, and its indices in range.            *)
LEMMA TypeTable ==
  ASSUME Types, DrawJobTable, UNCHANGED <<statsVars, shown>>
  PROVE  Types'
<1>0. /\ Len(jobs_buf) \in Nat /\ DOMAIN jobs_buf = 1 .. Len(jobs_buf)
      /\ Len(shown) \in Nat
  BY LengthTypes
<1> USE DEF Types, TypeOK, DataTypeOK, TableKnows, statsVars, counters,
            scanVars, gui, othersSame, arrayVars
<1>1. CASE CopyJobs
  BY <1>1 DEF CopyJobs, allJobsSnapshot
<1>2. CASE PickKey
  <2>1. ti + 1 \in 1 .. Len(jobs_buf)
    BY <1>2, <1>0 DEF PickKey
  <2>2. jobs_buf[ti + 1] \in Jobs
    BY <2>1, ElementOfSeq
  <2> QED
    BY <1>2, <2>1, <2>2, <1>0 DEF PickKey
<1>3. CASE LoadOne
  <2>1. tload' \in [of : {"none", "entry", "key"}, rank : 0 .. 5]
    <3>1. jobs_buf[tj] \in Jobs
      BY <1>3, ElementOfSeq, <1>0 DEF LoadOne
    <3>2. rankOf(jobs_buf[tj]) \in 0 .. 5 /\ rankOf(key) \in 0 .. 5
      BY <1>3, <3>1, RankType DEF LoadOne
    <3>3. \/ tload' = [of |-> "entry", rank |-> rankOf(jobs_buf[tj])]
          \/ tload' = [of |-> "key", rank |-> rankOf(key)]
      BY <1>3 DEF LoadOne
    <3> HIDE DEF Types, TypeOK, DataTypeOK, TableKnows
    <3> QED
      BY <3>2, <3>3
  <2> QED
    BY <1>3, <2>1 DEF LoadOne
<1>4. CASE Shift
  <2>1. tj \in 1 .. Len(jobs_buf) /\ tj + 1 \in 1 .. Len(jobs_buf)
    <3>1. PICK n \in Nat : n = Len(jobs_buf)
      BY <1>0
    <3>2. tj \in Nat /\ tj >= 1 /\ ti \in 1 .. n /\ tj \in 0 .. ti - 1
      BY <1>4, <1>0, <3>1 DEF Shift
    <3>3. tj \in 1 .. n /\ tj + 1 \in 1 .. n
      BY <3>2
    <3> QED
      BY <3>1, <3>3
  <2>2. jobs_buf' \in Seq(Jobs) /\ Len(jobs_buf') = Len(jobs_buf)
    BY <1>4, <2>1, ElementOfSeq, ExceptSeq DEF Shift
  <2>3. DOMAIN jobs_buf' = DOMAIN jobs_buf
    BY <1>4 DEF Shift
  <2>4. /\ ti' = ti /\ key' = key /\ tj' = tj - 1
        /\ tload' = NoLoad /\ gstep = "insert" /\ gstep' = "insert"
        /\ ti \in Nat /\ tj \in 0 .. ti - 1 /\ tj >= 1
    BY <1>4 DEF Shift
  <2>5. tj' \in Nat /\ tj' \in 0 .. ti' - 1
    BY <2>4
  <2> QED
    BY <1>4, <2>2, <2>3, <2>4, <2>5, <1>0, NoLoadType DEF Shift
<1>5. CASE PlaceKey
  <2>1. tj + 1 \in 1 .. Len(jobs_buf)
    BY <1>5, <1>0 DEF PlaceKey
  <2>2. jobs_buf' \in Seq(Jobs) /\ Len(jobs_buf') = Len(jobs_buf)
    BY <1>5, <2>1, ExceptSeq DEF PlaceKey
  <2> QED
    BY <1>5, <2>2, NoLoadType DEF PlaceKey
<1>6. CASE DrawRows
  BY <1>6 DEF DrawRows
<1> QED
  BY <1>1, <1>2, <1>3, <1>4, <1>5, <1>6 DEF DrawJobTable

(* Loading the cards keeps the types.                                      *)
LEMMA TypeCards ==
  ASSUME Types, DrawStatsDash, UNCHANGED <<statsVars, tableVars>>
  PROVE  Types'
<1>0. /\ Len(jobs_buf) \in Nat /\ DOMAIN jobs_buf = 1 .. Len(jobs_buf)
      /\ Len(shown) \in Nat
  BY LengthTypes
<1> USE DEF Types, TypeOK, DataTypeOK, TableKnows, statsVars, tableVars,
            counters, scanVars, gui, arrayVars
<1>1. CASE LoadCounter
  <2>1. Len(shown) + 1 \in 1 .. 3
    <3>1. PICK n \in Nat : n = Len(shown)
      BY <1>0
    <3>2. n < 3
      BY <1>1, <3>1 DEF LoadCounter
    <3>3. n + 1 \in 1 .. 3
      BY <3>2
    <3> QED
      BY <3>1, <3>3
  <2>2. cards[Len(shown) + 1] \in Nat
    <3>1. \A i \in 1 .. 3 : cards[i] \in Nat
      BY DEF cards
    <3> QED
      BY <2>1, <3>1
  <2>3. /\ shown' \in Seq(Nat)
        /\ shown' # <<>>
        /\ Len(shown') <= 3
    BY <1>1, <2>1, <2>2, AppendProperties DEF LoadCounter
  <2> QED
    BY <1>1, <2>3 DEF LoadCounter
<1>2. CASE ShowCounters
  BY <1>2 DEF ShowCounters
<1> QED
  BY <1>1, <1>2 DEF DrawStatsDash

(* A worker keeps the types; it changes the status of its own job only,    *)
(* and leaves the other workers where they are.                            *)
LEMMA WorkerFrame ==
  ASSUME Types, NEW j \in Jobs, workerStep(j)
  PROVE  /\ UNCHANGED <<arrayVars, guiVars>>
         /\ status' \in [Jobs -> JobStatus]
         /\ wstep' \in [Jobs -> WorkerPlaces]
         /\ \A k \in Jobs : k # j => status'[k] = status[k]
         /\ \A k \in Jobs : k # j => wstep'[k] = wstep[k]
         /\ \/ status' = status
            \/ Proceed(j) \/ Fail(j) \/ Publish(j)
<1>1. status \in [Jobs -> JobStatus] /\ wstep \in [Jobs -> WorkerPlaces]
  BY DEF Types, TypeOK
<1>2. PICK to \in WorkerPlaces, from \in WorkerPlaces : worker(j, from, to)
  BY DEF workerStep, Proceed, Fail, CountFailed, Stamp, Publish,
         CountCompleted, Snapshot, ScanJob, EndScan, StoreWait,
         StoreTurnaround, StoreThroughput, WorkerPlaces
<1>3. /\ UNCHANGED <<arrayVars, guiVars>>
      /\ wstep' \in [Jobs -> WorkerPlaces]
      /\ \A k \in Jobs : k # j => wstep'[k] = wstep[k]
  BY <1>1, <1>2 DEF worker
<1>4. CASE status' = status
  BY <1>1, <1>3, <1>4
<1>5. CASE Proceed(j) \/ Fail(j) \/ Publish(j)
  <2>1. PICK t \in JobStatus : become(j, t)
    BY <1>5 DEF Proceed, Fail, Publish, JobStatus
  <2> QED
    BY <1>1, <1>3, <1>5, <2>1, BecomeType
<1> QED
  BY <1>4, <1>5
     DEF workerStep, CountFailed, Stamp, CountCompleted, Snapshot, ScanJob,
         EndScan, StoreWait, StoreTurnaround, StoreThroughput

LEMMA TypeWorker ==
  ASSUME Types, NEW j \in Jobs, WorkerStep(j)
  PROVE  Types'
<1>0. /\ UNCHANGED <<arrayVars, guiVars, tableVars, shown>>
      /\ status' \in [Jobs -> JobStatus]
      /\ wstep' \in [Jobs -> WorkerPlaces]
      /\ workerStep(j)
  BY WorkerFrame DEF WorkerStep
<1> SUFFICES /\ total_completed' \in Nat /\ total_failed' \in Nat
             /\ finish_time' \in [Jobs -> BOOLEAN]
             /\ wrest' \in [Jobs -> Seq(Jobs)]
             /\ wsum' \in [Jobs -> AverageType]
             /\ \A k \in Jobs : wrest'[k] # <<>> => wstep'[k] = "scan"
  BY <1>0 DEF Types, TypeOK, DataTypeOK, TableKnows, arrayVars, guiVars, tableVars
<1> USE DEF Types, TypeOK, DataTypeOK, counters, scanVars, worker
<1>1. CASE Proceed(j) \/ Fail(j)
  BY <1>1 DEF Proceed, Fail
<1>2. CASE CountFailed(j) \/ CountCompleted(j)
  BY <1>2 DEF CountFailed, CountCompleted
<1>3. CASE Stamp(j) \/ Publish(j)
  BY <1>3 DEF Stamp, Publish
<1>4. CASE Snapshot(j)
  BY <1>4 DEF Snapshot, allJobsSnapshot
<1>5. CASE ScanJob(j)
  <2>1. wrest[j] \in Seq(Jobs) /\ wrest[j] # <<>>
    BY <1>5 DEF ScanJob
  <2>2. Head(wrest[j]) \in Jobs /\ Tail(wrest[j]) \in Seq(Jobs)
    BY <2>1, HeadTailProperties
  <2>3. <<Head(wrest[j]), finish_time[Head(wrest[j])]>> \in Jobs \X BOOLEAN
    BY <2>2
  <2>4. wsum' \in [Jobs -> AverageType]
    BY <1>5, <2>3 DEF ScanJob, AverageType
  <2> QED
    BY <1>5, <2>2, <2>4 DEF ScanJob
<1>6. CASE EndScan(j)
  BY <1>6 DEF EndScan
<1>7. CASE StoreWait(j) \/ StoreTurnaround(j) \/ StoreThroughput(j)
  BY <1>7 DEF StoreWait, StoreTurnaround, StoreThroughput, AverageType
<1> QED
  BY <1>0, <1>1, <1>2, <1>3, <1>4, <1>5, <1>6, <1>7 DEF workerStep

LEMMA TypeGui == ASSUME Types, GuiStep PROVE Types'
BY TypeSubmit, TypeTable, TypeCards DEF GuiStep

LEMMA TypeNext == Types /\ [Next]_vars => Types'
<1> SUFFICES ASSUME Types, [Next]_vars PROVE Types'
  OBVIOUS
<1>1. CASE GuiStep
  BY <1>1, TypeGui
<1>2. ASSUME NEW j \in Jobs, WorkerStep(j) PROVE Types'
  BY <1>2, TypeWorker
<1>3. CASE UNCHANGED vars
  BY <1>3
     DEF vars, Types, TypeOK, DataTypeOK, TableKnows, arrayVars, guiVars,
         statsVars, counters, averages, scanVars, tableVars, cards
<1> QED
  BY <1>1, <1>2, <1>3, NextSteps

(* Every variable has its type, and every index into the array and its     *)
(* copies is in range: recordings, the sort and the scans never leave them.*)
THEOREM TypeCorrect == Spec => []TypeOK
<1>1. Spec => []Types
  BY TypeInit, TypeNext, PTL DEF Spec
<1>2. Types => TypeOK
  BY DEF Types
<1> QED
  BY <1>1, <1>2, PTL

-----------------------------------------------------------------------------
(* The averages.                                                           *)

AveragesKnow == Types /\ EndKnown /\ RecordedOnce /\ ScanKnows /\ AveragesSound

(* A recorded job is one of the entries of the array.                      *)
LEMMA RecordedJobs ==
  ASSUME Types
  PROVE  /\ \A k : k \in Recorded <=> \E a \in DOMAIN all_jobs : all_jobs[a] = k
         /\ Recorded \subseteq Jobs
BY LengthTypes, ElementOfSeq DEF Recorded, Types, DataTypeOK

(* The GUI thread submits jobs that wait: it changes nothing for the jobs  *)
(* whose workers are at their end, and records none of them.               *)
LEMMA GuiFrame ==
  ASSUME Types, EndKnown, GuiStep
  PROVE  /\ UNCHANGED statsVars
         /\ Recorded \subseteq Recorded'
         /\ \A k \in Jobs :
               status[k] # "WAITING" =>
                  status'[k] = status[k] /\ (k \in Recorded' => k \in Recorded)
<1>0. UNCHANGED statsVars
  BY DEF GuiStep, DrawJobTable, DrawStatsDash, SubmitJob
<1>1. CASE UNCHANGED <<status, all_jobs>>
  BY <1>0, <1>1 DEF Recorded
<1>2. ASSUME NEW j \in Jobs, SubmitRecord(j)
      PROVE  /\ Recorded \subseteq Recorded'
             /\ Recorded' \subseteq Recorded \cup {j}
             /\ status[j] = "WAITING" /\ UNCHANGED status
  <2>1. CASE all_jobs' = all_jobs
    BY <1>2, <2>1 DEF SubmitRecord, Recorded
  <2>2. CASE all_jobs' = Append(all_jobs, j)
    <3>1. /\ all_jobs' \in Seq(Jobs) /\ all_jobs \in Seq(Jobs)
          /\ Len(all_jobs') = Len(all_jobs) + 1
          /\ \A i \in 1 .. Len(all_jobs) : all_jobs'[i] = all_jobs[i]
          /\ all_jobs'[Len(all_jobs) + 1] = j
      BY <2>2, AppendProperties DEF Types, DataTypeOK
    <3>2. PICK n \in Nat : n = Len(all_jobs)
      BY LengthTypes
    <3>3. DOMAIN all_jobs = 1 .. n /\ DOMAIN all_jobs' = 1 .. n + 1
      BY <3>1, <3>2, LenProperties
    <3>4. /\ \A i \in 1 .. n : all_jobs'[i] = all_jobs[i]
          /\ all_jobs'[n + 1] = j
      BY <3>1, <3>2
    <3> QED
      BY <1>2, <3>3, <3>4 DEF SubmitRecord, Recorded
  <2> QED
    BY <1>2, <2>1, <2>2 DEF SubmitRecord
<1>3. CASE SubmitPush
  <2>1. /\ gjob \in Jobs /\ status[gjob] = "WAITING"
        /\ Recorded' = Recorded
    BY <1>3, JobArrayAssumption
       DEF SubmitPush, gui, EndKnown, Types, TypeOK, DataTypeOK, arrayVars, Recorded
  <2>2. \A k \in Jobs : k # gjob => status'[k] = status[k]
    BY <1>3, <2>1 DEF SubmitPush, become, Types, TypeOK
  <2> QED
    BY <1>0, <2>1, <2>2
<1>4. \/ \E j \in Jobs : SubmitRecord(j)
      \/ SubmitPush
      \/ UNCHANGED <<status, all_jobs>>
  BY DEF GuiStep, SubmitJob, SubmitCount, DrawJobTable, CopyJobs, PickKey,
         LoadOne, Shift, PlaceKey, DrawRows, DrawStatsDash, LoadCounter,
         ShowCounters, othersSame, arrayVars
<1> QED
  BY <1>0, <1>1, <1>2, <1>3, <1>4

(* A worker moves by the life of its job, from which nothing returns that  *)
(* waits or has completed.                                                 *)
LEMMA WorkerStatus ==
  ASSUME Types, EndKnown, NEW j \in Jobs, WorkerStep(j)
  PROVE  /\ Recorded' = Recorded /\ gjob' = gjob
         /\ \A k \in Jobs :
               /\ k # j => status'[k] = status[k] /\ wstep'[k] = wstep[k]
               /\ status[k] = "COMPLETED" => status'[k] = "COMPLETED"
               /\ status[k] = "WAITING" <=> status'[k] = "WAITING"
<1>1. /\ Recorded' = Recorded /\ gjob' = gjob
      /\ \A k \in Jobs :
            k # j => status'[k] = status[k] /\ wstep'[k] = wstep[k]
  BY WorkerFrame DEF WorkerStep, Recorded, arrayVars, guiVars
<1>2. CASE status' = status
  BY <1>1, <1>2
<1>3. CASE Proceed(j) \/ Fail(j) \/ Publish(j)
  <2>1. /\ status[j] # "COMPLETED" /\ status'[j] # "WAITING"
        /\ status[j] # "WAITING"
    BY <1>3, BecomeType
       DEF Types, TypeOK, Proceed, Fail, Publish, MayBecome, JobStatus,
           worker, EndKnown
  <2> QED
    BY <1>1, <2>1
<1> QED
  BY <1>1, <1>2, <1>3, WorkerFrame DEF WorkerStep

LEMMA EndInit == Init => EndKnown
BY JobArrayAssumption
   DEF Init, ArrayInit, StatsInit, LifecycleInit, EndKnown, CompletedSteps,
       StoreSteps

LEMMA EndNext == Types /\ EndKnown /\ [Next]_vars => EndKnown'
<1> SUFFICES ASSUME Types, EndKnown, [Next]_vars PROVE EndKnown'
  OBVIOUS
<1>1. CASE GuiStep
  <2>1. UNCHANGED <<wstep, finish_time>>
    BY <1>1, GuiFrame DEF statsVars
  <2>2. \A k \in Jobs :
           /\ status[k] # "WAITING" => status'[k] = status[k]
           /\ status'[k] = "COMPLETED" => status[k] = "COMPLETED"
           /\ gjob' = k => status'[k] = "WAITING"
    <3>1. CASE UNCHANGED status /\ ~ SubmitPush
      <4>1. gjob' = gjob \/ status[gjob'] = "WAITING"
        BY <1>1, <3>1
           DEF GuiStep, SubmitJob, SubmitRecord, SubmitCount, DrawJobTable,
               CopyJobs, PickKey, LoadOne, Shift, PlaceKey, DrawRows,
               DrawStatsDash, LoadCounter, ShowCounters, othersSame
      <4> QED
        BY <3>1, <4>1 DEF EndKnown
    <3>2. CASE SubmitPush
      <4>1. gjob \in Jobs /\ status[gjob] = "WAITING" /\ gjob' = NoJob
        BY <3>2, JobArrayAssumption
           DEF SubmitPush, gui, EndKnown, Types, TypeOK, DataTypeOK
      <4>2. /\ \A k \in Jobs : k # gjob => status'[k] = status[k]
            /\ status'[gjob] = "READY"
        BY <3>2, <4>1 DEF SubmitPush, become, Types, TypeOK
      <4> QED
        BY <4>1, <4>2, JobArrayAssumption
    <3> QED
      BY <1>1, <3>1, <3>2
         DEF GuiStep, SubmitJob, SubmitRecord, SubmitCount, DrawJobTable,
             CopyJobs, PickKey, LoadOne, Shift, PlaceKey, DrawRows,
             DrawStatsDash, LoadCounter, ShowCounters, othersSame
  <2> QED
    BY <2>1, <2>2 DEF EndKnown, CompletedSteps, StoreSteps
<1>2. ASSUME NEW j \in Jobs, WorkerStep(j) PROVE EndKnown'
  <2>1. /\ gjob' = gjob
        /\ \A k \in Jobs :
              /\ k # j => status'[k] = status[k] /\ wstep'[k] = wstep[k]
              /\ status[k] = "WAITING" <=> status'[k] = "WAITING"
    BY <1>2, WorkerStatus
  <2>2. /\ \A k \in Jobs : finish_time[k] => finish_time'[k]
        /\ \A k \in Jobs : k # j => finish_time'[k] = finish_time[k]
    BY <1>2
       DEF WorkerStep, workerStep, Proceed, Fail, CountFailed, Stamp, Publish,
           CountCompleted, Snapshot, ScanJob, EndScan, StoreWait,
           StoreTurnaround, StoreThroughput, Types, DataTypeOK
  <2>3. /\ wstep'[j] = "publish" =>
               status'[j] \in {"RUNNING", "PREEMPTED"} /\ finish_time'[j]
        /\ wstep'[j] = "fail" => status'[j] = "FAILED"
        /\ wstep'[j] \in CompletedSteps => status'[j] = "COMPLETED"
        /\ status'[j] = "COMPLETED" => finish_time'[j]
    <3> USE <2>2 DEF EndKnown, worker, CompletedSteps, StoreSteps, Types, TypeOK,
                     DataTypeOK
    <3>1. CASE Proceed(j)
      <4>1. PICK t \in {"RUNNING", "PREEMPTED", "READY"} : become(j, t)
        BY <3>1 DEF Proceed
      <4>2. status'[j] = t
        BY <4>1, BecomeType DEF JobStatus
      <4> QED
        BY <3>1, <4>2 DEF Proceed
    <3>2. CASE Fail(j)
      BY <3>2, BecomeType DEF Fail, JobStatus
    <3>3. CASE Publish(j)
      BY <3>3, BecomeType DEF Publish, JobStatus
    <3>4. CASE Stamp(j)
      BY <3>4 DEF Stamp
    <3>5. CASE CountFailed(j) \/ CountCompleted(j) \/ Snapshot(j)
      BY <3>5 DEF CountFailed, CountCompleted, Snapshot
    <3>6. CASE ScanJob(j) \/ EndScan(j)
      BY <3>6 DEF ScanJob, EndScan
    <3>7. CASE StoreWait(j) \/ StoreTurnaround(j) \/ StoreThroughput(j)
      BY <3>7 DEF StoreWait, StoreTurnaround, StoreThroughput
    <3> QED
      BY <1>2, <3>1, <3>2, <3>3, <3>4, <3>5, <3>6, <3>7
         DEF WorkerStep, workerStep
  <2> QED
    BY <2>1, <2>2, <2>3 DEF EndKnown
<1>3. CASE UNCHANGED vars
  BY <1>3 DEF vars, EndKnown, guiVars, statsVars
<1> QED
  BY <1>1, <1>2, <1>3, NextSteps

LEMMA RecordedInit == Init => RecordedOnce
BY DEF Init, ArrayInit, RecordedOnce

LEMMA RecordedNext ==
  Types /\ EndKnown /\ RecordedOnce /\ [Next]_vars => RecordedOnce'
<1> SUFFICES ASSUME Types, EndKnown, RecordedOnce, [Next]_vars
             PROVE  RecordedOnce'
  OBVIOUS
<1>1. \A a \in DOMAIN all_jobs : all_jobs[a] \in Jobs
  BY RecordedJobs DEF Recorded
<1>2. CASE /\ UNCHANGED <<all_jobs, gjob>>
           /\ \A k \in Jobs : status[k] = "WAITING" <=> status'[k] = "WAITING"
  BY <1>1, <1>2 DEF RecordedOnce
<1>3. ASSUME NEW j \in Jobs, SubmitRecord(j) PROVE RecordedOnce'
  <2>1. /\ gjob = NoJob /\ gjob' = j
        /\ status[j] = "WAITING" /\ UNCHANGED status
    BY <1>3 DEF SubmitRecord, gui, Types, TypeOK
  <2>2. \A a \in DOMAIN all_jobs : status[all_jobs[a]] # "WAITING"
    BY <1>1, <2>1, JobArrayAssumption DEF RecordedOnce
  <2>3. CASE all_jobs' = all_jobs
    BY <2>1, <2>2, <2>3 DEF RecordedOnce
  <2>4. CASE all_jobs' = Append(all_jobs, j)
    <3>1. /\ all_jobs' \in Seq(Jobs) /\ all_jobs \in Seq(Jobs)
          /\ Len(all_jobs') = Len(all_jobs) + 1
          /\ \A i \in 1 .. Len(all_jobs) : all_jobs'[i] = all_jobs[i]
          /\ all_jobs'[Len(all_jobs) + 1] = j
      BY <2>4, AppendProperties DEF Types, DataTypeOK
    <3>2. PICK n \in Nat : n = Len(all_jobs)
      BY LengthTypes
    <3>3. DOMAIN all_jobs = 1 .. n /\ DOMAIN all_jobs' = 1 .. n + 1
      BY <3>1, <3>2, LenProperties
    <3>4. /\ \A i \in 1 .. n : all_jobs'[i] = all_jobs[i]
          /\ all_jobs'[n + 1] = j
      BY <3>1, <3>2
    <3>5. \A i \in 1 .. n + 1 : i \in 1 .. n \/ i = n + 1
      OBVIOUS
    <3> QED
      BY <2>1, <2>2, <3>3, <3>4, <3>5 DEF RecordedOnce
  <2> QED
    BY <1>3, <2>3, <2>4 DEF SubmitRecord
<1>4. CASE SubmitPush
  <2>1. gjob \in Jobs /\ status'[gjob] = "READY" /\ UNCHANGED all_jobs
    BY <1>4, JobArrayAssumption
       DEF SubmitPush, gui, become, Types, TypeOK, DataTypeOK, arrayVars
  <2>2. \A k \in Jobs : k # gjob => status'[k] = status[k]
    BY <1>4, <2>1 DEF SubmitPush, become, Types, TypeOK
  <2> QED
    BY <1>1, <2>1, <2>2 DEF RecordedOnce
<1>5. GuiStep => \/ \E j \in Jobs : SubmitRecord(j)
                 \/ SubmitPush
                 \/ UNCHANGED <<status, all_jobs, gjob>>
  BY DEF GuiStep, SubmitJob, SubmitCount, DrawJobTable, CopyJobs, PickKey,
         LoadOne, Shift, PlaceKey, DrawRows, DrawStatsDash, LoadCounter,
         ShowCounters, othersSame, arrayVars
<1>6. ASSUME NEW j \in Jobs, WorkerStep(j) PROVE RecordedOnce'
  <2>1. UNCHANGED <<all_jobs, gjob>>
    BY <1>6, WorkerFrame DEF WorkerStep, arrayVars, guiVars
  <2> QED
    BY <1>2, <1>6, <2>1, WorkerStatus
<1>7. CASE UNCHANGED vars
  BY <1>2, <1>7 DEF vars, arrayVars, guiVars
<1> QED
  BY <1>2, <1>3, <1>4, <1>5, <1>6, <1>7, NextSteps

(* What has completed and is recorded stays so.                            *)
LEMMA EntriesGrow ==
  ASSUME Types, EndKnown, [Next]_vars
  PROVE  CompletedEntries \subseteq CompletedEntries'
<1>1. /\ Recorded \subseteq Recorded'
      /\ \A k \in Jobs : status[k] = "COMPLETED" => status'[k] = "COMPLETED"
  BY NextSteps, GuiFrame, WorkerStatus DEF vars, arrayVars, Recorded
<1> QED
  BY <1>1, RecordedJobs DEF CompletedEntries

LEMMA AveragesInit == Init => ScanKnows /\ AveragesSound
<1> SUFFICES ASSUME Init PROVE ScanKnows /\ AveragesSound
  OBVIOUS
<1>1. \A j \in Jobs : wsum[j] = {} /\ wrest[j] = <<>> /\ wstep[j] = "off"
  BY DEF Init, StatsInit
<1>2. ScanKnows
  BY <1>1 DEF ScanKnows
<1>3. AveragesSound
  BY <1>1, TypeInit, RecordedJobs DEF Init, StatsInit, AveragesSound
<1> QED
  BY <1>2, <1>3

(* The GUI thread cannot disturb a scan.                                   *)
LEMMA AveragesGui ==
  ASSUME AveragesKnow, GuiStep
  PROVE  ScanKnows' /\ AveragesSound'
<1>1. /\ CompletedEntries \subseteq CompletedEntries'
      /\ Recorded \subseteq Recorded'
      /\ UNCHANGED <<wstep, wrest, wsum, averages>>
  <2>1. CompletedEntries \subseteq CompletedEntries'
    BY GuiFrame, RecordedJobs DEF AveragesKnow, CompletedEntries
  <2> QED
    BY <2>1, GuiFrame DEF AveragesKnow, statsVars, scanVars, averages
<1>2. \A k \in Jobs :
         wstep[k] \in CompletedSteps /\ k \in Recorded' => k \in Recorded
  BY GuiFrame DEF AveragesKnow, EndKnown
<1>3. ScanKnows'
  BY <1>1, <1>2 DEF AveragesKnow, ScanKnows, CompletedSteps
<1>4. AveragesSound'
  <2>1. \A j \in Recorded' : j \in Jobs
    <3>1. all_jobs' \in Seq(Jobs)
      BY TypeGui DEF AveragesKnow, Types, DataTypeOK
    <3> QED
      BY <3>1, LenProperties, ElementOfSeq DEF Recorded
  <2> QED
    BY <1>1, <1>2, <2>1 DEF AveragesKnow, AveragesSound, CompletedEntries,
      CompletedSteps, StoreSteps, averages
<1> QED
  BY <1>3, <1>4

(* One turn of a scan: what is added is right, and the worker's own job is *)
(* not passed over.                                                        *)
LEMMA ScanStep ==
  ASSUME AveragesKnow, NEW j \in Jobs, ScanJob(j)
  PROVE  /\ wsum'[j] \subseteq CompletedEntries
         /\ \A i \in DOMAIN wrest'[j] : wrest'[j][i] \in Recorded
         /\ j \in Recorded =>
               \/ <<j, TRUE>> \in wsum'[j]
               \/ \E i \in DOMAIN wrest'[j] : wrest'[j][i] = j
         /\ \A k \in Jobs : k # j => wsum'[k] = wsum[k] /\ wrest'[k] = wrest[k]
<1> DEFINE r == wrest[j]
           h == Head(r)
           t == Tail(r)
<1>1. /\ r \in Seq(Jobs) /\ r # <<>>
      /\ wrest' = [wrest EXCEPT ![j] = t]
      /\ wsum' = IF status[h] = "COMPLETED"
                 THEN [wsum EXCEPT ![j] = @ \cup {<<h, finish_time[h]>>}]
                 ELSE wsum
      /\ wstep[j] = "scan"
  BY DEF ScanJob, isCounted, AveragesKnow, Types, DataTypeOK, worker
<1>2. /\ wrest \in [Jobs -> Seq(Jobs)] /\ wsum \in [Jobs -> AverageType]
      /\ finish_time \in [Jobs -> BOOLEAN]
  BY DEF AveragesKnow, Types, DataTypeOK
<1>3. PICK n \in Nat : n = Len(t)
  BY <1>1, HeadTailProperties, LenProperties
<1>4. /\ DOMAIN r = 1 .. n + 1 /\ DOMAIN t = 1 .. n
      /\ h = r[1] /\ \A i \in 1 .. n : t[i] = r[i + 1]
  <2>1. /\ Len(t) = Len(r) - 1 /\ t \in Seq(Jobs)
        /\ \A i \in 1 .. Len(t) : t[i] = r[i + 1]
    BY <1>1, HeadTailProperties
  <2>2. DOMAIN r = 1 .. Len(r) /\ DOMAIN t = 1 .. Len(t) /\ Len(r) \in Nat
    BY <1>1, <2>1, LenProperties
  <2>3. Len(r) = n + 1
    <3>1. PICK m \in Nat : m = Len(r)
      BY <2>2
    <3>2. n = m - 1
      BY <1>3, <2>1, <3>1
    <3>3. m = n + 1
      BY <3>2
    <3> QED
      BY <3>1, <3>3
  <2>4. h = r[1]
    BY <1>1
  <2> QED
    BY <1>3, <2>1, <2>2, <2>3, <2>4
<1>5. wrest'[j] = t
  BY <1>1, <1>2
<1> HIDE DEF t
<1>6. 1 \in DOMAIN r /\ \A i \in 1 .. n : i + 1 \in DOMAIN r
  BY <1>4
<1>7. \A i \in DOMAIN r : i = 1 \/ (i - 1 \in 1 .. n /\ (i - 1) + 1 = i)
  BY <1>4
<1>8. \A i \in DOMAIN r : r[i] \in Recorded
  BY DEF AveragesKnow, ScanKnows
<1>9. wsum[j] \subseteq CompletedEntries
  BY DEF AveragesKnow, ScanKnows
<1> HIDE DEF h, r
<1>10. h \in Recorded /\ h \in Jobs
  BY <1>4, <1>6, <1>8, RecordedJobs DEF AveragesKnow
<1>11. status[h] = "COMPLETED" =>
          /\ wsum'[j] = wsum[j] \cup {<<h, TRUE>>}
          /\ <<h, TRUE>> \in CompletedEntries
  <2>1. ASSUME status[h] = "COMPLETED" PROVE finish_time[h] = TRUE
    BY <1>2, <1>10, <2>1 DEF AveragesKnow, EndKnown
  <2> QED
    BY <1>1, <1>2, <1>10, <2>1 DEF CompletedEntries
<1>12. status[h] # "COMPLETED" => wsum'[j] = wsum[j]
  BY <1>1
<1>13. wsum'[j] \subseteq CompletedEntries
  BY <1>9, <1>11, <1>12
<1>14. \A i \in DOMAIN wrest'[j] : wrest'[j][i] \in Recorded
  BY <1>4, <1>5, <1>6, <1>8
<1>15. ASSUME j \in Recorded
       PROVE  \/ <<j, TRUE>> \in wsum'[j]
              \/ \E i \in DOMAIN wrest'[j] : wrest'[j][i] = j
  <2>1. CASE <<j, TRUE>> \in wsum[j]
    BY <1>11, <1>12, <2>1
  <2>2. CASE \E i \in DOMAIN r : r[i] = j
    <3>1. status[j] = "COMPLETED"
      BY <1>1 DEF AveragesKnow, EndKnown, CompletedSteps
    <3>2. CASE h = j
      BY <1>11, <3>1, <3>2
    <3>3. CASE h # j
      <4>1. PICK i \in DOMAIN r : r[i] = j
        BY <2>2
      <4>2. i - 1 \in 1 .. n /\ t[i - 1] = j
        BY <1>4, <1>7, <3>3, <4>1
      <4> QED
        BY <1>4, <1>5, <4>2
    <3> QED
      BY <3>2, <3>3
  <2> QED
    BY <1>1, <1>15, <2>1, <2>2 DEF AveragesKnow, ScanKnows, r
<1>16. \A k \in Jobs : k # j => wsum'[k] = wsum[k] /\ wrest'[k] = wrest[k]
  BY <1>1, <1>2
<1> QED
  BY <1>13, <1>14, <1>15, <1>16

LEMMA AveragesWorker ==
  ASSUME AveragesKnow, NEW j \in Jobs, WorkerStep(j)
  PROVE  ScanKnows' /\ AveragesSound'
<1>1. /\ Recorded' = Recorded
      /\ \A k \in Jobs : k # j => wstep'[k] = wstep[k]
      /\ CompletedEntries \subseteq CompletedEntries'
  <2>1. CompletedEntries \subseteq CompletedEntries'
    BY WorkerStatus, RecordedJobs DEF AveragesKnow, CompletedEntries
  <2> QED
    BY <2>1, WorkerStatus DEF AveragesKnow
<1>2. /\ Recorded \subseteq Jobs /\ workerStep(j)
      /\ wstep \in [Jobs -> WorkerPlaces]
      /\ wrest \in [Jobs -> Seq(Jobs)] /\ wsum \in [Jobs -> AverageType]
  BY RecordedJobs DEF AveragesKnow, WorkerStep, Types, TypeOK, DataTypeOK
(* It is enough to look at the worker's own scan and at the averages.      *)
<1> SUFFICES /\ wsum'[j] \subseteq CompletedEntries
             /\ \A i \in DOMAIN wrest'[j] : wrest'[j][i] \in Recorded
             /\ wstep'[j] = "scan" /\ j \in Recorded =>
                   \/ <<j, TRUE>> \in wsum'[j]
                   \/ \E i \in DOMAIN wrest'[j] : wrest'[j][i] = j
             /\ wstep'[j] \in StoreSteps /\ j \in Recorded =>
                   <<j, TRUE>> \in wsum'[j]
             /\ \A k \in Jobs : k # j => wsum'[k] = wsum[k] /\ wrest'[k] = wrest[k]
             /\ avg_wait_ticks' \subseteq CompletedEntries
             /\ avg_turnaround_sec' \subseteq CompletedEntries
             /\ throughput' \subseteq CompletedEntries
  <2>1. ScanKnows'
    <3>1. \A k \in Jobs :
             /\ wsum'[k] \subseteq CompletedEntries
             /\ \A i \in DOMAIN wrest'[k] : wrest'[k][i] \in Recorded
             /\ wstep'[k] = "scan" /\ k \in Recorded =>
                   \/ <<k, TRUE>> \in wsum'[k]
                   \/ \E i \in DOMAIN wrest'[k] : wrest'[k][i] = k
      BY <1>1 DEF AveragesKnow, ScanKnows
    <3> QED
      BY <1>1, <3>1 DEF ScanKnows
  <2>2. AveragesSound'
    <3>1. \A k \in Recorded :
             wstep'[k] \in StoreSteps => <<k, TRUE>> \in wsum'[k]
      BY <1>1, <1>2 DEF AveragesKnow, AveragesSound, StoreSteps
    <3> QED
      BY <1>1, <3>1 DEF AveragesSound, CompletedEntries, StoreSteps
  <2> QED
    BY <2>1, <2>2
<1>3. /\ wsum[j] \subseteq CompletedEntries
      /\ \A i \in DOMAIN wrest[j] : wrest[j][i] \in Recorded
      /\ wstep[j] = "scan" /\ j \in Recorded =>
            \/ <<j, TRUE>> \in wsum[j]
            \/ \E i \in DOMAIN wrest[j] : wrest[j][i] = j
      /\ wstep[j] \in StoreSteps /\ j \in Recorded => <<j, TRUE>> \in wsum[j]
      /\ avg_wait_ticks \subseteq CompletedEntries
      /\ avg_turnaround_sec \subseteq CompletedEntries
      /\ throughput \subseteq CompletedEntries
  BY DEF AveragesKnow, ScanKnows, AveragesSound, CompletedEntries, StoreSteps
<1> USE <1>2, <1>3 DEF worker, averages, scanVars, StoreSteps
<1>4. CASE Proceed(j) \/ Fail(j) \/ CountFailed(j)
  BY <1>4 DEF Proceed, Fail, CountFailed
<1>5. CASE Stamp(j) \/ Publish(j) \/ CountCompleted(j)
  BY <1>5 DEF Stamp, Publish, CountCompleted
<1>6. CASE Snapshot(j)
  <2>1. wrest'[j] = all_jobs /\ wsum' = wsum
    BY <1>6 DEF Snapshot, allJobsSnapshot
  <2>2. /\ \A i \in DOMAIN wrest'[j] : wrest'[j][i] \in Recorded
        /\ j \in Recorded => \E i \in DOMAIN wrest'[j] : wrest'[j][i] = j
    BY <2>1 DEF Recorded
  <2> QED
    BY <1>6, <2>1, <2>2 DEF Snapshot
<1>7. CASE ScanJob(j)
  BY <1>7, ScanStep DEF ScanJob
<1>8. CASE EndScan(j)
  <2>1. DOMAIN wrest[j] = {} /\ UNCHANGED <<wrest, wsum, averages>>
    BY <1>8 DEF EndScan
  <2> QED
    BY <1>8, <2>1 DEF EndScan
<1>9. CASE StoreWait(j) \/ StoreTurnaround(j)
  BY <1>9 DEF StoreWait, StoreTurnaround
<1>10. CASE StoreThroughput(j)
  BY <1>10 DEF StoreThroughput
<1> QED
  BY <1>4, <1>5, <1>6, <1>7, <1>8, <1>9, <1>10 DEF workerStep

LEMMA AveragesNext == AveragesKnow /\ [Next]_vars => AveragesKnow'
<1> SUFFICES ASSUME AveragesKnow, [Next]_vars PROVE AveragesKnow'
  OBVIOUS
<1>1. Types' /\ EndKnown' /\ RecordedOnce'
  BY TypeNext, EndNext, RecordedNext DEF AveragesKnow
<1>2. CASE GuiStep
  BY <1>1, <1>2, AveragesGui DEF AveragesKnow
<1>3. ASSUME NEW j \in Jobs, WorkerStep(j) PROVE AveragesKnow'
  BY <1>1, <1>3, AveragesWorker DEF AveragesKnow
<1>4. CASE UNCHANGED vars
  <2>1. /\ Recorded' = Recorded /\ CompletedEntries' = CompletedEntries
        /\ UNCHANGED <<wstep, wrest, wsum, averages>>
    BY <1>4 DEF vars, arrayVars, statsVars, scanVars, Recorded, CompletedEntries
  <2>2. ScanKnows'
    BY <2>1 DEF AveragesKnow, ScanKnows
  <2>3. AveragesSound'
    BY <2>1 DEF AveragesKnow, AveragesSound, CompletedEntries, averages
  <2> QED
    BY <1>1, <2>2, <2>3 DEF AveragesKnow
<1> QED
  BY <1>2, <1>3, <1>4, NextSteps

(* However many workers end together and scan the array at once, an        *)
(* average is over completed jobs whose finish_time is written, and the    *)
(* one a worker stores has the worker's own job in it.                     *)
THEOREM AveragesAreSound == Spec => []AveragesSound
<1>1. Init => AveragesKnow
  BY TypeInit, EndInit, RecordedInit, AveragesInit DEF AveragesKnow
<1>2. Spec => []AveragesKnow
  BY <1>1, AveragesNext, PTL DEF Spec
<1>3. AveragesKnow => AveragesSound
  BY DEF AveragesKnow
<1> QED
  BY <1>2, <1>3, PTL

-----------------------------------------------------------------------------
(* The counters.                                                           *)

CountsKnow == Types /\ EndKnown /\ CountersKnow /\ ShownKnows

LEMMA CountersInit == Init => CountersKnow /\ ShownKnows
<1> SUFFICES ASSUME Init PROVE CountersKnow /\ ShownKnows
  OBVIOUS
<1>1. Pushed = {} /\ CountedCompleted = {} /\ CountedFailed = {}
  BY DEF Init, ArrayInit, LifecycleInit, Pushed, CountedCompleted, CountedFailed
<1>2. gstep = "idle" /\ total_submitted = 0 /\ total_completed = 0 /\ total_failed = 0
  BY DEF Init, ArrayInit, StatsInit
<1> QED
  BY <1>1, <1>2, FS_EmptySet DEF CountersKnow, ShownKnows

(* What has been counted as ended was pushed, and is counted once.         *)
LEMMA CountedArePushed ==
  ASSUME CountersKnow
  PROVE  /\ IsFiniteSet(CountedCompleted) /\ IsFiniteSet(CountedFailed)
         /\ Cardinality(CountedCompleted) + Cardinality(CountedFailed)
              <= Cardinality(Pushed)
         /\ Cardinality(Pushed) \in Nat
         /\ total_completed \in Nat /\ total_failed \in Nat
<1>1. /\ CountedCompleted \in SUBSET Pushed /\ CountedFailed \in SUBSET Pushed
      /\ CountedCompleted \cup CountedFailed \in SUBSET Pushed
      /\ CountedCompleted \cap CountedFailed = {}
  BY DEF CountedCompleted, CountedFailed, Pushed
<1>2. IsFiniteSet(Pushed)
  BY DEF CountersKnow
<1> HIDE DEF Pushed, CountedCompleted, CountedFailed
<1>3. /\ IsFiniteSet(CountedCompleted) /\ IsFiniteSet(CountedFailed)
      /\ Cardinality(CountedCompleted \cup CountedFailed) <= Cardinality(Pushed)
  BY <1>1, <1>2, FS_Subset
<1>4. /\ Cardinality(CountedCompleted) \in Nat /\ Cardinality(CountedFailed) \in Nat
      /\ Cardinality(Pushed) \in Nat
  BY <1>2, <1>3, FS_CardinalityType
<1>5. Cardinality(CountedCompleted \cup CountedFailed) =
         Cardinality(CountedCompleted) + Cardinality(CountedFailed)
  <2>1. Cardinality(CountedCompleted \cup CountedFailed) =
           Cardinality(CountedCompleted) + Cardinality(CountedFailed)
             - Cardinality(CountedCompleted \cap CountedFailed)
    BY <1>3, FS_Union
  <2>2. Cardinality(CountedCompleted \cap CountedFailed) = 0
    BY <1>1, FS_EmptySet
  <2> QED
    BY <1>4, <2>1, <2>2
<1> QED
  BY <1>3, <1>4, <1>5 DEF CountersKnow

(* The GUI thread: a job that is pushed has been counted one step before.  *)
LEMMA CountersGui ==
  ASSUME CountsKnow, GuiStep
  PROVE  CountersKnow'
<1>1. /\ UNCHANGED <<wstep, total_completed, total_failed>>
      /\ \A k \in Jobs : status[k] # "WAITING" => status'[k] = status[k]
  BY GuiFrame DEF CountsKnow, statsVars, counters
<1>2. CASE SubmitPush
  <2>1. /\ gjob \in Jobs /\ status[gjob] = "WAITING" /\ status'[gjob] = "READY"
        /\ \A k \in Jobs : k # gjob => status'[k] = status[k]
        /\ gstep = "push" /\ gstep' = "idle" /\ UNCHANGED total_submitted
    BY <1>2, JobArrayAssumption
       DEF SubmitPush, gui, become, CountsKnow, EndKnown, Types, TypeOK,
           DataTypeOK, arrayVars
  <2>2. /\ Pushed' = Pushed \cup {gjob} /\ gjob \notin Pushed
        /\ CountedCompleted' = CountedCompleted
        /\ CountedFailed' = CountedFailed
    BY <1>1, <2>1 DEF Pushed, CountedCompleted, CountedFailed
  <2>3. /\ IsFiniteSet(Pushed')
        /\ Cardinality(Pushed') = Cardinality(Pushed) + 1
    BY <2>2, FS_AddElement DEF CountsKnow, CountersKnow
  <2>4. Cardinality(Pushed) \in Nat
    BY CountedArePushed DEF CountsKnow
  <2> QED
    BY <1>1, <2>1, <2>2, <2>3, <2>4 DEF CountsKnow, CountersKnow
<1>3. CASE UNCHANGED status
  <2>1. /\ Pushed' = Pushed /\ CountedCompleted' = CountedCompleted
        /\ CountedFailed' = CountedFailed
    BY <1>1, <1>3 DEF Pushed, CountedCompleted, CountedFailed
  <2>2. \/ /\ gstep = "count" /\ gstep' = "push"
           /\ total_submitted' = total_submitted + 1
        \/ /\ gstep # "push" /\ gstep' # "push"
           /\ UNCHANGED total_submitted
        \/ SubmitPush
    BY DEF GuiStep, SubmitJob, SubmitRecord, SubmitCount, DrawJobTable,
           CopyJobs, PickKey, LoadOne, Shift, PlaceKey, DrawRows,
           DrawStatsDash, LoadCounter, ShowCounters, othersSame, arrayVars, gui
  <2>3. Cardinality(Pushed) \in Nat
    BY CountedArePushed DEF CountsKnow
  <2> QED
    BY <1>1, <1>2, <2>1, <2>2, <2>3 DEF CountsKnow, CountersKnow
<1> QED
  BY <1>2, <1>3
     DEF GuiStep, SubmitJob, SubmitRecord, SubmitCount, DrawJobTable,
         CopyJobs, PickKey, LoadOne, Shift, PlaceKey, DrawRows,
         DrawStatsDash, LoadCounter, ShowCounters, othersSame

(* A worker: what it counts has ended, and was not counted before.         *)
LEMMA CountersWorker ==
  ASSUME CountsKnow, NEW j \in Jobs, WorkerStep(j)
  PROVE  /\ CountersKnow'
         /\ total_completed' >= total_completed
         /\ total_failed' >= total_failed
<1>0. /\ UNCHANGED <<total_submitted, gstep>>
      /\ Pushed' = Pushed
      /\ workerStep(j)
      /\ \A k \in Jobs :
            k # j => status'[k] = status[k] /\ wstep'[k] = wstep[k]
      /\ total_completed \in Nat /\ total_failed \in Nat
      /\ wstep \in [Jobs -> WorkerPlaces] /\ status \in [Jobs -> JobStatus]
  BY WorkerFrame, WorkerStatus, CountedArePushed
     DEF CountsKnow, WorkerStep, Pushed, arrayVars, guiVars, Types, TypeOK
<1>1. CASE CountCompleted(j)
  <2>1. /\ wstep[j] = "count" /\ wstep'[j] = "snapshot"
        /\ UNCHANGED <<status, total_failed>>
        /\ total_completed' = total_completed + 1
    BY <1>0, <1>1 DEF CountCompleted, worker
  <2>2. status[j] = "COMPLETED"
    BY <2>1 DEF CountsKnow, EndKnown, CompletedSteps
  <2>3. /\ CountedCompleted' = CountedCompleted \cup {j}
        /\ j \notin CountedCompleted
        /\ CountedFailed' = CountedFailed
    BY <1>0, <2>1, <2>2 DEF CountedCompleted, CountedFailed
  <2>4. Cardinality(CountedCompleted') = Cardinality(CountedCompleted) + 1
    BY <2>3, CountedArePushed, FS_AddElement DEF CountsKnow
  <2> QED
    BY <1>0, <2>1, <2>3, <2>4 DEF CountsKnow, CountersKnow
<1>2. CASE CountFailed(j)
  <2>1. /\ wstep[j] = "fail" /\ wstep'[j] = "off"
        /\ UNCHANGED <<status, total_completed>>
        /\ total_failed' = total_failed + 1
    BY <1>0, <1>2 DEF CountFailed, worker
  <2>2. status[j] = "FAILED"
    BY <2>1 DEF CountsKnow, EndKnown
  <2>3. /\ CountedFailed' = CountedFailed \cup {j}
        /\ j \notin CountedFailed
        /\ CountedCompleted' = CountedCompleted
    BY <1>0, <2>1, <2>2 DEF CountedCompleted, CountedFailed
  <2>4. Cardinality(CountedFailed') = Cardinality(CountedFailed) + 1
    BY <2>3, CountedArePushed, FS_AddElement DEF CountsKnow
  <2> QED
    BY <1>0, <2>1, <2>3, <2>4 DEF CountsKnow, CountersKnow
<1>3. CASE ~ CountCompleted(j) /\ ~ CountFailed(j)
  <2>1. /\ UNCHANGED <<total_completed, total_failed>>
        /\ status[j] = "COMPLETED" /\ wstep[j] # "count" <=>
              status'[j] = "COMPLETED" /\ wstep'[j] # "count"
        /\ status[j] = "FAILED" /\ wstep[j] # "fail" <=>
              status'[j] = "FAILED" /\ wstep'[j] # "fail"
    <3> USE <1>0 DEF worker, counters
    <3>1. CASE Proceed(j)
      <4>1. PICK t \in {"RUNNING", "PREEMPTED", "READY"} : become(j, t)
        BY <3>1 DEF Proceed
      <4>2. status'[j] = t /\ MayBecome(status[j], t)
        BY <4>1, BecomeType DEF JobStatus
      <4> QED
        BY <3>1, <4>2 DEF Proceed, MayBecome
    <3>2. CASE Fail(j)
      <4>1. status'[j] = "FAILED" /\ MayBecome(status[j], "FAILED")
        BY <3>2, BecomeType DEF Fail, JobStatus
      <4> QED
        BY <3>2, <4>1 DEF Fail, MayBecome
    <3>3. CASE Publish(j)
      <4>1. status'[j] = "COMPLETED" /\ MayBecome(status[j], "COMPLETED")
        BY <3>3, BecomeType DEF Publish, JobStatus
      <4> QED
        BY <3>3, <4>1 DEF Publish, MayBecome
    <3>4. CASE Stamp(j) \/ Snapshot(j) \/ ScanJob(j) \/ EndScan(j)
      BY <3>4 DEF Stamp, Snapshot, ScanJob, EndScan
    <3>5. CASE StoreWait(j) \/ StoreTurnaround(j) \/ StoreThroughput(j)
      BY <3>5 DEF StoreWait, StoreTurnaround, StoreThroughput
    <3> QED
      BY <1>3, <3>1, <3>2, <3>3, <3>4, <3>5 DEF workerStep
  <2>2. /\ CountedCompleted' = CountedCompleted
        /\ CountedFailed' = CountedFailed
    BY <1>0, <2>1 DEF CountedCompleted, CountedFailed
  <2> QED
    BY <1>0, <2>1, <2>2 DEF CountsKnow, CountersKnow
<1> QED
  BY <1>1, <1>2, <1>3

(* The cards are loaded while the GUI thread submits nothing.              *)
LEMMA ShownGui ==
  ASSUME CountsKnow, GuiStep
  PROVE  ShownKnows'
<1>0. /\ shown \in Seq(Nat) /\ Len(shown) \in Nat
      /\ total_submitted \in Nat /\ total_completed \in Nat /\ total_failed \in Nat
  BY LengthTypes DEF CountsKnow, Types, DataTypeOK
<1>1. CASE LoadCounter /\ UNCHANGED <<statsVars, tableVars>>
  <2>1. /\ UNCHANGED <<total_submitted, total_completed, total_failed>>
        /\ shown' = Append(shown, cards[Len(shown) + 1])
    BY <1>1 DEF LoadCounter, arrayVars, statsVars, counters
  <2>2. PICK n \in Nat : n = Len(shown)
    BY <1>0
  <2>3. n = 0 \/ n = 1 \/ n = 2
    <3>1. n < 3
      BY <1>1, <2>2 DEF LoadCounter
    <3> QED
      BY <3>1
  <2>4. \A i \in 1 .. 3 : cards[i] \in Nat
    BY <1>0 DEF cards
  <2>5. n + 1 \in 1 .. 3
    BY <2>3
  <2>6. cards[Len(shown) + 1] \in Nat
    BY <2>2, <2>4, <2>5
  <2>7. /\ Len(shown') = n + 1
        /\ \A i \in 1 .. n : shown'[i] = shown[i]
        /\ shown'[n + 1] = cards[n + 1]
    BY <1>0, <2>1, <2>2, <2>6, AppendProperties
  <2>8. n > 0 => gstep = "stats"
    <3>1. n > 0 => shown # <<>>
      BY <2>2
    <3> QED
      BY <3>1 DEF CountsKnow, Types, TableKnows
  <2>9. CASE n = 0
    BY <1>0, <2>1, <2>7, <2>9 DEF ShownKnows, cards
  <2>10. CASE n = 1
    BY <1>0, <2>1, <2>2, <2>7, <2>8, <2>10 DEF CountsKnow, ShownKnows, cards
  <2>11. CASE n = 2
    BY <1>0, <2>1, <2>2, <2>7, <2>8, <2>11 DEF CountsKnow, ShownKnows, cards
  <2> QED
    BY <2>3, <2>9, <2>10, <2>11
<1>2. CASE ~ LoadCounter
  <2>1. gstep' # "stats"
    BY <1>2
       DEF GuiStep, SubmitJob, SubmitRecord, SubmitCount, SubmitPush,
           DrawJobTable, CopyJobs, PickKey, LoadOne, Shift, PlaceKey,
           DrawRows, DrawStatsDash, ShowCounters, gui
  <2> QED
    BY <2>1 DEF ShownKnows
<1>3. LoadCounter => UNCHANGED <<statsVars, tableVars>>
  <2>1. LoadCounter => shown' # shown
    <3>1. Len(Append(shown, cards[Len(shown) + 1])) = Len(shown) + 1
      BY <1>0
    <3> QED
      BY <1>0, <3>1 DEF LoadCounter
  <2> QED
    BY <2>1 DEF GuiStep
<1> QED
  BY <1>1, <1>2, <1>3

LEMMA CountsNext == CountsKnow /\ [Next]_vars => CountsKnow'
<1> SUFFICES ASSUME CountsKnow, [Next]_vars PROVE CountsKnow'
  OBVIOUS
<1>1. Types' /\ EndKnown'
  BY TypeNext, EndNext DEF CountsKnow
<1>2. CASE GuiStep
  BY <1>1, <1>2, CountersGui, ShownGui DEF CountsKnow
<1>3. ASSUME NEW j \in Jobs, WorkerStep(j) PROVE CountsKnow'
  <2>1. /\ CountersKnow'
        /\ total_completed' >= total_completed /\ total_failed' >= total_failed
        /\ UNCHANGED <<shown, gstep, total_submitted>>
    BY <1>3, CountersWorker, WorkerFrame
       DEF CountsKnow, WorkerStep, arrayVars, guiVars
  <2>2. ShownKnows'
    <3>1. /\ total_completed \in Nat /\ total_failed \in Nat
          /\ total_completed' \in Nat /\ total_failed' \in Nat
          /\ shown \in Seq(Nat) /\ DOMAIN shown = 1 .. Len(shown)
          /\ Len(shown) \in Nat
      BY <1>1, LengthTypes DEF CountsKnow, Types, DataTypeOK
    <3>2. PICK n \in Nat : n = Len(shown)
      BY <3>1
    <3>3. /\ n >= 2 => shown[2] \in Nat
          /\ n >= 3 => shown[3] \in Nat
      BY <3>1, <3>2, ElementOfSeq
    <3>4. gstep = "stats" =>
             /\ shown[1] = total_submitted
             /\ n >= 2 => shown[2] <= total_completed
             /\ n >= 3 => shown[3] <= total_failed
      BY <3>2 DEF CountsKnow, ShownKnows
    <3> QED
      BY <2>1, <3>1, <3>2, <3>3, <3>4 DEF ShownKnows
  <2> QED
    BY <1>1, <2>1, <2>2 DEF CountsKnow
<1>4. CASE UNCHANGED vars
  BY <1>1, <1>4
     DEF vars, CountsKnow, CountersKnow, ShownKnows, Pushed, CountedCompleted,
         CountedFailed, arrayVars, guiVars, statsVars, counters
<1> QED
  BY <1>2, <1>3, <1>4, NextSteps

(* The three cards of a frame add up, although other threads count on      *)
(* between the loads: no more jobs are shown as completed or failed than   *)
(* as submitted.                                                           *)
THEOREM CardsAddUp == Spec => []ShownAddUp
<1>1. Init => CountsKnow
  BY TypeInit, EndInit, CountersInit DEF CountsKnow
<1>2. Spec => []CountsKnow
  BY <1>1, CountsNext, PTL DEF Spec
<1>3. CountsKnow => ShownAddUp
  <2> SUFFICES ASSUME CountsKnow, Len(shown) = 3
               PROVE  shown[2] + shown[3] <= shown[1]
    BY DEF ShownAddUp
  <2>1. gstep = "stats"
    BY DEF CountsKnow, Types, TableKnows
  <2>2. /\ shown[1] = total_submitted /\ shown[2] <= total_completed
        /\ shown[3] <= total_failed
    BY <2>1 DEF CountsKnow, ShownKnows
  <2>3. shown[2] \in Nat /\ shown[3] \in Nat
    <3>1. shown \in Seq(Nat)
      BY DEF CountsKnow, Types, DataTypeOK
    <3>2. 2 \in 1 .. Len(shown) /\ 3 \in 1 .. Len(shown)
      OBVIOUS
    <3> QED
      BY <3>1, <3>2, ElementOfSeq
  <2>4. /\ total_completed \in Nat /\ total_failed \in Nat
        /\ Cardinality(Pushed) \in Nat
        /\ total_completed + total_failed <= Cardinality(Pushed)
        /\ total_submitted = Cardinality(Pushed)
    BY <2>1, CountedArePushed DEF CountsKnow, CountersKnow
  <2> QED
    BY <2>2, <2>3, <2>4
<1> QED
  BY <1>2, <1>3, PTL

-----------------------------------------------------------------------------
(* The sort.                                                               *)

(* What is where in the copy: up to ti jobs of the array up to ti, beyond  *)
(* ti the array itself.  The key is the entry ti, and its place is free.   *)
CopyKnows ==
  /\ gstep = "table" =>
       /\ \A i \in DOMAIN jobs_buf :
             i <= ti => \E m \in 1 .. ti : jobs_buf[i] = all_jobs[m]
       /\ \A i \in DOMAIN jobs_buf : i > ti => jobs_buf[i] = all_jobs[i]
  /\ gstep = "insert" =>
       /\ key = all_jobs[ti]
       /\ \A i \in 1 .. ti :
             i # tj + 1 => \E m \in 1 .. ti - 1 : jobs_buf[i] = all_jobs[m]
       /\ \A i \in DOMAIN jobs_buf : i > ti => jobs_buf[i] = all_jobs[i]

LoadKnows ==
  \/ tload = NoLoad
  \/ tload.of = "entry" /\ tload.rank = rankOf(jobs_buf[tj])
  \/ tload.of = "key" /\ tload.rank = rankOf(key)

(* As long as no status changes, what has been passed through is in order, *)
(* but for the free place; what was moved has a higher rank than the key;  *)
(* and a rank that was loaded is still the rank.                           *)
SortKnows ==
  /\ gstep = "table" /\ quiet =>
       \A i, k \in DOMAIN jobs_buf :
          i < k /\ k <= ti => comesFirst(jobs_buf[i], jobs_buf[k])
  /\ gstep = "insert" /\ quiet =>
       /\ \A i, k \in 1 .. ti :
             i < k /\ i # tj + 1 /\ k # tj + 1 =>
                comesFirst(jobs_buf[i], jobs_buf[k])
       /\ \A k \in tj + 2 .. ti : rankOf(key) < rankOf(jobs_buf[k])
       /\ LoadKnows

(* The table that TablePermutes speaks of: the copy, with the key in the   *)
(* place that is free for it.                                              *)
tableOf == IF gstep = "insert" THEN [jobs_buf EXCEPT ![tj + 1] = key]
                               ELSE jobs_buf

(* The steps that do not concern the table find it not in use, or leave    *)
(* all of it alone.                                                        *)
LEMMA TableFrame ==
  ASSUME Types, [Next]_vars, ~ DrawJobTable
  PROVE  \/ gstep' \notin {"table", "insert"}
         \/ /\ UNCHANGED <<gstep, tableVars, all_jobs>>
            /\ quiet' => quiet /\ status' = status
<1>1. CASE GuiStep
  BY <1>1
     DEF GuiStep, SubmitJob, SubmitRecord, SubmitCount, SubmitPush,
         DrawStatsDash, LoadCounter, ShowCounters, gui
<1>2. ASSUME NEW j \in Jobs, WorkerStep(j), gstep' \in {"table", "insert"}
      PROVE  /\ UNCHANGED <<gstep, tableVars, all_jobs>>
             /\ quiet' => quiet /\ status' = status
  <2>1. UNCHANGED <<gstep, tableVars, all_jobs>>
    BY <1>2, WorkerFrame DEF WorkerStep, arrayVars, guiVars
  <2>2. gstep # "idle"
    BY <1>2, <2>1
  <2>3. Next => (quiet' => quiet /\ status' = status)
    BY <2>2, Zenon DEF Next
  <2>4. UNCHANGED vars => (quiet' => quiet /\ status' = status)
    BY Zenon DEF vars
  <2> QED
    BY <2>1, <2>3, <2>4, Zenon
<1>3. CASE UNCHANGED vars
  BY <1>3 DEF vars, guiVars, arrayVars
<1> QED
  BY <1>1, <1>2, <1>3, NextSteps

(* The indices a turn of the sort works at.                                *)
LEMMA TurnIndices ==
  ASSUME Types, gstep = "insert"
  PROVE  \E n \in Nat :
           /\ n = Len(jobs_buf) /\ DOMAIN jobs_buf = 1 .. n
           /\ ti \in 1 .. n /\ tj \in 0 .. ti - 1 /\ tj + 1 \in 1 .. n
           /\ key \in Jobs
           /\ \A i \in 1 .. n : jobs_buf[i] \in Jobs
<1>1. PICK n \in Nat : n = Len(jobs_buf)
  BY LengthTypes
<1>2. /\ DOMAIN jobs_buf = 1 .. n /\ ti \in 1 .. n /\ tj \in 0 .. ti - 1
      /\ key \in Jobs
  BY <1>1, LengthTypes DEF Types, TypeOK
<1>3. tj + 1 \in 1 .. n
  BY <1>2
<1>4. \A i \in 1 .. n : jobs_buf[i] \in Jobs
  BY <1>1, ElementOfSeq DEF Types, DataTypeOK
<1> QED
  BY <1>1, <1>2, <1>3, <1>4

(* A turn of the sort swaps two neighbours of the table, or none: whatever *)
(* the statuses are, the jobs in it stay the same.                         *)
LEMMA TurnPermutes ==
  ASSUME Types, DrawJobTable, gstep = "insert"
  PROVE  /\ Len(jobs_buf') = Len(jobs_buf)
         /\ {tableOf'[i] : i \in 1 .. Len(jobs_buf)} =
               {tableOf[i] : i \in 1 .. Len(jobs_buf)}
<1>1. PICK n \in Nat :
           /\ n = Len(jobs_buf) /\ DOMAIN jobs_buf = 1 .. n
           /\ ti \in 1 .. n /\ tj \in 0 .. ti - 1 /\ tj + 1 \in 1 .. n
           /\ key \in Jobs
           /\ \A i \in 1 .. n : jobs_buf[i] \in Jobs
  BY TurnIndices
<1>2. jobs_buf \in Seq(Jobs)
  BY DEF Types, DataTypeOK
<1>3. CASE LoadOne
  <2>1. UNCHANGED <<gstep, jobs_buf, key, tj>>
    BY <1>3 DEF LoadOne, gui
  <2> QED
    BY <2>1 DEF tableOf
<1>4. CASE Shift
  <2>1. /\ jobs_buf' = [jobs_buf EXCEPT ![tj + 1] = jobs_buf[tj]]
        /\ tj' = tj - 1 /\ key' = key /\ gstep' = "insert"
        /\ tj >= 1
    BY <1>4 DEF Shift, gui, Types, TableKnows
  <2>2. tj \in 1 .. n /\ tj' + 1 = tj
    BY <1>1, <2>1
  <2>3. Len(jobs_buf') = Len(jobs_buf)
    BY <1>1, <1>2, <2>1, <2>2, ExceptSeq
  <2>4. /\ tableOf[tj] = jobs_buf[tj] /\ tableOf[tj + 1] = key
        /\ tableOf'[tj] = key /\ tableOf'[tj + 1] = jobs_buf[tj]
        /\ \A i \in 1 .. n : i # tj /\ i # tj + 1 =>
              tableOf[i] = jobs_buf[i] /\ tableOf'[i] = jobs_buf[i]
    BY <1>1, <2>1, <2>2 DEF tableOf
  <2>5. {tableOf'[i] : i \in 1 .. n} = {tableOf[i] : i \in 1 .. n}
    BY <1>1, <2>2, <2>4
  <2> QED
    BY <1>1, <2>3, <2>5
<1>5. CASE PlaceKey
  <2>1. /\ jobs_buf' = [jobs_buf EXCEPT ![tj + 1] = key] /\ gstep' = "table"
    BY <1>5 DEF PlaceKey, gui
  <2>2. Len(jobs_buf') = Len(jobs_buf)
    BY <1>1, <1>2, <2>1, ExceptSeq
  <2>3. tableOf' = tableOf
    BY <2>1 DEF tableOf
  <2> QED
    BY <2>2, <2>3
<1> QED
  BY <1>3, <1>4, <1>5 DEF DrawJobTable, CopyJobs, PickKey, DrawRows, gui

TableIsPermuted ==
  gstep \in {"table", "insert"} =>
     /\ Len(jobs_buf) <= Len(all_jobs)
     /\ {tableOf[i] : i \in 1 .. Len(jobs_buf)} =
           {all_jobs[i] : i \in 1 .. Len(jobs_buf)}

LEMMA PermutedMeans == Types => (TableIsPermuted <=> TablePermutes)
<1> SUFFICES ASSUME Types, gstep \in {"table", "insert"}
             PROVE  Len(tableOf) = Len(jobs_buf)
  BY DEF TableIsPermuted, TablePermutes, tableOf
<1>1. CASE gstep = "insert"
  BY <1>1, TurnIndices, ExceptSeq DEF tableOf, Types, DataTypeOK
<1>2. CASE gstep = "table"
  BY <1>2 DEF tableOf
<1> QED
  BY <1>1, <1>2

LEMMA PermutedNext == Types /\ TableIsPermuted /\ [Next]_vars => TableIsPermuted'
<1> SUFFICES ASSUME Types, TableIsPermuted, [Next]_vars PROVE TableIsPermuted'
  OBVIOUS
<1>1. CASE ~ DrawJobTable
  <2>1. CASE gstep' \notin {"table", "insert"}
    BY <2>1 DEF TableIsPermuted
  <2>2. CASE UNCHANGED <<gstep, tableVars, all_jobs>>
    BY <2>2 DEF TableIsPermuted, tableOf, tableVars
  <2> QED
    BY <1>1, <2>1, <2>2, TableFrame
<1>2. CASE DrawJobTable
  <2>0. all_jobs' = all_jobs
    BY <1>2
       DEF DrawJobTable, CopyJobs, PickKey, LoadOne, Shift, PlaceKey,
           DrawRows, othersSame, arrayVars
  <2>1. CASE gstep = "insert"
    BY <1>2, <2>0, <2>1, TurnPermutes DEF TableIsPermuted
  <2>2. CASE CopyJobs
    BY <2>0, <2>2, LengthTypes
       DEF CopyJobs, gui, allJobsSnapshot, TableIsPermuted, tableOf
  <2>3. CASE PickKey
    <3>1. /\ gstep = "table" /\ gstep' = "insert" /\ jobs_buf' = jobs_buf
          /\ tj' = ti /\ key' = jobs_buf[ti + 1]
      BY <2>3 DEF PickKey, gui
    <3>2. tableOf' = jobs_buf
      <4>1. jobs_buf \in [1 .. Len(jobs_buf) -> Jobs]
        BY LenProperties DEF Types, DataTypeOK
      <4> QED
        BY <3>1, <4>1 DEF tableOf
    <3>3. tableOf = jobs_buf
      BY <3>1 DEF tableOf
    <3> QED
      BY <2>0, <3>1, <3>2, <3>3 DEF TableIsPermuted
  <2>4. CASE DrawRows
    BY <2>4 DEF DrawRows, gui, TableIsPermuted
  <2> QED
    BY <1>2, <2>1, <2>2, <2>3, <2>4
       DEF DrawJobTable, LoadOne, Shift, PlaceKey, gui
<1> QED
  BY <1>1, <1>2

(* Whatever happens to the statuses while the table is sorted, no job is   *)
(* lost from it, or in it twice.                                           *)
THEOREM TableIsPermutation == Spec => []TablePermutes
<1>1. Init => Types /\ TableIsPermuted
  BY TypeInit DEF Init, ArrayInit, TableIsPermuted
<1>2. Spec => [](Types /\ TableIsPermuted)
  BY <1>1, TypeNext, PermutedNext, PTL DEF Spec
<1>3. Types /\ TableIsPermuted => TablePermutes
  BY PermutedMeans
<1> QED
  BY <1>2, <1>3, PTL

(* What the steps of the sort do, with the length of the copy named.       *)
LEMMA TurnOf ==
  ASSUME Types, DrawJobTable
  PROVE  /\ all_jobs' = all_jobs /\ status' = status
         /\ \/ CopyJobs
            \/ /\ gstep \in {"table", "insert"}
               /\ gstep' = "idle"
            \/ \E n \in Nat :
                  /\ DOMAIN jobs_buf = 1 .. n
                  /\ n = Len(jobs_buf)
                  /\ \/ /\ gstep = "table" /\ gstep' = "insert"
                        /\ ti \in 1 .. n - 1 /\ PickKey
                     \/ /\ gstep = "insert"
                        /\ ti \in 1 .. n /\ tj \in 0 .. ti - 1
                        /\ LoadOne \/ Shift \/ PlaceKey
<1>1. all_jobs' = all_jobs /\ status' = status
  BY DEF DrawJobTable, CopyJobs, PickKey, LoadOne, Shift, PlaceKey, DrawRows,
         othersSame, arrayVars
<1>2. CASE CopyJobs
  BY <1>1, <1>2
<1>3. CASE DrawRows
  BY <1>1, <1>3 DEF DrawRows, gui
<1>4. CASE PickKey
  <2>1. PICK n \in Nat : n = Len(jobs_buf) /\ DOMAIN jobs_buf = 1 .. n
    BY LengthTypes
  <2>2. ti \in Nat \ {0} /\ ti < n /\ gstep = "table" /\ gstep' = "insert"
    BY <1>4, <2>1 DEF PickKey, gui, Types, DataTypeOK
  <2>3. ti \in 1 .. n - 1
    BY <2>2
  <2> QED
    BY <1>1, <1>4, <2>1, <2>2, <2>3
<1>5. CASE LoadOne \/ Shift \/ PlaceKey
  <2>1. gstep = "insert"
    BY <1>5 DEF LoadOne, Shift, PlaceKey, gui
  <2> QED
    BY <1>1, <1>5, <2>1, TurnIndices
<1> QED
  BY <1>2, <1>3, <1>4, <1>5 DEF DrawJobTable

LEMMA CopyNext == Types /\ CopyKnows /\ [Next]_vars => CopyKnows'
<1> SUFFICES ASSUME Types, CopyKnows, [Next]_vars PROVE CopyKnows'
  OBVIOUS
<1>1. CASE ~ DrawJobTable
  BY <1>1, TableFrame DEF CopyKnows, tableVars
<1>2. CASE CopyJobs
  <2>1. /\ gstep' = "table" /\ jobs_buf' = all_jobs /\ ti' = 1
        /\ all_jobs' = all_jobs
    BY <1>2 DEF CopyJobs, gui, allJobsSnapshot, othersSame, arrayVars
  <2>2. \A i \in DOMAIN all_jobs : i \in Nat /\ i >= 1
    BY LengthTypes
  <2> QED
    BY <2>1, <2>2 DEF CopyKnows
<1>3. CASE gstep' = "idle"
  BY <1>3 DEF CopyKnows
<1>4. ASSUME NEW n \in Nat, DOMAIN jobs_buf = 1 .. n, all_jobs' = all_jobs,
             gstep = "table", gstep' = "insert", ti \in 1 .. n - 1, PickKey
      PROVE  CopyKnows'
  <2>1. /\ ti' = ti + 1 /\ tj' = ti /\ key' = jobs_buf[ti + 1]
        /\ jobs_buf' = jobs_buf
    BY <1>4 DEF PickKey
  <2>2. /\ \A i \in 1 .. n : i <= ti => \E m \in 1 .. ti : jobs_buf[i] = all_jobs[m]
        /\ \A i \in 1 .. n : i > ti => jobs_buf[i] = all_jobs[i]
    BY <1>4 DEF CopyKnows
  <2>3. ti + 1 \in 1 .. n /\ ti + 1 > ti /\ (ti + 1) - 1 = ti
    BY <1>4
  <2>4. key' = all_jobs[ti + 1]
    BY <2>1, <2>2, <2>3
  <2>5. \A i \in 1 .. ti + 1 :
           i # ti + 1 => \E m \in 1 .. ti : jobs_buf[i] = all_jobs[m]
    BY <1>4, <2>2
  <2>6. \A i \in 1 .. n : i > ti + 1 => jobs_buf[i] = all_jobs[i]
    BY <1>4, <2>2
  <2> QED
    BY <1>4, <2>1, <2>3, <2>4, <2>5, <2>6 DEF CopyKnows
<1>5. ASSUME NEW n \in Nat, DOMAIN jobs_buf = 1 .. n, all_jobs' = all_jobs,
             gstep = "insert", ti \in 1 .. n, tj \in 0 .. ti - 1,
             LoadOne \/ Shift \/ PlaceKey
      PROVE  CopyKnows'
  <2>1. /\ key = all_jobs[ti]
        /\ \A i \in 1 .. ti :
              i # tj + 1 => \E m \in 1 .. ti - 1 : jobs_buf[i] = all_jobs[m]
        /\ \A i \in 1 .. n : i > ti => jobs_buf[i] = all_jobs[i]
    BY <1>5 DEF CopyKnows
  <2>2. CASE LoadOne
    BY <1>5, <2>1, <2>2 DEF LoadOne, gui, CopyKnows
  <2>3. CASE Shift
    <3>1. /\ jobs_buf' = [jobs_buf EXCEPT ![tj + 1] = jobs_buf[tj]]
          /\ tj' = tj - 1 /\ key' = key /\ ti' = ti /\ gstep' = "insert"
          /\ tj >= 1
      BY <2>3 DEF Shift, gui, Types, TableKnows
    <3>2. /\ DOMAIN jobs_buf' = 1 .. n /\ tj \in 1 .. ti - 1 /\ tj' + 1 = tj
          /\ jobs_buf'[tj + 1] = jobs_buf[tj]
          /\ \A i \in 1 .. n : i # tj + 1 => jobs_buf'[i] = jobs_buf[i]
      BY <1>5, <3>1
    <3>3. \A i \in 1 .. ti :
             i # tj => \E m \in 1 .. ti - 1 : jobs_buf'[i] = all_jobs[m]
      BY <1>5, <2>1, <3>2
    <3> QED
      BY <1>5, <2>1, <3>1, <3>2, <3>3 DEF CopyKnows
  <2>4. CASE PlaceKey
    <3>1. /\ jobs_buf' = [jobs_buf EXCEPT ![tj + 1] = key]
          /\ ti' = ti /\ gstep' = "table"
      BY <2>4 DEF PlaceKey, gui
    <3>2. /\ DOMAIN jobs_buf' = 1 .. n
          /\ jobs_buf'[tj + 1] = key
          /\ \A i \in 1 .. n : i # tj + 1 => jobs_buf'[i] = jobs_buf[i]
      BY <1>5, <3>1
    <3>3. \A i \in 1 .. n :
             i <= ti => \E m \in 1 .. ti : jobs_buf'[i] = all_jobs[m]
      <4> SUFFICES ASSUME NEW i \in 1 .. n, i <= ti
                   PROVE  \E m \in 1 .. ti : jobs_buf'[i] = all_jobs[m]
        OBVIOUS
      <4>1. CASE i = tj + 1
        BY <1>5, <2>1, <3>2, <4>1
      <4>2. CASE i # tj + 1
        BY <1>5, <2>1, <3>2, <4>2
      <4> QED
        BY <4>1, <4>2
    <3> QED
      BY <1>5, <2>1, <3>1, <3>2, <3>3 DEF CopyKnows
  <2> QED
    BY <1>5, <2>2, <2>3, <2>4
<1> QED
  BY <1>1, <1>2, <1>3, <1>4, <1>5, TurnOf

(* The order of the rows is an order, and jobs of the same rank follow     *)
(* those submitted before them.                                            *)
LEMMA RowOrder ==
  ASSUME Types, RecordedOnce
  PROVE  /\ \A i \in DOMAIN all_jobs : placeOf(all_jobs[i]) = i
         /\ \A i, k \in DOMAIN all_jobs :
               /\ rankOf(all_jobs[i]) < rankOf(all_jobs[k]) =>
                     comesFirst(all_jobs[i], all_jobs[k])
               /\ rankOf(all_jobs[i]) <= rankOf(all_jobs[k]) /\ i < k =>
                     comesFirst(all_jobs[i], all_jobs[k])
         /\ \A i, k, m \in DOMAIN all_jobs :
               /\ comesFirst(all_jobs[i], all_jobs[k])
               /\ comesFirst(all_jobs[k], all_jobs[m])
               => comesFirst(all_jobs[i], all_jobs[m])
<1>1. ASSUME NEW i \in DOMAIN all_jobs PROVE placeOf(all_jobs[i]) = i
  BY DEF placeOf, RecordedOnce
<1>2. /\ \A i \in DOMAIN all_jobs : i \in Int
      /\ \A i \in DOMAIN all_jobs : rankOf(all_jobs[i]) \in Int
  BY LengthTypes, RecordedJobs, RankType
<1> QED
  BY <1>1, <1>2 DEF comesFirst

(* With both ranks still what they were when they were loaded, the         *)
(* comparison compares them.                                               *)
LEMMA ComparisonIs ==
  ASSUME LoadKnows, tload # NoLoad
  PROVE  goesBefore <=> rankOf(jobs_buf[tj]) > rankOf(key)
BY DEF LoadKnows, goesBefore

SortInv == Types /\ EndKnown /\ RecordedOnce /\ CopyKnows /\ SortKnows

(* PickKey begins a turn: what was in order still is, and nothing has been *)
(* moved.                                                                  *)
LEMMA SortPick ==
  ASSUME SortInv, UNCHANGED <<all_jobs, status>>, quiet,
         NEW n \in Nat, DOMAIN jobs_buf = 1 .. n,
         gstep = "table", gstep' = "insert", ti \in 1 .. n - 1, PickKey
  PROVE  SortKnows'
<1>1. /\ ti' = ti + 1 /\ tj' = ti /\ jobs_buf' = jobs_buf /\ tload' = tload
  BY DEF PickKey
<1>2. tload = NoLoad
  BY DEF SortInv, Types, TableKnows
<1>3. LoadKnows'
  BY <1>1, <1>2 DEF LoadKnows, NoLoad
<1>4. \A i, k \in 1 .. n :
         i < k /\ k <= ti => comesFirst(jobs_buf[i], jobs_buf[k])
  BY DEF SortInv, SortKnows
<1>5. \A a, b : comesFirst(a, b)' <=> comesFirst(a, b)
  BY DEF comesFirst, rankOf, placeOf
<1>6. \A i, k \in 1 .. ti' :
         i < k /\ i # tj' + 1 /\ k # tj' + 1 =>
            comesFirst(jobs_buf[i], jobs_buf[k])
  BY <1>1, <1>4
<1>7. tj' + 2 .. ti' = {}
  BY <1>1
<1> QED
  BY <1>1, <1>3, <1>5, <1>6, <1>7 DEF SortKnows

(* What the sort knows in the middle of a turn.                            *)
LEMMA TurnKnows ==
  ASSUME SortInv, quiet, NEW n \in Nat, DOMAIN jobs_buf = 1 .. n,
         n = Len(jobs_buf),
         gstep = "insert", ti \in 1 .. n, tj \in 0 .. ti - 1
  PROVE  /\ \A i, k \in 1 .. ti :
               i < k /\ i # tj + 1 /\ k # tj + 1 =>
                  comesFirst(jobs_buf[i], jobs_buf[k])
         /\ \A k \in tj + 2 .. ti : rankOf(key) < rankOf(jobs_buf[k])
         /\ LoadKnows
         /\ key = all_jobs[ti] /\ ti \in DOMAIN all_jobs
         /\ \A i \in 1 .. ti :
               i # tj + 1 =>
                  \E m \in DOMAIN all_jobs : m < ti /\ jobs_buf[i] = all_jobs[m]
<1>1. PICK c \in Nat : c = Len(all_jobs) /\ DOMAIN all_jobs = 1 .. c
  BY LengthTypes DEF SortInv
<1>2. n <= c
  BY <1>1 DEF SortInv, Types, TableKnows
<1>3. /\ key = all_jobs[ti]
      /\ \A i \in 1 .. ti :
            i # tj + 1 => \E m \in 1 .. ti - 1 : jobs_buf[i] = all_jobs[m]
  BY DEF SortInv, CopyKnows
<1>4. \A m \in 1 .. ti - 1 : m \in 1 .. c /\ m < ti
  BY <1>2
<1>5. /\ \A i, k \in 1 .. ti :
            i < k /\ i # tj + 1 /\ k # tj + 1 =>
               comesFirst(jobs_buf[i], jobs_buf[k])
      /\ \A k \in tj + 2 .. ti : rankOf(key) < rankOf(jobs_buf[k])
      /\ LoadKnows
  BY DEF SortInv, SortKnows
<1>6. ti \in 1 .. c
  BY <1>2
<1> QED
  BY <1>1, <1>3, <1>4, <1>5, <1>6

LEMMA SortShift ==
  ASSUME SortInv, UNCHANGED <<all_jobs, status>>, quiet,
         NEW n \in Nat, DOMAIN jobs_buf = 1 .. n, n = Len(jobs_buf),
         gstep = "insert", ti \in 1 .. n, tj \in 0 .. ti - 1, Shift
  PROVE  SortKnows'
<1>1. /\ jobs_buf' = [jobs_buf EXCEPT ![tj + 1] = jobs_buf[tj]]
      /\ tj' = tj - 1 /\ key' = key /\ ti' = ti /\ gstep' = "insert"
      /\ tload' = NoLoad /\ tload # NoLoad /\ goesBefore /\ tj >= 1
  BY DEF Shift, gui, SortInv, Types, TableKnows
<1>2. /\ tj \in 1 .. ti - 1 /\ tj' + 1 = tj /\ tj' + 2 = tj + 1
      /\ jobs_buf'[tj + 1] = jobs_buf[tj]
      /\ \A i \in 1 .. n : i # tj + 1 => jobs_buf'[i] = jobs_buf[i]
  BY <1>1
<1>3. /\ \A i, k \in 1 .. ti :
            i < k /\ i # tj + 1 /\ k # tj + 1 =>
               comesFirst(jobs_buf[i], jobs_buf[k])
      /\ \A k \in tj + 2 .. ti : rankOf(key) < rankOf(jobs_buf[k])
      /\ LoadKnows
  BY TurnKnows
<1>4. rankOf(key) < rankOf(jobs_buf[tj])
  <2>1. rankOf(jobs_buf[tj]) > rankOf(key)
    BY <1>1, <1>3, ComparisonIs
  <2>2. rankOf(key) \in 0 .. 5 /\ rankOf(jobs_buf[tj]) \in 0 .. 5
    <3>1. jobs_buf[tj] \in Jobs /\ key \in Jobs
      <4>1. tj \in 1 .. n
        BY <1>2
      <4> QED
        BY <4>1, TurnIndices DEF SortInv
    <3> QED
      BY <3>1, RankType DEF SortInv
  <2> QED
    BY <2>1, <2>2
<1>5. \A a, b : comesFirst(a, b)' <=> comesFirst(a, b)
  BY DEF comesFirst, rankOf, placeOf
<1>6. \A a : rankOf(a)' = rankOf(a)
  BY DEF rankOf
<1>7. ASSUME NEW i \in 1 .. ti, NEW k \in 1 .. ti, i < k, i # tj, k # tj
      PROVE  comesFirst(jobs_buf'[i], jobs_buf'[k])
  <2>1. CASE i = tj + 1
    <3>1. tj < k /\ k # tj + 1 /\ k \in 1 .. n /\ tj \in 1 .. ti /\ tj # tj + 1
      BY <1>2, <1>7, <2>1
    <3> QED
      BY <1>2, <1>3, <2>1, <3>1
  <2>2. CASE k = tj + 1
    <3>1. i < tj /\ i # tj + 1 /\ i \in 1 .. n /\ tj \in 1 .. ti /\ tj # tj + 1
      BY <1>2, <1>7, <2>2
    <3> QED
      BY <1>2, <1>3, <2>2, <3>1
  <2>3. CASE i # tj + 1 /\ k # tj + 1
    <3>1. i \in 1 .. n /\ k \in 1 .. n
      OBVIOUS
    <3> QED
      BY <1>2, <1>3, <1>7, <2>3, <3>1
  <2> QED
    BY <2>1, <2>2, <2>3
<1>8. ASSUME NEW k \in tj + 1 .. ti PROVE rankOf(key) < rankOf(jobs_buf'[k])
  <2>1. CASE k = tj + 1
    BY <1>2, <1>4, <2>1
  <2>2. CASE k # tj + 1
    <3>1. k \in tj + 2 .. ti /\ k \in 1 .. n
      BY <2>2
    <3> QED
      BY <1>2, <1>3, <2>2, <3>1
  <2> QED
    BY <2>1, <2>2
<1>9. LoadKnows'
  BY <1>1 DEF LoadKnows, NoLoad
<1> QED
  BY <1>1, <1>2, <1>5, <1>6, <1>7, <1>8, <1>9 DEF SortKnows

LEMMA SortPlace ==
  ASSUME SortInv, UNCHANGED <<all_jobs, status>>, quiet,
         NEW n \in Nat, DOMAIN jobs_buf = 1 .. n, n = Len(jobs_buf),
         gstep = "insert", ti \in 1 .. n, tj \in 0 .. ti - 1, PlaceKey
  PROVE  SortKnows'
<1>1. /\ jobs_buf' = [jobs_buf EXCEPT ![tj + 1] = key]
      /\ ti' = ti /\ gstep' = "table"
      /\ tj = 0 \/ (tload # NoLoad /\ ~ goesBefore)
  BY DEF PlaceKey, gui
<1>2. /\ DOMAIN jobs_buf' = 1 .. n /\ tj + 1 \in 1 .. ti
      /\ jobs_buf'[tj + 1] = key
      /\ \A i \in 1 .. n : i # tj + 1 => jobs_buf'[i] = jobs_buf[i]
  BY <1>1
<1>3. /\ \A i, k \in 1 .. ti :
            i < k /\ i # tj + 1 /\ k # tj + 1 =>
               comesFirst(jobs_buf[i], jobs_buf[k])
      /\ \A k \in tj + 2 .. ti : rankOf(key) < rankOf(jobs_buf[k])
      /\ LoadKnows
      /\ key = all_jobs[ti] /\ ti \in DOMAIN all_jobs
      /\ \A i \in 1 .. ti :
            i # tj + 1 =>
               \E m \in DOMAIN all_jobs : m < ti /\ jobs_buf[i] = all_jobs[m]
  BY TurnKnows
<1>4. /\ \A i, k \in DOMAIN all_jobs :
            /\ rankOf(all_jobs[i]) < rankOf(all_jobs[k]) =>
                  comesFirst(all_jobs[i], all_jobs[k])
            /\ rankOf(all_jobs[i]) <= rankOf(all_jobs[k]) /\ i < k =>
                  comesFirst(all_jobs[i], all_jobs[k])
      /\ \A i, k, m \in DOMAIN all_jobs :
            /\ comesFirst(all_jobs[i], all_jobs[k])
            /\ comesFirst(all_jobs[k], all_jobs[m])
            => comesFirst(all_jobs[i], all_jobs[m])
  BY RowOrder DEF SortInv
(* The jobs to the left of the free place come before the key, ...         *)
<1>5. ASSUME NEW i \in 1 .. tj PROVE comesFirst(jobs_buf[i], key)
  <2>1. /\ tj \in 1 .. ti /\ tj # tj + 1 /\ i \in 1 .. ti /\ i # tj + 1
        /\ tj \in 1 .. n /\ tj # 0
    OBVIOUS
  <2>2. rankOf(jobs_buf[tj]) <= rankOf(key)
    <3>1. ~ (rankOf(jobs_buf[tj]) > rankOf(key))
      BY <1>1, <1>3, <2>1, ComparisonIs
    <3>2. rankOf(key) \in 0 .. 5 /\ rankOf(jobs_buf[tj]) \in 0 .. 5
      BY <2>1, TurnIndices, RankType DEF SortInv
    <3> QED
      BY <3>1, <3>2
  <2>3. PICK m \in DOMAIN all_jobs : m < ti /\ jobs_buf[tj] = all_jobs[m]
    BY <1>3, <2>1
  <2>4. comesFirst(jobs_buf[tj], key)
    BY <1>3, <1>4, <2>2, <2>3
  <2>5. CASE i = tj
    BY <2>4, <2>5
  <2>6. CASE i # tj
    <3>1. i < tj
      BY <2>6
    <3>2. comesFirst(jobs_buf[i], jobs_buf[tj])
      BY <1>3, <2>1, <3>1
    <3>3. PICK q \in DOMAIN all_jobs : jobs_buf[i] = all_jobs[q]
      BY <1>3, <2>1
    <3> QED
      BY <1>3, <1>4, <2>3, <2>4, <3>2, <3>3
  <2> QED
    BY <2>5, <2>6
(* ... and it comes before those to the right of it.                       *)
<1>6. ASSUME NEW k \in tj + 2 .. ti PROVE comesFirst(key, jobs_buf[k])
  <2>1. k \in 1 .. ti /\ k # tj + 1
    OBVIOUS
  <2>2. PICK m \in DOMAIN all_jobs : jobs_buf[k] = all_jobs[m]
    BY <1>3, <2>1
  <2> QED
    BY <1>3, <1>4, <2>2
<1>7. ASSUME NEW i \in 1 .. n, NEW k \in 1 .. n, i < k, k <= ti
      PROVE  comesFirst(jobs_buf'[i], jobs_buf'[k])
  <2>1. CASE i = tj + 1
    <3>1. k \in tj + 2 .. ti /\ k # tj + 1
      BY <1>7, <2>1
    <3> QED
      BY <1>2, <1>6, <2>1, <3>1
  <2>2. CASE k = tj + 1
    <3>1. i \in 1 .. tj /\ i # tj + 1
      BY <1>7, <2>2
    <3> QED
      BY <1>2, <1>5, <2>2, <3>1
  <2>3. CASE i # tj + 1 /\ k # tj + 1
    <3>1. i \in 1 .. ti /\ k \in 1 .. ti
      BY <1>7
    <3> QED
      BY <1>2, <1>3, <1>7, <2>3, <3>1
  <2> QED
    BY <2>1, <2>2, <2>3
<1>8. \A a, b : comesFirst(a, b)' <=> comesFirst(a, b)
  BY DEF comesFirst, rankOf, placeOf
<1> QED
  BY <1>1, <1>2, <1>7, <1>8 DEF SortKnows

LEMMA SortLoad ==
  ASSUME SortInv, UNCHANGED <<all_jobs, status>>, quiet, gstep = "insert", LoadOne
  PROVE  SortKnows'
<1>1. /\ UNCHANGED <<gstep, jobs_buf, key, ti, tj>> /\ gstep' = "insert"
      /\ \/ tload' = [of |-> "entry", rank |-> rankOf(jobs_buf[tj])]
         \/ tload' = [of |-> "key", rank |-> rankOf(key)]
  BY DEF LoadOne, gui
<1>2. \A a : rankOf(a)' = rankOf(a)
  BY DEF rankOf
<1>3. \A a, b : comesFirst(a, b)' <=> comesFirst(a, b)
  BY DEF comesFirst, rankOf, placeOf
<1>4. LoadKnows'
  BY <1>1, <1>2 DEF LoadKnows
<1> QED
  BY <1>1, <1>2, <1>3, <1>4 DEF SortInv, SortKnows

LEMMA SortNext == SortInv /\ [Next]_vars => SortInv'
<1> SUFFICES ASSUME SortInv, [Next]_vars PROVE SortInv'
  OBVIOUS
<1>1. Types' /\ EndKnown' /\ RecordedOnce' /\ CopyKnows'
  BY TypeNext, EndNext, RecordedNext, CopyNext DEF SortInv
<1>2. SortKnows'
  <2>1. CASE ~ DrawJobTable
    <3>1. CASE gstep' \notin {"table", "insert"}
      BY <3>1 DEF SortKnows
    <3>2. CASE /\ UNCHANGED <<gstep, tableVars, all_jobs>>
               /\ quiet' => quiet /\ status' = status
      <4>1. CASE ~ quiet'
        BY <4>1 DEF SortKnows
      <4>2. CASE quiet'
        <5>1. quiet /\ status' = status
          BY <3>2, <4>2
        <5>2. /\ \A a : rankOf(a)' = rankOf(a)
              /\ \A a, b : comesFirst(a, b)' <=> comesFirst(a, b)
          BY <3>2, <5>1 DEF comesFirst, rankOf, placeOf
        <5>3. LoadKnows' <=> LoadKnows
          BY <3>2, <5>2 DEF LoadKnows, tableVars
        <5> QED
          BY <3>2, <4>2, <5>1, <5>2, <5>3 DEF SortInv, SortKnows, tableVars
      <4> QED
        BY <4>1, <4>2
    <3> QED
      BY <2>1, <3>1, <3>2, TableFrame DEF SortInv
  <2>2. CASE CopyJobs
    <3>1. gstep' = "table" /\ jobs_buf' = all_jobs /\ ti' = 1
      BY <2>2 DEF CopyJobs, gui, allJobsSnapshot
    <3>2. \A i, k \in DOMAIN all_jobs : ~ (i < k /\ k <= 1)
      BY LengthTypes DEF SortInv
    <3> QED
      BY <3>1, <3>2 DEF SortKnows
  <2>3. CASE gstep' = "idle" \/ ~ quiet'
    BY <2>3 DEF SortKnows
  <2>4. CASE DrawJobTable /\ ~ CopyJobs /\ gstep' # "idle" /\ quiet'
    <3>1. gstep # "idle" /\ all_jobs' = all_jobs /\ status' = status
      BY <2>4, TurnOf DEF SortInv
    <3>2. quiet
      <4>1. Next => (quiet' => quiet)
        BY <3>1, Zenon DEF Next
      <4>2. UNCHANGED vars => (quiet' => quiet)
        BY Zenon DEF vars
      <4> QED
        BY <2>4, <4>1, <4>2, Zenon
    <3> QED
      BY <2>4, <3>1, <3>2, TurnOf, SortPick, SortLoad, SortShift, SortPlace
         DEF SortInv
  <2> QED
    BY <2>1, <2>2, <2>3, <2>4
<1> QED
  BY <1>1, <1>2 DEF SortInv

(* The rows are in the order of the ranks and, within a rank, of their     *)
(* submission, for any number of jobs, if no status changed on the way: it *)
(* is the changes under the sort, and nothing else, that can disorder it.  *)
THEOREM QuietTableIsSorted == Spec => []SortedIfQuiet
<1>1. Init => SortInv
  BY TypeInit, EndInit, RecordedInit
     DEF Init, ArrayInit, SortInv, CopyKnows, SortKnows
<1>2. Spec => []SortInv
  BY <1>1, SortNext, PTL DEF Spec
<1>3. SortInv => SortedIfQuiet
  <2> SUFFICES ASSUME SortInv, gstep = "table", quiet, ti >= Len(jobs_buf),
                      NEW i \in DOMAIN jobs_buf, NEW k \in DOMAIN jobs_buf, i < k
               PROVE  comesFirst(jobs_buf[i], jobs_buf[k])
    BY DEF SortedIfQuiet
  <2>1. PICK n \in Nat : n = Len(jobs_buf) /\ DOMAIN jobs_buf = 1 .. n
    BY LengthTypes DEF SortInv
  <2>2. ti \in Nat /\ ti >= n
    BY <2>1 DEF SortInv, Types, DataTypeOK
  <2>3. k <= ti
    BY <2>1, <2>2
  <2> QED
    BY <2>3 DEF SortInv, SortKnows
<1> QED
  BY <1>2, <1>3, PTL

=============================================================================
