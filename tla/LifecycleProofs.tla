-------------------------- MODULE LifecycleProofs --------------------------
(***************************************************************************)
(* The service implements JobLifecycle: seen job by job, every step of any *)
(* client, agent, replica, worker or failure detector is a step of the     *)
(* job's life cycle or leaves the job where it is.                         *)
(*                                                                         *)
(* The argument needs two facts besides Inv: a row that was never added is *)
(* on no VM, so no report finds it, and a snapshot only names added jobs.  *)
(* That a commit does not schedule a job twice is SnapshotInv.             *)
(*                                                                         *)
(* Two more results follow a job through its life: the status of a task    *)
(* that its client has seen Completed stays so, and the restart counter    *)
(* bounds how many VMs ever take a job on.                                 *)
(***************************************************************************)
EXTENDS VmSchedulerProofs

UnaddedAreNowhere ==
    /\ \A j \in Jobs : jobs[j].status = "none" => jobs[j].vm = NoVm
    /\ \A b \in Backends : \A j \in sched[b].queued : jobs[j].status # "none"

\* Lifecycle!Next for one job, on the rows themselves.
KeepsToLifecycle(j) ==
    \/ /\ jobs'[j].status = jobs[j].status
       /\ jobs'[j].restarts = jobs[j].restarts
       /\ jobs[j].status = "none" => jobs'[j].vm = jobs[j].vm
    \/ /\ jobs'[j].status \in Lifecycle!Successors(jobs[j].status)
       /\ jobs'[j].restarts = jobs[j].restarts
    \/ /\ jobs[j].status \in {"Scheduled", "Running"}
       /\ jobs[j].restarts < JobRestartAttempts
       /\ jobs'[j].status = "Queued"
       /\ jobs'[j].restarts = jobs[j].restarts + 1
    \/ /\ jobs[j].status \in {"Scheduled", "Running"}
       /\ jobs[j].restarts = JobRestartAttempts
       /\ jobs'[j].status = "InternalError"
       /\ jobs'[j].restarts = jobs[j].restarts

KeepJobs == \A j \in Jobs : KeepsToLifecycle(j)

----------------------------------------------------------------------------
(* The transactions that change jobs.                                      *)

(***************************************************************************)
(* A transaction that leaves the jobs table alone keeps every job in place.*)
(***************************************************************************)
LEMMA KeepUnchanged == ASSUME UNCHANGED jobs PROVE KeepJobs
BY DEF KeepJobs, KeepsToLifecycle

(***************************************************************************)
(* restartJobs charges every return to the queue, and fails the jobs that  *)
(* have no attempt left.                                                   *)
(***************************************************************************)
LEMMA KeepRestartJobs ==
  ASSUME StorageTypeOK, NEW S, NEW st \in {"Scheduled", "Running"},
         jobs' = RestartJobs(S, st)
  PROVE  KeepJobs
<1> SUFFICES ASSUME NEW j \in Jobs PROVE KeepsToLifecycle(j)
  BY DEF KeepJobs
<1>1. jobs[j] \in JobRow
  BY DEF StorageTypeOK
<1>2. CASE jobs[j].vm \in S /\ jobs[j].status = st
  <2>1. CASE jobs[j].restarts < JobRestartAttempts
    <3>1. jobs'[j] = [jobs[j] EXCEPT !.status = "Queued",
                                     !.restarts = jobs[j].restarts + 1]
      BY <1>2, <2>1 DEF RestartJobs
    <3>2. jobs'[j].status = "Queued" /\ jobs'[j].restarts = jobs[j].restarts + 1
      BY <1>1, <3>1 DEF JobRow
    <3> QED BY <1>2, <2>1, <3>2 DEF KeepsToLifecycle
  <2>2. CASE ~(jobs[j].restarts < JobRestartAttempts)
    <3>1. jobs'[j] = [jobs[j] EXCEPT !.status = "InternalError"]
      BY <1>2, <2>2 DEF RestartJobs
    <3>2. jobs'[j].status = "InternalError" /\ jobs'[j].restarts = jobs[j].restarts
      BY <1>1, <3>1 DEF JobRow
    <3>3. jobs[j].restarts = JobRestartAttempts
      BY <1>1, <2>2, StorageAssumption DEF JobRow
    <3> QED BY <1>2, <3>2, <3>3 DEF KeepsToLifecycle
  <2> QED BY <2>1, <2>2
<1>3. CASE ~(jobs[j].vm \in S /\ jobs[j].status = st)
  BY <1>3 DEF RestartJobs, KeepsToLifecycle
<1> QED BY <1>2, <1>3

(***************************************************************************)
(* cancelJobs_ cancels queued jobs at once and leaves the others           *)
(* Cancelling.                                                             *)
(***************************************************************************)
LEMMA KeepCancelJobs ==
  ASSUME StorageTypeOK, NEW S \in SUBSET UnfinishedJobs, CancelJobs(S)
  PROVE  KeepJobs
<1> SUFFICES ASSUME NEW j \in Jobs PROVE KeepsToLifecycle(j)
  BY DEF KeepJobs
<1>1. jobs[j] \in JobRow
  BY DEF StorageTypeOK
<1>2. CASE j \in S
  <2>1. jobs[j].status \in {"Queued", "Scheduled", "Running"}
    BY <1>1, <1>2 DEF UnfinishedJobs, FinalJobStatuses, JobRow, JobStatuses
  <2>2. jobs'[j] = [jobs[j] EXCEPT !.status = IF jobs[j].status = "Queued"
                                              THEN "Cancelled" ELSE "Cancelling"]
    BY <1>2 DEF CancelJobs
  <2>3. /\ jobs'[j].status = IF jobs[j].status = "Queued"
                             THEN "Cancelled" ELSE "Cancelling"
        /\ jobs'[j].restarts = jobs[j].restarts
    BY <1>1, <2>2 DEF JobRow
  <2> QED BY <2>1, <2>3 DEF KeepsToLifecycle, Lifecycle!Successors
<1>3. CASE j \notin S
  BY <1>3 DEF CancelJobs, KeepsToLifecycle
<1> QED BY <1>2, <1>3

(***************************************************************************)
(* updateJobState moves a job only while it is Queued, Scheduled or        *)
(* Running, and never to InternalError.                                    *)
(***************************************************************************)
LEMMA KeepUpdateJobState ==
  ASSUME StorageTypeOK, UnaddedAreNowhere, NEW v \in Vms, NEW i \in Jobs,
         NEW st \in AgentUpdateStatuses, UpdateJobState(v, i, st)
  PROVE  KeepJobs
<1>1. CASE UNCHANGED jobs
  BY <1>1, KeepUnchanged
<1>2. CASE /\ ~ReportIsDropped(v, i, st)
           /\ jobs[i].status \notin FinalJobStatuses
           /\ jobs' = [jobs EXCEPT ![i].status = st]
  <2> SUFFICES ASSUME NEW j \in Jobs PROVE KeepsToLifecycle(j)
    BY DEF KeepJobs
  <2>1. jobs \in [Jobs -> JobRow]
    BY DEF StorageTypeOK
  <2>2. CASE j = i
    <3>1. jobs[j].status # "none"
      BY <1>2, <2>2, StorageAssumption DEF ReportIsDropped, UnaddedAreNowhere
    <3>2. jobs[j].status \in {"Queued", "Scheduled", "Running"}
      BY <1>2, <2>1, <2>2, <3>1 DEF FinalJobStatuses, JobRow, JobStatuses
    <3>3. jobs'[j].status = st /\ jobs'[j].restarts = jobs[j].restarts
      BY <1>2, <2>1, <2>2 DEF JobRow
    <3>4. st \in {"Running", "Completed", "Cancelled", "Error"}
      BY DEF AgentUpdateStatuses
    <3> QED BY <3>2, <3>3, <3>4 DEF KeepsToLifecycle, Lifecycle!Successors
  <2>3. CASE j # i
    BY <1>2, <2>1, <2>3 DEF KeepsToLifecycle
  <2> QED BY <2>2, <2>3
<1> QED BY <1>1, <1>2 DEF UpdateJobState, storageVars

(***************************************************************************)
(* A commit schedules jobs that are Queued, or Running on a late report,   *)
(* since the plan is the newest and no job of it is final.                 *)
(***************************************************************************)
LEMMA KeepCommit ==
  ASSUME Inv, UnaddedAreNowhere, NEW b \in Backends, CommitPlanChange(b)
  PROVE  KeepJobs
<1>0. TypeOK /\ StorageTypeOK /\ SchedulerTypeOK
  BY DEF Inv, TypeOK
<1>1. CASE UNCHANGED jobs
  BY <1>1, KeepUnchanged
<1>2. ASSUME NEW c \in Assign(b), IsSchedulingRelevant(sched[b].plan),
             CheckConflicts(b, c), ApplyJobVmAssignments(b, c)
      PROVE  KeepJobs
  <2>1. sched[b].pc = "committing" /\ HasPlan(b)
    BY DEF CommitPlanChange, HasPlan
  <2>2. sched[b].plan \in DOMAIN plan
    BY <2>1 DEF Inv, PlansAreOwned
  <2>3. sched[b].plan = Len(plan)
    BY <1>0, <1>2, <2>2, NewestIsRelevant DEF Inv
  <2> SUFFICES ASSUME NEW j \in Jobs PROVE KeepsToLifecycle(j)
    BY DEF KeepJobs
  <2>4. jobs[j] \in JobRow
    BY <1>0 DEF StorageTypeOK
  <2>5. CASE j \in sched[b].queued
    <3>1. jobs[j].status # "Scheduled"
      BY <2>1, <2>3, <2>5 DEF Inv, SnapshotInv
    <3>2. jobs[j].status # "none"
      BY <2>5 DEF UnaddedAreNowhere
    <3>3. jobs[j].status \notin FinalJobStatuses
      BY <1>2, <2>5 DEF CheckConflicts
    <3>4. jobs[j].status \in {"Queued", "Running"}
      BY <2>4, <3>1, <3>2, <3>3 DEF FinalJobStatuses, JobRow, JobStatuses
    <3>5. jobs'[j] = [jobs[j] EXCEPT !.status = "Scheduled", !.vm = c.jobToVm[j]]
      BY <1>2, <2>5 DEF ApplyJobVmAssignments
    <3>6. jobs'[j].status = "Scheduled" /\ jobs'[j].restarts = jobs[j].restarts
      BY <2>4, <3>5 DEF JobRow
    <3> QED BY <3>4, <3>6 DEF KeepsToLifecycle, Lifecycle!Successors
  <2>6. CASE j \notin sched[b].queued
    BY <1>2, <2>6 DEF ApplyJobVmAssignments, KeepsToLifecycle
  <2> QED BY <2>5, <2>6
<1> QED BY <1>1, <1>2 DEF CommitPlanChange

----------------------------------------------------------------------------
(* Every step.                                                             *)

(***************************************************************************)
(* Every step of the service keeps every job to its life cycle.            *)
(***************************************************************************)
LEMMA KeepNext ==
  ASSUME Inv, UnaddedAreNowhere, [Next]_vars
  PROVE  KeepJobs
<1>0. StorageTypeOK
  BY DEF Inv, TypeOK
<1>1. CASE ClientStep
  <2>1. PICK t \in Tasks : AddTask(t) \/ CancelTask(t)
    BY <1>1 DEF ClientStep
  <2>2. CASE AddTask(t)
    <3> SUFFICES ASSUME NEW j \in Jobs PROVE KeepsToLifecycle(j)
      BY DEF KeepJobs
    <3>1. jobs[j] \in JobRow
      BY <1>0 DEF StorageTypeOK
    <3>2. CASE j \in t
      <4>1. jobs[j].status = "none" /\ jobs'[j] = [jobs[j] EXCEPT !.status = "Queued"]
        BY <2>2, <3>2 DEF AddTask
      <4>2. jobs'[j].status = "Queued" /\ jobs'[j].restarts = jobs[j].restarts
        BY <3>1, <4>1 DEF JobRow
      <4> QED BY <4>1, <4>2 DEF KeepsToLifecycle, Lifecycle!Successors
    <3>3. CASE j \notin t
      BY <2>2, <3>3 DEF AddTask, KeepsToLifecycle
    <3> QED BY <3>2, <3>3
  <2>3. CASE CancelTask(t)
    BY <1>0, <2>3, KeepCancelJobs DEF CancelTask
  <2> QED BY <2>1, <2>2, <2>3
<1>2. CASE AgentStep
  <2>1. ASSUME NEW v \in Vms, AgentPoll(v) PROVE KeepJobs
    BY <2>1, KeepUnchanged DEF AgentPoll, GetAssignedJobs
  <2>2. ASSUME NEW v \in Vms, NEW j \in Jobs, NEW st \in AgentStatuses,
               AgentReport(v, j, st)
        PROVE  KeepJobs
    BY <1>0, <2>2, ServiceAssumption, KeepUpdateJobState DEF AgentReport
  <2>3. ASSUME NEW v \in Vms, NEW j \in Jobs, AgentReportLost(v, j) PROVE KeepJobs
    BY <2>3, KeepUnchanged DEF AgentReportLost, storageVars
  <2> QED BY <1>2, <2>1, <2>2, <2>3 DEF AgentStep
<1>3. CASE MonitorStep
  <2>1. CASE HandleStaleAllocatingVms
    BY <1>0, <2>1, KeepUnchanged, KeepRestartJobs
       DEF HandleStaleAllocatingVms, RestartAllocatingVms, TerminateAllocatingVms,
           TerminateVmsWhere
  <2>2. CASE HandleInactiveAgents
    BY <1>0, <2>2, KeepRestartJobs
       DEF HandleInactiveAgents, TerminateVmsWithInactiveAgents
  <2>3. CASE HandleVmsWithoutAgents
    BY <1>0, <2>3, KeepRestartJobs
       DEF HandleVmsWithoutAgents, TerminateVmsWithoutAgents, TerminateVmsWhere
  <2>4. CASE CancelOverdueJobs
    BY <1>0, <2>4, KeepCancelJobs DEF CancelOverdueJobs, CancelTimedOutJobs
  <2> QED BY <1>3, <2>1, <2>2, <2>3, <2>4 DEF MonitorStep
<1>4. CASE SchedulerStep
  BY <1>4, KeepUnchanged, KeepCommit DEF SchedulerStep, storageVars
<1>5. CASE AllocatorStep
  <2>1. ASSUME NEW w \in AllocateThreads, AllocateStep(w) \/ AllocateAborted(w)
        PROVE  KeepJobs
    <3>1. CASE RollbackTerminate(w)
      BY <1>0, <3>1, KeepRestartJobs
         DEF RollbackTerminate, TerminateAllocatingVms, TerminateVmsWhere
    <3>2. CASE ~RollbackTerminate(w)
      BY <2>1, <3>2, KeepUnchanged
         DEF AllocateStep, AllocateAborted, FetchVmsToAllocate, GetVmsToAllocate,
             CreateInstance, StartInstance, SaveAllocation,
             SaveVmAllocationResult, AllocateBatchDone, RollbackRestart,
             RestartAllocatingVms, storageVars
    <3> QED BY <3>1, <3>2
  <2>2. ASSUME NEW w \in TerminateThreads, TerminateStep(w) \/ TerminateAborted(w)
        PROVE  KeepJobs
    BY <2>2, KeepUnchanged
       DEF TerminateStep, TerminateAborted, FetchVmsToTerminate, GetVmsToTerminate,
           TerminateInstance, SaveTermination, SaveVmTerminationResult,
           TerminateBatchDone, ReturnUnterminatedVms, storageVars
  <2>3. CASE \/ \E m \in MonitorThreads : GetAllocatedVms(m) \/ TerminateUntrackedVms(m)
             \/ \E v \in Vms : InstanceLost(v)
    BY <2>3, KeepUnchanged DEF GetAllocatedVms, TerminateUntrackedVms, InstanceLost
  <2> QED BY <1>5, <2>1, <2>2, <2>3 DEF AllocatorStep
<1>6. CASE UNCHANGED vars
  BY <1>6, KeepUnchanged DEF vars, storageVars
<1> QED BY <1>1, <1>2, <1>3, <1>4, <1>5, <1>6 DEF Next

(***************************************************************************)
(* A replica takes into its snapshot only jobs that getQueuedJobs_ found   *)
(* Queued, and a job that keeps to its life cycle is never un-added.       *)
(***************************************************************************)
LEMMA UnaddedNext ==
  ASSUME Inv, UnaddedAreNowhere, [Next]_vars
  PROVE  UnaddedAreNowhere'
<1>0. /\ \A b \in Backends : sched[b] \in Replica /\ sched[b].queued \subseteq Jobs
      /\ sched \in [Backends -> Replica]
      /\ IdleReplica.queued = {}
  BY DEF Inv, TypeOK, SchedulerTypeOK, Replica, IdleReplica
<1>1. \A j \in Jobs : KeepsToLifecycle(j)
  BY KeepNext DEF KeepJobs
<1>2. \A st : "none" \notin Lifecycle!Successors(st)
  BY DEF Lifecycle!Successors
<1>3. \A j \in Jobs : jobs'[j].status = "none" =>
                         jobs[j].status = "none" /\ jobs'[j].vm = jobs[j].vm
  BY <1>1, <1>2 DEF KeepsToLifecycle
<1>4. \A b \in Backends : \A j \in sched'[b].queued :
         j \in sched[b].queued \/ (j \in Jobs /\ jobs[j].status = "Queued")
  <2>1. CASE UNCHANGED sched
    BY <2>1
  <2>2. CASE SchedulerLocalStep
    <3>1. CASE Tick
      BY <3>1 DEF Tick
    <3>2. ASSUME NEW b \in Backends,
                 \/ LockAcquired(b) \/ LockLost(b) \/ BeginStart(b)
                 \/ StartScheduling(b) \/ GetQueuedJobs(b) \/ GetActiveVms(b)
                 \/ BeginCommit(b) \/ SchedulingFailed(b)
          PROVE  /\ \A c \in Backends : c # b => sched'[c] = sched[c]
                 /\ \A j \in sched'[b].queued :
                       j \in sched[b].queued \/ (j \in Jobs /\ jobs[j].status = "Queued")
      <4>1. CASE LockAcquired(b) \/ LockLost(b)
        BY <4>1 DEF LockAcquired, LockLost
      <4>2. CASE BeginStart(b)
        BY <1>0, <4>2 DEF BeginStart, Replica
      <4>3. CASE StartScheduling(b)
        BY <1>0, <4>3 DEF StartScheduling, Replica
      <4>4. CASE GetQueuedJobs(b)
        BY <1>0, <4>4 DEF GetQueuedJobs, Replica
      <4>5. CASE GetActiveVms(b)
        BY <1>0, <4>5 DEF GetActiveVms, Replica
      <4>6. CASE BeginCommit(b)
        BY <1>0, <4>6 DEF BeginCommit, Replica
      <4>7. CASE SchedulingFailed(b)
        BY <1>0, <4>7 DEF SchedulingFailed
      <4> QED BY <3>2, <4>1, <4>2, <4>3, <4>4, <4>5, <4>6, <4>7
    <3> QED BY <2>2, <3>1, <3>2 DEF SchedulerLocalStep
  <2>3. CASE \E b \in Backends : CommitPlanChange(b)
    BY <1>0, <2>3 DEF CommitPlanChange
  <2>4. UNCHANGED sched \/ SchedulerStep
    BY DEF Next, ClientStep, AgentStep, AgentPoll, AgentReport, AgentReportLost,
           MonitorStep, vars, schedulerVars
  <2> QED BY <2>1, <2>2, <2>3, <2>4 DEF SchedulerStep
<1>5. \A j \in Jobs : jobs'[j].status = "none" => jobs'[j].vm = NoVm
  BY <1>3 DEF UnaddedAreNowhere
<1>6. \A b \in Backends : \A j \in sched'[b].queued : jobs'[j].status # "none"
  BY <1>0, <1>3, <1>4 DEF UnaddedAreNowhere
<1> QED BY <1>5, <1>6 DEF UnaddedAreNowhere

(***************************************************************************)
(* UnaddedAreNowhere holds in every reachable state.                       *)
(***************************************************************************)
LEMMA UnaddedInvariance == Spec => []UnaddedAreNowhere
<1>1. Init => UnaddedAreNowhere
  BY DEF Init, StorageInit, SchedulerInit, NoJobRow, IdleReplica, UnaddedAreNowhere
<1>2. Inv /\ UnaddedAreNowhere /\ [Next]_vars => UnaddedAreNowhere'
  BY UnaddedNext
<1> QED BY <1>1, <1>2, Invariance, PTL DEF Spec

(***************************************************************************)
(* The service implements JobLifecycle, for any number of jobs, replicas,  *)
(* workers and agents: no interleaving of addTask, cancelTask,             *)
(* updateJobState, restartJobs and commitPlanChange takes a job off the    *)
(* life cycle, runs it on a free restart or revives it.                    *)
(***************************************************************************)
THEOREM LifecycleImplemented == Spec => ImplementsJobLifecycle
<1>1. Init => Lifecycle!Init
  BY DEF Init, StorageInit, NoJobRow, Lifecycle!Init
<1>2. Inv /\ UnaddedAreNowhere /\ [Next]_vars
         => [Lifecycle!Next]_<<[j \in Jobs |-> jobs[j].status],
                               [j \in Jobs |-> jobs[j].restarts]>>
  <2> SUFFICES ASSUME Inv, UnaddedAreNowhere, [Next]_vars PROVE Lifecycle!Next
    OBVIOUS
  <2> SUFFICES ASSUME NEW j \in Jobs
               PROVE  Lifecycle!Moves(j) \/ Lifecycle!Restarts(j) \/ Lifecycle!Stays(j)
    BY DEF Lifecycle!Next
  <2>1. KeepsToLifecycle(j)
    BY KeepNext DEF KeepJobs
  <2> QED BY <2>1 DEF KeepsToLifecycle, Lifecycle!Moves, Lifecycle!Restarts, Lifecycle!Stays
<1> QED BY <1>1, <1>2, Invariance, UnaddedInvariance, PTL
        DEF Spec, ImplementsJobLifecycle, Lifecycle!Spec

----------------------------------------------------------------------------
(* What getTaskState reports.                                              *)

(***************************************************************************)
(* getTaskState calls a task completed when it knows some of its jobs and  *)
(* all of these are final, Cancelling included.                            *)
(***************************************************************************)
LEMMA TaskCompletedMeans ==
  StorageTypeOK => \A t \in Tasks :
     TaskStatus(t) = "TASK_COMPLETED" <=>
        /\ \E j \in t : jobs[j].status # "none"
        /\ \A j \in t : jobs[j].status \in FinalJobStatuses \cup {"none"}
<1> SUFFICES ASSUME StorageTypeOK, NEW t \in Tasks
             PROVE  TaskStatus(t) = "TASK_COMPLETED" <=>
                       /\ \E j \in t : jobs[j].status # "none"
                       /\ \A j \in t : jobs[j].status \in FinalJobStatuses \cup {"none"}
  OBVIOUS
<1> DEFINE added == {i \in t : jobs[i].status # "none"}
           states == {JobStatusToProto(jobs[j].status) : j \in added}
<1>1. ASSUME NEW j \in t
      PROVE  jobs[j].status \in JobStatuses \cup {"none"}
  BY StorageAssumption DEF StorageTypeOK, JobRow
<1>2. ASSUME NEW j \in added
      PROVE  JobStatusToProto(jobs[j].status) \in {"JOB_RUNNING", "JOB_QUEUED"}
                <=> jobs[j].status \notin FinalJobStatuses
  BY <1>1 DEF JobStatusToProto, JobStatuses, FinalJobStatuses
<1>3. states = {} <=> ~ \E j \in t : jobs[j].status # "none"
  OBVIOUS
<1>4. ("JOB_RUNNING" \in states \/ "JOB_QUEUED" \in states)
         <=> ~ \A j \in t : jobs[j].status \in FinalJobStatuses \cup {"none"}
  BY <1>2
<1>5. TaskStatus(t) = "TASK_COMPLETED" <=>
         states # {} /\ ~("JOB_RUNNING" \in states \/ "JOB_QUEUED" \in states)
  <2> HIDE DEF added, states
  <2>1. TaskStatus(t) = CASE states = {} -> "NOT_FOUND"
          [] "JOB_RUNNING" \in states -> "TASK_RUNNING"
          [] "JOB_QUEUED" \in states \ {"JOB_RUNNING"} -> "TASK_QUEUED"
          [] OTHER -> "TASK_COMPLETED"
    BY DEF TaskStatus, states, added
  <2>2. CASE states = {}
    BY <2>1, <2>2
  <2>3. CASE "JOB_RUNNING" \in states
    BY <2>1, <2>3
  <2> QED BY <2>1, <2>2, <2>3
<1> QED BY <1>3, <1>4, <1>5

(***************************************************************************)
(* A job enters the table with its whole task, by addTask and in no other  *)
(* way: no report, restart, cancellation or plan finds a row that was      *)
(* never added.                                                            *)
(***************************************************************************)
LEMMA AddedWithItsTask ==
  ASSUME Inv, UnaddedAreNowhere, [Next]_vars, NEW j \in Jobs,
         jobs[j].status = "none", jobs'[j].status # "none"
  PROVE  \E t \in Tasks : j \in t /\ \A i \in t : jobs[i].status = "none"
<1>0. StorageTypeOK /\ jobs[j].vm = NoVm /\ jobs[j].vm \notin Vms
  BY StorageAssumption DEF Inv, TypeOK, UnaddedAreNowhere
<1>1. ~UNCHANGED jobs
  OBVIOUS
<1>2. ASSUME NEW S \in SUBSET UnfinishedJobs, CancelJobs(S) PROVE FALSE
  BY <1>2 DEF CancelJobs, UnfinishedJobs
<1>3. ASSUME NEW S, NEW st \in {"Scheduled", "Running"}, jobs' = RestartJobs(S, st)
      PROVE  FALSE
  BY <1>3 DEF RestartJobs
<1>4. CASE ClientStep
  <2>1. PICK t \in Tasks : AddTask(t) \/ CancelTask(t)
    BY <1>4 DEF ClientStep
  <2>2. AddTask(t)
    BY <1>2, <2>1 DEF CancelTask
  <2> QED BY <2>2 DEF AddTask
<1>5. CASE AgentStep
  <2>1. ASSUME NEW v \in Vms, AgentPoll(v) PROVE FALSE
    BY <1>1, <2>1 DEF AgentPoll, GetAssignedJobs
  <2>2. ASSUME NEW v \in Vms, NEW i \in Jobs, NEW st, AgentReport(v, i, st)
        PROVE  FALSE
    <3>1. jobs' = [jobs EXCEPT ![i].status = st] /\ jobs[i].vm = v
      BY <1>1, <2>2 DEF AgentReport, UpdateJobState, ReportIsDropped, storageVars
    <3> QED BY <1>0, <3>1 DEF StorageTypeOK
  <2>3. ASSUME NEW v \in Vms, NEW i \in Jobs, AgentReportLost(v, i) PROVE FALSE
    BY <1>1, <2>3 DEF AgentReportLost, storageVars
  <2> QED BY <1>5, <2>1, <2>2, <2>3 DEF AgentStep
<1>6. CASE MonitorStep
  BY <1>1, <1>2, <1>3, <1>6
     DEF MonitorStep, HandleStaleAllocatingVms, RestartAllocatingVms,
         TerminateAllocatingVms, TerminateVmsWhere, HandleInactiveAgents,
         TerminateVmsWithInactiveAgents, HandleVmsWithoutAgents,
         TerminateVmsWithoutAgents, CancelOverdueJobs, CancelTimedOutJobs
<1>7. CASE SchedulerStep
  <2>1. PICK b \in Backends : \E c \in Assign(b) : ApplyJobVmAssignments(b, c)
    BY <1>1, <1>7 DEF SchedulerStep, CommitPlanChange, storageVars
  <2>2. j \in sched[b].queued
    BY <2>1 DEF ApplyJobVmAssignments
  <2> QED BY <2>2 DEF UnaddedAreNowhere
<1>8. CASE AllocatorStep
  <2>1. \E S : jobs' = RestartJobs(S, "Scheduled")
    BY <1>1, <1>8
       DEF AllocatorStep, AllocateStep, AllocateAborted, FetchVmsToAllocate,
           GetVmsToAllocate, CreateInstance, StartInstance, SaveAllocation,
           SaveVmAllocationResult, AllocateBatchDone, RollbackRestart,
           RestartAllocatingVms, RollbackTerminate, TerminateAllocatingVms,
           TerminateVmsWhere, TerminateStep, TerminateAborted, FetchVmsToTerminate,
           GetVmsToTerminate, TerminateInstance, SaveTermination,
           SaveVmTerminationResult, TerminateBatchDone, ReturnUnterminatedVms,
           GetAllocatedVms, TerminateUntrackedVms, InstanceLost, storageVars
  <2> QED BY <1>3, <2>1
<1> QED BY <1>1, <1>4, <1>5, <1>6, <1>7, <1>8 DEF Next, vars, storageVars

(***************************************************************************)
(* Once getTaskState has told a user that a task is completed it says so   *)
(* for ever, for tasks of any size: no job of the task is taken back, and  *)
(* none is added to it.                                                    *)
(***************************************************************************)
THEOREM TaskStaysCompleted == Spec => CompletedTaskStaysCompleted
<1>0. StorageTypeOK' => (\A t \in Tasks :
         TaskStatus(t) = "TASK_COMPLETED" <=>
            /\ \E j \in t : jobs[j].status # "none"
            /\ \A j \in t : jobs[j].status \in FinalJobStatuses \cup {"none"})'
  BY TaskCompletedMeans, PTL
<1>1. ASSUME Inv, Inv', UnaddedAreNowhere, [Next]_vars, NEW t \in Tasks,
             TaskStatus(t) = "TASK_COMPLETED"
      PROVE  TaskStatus(t)' = "TASK_COMPLETED"
  <2>0. StorageTypeOK /\ StorageTypeOK' /\ t \subseteq Jobs
    BY <1>1, StorageAssumption DEF Inv, TypeOK
  <2>1. /\ \E j \in t : jobs[j].status # "none"
        /\ \A j \in t : jobs[j].status \in FinalJobStatuses \cup {"none"}
    BY <1>1, <2>0, TaskCompletedMeans
  <2>2. ASSUME NEW j \in t, jobs[j].status \in FinalJobStatuses
        PROVE  jobs'[j].status \in FinalJobStatuses
    <3>1. KeepsToLifecycle(j)
      BY <1>1, <2>0, KeepNext DEF KeepJobs
    <3> QED BY <2>2, <3>1
            DEF KeepsToLifecycle, Lifecycle!Successors, FinalJobStatuses
  <2>3. ASSUME NEW j \in t, jobs[j].status = "none"
        PROVE  jobs'[j].status = "none"
    <3> SUFFICES ASSUME jobs'[j].status # "none" PROVE FALSE
      OBVIOUS
    <3>1. PICK s \in Tasks : j \in s /\ \A i \in s : jobs[i].status = "none"
      BY <1>1, <2>0, <2>3, AddedWithItsTask
    <3>2. s = t
      BY <3>1, StorageAssumption
    <3> QED BY <2>1, <3>1, <3>2
  <2>4. /\ \E j \in t : jobs'[j].status # "none"
        /\ \A j \in t : jobs'[j].status \in FinalJobStatuses \cup {"none"}
    BY <2>1, <2>2, <2>3 DEF FinalJobStatuses
  <2> QED BY <1>0, <2>0, <2>4
<1>2. Inv /\ Inv' /\ UnaddedAreNowhere /\ [Next]_vars =>
         [\A t \in Tasks : TaskStatus(t) = "TASK_COMPLETED"
                              => TaskStatus(t)' = "TASK_COMPLETED"]_vars
  BY <1>1
<1> QED BY <1>2, Invariance, UnaddedInvariance, PTL
        DEF Spec, CompletedTaskStaysCompleted

----------------------------------------------------------------------------
(* How many VMs take a job on.                                             *)

\* The VMs whose agents have taken job j on.
Launched(j) == {v \in Vms : agent[v][j] # "unknown"}

\* Replica b has read its queued jobs, and its plan is the newest.
PlansNow(b) ==
    /\ sched[b].plan = Len(plan)
    /\ sched[b].pc \in {"readingVms", "assigned", "committing"}

(***************************************************************************)
(* The VM that jobs.vm_id names has not been charged for yet; the others   *)
(* have.  A job that waits, in the table or in the snapshot that will be   *)
(* committed, has been charged for all of them: that covers a Running job  *)
(* of a snapshot too, which a late report took out of the queue, because   *)
(* the agent that sent the report had taken the job on before.             *)
(***************************************************************************)
LaunchInv ==
    /\ \A j \in Jobs : IsFiniteSet(Launched(j))
    /\ \A j \in Jobs : jobs[j].status = "Running" => jobs[j].vm \in Launched(j)
    /\ \A j \in Jobs : Cardinality(Launched(j) \ {jobs[j].vm}) <= jobs[j].restarts
    /\ \A j \in Jobs : jobs[j].status \in {"none", "Queued"}
                          => Cardinality(Launched(j)) <= jobs[j].restarts
    /\ \A b \in Backends : PlansNow(b) => \A j \in sched[b].queued :
          Cardinality(Launched(j)) <= jobs[j].restarts

(***************************************************************************)
(* An agent takes on only jobs of its own VM that are Scheduled or Running *)
(* (getAssignedJobs), and no other step changes what agents have taken on. *)
(***************************************************************************)
LEMMA LaunchedStep ==
  ASSUME TypeOK, [Next]_vars, NEW j \in Jobs
  PROVE  \/ Launched(j)' = Launched(j)
         \/ /\ jobs[j].status \in {"Scheduled", "Running"}
            /\ Launched(j)' = Launched(j) \cup {jobs[j].vm}
            /\ UNCHANGED <<jobs, schedulerVars>>
<1>0. /\ agent \in [Vms -> [Jobs -> {"unknown", "held", "done"}]]
      /\ jobs[j] \in JobRow
  BY DEF TypeOK, StorageTypeOK
<1>1. CASE UNCHANGED agent
  BY <1>1 DEF Launched
<1>2. ASSUME NEW v \in Vms, AgentPoll(v)
      PROVE  \/ Launched(j)' = Launched(j)
             \/ /\ jobs[j].status \in {"Scheduled", "Running"}
                /\ Launched(j)' = Launched(j) \cup {jobs[j].vm}
                /\ UNCHANGED <<jobs, schedulerVars>>
  <2> DEFINE takes == /\ j \in AssignedJobs(v) /\ jobs[j].status # "Cancelling"
                      /\ agent[v][j] = "unknown"
  <2>1. /\ agent'[v][j] = IF takes THEN "held" ELSE agent[v][j]
        /\ \A u \in Vms : u # v => agent'[u][j] = agent[u][j]
        /\ UNCHANGED <<jobs, schedulerVars>>
    BY <1>0, <1>2 DEF AgentPoll, GetAssignedJobs
  <2>2. CASE takes
    <3>1. jobs[j].vm = v /\ jobs[j].status \in {"Scheduled", "Running"}
      BY <2>2 DEF AssignedJobs, JobsOn, AssignedJobStatuses
    <3>2. Launched(j)' = Launched(j) \cup {v}
      BY <2>1, <2>2 DEF Launched
    <3> QED BY <2>1, <3>1, <3>2
  <2>3. CASE ~takes
    BY <2>1, <2>3 DEF Launched
  <2> QED BY <2>2, <2>3
<1>3. ASSUME NEW v \in Vms, NEW i \in Jobs, agent[v][i] = "held",
             NEW x \in {"held", "done"}, agent' = [agent EXCEPT ![v][i] = x]
      PROVE  Launched(j)' = Launched(j)
  <2>1. \A u \in Vms : agent'[u][j] = IF u = v /\ j = i THEN x ELSE agent[u][j]
    BY <1>0, <1>3
  <2>2. \A u \in Vms : agent'[u][j] = "unknown" <=> agent[u][j] = "unknown"
    BY <1>3, <2>1
  <2> QED BY <2>2 DEF Launched
<1>4. CASE AgentStep
  <2>1. ASSUME NEW v \in Vms, NEW i \in Jobs, NEW st, AgentReport(v, i, st)
        PROVE  Launched(j)' = Launched(j)
    BY <1>3, <2>1 DEF AgentReport
  <2>2. ASSUME NEW v \in Vms, NEW i \in Jobs, AgentReportLost(v, i)
        PROVE  Launched(j)' = Launched(j)
    BY <1>3, <2>2 DEF AgentReportLost
  <2> QED BY <1>2, <1>4, <2>1, <2>2 DEF AgentStep
<1> QED BY <1>1, <1>4 DEF Next, ClientStep, MonitorStep, vars

(***************************************************************************)
(* A job becomes Running by the report of an agent that has taken it on.   *)
(***************************************************************************)
LEMMA RunningByReport ==
  ASSUME Inv, [Next]_vars, NEW j \in Jobs,
         jobs[j].status # "Running", jobs'[j].status = "Running"
  PROVE  jobs[j].vm \in Launched(j) /\ jobs'[j].vm = jobs[j].vm
<1>0. StorageTypeOK /\ jobs[j] \in JobRow
  BY DEF Inv, TypeOK, StorageTypeOK
<1>1. ~UNCHANGED jobs
  OBVIOUS
<1>2. ASSUME NEW S, CancelJobs(S) PROVE FALSE
  <2>1. jobs'[j].status \in {jobs[j].status, "Cancelled", "Cancelling"}
    BY <1>0, <1>2 DEF CancelJobs, JobRow
  <2> QED BY <2>1
<1>3. ASSUME NEW S, NEW st, jobs' = RestartJobs(S, st) PROVE FALSE
  <2>1. jobs'[j].status \in {jobs[j].status, "Queued", "InternalError"}
    BY <1>0, <1>3 DEF RestartJobs, JobRow
  <2> QED BY <2>1
<1>4. CASE ClientStep
  <2>1. PICK t \in Tasks : AddTask(t)
    BY <1>2, <1>4 DEF ClientStep, CancelTask
  <2>2. jobs'[j].status \in {jobs[j].status, "Queued"}
    BY <1>0, <2>1 DEF AddTask, JobRow
  <2> QED BY <2>2
<1>5. CASE AgentStep
  <2>1. PICK v \in Vms : \E i \in Jobs : \E st \in AgentStatuses : AgentReport(v, i, st)
    BY <1>1, <1>5 DEF AgentStep, AgentPoll, GetAssignedJobs, AgentReportLost, storageVars
  <2>2. PICK i \in Jobs : \E st \in AgentStatuses : AgentReport(v, i, st)
    BY <2>1
  <2>3. PICK st \in AgentStatuses : AgentReport(v, i, st)
    BY <2>2
  <2>4. jobs' = [jobs EXCEPT ![i].status = st] /\ jobs[i].vm = v /\ agent[v][i] = "held"
    BY <1>1, <2>3 DEF AgentReport, UpdateJobState, ReportIsDropped, storageVars
  <2>5. i = j
    BY <1>0, <2>4 DEF StorageTypeOK
  <2>6. jobs'[j].vm = jobs[j].vm
    BY <1>0, <2>4, <2>5 DEF StorageTypeOK, JobRow
  <2> QED BY <2>4, <2>5, <2>6 DEF Launched
<1>6. CASE MonitorStep
  BY <1>1, <1>2, <1>3, <1>6
     DEF MonitorStep, HandleStaleAllocatingVms, RestartAllocatingVms,
         TerminateAllocatingVms, TerminateVmsWhere, HandleInactiveAgents,
         TerminateVmsWithInactiveAgents, HandleVmsWithoutAgents,
         TerminateVmsWithoutAgents, CancelOverdueJobs, CancelTimedOutJobs
<1>7. CASE SchedulerStep
  <2>1. PICK b \in Backends : \E c \in Assign(b) : ApplyJobVmAssignments(b, c)
    BY <1>1, <1>7 DEF SchedulerStep, CommitPlanChange, storageVars
  <2>2. PICK c \in Assign(b) : ApplyJobVmAssignments(b, c)
    BY <2>1
  <2>3. jobs'[j].status \in {jobs[j].status, "Scheduled"}
    BY <1>0, <2>2 DEF ApplyJobVmAssignments, JobRow
  <2> QED BY <2>3
<1>8. CASE AllocatorStep
  <2>1. \E S : jobs' = RestartJobs(S, "Scheduled")
    BY <1>1, <1>8
       DEF AllocatorStep, AllocateStep, AllocateAborted, FetchVmsToAllocate,
           GetVmsToAllocate, CreateInstance, StartInstance, SaveAllocation,
           SaveVmAllocationResult, AllocateBatchDone, RollbackRestart,
           RestartAllocatingVms, RollbackTerminate, TerminateAllocatingVms,
           TerminateVmsWhere, TerminateStep, TerminateAborted, FetchVmsToTerminate,
           GetVmsToTerminate, TerminateInstance, SaveTermination,
           SaveVmTerminationResult, TerminateBatchDone, ReturnUnterminatedVms,
           GetAllocatedVms, TerminateUntrackedVms, InstanceLost, storageVars
  <2> QED BY <1>3, <2>1
<1> QED BY <1>1, <1>4, <1>5, <1>6, <1>7, <1>8 DEF Next, vars, storageVars

(***************************************************************************)
(* The snapshot of the newest plan holds what it held before, or the jobs  *)
(* that getQueuedJobs_ finds Queued in this step.                          *)
(***************************************************************************)
LEMMA NewestSnapshotStep ==
  ASSUME Inv, [Next]_vars, NEW b \in Backends, PlansNow(b)', NEW j \in sched'[b].queued
  PROVE  \/ /\ PlansNow(b) /\ j \in sched[b].queued
            /\ QuietJobs
         \/ j \in Jobs /\ jobs[j].status = "Queued" /\ UNCHANGED <<jobs, agent>>
<1>0. /\ PlansAreOwned /\ TypeOK /\ StorageTypeOK
      /\ sched \in [Backends -> Replica]
      /\ sched[b] \in Replica
      /\ plan \in Seq(Nat) /\ Len(plan) \in Nat
      /\ DOMAIN plan = 1 .. Len(plan)
      /\ IdleReplica.pc = "idle"
  BY DEF Inv, TypeOK, SchedulerTypeOK, IdleReplica
<1>1. CASE UNCHANGED <<sched, plan>> /\ QuietJobs
  BY <1>1 DEF PlansNow
<1>2. CASE SchedulerLocalStep /\ UNCHANGED <<storageVars, agent>>
  <2>0. QuietJobs /\ UNCHANGED <<jobs, agent>>
    BY <1>0, <1>2, QuietUnchanged DEF storageVars
  <2>1. CASE UNCHANGED <<sched, plan>>
    BY <1>1, <2>0, <2>1
  <2>2. ASSUME NEW a \in Backends,
               \/ BeginStart(a) \/ StartScheduling(a) \/ GetQueuedJobs(a)
               \/ GetActiveVms(a) \/ BeginCommit(a) \/ SchedulingFailed(a)
        PROVE  \/ PlansNow(b) /\ j \in sched[b].queued
               \/ j \in Jobs /\ jobs[j].status = "Queued"
    <3>1. \A c \in Backends : c # a => sched'[c] = sched[c]
      BY <1>0, <2>2 DEF BeginStart, StartScheduling, GetQueuedJobs, GetActiveVms,
                        BeginCommit, SchedulingFailed
    <3>2. CASE plan' # plan
      <4>1. /\ Len(plan') = Len(plan) + 1
            /\ sched'[a].pc = "readingJobs"
        BY <1>0, <2>2, <3>2
           DEF BeginStart, StartScheduling, GetQueuedJobs, GetActiveVms,
               BeginCommit, SchedulingFailed, Replica
      <4>2. b # a /\ HasPlan(b) /\ sched[b].plan = Len(plan) + 1
        BY <3>1, <4>1 DEF PlansNow, HasPlan
      <4> QED BY <1>0, <4>2 DEF PlansAreOwned
    <3>3. CASE plan' = plan /\ b # a
      BY <3>1, <3>3 DEF PlansNow
    <3>4. CASE plan' = plan /\ b = a
      <4>1. CASE BeginStart(a) \/ StartScheduling(a) \/ SchedulingFailed(a)
        <5>1. sched'[a].pc \in {"starting", "readingJobs", "idle"}
          BY <1>0, <3>4, <4>1 DEF BeginStart, StartScheduling, SchedulingFailed, Replica
        <5> QED BY <3>4, <5>1 DEF PlansNow
      <4>2. CASE GetQueuedJobs(a)
        <5>1. sched'[a].queued = {i \in Jobs : jobs[i].status = "Queued"}
          BY <1>0, <3>4, <4>2 DEF GetQueuedJobs, Replica
        <5> QED BY <3>4, <5>1
      <4>3. CASE GetActiveVms(a) \/ BeginCommit(a)
        <5>1. /\ sched'[a].plan = sched[a].plan /\ sched'[a].queued = sched[a].queued
              /\ sched[a].pc \in {"readingVms", "assigned"}
          BY <1>0, <3>4, <4>3 DEF GetActiveVms, BeginCommit, Replica
        <5> QED BY <3>4, <5>1 DEF PlansNow
      <4> QED BY <2>2, <4>1, <4>2, <4>3
    <3> QED BY <3>2, <3>3, <3>4
  <2> QED BY <1>2, <2>0, <2>1, <2>2 DEF SchedulerLocalStep, Tick, LockAcquired, LockLost
<1>3. ASSUME NEW a \in Backends, CommitPlanChange(a)
      PROVE  PlansNow(b) /\ j \in sched[b].queued /\ QuietJobs
  <2>1. /\ sched[a].pc = "committing" /\ HasPlan(a)
        /\ sched'[a] = IdleReplica
        /\ \A c \in Backends : c # a => sched'[c] = sched[c]
    BY <1>0, <1>3 DEF CommitPlanChange, HasPlan
  <2>2. Len(plan') = Len(plan)
    BY <1>0, <1>3 DEF CommitPlanChange, RefreshPlanActivityTs
  <2>3. b # a /\ PlansNow(b) /\ sched'[b] = sched[b]
    BY <1>0, <2>1, <2>2 DEF PlansNow
  <2>4. sched[a].plan # Len(plan) /\ sched[a].plan \in DOMAIN plan
    BY <1>0, <2>1, <2>3 DEF PlansAreOwned, PlansNow, HasPlan
  <2>5. ~IsSchedulingRelevant(sched[a].plan)
    BY <2>4, NewestIsRelevant DEF Inv, TypeOK
  <2>6. UNCHANGED jobs
    BY <1>3, <2>5 DEF CommitPlanChange
  <2> QED BY <1>0, <2>3, <2>6, QuietUnchanged
<1>4. CASE UNCHANGED schedulerVars
  <2>1. CASE QuietJobs
    BY <1>1, <1>4, <2>1 DEF schedulerVars
  <2>2. CASE \E a \in Backends : CommitPlanChange(a)
    BY <1>3, <2>2
  <2> QED BY <2>1, <2>2, QuietOrCommit
<1>5. CASE SchedulerStep /\ UNCHANGED agent
  BY <1>2, <1>3, <1>5 DEF SchedulerStep
<1> QED BY <1>4, <1>5 DEF Next, ClientStep, AgentStep, AgentPoll, AgentReport,
                          AgentReportLost, MonitorStep, vars

(***************************************************************************)
(* jobs.vm_id is changed by commits of the newest plan only.               *)
(***************************************************************************)
LEMMA MovedByCommit ==
  ASSUME Inv, [Next]_vars, NEW j \in Jobs, jobs'[j].vm # jobs[j].vm
  PROVE  /\ jobs'[j].status = "Scheduled"
         /\ \E b \in Backends : PlansNow(b) /\ j \in sched[b].queued
<1>1. ~QuietJobs /\ jobs[j] \in JobRow
  BY DEF QuietJobs, Inv, TypeOK, StorageTypeOK
<1>2. PICK b \in Backends : CommitPlanChange(b) /\ ~UNCHANGED jobs
  BY <1>1, QuietOrCommit
<1>3. PICK c \in Assign(b) : /\ IsSchedulingRelevant(sched[b].plan)
                             /\ ApplyJobVmAssignments(b, c)
  BY <1>2 DEF CommitPlanChange
<1>4. sched[b].pc = "committing" /\ sched[b].plan \in DOMAIN plan
  BY <1>2 DEF CommitPlanChange, Inv, PlansAreOwned, HasPlan
<1>5. PlansNow(b)
  BY <1>3, <1>4, NewestIsRelevant DEF Inv, TypeOK, PlansNow
<1>6. j \in sched[b].queued
  BY <1>3 DEF ApplyJobVmAssignments
<1>7. jobs'[j].status = "Scheduled"
  BY <1>1, <1>3, <1>6 DEF ApplyJobVmAssignments, JobRow
<1> QED BY <1>5, <1>6, <1>7

(***************************************************************************)
(* One VM more, or one less, in the set of VMs that took a job on.         *)
(***************************************************************************)
LEMMA OneVmMore ==
  ASSUME NEW S, IsFiniteSet(S), NEW v, NEW n \in Nat
  PROVE  /\ IsFiniteSet(S \cup {v})
         /\ (S \cup {v}) \ {v} = S \ {v}
         /\ Cardinality(S \ {v}) <= n => Cardinality(S) <= n + 1
         /\ Cardinality(S) <= n => Cardinality(S \ {v}) <= n
<1>1. IsFiniteSet(S \cup {v}) /\ Cardinality(S) \in Nat
  BY FS_AddElement, FS_CardinalityType
<1>2. Cardinality(S \ {v}) = IF v \in S THEN Cardinality(S) - 1 ELSE Cardinality(S)
  BY FS_RemoveElement
<1> QED BY <1>1, <1>2

(***************************************************************************)
(* Every step keeps the count: a restart charges for the VM of the job, a  *)
(* commit moves a job that has been charged for every VM so far, and a     *)
(* poll adds the one VM that is not charged for.                           *)
(***************************************************************************)
LEMMA LaunchNext ==
  ASSUME Inv, UnaddedAreNowhere, LaunchInv, [Next]_vars
  PROVE  LaunchInv'
<1>0. /\ TypeOK /\ \A j \in Jobs : jobs[j] \in JobRow /\ jobs[j].restarts \in Nat
      /\ \A b \in Backends : sched[b].queued \subseteq Jobs
  BY StorageAssumption
     DEF Inv, TypeOK, StorageTypeOK, SchedulerTypeOK, Replica, JobRow
<1>1. ASSUME NEW j \in Jobs
      PROVE  /\ IsFiniteSet(Launched(j))
             /\ jobs[j].restarts <= jobs'[j].restarts /\ jobs'[j].restarts \in Nat
             /\ \/ Launched(j)' = Launched(j)
                \/ /\ jobs[j].status \in {"Scheduled", "Running"}
                   /\ Launched(j)' = Launched(j) \cup {jobs[j].vm}
                   /\ UNCHANGED <<jobs, schedulerVars>>
             /\ jobs'[j].vm # jobs[j].vm =>
                   /\ Launched(j)' = Launched(j)
                   /\ jobs'[j].status = "Scheduled"
                   /\ Cardinality(Launched(j)) <= jobs[j].restarts
  <2>1. IsFiniteSet(Launched(j))
    BY DEF LaunchInv
  <2>2. KeepsToLifecycle(j)
    BY KeepNext DEF KeepJobs
  <2>3. jobs[j].restarts <= jobs'[j].restarts /\ jobs'[j].restarts \in Nat
    BY <1>0, <2>2 DEF KeepsToLifecycle
  <2>4. \/ Launched(j)' = Launched(j)
        \/ /\ jobs[j].status \in {"Scheduled", "Running"}
           /\ Launched(j)' = Launched(j) \cup {jobs[j].vm}
           /\ UNCHANGED <<jobs, schedulerVars>>
    BY <1>0, LaunchedStep
  <2>5. ASSUME jobs'[j].vm # jobs[j].vm
        PROVE  /\ Launched(j)' = Launched(j)
               /\ jobs'[j].status = "Scheduled"
               /\ Cardinality(Launched(j)) <= jobs[j].restarts
    <3>1. Launched(j)' = Launched(j)
      BY <2>4, <2>5
    <3> QED BY <2>5, <3>1, MovedByCommit DEF LaunchInv
  <2> QED BY <2>1, <2>3, <2>4, <2>5
<1>2. \A j \in Jobs : IsFiniteSet(Launched(j)')
  BY <1>1, FS_AddElement
<1>3. ASSUME NEW j \in Jobs, jobs'[j].status = "Running"
      PROVE  jobs'[j].vm \in Launched(j)'
  <2>1. jobs'[j].vm = jobs[j].vm /\ Launched(j) \subseteq Launched(j)'
    BY <1>1, <1>3
  <2>2. CASE jobs[j].status = "Running"
    BY <2>1, <2>2 DEF LaunchInv
  <2>3. CASE jobs[j].status # "Running"
    BY <1>3, <2>1, <2>3, RunningByReport
  <2> QED BY <2>2, <2>3
<1>4. ASSUME NEW j \in Jobs
      PROVE  Cardinality(Launched(j)' \ {jobs'[j].vm}) <= jobs'[j].restarts
  <2>0. Cardinality(Launched(j) \ {jobs[j].vm}) <= jobs[j].restarts
    BY DEF LaunchInv
  <2>1. IsFiniteSet(Launched(j) \ {jobs[j].vm})
        /\ Cardinality(Launched(j) \ {jobs[j].vm}) \in Nat
        /\ Cardinality(Launched(j)) \in Nat
        /\ IsFiniteSet(Launched(j) \ {jobs'[j].vm})
        /\ Cardinality(Launched(j) \ {jobs'[j].vm}) \in Nat
    BY <1>1, FS_RemoveElement, FS_CardinalityType
  <2>2. CASE jobs'[j].vm # jobs[j].vm
    <3>1. Cardinality(Launched(j) \ {jobs'[j].vm}) <= jobs[j].restarts
      BY <1>0, <1>1, <2>2, OneVmMore
    <3>2. Launched(j)' \ {jobs'[j].vm} = Launched(j) \ {jobs'[j].vm}
      BY <1>1, <2>2
    <3>3. jobs[j].restarts \in Nat /\ jobs'[j].restarts \in Nat
          /\ jobs[j].restarts <= jobs'[j].restarts
      BY <1>0, <1>1
    <3> QED BY <2>1, <3>1, <3>2, <3>3
  <2>3. CASE jobs'[j].vm = jobs[j].vm
    <3>1. Launched(j)' \ {jobs'[j].vm} = Launched(j) \ {jobs[j].vm}
      BY <1>1, <2>3
    <3>2. jobs[j].restarts \in Nat /\ jobs'[j].restarts \in Nat
          /\ jobs[j].restarts <= jobs'[j].restarts
      BY <1>0, <1>1
    <3> QED BY <2>0, <2>1, <3>1, <3>2
  <2> QED BY <2>2, <2>3
<1>5. ASSUME NEW j \in Jobs, jobs'[j].status \in {"none", "Queued"}
      PROVE  Cardinality(Launched(j)') <= jobs'[j].restarts
  <2>1. Launched(j)' = Launched(j)
    BY <1>1, <1>5
  <2>2. KeepsToLifecycle(j)
    BY KeepNext DEF KeepJobs
  <2>3. CASE jobs[j].status \in {"none", "Queued"}
    <3>1. Cardinality(Launched(j)) <= jobs[j].restarts
      BY <2>3 DEF LaunchInv
    <3>2. Cardinality(Launched(j)) \in Nat
      BY <1>1, FS_CardinalityType
    <3> QED BY <1>0, <1>1, <2>1, <3>1, <3>2
  <2>4. CASE jobs[j].status \notin {"none", "Queued"}
    <3>1. jobs'[j].restarts = jobs[j].restarts + 1
      BY <1>5, <2>2, <2>4 DEF KeepsToLifecycle, Lifecycle!Successors
    <3>2. Cardinality(Launched(j) \ {jobs[j].vm}) <= jobs[j].restarts
      BY DEF LaunchInv
    <3>3. Cardinality(Launched(j)) <= jobs[j].restarts + 1
      BY <1>0, <1>1, <3>2, OneVmMore
    <3> QED BY <2>1, <3>1, <3>3
  <2> QED BY <2>3, <2>4
<1>6. ASSUME NEW b \in Backends, PlansNow(b)', NEW j \in sched'[b].queued
      PROVE  Cardinality(Launched(j)') <= jobs'[j].restarts
  <2>1. CASE PlansNow(b) /\ j \in sched[b].queued /\ QuietJobs
    <3>1. j \in Jobs /\ Cardinality(Launched(j)) <= jobs[j].restarts
      BY <1>0, <2>1 DEF LaunchInv
    <3>2. Launched(j)' = Launched(j)
      <4>1. jobs[j].status # "Scheduled"
        BY <2>1 DEF Inv, SnapshotInv, PlansNow
      <4>2. jobs[j].status = "Running" => jobs[j].vm \in Launched(j)
        BY <3>1 DEF LaunchInv
      <4> QED BY <1>1, <3>1, <4>1, <4>2
    <3>3. Cardinality(Launched(j)) \in Nat
      BY <1>1, <3>1, FS_CardinalityType
    <3> QED BY <1>0, <1>1, <3>1, <3>2, <3>3
  <2>2. CASE j \in Jobs /\ jobs[j].status = "Queued" /\ UNCHANGED <<jobs, agent>>
    <3>1. Cardinality(Launched(j)) <= jobs[j].restarts
      BY <2>2 DEF LaunchInv
    <3>2. Launched(j)' = Launched(j)
      BY <2>2 DEF Launched
    <3> QED BY <2>2, <3>1, <3>2
  <2> QED BY <1>6, <2>1, <2>2, NewestSnapshotStep
<1> QED BY <1>2, <1>3, <1>4, <1>5, <1>6 DEF LaunchInv

(***************************************************************************)
(* However plans, restarts, late reports and terminations interleave, a    *)
(* job is taken on by at most one VM more than the restarts charged to it, *)
(* hence by at most jobRestartAttemptCount + 1 VMs in its life, for any    *)
(* number of VMs, replicas and workers, and although agents that were      *)
(* given up on still report.                                               *)
(***************************************************************************)
THEOREM LaunchesCounted == Spec => []LaunchesAreCounted
<1>1. Init => LaunchInv
  <2> SUFFICES ASSUME Init PROVE LaunchInv
    OBVIOUS
  <2>1. \A j \in Jobs : Launched(j) = {}
    BY DEF Init, Launched
  <2>2. \A j \in Jobs : Launched(j) \ {jobs[j].vm} = {}
    BY <2>1
  <2>3. \A j \in Jobs : jobs[j].status = "none" /\ jobs[j].restarts = 0
    BY DEF Init, StorageInit, NoJobRow
  <2>4. \A b \in Backends : sched[b].queued = {}
    BY DEF Init, SchedulerInit, IdleReplica
  <2>5. IsFiniteSet({}) /\ Cardinality({}) = 0
    BY FS_EmptySet
  <2>6. \A j \in Jobs : Cardinality(Launched(j)) <= jobs[j].restarts
                      /\ Cardinality(Launched(j) \ {jobs[j].vm}) <= jobs[j].restarts
    BY <2>1, <2>2, <2>3, <2>5
  <2> QED BY <2>1, <2>3, <2>4, <2>5, <2>6 DEF LaunchInv
<1>2. Inv /\ UnaddedAreNowhere /\ LaunchInv /\ [Next]_vars => LaunchInv'
  BY LaunchNext
<1>3. Inv /\ LaunchInv => LaunchesAreCounted
  <2> SUFFICES ASSUME Inv, LaunchInv, NEW j \in Jobs
               PROVE  Cardinality(Launched(j)) <= jobs[j].restarts + 1
    BY DEF LaunchesAreCounted, Launched
  <2>1. jobs[j].restarts \in Nat
    BY StorageAssumption DEF Inv, TypeOK, StorageTypeOK, JobRow
  <2> QED BY <2>1, OneVmMore DEF LaunchInv
<1> QED BY <1>1, <1>2, <1>3, Invariance, UnaddedInvariance, PTL DEF Spec

=============================================================================
