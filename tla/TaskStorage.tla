---------------------------- MODULE TaskStorage ----------------------------
(***************************************************************************)
(* The job and VM tables of PgTaskStorage and the transactions on them.    *)
(*                                                                         *)
(* Every public method of PgTaskStorage runs one database transaction (or, *)
(* for rollbackUnallocatedVmsState, two).  Under READ COMMITTED with the   *)
(* row locks the statements take, each transaction below is equivalent to  *)
(* one atomic step, so each is one action on `jobs' and `vms'.  A          *)
(* transaction that fails is rolled back and leaves both tables alone; the *)
(* modules that use this one decide what the caller does then.             *)
(*                                                                         *)
(* Capacity is one natural number: every statement treats cpu and ram      *)
(* alike, column by column.  Conditions on the wall clock (a stale VM, a   *)
(* silent agent, a job past its estimation) are an arbitrary subset of the *)
(* rows that meet the rest of the WHERE clause.                            *)
(***************************************************************************)
EXTENDS Naturals, FiniteSets

CONSTANTS
    Jobs,                \* job ids
    Tasks,               \* tasks, each the set of its jobs
    Vms,                 \* VM ids the model has room for
    NoVm,                \* jobs.vm_id IS NULL
    Req,                 \* Req[j]: capacity job j asks for
    MaxReq,              \* the largest of them
    JobRestartAttempts,  \* jobRestartAttemptCount
    VmRestartAttempts    \* vmRestartAttemptCount

ASSUME StorageAssumption ==
    /\ IsFiniteSet(Jobs)
    /\ Tasks \subseteq SUBSET Jobs
    /\ \A s, t \in Tasks : s = t \/ s \cap t = {}
    /\ NoVm \notin Vms
    /\ MaxReq \in Nat
    /\ Req \in [Jobs -> 0 .. MaxReq]
    /\ JobRestartAttempts \in Nat
    /\ VmRestartAttempts \in Nat

VARIABLES
    jobs,   \* scheduler.jobs
    vms     \* scheduler.vms

storageVars == <<jobs, vms>>

JobStatuses ==
    {"Queued", "Scheduled", "Running", "Completed",
     "Cancelling", "Cancelled", "Error", "InternalError"}

VmStatuses ==
    {"PendingAllocation", "Allocating", "Allocated", "AgentStarted",
     "PendingTermination", "Terminating", "Terminated"}

(***************************************************************************)
(* getFinalJobStatuses: Cancelling is listed as final.                     *)
(***************************************************************************)
FinalJobStatuses ==
    {"Completed", "Cancelling", "Cancelled", "Error", "InternalError"}

AssignedJobStatuses == {"Scheduled", "Running", "Cancelling"}

ActiveVmStatuses ==
    {"PendingAllocation", "Allocating", "Allocated", "AgentStarted"}

\* The statuses the agent API lets an agent report.
AgentUpdateStatuses == {"Running", "Completed", "Cancelled", "Error"}

----------------------------------------------------------------------------
(* Rows.  Status "none" stands for an id that has not been inserted yet.   *)

JobRow ==
    [status : JobStatuses \cup {"none"}, vm : Vms \cup {NoVm},
     restarts : 0 .. JobRestartAttempts]

\* hasCloudId: cloud_vm_id IS NOT NULL.
VmRow ==
    [status : VmStatuses \cup {"none"}, total : Nat, idle : Nat,
     restarts : 0 .. VmRestartAttempts, hasCloudId : BOOLEAN]

NoJobRow == [status |-> "none", vm |-> NoVm, restarts |-> 0]

NoVmRow ==
    [status |-> "none", total |-> 0, idle |-> 0,
     restarts |-> 0, hasCloudId |-> FALSE]

StorageInit ==
    /\ jobs = [j \in Jobs |-> NoJobRow]
    /\ vms = [v \in Vms |-> NoVmRow]

StorageTypeOK ==
    /\ jobs \in [Jobs -> JobRow]
    /\ vms \in [Vms -> VmRow]

----------------------------------------------------------------------------
(* Capacity arithmetic.                                                    *)

\* The capacity units that the jobs of S ask for: SUM(jobs.cpu) is their number.
CapacityUnits(S) == {u \in S \X (1 .. MaxReq) : u[2] <= Req[u[1]]}

Demand(S) == Cardinality(CapacityUnits(S))

Least(m, n) == IF m <= n THEN m ELSE n

JobsOn(v) == {j \in Jobs : jobs[j].vm = v}

\* Mutant of ReleaseVmResources: idle is not capped at the VM's size.
ReleaseUncapped(S) ==
    [v \in Vms |->
        [vms[v] EXCEPT !.idle = @ + Demand(S \cap JobsOn(v))]]

(***************************************************************************)
(* The vms table after releaseVmResources(S): the VM is found through      *)
(* jobs.vm_id, which outlives the assignment, and idle is capped at total. *)
(***************************************************************************)
ReleaseVmResources(S) ==
    [v \in Vms |->
        [vms[v] EXCEPT
            !.idle = Least(@ + Demand(S \cap JobsOn(v)), vms[v].total)]]

----------------------------------------------------------------------------
(* Client calls.                                                           *)

AddTask(t) ==
    /\ \A j \in t : jobs[j].status = "none"
    /\ jobs' = [j \in Jobs |->
                   IF j \in t THEN [jobs[j] EXCEPT !.status = "Queued"]
                              ELSE jobs[j]]
    /\ UNCHANGED vms

\* status NOT IN getFinalJobStatuses().
UnfinishedJobs ==
    {j \in Jobs : jobs[j].status \notin FinalJobStatuses \cup {"none"}}

CancelJobs(S) ==
    /\ jobs' = [j \in Jobs |->
                   IF j \in S
                   THEN [jobs[j] EXCEPT
                            !.status = IF @ = "Queued" THEN "Cancelled"
                                                       ELSE "Cancelling"]
                   ELSE jobs[j]]
    /\ vms' = ReleaseVmResources({j \in S : jobs[j].status = "Queued"})

CancelTask(t) == CancelJobs(t \cap UnfinishedJobs)

----------------------------------------------------------------------------
(* Agent calls.                                                            *)

\* What getAssignedJobs returns: jobs of v with their statuses.
AssignedJobs(v) ==
    {j \in JobsOn(v) : jobs[j].status \in AssignedJobStatuses}

GetAssignedJobs(v) ==
    /\ vms' = [vms EXCEPT
                  ![v].status = IF @ = "Allocated" THEN "AgentStarted" ELSE @]
    /\ UNCHANGED jobs

(***************************************************************************)
(* updateJobState: a job that is not assigned to v is not found; a report  *)
(* on a Cancelling job other than Cancelled is dropped; the row changes    *)
(* only when its status is not in the final set, but a final report        *)
(* releases the VM's resources whether or not the row changed.             *)
(***************************************************************************)
ReportIsDropped(v, j, st) ==
    \/ jobs[j].vm # v
    \/ jobs[j].status = "Cancelling" /\ st # "Cancelled"

UpdateJobState(v, j, st) ==
    \/ /\ ReportIsDropped(v, j, st)
       /\ UNCHANGED storageVars
    \/ /\ ~ReportIsDropped(v, j, st)
       /\ jobs' = IF jobs[j].status \in FinalJobStatuses
                  THEN jobs
                  ELSE [jobs EXCEPT ![j].status = st]
       /\ vms' = IF st \in FinalJobStatuses
                 THEN ReleaseVmResources({j})
                 ELSE vms

----------------------------------------------------------------------------
(* Allocator calls.                                                        *)

VmsIn(st) == {v \in Vms : vms[v].status = st}

SetVmStatus(S, st) ==
    vms' = [v \in Vms |->
               IF v \in S THEN [vms[v] EXCEPT !.status = st] ELSE vms[v]]

\* Mutant of GetVmsToAllocate: the batch is read but not claimed.
ReadVmsToAllocate(S) ==
    /\ S \subseteq VmsIn("PendingAllocation")
    /\ UNCHANGED storageVars

\* FOR UPDATE SKIP LOCKED may skip rows: any batch S within the limit.
GetVmsToAllocate(S) ==
    /\ S \subseteq VmsIn("PendingAllocation")
    /\ SetVmStatus(S, "Allocating")
    /\ UNCHANGED jobs

GetVmsToTerminate(S) ==
    /\ S \subseteq VmsIn("PendingTermination")
    /\ SetVmStatus(S, "Terminating")
    /\ UNCHANGED jobs

\* Unconditional on the current status of the row.
SaveVmAllocationResult(v) ==
    /\ vms' = [vms EXCEPT ![v].status = "Allocated", ![v].hasCloudId = TRUE]
    /\ UNCHANGED jobs

\* Mutant of ReturnUnterminatedVms: VMs whose termination failed are given up.
ForgetUnterminatedVms(S) ==
    /\ SetVmStatus(S, "Terminated")
    /\ UNCHANGED jobs

ReturnUnterminatedVms(S) ==
    /\ SetVmStatus(S, "PendingTermination")
    /\ UNCHANGED jobs

SaveVmTerminationResult(v) ==
    /\ SetVmStatus({v}, "Terminated")
    /\ UNCHANGED jobs

----------------------------------------------------------------------------
(* Restarts and terminations, by the failure detector or on a rollback.    *)

\* Mutant of RestartAllocatingVms: one restart too many.
RestartOnceMore(S) ==
    /\ S \subseteq {v \in VmsIn("Allocating") :
                       vms[v].restarts <= VmRestartAttempts}
    /\ vms' = [v \in Vms |->
                  IF v \in S
                  THEN [vms[v] EXCEPT !.status = "PendingAllocation",
                                      !.restarts = @ + 1]
                  ELSE vms[v]]
    /\ UNCHANGED jobs

\* Mutant of RestartAllocatingVms: the restart is not charged to the VM.
RestartForFree(S) ==
    /\ S \subseteq {v \in VmsIn("Allocating") :
                       vms[v].restarts < VmRestartAttempts}
    /\ SetVmStatus(S, "PendingAllocation")
    /\ UNCHANGED jobs

RestartAllocatingVms(S) ==
    /\ S \subseteq {v \in VmsIn("Allocating") :
                       vms[v].restarts < VmRestartAttempts}
    /\ vms' = [v \in Vms |->
                  IF v \in S
                  THEN [vms[v] EXCEPT !.status = "PendingAllocation",
                                      !.restarts = @ + 1]
                  ELSE vms[v]]
    /\ UNCHANGED jobs

\* Mutant of RestartJobs: the restart is not charged to the job.
RestartJobsForFree(S, initialStatus) ==
    [j \in Jobs |->
        IF jobs[j].vm \in S /\ jobs[j].status = initialStatus
        THEN [jobs[j] EXCEPT !.status = "Queued"]
        ELSE jobs[j]]

\* The jobs table after restartJobs: vm_id and the VM's idle columns stay.
RestartJobs(S, initialStatus) ==
    [j \in Jobs |->
        IF jobs[j].vm \in S /\ jobs[j].status = initialStatus
        THEN IF jobs[j].restarts < JobRestartAttempts
             THEN [jobs[j] EXCEPT !.status = "Queued", !.restarts = @ + 1]
             ELSE [jobs[j] EXCEPT !.status = "InternalError"]
        ELSE jobs[j]]

TerminateVmsWhere(S, initialStatus, targetStatus, attempts) ==
    /\ S \subseteq {v \in VmsIn(initialStatus) : vms[v].restarts >= attempts}
    /\ SetVmStatus(S, targetStatus)
    /\ jobs' = RestartJobs(S, "Scheduled")

\* S: VMs that have been Allocating for longer than allocationTimeLimit, or
\* the ids a worker rolls back.
TerminateAllocatingVms(S) ==
    TerminateVmsWhere(S, "Allocating", "Terminated", VmRestartAttempts)

TerminateVmsWithoutAgents(S) ==
    TerminateVmsWhere(S, "Allocated", "PendingTermination", 0)

TerminateVmsWithInactiveAgents(S) ==
    /\ S \subseteq VmsIn("AgentStarted")
    /\ SetVmStatus(S, "PendingTermination")
    /\ jobs' = RestartJobs(S, "Running")

CancelTimedOutJobs(S) ==
    /\ S \subseteq UnfinishedJobs
    /\ CancelJobs(S)

=============================================================================
