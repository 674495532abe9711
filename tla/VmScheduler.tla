---------------------------- MODULE VmScheduler ----------------------------
(***************************************************************************)
(* The whole service: clients, agents, the core scheduler, the allocator   *)
(* and the failure detector, all acting on one TaskStorage.                *)
(*                                                                         *)
(* FailureDetector::monitor calls its handlers one after the other, in     *)
(* every backend.  Each handler may find nothing to do, so any order of    *)
(* handlers is a behaviour of some schedule of the monitor threads, and    *)
(* each handler is an action of its own.                                   *)
(***************************************************************************)
EXTENDS Scheduler, Allocator

CONSTANTS
    AgentStatuses,  \* the statuses agents report
    TimelyWorkers   \* allocationTimeLimit exceeds any live worker's cloud calls

ASSUME ServiceAssumption ==
    /\ AgentStatuses \subseteq AgentUpdateStatuses
    /\ TimelyWorkers \in BOOLEAN

(***************************************************************************)
(* agent[v][j]: what the agent on VM v knows of job j.  "held": the job    *)
(* was assigned and its final report has not arrived; "done": reported, or *)
(* the report was lost.  An agent runs a job once: the container of a      *)
(* second launch has the name of the first.                                *)
(***************************************************************************)
VARIABLE agent

vars == <<storageVars, schedulerVars, allocatorVars, agent>>

Init ==
    /\ StorageInit
    /\ SchedulerInit
    /\ AllocatorInit
    /\ agent = [v \in Vms |-> [j \in Jobs |-> "unknown"]]

TypeOK ==
    /\ StorageTypeOK
    /\ SchedulerTypeOK
    /\ AllocatorTypeOK
    /\ agent \in [Vms -> [Jobs -> {"unknown", "held", "done"}]]

----------------------------------------------------------------------------
(* Agents.                                                                 *)

(***************************************************************************)
(* The agent on a running instance polls getAssignedJobs and takes on the  *)
(* jobs that are not being cancelled.  The row need not be Allocated yet.  *)
(***************************************************************************)
AgentPoll(v) ==
    /\ instance[v] = "running"
    /\ GetAssignedJobs(v)
    /\ agent' = [agent EXCEPT ![v] = [j \in Jobs |->
                    IF /\ j \in AssignedJobs(v)
                       /\ jobs[j].status # "Cancelling"
                       /\ agent[v][j] = "unknown"
                    THEN "held" ELSE agent[v][j]]]
    /\ UNCHANGED <<schedulerVars, allocatorVars>>

\* Any status the agent API admits (the agent of this repository sends
\* Completed and Error only).  The report may arrive after the instance is gone.
AgentReport(v, j, st) ==
    /\ agent[v][j] = "held"
    /\ UpdateJobState(v, j, st)
    /\ agent' = [agent EXCEPT ![v][j] = IF st = "Running" THEN @ ELSE "done"]
    /\ UNCHANGED <<schedulerVars, allocatorVars>>

\* The agent does not retry a failed call.
AgentReportLost(v, j) ==
    /\ agent[v][j] = "held"
    /\ agent' = [agent EXCEPT ![v][j] = "done"]
    /\ UNCHANGED <<storageVars, schedulerVars, allocatorVars>>

AgentStep ==
    \E v \in Vms :
        \/ AgentPoll(v)
        \/ \E j \in Jobs :
              \/ \E st \in AgentStatuses : AgentReport(v, j, st)
              \/ AgentReportLost(v, j)

----------------------------------------------------------------------------
(* The failure detector.                                                   *)

\* Rows some live allocate thread is working on.
InHand == {v \in Vms : \E w \in AllocateThreads :
              \/ v \in allocating[w].todo \cup allocating[w].failed
              \/ v = allocating[w].vm}

MayBeStale == VmsIn("Allocating") \ (IF TimelyWorkers THEN InHand ELSE {})

\* Two transactions, of which either may fail or find nothing: two choices.
HandleStaleAllocatingVms ==
    \E S \in SUBSET MayBeStale \ {{}} :
        \/ RestartAllocatingVms(S)
        \/ TerminateAllocatingVms(S)

HandleInactiveAgents ==
    \E S \in SUBSET Vms \ {{}} : TerminateVmsWithInactiveAgents(S)

HandleVmsWithoutAgents ==
    \E S \in SUBSET Vms \ {{}} : TerminateVmsWithoutAgents(S)

CancelOverdueJobs ==
    \E S \in SUBSET Jobs \ {{}} : CancelTimedOutJobs(S)

MonitorStep ==
    /\ \/ HandleStaleAllocatingVms
       \/ HandleInactiveAgents
       \/ HandleVmsWithoutAgents
       \/ CancelOverdueJobs
    /\ UNCHANGED <<schedulerVars, allocatorVars, agent>>

----------------------------------------------------------------------------
(* Clients.                                                                *)

ClientStep ==
    /\ \E t \in Tasks : AddTask(t) \/ CancelTask(t)
    /\ UNCHANGED <<schedulerVars, allocatorVars, agent>>

\* jobStatusToProto.
JobStatusToProto(st) ==
    CASE st \in {"Queued", "Scheduled"} -> "JOB_QUEUED"
      [] st = "Running" -> "JOB_RUNNING"
      [] st = "Completed" -> "JOB_COMPLETED"
      [] st \in {"Cancelling", "Cancelled"} -> "JOB_CANCELLED"
      [] st \in {"Error", "InternalError"} -> "JOB_FAILED"

\* What getTaskState and getTaskResult tell the user of a task.
TaskStatus(t) ==
    LET states == {JobStatusToProto(jobs[j].status) :
                      j \in {i \in t : jobs[i].status # "none"}}
    IN  CASE states = {} -> "NOT_FOUND"
          [] "JOB_RUNNING" \in states -> "TASK_RUNNING"
          [] "JOB_QUEUED" \in states \ {"JOB_RUNNING"} -> "TASK_QUEUED"
          [] OTHER -> "TASK_COMPLETED"

----------------------------------------------------------------------------
Next ==
    \/ ClientStep
    \/ AgentStep
    \/ MonitorStep
    \/ SchedulerStep /\ UNCHANGED <<allocatorVars, agent>>
    \/ AllocatorStep /\ UNCHANGED <<schedulerVars, agent>>

Spec == Init /\ [][Next]_vars

----------------------------------------------------------------------------
(* Fairness: the allocate threads and the failure detector keep running.   *)

StaleVmsHandled ==
    HandleStaleAllocatingVms /\ UNCHANGED <<schedulerVars, allocatorVars, agent>>

FairSpec ==
    /\ Spec
    /\ \A w \in AllocateThreads :
          WF_vars(AllocateStep(w) /\ UNCHANGED <<schedulerVars, agent>>)
    /\ \A w \in TerminateThreads :
          WF_vars(TerminateStep(w) /\ UNCHANGED <<schedulerVars, agent>>)
    /\ WF_vars(StaleVmsHandled)
    /\ \A v \in Vms : WF_vars(AgentPoll(v))
    /\ \A v \in Vms, j \in Jobs :
          WF_vars(\E st \in AgentStatuses : AgentReport(v, j, st))

----------------------------------------------------------------------------
(* Properties of jobs.                                                     *)

(***************************************************************************)
(* A job's outcome is never revised: no late report, cancellation, restart *)
(* or plan computed from an older snapshot moves a job out of Completed,   *)
(* Cancelled, Error or InternalError.                                      *)
(***************************************************************************)
OutcomeIsFinal ==
    [][\A j \in Jobs :
          jobs[j].status \in {"Completed", "Cancelled", "Error", "InternalError"}
              => jobs'[j].status = jobs[j].status]_vars

(***************************************************************************)
(* Two plans never fight over a job: a job that is Scheduled on a VM is    *)
(* not moved to another VM unless it has been restarted in between.        *)
(***************************************************************************)
AssignmentIsKept ==
    [][\A j \in Jobs :
          jobs[j].status = "Scheduled" /\ jobs'[j].status = "Scheduled"
              => jobs'[j].vm = jobs[j].vm]_vars

(***************************************************************************)
(* A plan puts jobs only on VMs that are still active when it is committed *)
(* (checkConflicts_), the VMs it terminates itself included.  A job that   *)
(* asks for nothing leaves its VM entirely idle, so the plan that puts it  *)
(* there may terminate the VM (getIdleVms).                                *)
(***************************************************************************)
AssignedToActiveVm ==
    [][\A j \in Jobs :
          Req[j] > 0 /\ jobs[j].status # "Scheduled" /\ jobs'[j].status = "Scheduled"
              => vms'[jobs'[j].vm].status \in ActiveVmStatuses]_vars

(***************************************************************************)
(* The restart counter bounds how many VMs ever take a job on: at most one *)
(* more than the restarts charged to it, hence jobRestartAttemptCount + 1. *)
(***************************************************************************)
LaunchesAreCounted ==
    \A j \in Jobs :
        Cardinality({v \in Vms : agent[v][j] # "unknown"})
            <= jobs[j].restarts + 1

Lifecycle == INSTANCE JobLifecycle
                 WITH status <- [j \in Jobs |-> jobs[j].status],
                      restarts <- [j \in Jobs |-> jobs[j].restarts],
                      MaxRestarts <- JobRestartAttempts

(***************************************************************************)
(* Whatever clients, agents, replicas and the failure detector do, in      *)
(* whatever order, each job keeps to its life cycle: it is added once,     *)
(* every return to the queue is charged to restart_count, and no outcome   *)
(* is left.  One transaction may move many jobs, none of them further than *)
(* one step.                                                               *)
(***************************************************************************)
ImplementsJobLifecycle == Lifecycle!Spec

(***************************************************************************)
(* A task that getTaskState has reported as completed stays completed: no  *)
(* restart, late report or old plan takes one of its jobs back.            *)
(***************************************************************************)
CompletedTaskStaysCompleted ==
    [][\A t \in Tasks : TaskStatus(t) = "TASK_COMPLETED"
                            => TaskStatus(t)' = "TASK_COMPLETED"]_vars

----------------------------------------------------------------------------
(* Properties of capacity.                                                 *)

(***************************************************************************)
(* Idle capacity never exceeds the VM's size, however often a job's        *)
(* resources are released.                                                 *)
(***************************************************************************)
IdleWithinTotal == \A v \in Vms : vms[v].idle <= vms[v].total

Load(v) == Demand({j \in JobsOn(v) : jobs[j].status \in {"Scheduled", "Running"}})

Fits(v) == Load(v) + vms[v].idle <= vms[v].total

(***************************************************************************)
(* The jobs on an active VM and its idle capacity never exceed its size.   *)
(***************************************************************************)
NoOvercommit ==
    \A v \in Vms : vms[v].status \in ActiveVmStatuses => Fits(v)

\* The jobs whose capacity on v has not been released yet: restartJobs keeps it,
\* and a Cancelling job has it until its agent has reported.
Booked(v) ==
    {j \in JobsOn(v) :
        \/ jobs[j].status \in {"Queued", "Scheduled", "Running"}
        \/ jobs[j].status = "Cancelling" /\ agent[v][j] # "done"}

Balanced(v) == Demand(Booked(v)) + vms[v].idle <= vms[v].total

(***************************************************************************)
(* The books of a VM are upset by one thing only: the late report of a job *)
(* that already has its outcome, which releases its resources once more.   *)
(* Plans, though they overwrite idle capacities with values computed from  *)
(* an old snapshot, restarts, cancellations and workers that were          *)
(* overtaken keep them.                                                    *)
(***************************************************************************)
OnlyLateReportsOvercommit ==
    [][\A v \in Vms : Balanced(v) /\ ~Balanced(v)' =>
          \E j \in JobsOn(v) :
             /\ jobs[j].status \in {"Completed", "Cancelled", "Error", "InternalError"}
             /\ agent[v][j] = "held" /\ agent'[v][j] = "done"]_vars

----------------------------------------------------------------------------
(* Properties of VMs.                                                      *)

(***************************************************************************)
(* No instance is left behind a row that records its termination: a row    *)
(* that is Terminated and has a cloud id belongs to an instance that is    *)
(* gone.                                                                   *)
(***************************************************************************)
TerminatedInstanceIsGone ==
    \A v \in Vms :
        vms[v].status = "Terminated" /\ vms[v].hasCloudId => instance[v] = "gone"

(***************************************************************************)
(* A row is allocated by one worker at a time, as long as the failure      *)
(* detector's time limit is longer than a worker's cloud calls.            *)
(***************************************************************************)
OneWorkerPerVm ==
    \A w, x \in AllocateThreads : w # x =>
        (allocating[w].todo \cup {allocating[w].vm})
            \cap (allocating[x].todo \cup {allocating[x].vm}) \subseteq {NoVm}

(***************************************************************************)
(* A VM waiting for allocation is eventually allocated or given up on,     *)
(* whatever crashes and failed calls happen on the way: every retry is     *)
(* charged to restart_count.                                               *)
(***************************************************************************)
AllocationResolves ==
    \A v \in Vms :
        vms[v].status \in {"PendingAllocation", "Allocating"}
            ~> vms[v].status \notin {"PendingAllocation", "Allocating"}

----------------------------------------------------------------------------
(* What the documentation says and the code does not do.                   *)

(***************************************************************************)
(* "The canceled job is transferred to the `Cancelling` and eventually to  *)
(* `Cancelled` status." (docs/architecture.md)                             *)
(***************************************************************************)
CancellingResolves ==
    \A j \in Jobs : jobs[j].status = "Cancelling" ~> jobs[j].status = "Cancelled"

(***************************************************************************)
(* Terminated is the end of a VM's life: "Terminated -[bold]> [*]"         *)
(* (docs/uml-diagrams/vm_state.puml).                                      *)
(***************************************************************************)
TerminatedIsFinal ==
    [][\A v \in Vms : vms[v].status = "Terminated"
                         => vms'[v].status = "Terminated"]_vars

(***************************************************************************)
(* The failure detector gives the Scheduled jobs of a VM it terminates     *)
(* another chance: "Scheduled -[dotted,#blue]-> Queued : FD"               *)
(* (docs/uml-diagrams/job_state.puml).                                     *)
(***************************************************************************)
NoJobLeftOnTerminatedVm ==
    \A j \in Jobs : jobs[j].status \in {"Scheduled", "Running"}
        => vms[jobs[j].vm].status \in ActiveVmStatuses

=============================================================================
