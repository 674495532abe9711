--------------------------- MODULE StorageProofs ---------------------------
(***************************************************************************)
(* Lemmas: every step of the service except commitPlanChange is `quiet' on *)
(* the tables.  VmSchedulerProofs builds the theorems on them.             *)
(***************************************************************************)
EXTENDS VmScheduler, FiniteSetTheorems, TLAPS

----------------------------------------------------------------------------
(* Capacity arithmetic.                                                    *)

(***************************************************************************)
(* A set of jobs asks for finitely many units of capacity.                 *)
(***************************************************************************)
LEMMA CapacityUnitsFinite ==
  ASSUME NEW S \in SUBSET Jobs
  PROVE  IsFiniteSet(CapacityUnits(S))
<1>1. IsFiniteSet(S)
  BY StorageAssumption, FS_Subset
<1>2. MaxReq \in Int /\ 1 \in Int
  BY StorageAssumption
<1>3. IsFiniteSet(1 .. MaxReq)
  BY <1>2, FS_Interval
<1>4. IsFiniteSet(S \X (1 .. MaxReq))
  BY <1>1, <1>3, FS_Product
<1>5. CapacityUnits(S) \subseteq S \X (1 .. MaxReq)
  BY DEF CapacityUnits
<1> QED BY <1>4, <1>5, FS_Subset

(***************************************************************************)
(* The demand of a set of jobs is a natural number: SUM(jobs.cpu) over     *)
(* finitely many rows.                                                     *)
(***************************************************************************)
LEMMA DemandType ==
  ASSUME NEW S \in SUBSET Jobs
  PROVE  Demand(S) \in Nat
BY CapacityUnitsFinite, FS_CardinalityType DEF Demand

(***************************************************************************)
(* More jobs ask for no less.                                              *)
(***************************************************************************)
LEMMA DemandMonotone ==
  ASSUME NEW T \in SUBSET Jobs, NEW S \in SUBSET T
  PROVE  Demand(S) <= Demand(T)
<1>1. CapacityUnits(S) \subseteq CapacityUnits(T)
  BY DEF CapacityUnits
<1> QED BY <1>1, CapacityUnitsFinite, FS_Subset DEF Demand

(***************************************************************************)
(* The demands of disjoint sets of jobs add up, as SUM does.               *)
(***************************************************************************)
LEMMA DemandAdds ==
  ASSUME NEW S \in SUBSET Jobs, NEW T \in SUBSET Jobs, S \cap T = {}
  PROVE  Demand(S \cup T) = Demand(S) + Demand(T)
<1>1. /\ CapacityUnits(S \cup T) = CapacityUnits(S) \cup CapacityUnits(T)
      /\ CapacityUnits(S) \cap CapacityUnits(T) = {}
  BY DEF CapacityUnits
<1>2. /\ IsFiniteSet(CapacityUnits(S))
      /\ IsFiniteSet(CapacityUnits(T))
  BY CapacityUnitsFinite
<1>3. Cardinality(CapacityUnits(S) \cup CapacityUnits(T))
         = Cardinality(CapacityUnits(S)) + Cardinality(CapacityUnits(T))
              - Cardinality(CapacityUnits(S) \cap CapacityUnits(T))
  BY <1>2, FS_Union
<1>4. /\ Demand(S) \in Nat /\ Demand(T) \in Nat
      /\ Cardinality(CapacityUnits(S) \cap CapacityUnits(T)) = 0
  BY <1>1, DemandType, FS_EmptySet
<1>5. /\ Demand(S \cup T) = Cardinality(CapacityUnits(S) \cup CapacityUnits(T))
      /\ Demand(S) = Cardinality(CapacityUnits(S))
      /\ Demand(T) = Cardinality(CapacityUnits(T))
  BY <1>1 DEF Demand
<1>6. Demand(S \cup T) = Demand(S) + Demand(T) - 0
  BY <1>3, <1>4, <1>5
<1> QED BY <1>4, <1>6

(***************************************************************************)
(* No jobs ask for nothing, and jobs one of which asks for something do    *)
(* not ask for nothing.                                                    *)
(***************************************************************************)
LEMMA DemandZero ==
  /\ Demand({}) = 0
  /\ \A S \in SUBSET Jobs : (\E j \in S : Req[j] > 0) => Demand(S) > 0
<1>1. Demand({}) = 0
  <2>1. CapacityUnits({}) = {}
    BY DEF CapacityUnits
  <2> QED BY <2>1, FS_EmptySet DEF Demand
<1>2. ASSUME NEW S \in SUBSET Jobs, NEW j \in S, Req[j] > 0
      PROVE  Demand(S) > 0
  <2>1. Req[j] \in 0 .. MaxReq /\ MaxReq \in Nat
    BY StorageAssumption
  <2>2. 1 \in 1 .. MaxReq /\ 1 <= Req[j]
    BY <1>2, <2>1
  <2>3. <<j, 1>> \in CapacityUnits(S)
    BY <2>2 DEF CapacityUnits
  <2>4. Cardinality(CapacityUnits(S)) # 0
    BY <2>3, CapacityUnitsFinite, FS_EmptySet
  <2> QED BY <2>4, DemandType DEF Demand
<1> QED BY <1>1, <1>2

(***************************************************************************)
(* releaseVmResources keeps the rows well formed and, where idle was       *)
(* within total, only raises idle, up to total.                            *)
(***************************************************************************)
LEMMA ReleaseType ==
  ASSUME StorageTypeOK, NEW S \in SUBSET Jobs
  PROVE  /\ ReleaseVmResources(S) \in [Vms -> VmRow]
         /\ \A v \in Vms :
               LET r == ReleaseVmResources(S)[v]
               IN  /\ r.status = vms[v].status
                   /\ r.total = vms[v].total
                   /\ r.restarts = vms[v].restarts
                   /\ r.hasCloudId = vms[v].hasCloudId
                   /\ r.idle <= r.total
                   /\ vms[v].idle <= vms[v].total => vms[v].idle <= r.idle
<1> SUFFICES ASSUME NEW v \in Vms
             PROVE  LET r == ReleaseVmResources(S)[v]
                    IN  /\ r \in VmRow
                        /\ r.status = vms[v].status
                        /\ r.total = vms[v].total
                        /\ r.restarts = vms[v].restarts
                        /\ r.hasCloudId = vms[v].hasCloudId
                        /\ r.idle <= r.total
                        /\ vms[v].idle <= vms[v].total => vms[v].idle <= r.idle
  BY DEF ReleaseVmResources
<1> DEFINE d == Demand(S \cap JobsOn(v))
           i == Least(vms[v].idle + d, vms[v].total)
<1>1. vms[v] \in VmRow
  BY DEF StorageTypeOK
<1>2. d \in Nat
  BY DemandType
<1>3. ReleaseVmResources(S)[v] = [vms[v] EXCEPT !.idle = i]
  BY DEF ReleaseVmResources
<1>4. /\ i \in Nat
      /\ i <= vms[v].total
      /\ vms[v].idle <= vms[v].total => vms[v].idle <= i
  <2> HIDE DEF d
  <2> QED BY <1>1, <1>2 DEF Least, VmRow
<1> HIDE DEF i
<1> QED
  BY <1>1, <1>3, <1>4 DEF VmRow

----------------------------------------------------------------------------
(* What every transaction other than commitPlanChange leaves intact.       *)

Outcomes == {"Completed", "Cancelled", "Error", "InternalError"}

(***************************************************************************)
(* A quiet step keeps the tables well formed, deletes no VM and never      *)
(* lowers its idle capacity, schedules or moves no job and revises no      *)
(* outcome.                                                                *)
(***************************************************************************)
QuietVms ==
    /\ vms' \in [Vms -> VmRow]
    /\ \A v \in Vms :
          /\ vms[v].status # "none" => vms'[v].status # "none"
          /\ vms'[v].total = vms[v].total
          /\ vms[v].idle <= vms[v].total =>
                vms[v].idle <= vms'[v].idle /\ vms'[v].idle <= vms'[v].total

QuietJobs ==
    /\ jobs' \in [Jobs -> JobRow]
    /\ \A j \in Jobs :
          /\ jobs'[j].vm = jobs[j].vm
          /\ jobs'[j].status = "Scheduled" => jobs[j].status = "Scheduled"
          /\ jobs[j].status \in Outcomes => jobs'[j].status = jobs[j].status

(***************************************************************************)
(* A step that leaves a table alone is quiet on it.                        *)
(***************************************************************************)
LEMMA QuietUnchanged ==
  ASSUME StorageTypeOK
  PROVE  /\ UNCHANGED vms => QuietVms
         /\ UNCHANGED jobs => QuietJobs
<1>1. ASSUME UNCHANGED vms PROVE QuietVms
  BY <1>1 DEF QuietVms, StorageTypeOK, VmRow
<1>2. ASSUME UNCHANGED jobs PROVE QuietJobs
  BY <1>2 DEF QuietJobs, StorageTypeOK
<1> QED BY <1>1, <1>2

(***************************************************************************)
(* setVmStatus_ and the status updates like it change no capacity.         *)
(***************************************************************************)
LEMMA QuietSetVmStatus ==
  ASSUME StorageTypeOK, NEW S, NEW st \in VmStatuses, SetVmStatus(S, st)
  PROVE  QuietVms
BY DEF SetVmStatus, QuietVms, StorageTypeOK, VmRow, VmStatuses

(***************************************************************************)
(* releaseVmResources is quiet.                                            *)
(***************************************************************************)
LEMMA QuietRelease ==
  ASSUME StorageTypeOK, NEW S \in SUBSET Jobs, vms' = ReleaseVmResources(S)
  PROVE  QuietVms
BY ReleaseType DEF QuietVms

(***************************************************************************)
(* restartJobs re-queues or fails Scheduled or Running jobs and no other.  *)
(***************************************************************************)
LEMMA QuietRestartJobs ==
  ASSUME StorageTypeOK, NEW S, NEW st \in {"Scheduled", "Running"},
         jobs' = RestartJobs(S, st)
  PROVE  QuietJobs
<1> SUFFICES ASSUME NEW j \in Jobs
             PROVE  /\ jobs'[j] \in JobRow
                    /\ jobs'[j].vm = jobs[j].vm
                    /\ jobs'[j].status = "Scheduled" => jobs[j].status = "Scheduled"
                    /\ jobs[j].status \in Outcomes =>
                          jobs'[j].status = jobs[j].status
  BY DEF QuietJobs, RestartJobs
<1>1. jobs[j] \in JobRow
  BY DEF StorageTypeOK
<1>2. CASE jobs[j].vm \in S /\ jobs[j].status = st
  <2>1. CASE jobs[j].restarts < JobRestartAttempts
    <3>1. jobs'[j] = [jobs[j] EXCEPT !.status = "Queued",
                                     !.restarts = jobs[j].restarts + 1]
      BY <1>2, <2>1 DEF RestartJobs
    <3>2. jobs[j].restarts + 1 \in 0 .. JobRestartAttempts
      BY <1>1, <2>1, StorageAssumption DEF JobRow
    <3> QED BY <1>1, <1>2, <3>1, <3>2 DEF JobRow, JobStatuses, Outcomes
  <2>2. CASE ~(jobs[j].restarts < JobRestartAttempts)
    <3>1. jobs'[j] = [jobs[j] EXCEPT !.status = "InternalError"]
      BY <1>2, <2>2 DEF RestartJobs
    <3> QED BY <1>1, <1>2, <3>1 DEF JobRow, JobStatuses, Outcomes
  <2> QED BY <2>1, <2>2
<1>3. CASE ~(jobs[j].vm \in S /\ jobs[j].status = st)
  BY <1>1, <1>3 DEF RestartJobs
<1> QED BY <1>2, <1>3

(***************************************************************************)
(* cancelJobs_ on unfinished jobs is quiet.                                *)
(***************************************************************************)
LEMMA QuietCancelJobs ==
  ASSUME StorageTypeOK, NEW S \in SUBSET UnfinishedJobs, CancelJobs(S)
  PROVE  QuietVms /\ QuietJobs
<1>1. {j \in S : jobs[j].status = "Queued"} \in SUBSET Jobs
  BY DEF UnfinishedJobs
<1>2. QuietVms
  BY <1>1, QuietRelease DEF CancelJobs
<1>3. QuietJobs
  <2> SUFFICES ASSUME NEW j \in Jobs
               PROVE  /\ jobs'[j] \in JobRow
                      /\ jobs'[j].vm = jobs[j].vm
                      /\ jobs'[j].status = "Scheduled" => jobs[j].status = "Scheduled"
                      /\ jobs[j].status \in Outcomes =>
                            jobs'[j].status = jobs[j].status
    BY DEF QuietJobs, CancelJobs
  <2>1. jobs[j] \in JobRow
    BY DEF StorageTypeOK
  <2>2. CASE j \in S
    <3>1. PICK st \in {"Cancelled", "Cancelling"} :
             jobs'[j] = [jobs[j] EXCEPT !.status = st]
      BY <2>2 DEF CancelJobs
    <3>2. jobs[j].status \notin Outcomes
      BY <2>2 DEF UnfinishedJobs, FinalJobStatuses, Outcomes
    <3> QED BY <2>1, <3>1, <3>2 DEF JobRow, JobStatuses
  <2>3. CASE j \notin S
    BY <2>1, <2>3 DEF CancelJobs
  <2> QED BY <2>2, <2>3
<1> QED BY <1>2, <1>3

(***************************************************************************)
(* updateJobState is quiet: it changes a row only while it is not final.   *)
(***************************************************************************)
LEMMA QuietUpdateJobState ==
  ASSUME StorageTypeOK, NEW v, NEW j \in Jobs, NEW st \in AgentUpdateStatuses,
         UpdateJobState(v, j, st)
  PROVE  QuietVms /\ QuietJobs
<1>1. CASE ReportIsDropped(v, j, st) /\ UNCHANGED storageVars
  BY <1>1, QuietUnchanged DEF storageVars
<1>2. CASE /\ jobs' = IF jobs[j].status \in FinalJobStatuses
                      THEN jobs ELSE [jobs EXCEPT ![j].status = st]
           /\ vms' = IF st \in FinalJobStatuses
                     THEN ReleaseVmResources({j}) ELSE vms
  <2>1. QuietVms
    BY <1>2, QuietUnchanged, QuietRelease
  <2>2. CASE jobs[j].status \in FinalJobStatuses
    BY <1>2, <2>1, <2>2, QuietUnchanged
  <2>3. CASE jobs[j].status \notin FinalJobStatuses
    <3>1. jobs' = [jobs EXCEPT ![j].status = st]
      BY <1>2, <2>3
    <3>2. jobs[j].status \notin Outcomes
      BY <2>3 DEF FinalJobStatuses, Outcomes
    <3>3. st \in JobStatuses /\ st # "Scheduled"
      BY DEF AgentUpdateStatuses, JobStatuses
    <3>4. QuietJobs
      BY <3>1, <3>2, <3>3 DEF QuietJobs, StorageTypeOK, JobRow
    <3> QED BY <2>1, <3>4
  <2> QED BY <2>2, <2>3
<1> QED BY <1>1, <1>2 DEF UpdateJobState

(***************************************************************************)
(* restartAllocatingVms_ keeps restart_count within its limit.             *)
(***************************************************************************)
LEMMA QuietRestartAllocatingVms ==
  ASSUME StorageTypeOK, NEW S, RestartAllocatingVms(S)
  PROVE  QuietVms /\ QuietJobs
<1>1. QuietVms
  <2> SUFFICES ASSUME NEW v \in Vms
               PROVE  /\ vms'[v] \in VmRow
                      /\ vms[v].status # "none" => vms'[v].status # "none"
                      /\ vms'[v].total = vms[v].total
                      /\ vms[v].idle <= vms[v].total =>
                            /\ vms[v].idle <= vms'[v].idle
                            /\ vms'[v].idle <= vms'[v].total
    BY DEF QuietVms, RestartAllocatingVms
  <2>1. vms[v] \in VmRow
    BY DEF StorageTypeOK
  <2>2. CASE v \in S
    <3>1. vms'[v] = [vms[v] EXCEPT !.status = "PendingAllocation",
                                   !.restarts = vms[v].restarts + 1]
      BY <2>2 DEF RestartAllocatingVms
    <3>2. vms[v].restarts < VmRestartAttempts
      BY <2>2 DEF RestartAllocatingVms
    <3>3. vms[v].restarts + 1 \in 0 .. VmRestartAttempts
      BY <2>1, <3>2, StorageAssumption DEF VmRow
    <3>4. vms'[v] \in VmRow
      BY <2>1, <3>1, <3>3 DEF VmRow, VmStatuses
    <3>5. /\ vms'[v].status # "none"
          /\ vms'[v].total = vms[v].total /\ vms'[v].idle = vms[v].idle
      BY <2>1, <3>1 DEF VmRow
    <3>6. vms[v].idle \in Nat
      BY <2>1 DEF VmRow
    <3> QED BY <3>4, <3>5, <3>6
  <2>3. CASE v \notin S
    <3>1. vms'[v] = vms[v]
      BY <2>3 DEF RestartAllocatingVms
    <3>2. vms[v].idle \in Nat
      BY <2>1 DEF VmRow
    <3> QED BY <2>1, <3>1, <3>2
  <2> QED BY <2>2, <2>3
<1> QED BY <1>1, QuietUnchanged DEF RestartAllocatingVms

(***************************************************************************)
(* The failure detector's terminations, and the allocator's rollback, are  *)
(* quiet.                                                                  *)
(***************************************************************************)
LEMMA QuietTerminateAllocatingVms ==
  ASSUME StorageTypeOK, NEW S, TerminateAllocatingVms(S)
  PROVE  QuietVms /\ QuietJobs
BY QuietSetVmStatus, QuietRestartJobs
   DEF TerminateAllocatingVms, TerminateVmsWhere, VmStatuses

(***************************************************************************)
(* saveVmAllocationResult changes no capacity.                             *)
(***************************************************************************)
LEMMA QuietSaveAllocation ==
  ASSUME StorageTypeOK, NEW u, SaveVmAllocationResult(u)
  PROVE  QuietVms
<1>1. \A v \in Vms : vms[v] \in VmRow
  BY DEF StorageTypeOK
<1>2. CASE u \notin Vms
  <2>1. vms' = vms
    BY <1>2 DEF SaveVmAllocationResult, StorageTypeOK
  <2> QED BY <2>1, QuietUnchanged
<1>3. CASE u \in Vms
  <2>1. vms' = [vms EXCEPT ![u] = [vms[u] EXCEPT !.status = "Allocated",
                                                 !.hasCloudId = TRUE]]
    BY <1>1, <1>3 DEF SaveVmAllocationResult, StorageTypeOK, VmRow
  <2>2. [vms[u] EXCEPT !.status = "Allocated", !.hasCloudId = TRUE] \in VmRow
    BY <1>1, <1>3 DEF VmRow, VmStatuses
  <2>3. vms' \in [Vms -> VmRow]
    BY <2>1, <2>2 DEF StorageTypeOK
  <2>4. ASSUME NEW v \in Vms
        PROVE  /\ vms[v].status # "none" => vms'[v].status # "none"
               /\ vms'[v].total = vms[v].total /\ vms'[v].idle = vms[v].idle
    BY <1>1, <2>1 DEF VmRow, StorageTypeOK
  <2>5. \A v \in Vms : vms[v].idle \in Nat
    BY <1>1 DEF VmRow
  <2> QED BY <2>3, <2>4, <2>5 DEF QuietVms
<1> QED BY <1>2, <1>3

----------------------------------------------------------------------------
(* Steps of the clients, the agents and the failure detector.              *)

(***************************************************************************)
(* addTask and cancelTask are quiet.                                       *)
(***************************************************************************)
LEMMA QuietClient ==
  ASSUME StorageTypeOK, ClientStep
  PROVE  QuietVms /\ QuietJobs
<1>1. PICK t \in Tasks : AddTask(t) \/ CancelTask(t)
  BY DEF ClientStep
<1>2. CASE AddTask(t)
  <2>1. QuietVms
    BY <1>2, QuietUnchanged DEF AddTask
  <2>2. QuietJobs
    BY <1>2 DEF AddTask, QuietJobs, StorageTypeOK, JobRow, JobStatuses, Outcomes
  <2> QED BY <2>1, <2>2
<1>3. CASE CancelTask(t)
  BY <1>3, QuietCancelJobs DEF CancelTask
<1> QED BY <1>1, <1>2, <1>3

(***************************************************************************)
(* getAssignedJobs and updateJobState, as agents call them, are quiet, and *)
(* an agent's view of its jobs stays well formed.                          *)
(***************************************************************************)
LEMMA QuietAgent ==
  ASSUME TypeOK, AgentStep
  PROVE  /\ QuietVms /\ QuietJobs
         /\ agent' \in [Vms -> [Jobs -> {"unknown", "held", "done"}]]
         /\ UNCHANGED <<schedulerVars, allocatorVars>>
<1> USE DEF TypeOK
<1>1. ASSUME NEW v \in Vms, AgentPoll(v)
      PROVE  /\ QuietVms /\ QuietJobs
             /\ agent' \in [Vms -> [Jobs -> {"unknown", "held", "done"}]]
             /\ UNCHANGED <<schedulerVars, allocatorVars>>
  <2>1. QuietJobs
    BY <1>1, QuietUnchanged DEF AgentPoll, GetAssignedJobs
  <2>2. QuietVms
    BY <1>1 DEF AgentPoll, GetAssignedJobs, QuietVms, StorageTypeOK, VmRow, VmStatuses
  <2>3. agent' \in [Vms -> [Jobs -> {"unknown", "held", "done"}]]
    BY <1>1 DEF AgentPoll
  <2> QED BY <1>1, <2>1, <2>2, <2>3 DEF AgentPoll
<1>2. ASSUME NEW v \in Vms, NEW j \in Jobs, NEW st \in AgentStatuses,
             AgentReport(v, j, st)
      PROVE  /\ QuietVms /\ QuietJobs
             /\ agent' \in [Vms -> [Jobs -> {"unknown", "held", "done"}]]
             /\ UNCHANGED <<schedulerVars, allocatorVars>>
  <2>1. st \in AgentUpdateStatuses
    BY ServiceAssumption
  <2>2. QuietVms /\ QuietJobs
    BY <1>2, <2>1, QuietUpdateJobState DEF AgentReport
  <2> QED BY <1>2, <2>2 DEF AgentReport
<1>3. ASSUME NEW v \in Vms, NEW j \in Jobs, AgentReportLost(v, j)
      PROVE  /\ QuietVms /\ QuietJobs
             /\ agent' \in [Vms -> [Jobs -> {"unknown", "held", "done"}]]
             /\ UNCHANGED <<schedulerVars, allocatorVars>>
  BY <1>3, QuietUnchanged DEF AgentReportLost, storageVars
<1> QED BY <1>1, <1>2, <1>3 DEF AgentStep

(***************************************************************************)
(* The handlers of FailureDetector::monitor are quiet.                     *)
(***************************************************************************)
LEMMA QuietMonitor ==
  ASSUME StorageTypeOK, MonitorStep
  PROVE  QuietVms /\ QuietJobs
<1>1. CASE HandleStaleAllocatingVms
  BY <1>1, QuietRestartAllocatingVms, QuietTerminateAllocatingVms
     DEF HandleStaleAllocatingVms
<1>2. CASE HandleInactiveAgents
  BY <1>2, QuietSetVmStatus, QuietRestartJobs
     DEF HandleInactiveAgents, TerminateVmsWithInactiveAgents, VmStatuses
<1>3. CASE HandleVmsWithoutAgents
  BY <1>3, QuietSetVmStatus, QuietRestartJobs
     DEF HandleVmsWithoutAgents, TerminateVmsWithoutAgents, TerminateVmsWhere,
         VmStatuses
<1>4. CASE CancelOverdueJobs
  BY <1>4, QuietCancelJobs DEF CancelOverdueJobs, CancelTimedOutJobs
<1> QED BY <1>1, <1>2, <1>3, <1>4 DEF MonitorStep

----------------------------------------------------------------------------
(* Steps of the allocator.                                                 *)

(***************************************************************************)
(* Allocator::allocate is quiet and keeps its own state well formed.       *)
(***************************************************************************)
LEMMA QuietAllocate ==
  ASSUME StorageTypeOK, AllocatorTypeOK, NEW w \in AllocateThreads,
         AllocateStep(w) \/ AllocateAborted(w)
  PROVE  QuietVms /\ QuietJobs /\ AllocatorTypeOK'
<1>0. allocating \in [AllocateThreads -> Worker(AllocatePcs)]
  BY DEF AllocatorTypeOK
<1>1. CASE FetchVmsToAllocate(w)
  <2>1. QuietVms /\ QuietJobs
    BY <1>1, QuietSetVmStatus, QuietUnchanged
       DEF FetchVmsToAllocate, GetVmsToAllocate, VmStatuses
  <2>2. PICK S \in SUBSET Vms :
           allocating' = [allocating EXCEPT ![w].pc = "loop", ![w].todo = S]
    BY <1>1 DEF FetchVmsToAllocate, VmsIn
  <2>3. allocating' \in [AllocateThreads -> Worker(AllocatePcs)]
    BY <2>2, <1>0 DEF Worker, AllocatePcs
  <2>4. AllocatorTypeOK'
    BY <1>1, <2>3 DEF FetchVmsToAllocate, AllocatorTypeOK
  <2> QED BY <2>1, <2>4
<1>2. CASE \E v \in Vms : CreateInstance(w, v)
  <2>1. PICK v \in Vms : CreateInstance(w, v)
    BY <1>2
  <2>2. instance' \in [Vms -> {"none", "running", "gone"}]
    BY <2>1 DEF CreateInstance, RunInstance, AllocatorTypeOK
  <2>3. allocating' \in [AllocateThreads -> Worker(AllocatePcs)]
    <3>1. CASE allocating' = [allocating EXCEPT ![w].pc = "start", ![w].vm = v,
                                                ![w].todo = @ \ {v}]
      <4> DEFINE r == [allocating[w] EXCEPT !.pc = "start", !.vm = v,
                                        !.todo = @ \ {v}]
      <4>1. allocating[w] \in Worker(AllocatePcs)
        BY <1>0
      <4>2. r \in Worker(AllocatePcs)
        BY <4>1 DEF Worker, AllocatePcs
      <4>3. allocating' = [allocating EXCEPT ![w] = r]
        BY <1>0, <3>1 DEF Worker
      <4> HIDE DEF r
      <4> QED BY <1>0, <4>2, <4>3
    <3>2. CASE allocating' = [allocating EXCEPT ![w].todo = @ \ {v},
                                                ![w].failed = @ \cup {v}]
      BY <3>2, <1>0 DEF Worker, AllocatePcs
    <3> QED BY <2>1, <3>1, <3>2 DEF CreateInstance
  <2> QED BY <2>1, <2>2, <2>3, QuietUnchanged DEF CreateInstance, AllocatorTypeOK
<1>3. CASE StartInstance(w)
  BY <1>3, QuietUnchanged DEF StartInstance, AllocatorTypeOK, Worker, AllocatePcs
<1>4. CASE SaveAllocation(w)
  <2>1. QuietJobs
    BY <1>4, QuietUnchanged DEF SaveAllocation, SaveVmAllocationResult, storageVars
  <2>2. QuietVms
    <3>1. CASE UNCHANGED storageVars
      BY <3>1, QuietUnchanged DEF storageVars
    <3>2. CASE SaveVmAllocationResult(allocating[w].vm)
      BY <3>2, QuietSaveAllocation
    <3> QED BY <1>4, <3>1, <3>2 DEF SaveAllocation
  <2>3. allocating' = [allocating EXCEPT ![w].pc = "loop", ![w].vm = NoVm]
    BY <1>4 DEF SaveAllocation
  <2>4. allocating' \in [AllocateThreads -> Worker(AllocatePcs)]
    BY <2>3, <1>0 DEF Worker, AllocatePcs
  <2>5. AllocatorTypeOK'
    BY <1>4, <2>4 DEF SaveAllocation, AllocatorTypeOK
  <2> QED BY <2>1, <2>2, <2>5
<1>5. CASE AllocateBatchDone(w)
  BY <1>5, QuietUnchanged DEF AllocateBatchDone, IdleWorker, AllocatorTypeOK, Worker, AllocatePcs
<1>6. CASE RollbackRestart(w)
  BY <1>6, QuietRestartAllocatingVms DEF RollbackRestart, AllocatorTypeOK, Worker, AllocatePcs
<1>7. CASE RollbackTerminate(w)
  BY <1>7, QuietTerminateAllocatingVms DEF RollbackTerminate, IdleWorker, AllocatorTypeOK, Worker, AllocatePcs
<1>8. CASE AllocateAborted(w)
  BY <1>8, QuietUnchanged DEF AllocateAborted, IdleWorker, AllocatorTypeOK, Worker, AllocatePcs
<1> QED BY <1>1, <1>2, <1>3, <1>4, <1>5, <1>6, <1>7, <1>8 DEF AllocateStep

(***************************************************************************)
(* Allocator::terminate is quiet and keeps its own state well formed.      *)
(***************************************************************************)
LEMMA QuietTerminate ==
  ASSUME StorageTypeOK, AllocatorTypeOK, NEW w \in TerminateThreads,
         TerminateStep(w) \/ TerminateAborted(w)
  PROVE  QuietVms /\ QuietJobs /\ AllocatorTypeOK'
<1>0. terminating \in [TerminateThreads -> Worker(TerminatePcs)]
  BY DEF AllocatorTypeOK
<1>1. CASE FetchVmsToTerminate(w)
  <2>1. QuietVms /\ QuietJobs
    BY <1>1, QuietSetVmStatus, QuietUnchanged
       DEF FetchVmsToTerminate, GetVmsToTerminate, VmStatuses
  <2>2. \/ UNCHANGED terminating
        \/ \E S \in SUBSET Vms :
              terminating' = [terminating EXCEPT ![w].pc = "loop", ![w].todo = S]
    BY <1>1 DEF FetchVmsToTerminate, VmsIn
  <2>3. terminating' \in [TerminateThreads -> Worker(TerminatePcs)]
    BY <1>0, <2>2 DEF Worker, TerminatePcs
  <2>4. AllocatorTypeOK'
    BY <1>1, <2>3 DEF FetchVmsToTerminate, AllocatorTypeOK
  <2> QED BY <2>1, <2>4
<1>2. CASE \E v \in Vms : TerminateInstance(w, v)
  <2>1. PICK v \in Vms : TerminateInstance(w, v)
    BY <1>2
  <2>2. instance' \in [Vms -> {"none", "running", "gone"}]
    BY <2>1 DEF TerminateInstance, AllocatorTypeOK
  <2>3. terminating' \in [TerminateThreads -> Worker(TerminatePcs)]
    <3>1. CASE terminating' = [terminating EXCEPT ![w].pc = "save", ![w].vm = v,
                                                  ![w].todo = @ \ {v}]
      <4> DEFINE r == [terminating[w] EXCEPT !.pc = "save", !.vm = v,
                                        !.todo = @ \ {v}]
      <4>1. terminating[w] \in Worker(TerminatePcs)
        BY <1>0
      <4>2. r \in Worker(TerminatePcs)
        BY <4>1 DEF Worker, TerminatePcs
      <4>3. terminating' = [terminating EXCEPT ![w] = r]
        BY <1>0, <3>1 DEF Worker
      <4> HIDE DEF r
      <4> QED BY <1>0, <4>2, <4>3
    <3>2. CASE terminating' = [terminating EXCEPT ![w].todo = @ \ {v},
                                                  ![w].failed = @ \cup {v}]
      BY <3>2, <1>0 DEF Worker, TerminatePcs
    <3> QED BY <2>1, <3>1, <3>2 DEF TerminateInstance
  <2> QED BY <2>1, <2>2, <2>3, QuietUnchanged DEF TerminateInstance, AllocatorTypeOK
<1>3. CASE SaveTermination(w)
  <2>1. QuietVms /\ QuietJobs
    BY <1>3, QuietSetVmStatus, QuietUnchanged
       DEF SaveTermination, SaveVmTerminationResult, storageVars, VmStatuses
  <2>2. terminating' = [terminating EXCEPT ![w].pc = "loop", ![w].vm = NoVm]
    BY <1>3 DEF SaveTermination
  <2>3. terminating' \in [TerminateThreads -> Worker(TerminatePcs)]
    BY <2>2, <1>0 DEF Worker, TerminatePcs
  <2>4. AllocatorTypeOK'
    BY <1>3, <2>3 DEF SaveTermination, AllocatorTypeOK
  <2> QED BY <2>1, <2>4
<1>4. CASE TerminateBatchDone(w)
  BY <1>4, QuietSetVmStatus, QuietUnchanged
     DEF TerminateBatchDone, ReturnUnterminatedVms, storageVars, VmStatuses,
         IdleWorker, AllocatorTypeOK, Worker, TerminatePcs
<1>5. CASE TerminateAborted(w)
  BY <1>5, QuietUnchanged DEF TerminateAborted, IdleWorker, AllocatorTypeOK, Worker, TerminatePcs
<1> QED BY <1>1, <1>2, <1>3, <1>4, <1>5 DEF TerminateStep

(***************************************************************************)
(* Every step of the allocator is quiet and keeps its state well formed.   *)
(***************************************************************************)
LEMMA QuietAllocator ==
  ASSUME StorageTypeOK, AllocatorTypeOK, AllocatorStep
  PROVE  QuietVms /\ QuietJobs /\ AllocatorTypeOK'
<1>1. CASE \E w \in AllocateThreads : AllocateStep(w) \/ AllocateAborted(w)
  BY <1>1, QuietAllocate
<1>2. CASE \E w \in TerminateThreads : TerminateStep(w) \/ TerminateAborted(w)
  BY <1>2, QuietTerminate
<1>3. CASE \E m \in MonitorThreads : GetAllocatedVms(m) \/ TerminateUntrackedVms(m)
  BY <1>3, QuietUnchanged
     DEF GetAllocatedVms, TerminateUntrackedVms, AllocatorTypeOK, Untracking
<1>4. CASE \E v \in Vms : InstanceLost(v)
  BY <1>4, QuietUnchanged DEF InstanceLost, AllocatorTypeOK
<1> QED BY <1>1, <1>2, <1>3, <1>4 DEF AllocatorStep

=============================================================================
