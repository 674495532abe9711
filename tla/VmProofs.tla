------------------------------ MODULE VmProofs ------------------------------
(***************************************************************************)
(* Theorems about VM rows: who works on a row, what a Terminated row says  *)
(* about its instance, where plans put jobs, and the books of a VM.        *)
(***************************************************************************)
EXTENDS LifecycleProofs

----------------------------------------------------------------------------
(* What the steps outside Allocator::allocate and terminate do to a row.   *)

(***************************************************************************)
(* One row in one step of a client, an agent, the failure detector or a    *)
(* replica: its status and its cloud id.                                   *)
(***************************************************************************)
RowStep(v) ==
    \/ /\ vms'[v].status = vms[v].status
       /\ vms'[v].hasCloudId = vms[v].hasCloudId
    \/ /\ vms[v].status = "Allocating"
       /\ v \in MayBeStale
       /\ vms'[v].status \in {"PendingAllocation", "Terminated"}
       /\ vms'[v].hasCloudId = vms[v].hasCloudId
    \/ /\ vms[v].status # "none"
       /\ vms'[v].status = "PendingTermination"
       /\ vms'[v].hasCloudId = vms[v].hasCloudId
    \/ /\ vms[v].status = "Allocated"
       /\ vms'[v].status = "AgentStarted"
       /\ vms'[v].hasCloudId = vms[v].hasCloudId
    \/ /\ vms[v].status = "none"
       /\ vms'[v].status = "PendingAllocation"
       /\ ~vms'[v].hasCloudId

(***************************************************************************)
(* setVmStatus_ and the updates like it change the status of their rows    *)
(* and nothing else.                                                       *)
(***************************************************************************)
LEMMA SetVmStatusRows ==
  ASSUME StorageTypeOK, NEW S, NEW st, SetVmStatus(S, st), NEW v \in Vms
  PROVE  /\ vms'[v].status = IF v \in S THEN st ELSE vms[v].status
         /\ vms'[v].hasCloudId = vms[v].hasCloudId
         /\ vms'[v].idle = vms[v].idle
         /\ vms'[v].total = vms[v].total
         /\ vms'[v].restarts = vms[v].restarts
BY DEF SetVmStatus, StorageTypeOK, VmRow

(***************************************************************************)
(* restartAllocatingVms_ moves its rows from Allocating back to            *)
(* PendingAllocation, and touches neither capacity nor cloud id.           *)
(***************************************************************************)
LEMMA RestartAllocatingRows ==
  ASSUME StorageTypeOK, NEW S, RestartAllocatingVms(S), NEW v \in Vms
  PROVE  /\ v \in S => vms[v].status = "Allocating"
         /\ vms'[v].status = IF v \in S THEN "PendingAllocation" ELSE vms[v].status
         /\ vms'[v].hasCloudId = vms[v].hasCloudId
         /\ vms'[v].idle = vms[v].idle
         /\ vms'[v].total = vms[v].total
<1>1. vms[v] \in VmRow
  BY DEF StorageTypeOK
<1>2. v \in S => vms[v].status = "Allocating"
  BY DEF RestartAllocatingVms, VmsIn
<1>3. CASE v \in S
  <2>1. PICK r : vms'[v] = [vms[v] EXCEPT !.status = "PendingAllocation",
                                          !.restarts = r]
    BY <1>3 DEF RestartAllocatingVms
  <2> QED BY <1>1, <1>2, <1>3, <2>1 DEF VmRow
<1>4. CASE v \notin S
  BY <1>4 DEF RestartAllocatingVms
<1> QED BY <1>2, <1>3, <1>4

(***************************************************************************)
(* Releases change idle capacities only.                                   *)
(***************************************************************************)
LEMMA RowsReleased ==
  ASSUME StorageTypeOK, NEW S \in SUBSET Jobs, vms' = ReleaseVmResources(S)
  PROVE  \A v \in Vms : RowStep(v)
BY ReleaseType DEF RowStep

(***************************************************************************)
(* Clients, agents and the failure detector move rows as RowStep says.     *)
(***************************************************************************)
LEMMA RowsOutside ==
  ASSUME TypeOK, ClientStep \/ AgentStep \/ MonitorStep
  PROVE  \A v \in Vms : RowStep(v)
<1>0. StorageTypeOK /\ \A v \in Vms : vms[v] \in VmRow
  BY DEF TypeOK, StorageTypeOK
<1>1. ASSUME UNCHANGED vms PROVE \A v \in Vms : RowStep(v)
  BY <1>1 DEF RowStep
<1>2. ASSUME NEW S \in SUBSET UnfinishedJobs, CancelJobs(S)
      PROVE  \A v \in Vms : RowStep(v)
  <2>1. {j \in S : jobs[j].status = "Queued"} \in SUBSET Jobs
    BY DEF UnfinishedJobs
  <2> QED BY <1>0, <1>2, <2>1, RowsReleased DEF CancelJobs
<1>3. CASE ClientStep
  <2>1. PICK t \in Tasks : AddTask(t) \/ CancelTask(t)
    BY <1>3 DEF ClientStep
  <2> QED BY <1>1, <1>2, <2>1 DEF AddTask, CancelTask
<1>4. CASE AgentStep
  <2>1. ASSUME NEW u \in Vms, AgentPoll(u) PROVE \A v \in Vms : RowStep(v)
    BY <1>0, <2>1 DEF AgentPoll, GetAssignedJobs, RowStep, StorageTypeOK, VmRow
  <2>2. ASSUME NEW u \in Vms, NEW j \in Jobs, NEW st, AgentReport(u, j, st)
        PROVE  \A v \in Vms : RowStep(v)
    <3>1. {j} \in SUBSET Jobs
      OBVIOUS
    <3>2. UNCHANGED vms \/ vms' = ReleaseVmResources({j})
      BY <2>2 DEF AgentReport, UpdateJobState, storageVars
    <3> QED BY <1>0, <1>1, <3>1, <3>2, RowsReleased
  <2>3. ASSUME NEW u \in Vms, NEW j \in Jobs, AgentReportLost(u, j)
        PROVE  \A v \in Vms : RowStep(v)
    BY <1>1, <2>3 DEF AgentReportLost, storageVars
  <2> QED BY <1>4, <2>1, <2>2, <2>3 DEF AgentStep
<1>5. CASE MonitorStep
  <2>1. CASE HandleStaleAllocatingVms
    <3>1. PICK S \in SUBSET MayBeStale :
             RestartAllocatingVms(S) \/ TerminateAllocatingVms(S)
      BY <2>1 DEF HandleStaleAllocatingVms
    <3>2. \A v \in MayBeStale : vms[v].status = "Allocating"
      BY DEF MayBeStale, VmsIn
    <3>3. CASE RestartAllocatingVms(S)
      BY <1>0, <3>1, <3>2, <3>3, RestartAllocatingRows DEF RowStep
    <3>4. CASE TerminateAllocatingVms(S)
      <4>1. SetVmStatus(S, "Terminated")
        BY <3>4 DEF TerminateAllocatingVms, TerminateVmsWhere
      <4> QED BY <1>0, <3>1, <3>2, <4>1, SetVmStatusRows DEF RowStep
    <3> QED BY <3>1, <3>3, <3>4
  <2>2. CASE HandleInactiveAgents \/ HandleVmsWithoutAgents
    <3>1. PICK S \in SUBSET Vms : /\ SetVmStatus(S, "PendingTermination")
                                  /\ \A v \in S : vms[v].status # "none"
      BY <2>2 DEF HandleInactiveAgents, HandleVmsWithoutAgents,
                  TerminateVmsWithInactiveAgents, TerminateVmsWithoutAgents,
                  TerminateVmsWhere, VmsIn
    <3> QED BY <1>0, <3>1, SetVmStatusRows DEF RowStep
  <2>3. CASE CancelOverdueJobs
    BY <1>2, <2>3 DEF CancelOverdueJobs, CancelTimedOutJobs
  <2> QED BY <1>5, <2>1, <2>2, <2>3 DEF MonitorStep
<1> QED BY <1>3, <1>4, <1>5

(***************************************************************************)
(* A plan inserts new rows and marks rows of its snapshot for termination; *)
(* it moves no row in any other way.                                       *)
(***************************************************************************)
LEMMA RowsPlanned ==
  ASSUME Inv, SchedulerStep
  PROVE  \A v \in Vms : RowStep(v)
<1>0. StorageTypeOK /\ \A v \in Vms : vms[v] \in VmRow
  BY DEF Inv, TypeOK, StorageTypeOK
<1>1. CASE UNCHANGED vms
  BY <1>1 DEF RowStep
<1>2. ASSUME NEW b \in Backends, NEW c \in Assign(b), ApplyVmChanges(b, c)
      PROVE  \A v \in Vms : RowStep(v)
  <2> SUFFICES ASSUME NEW v \in Vms PROVE RowStep(v)
    OBVIOUS
  <2>1. CASE v \in NewVms(c)
    <3>1. vms[v].status = "none"
      BY <2>1 DEF NewVms, FreshVms, VmsIn
    <3>2. PICK s, i : vms'[v] = [NoVmRow EXCEPT !.status = "PendingAllocation",
                                               !.total = s, !.idle = i]
      BY <1>2, <2>1 DEF ApplyVmChanges
    <3>3. vms'[v].status = "PendingAllocation" /\ vms'[v].hasCloudId = FALSE
      BY <3>2 DEF NoVmRow
    <3> QED BY <3>1, <3>3 DEF RowStep
  <2>2. CASE v \notin NewVms(c)
    <3>1. PICK st, i : /\ vms'[v] = [vms[v] EXCEPT !.status = st, !.idle = i]
                       /\ \/ st = vms[v].status
                          \/ v \in VmsToTerminate(b, c) /\ st = "PendingTermination"
      BY <1>2, <2>2 DEF ApplyVmChanges
    <3>2. v \in VmsToTerminate(b, c) => vms[v].status # "none"
      BY DEF VmsToTerminate, Inv, SeenVmsExist
    <3>3. vms'[v].status = st /\ vms'[v].hasCloudId = vms[v].hasCloudId
      BY <1>0, <3>1 DEF VmRow
    <3> QED BY <3>1, <3>2, <3>3 DEF RowStep
  <2> QED BY <2>1, <2>2
<1> QED BY <1>1, <1>2 DEF SchedulerStep, CommitPlanChange, storageVars

----------------------------------------------------------------------------
(* Who works on a row.                                                     *)

\* The rows that are w's to save or to restart: what it has claimed and not
\* yet saved or handed back.  Without restarts nothing is handed back.
Claims(w) ==
    {v \in Vms : \/ v \in allocating[w].todo
                 \/ v = allocating[w].vm
                 \/ /\ v \in allocating[w].failed
                    /\ allocating[w].pc # "terminateFailed" \/ VmRestartAttempts = 0}

\* Statuses in which a row is waiting for a worker, or is past allocation.
UnclaimedStatuses == {"none", "PendingAllocation", "Allocated", "AgentStarted"}

\* A worker's batch is split into the rows to do, the one in hand, the failed.
WorkerInv(w) ==
    /\ allocating[w].pc \in {"idle", "loop"} => allocating[w].vm = NoVm
    /\ allocating[w].pc \in {"start", "save"} => allocating[w].vm \in Vms
    /\ allocating[w].vm \notin allocating[w].todo \cup allocating[w].failed
    /\ allocating[w].todo \cap allocating[w].failed = {}
    /\ allocating[w].pc = "idle" => allocating[w].failed = {}

(***************************************************************************)
(* The inductive invariant behind OneWorkerPerVm.  It speaks of the failed *)
(* rows too: a worker restarts them at the end of its batch, and were one  *)
(* of them another worker's, it would be handed out twice.                 *)
(***************************************************************************)
ClaimsAreExclusive ==
    /\ \A w \in AllocateThreads : WorkerInv(w)
    /\ \A w \in AllocateThreads : \A v \in Claims(w) :
          vms[v].status \notin UnclaimedStatuses
    /\ \A w, x \in AllocateThreads : w # x => Claims(w) \cap Claims(x) = {}

(***************************************************************************)
(* Steps of everyone but the allocate threads respect the claims: under    *)
(* TimelyWorkers the failure detector restarts no claimed row.             *)
(***************************************************************************)
LEMMA ClaimsOutside ==
  ASSUME TimelyWorkers, ClaimsAreExclusive, UNCHANGED allocating,
         \A v \in Vms : \/ RowStep(v)
                        \/ vms'[v].status \notin UnclaimedStatuses
  PROVE  ClaimsAreExclusive'
<1>1. \A w \in AllocateThreads : /\ Claims(w)' = Claims(w)
                                 /\ WorkerInv(w)' <=> WorkerInv(w)
  BY DEF Claims, WorkerInv
<1>2. ASSUME NEW w \in AllocateThreads, NEW v \in Claims(w)
      PROVE  vms'[v].status \notin UnclaimedStatuses
  <2>1. v \in Vms /\ vms[v].status \notin UnclaimedStatuses
    BY <1>2 DEF ClaimsAreExclusive, Claims
  <2>2. v \notin MayBeStale
    BY <1>2, <2>1 DEF MayBeStale, InHand, Claims
  <2> QED BY <2>1, <2>2 DEF RowStep, UnclaimedStatuses
<1> QED BY <1>1, <1>2 DEF ClaimsAreExclusive

(***************************************************************************)
(* An allocate thread that only gives up claims, and touches no row that   *)
(* is still claimed, respects the claims of the others.                    *)
(***************************************************************************)
LEMMA ClaimsReleased ==
  ASSUME ClaimsAreExclusive, NEW w \in AllocateThreads,
         \A x \in AllocateThreads : x # w => allocating'[x] = allocating[x],
         WorkerInv(w)', Claims(w)' \subseteq Claims(w),
         \A v \in Vms : \/ vms'[v].status = vms[v].status
                        \/ vms'[v].status \notin UnclaimedStatuses
                        \/ v \in Claims(w) /\ v \notin Claims(w)'
  PROVE  ClaimsAreExclusive'
<1>1. \A x \in AllocateThreads : x # w => /\ Claims(x)' = Claims(x)
                                          /\ WorkerInv(x)' <=> WorkerInv(x)
  BY DEF Claims, WorkerInv
<1>2. \A x \in AllocateThreads : Claims(x)' \subseteq Claims(x) /\ WorkerInv(x)'
  BY <1>1 DEF ClaimsAreExclusive
<1>3. \A x, y \in AllocateThreads : x # y => Claims(x)' \cap Claims(y)' = {}
  BY <1>2 DEF ClaimsAreExclusive
<1>4. ASSUME NEW x \in AllocateThreads, NEW v \in Claims(x)'
      PROVE  vms'[v].status \notin UnclaimedStatuses
  <2>1. v \in Claims(x) /\ v \in Vms
    BY <1>2, <1>4 DEF Claims
  <2>2. vms[v].status \notin UnclaimedStatuses
    BY <2>1 DEF ClaimsAreExclusive
  <2>3. ~(v \in Claims(w) /\ v \notin Claims(w)')
    BY <1>4, <2>1 DEF ClaimsAreExclusive
  <2> QED BY <2>1, <2>2, <2>3
<1> QED BY <1>2, <1>3, <1>4 DEF ClaimsAreExclusive

(***************************************************************************)
(* Allocator::allocate keeps the claims exclusive: it claims rows that are *)
(* PendingAllocation, hence nobody's, and restarts rows of its own.        *)
(***************************************************************************)
LEMMA ClaimsAllocate ==
  ASSUME TypeOK, ClaimsAreExclusive, NEW w \in AllocateThreads,
         AllocateStep(w) \/ AllocateAborted(w)
  PROVE  ClaimsAreExclusive'
<1>0. /\ StorageTypeOK
      /\ allocating \in [AllocateThreads -> Worker(AllocatePcs)]
      /\ allocating[w] \in Worker(AllocatePcs)
      /\ WorkerInv(w)
      /\ NoVm \notin Vms
  BY StorageAssumption DEF TypeOK, AllocatorTypeOK, ClaimsAreExclusive
<1> DEFINE a == allocating[w]
<1>1. CASE FetchVmsToAllocate(w)
  <2>1. PICK S \in SUBSET VmsIn("PendingAllocation") :
           /\ SetVmStatus(S, "Allocating")
           /\ allocating' = [allocating EXCEPT ![w].pc = "loop", ![w].todo = S]
    BY <1>1 DEF FetchVmsToAllocate, GetVmsToAllocate
  <2>2. /\ allocating'[w].pc = "loop" /\ allocating'[w].todo = S
        /\ allocating'[w].vm = NoVm /\ allocating'[w].failed = {}
        /\ \A x \in AllocateThreads : x # w => allocating'[x] = allocating[x]
    BY <1>0, <1>1, <2>1 DEF Worker, FetchVmsToAllocate, WorkerInv
  <2>3. S \subseteq Vms /\ \A v \in S : vms[v].status = "PendingAllocation"
    BY DEF VmsIn
  <2>4. Claims(w)' = S
    BY <1>0, <2>2, <2>3 DEF Claims
  <2>5. \A x \in AllocateThreads : x # w => /\ Claims(x)' = Claims(x)
                                            /\ WorkerInv(x)' <=> WorkerInv(x)
    BY <2>2 DEF Claims, WorkerInv
  <2>6. \A x \in AllocateThreads : Claims(x) \cap S = {}
    BY <2>3 DEF ClaimsAreExclusive, UnclaimedStatuses
  <2>7. \A x, y \in AllocateThreads : x # y => Claims(x)' \cap Claims(y)' = {}
    BY <2>4, <2>5, <2>6 DEF ClaimsAreExclusive
  <2>8. \A x \in AllocateThreads : WorkerInv(x)'
    BY <1>0, <2>2, <2>3, <2>5 DEF WorkerInv, ClaimsAreExclusive
  <2>9. ASSUME NEW x \in AllocateThreads, NEW v \in Claims(x)'
        PROVE  vms'[v].status \notin UnclaimedStatuses
    <3>1. v \in Vms
      BY <2>9 DEF Claims
    <3>2. vms'[v].status = IF v \in S THEN "Allocating" ELSE vms[v].status
      BY <1>0, <2>1, <3>1, SetVmStatusRows
    <3>3. v \notin S => v \in Claims(x)
      BY <2>4, <2>5, <2>9
    <3> QED BY <3>2, <3>3 DEF ClaimsAreExclusive, UnclaimedStatuses
  <2> QED BY <2>7, <2>8, <2>9 DEF ClaimsAreExclusive
<1>2. ASSUME NEW v \in Vms, CreateInstance(w, v) PROVE ClaimsAreExclusive'
  <2>1. /\ a.pc = "loop" /\ v \in a.todo /\ a.vm = NoVm /\ vms' = vms
    BY <1>0, <1>2 DEF CreateInstance, WorkerInv
  <2>2. /\ allocating'[w].todo = a.todo \ {v}
        /\ \/ /\ allocating'[w].pc = "start"
              /\ allocating'[w].vm = v /\ allocating'[w].failed = a.failed
           \/ /\ allocating'[w].pc = "loop"
              /\ allocating'[w].vm = NoVm /\ allocating'[w].failed = a.failed \cup {v}
        /\ \A x \in AllocateThreads : x # w => allocating'[x] = allocating[x]
    <3>1. CASE allocating' = [allocating EXCEPT ![w].pc = "start", ![w].vm = v,
                                                ![w].todo = @ \ {v}]
      BY <1>0, <2>1, <3>1 DEF Worker
    <3>2. CASE allocating' = [allocating EXCEPT ![w].todo = @ \ {v},
                                                ![w].failed = @ \cup {v}]
      BY <1>0, <2>1, <3>2 DEF Worker
    <3> QED BY <1>2, <3>1, <3>2 DEF CreateInstance
  <2>3. a.todo \subseteq Vms
    BY <1>0 DEF Worker
  <2>4. WorkerInv(w)'
    BY <1>0, <2>1, <2>2, <2>3 DEF WorkerInv
  <2>5. Claims(w)' \subseteq Claims(w)
    BY <1>0, <2>1, <2>2 DEF Claims
  <2> QED BY <2>1, <2>2, <2>4, <2>5, ClaimsReleased
<1>3. CASE StartInstance(w)
  <2>1. a.pc = "start" /\ vms' = vms
    BY <1>3 DEF StartInstance
  <2>2. /\ allocating'[w].todo = a.todo
        /\ \/ /\ allocating'[w].pc = "save"
              /\ allocating'[w].vm = a.vm /\ allocating'[w].failed = a.failed
           \/ /\ allocating'[w].pc = "loop"
              /\ allocating'[w].vm = NoVm
              /\ allocating'[w].failed = a.failed \cup {a.vm}
        /\ \A x \in AllocateThreads : x # w => allocating'[x] = allocating[x]
    BY <1>0, <1>3 DEF StartInstance, Worker
  <2>3. a.todo \subseteq Vms /\ a.failed \subseteq Vms
    BY <1>0 DEF Worker
  <2>4. WorkerInv(w)'
    BY <1>0, <2>1, <2>2, <2>3 DEF WorkerInv
  <2>5. Claims(w)' \subseteq Claims(w)
    BY <1>0, <2>1, <2>2 DEF Claims
  <2> QED BY <2>1, <2>2, <2>4, <2>5, ClaimsReleased
<1>4. CASE SaveAllocation(w)
  <2>1. /\ a.pc = "save"
        /\ \/ vms' = vms
           \/ vms' = [vms EXCEPT ![a.vm].status = "Allocated",
                                 ![a.vm].hasCloudId = TRUE]
    BY <1>4 DEF SaveAllocation, SaveVmAllocationResult, storageVars
  <2>2. /\ allocating'[w].todo = a.todo /\ allocating'[w].failed = a.failed
        /\ allocating'[w].pc = "loop" /\ allocating'[w].vm = NoVm
        /\ \A x \in AllocateThreads : x # w => allocating'[x] = allocating[x]
    BY <1>0, <1>4 DEF SaveAllocation, Worker
  <2>3. a.todo \subseteq Vms /\ a.failed \subseteq Vms
    BY <1>0 DEF Worker
  <2>4. WorkerInv(w)'
    BY <1>0, <2>1, <2>2, <2>3 DEF WorkerInv
  <2>5. Claims(w)' \subseteq Claims(w)
    BY <1>0, <2>1, <2>2 DEF Claims
  <2>6. a.vm \notin Claims(w)'
    BY <1>0, <2>2 DEF Claims, WorkerInv
  <2>7. \A v \in Vms : \/ vms'[v].status = vms[v].status
                       \/ v = a.vm
    BY <1>0, <2>1 DEF StorageTypeOK
  <2>8. \A v \in Vms : v = a.vm => v \in Claims(w)
    BY DEF Claims
  <2> QED BY <2>2, <2>4, <2>5, <2>6, <2>7, <2>8, ClaimsReleased
<1>5. ASSUME allocating' = [allocating EXCEPT ![w] = IdleWorker],
             \A v \in Vms : \/ vms'[v].status = vms[v].status
                            \/ vms'[v].status \notin UnclaimedStatuses
      PROVE  ClaimsAreExclusive'
  <2>1. /\ allocating'[w].todo = {} /\ allocating'[w].failed = {}
        /\ allocating'[w].pc = "idle" /\ allocating'[w].vm = NoVm
        /\ \A x \in AllocateThreads : x # w => allocating'[x] = allocating[x]
    BY <1>0, <1>5 DEF IdleWorker
  <2>2. WorkerInv(w)' /\ Claims(w)' = {}
    BY <1>0, <2>1 DEF WorkerInv, Claims
  <2> QED BY <1>5, <2>1, <2>2, ClaimsReleased
<1>6. CASE AllocateBatchDone(w) \/ AllocateAborted(w)
  BY <1>5, <1>6 DEF AllocateBatchDone, AllocateAborted
<1>7. CASE RollbackTerminate(w)
  <2>1. PICK S : SetVmStatus(S, "Terminated")
    BY <1>7 DEF RollbackTerminate, TerminateAllocatingVms, TerminateVmsWhere
  <2> QED BY <1>0, <1>5, <1>7, <2>1, SetVmStatusRows
          DEF RollbackTerminate, UnclaimedStatuses
<1>8. CASE RollbackRestart(w)
  <2>1. PICK S \in SUBSET a.failed : RestartAllocatingVms(S)
    BY <1>8 DEF RollbackRestart
  <2>2. a.pc = "loop" /\ a.todo = {}
    BY <1>8 DEF RollbackRestart
  <2>3. /\ allocating'[w].todo = {} /\ allocating'[w].failed = a.failed
        /\ allocating'[w].pc = "terminateFailed" /\ allocating'[w].vm = NoVm
        /\ \A x \in AllocateThreads : x # w => allocating'[x] = allocating[x]
    BY <1>0, <1>8, <2>2 DEF RollbackRestart, Worker, WorkerInv
  <2>4. a.failed \subseteq Vms
    BY <1>0 DEF Worker
  <2>5. WorkerInv(w)' /\ Claims(w)' \subseteq Claims(w)
    BY <1>0, <2>2, <2>3, <2>4 DEF WorkerInv, Claims
  <2>6. \A v \in Vms : v \in S => v \in Claims(w) /\ v \notin Claims(w)'
    <3>1. VmRestartAttempts = 0 => S = {}
      <4>1. \A v \in S : v \in Vms /\ vms[v].restarts < VmRestartAttempts
        BY <2>1 DEF RestartAllocatingVms, VmsIn
      <4>2. \A v \in Vms : vms[v].restarts \in Nat
        BY <1>0, StorageAssumption DEF StorageTypeOK, VmRow
      <4> QED BY <4>1, <4>2
    <3>2. VmRestartAttempts # 0 => Claims(w)' = {}
      BY <1>0, <2>3 DEF Claims
    <3> QED BY <2>1, <2>2, <3>1, <3>2 DEF Claims
  <2>7. \A v \in Vms : v \in S \/ vms'[v].status = vms[v].status
    BY <1>0, <2>1, RestartAllocatingRows
  <2> QED BY <2>3, <2>5, <2>6, <2>7, ClaimsReleased
<1> QED BY <1>1, <1>2, <1>3, <1>4, <1>6, <1>7, <1>8 DEF AllocateStep

(***************************************************************************)
(* The status changes of Allocator::terminate touch no waiting row.        *)
(***************************************************************************)
LEMMA TerminateRows ==
  ASSUME TypeOK, NEW w \in TerminateThreads, TerminateStep(w) \/ TerminateAborted(w)
  PROVE  /\ UNCHANGED allocating
         /\ \A v \in Vms :
               /\ vms'[v].hasCloudId = vms[v].hasCloudId
               /\ \/ vms'[v].status = vms[v].status
                  \/ vms'[v].status \in {"Terminating", "PendingTermination"}
                  \/ /\ terminating[w].pc = "save" /\ v = terminating[w].vm
                     /\ vms'[v].status = "Terminated"
<1>0. StorageTypeOK
  BY DEF TypeOK
<1>1. UNCHANGED allocating
  BY DEF TerminateStep, FetchVmsToTerminate, TerminateInstance, SaveTermination,
         TerminateBatchDone, TerminateAborted
<1>2. CASE UNCHANGED vms
  BY <1>1, <1>2
<1>3. CASE FetchVmsToTerminate(w) \/ TerminateBatchDone(w)
  <2>1. \/ UNCHANGED vms
        \/ \E S : \E st \in {"Terminating", "PendingTermination"} : SetVmStatus(S, st)
    BY <1>3 DEF FetchVmsToTerminate, GetVmsToTerminate, TerminateBatchDone,
                ReturnUnterminatedVms, storageVars
  <2> QED BY <1>0, <1>1, <1>2, <2>1, SetVmStatusRows
<1>4. CASE SaveTermination(w)
  <2>1. /\ terminating[w].pc = "save"
        /\ UNCHANGED vms \/ SetVmStatus({terminating[w].vm}, "Terminated")
    BY <1>4 DEF SaveTermination, SaveVmTerminationResult, storageVars
  <2> QED BY <1>0, <1>1, <1>2, <2>1, SetVmStatusRows
<1>5. CASE (\E v \in Vms : TerminateInstance(w, v)) \/ TerminateAborted(w)
  BY <1>2, <1>5 DEF TerminateInstance, TerminateAborted
<1> QED BY <1>3, <1>4, <1>5 DEF TerminateStep

(***************************************************************************)
(* Every step keeps the claims exclusive, if no worker is overtaken.       *)
(***************************************************************************)
LEMMA ClaimsNext ==
  ASSUME TimelyWorkers, Inv, ClaimsAreExclusive, [Next]_vars
  PROVE  ClaimsAreExclusive'
<1>0. TypeOK
  BY DEF Inv
<1>1. CASE ClientStep \/ AgentStep \/ MonitorStep
  <2>1. UNCHANGED allocating
    BY <1>1 DEF ClientStep, AgentStep, AgentPoll, AgentReport, AgentReportLost,
                MonitorStep, allocatorVars
  <2> QED BY <1>0, <1>1, <2>1, RowsOutside, ClaimsOutside
<1>2. CASE SchedulerStep /\ UNCHANGED <<allocatorVars, agent>>
  BY <1>2, RowsPlanned, ClaimsOutside DEF allocatorVars
<1>3. CASE AllocatorStep
  <2>1. CASE \E w \in AllocateThreads : AllocateStep(w) \/ AllocateAborted(w)
    BY <1>0, <2>1, ClaimsAllocate
  <2>2. ASSUME NEW w \in TerminateThreads, TerminateStep(w) \/ TerminateAborted(w)
        PROVE  ClaimsAreExclusive'
    <3>1. /\ UNCHANGED allocating
          /\ \A v \in Vms : \/ RowStep(v)
                            \/ vms'[v].status \notin UnclaimedStatuses
      BY <1>0, <2>2, TerminateRows DEF RowStep, UnclaimedStatuses
    <3> QED BY <3>1, ClaimsOutside
  <2>3. CASE UNCHANGED <<vms, allocating>>
    BY <2>3, ClaimsOutside DEF RowStep
  <2>4. CASE \/ \E m \in MonitorThreads :
                  GetAllocatedVms(m) \/ TerminateUntrackedVms(m)
             \/ \E v \in Vms : InstanceLost(v)
    BY <2>3, <2>4 DEF GetAllocatedVms, TerminateUntrackedVms, InstanceLost
  <2> QED BY <1>3, <2>1, <2>2, <2>4 DEF AllocatorStep
<1>4. CASE UNCHANGED vars
  BY <1>4, ClaimsOutside DEF vars, storageVars, allocatorVars, RowStep
<1> QED BY <1>1, <1>2, <1>3, <1>4 DEF Next

(***************************************************************************)
(* ClaimsAreExclusive holds in every reachable state.                      *)
(***************************************************************************)
LEMMA ClaimsInvariance ==
  ASSUME TimelyWorkers
  PROVE  Spec => []ClaimsAreExclusive
<1>1. Init => ClaimsAreExclusive
  BY StorageAssumption
     DEF Init, AllocatorInit, IdleWorker, ClaimsAreExclusive, Claims, WorkerInv
<1>2. Inv /\ ClaimsAreExclusive /\ [Next]_vars => ClaimsAreExclusive'
  BY ClaimsNext
<1> QED BY <1>1, <1>2, Invariance, PTL DEF Spec

(***************************************************************************)
(* No row is ever in the hands of two allocate threads, for any number of  *)
(* threads, rows and restarts, as long as allocationTimeLimit is longer    *)
(* than a worker's cloud calls: getVmsToAllocate claims a row only after   *)
(* every earlier claim on it has ended.                                    *)
(***************************************************************************)
THEOREM OneWorker ==
  ASSUME TimelyWorkers
  PROVE  Spec => []OneWorkerPerVm
<1>1. Spec => []ClaimsAreExclusive
  BY ClaimsInvariance
<1>2. Inv /\ ClaimsAreExclusive => OneWorkerPerVm
  <2> SUFFICES ASSUME Inv, ClaimsAreExclusive, NEW w \in AllocateThreads,
                      NEW x \in AllocateThreads, w # x,
                      NEW v \in (allocating[w].todo \cup {allocating[w].vm})
                                   \cap (allocating[x].todo \cup {allocating[x].vm}),
                      v # NoVm
               PROVE  FALSE
    BY DEF OneWorkerPerVm
  <2>1. v \in Vms
    BY DEF Inv, TypeOK, AllocatorTypeOK, Worker
  <2>2. v \in Claims(w) /\ v \in Claims(x)
    BY <2>1 DEF Claims
  <2> QED BY <2>2 DEF ClaimsAreExclusive
<1> QED BY <1>1, <1>2, Invariance, PTL

----------------------------------------------------------------------------
(* What a Terminated row says about its instance.                          *)

(***************************************************************************)
(* The inductive invariant behind TerminatedInstanceIsGone: a row gets its *)
(* cloud id when it becomes Allocated and never goes back to a status that *)
(* is terminated without a call to the cloud, and the thread that is about *)
(* to save a termination has seen the instance go.                         *)
(***************************************************************************)
GoneInv ==
    /\ \A v \in Vms :
          vms[v].status \in {"none", "PendingAllocation", "Allocating"}
              => ~vms[v].hasCloudId
    /\ \A w \in TerminateThreads : terminating[w].pc = "save" =>
          /\ terminating[w].vm \in Vms
          /\ instance[terminating[w].vm] = "gone"
    /\ TerminatedInstanceIsGone

\* The cloud never brings an instance back under the client token of its row.
GoneForGood == \A v \in Vms : instance[v] = "gone" => instance'[v] = "gone"

(***************************************************************************)
(* An instance that is gone stays gone: RunInstances with the client token *)
(* of the row creates no second one.                                       *)
(***************************************************************************)
LEMMA InstancesGoForGood == TypeOK /\ [Next]_vars => GoneForGood
<1> SUFFICES ASSUME TypeOK, [Next]_vars PROVE GoneForGood
  OBVIOUS
<1>0. instance \in [Vms -> {"none", "running", "gone"}]
  BY DEF TypeOK, AllocatorTypeOK
<1>1. CASE UNCHANGED instance
  BY <1>1 DEF GoneForGood
<1>2. CASE \/ ClientStep \/ AgentStep \/ MonitorStep
           \/ SchedulerStep /\ UNCHANGED <<allocatorVars, agent>>
           \/ UNCHANGED vars
  BY <1>1, <1>2 DEF ClientStep, AgentStep, AgentPoll, AgentReport, AgentReportLost,
                    MonitorStep, allocatorVars, vars
<1>3. ASSUME NEW w \in AllocateThreads, AllocateStep(w) \/ AllocateAborted(w)
      PROVE  GoneForGood
  <2>1. ASSUME NEW v \in Vms, CreateInstance(w, v) PROVE GoneForGood
    BY <1>0, <2>1 DEF CreateInstance, RunInstance, GoneForGood
  <2>2. CASE StartInstance(w)
    BY <1>0, <2>2 DEF StartInstance, GoneForGood
  <2>3. CASE \/ FetchVmsToAllocate(w) \/ SaveAllocation(w) \/ AllocateBatchDone(w)
             \/ RollbackRestart(w) \/ RollbackTerminate(w) \/ AllocateAborted(w)
    BY <1>1, <2>3 DEF FetchVmsToAllocate, SaveAllocation, AllocateBatchDone,
                      RollbackRestart, RollbackTerminate, AllocateAborted
  <2> QED BY <1>3, <2>1, <2>2, <2>3 DEF AllocateStep
<1>4. ASSUME NEW w \in TerminateThreads, TerminateStep(w) \/ TerminateAborted(w)
      PROVE  GoneForGood
  <2>1. ASSUME NEW v \in Vms, TerminateInstance(w, v) PROVE GoneForGood
    BY <1>0, <2>1 DEF TerminateInstance, GoneForGood
  <2>2. CASE \/ FetchVmsToTerminate(w) \/ SaveTermination(w)
             \/ TerminateBatchDone(w) \/ TerminateAborted(w)
    BY <1>1, <2>2 DEF FetchVmsToTerminate, SaveTermination, TerminateBatchDone,
                      TerminateAborted
  <2> QED BY <1>4, <2>1, <2>2 DEF TerminateStep
<1>5. ASSUME NEW m \in MonitorThreads, GetAllocatedVms(m) \/ TerminateUntrackedVms(m)
      PROVE  GoneForGood
  BY <1>0, <1>1, <1>5 DEF GetAllocatedVms, TerminateUntrackedVms, GoneForGood
<1>6. ASSUME NEW v \in Vms, InstanceLost(v) PROVE GoneForGood
  BY <1>0, <1>6 DEF InstanceLost, GoneForGood
<1> QED BY <1>2, <1>3, <1>4, <1>5, <1>6 DEF Next, AllocatorStep

(***************************************************************************)
(* Steps that move rows as RowStep says, and leave the terminate threads   *)
(* alone, keep GoneInv.                                                    *)
(***************************************************************************)
LEMMA GoneRows ==
  ASSUME GoneInv, GoneForGood, UNCHANGED terminating,
         \A v \in Vms :
            \/ RowStep(v)
            \/ /\ vms[v].status \in {"PendingAllocation", "Allocating"}
               /\ vms'[v].status \in {"PendingAllocation", "Allocating", "Terminated"}
               /\ vms'[v].hasCloudId = vms[v].hasCloudId
            \/ vms'[v].status = "Allocated"
  PROVE  GoneInv'
<1>1. ASSUME NEW v \in Vms
      PROVE  /\ vms'[v].status \in {"none", "PendingAllocation", "Allocating"}
                   => ~vms'[v].hasCloudId
             /\ vms'[v].status = "Terminated" /\ vms'[v].hasCloudId
                   => instance'[v] = "gone"
  <2>1. CASE RowStep(v)
    BY <2>1 DEF GoneInv, TerminatedInstanceIsGone, RowStep, GoneForGood
  <2>2. CASE ~RowStep(v)
    BY <2>2 DEF GoneInv
  <2> QED BY <2>1, <2>2
<1>2. \A w \in TerminateThreads : terminating'[w].pc = "save" =>
         /\ terminating'[w].vm \in Vms
         /\ instance'[terminating'[w].vm] = "gone"
  BY DEF GoneInv, GoneForGood
<1> QED BY <1>1, <1>2 DEF GoneInv, TerminatedInstanceIsGone

(***************************************************************************)
(* Every step keeps GoneInv, timely workers or not.                        *)
(***************************************************************************)
LEMMA GoneNext ==
  ASSUME Inv, GoneInv, [Next]_vars
  PROVE  GoneInv'
<1>0. /\ TypeOK /\ StorageTypeOK /\ GoneForGood
      /\ \A v \in Vms : vms[v] \in VmRow
      /\ terminating \in [TerminateThreads -> Worker(TerminatePcs)]
      /\ instance \in [Vms -> {"none", "running", "gone"}]
      /\ NoVm \notin Vms
  BY InstancesGoForGood, StorageAssumption
     DEF Inv, TypeOK, StorageTypeOK, AllocatorTypeOK
<1>1. CASE ClientStep \/ AgentStep \/ MonitorStep
  <2>1. UNCHANGED terminating
    BY <1>1 DEF ClientStep, AgentStep, AgentPoll, AgentReport, AgentReportLost,
                MonitorStep, allocatorVars
  <2> QED BY <1>0, <1>1, <2>1, RowsOutside, GoneRows
<1>2. CASE SchedulerStep /\ UNCHANGED <<allocatorVars, agent>>
  BY <1>0, <1>2, RowsPlanned, GoneRows DEF allocatorVars
<1>3. CASE UNCHANGED <<vms, terminating>>
  BY <1>0, <1>3, GoneRows DEF RowStep
<1>4. ASSUME NEW w \in AllocateThreads, AllocateStep(w) \/ AllocateAborted(w)
      PROVE  GoneInv'
  <2>1. UNCHANGED terminating
    BY <1>4 DEF AllocateStep, FetchVmsToAllocate, CreateInstance, StartInstance,
                SaveAllocation, AllocateBatchDone, RollbackRestart,
                RollbackTerminate, AllocateAborted
  <2>2. CASE FetchVmsToAllocate(w)
    <3>1. PICK S \in SUBSET VmsIn("PendingAllocation") : SetVmStatus(S, "Allocating")
      BY <2>2 DEF FetchVmsToAllocate, GetVmsToAllocate
    <3>2. \A v \in S : vms[v].status = "PendingAllocation"
      BY DEF VmsIn
    <3> QED BY <1>0, <2>1, <3>1, <3>2, SetVmStatusRows, GoneRows DEF RowStep
  <2>3. CASE SaveAllocation(w)
    <3>1. CASE UNCHANGED vms
      BY <1>3, <2>1, <3>1
    <3>2. CASE SaveVmAllocationResult(allocating[w].vm)
      <4>1. \A v \in Vms : vms'[v] = vms[v] \/ vms'[v].status = "Allocated"
        BY <1>0, <3>2 DEF SaveVmAllocationResult, StorageTypeOK, VmRow
      <4> QED BY <1>0, <2>1, <4>1, GoneRows DEF RowStep
    <3> QED BY <2>3, <3>1, <3>2 DEF SaveAllocation, storageVars
  <2>4. CASE RollbackRestart(w)
    <3>1. PICK S : RestartAllocatingVms(S)
      BY <2>4 DEF RollbackRestart
    <3> QED BY <1>0, <2>1, <3>1, RestartAllocatingRows, GoneRows DEF RowStep
  <2>5. CASE RollbackTerminate(w)
    <3>1. PICK S : /\ SetVmStatus(S, "Terminated")
                   /\ \A v \in S : vms[v].status = "Allocating"
      BY <2>5 DEF RollbackTerminate, TerminateAllocatingVms, TerminateVmsWhere, VmsIn
    <3> QED BY <1>0, <2>1, <3>1, SetVmStatusRows, GoneRows DEF RowStep
  <2>6. CASE \/ \E v \in Vms : CreateInstance(w, v)
             \/ StartInstance(w) \/ AllocateBatchDone(w) \/ AllocateAborted(w)
    BY <1>3, <2>1, <2>6 DEF CreateInstance, StartInstance, AllocateBatchDone,
                            AllocateAborted
  <2> QED BY <1>4, <2>2, <2>3, <2>4, <2>5, <2>6 DEF AllocateStep
<1>5. ASSUME NEW w \in TerminateThreads, TerminateStep(w) \/ TerminateAborted(w)
      PROVE  GoneInv'
  <2>1. \A v \in Vms :
           /\ vms'[v].hasCloudId = vms[v].hasCloudId
           /\ \/ vms'[v].status = vms[v].status
              \/ vms'[v].status \in {"Terminating", "PendingTermination"}
              \/ /\ terminating[w].pc = "save" /\ v = terminating[w].vm
                 /\ vms'[v].status = "Terminated"
    BY <1>0, <1>5, TerminateRows
  <2>2. ASSUME NEW v \in Vms
        PROVE  /\ vms'[v].status \in {"none", "PendingAllocation", "Allocating"}
                     => ~vms'[v].hasCloudId
               /\ vms'[v].status = "Terminated" /\ vms'[v].hasCloudId
                     => instance'[v] = "gone"
    BY <1>0, <2>1 DEF GoneInv, TerminatedInstanceIsGone, GoneForGood
  <2> DEFINE SeenGone ==
        /\ \A x \in TerminateThreads : x # w => terminating'[x] = terminating[x]
        /\ terminating'[w].pc = "save" =>
              /\ terminating'[w].vm \in Vms
              /\ instance'[terminating'[w].vm] = "gone"
  <2>3. SeenGone
    <3>1. terminating[w] \in Worker(TerminatePcs)
      BY <1>0
    <3>2. ASSUME NEW v \in Vms, TerminateInstance(w, v) PROVE SeenGone
      BY <1>0, <3>1, <3>2 DEF TerminateInstance, Worker
    <3>3. CASE FetchVmsToTerminate(w)
      <4>1. \/ UNCHANGED terminating
            \/ \E S : terminating' = [terminating EXCEPT ![w].pc = "loop",
                                                          ![w].todo = S]
        BY <3>3 DEF FetchVmsToTerminate
      <4> QED BY <1>0, <3>1, <3>3, <4>1 DEF FetchVmsToTerminate, Worker
    <3>4. CASE SaveTermination(w) \/ TerminateBatchDone(w) \/ TerminateAborted(w)
      BY <1>0, <3>1, <3>4 DEF SaveTermination, TerminateBatchDone, TerminateAborted,
                              IdleWorker, Worker
    <3> QED BY <1>5, <3>2, <3>3, <3>4 DEF TerminateStep
  <2>4. \A x \in TerminateThreads : terminating'[x].pc = "save" =>
           /\ terminating'[x].vm \in Vms
           /\ instance'[terminating'[x].vm] = "gone"
    BY <1>0, <2>3 DEF GoneInv, GoneForGood
  <2> QED BY <2>2, <2>4 DEF GoneInv, TerminatedInstanceIsGone
<1>6. CASE \/ \E m \in MonitorThreads : GetAllocatedVms(m) \/ TerminateUntrackedVms(m)
           \/ \E v \in Vms : InstanceLost(v)
           \/ UNCHANGED vars
  BY <1>3, <1>6 DEF GetAllocatedVms, TerminateUntrackedVms, InstanceLost,
                    vars, storageVars, allocatorVars
<1> QED BY <1>1, <1>2, <1>4, <1>5, <1>6 DEF Next, AllocatorStep

(***************************************************************************)
(* A row that records a termination and has a cloud id names an instance   *)
(* that is gone, whatever crashes, failed calls and overtaken workers come *)
(* in between: no instance is left running behind a Terminated row         *)
(* (saveVmTerminationResult, terminateAllocatingVms_).                     *)
(***************************************************************************)
THEOREM TerminatedGone == Spec => []TerminatedInstanceIsGone
<1>1. Init => GoneInv
  BY DEF Init, StorageInit, NoVmRow, AllocatorInit, IdleWorker, GoneInv,
         TerminatedInstanceIsGone
<1>2. Inv /\ GoneInv /\ [Next]_vars => GoneInv'
  BY GoneNext
<1>3. GoneInv => TerminatedInstanceIsGone
  BY DEF GoneInv
<1> QED BY <1>1, <1>2, <1>3, Invariance, PTL DEF Spec

----------------------------------------------------------------------------
(* The books of a VM.                                                      *)

\* A job larger than every size on offer is put on the largest nonetheless
\* (getOptimalSlot): its VM is overcommitted from the start.
JobsFitSlots == AssignerType = "Simple" \/ \A j \in Jobs : Req[j] <= MaxSlot

JobsOnKnownVms ==
    \A j \in Jobs : jobs[j].vm \in Vms => vms[jobs[j].vm].status # "none"

(***************************************************************************)
(* What is released, and no more than that, may leave the books.           *)
(***************************************************************************)
LEMMA BooksReleased ==
  ASSUME NEW v \in Vms, NEW R \in SUBSET Booked(v),
         vms[v].idle \in Nat, vms[v].total \in Nat, vms'[v].idle \in Nat,
         vms'[v].total = vms[v].total,
         vms'[v].idle <= vms[v].idle + Demand(R),
         Booked(v)' \subseteq Booked(v) \ R,
         Balanced(v)
  PROVE  Balanced(v)'
<1> DEFINE B == Booked(v)
           C == Booked(v)'
<1>1. B \subseteq Jobs /\ R \subseteq Jobs /\ C \subseteq B \ R
  BY DEF Booked, JobsOn
<1>2. Demand(B)' = Demand(C)
  BY DEF Demand, CapacityUnits
<1>3. Demand(B) + vms[v].idle <= vms[v].total
  BY DEF Balanced
<1>4. Balanced(v)' <=> Demand(B)' + vms'[v].idle <= vms'[v].total
  BY DEF Balanced
<1> HIDE DEF B, C
<1>5. Demand(R) + Demand(B \ R) = Demand(B)
  <2>1. R \cup (B \ R) = B
    BY DEF B
  <2> QED BY <1>1, <2>1, DemandAdds
<1>6. Demand(C) <= Demand(B \ R)
  BY <1>1, DemandMonotone
<1>7. Demand(B) \in Nat /\ Demand(C) \in Nat /\ Demand(R) \in Nat /\ Demand(B \ R) \in Nat
  BY <1>1, DemandType
<1> QED BY <1>2, <1>3, <1>4, <1>5, <1>6, <1>7

(***************************************************************************)
(* An agent that is done with a job is done with it for good.              *)
(***************************************************************************)
LEMMA DoneForGood ==
  ASSUME TypeOK, [Next]_vars, NEW v \in Vms, NEW j \in Jobs, agent[v][j] = "done"
  PROVE  agent'[v][j] = "done"
<1>0. agent \in [Vms -> [Jobs -> {"unknown", "held", "done"}]]
  BY DEF TypeOK
<1>1. CASE UNCHANGED agent
  BY <1>1
<1>2. ASSUME NEW u \in Vms, AgentPoll(u) PROVE agent'[v][j] = "done"
  BY <1>0, <1>2 DEF AgentPoll
<1>3. ASSUME NEW u \in Vms, NEW i \in Jobs, NEW x, agent[u][i] = "held",
             agent' = [agent EXCEPT ![u][i] = x]
      PROVE  agent'[v][j] = "done"
  <2>1. ~(u = v /\ i = j)
    BY <1>3
  <2> QED BY <1>0, <1>3, <2>1
<1>4. CASE AgentStep
  <2>1. ASSUME NEW u \in Vms, NEW i \in Jobs, NEW st, AgentReport(u, i, st)
        PROVE  agent'[v][j] = "done"
    BY <1>3, <2>1 DEF AgentReport
  <2>2. ASSUME NEW u \in Vms, NEW i \in Jobs, AgentReportLost(u, i)
        PROVE  agent'[v][j] = "done"
    BY <1>3, <2>2 DEF AgentReportLost
  <2> QED BY <1>2, <1>4, <2>1, <2>2 DEF AgentStep
<1> QED BY <1>1, <1>4 DEF Next, ClientStep, MonitorStep, vars

(***************************************************************************)
(* Only a commit books capacity: a job that keeps to its life cycle and is *)
(* not moved is booked on a VM only if it was.                             *)
(***************************************************************************)
LEMMA BookedShrinks ==
  ASSUME Inv, UnaddedAreNowhere, [Next]_vars, QuietJobs, NEW v \in Vms
  PROVE  Booked(v)' \subseteq Booked(v)
<1> SUFFICES ASSUME NEW j \in Jobs, j \in Booked(v)' PROVE j \in Booked(v)
  BY DEF Booked, JobsOn
<1>1. jobs'[j].vm = v /\ jobs[j].vm = v
  BY DEF Booked, JobsOn, QuietJobs
<1>2. jobs[j].status # "none"
  BY <1>1, StorageAssumption DEF UnaddedAreNowhere
<1>3. KeepsToLifecycle(j)
  BY KeepNext DEF KeepJobs
<1>4. CASE jobs'[j].status \in {"Queued", "Scheduled", "Running"}
  <2>1. jobs[j].status \in {"Queued", "Scheduled", "Running"}
    BY <1>2, <1>3, <1>4 DEF KeepsToLifecycle, Lifecycle!Successors
  <2> QED BY <1>1, <2>1 DEF Booked, JobsOn
<1>5. CASE jobs'[j].status = "Cancelling" /\ agent'[v][j] # "done"
  <2>1. jobs[j].status \in {"Queued", "Scheduled", "Running", "Cancelling"}
    BY <1>2, <1>3, <1>5 DEF KeepsToLifecycle, Lifecycle!Successors
  <2>2. agent[v][j] # "done"
    BY <1>5, DoneForGood DEF Inv
  <2> QED BY <1>1, <2>1, <2>2 DEF Booked, JobsOn
<1> QED BY <1>4, <1>5 DEF Booked

(***************************************************************************)
(* Capacities are changed by cancellations of queued jobs, by reports and  *)
(* by commits, and by nothing else: restarts keep what they find.          *)
(***************************************************************************)
LEMMA CapacityStep ==
  ASSUME Inv, [Next]_vars
  PROVE  \/ \A v \in Vms : /\ vms'[v].idle = vms[v].idle
                           /\ vms'[v].total = vms[v].total
         \/ \E S \in SUBSET UnfinishedJobs : CancelJobs(S)
         \/ \E u \in Vms : \E i \in Jobs : \E st \in AgentStatuses : AgentReport(u, i, st)
         \/ (\E b \in Backends : CommitPlanChange(b)) /\ UNCHANGED agent
<1>0. TypeOK /\ StorageTypeOK /\ \A v \in Vms : vms[v] \in VmRow
  BY DEF Inv, TypeOK, StorageTypeOK
<1> DEFINE Same == \A v \in Vms : /\ vms'[v].idle = vms[v].idle
                                  /\ vms'[v].total = vms[v].total
<1>1. ASSUME UNCHANGED vms PROVE Same
  BY <1>1
<1>2. ASSUME NEW S, NEW st, SetVmStatus(S, st) PROVE Same
  BY <1>0, <1>2, SetVmStatusRows
<1>3. ASSUME NEW S, RestartAllocatingVms(S) PROVE Same
  BY <1>0, <1>3, RestartAllocatingRows
<1>4. ASSUME NEW u, SaveVmAllocationResult(u) PROVE Same
  BY <1>0, <1>4 DEF SaveVmAllocationResult, StorageTypeOK, VmRow
<1>5. ASSUME NEW u \in Vms, AgentPoll(u) PROVE Same
  BY <1>0, <1>5 DEF AgentPoll, GetAssignedJobs, StorageTypeOK, VmRow
<1> HIDE DEF Same
<1>6. CASE ClientStep
  <2>1. PICK t \in Tasks : AddTask(t) \/ CancelTask(t)
    BY <1>6 DEF ClientStep
  <2> QED BY <1>1, <2>1 DEF AddTask, CancelTask, Same
<1>7. CASE AgentStep
  BY <1>1, <1>5, <1>7 DEF AgentStep, AgentReportLost, storageVars, Same
<1>8. CASE MonitorStep
  BY <1>2, <1>3, <1>8
     DEF MonitorStep, HandleStaleAllocatingVms, TerminateAllocatingVms,
         TerminateVmsWhere, HandleInactiveAgents, TerminateVmsWithInactiveAgents,
         HandleVmsWithoutAgents, TerminateVmsWithoutAgents, CancelOverdueJobs,
         CancelTimedOutJobs, Same
<1>9. CASE SchedulerStep /\ UNCHANGED agent
  BY <1>1, <1>9 DEF SchedulerStep, storageVars, Same
<1>10. CASE AllocatorStep
  BY <1>1, <1>2, <1>3, <1>4, <1>10
     DEF AllocatorStep, AllocateStep, AllocateAborted, FetchVmsToAllocate,
         GetVmsToAllocate, CreateInstance, StartInstance, SaveAllocation,
         AllocateBatchDone, RollbackRestart, RollbackTerminate,
         TerminateAllocatingVms, TerminateVmsWhere, TerminateStep,
         TerminateAborted, FetchVmsToTerminate, GetVmsToTerminate,
         TerminateInstance, SaveTermination, SaveVmTerminationResult,
         TerminateBatchDone, ReturnUnterminatedVms, GetAllocatedVms,
         TerminateUntrackedVms, InstanceLost, storageVars, Same
<1>11. CASE UNCHANGED vars
  BY <1>1, <1>11 DEF vars, storageVars, Same
<1> QED BY <1>6, <1>7, <1>8, <1>9, <1>10, <1>11 DEF Next

(***************************************************************************)
(* releaseVmResources gives back no more than its jobs ask for.            *)
(***************************************************************************)
LEMMA ReleasedRow ==
  ASSUME StorageTypeOK, NEW S \in SUBSET Jobs, vms' = ReleaseVmResources(S),
         NEW v \in Vms
  PROVE  /\ vms'[v].idle \in Nat
         /\ vms'[v].total = vms[v].total
         /\ vms'[v].idle <= vms[v].idle + Demand(S \cap JobsOn(v))
<1> DEFINE d == Demand(S \cap JobsOn(v))
           i == Least(vms[v].idle + d, vms[v].total)
<1>1. vms[v] \in VmRow /\ vms[v].idle \in Nat /\ vms[v].total \in Nat
  BY DEF StorageTypeOK, VmRow
<1>2. d \in Nat
  BY DemandType
<1>3. vms'[v] = [vms[v] EXCEPT !.idle = i]
  BY DEF ReleaseVmResources
<1> HIDE DEF d
<1>4. i \in Nat /\ i <= vms[v].idle + d
  BY <1>1, <1>2 DEF Least
<1> HIDE DEF i
<1>5. vms'[v].idle = i /\ vms'[v].total = vms[v].total
  BY <1>1, <1>3 DEF VmRow
<1> QED BY <1>4, <1>5 DEF d

(***************************************************************************)
(* A cancellation releases queued jobs only, and these were booked.        *)
(***************************************************************************)
LEMMA BooksCancelled ==
  ASSUME Inv, UnaddedAreNowhere, [Next]_vars, QuietJobs, NEW v \in Vms,
         NEW S \in SUBSET UnfinishedJobs, CancelJobs(S), Balanced(v)
  PROVE  Balanced(v)'
<1> DEFINE Q == {j \in S : jobs[j].status = "Queued"}
           R == Q \cap JobsOn(v)
<1>0. /\ StorageTypeOK /\ \A j \in Jobs : jobs[j] \in JobRow
      /\ vms[v].idle \in Nat /\ vms[v].total \in Nat
  BY DEF Inv, TypeOK, StorageTypeOK, VmRow
<1>1. Q \in SUBSET Jobs
  BY DEF UnfinishedJobs
<1>2. R \in SUBSET Booked(v)
  BY DEF Booked
<1>3. Booked(v)' \subseteq Booked(v) \ R
  <2>1. ASSUME NEW j \in R PROVE j \notin Booked(v)'
    <3>1. jobs'[j] = [jobs[j] EXCEPT !.status = "Cancelled"] /\ j \in Jobs
      BY <1>1 DEF CancelJobs
    <3>2. jobs'[j].status = "Cancelled"
      BY <1>0, <3>1 DEF JobRow
    <3> QED BY <3>2 DEF Booked
  <2> QED BY <2>1, BookedShrinks
<1>4. vms' = ReleaseVmResources(Q)
  BY DEF CancelJobs
<1> HIDE DEF Q
<1>5. /\ vms'[v].idle \in Nat
      /\ vms'[v].total = vms[v].total
      /\ vms'[v].idle <= vms[v].idle + Demand(R)
  BY <1>0, <1>1, <1>4, ReleasedRow
<1> HIDE DEF R
<1> QED BY <1>0, <1>2, <1>3, <1>5, BooksReleased

(***************************************************************************)
(* A report upsets the books only of its own VM, and only if the job has   *)
(* its outcome already: then it releases what was released before.         *)
(***************************************************************************)
LEMMA BooksReported ==
  ASSUME Inv, UnaddedAreNowhere, [Next]_vars, QuietJobs, NEW v \in Vms,
         NEW u \in Vms, NEW i \in Jobs, NEW st \in AgentStatuses,
         AgentReport(u, i, st), Balanced(v),
         ~(/\ jobs[i].vm = v /\ jobs[i].status \in Outcomes
           /\ agent[v][i] = "held" /\ agent'[v][i] = "done")
  PROVE  Balanced(v)'
<1>0. /\ StorageTypeOK /\ jobs \in [Jobs -> JobRow] /\ jobs[i] \in JobRow
      /\ agent \in [Vms -> [Jobs -> {"unknown", "held", "done"}]]
      /\ vms[v].idle \in Nat /\ vms[v].total \in Nat
      /\ {i} \in SUBSET Jobs
  BY DEF Inv, TypeOK, StorageTypeOK, VmRow
<1>1. ASSUME UNCHANGED vms PROVE Balanced(v)'
  <2>1. Booked(v)' \subseteq Booked(v) \ {}
    BY BookedShrinks
  <2>2. vms'[v].idle <= vms[v].idle + Demand({})
    BY <1>0, <1>1, DemandZero
  <2> QED BY <1>0, <1>1, <2>1, <2>2, BooksReleased
<1>2. ASSUME jobs[i].vm = u, vms' = ReleaseVmResources({i}), st \in FinalJobStatuses,
             jobs[i].status = "Cancelling" => st = "Cancelled",
             jobs' = IF jobs[i].status \in FinalJobStatuses
                     THEN jobs ELSE [jobs EXCEPT ![i].status = st]
      PROVE  Balanced(v)'
  <2> DEFINE R == {i} \cap JobsOn(v)
  <2>1. /\ vms'[v].idle \in Nat
        /\ vms'[v].total = vms[v].total
        /\ vms'[v].idle <= vms[v].idle + Demand(R)
    BY <1>0, <1>2, ReleasedRow
  <2>2. agent[u][i] = "held" /\ agent'[u][i] = "done"
    BY <1>0, <1>2 DEF AgentReport, FinalJobStatuses
  <2>3. st \in {"Completed", "Cancelled", "Error"}
    BY <1>2, ServiceAssumption DEF AgentUpdateStatuses, FinalJobStatuses
  <2>4. jobs[i].status # "none"
    BY <1>2, StorageAssumption DEF UnaddedAreNowhere
  <2>5. CASE u = v
    <3>1. jobs[i].status \in {"Queued", "Scheduled", "Running", "Cancelling"}
      BY <1>0, <1>2, <2>2, <2>4, <2>5 DEF JobRow, JobStatuses, Outcomes
    <3>2. R \in SUBSET Booked(v)
      BY <1>2, <2>2, <2>5, <3>1 DEF Booked
    <3>3. i \notin Booked(v)'
      <4>1. CASE jobs[i].status = "Cancelling"
        BY <1>2, <2>2, <2>5, <4>1 DEF Booked, FinalJobStatuses
      <4>2. CASE jobs[i].status # "Cancelling"
        <5>1. jobs'[i].status = st
          BY <1>0, <1>2, <3>1, <4>2 DEF FinalJobStatuses, JobRow
        <5> QED BY <2>3, <5>1 DEF Booked
      <4> QED BY <4>1, <4>2
    <3>4. Booked(v)' \subseteq Booked(v) \ R
      BY <3>3, BookedShrinks
    <3> HIDE DEF R
    <3> QED BY <1>0, <2>1, <3>2, <3>4, BooksReleased
  <2>6. CASE u # v
    <3>1. R = {}
      BY <1>2, <2>6 DEF JobsOn
    <3>2. R \in SUBSET Booked(v) /\ Booked(v)' \subseteq Booked(v) \ R
      BY <3>1, BookedShrinks
    <3> HIDE DEF R
    <3> QED BY <1>0, <2>1, <3>2, BooksReleased
  <2> QED BY <2>5, <2>6
<1> QED BY <1>1, <1>2 DEF AgentReport, UpdateJobState, ReportIsDropped, storageVars

(***************************************************************************)
(* Both assigners size a new VM for the jobs they put on it.               *)
(***************************************************************************)
LEMMA NewVmsAreSized ==
  ASSUME JobsFitSlots, Inv, NEW b \in Backends, NEW c \in Assign(b), NEW v \in NewVms(c)
  PROVE  /\ c.total[v] \in Nat
         /\ Demand(PlacedOn(c, v)) <= c.total[v]
<1>0. v \in Vms /\ sched[b].queued \subseteq Jobs
  BY DEF NewVms, FreshVms, VmsIn, Inv, TypeOK, SchedulerTypeOK, Replica
<1>1. c.jobToVm \in [sched[b].queued -> Vms] /\ c.total[v] \in Nat
  BY <1>0, AssignType DEF Inv
<1>2. PlacedOn(c, v) \in SUBSET Jobs
  BY <1>0, <1>1 DEF PlacedOn
<1>3. CASE AssignerType = "Simple"
  <2>0. PICK f \in [sched[b].queued -> FreshVms] :
           c = [jobToVm |-> f,
                total |-> [x \in Vms |-> Demand({j \in sched[b].queued : f[j] = x})]]
    BY <1>3, Zenon DEF Assign, SimpleAssign
  <2>1. /\ c.jobToVm = f
        /\ c.total = [x \in Vms |-> Demand({j \in sched[b].queued : f[j] = x})]
    BY <2>0
  <2>2. PlacedOn(c, v) = {j \in sched[b].queued : f[j] = v}
    BY <2>1 DEF PlacedOn
  <2>3. c.total[v] = Demand(PlacedOn(c, v))
    BY <1>0, <2>1, <2>2
  <2> QED BY <1>1, <2>3
<1>4. CASE AssignerType # "Simple"
  <2>1. FitsSlot(PlacedOn(c, v), c.total[v])
    BY <1>0, <1>4 DEF Assign, ComplexAssign
  <2>2. MaxSlot \in Nat
    BY SchedulerAssumption DEF MaxSlot
  <2>3. \A j \in PlacedOn(c, v) : ~(Req[j] > MaxSlot)
    BY <1>2, <1>4, <2>2, StorageAssumption DEF JobsFitSlots
  <2> QED BY <1>1, <2>1, <2>3 DEF FitsSlot
<1> QED BY <1>3, <1>4

(***************************************************************************)
(* A commit that is carried out keeps the books.  It overwrites the idle   *)
(* capacity of a VM with what its snapshot says minus the demand it adds,  *)
(* and the snapshot of the newest plan says no more than is idle.          *)
(***************************************************************************)
LEMMA BooksPlanned ==
  ASSUME JobsFitSlots, Inv, JobsOnKnownVms, NEW b \in Backends, NEW c \in Assign(b),
         sched[b].pc = "committing", sched[b].plan = Len(plan),
         ApplyVmChanges(b, c), ApplyJobVmAssignments(b, c), UNCHANGED agent,
         NEW v \in Vms, Balanced(v)
  PROVE  Balanced(v)'
<1> DEFINE B == Booked(v)
           C == Booked(v)'
           P == PlacedOn(c, v)
           i == IdleAfter(b, c, v)
<1>0. /\ \A j \in Jobs : jobs[j] \in JobRow
      /\ vms[v] \in VmRow /\ vms[v].idle \in Nat /\ vms[v].total \in Nat
      /\ sched[b].queued \subseteq Jobs
      /\ v \in sched[b].seen => /\ vms[v].status # "none"
                                /\ sched[b].seenIdle[v] \in Nat
                                /\ sched[b].seenIdle[v] <= vms[v].idle
  BY DEF Inv, TypeOK, StorageTypeOK, SchedulerTypeOK, Replica, VmRow,
         SeenVmsExist, SnapshotInv
<1>1. c.jobToVm \in [sched[b].queued -> Vms]
  BY AssignType DEF Inv
<1>2. B \in SUBSET Jobs /\ C \in SUBSET Jobs /\ P \in SUBSET Jobs
  BY <1>0, <1>1 DEF Booked, JobsOn, PlacedOn
<1>3. C \subseteq B \cup P
  <2> SUFFICES ASSUME NEW j \in Jobs, j \in C, j \notin P PROVE j \in B
    BY <1>2
  <2>1. CASE j \in sched[b].queued
    <3>1. jobs'[j].vm = c.jobToVm[j]
      BY <1>0, <2>1 DEF ApplyJobVmAssignments, JobRow
    <3> QED BY <1>1, <2>1, <3>1 DEF Booked, JobsOn, PlacedOn
  <2>2. CASE j \notin sched[b].queued
    <3>1. jobs'[j] = jobs[j]
      BY <2>2 DEF ApplyJobVmAssignments
    <3> QED BY <3>1 DEF Booked, JobsOn
  <2> QED BY <2>1, <2>2
<1>4. Demand(B)' = Demand(C)
  BY DEF Demand, CapacityUnits
<1>5. /\ Demand(B) + vms[v].idle <= vms[v].total
      /\ Balanced(v)' <=> Demand(B)' + vms'[v].idle <= vms'[v].total
  BY DEF Balanced
<1>6. /\ Demand(B) \in Nat /\ Demand(C) \in Nat /\ Demand(P) \in Nat
      /\ Demand(C) <= Demand(B) + Demand(P)
  <2> HIDE DEF B, C, P
  <2>1. Demand(B \cup (P \ B)) = Demand(B) + Demand(P \ B)
    BY <1>2, DemandAdds
  <2>2. Demand(P \ B) <= Demand(P) /\ Demand(C) <= Demand(B \cup (P \ B))
    BY <1>2, <1>3, DemandMonotone
  <2>3. /\ Demand(B) \in Nat /\ Demand(C) \in Nat /\ Demand(P) \in Nat
        /\ Demand(P \ B) \in Nat /\ Demand(B \cup (P \ B)) \in Nat
    BY <1>2, DemandType
  <2> QED BY <2>1, <2>2, <2>3
<1>7. CASE v \in NewVms(c)
  <2>1. vms[v].status = "none" /\ v \notin sched[b].seen
    BY <1>0, <1>7 DEF NewVms, FreshVms, VmsIn
  <2>2. B = {}
    BY <2>1 DEF Booked, JobsOn, JobsOnKnownVms
  <2>3. Demand(B) = 0
    BY <2>2, DemandZero
  <2>4. c.total[v] \in Nat /\ Demand(P) <= c.total[v]
    BY <1>7, NewVmsAreSized
  <2>5. i = c.total[v] - Demand(P)
    BY <2>1, <2>4 DEF IdleAfter
  <2>6. vms'[v] = [NoVmRow EXCEPT !.status = "PendingAllocation",
                                  !.total = c.total[v], !.idle = i]
    BY <1>7 DEF ApplyVmChanges
  <2> HIDE DEF B, C, P, i
  <2>7. vms'[v].idle = i /\ vms'[v].total = c.total[v]
    BY <2>6 DEF NoVmRow
  <2> QED BY <1>4, <1>5, <1>6, <2>3, <2>4, <2>5, <2>7
<1>8. CASE v \notin NewVms(c) /\ v \in UpdatedVms(b, c)
  <2>1. v \in sched[b].seen
    BY <1>8 DEF UpdatedVms
  <2>2. Demand(P) <= sched[b].seenIdle[v]
    BY <2>1, PlacedWhereItFits
  <2>3. i = sched[b].seenIdle[v] - Demand(P)
    BY <2>1, <2>2 DEF IdleAfter
  <2>4. PICK st : vms'[v] = [vms[v] EXCEPT !.status = st, !.idle = i]
    BY <1>8 DEF ApplyVmChanges
  <2> HIDE DEF B, C, P, i
  <2>5. vms'[v].idle = i /\ vms'[v].total = vms[v].total
    BY <1>0, <2>4 DEF VmRow
  <2>6. /\ sched[b].seenIdle[v] \in Nat /\ sched[b].seenIdle[v] <= vms[v].idle
        /\ vms[v].idle \in Nat /\ vms[v].total \in Nat
    BY <1>0, <2>1
  <2>7. Demand(C) + i <= vms[v].total
    <3>1. \A m, n, p, q, r, t \in Nat :
             /\ m <= n + p /\ p <= q /\ q <= r /\ n + r <= t
             => m + (q - p) <= t
      OBVIOUS
    <3> QED BY <1>5, <1>6, <2>2, <2>3, <2>6, <3>1
  <2> QED BY <1>4, <1>5, <2>5, <2>7
<1>9. CASE v \notin NewVms(c) /\ v \notin UpdatedVms(b, c)
  <2>1. P = {}
    BY <1>1, <1>9, PlacedWhereItFits DEF PlacedOn, UpdatedVms
  <2>2. Demand(P) = 0
    BY <2>1, DemandZero
  <2>3. PICK st : vms'[v] = [vms[v] EXCEPT !.status = st, !.idle = vms[v].idle]
    BY <1>9 DEF ApplyVmChanges
  <2> HIDE DEF B, C, P, i
  <2>4. vms'[v].idle = vms[v].idle /\ vms'[v].total = vms[v].total
    BY <1>0, <2>3 DEF VmRow
  <2> QED BY <1>0, <1>4, <1>5, <1>6, <2>2, <2>4
<1> QED BY <1>7, <1>8, <1>9

(***************************************************************************)
(* No row is ever deleted.                                                 *)
(***************************************************************************)
LEMMA KnownRows ==
  ASSUME Inv, [Next]_vars, NEW v \in Vms, vms[v].status # "none"
  PROVE  vms'[v].status # "none"
<1>0. TypeOK /\ StorageTypeOK /\ AllocatorTypeOK
  BY DEF Inv, TypeOK
<1>1. CASE QuietVms
  BY <1>1 DEF QuietVms
<1>2. CASE ClientStep \/ AgentStep \/ MonitorStep
  BY <1>0, <1>1, <1>2, QuietClient, QuietAgent, QuietMonitor
<1>3. CASE SchedulerStep
  BY <1>3, RowsPlanned DEF RowStep
<1>4. CASE AllocatorStep
  BY <1>0, <1>1, <1>4, QuietAllocator
<1>5. CASE UNCHANGED vars
  BY <1>5 DEF vars, storageVars
<1> QED BY <1>2, <1>3, <1>4, <1>5 DEF Next

(***************************************************************************)
(* jobs.vm_id never names a row that was not inserted.                     *)
(***************************************************************************)
LEMMA KnownVms == Spec => []JobsOnKnownVms
<1>1. Init => JobsOnKnownVms
  BY StorageAssumption DEF Init, StorageInit, NoJobRow, JobsOnKnownVms
<1>2. Inv /\ JobsOnKnownVms /\ [Next]_vars => JobsOnKnownVms'
  <2> SUFFICES ASSUME Inv, JobsOnKnownVms, [Next]_vars, NEW j \in Jobs,
                      jobs'[j].vm \in Vms
               PROVE  vms'[jobs'[j].vm].status # "none"
    BY DEF JobsOnKnownVms
  <2>0. \A v \in Vms : vms[v].status # "none" => vms'[v].status # "none"
    BY KnownRows
  <2>1. CASE jobs'[j].vm = jobs[j].vm
    BY <2>0, <2>1 DEF JobsOnKnownVms
  <2>2. CASE jobs'[j].vm # jobs[j].vm
    <3>1. ~QuietJobs
      BY <2>2 DEF QuietJobs
    <3>2. PICK b \in Backends : CommitPlanChange(b) /\ ~UNCHANGED jobs
      BY <3>1, QuietOrCommit
    <3>3. PICK c \in Assign(b) : ApplyVmChanges(b, c) /\ ApplyJobVmAssignments(b, c)
      BY <3>2 DEF CommitPlanChange
    <3>4. j \in sched[b].queued /\ jobs[j] \in JobRow
      BY <2>2, <3>3 DEF ApplyJobVmAssignments, Inv, TypeOK, StorageTypeOK
    <3>5. jobs'[j].vm = c.jobToVm[j]
      BY <3>3, <3>4 DEF ApplyJobVmAssignments, JobRow
    <3>6. CASE jobs'[j].vm \in sched[b].seen
      BY <2>0, <3>6 DEF Inv, SeenVmsExist
    <3>7. CASE jobs'[j].vm \in NewVms(c)
      <4>1. PICK s, n : vms'[jobs'[j].vm] = [NoVmRow EXCEPT
                !.status = "PendingAllocation", !.total = s, !.idle = n]
        BY <3>3, <3>7 DEF ApplyVmChanges
      <4> QED BY <4>1 DEF NoVmRow
    <3> QED BY <3>4, <3>5, <3>6, <3>7, PlacedWhereItFits
  <2> QED BY <2>1, <2>2
<1> QED BY <1>1, <1>2, Invariance, PTL DEF Spec

(***************************************************************************)
(* Every step keeps the books of every VM, except for late reports.        *)
(***************************************************************************)
LEMMA BooksKept ==
  ASSUME JobsFitSlots, Inv, Inv', UnaddedAreNowhere, JobsOnKnownVms, [Next]_vars,
         NEW v \in Vms, Balanced(v), ~Balanced(v)'
  PROVE  \E j \in JobsOn(v) :
            /\ jobs[j].status \in Outcomes
            /\ agent[v][j] = "held" /\ agent'[v][j] = "done"
<1>0. /\ vms[v].idle \in Nat /\ vms[v].total \in Nat /\ vms'[v].idle \in Nat
  BY DEF Inv, TypeOK, StorageTypeOK, VmRow
<1>1. ~QuietJobs => \E b \in Backends : CommitPlanChange(b) /\ ~UNCHANGED jobs
  BY QuietOrCommit
<1>2. ASSUME QuietJobs, vms'[v].idle = vms[v].idle, vms'[v].total = vms[v].total
      PROVE  FALSE
  <2>1. Booked(v)' \subseteq Booked(v) \ {}
    BY <1>2, BookedShrinks
  <2>2. vms'[v].idle <= vms[v].idle + Demand({})
    BY <1>0, <1>2, DemandZero
  <2> QED BY <1>0, <1>2, <2>1, <2>2, BooksReleased
<1>3. ASSUME NEW b \in Backends, CommitPlanChange(b), UNCHANGED agent PROVE FALSE
  <2>1. CASE UNCHANGED <<jobs, vms>>
    <3>1. QuietJobs
      BY <2>1, QuietUnchanged DEF Inv, TypeOK
    <3> QED BY <1>2, <2>1, <3>1
  <2>2. ASSUME NEW c \in Assign(b), IsSchedulingRelevant(sched[b].plan),
               ApplyVmChanges(b, c), ApplyJobVmAssignments(b, c)
        PROVE  FALSE
    <3>1. sched[b].pc = "committing" /\ sched[b].plan \in DOMAIN plan
      BY <1>3 DEF CommitPlanChange, Inv, PlansAreOwned, HasPlan
    <3>2. sched[b].plan = Len(plan)
      BY <2>2, <3>1, NewestIsRelevant DEF Inv, TypeOK
    <3> QED BY <1>3, <2>2, <3>1, <3>2, BooksPlanned
  <2> QED BY <1>3, <2>1, <2>2 DEF CommitPlanChange
<1>4. ASSUME NEW b \in Backends, CommitPlanChange(b) PROVE UNCHANGED agent
  <2>1. sched \in [Backends -> Replica] /\ IdleReplica.pc = "idle"
    BY DEF Inv, TypeOK, SchedulerTypeOK, IdleReplica
  <2>2. sched' # sched
    BY <1>4, <2>1 DEF CommitPlanChange
  <2> QED BY <2>2 DEF Next, ClientStep, AgentStep, AgentPoll, AgentReport,
                      AgentReportLost, MonitorStep, schedulerVars, vars
<1>5. QuietJobs
  BY <1>1, <1>3, <1>4
<1>6. ASSUME NEW u \in Vms, NEW i \in Jobs, NEW st \in AgentStatuses,
             AgentReport(u, i, st)
      PROVE  \E j \in JobsOn(v) :
                /\ jobs[j].status \in Outcomes
                /\ agent[v][j] = "held" /\ agent'[v][j] = "done"
  BY <1>5, <1>6, BooksReported DEF JobsOn
<1> QED BY <1>2, <1>3, <1>5, <1>6, CapacityStep, BooksCancelled

(***************************************************************************)
(* Whatever plans, restarts, cancellations and workers do, overtaken or    *)
(* not, the books of a VM are upset by late reports only, for any number   *)
(* of replicas and any capacities, if no job is larger than the largest    *)
(* size on offer: a commit overwrites idle capacities from an old snapshot *)
(* (updateVmCapacities_), and that is sound.                               *)
(***************************************************************************)
THEOREM OnlyLateReports ==
  ASSUME JobsFitSlots
  PROVE  Spec => OnlyLateReportsOvercommit
<1>1. Inv /\ Inv' /\ UnaddedAreNowhere /\ JobsOnKnownVms /\ [Next]_vars =>
         [\A v \in Vms : Balanced(v) /\ ~Balanced(v)' =>
             \E j \in JobsOn(v) :
                /\ jobs[j].status \in {"Completed", "Cancelled", "Error", "InternalError"}
                /\ agent[v][j] = "held" /\ agent'[v][j] = "done"]_vars
  BY BooksKept DEF Outcomes
<1> QED BY <1>1, Invariance, UnaddedInvariance, KnownVms, PTL
        DEF Spec, OnlyLateReportsOvercommit

----------------------------------------------------------------------------
(* No VM in use is overcommitted.                                          *)

\* Rows that are in use, or that a worker may still make Allocated.
Alive(v) ==
    \/ vms[v].status \in ActiveVmStatuses
    \/ \E w \in AllocateThreads : v \in Claims(w)

(***************************************************************************)
(* A worker rolls its failed rows back in two transactions, the restart    *)
(* and the termination.  Between them another worker may claim a restarted *)
(* row, which the second then terminates under its hands; so this asks for *)
(* one worker, or for a service that restarts no VM.                       *)
(***************************************************************************)
RollbacksAreUncontested ==
    VmRestartAttempts = 0 \/ \A w, x \in AllocateThreads : w = x

(***************************************************************************)
(* The inductive invariant behind NoOvercommit: a job leaves a VM in use   *)
(* only through the report of its agent.  No job on it waits in the queue, *)
(* and no job with an outcome is still to be reported, so what is released *)
(* is released once.                                                       *)
(***************************************************************************)
AliveInv ==
    \A v \in Vms : Alive(v) =>
        /\ \A j \in JobsOn(v) : jobs[j].status # "Queued"
        /\ \A j \in JobsOn(v) : jobs[j].status \in Outcomes => agent[v][j] # "held"
        /\ Balanced(v)

(***************************************************************************)
(* A worker claims rows that are PendingAllocation and no others.          *)
(***************************************************************************)
LEMMA ClaimsGrow ==
  ASSUME TypeOK, ClaimsAreExclusive, NEW w \in AllocateThreads,
         AllocateStep(w) \/ AllocateAborted(w),
         NEW x \in AllocateThreads, NEW v \in Claims(x)'
  PROVE  v \in Claims(x) \/ (v \in Vms /\ vms[v].status = "PendingAllocation")
<1>0. /\ allocating \in [AllocateThreads -> Worker(AllocatePcs)]
      /\ allocating[w] \in Worker(AllocatePcs)
      /\ WorkerInv(w) /\ v \in Vms /\ NoVm \notin Vms
  BY StorageAssumption DEF TypeOK, AllocatorTypeOK, ClaimsAreExclusive, Claims
<1> DEFINE a == allocating[w]
           b == allocating'[w]
<1>1. CASE x # w
  <2>1. allocating'[x] = allocating[x]
    BY <1>0, <1>1 DEF AllocateStep, AllocateAborted, FetchVmsToAllocate,
       CreateInstance, StartInstance, SaveAllocation, AllocateBatchDone,
       RollbackRestart, RollbackTerminate
  <2> QED BY <2>1 DEF Claims
<1>2. CASE x = w /\ FetchVmsToAllocate(w)
  <2>1. PICK S \in SUBSET VmsIn("PendingAllocation") :
           allocating' = [allocating EXCEPT ![w].pc = "loop", ![w].todo = S]
    BY <1>2 DEF FetchVmsToAllocate
  <2>2. b.todo = S /\ b.vm = a.vm /\ b.failed = a.failed /\ a.pc = "idle"
    BY <1>0, <1>2, <2>1 DEF FetchVmsToAllocate, Worker
  <2> QED BY <1>2, <2>2 DEF Claims, VmsIn
<1>3. ASSUME x = w, NEW u \in Vms, CreateInstance(w, u) PROVE v \in Claims(x)
  <2>1. /\ a.pc = "loop" /\ u \in a.todo
        /\ \/ allocating' = [allocating EXCEPT ![w].pc = "start", ![w].vm = u,
                                               ![w].todo = @ \ {u}]
           \/ allocating' = [allocating EXCEPT ![w].todo = @ \ {u},
                                               ![w].failed = @ \cup {u}]
    BY <1>3 DEF CreateInstance
  <2>2. /\ b.todo = a.todo \ {u} /\ b.failed \subseteq a.failed \cup {u}
        /\ b.vm \in {a.vm, u}
    BY <1>0, <2>1 DEF Worker
  <2> QED BY <1>0, <1>3, <2>1, <2>2 DEF Claims
<1>4. CASE x = w /\ StartInstance(w)
  <2>1. a.pc = "start" /\ b.todo = a.todo
        /\ b.failed \subseteq a.failed \cup {a.vm} /\ b.vm \in {a.vm, NoVm}
    BY <1>0, <1>4 DEF StartInstance, Worker
  <2> QED BY <1>0, <1>4, <2>1 DEF Claims
<1>5. CASE x = w /\ (SaveAllocation(w) \/ RollbackRestart(w))
  <2>1. /\ a.pc \in {"save", "loop"} /\ b.todo = a.todo
        /\ b.failed = a.failed /\ b.vm \in {a.vm, NoVm}
    BY <1>0, <1>5 DEF SaveAllocation, RollbackRestart, Worker
  <2> QED BY <1>0, <1>5, <2>1 DEF Claims
<1>6. CASE x = w /\ (AllocateBatchDone(w) \/ RollbackTerminate(w) \/ AllocateAborted(w))
  <2>1. b = IdleWorker
    BY <1>0, <1>6 DEF AllocateBatchDone, RollbackTerminate, AllocateAborted
  <2> QED BY <1>0, <1>6, <2>1 DEF Claims, IdleWorker
<1> QED BY <1>1, <1>2, <1>3, <1>4, <1>5, <1>6 DEF AllocateStep

(***************************************************************************)
(* A row that is given up is never in use again: the only way into use is  *)
(* to be inserted by a plan.                                               *)
(***************************************************************************)
LEMMA AliveBefore ==
  ASSUME Inv, ClaimsAreExclusive, [Next]_vars, NEW v \in Vms, Alive(v)'
  PROVE  Alive(v) \/ vms[v].status = "none"
<1>0. TypeOK /\ StorageTypeOK
  BY DEF Inv, TypeOK
<1>1. ASSUME UNCHANGED allocating, RowStep(v)
      PROVE  Alive(v) \/ vms[v].status = "none"
  BY <1>1 DEF Alive, Claims, RowStep, ActiveVmStatuses
<1>2. CASE ClientStep \/ AgentStep \/ MonitorStep
  <2>1. UNCHANGED allocating
    BY <1>2 DEF ClientStep, AgentStep, AgentPoll, AgentReport, AgentReportLost,
                MonitorStep, allocatorVars
  <2> QED BY <1>0, <1>1, <1>2, <2>1, RowsOutside
<1>3. CASE SchedulerStep /\ UNCHANGED <<allocatorVars, agent>>
  BY <1>1, <1>3, RowsPlanned DEF allocatorVars
<1>4. ASSUME NEW w \in AllocateThreads, AllocateStep(w) \/ AllocateAborted(w)
      PROVE  Alive(v)
  <2>1. CASE \E x \in AllocateThreads : v \in Claims(x)'
    BY <1>0, <1>4, <2>1, ClaimsGrow DEF Alive, ActiveVmStatuses
  <2>2. CASE vms'[v].status \in ActiveVmStatuses
    <3>1. ASSUME NEW S, SetVmStatus(S, "Allocating"), S \subseteq VmsIn("PendingAllocation")
          PROVE  Alive(v)
      <4>1. vms'[v].status = IF v \in S THEN "Allocating" ELSE vms[v].status
        BY <1>0, <3>1, SetVmStatusRows
      <4> QED BY <2>2, <3>1, <4>1 DEF Alive, VmsIn, ActiveVmStatuses
    <3>2. ASSUME NEW S, RestartAllocatingVms(S) PROVE Alive(v)
      BY <1>0, <2>2, <3>2, RestartAllocatingRows DEF Alive, ActiveVmStatuses
    <3>3. ASSUME NEW S, SetVmStatus(S, "Terminated") PROVE Alive(v)
      BY <1>0, <2>2, <3>3, SetVmStatusRows DEF Alive, ActiveVmStatuses
    <3>4. ASSUME SaveVmAllocationResult(allocating[w].vm) PROVE Alive(v)
      <4>1. CASE v = allocating[w].vm
        BY <4>1 DEF Alive, Claims
      <4>2. CASE v # allocating[w].vm
        BY <1>0, <2>2, <3>4, <4>2 DEF SaveVmAllocationResult, StorageTypeOK, Alive
      <4> QED BY <4>1, <4>2
    <3>5. CASE UNCHANGED vms
      BY <2>2, <3>5 DEF Alive
    <3> QED
      BY <1>4, <3>1, <3>2, <3>3, <3>4, <3>5
         DEF AllocateStep, AllocateAborted, FetchVmsToAllocate, GetVmsToAllocate,
             CreateInstance, StartInstance, SaveAllocation, AllocateBatchDone,
             RollbackRestart, RollbackTerminate, TerminateAllocatingVms,
             TerminateVmsWhere, storageVars
  <2> QED BY <2>1, <2>2 DEF Alive
<1>5. ASSUME NEW w \in TerminateThreads, TerminateStep(w) \/ TerminateAborted(w)
      PROVE  Alive(v)
  BY <1>0, <1>5, TerminateRows DEF Alive, Claims, ActiveVmStatuses
<1>6. CASE UNCHANGED <<vms, allocating>>
  BY <1>6 DEF Alive, Claims
<1>7. CASE \/ \E m \in MonitorThreads : GetAllocatedVms(m) \/ TerminateUntrackedVms(m)
           \/ \E u \in Vms : InstanceLost(u)
           \/ UNCHANGED vars
  BY <1>6, <1>7 DEF GetAllocatedVms, TerminateUntrackedVms, InstanceLost,
                    vars, storageVars, allocatorVars
<1> QED BY <1>2, <1>3, <1>4, <1>5, <1>7 DEF Next, AllocatorStep

(***************************************************************************)
(* A job leaves Scheduled or Running for the queue, or for InternalError,  *)
(* only when its VM is given up for good, and for another outcome only     *)
(* with the report of its agent.                                           *)
(***************************************************************************)
LEMMA JobEnds ==
  ASSUME TimelyWorkers, RollbacksAreUncontested, Inv, ClaimsAreExclusive, [Next]_vars,
         NEW j \in Jobs, NEW v \in Vms, jobs[j].vm = v,
         jobs[j].status \in {"Scheduled", "Running", "Cancelling"}
  PROVE  /\ jobs'[j].status \in {"Queued", "InternalError"} => ~Alive(v)'
         /\ jobs'[j].status \in {"Completed", "Cancelled", "Error"}
               => agent'[v][j] = "done"
<1>0. /\ TypeOK /\ StorageTypeOK /\ jobs[j] \in JobRow
      /\ agent \in [Vms -> [Jobs -> {"unknown", "held", "done"}]]
  BY DEF Inv, TypeOK, StorageTypeOK
<1> DEFINE Claim == /\ jobs'[j].status \in {"Queued", "InternalError"} => ~Alive(v)'
                    /\ jobs'[j].status \in {"Completed", "Cancelled", "Error"}
                          => agent'[v][j] = "done"
<1> SUFFICES Claim
  OBVIOUS
<1>1. ASSUME jobs'[j].status \in {"Scheduled", "Running", "Cancelling"} PROVE Claim
  BY <1>1
<1>2. ASSUME UNCHANGED jobs PROVE Claim
  BY <1>2
<1>3. ASSUME NEW S, CancelJobs(S) PROVE Claim
  <2>1. jobs'[j].status \in {jobs[j].status, "Cancelling"}
    BY <1>0, <1>3 DEF CancelJobs, JobRow
  <2> QED BY <1>1, <2>1
<1>4. ASSUME NEW S, NEW st, jobs' = RestartJobs(S, st), v \in S => ~Alive(v)'
      PROVE  Claim
  <2>1. CASE v \in S
    <3>1. jobs'[j].status \in {jobs[j].status, "Queued", "InternalError"}
      BY <1>0, <1>4 DEF RestartJobs, JobRow
    <3> QED BY <1>4, <2>1, <3>1
  <2>2. CASE v \notin S
    BY <1>4, <2>2 DEF RestartJobs
  <2> QED BY <2>1, <2>2
<1>5. ASSUME UNCHANGED allocating, NEW S, v \in S,
             NEW st \in {"Terminated", "PendingTermination"}, SetVmStatus(S, st),
             \A w \in AllocateThreads : v \notin Claims(w)
      PROVE  ~Alive(v)'
  <2>1. vms'[v].status = st
    BY <1>0, <1>5, SetVmStatusRows
  <2>2. \A w \in AllocateThreads : Claims(w)' = Claims(w)
    BY <1>5 DEF Claims
  <2> QED BY <1>5, <2>1, <2>2 DEF Alive, ActiveVmStatuses
<1> HIDE DEF Claim
<1>6. CASE ClientStep
  <2>1. ASSUME NEW t \in Tasks, AddTask(t) PROVE Claim
    <3>1. jobs'[j] = jobs[j]
      BY <2>1 DEF AddTask
    <3> QED BY <1>1, <3>1
  <2> QED BY <1>3, <1>6, <2>1 DEF ClientStep, CancelTask
<1>7. CASE AgentStep
  <2>1. ASSUME NEW u \in Vms, NEW i \in Jobs, NEW st \in AgentStatuses,
               AgentReport(u, i, st), ~UNCHANGED jobs
        PROVE  Claim
    <3>1. jobs' = [jobs EXCEPT ![i].status = st] /\ jobs[i].vm = u
      BY <2>1 DEF AgentReport, UpdateJobState, ReportIsDropped, storageVars
    <3>2. CASE i = j /\ st # "Running"
      <4>1. agent'[v][j] = "done"
        BY <1>0, <2>1, <3>1, <3>2 DEF AgentReport
      <4>2. jobs'[j].status = st
        BY <1>0, <3>1, <3>2 DEF StorageTypeOK, JobRow
      <4>3. st \notin {"Queued", "InternalError"}
        BY ServiceAssumption DEF AgentUpdateStatuses
      <4> QED BY <4>1, <4>2, <4>3 DEF Claim
    <3>3. CASE i = j /\ st = "Running"
      <4>1. jobs'[j].status = st
        BY <1>0, <3>1, <3>3 DEF StorageTypeOK, JobRow
      <4> QED BY <1>1, <3>3, <4>1
    <3>4. CASE i # j
      BY <1>0, <1>1, <3>1, <3>4 DEF StorageTypeOK
    <3> QED BY <3>2, <3>3, <3>4
  <2>2. CASE UNCHANGED jobs
    BY <1>2, <2>2
  <2> QED BY <1>7, <2>1, <2>2 DEF AgentStep, AgentPoll, GetAssignedJobs,
                                  AgentReportLost, storageVars
<1>8. CASE MonitorStep
  <2>0. UNCHANGED allocating
    BY <1>8 DEF MonitorStep, allocatorVars
  <2>1. CASE HandleStaleAllocatingVms
    <3>1. PICK S \in SUBSET MayBeStale :
             RestartAllocatingVms(S) \/ TerminateAllocatingVms(S)
      BY <2>1 DEF HandleStaleAllocatingVms
    <3>2. CASE RestartAllocatingVms(S)
      BY <1>2, <3>2 DEF RestartAllocatingVms
    <3>3. CASE TerminateAllocatingVms(S)
      <4>1. SetVmStatus(S, "Terminated") /\ jobs' = RestartJobs(S, "Scheduled")
        BY <3>3 DEF TerminateAllocatingVms, TerminateVmsWhere
      <4>2. v \in S => \A w \in AllocateThreads : v \notin Claims(w)
        BY <3>1 DEF MayBeStale, InHand, Claims
      <4> QED BY <1>4, <1>5, <2>0, <4>1, <4>2
    <3> QED BY <3>1, <3>2, <3>3
  <2>2. CASE HandleInactiveAgents \/ HandleVmsWithoutAgents
    <3>1. PICK S \in SUBSET Vms :
             /\ SetVmStatus(S, "PendingTermination")
             /\ \A u \in S : vms[u].status \in {"Allocated", "AgentStarted"}
             /\ \E st : jobs' = RestartJobs(S, st)
      BY <2>2 DEF HandleInactiveAgents, HandleVmsWithoutAgents,
                  TerminateVmsWithInactiveAgents, TerminateVmsWithoutAgents,
                  TerminateVmsWhere, VmsIn
    <3>2. v \in S => \A w \in AllocateThreads : v \notin Claims(w)
      BY <3>1 DEF ClaimsAreExclusive, UnclaimedStatuses
    <3> QED BY <1>4, <1>5, <2>0, <3>1, <3>2
  <2>3. CASE CancelOverdueJobs
    BY <1>3, <2>3 DEF CancelOverdueJobs, CancelTimedOutJobs
  <2> QED BY <1>8, <2>1, <2>2, <2>3 DEF MonitorStep
<1>9. CASE SchedulerStep
  <2>1. CASE UNCHANGED jobs
    BY <1>2, <2>1
  <2>2. ASSUME NEW b \in Backends, NEW c \in Assign(b), ApplyJobVmAssignments(b, c)
        PROVE  Claim
    <3>1. jobs'[j].status \in {jobs[j].status, "Scheduled"}
      BY <1>0, <2>2 DEF ApplyJobVmAssignments, JobRow
    <3> QED BY <1>1, <3>1
  <2> QED BY <1>9, <2>1, <2>2 DEF SchedulerStep, CommitPlanChange, storageVars
<1>10. ASSUME NEW w \in AllocateThreads, RollbackTerminate(w) PROVE Claim
  <2>1. PICK S : /\ S \subseteq allocating[w].failed
                 /\ SetVmStatus(S, "Terminated")
                 /\ jobs' = RestartJobs(S, "Scheduled")
    BY <1>10 DEF RollbackTerminate, TerminateAllocatingVms, TerminateVmsWhere
  <2>2. /\ allocating'[w] = IdleWorker
        /\ \A x \in AllocateThreads : x # w => allocating'[x] = allocating[x]
    BY <1>0, <1>10 DEF RollbackTerminate, TypeOK, AllocatorTypeOK
  <2>3. ASSUME v \in S PROVE ~Alive(v)'
    <3>1. vms'[v].status = "Terminated"
      BY <1>0, <2>1, <2>3, SetVmStatusRows
    <3>2. Claims(w)' = {}
      BY <2>2, StorageAssumption DEF Claims, IdleWorker
    <3>3. ASSUME NEW x \in AllocateThreads, x # w PROVE v \notin Claims(x)'
      <4>1. VmRestartAttempts = 0
        BY <3>3 DEF RollbacksAreUncontested
      <4>2. v \in Claims(w)
        BY <2>1, <2>3, <4>1 DEF Claims
      <4>3. Claims(x)' = Claims(x)
        BY <2>2, <3>3 DEF Claims
      <4> QED BY <3>3, <4>2, <4>3 DEF ClaimsAreExclusive
    <3> QED BY <3>1, <3>2, <3>3 DEF Alive, ActiveVmStatuses
  <2> QED BY <1>4, <2>1, <2>3
<1>11. CASE AllocatorStep
  <2>1. CASE UNCHANGED jobs
    BY <1>2, <2>1
  <2> QED
    BY <1>10, <1>11, <2>1
       DEF AllocatorStep, AllocateStep, AllocateAborted, FetchVmsToAllocate,
           GetVmsToAllocate, CreateInstance, StartInstance, SaveAllocation,
           SaveVmAllocationResult, AllocateBatchDone, RollbackRestart,
           RestartAllocatingVms, TerminateStep, TerminateAborted,
           FetchVmsToTerminate, GetVmsToTerminate, TerminateInstance,
           SaveTermination, SaveVmTerminationResult, TerminateBatchDone,
           ReturnUnterminatedVms, GetAllocatedVms, TerminateUntrackedVms,
           InstanceLost, storageVars
<1>12. CASE UNCHANGED vars
  BY <1>2, <1>12 DEF vars, storageVars
<1> QED BY <1>6, <1>7, <1>8, <1>9, <1>11, <1>12 DEF Next

(***************************************************************************)
(* Every step keeps AliveInv.                                              *)
(***************************************************************************)
LEMMA AliveNext ==
  ASSUME TimelyWorkers, RollbacksAreUncontested, JobsFitSlots,
         Inv, Inv', UnaddedAreNowhere, JobsOnKnownVms, ClaimsAreExclusive,
         AliveInv, [Next]_vars
  PROVE  AliveInv'
<1> SUFFICES ASSUME NEW v \in Vms, Alive(v)'
             PROVE  /\ \A j \in JobsOn(v)' : jobs'[j].status # "Queued"
                    /\ \A j \in JobsOn(v)' :
                          jobs'[j].status \in Outcomes => agent'[v][j] # "held"
                    /\ Balanced(v)'
  BY DEF AliveInv
<1>0. /\ TypeOK /\ \A j \in Jobs : jobs[j] \in JobRow
      /\ agent \in [Vms -> [Jobs -> {"unknown", "held", "done"}]]
      /\ vms[v].idle \in Nat /\ vms[v].total \in Nat /\ vms[v].idle <= vms[v].total
  BY DEF Inv, TypeOK, StorageTypeOK, VmRow, IdleWithinTotal
<1>1. Alive(v) \/ vms[v].status = "none"
  BY AliveBefore
<1>2. ASSUME NEW j \in Jobs, jobs'[j].vm = v, jobs'[j].status # "Scheduled"
      PROVE  /\ jobs[j].vm = v /\ Alive(v)
             /\ jobs[j].status \notin {"none", "Queued"}
             /\ jobs[j].status \in Outcomes => agent[v][j] # "held"
  <2>1. jobs[j].vm = v
    BY <1>2, MovedByCommit
  <2>2. Alive(v)
    BY <1>1, <2>1 DEF JobsOnKnownVms
  <2>3. jobs[j].status # "none"
    BY <2>1, StorageAssumption DEF UnaddedAreNowhere
  <2> QED BY <2>1, <2>2, <2>3 DEF AliveInv, JobsOn
<1>3. ASSUME NEW j \in Jobs, jobs'[j].vm = v, jobs'[j].status = "Queued" PROVE FALSE
  <2>1. KeepsToLifecycle(j)
    BY KeepNext DEF KeepJobs
  <2>2. jobs[j].status \in {"Scheduled", "Running"}
    BY <1>2, <1>3, <2>1 DEF KeepsToLifecycle, Lifecycle!Successors
  <2> QED BY <1>2, <1>3, <2>2, JobEnds
<1>4. ASSUME NEW j \in Jobs, jobs'[j].vm = v, jobs'[j].status \in Outcomes,
             agent'[v][j] = "held"
      PROVE  FALSE
  <2>1. /\ jobs[j].vm = v /\ jobs[j].status \notin {"none", "Queued"}
        /\ jobs[j].status \in Outcomes => agent[v][j] # "held"
    BY <1>2, <1>4 DEF Outcomes
  <2>2. CASE jobs[j].status \in Outcomes
    <3>1. agent[v][j] = "unknown"
      BY <1>0, <1>4, <2>1, <2>2, DoneForGood
    <3>2. v \in Launched(j)' /\ v \notin Launched(j)
      BY <1>4, <3>1 DEF Launched
    <3>3. jobs[j].status \in {"Scheduled", "Running"}
      BY <1>0, <3>2, LaunchedStep
    <3> QED BY <2>2, <3>3 DEF Outcomes
  <2>3. CASE jobs[j].status \notin Outcomes
    <3>1. jobs[j].status \in {"Scheduled", "Running", "Cancelling"}
      BY <1>0, <2>1, <2>3 DEF JobRow, JobStatuses, Outcomes
    <3> QED BY <1>4, <2>1, <3>1, JobEnds DEF Outcomes
  <2> QED BY <2>2, <2>3
<1>5. Balanced(v)'
  <2> SUFFICES ASSUME ~Balanced(v)' PROVE FALSE
    OBVIOUS
  <2>1. Balanced(v)
    <3>1. CASE vms[v].status = "none"
      <4>1. Booked(v) = {}
        BY <3>1 DEF Booked, JobsOn, JobsOnKnownVms
      <4>2. Demand(Booked(v)) = 0
        BY <4>1, DemandZero
      <4> QED BY <1>0, <4>2 DEF Balanced
    <3>2. CASE Alive(v)
      BY <3>2 DEF AliveInv
    <3> QED BY <1>1, <3>1, <3>2
  <2>2. PICK j \in JobsOn(v) : jobs[j].status \in Outcomes /\ agent[v][j] = "held"
    BY <2>1, BooksKept
  <2>3. Alive(v)
    BY <1>1 DEF JobsOn, JobsOnKnownVms
  <2> QED BY <2>2, <2>3 DEF AliveInv
<1> QED BY <1>3, <1>4, <1>5 DEF JobsOn

(***************************************************************************)
(* The jobs on a VM in use and its idle capacity never exceed its size,    *)
(* for any number of jobs, VMs and replicas: no capacity is released twice *)
(* and none is planned twice, although plans are computed from old         *)
(* snapshots and workers revive rows that a plan has given up.  That holds *)
(* while live workers are not overtaken by the failure detector and do not *)
(* contest each other's rollbacks, and no job is larger than every size.   *)
(***************************************************************************)
THEOREM NoVmOvercommitted ==
  ASSUME TimelyWorkers, RollbacksAreUncontested, JobsFitSlots
  PROVE  Spec => []NoOvercommit
<1>1. Spec => []ClaimsAreExclusive
  BY ClaimsInvariance
<1>2. Init => AliveInv
  BY StorageAssumption
     DEF Init, StorageInit, NoVmRow, AllocatorInit, IdleWorker, AliveInv, Alive,
         Claims, ActiveVmStatuses
<1>3. (/\ Inv /\ Inv' /\ UnaddedAreNowhere /\ JobsOnKnownVms
       /\ ClaimsAreExclusive /\ AliveInv /\ [Next]_vars) => AliveInv'
  BY AliveNext
<1>4. Inv /\ AliveInv => NoOvercommit
  <2> SUFFICES ASSUME Inv, AliveInv, NEW v \in Vms, vms[v].status \in ActiveVmStatuses
               PROVE  Load(v) + vms[v].idle <= vms[v].total
    BY DEF NoOvercommit, Fits
  <2> DEFINE L == {j \in JobsOn(v) : jobs[j].status \in {"Scheduled", "Running"}}
  <2>1. Demand(Booked(v)) + vms[v].idle <= vms[v].total
    BY DEF AliveInv, Alive, Balanced
  <2>2. vms[v].idle \in Nat /\ vms[v].total \in Nat
    BY DEF Inv, TypeOK, StorageTypeOK, VmRow
  <2>3. Booked(v) \in SUBSET Jobs /\ L \in SUBSET Booked(v)
    BY DEF Booked, JobsOn
  <2>4. Load(v) = Demand(L)
    BY DEF Load
  <2> HIDE DEF L
  <2>5. /\ Demand(L) <= Demand(Booked(v))
        /\ Demand(L) \in Nat /\ Demand(Booked(v)) \in Nat
    BY <2>3, DemandMonotone, DemandType
  <2> QED BY <2>1, <2>2, <2>4, <2>5
<1> QED BY <1>1, <1>2, <1>3, <1>4, Invariance, UnaddedInvariance, KnownVms, PTL
        DEF Spec

=============================================================================
