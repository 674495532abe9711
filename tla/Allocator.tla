----------------------------- MODULE Allocator -----------------------------
(***************************************************************************)
(* The workers that turn VM rows into cloud instances and back.            *)
(*                                                                         *)
(* Allocator::allocate claims a batch of PendingAllocation rows, calls the *)
(* cloud for each and saves the result; rows whose call failed are rolled  *)
(* back in two transactions at the end.  Allocator::terminate does the     *)
(* same in the other direction, and terminateUntrackedVms, run by the      *)
(* failure detector, kills the instances that no active row mentions.      *)
(* Every database or cloud call is a step of its own, any of them may      *)
(* fail, and a worker may die between any two.                             *)
(*                                                                         *)
(* The cloud is external.  The client token derived from the VM id makes   *)
(* RunInstances idempotent, so there is at most one instance for each row. *)
(***************************************************************************)
EXTENDS TaskStorage

CONSTANTS
    AllocateThreads,          \* threads running Allocator::allocate
    TerminateThreads,         \* threads running Allocator::terminate
    MonitorThreads,           \* threads running terminateUntrackedVms
    MaxVmAllocationCount,     \* config_.maxVmAllocationCount
    MaxVmTerminationCount     \* config_.maxVmTerminationCount

ASSUME AllocatorAssumption ==
    /\ MaxVmAllocationCount \in Nat
    /\ MaxVmTerminationCount \in Nat

VARIABLES
    instance,     \* the cloud's instance for each row
    allocating,   \* allocate threads
    terminating,  \* terminate threads
    tracked       \* monitor threads: what getAllocatedVms returned

allocatorVars == <<instance, allocating, terminating, tracked>>

(***************************************************************************)
(* todo: rows of the batch not handled yet; vm: the row in hand, or NoVm;  *)
(* failed: unallocatedVms (unterminatedVms).                               *)
(***************************************************************************)
Worker(pcs) ==
    [pc : pcs, todo : SUBSET Vms, vm : Vms \cup {NoVm}, failed : SUBSET Vms]

AllocatePcs == {"idle", "loop", "start", "save", "terminateFailed"}

TerminatePcs == {"idle", "loop", "save"}

IdleWorker == [pc |-> "idle", todo |-> {}, vm |-> NoVm, failed |-> {}]

Untracking == [pc : {"idle", "listing"}, known : SUBSET Vms]

AllocatorInit ==
    /\ instance = [v \in Vms |-> "none"]
    /\ allocating = [w \in AllocateThreads |-> IdleWorker]
    /\ terminating = [w \in TerminateThreads |-> IdleWorker]
    /\ tracked = [m \in MonitorThreads |-> [pc |-> "idle", known |-> {}]]

AllocatorTypeOK ==
    /\ instance \in [Vms -> {"none", "running", "gone"}]
    /\ allocating \in [AllocateThreads -> Worker(AllocatePcs)]
    /\ terminating \in [TerminateThreads -> Worker(TerminatePcs)]
    /\ tracked \in [MonitorThreads -> Untracking]

----------------------------------------------------------------------------
(* Allocator::allocate.                                                    *)

FetchVmsToAllocate(w) ==
    /\ allocating[w].pc = "idle"
    /\ \E S \in SUBSET VmsIn("PendingAllocation") \ {{}} :
          /\ Cardinality(S) <= MaxVmAllocationCount
          /\ GetVmsToAllocate(S)
          /\ allocating' = [allocating EXCEPT ![w].pc = "loop", ![w].todo = S]
    /\ UNCHANGED <<instance, terminating, tracked>>

\* RunInstances with the row's token: a new instance, or the one it already has.
RunInstance(v) == [instance EXCEPT ![v] = IF @ = "none" THEN "running" ELSE @]

\* A call that reports an error may have taken effect.
CreateInstance(w, v) ==
    /\ allocating[w].pc = "loop"
    /\ v \in allocating[w].todo
    /\ \/ /\ instance' = RunInstance(v)
          /\ allocating' = [allocating EXCEPT ![w].pc = "start", ![w].vm = v,
                                              ![w].todo = @ \ {v}]
       \/ /\ instance' \in {instance, RunInstance(v)}
          /\ allocating' = [allocating EXCEPT ![w].todo = @ \ {v},
                                              ![w].failed = @ \cup {v}]
    /\ UNCHANGED <<jobs, vms, terminating, tracked>>

(***************************************************************************)
(* StartInstances fails on an instance that is gone and may fail on any    *)
(* other; the client then tries to terminate the instance and reports an   *)
(* allocation failure whether or not that succeeds.                        *)
(***************************************************************************)
StartInstance(w) ==
    /\ allocating[w].pc = "start"
    /\ LET v == allocating[w].vm
       IN  \/ /\ instance[v] = "running"
              /\ allocating' = [allocating EXCEPT ![w].pc = "save"]
              /\ UNCHANGED instance
           \/ /\ instance' \in {instance, [instance EXCEPT ![v] = "gone"]}
              /\ allocating' = [allocating EXCEPT ![w].pc = "loop",
                                                  ![w].vm = NoVm,
                                                  ![w].failed = @ \cup {v}]
    /\ UNCHANGED <<jobs, vms, terminating, tracked>>

\* saveVmAllocationResult, whose failure is only logged.
SaveAllocation(w) ==
    /\ allocating[w].pc = "save"
    /\ \/ SaveVmAllocationResult(allocating[w].vm)
       \/ UNCHANGED storageVars
    /\ allocating' = [allocating EXCEPT ![w].pc = "loop", ![w].vm = NoVm]
    /\ UNCHANGED <<instance, terminating, tracked>>

(***************************************************************************)
(* After the batch: rollbackUnallocatedVmsState, first the restart, then   *)
(* in a second transaction the termination of the rows still Allocating.   *)
(* A failure of the first skips the second.                                *)
(***************************************************************************)
AllocateBatchDone(w) ==
    /\ allocating[w].pc = "loop"
    /\ allocating[w].todo = {}
    /\ allocating[w].failed = {}
    /\ allocating' = [allocating EXCEPT ![w] = IdleWorker]
    /\ UNCHANGED <<jobs, vms, instance, terminating, tracked>>

RollbackRestart(w) ==
    /\ allocating[w].pc = "loop"
    /\ allocating[w].todo = {}
    /\ allocating[w].failed # {}
    /\ RestartAllocatingVms({v \in allocating[w].failed \cap VmsIn("Allocating") :
                                vms[v].restarts < VmRestartAttempts})
    /\ allocating' = [allocating EXCEPT ![w].pc = "terminateFailed"]
    /\ UNCHANGED <<instance, terminating, tracked>>

RollbackTerminate(w) ==
    /\ allocating[w].pc = "terminateFailed"
    /\ TerminateAllocatingVms({v \in allocating[w].failed \cap VmsIn("Allocating") :
                                  vms[v].restarts >= VmRestartAttempts})
    /\ allocating' = [allocating EXCEPT ![w] = IdleWorker]
    /\ UNCHANGED <<instance, terminating, tracked>>

\* A rollback transaction fails, or the process dies: the batch is forgotten.
AllocateAborted(w) ==
    /\ allocating[w].pc # "idle"
    /\ allocating' = [allocating EXCEPT ![w] = IdleWorker]
    /\ UNCHANGED <<jobs, vms, instance, terminating, tracked>>

----------------------------------------------------------------------------
(* Allocator::terminate.                                                   *)

(***************************************************************************)
(* getVmsToTerminate commits the batch and then reads cloud_vm_id of each  *)
(* row.  A NULL there throws out of a noexcept method: the process dies    *)
(* with the rows left Terminating.                                         *)
(***************************************************************************)
FetchVmsToTerminate(w) ==
    /\ terminating[w].pc = "idle"
    /\ \E S \in SUBSET VmsIn("PendingTermination") \ {{}} :
          /\ Cardinality(S) <= MaxVmTerminationCount
          /\ GetVmsToTerminate(S)
          /\ \/ /\ \A v \in S : vms[v].hasCloudId
                /\ terminating' = [terminating EXCEPT ![w].pc = "loop",
                                                      ![w].todo = S]
             \/ /\ \E v \in S : ~vms[v].hasCloudId
                /\ UNCHANGED terminating
    /\ UNCHANGED <<instance, allocating, tracked>>

TerminateInstance(w, v) ==
    /\ terminating[w].pc = "loop"
    /\ v \in terminating[w].todo
    /\ \/ /\ instance' = [instance EXCEPT ![v] = "gone"]
          /\ terminating' = [terminating EXCEPT ![w].pc = "save", ![w].vm = v,
                                                ![w].todo = @ \ {v}]
       \/ /\ instance' \in {instance, [instance EXCEPT ![v] = "gone"]}
          /\ terminating' = [terminating EXCEPT ![w].todo = @ \ {v},
                                                ![w].failed = @ \cup {v}]
    /\ UNCHANGED <<jobs, vms, allocating, tracked>>

SaveTermination(w) ==
    /\ terminating[w].pc = "save"
    /\ \/ SaveVmTerminationResult(terminating[w].vm)
       \/ UNCHANGED storageVars
    /\ terminating' = [terminating EXCEPT ![w].pc = "loop", ![w].vm = NoVm]
    /\ UNCHANGED <<instance, allocating, tracked>>

TerminateBatchDone(w) ==
    /\ terminating[w].pc = "loop"
    /\ terminating[w].todo = {}
    /\ IF terminating[w].failed = {}
       THEN UNCHANGED storageVars
       ELSE ReturnUnterminatedVms(terminating[w].failed)
    /\ terminating' = [terminating EXCEPT ![w] = IdleWorker]
    /\ UNCHANGED <<instance, allocating, tracked>>

\* returnUnterminatedVms fails, or the process dies.
TerminateAborted(w) ==
    /\ terminating[w].pc # "idle"
    /\ terminating' = [terminating EXCEPT ![w] = IdleWorker]
    /\ UNCHANGED <<jobs, vms, instance, allocating, tracked>>

----------------------------------------------------------------------------
(* Allocator::terminateUntrackedVms.                                       *)

\* getAllocatedVms fails when an active row has no cloud id.
GetAllocatedVms(m) ==
    LET active == {v \in Vms : vms[v].status \in ActiveVmStatuses}
    IN  /\ tracked[m].pc = "idle"
        /\ \A v \in active : vms[v].hasCloudId
        /\ tracked' = [tracked EXCEPT ![m] = [pc |-> "listing", known |-> active]]
        /\ UNCHANGED <<jobs, vms, instance, allocating, terminating>>

\* The instances the cloud lists as pending or running and that are not
\* known; the termination of any of them may fail.
TerminateUntrackedVms(m) ==
    /\ tracked[m].pc = "listing"
    /\ \E S \in SUBSET {v \in Vms \ tracked[m].known : instance[v] = "running"} :
          instance' = [v \in Vms |-> IF v \in S THEN "gone" ELSE instance[v]]
    /\ tracked' = [tracked EXCEPT ![m] = [pc |-> "idle", known |-> {}]]
    /\ UNCHANGED <<jobs, vms, allocating, terminating>>

\* The provider takes an instance back, or its host fails.
InstanceLost(v) ==
    /\ instance[v] = "running"
    /\ instance' = [instance EXCEPT ![v] = "gone"]
    /\ UNCHANGED <<jobs, vms, allocating, terminating, tracked>>

----------------------------------------------------------------------------
AllocateStep(w) ==
    \/ FetchVmsToAllocate(w)
    \/ \E v \in Vms : CreateInstance(w, v)
    \/ StartInstance(w)
    \/ SaveAllocation(w)
    \/ AllocateBatchDone(w)
    \/ RollbackRestart(w)
    \/ RollbackTerminate(w)

TerminateStep(w) ==
    \/ FetchVmsToTerminate(w)
    \/ \E v \in Vms : TerminateInstance(w, v)
    \/ SaveTermination(w)
    \/ TerminateBatchDone(w)

AllocatorStep ==
    \/ \E w \in AllocateThreads : AllocateStep(w) \/ AllocateAborted(w)
    \/ \E w \in TerminateThreads : TerminateStep(w) \/ TerminateAborted(w)
    \/ \E m \in MonitorThreads : GetAllocatedVms(m) \/ TerminateUntrackedVms(m)
    \/ \E v \in Vms : InstanceLost(v)

=============================================================================
