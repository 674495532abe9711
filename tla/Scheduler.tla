----------------------------- MODULE Scheduler -----------------------------
(***************************************************************************)
(* Replicas of the core scheduler planning over one TaskStorage.           *)
(*                                                                         *)
(* Scheduler::schedule is a sequence of three storage calls with a pure    *)
(* computation before the last: startScheduling registers a plan row,      *)
(* getCurrentState reads the queued jobs and then, in a second statement   *)
(* of a READ COMMITTED transaction, the active VMs, VmAssigner::assign     *)
(* computes a state change, and commitPlanChange applies it if the plan is *)
(* still the newest.  startScheduling and commitPlanChange take a lock on  *)
(* the plan table that conflicts with itself, so their locked sections are *)
(* atomic with respect to each other.  NOW() is the time of BEGIN, before  *)
(* the wait for that lock: BEGIN and the locked section are two steps.     *)
(***************************************************************************)
EXTENDS TaskStorage, Sequences

CONSTANTS
    Backends,       \* scheduler replicas
    Interval,       \* schedulingInterval
    MaxClock,       \* bound on the clock, hence on the number of plans
    MaxLockNumber,  \* bound on lock numbers; 0: no distributed lock configured
    Slots,          \* sizes of the VMs the cloud offers (possibleSlots)
    AssignerType    \* vmAssignerType

ASSUME SchedulerAssumption ==
    /\ Interval \in Nat \ {0}
    /\ MaxClock \in Nat
    /\ MaxLockNumber \in Nat
    /\ Slots \subseteq Nat
    /\ \E s \in Slots : \A t \in Slots : t <= s
    /\ AssignerType \in {"Simple", "Complex"}

VARIABLES
    clock,       \* the database's clock
    plan,        \* scheduler.plan: plan[id] is the row's `updated' column
    locks,       \* MAX(id) of scheduler.locks, 0 when the table is empty
    lockNumber,  \* DistributedLock::lockNumber_ of each replica, 0: nullopt
    sched        \* where each replica's scheduling thread is

schedulerVars == <<clock, plan, locks, lockNumber, sched>>

Pcs == {"idle", "starting", "readingJobs", "readingVms", "assigned",
        "committing"}

(***************************************************************************)
(* lock: the lock number schedule() started with; begin: NOW() of the open *)
(* transaction; plan: the PlanId; queued, seen, seenIdle: the State that   *)
(* getCurrentState returned.                                               *)
(***************************************************************************)
Replica ==
    [pc : Pcs, lock : 0 .. MaxLockNumber, begin : Nat, plan : Nat,
     queued : SUBSET Jobs, seen : SUBSET Vms, seenIdle : [Vms -> Nat]]

NoIdle == [v \in Vms |-> 0]

IdleReplica ==
    [pc |-> "idle", lock |-> 0, begin |-> 0, plan |-> 0,
     queued |-> {}, seen |-> {}, seenIdle |-> NoIdle]

SchedulerInit ==
    /\ clock = Interval
    /\ plan = << >>
    /\ locks = 0
    /\ lockNumber = [b \in Backends |-> 0]
    /\ sched = [b \in Backends |-> IdleReplica]

SchedulerTypeOK ==
    /\ clock \in Nat
    /\ plan \in Seq(Nat)
    /\ locks \in 0 .. MaxLockNumber
    /\ lockNumber \in [Backends -> 0 .. MaxLockNumber]
    /\ sched \in [Backends -> Replica]

----------------------------------------------------------------------------
(* Time and the distributed lock.                                          *)

Tick ==
    /\ clock < MaxClock
    /\ clock' = clock + 1
    /\ UNCHANGED <<plan, locks, lockNumber, sched>>

(***************************************************************************)
(* DistLock shows what the distributed lock promises (LeaderLock): two     *)
(* replicas never claim the same number.  It does not promise that numbers *)
(* are claimed in their order: a replica may decide on children that it    *)
(* read long ago, and one that lost its session keeps its number until its *)
(* own watch fires.                                                        *)
(***************************************************************************)
LockAcquired(b) ==
    /\ \E n \in 1 .. MaxLockNumber :
          /\ \A c \in Backends \ {b} : lockNumber[c] # n /\ sched[c].lock # n
          /\ lockNumber' = [lockNumber EXCEPT ![b] = n]
    /\ UNCHANGED <<clock, plan, locks, sched>>

LockLost(b) ==
    /\ lockNumber[b] # 0
    /\ lockNumber' = [lockNumber EXCEPT ![b] = 0]
    /\ UNCHANGED <<clock, plan, locks, sched>>

----------------------------------------------------------------------------
(* startScheduling.                                                        *)

BeginStart(b) ==
    /\ sched[b].pc = "idle"
    /\ MaxLockNumber = 0 \/ lockNumber[b] # 0
    /\ sched' = [sched EXCEPT ![b].pc = "starting", ![b].begin = clock,
                              ![b].lock = lockNumber[b]]
    /\ UNCHANGED <<clock, plan, locks, lockNumber>>

\* Mutant of PlanWasRecentlyUpdated: the interval is not added.
PlanIsNewer(now) == \E p \in DOMAIN plan : plan[p] > now

PlanWasRecentlyUpdated(now) ==
    \E p \in DOMAIN plan : plan[p] + Interval > now

\* checkLeader_ records a higher lock number and rejects none.
CheckLeader(n) == locks' = IF n > locks THEN n ELSE locks

\* Mutant of StartScheduling: a recent plan is joined, not left alone.
JoinScheduling(b) ==
    /\ sched[b].pc = "starting"
    /\ CheckLeader(sched[b].lock)
    /\ plan' = IF PlanWasRecentlyUpdated(sched[b].begin)
               THEN plan ELSE Append(plan, sched[b].begin)
    /\ sched' = [sched EXCEPT ![b].pc = "readingJobs", ![b].plan = Len(plan')]
    /\ UNCHANGED <<clock, lockNumber>>

StartScheduling(b) ==
    /\ sched[b].pc = "starting"
    /\ CheckLeader(sched[b].lock)
    /\ \/ /\ PlanWasRecentlyUpdated(sched[b].begin)
          /\ sched' = [sched EXCEPT ![b] = IdleReplica]
          /\ UNCHANGED plan
       \/ /\ ~PlanWasRecentlyUpdated(sched[b].begin)
          /\ plan' = Append(plan, sched[b].begin)
          /\ sched' = [sched EXCEPT ![b].pc = "readingJobs",
                                    ![b].plan = Len(plan) + 1]
    /\ UNCHANGED <<clock, lockNumber>>

----------------------------------------------------------------------------
(* getCurrentState.                                                        *)

GetQueuedJobs(b) ==
    /\ sched[b].pc = "readingJobs"
    /\ sched' = [sched EXCEPT
                    ![b].pc = "readingVms",
                    ![b].queued = {j \in Jobs : jobs[j].status = "Queued"}]
    /\ UNCHANGED <<clock, plan, locks, lockNumber>>

ActiveVms == {v \in Vms : vms[v].status \in ActiveVmStatuses}

GetActiveVms(b) ==
    /\ sched[b].pc = "readingVms"
    /\ sched' = [sched EXCEPT
                    ![b].pc = "assigned",
                    ![b].seen = ActiveVms,
                    ![b].seenIdle = [v \in Vms |->
                        IF v \in ActiveVms THEN vms[v].idle ELSE 0]]
    /\ UNCHANGED <<clock, plan, locks, lockNumber>>

----------------------------------------------------------------------------
(***************************************************************************)
(* VmAssigner::assign.  A state change is a record: jobToVm places every   *)
(* queued job, on a VM of the snapshot or on a new one; total gives the    *)
(* size of each new VM (desiredSlotMap).  A new VM's row id is drawn from  *)
(* the ids not in use.                                                     *)
(***************************************************************************)
FreshVms == VmsIn("none")

MaxSlot == CHOOSE s \in Slots : \A t \in Slots : t <= s

PlacedOn(c, v) == {j \in DOMAIN c.jobToVm : c.jobToVm[j] = v}

NewVms(c) == {v \in FreshVms : PlacedOn(c, v) # {}}

\* SimpleVmAssigner: one new VM of exactly the required size for each job.
SimpleAssign(b) ==
    {[jobToVm |-> f,
      total |-> [v \in Vms |-> Demand({j \in sched[b].queued : f[j] = v})]] :
        f \in {g \in [sched[b].queued -> FreshVms] :
                  \A i, j \in sched[b].queued : g[i] = g[j] => i = j}}

(***************************************************************************)
(* What ComplexVmAssigner promises whatever its allocation strategy: jobs  *)
(* put on a VM of the snapshot fit its idle capacity; the other jobs go to *)
(* new VMs of an offered size, where they fit together, or where a job     *)
(* larger than every size has the largest size to itself.                  *)
(*                                                                         *)
(* This is the contract of sizes that are nested, as those of the default  *)
(* class c6g. are, or of jobs that all fit the last size.  Otherwise the   *)
(* lower_bound of getMinFitSlot_ may run to the end, and a job that fits   *)
(* some size, but not the last, is given the last.                         *)
(***************************************************************************)
FitsSlot(S, size) ==
    \/ Demand(S) <= size
    \/ /\ size = MaxSlot
       /\ \E j \in S : Req[j] > MaxSlot /\ Demand(S \ {j}) = 0

ComplexAssign(b) ==
    {c \in [jobToVm : [sched[b].queued -> sched[b].seen \cup FreshVms],
            total : [Vms -> Slots \cup {0}]] :
        /\ \A v \in sched[b].seen :
              Demand(PlacedOn(c, v)) <= sched[b].seenIdle[v]
        /\ \A v \in Vms :
              IF v \in NewVms(c)
              THEN c.total[v] \in Slots /\ FitsSlot(PlacedOn(c, v), c.total[v])
              ELSE c.total[v] = 0}

Assign(b) == IF AssignerType = "Simple" THEN SimpleAssign(b)
                                        ELSE ComplexAssign(b)

\* Mutant of IdleAfter: the demand is not subtracted.
IdleBefore(b, c, v) ==
    IF v \in sched[b].seen THEN sched[b].seenIdle[v] ELSE c.total[v]

\* Idle capacity the plan leaves on a VM: slot subtraction saturates at 0.
IdleAfter(b, c, v) ==
    LET capacity == IF v \in sched[b].seen THEN sched[b].seenIdle[v]
                                           ELSE c.total[v]
        demand == Demand(PlacedOn(c, v))
    IN  IF demand <= capacity THEN capacity - demand ELSE 0

UpdatedVms(b, c) == {v \in sched[b].seen : PlacedOn(c, v) # {}}

\* getIdleVms: VMs of the snapshot that the plan leaves entirely idle.
VmsToTerminate(b, c) ==
    {v \in sched[b].seen : IdleAfter(b, c, v) = vms[v].total}

----------------------------------------------------------------------------
(* commitPlanChange.                                                       *)

BeginCommit(b) ==
    /\ sched[b].pc = "assigned"
    /\ sched' = [sched EXCEPT ![b].pc = "committing", ![b].begin = clock]
    /\ UNCHANGED <<clock, plan, locks, lockNumber>>

\* The rows whose `updated' is MAX(updated): there must be exactly one.
LatestPlans == {p \in DOMAIN plan : \A q \in DOMAIN plan : plan[q] <= plan[p]}

\* Mutant of IsSchedulingRelevant: any registered plan may be committed.
IsScheduling(p) == p \in DOMAIN plan

IsSchedulingRelevant(p) == LatestPlans = {p}

\* Mutants of CheckConflicts: one of the two checks is missing.
CheckJobConflicts(b, c) ==
    \A j \in sched[b].queued : jobs[j].status \notin FinalJobStatuses

CheckVmConflicts(b, c) ==
    \A v \in UpdatedVms(b, c) : vms[v].status \in ActiveVmStatuses

CheckConflicts(b, c) ==
    /\ \A j \in sched[b].queued : jobs[j].status \notin FinalJobStatuses
    /\ \A v \in UpdatedVms(b, c) : vms[v].status \in ActiveVmStatuses

\* terminateVms_, updateVmCapacities_ and allocateNewVms_: the first has no
\* condition on the VM's status, the second overwrites whatever is there.
ApplyVmChanges(b, c) ==
    vms' = [v \in Vms |->
        IF v \in NewVms(c)
        THEN [NoVmRow EXCEPT !.status = "PendingAllocation",
                             !.total = c.total[v],
                             !.idle = IdleAfter(b, c, v)]
        ELSE [vms[v] EXCEPT
                !.status = IF v \in VmsToTerminate(b, c)
                           THEN "PendingTermination" ELSE @,
                !.idle = IF v \in UpdatedVms(b, c)
                         THEN IdleAfter(b, c, v) ELSE @]]

ApplyJobVmAssignments(b, c) ==
    jobs' = [j \in Jobs |->
        IF j \in sched[b].queued
        THEN [jobs[j] EXCEPT !.status = "Scheduled", !.vm = c.jobToVm[j]]
        ELSE jobs[j]]

RefreshPlanActivityTs(b) ==
    plan' = [plan EXCEPT ![sched[b].plan] = sched[b].begin]

CommitPlanChange(b) ==
    /\ sched[b].pc = "committing"
    /\ \E c \in Assign(b) :
          \/ /\ IsSchedulingRelevant(sched[b].plan)
             /\ CheckConflicts(b, c)
             /\ ApplyVmChanges(b, c)
             /\ ApplyJobVmAssignments(b, c)
             /\ RefreshPlanActivityTs(b)
          \/ /\ ~(IsSchedulingRelevant(sched[b].plan) /\ CheckConflicts(b, c))
             /\ UNCHANGED <<jobs, vms, plan>>
    /\ sched' = [sched EXCEPT ![b] = IdleReplica]
    /\ UNCHANGED <<clock, locks, lockNumber>>

\* A storage call fails (and is rolled back) or the replica restarts.
SchedulingFailed(b) ==
    /\ sched[b].pc # "idle"
    /\ sched' = [sched EXCEPT ![b] = IdleReplica]
    /\ UNCHANGED <<clock, plan, locks, lockNumber>>

----------------------------------------------------------------------------
\* Steps that touch the scheduler's variables only.
SchedulerLocalStep ==
    \/ Tick
    \/ \E b \in Backends :
          \/ LockAcquired(b)
          \/ LockLost(b)
          \/ BeginStart(b)
          \/ StartScheduling(b)
          \/ GetQueuedJobs(b)
          \/ GetActiveVms(b)
          \/ BeginCommit(b)
          \/ SchedulingFailed(b)

SchedulerStep ==
    \/ SchedulerLocalStep /\ UNCHANGED storageVars
    \/ \E b \in Backends : CommitPlanChange(b)

----------------------------------------------------------------------------
(* Properties of planning.                                                 *)

(***************************************************************************)
(* Plan rows are at least one scheduling interval apart, in the order of   *)
(* their ids, although NOW() is taken before the plan lock is: a replica   *)
(* that waited for the lock cannot slip an older timestamp behind a newer  *)
(* one (planWasRecentlyUpdated_, refreshPlanActivityTs_).  It is what makes*)
(* MAX(updated) name exactly one plan in isSchedulingRelevant_.            *)
(***************************************************************************)
PlansAreSpaced ==
    \A p, q \in DOMAIN plan : p < q => plan[p] + Interval <= plan[q]

HasPlan(b) == sched[b].pc \in {"readingJobs", "readingVms", "assigned",
                               "committing"}

(***************************************************************************)
(* Each plan row belongs to at most one replica at work, no timestamp lies *)
(* in the future, and the NOW() of a commit is not older than the row it   *)
(* refreshes.  With PlansAreSpaced this is inductive: it is why            *)
(* refreshPlanActivityTs_ cannot reorder the plans.                        *)
(***************************************************************************)
PlansAreOwned ==
    /\ \A p \in DOMAIN plan : plan[p] <= clock
    /\ \A b \in Backends : sched[b].begin <= clock
    /\ \A b \in Backends : HasPlan(b) => sched[b].plan \in DOMAIN plan
    /\ \A b, c \in Backends : b # c /\ HasPlan(b) /\ HasPlan(c)
                                 => sched[b].plan # sched[c].plan
    /\ \A b \in Backends : sched[b].pc = "committing"
                              => plan[sched[b].plan] <= sched[b].begin

(***************************************************************************)
(* The optimistic check of commitPlanChange is enough: as long as a        *)
(* replica's plan is the newest, no job of its snapshot has been scheduled *)
(* by anyone else, and no VM of its snapshot has less idle capacity than   *)
(* the snapshot says, so the capacities it is about to write are safe.     *)
(***************************************************************************)
SnapshotIsSound ==
    \A b \in Backends : IsSchedulingRelevant(sched[b].plan) =>
        /\ sched[b].pc \in {"readingVms", "assigned", "committing"} =>
              \A j \in sched[b].queued : jobs[j].status # "Scheduled"
        /\ sched[b].pc \in {"assigned", "committing"} =>
              \A v \in sched[b].seen : sched[b].seenIdle[v] <= vms[v].idle

=============================================================================
