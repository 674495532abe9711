# VM Scheduler: TLA+ models, checks and proofs

VM Scheduler runs batches of jobs on cloud machines.  Clients submit tasks,
each a set of jobs; the core scheduler plans on which virtual machine each job
runs; the allocator creates and terminates the machines; an agent on each
machine runs its jobs in containers and reports; a failure detector repairs
what crashed components leave behind.  Several backends do all of this at once,
and the only thing they share is a PostgreSQL database.

This directory holds a TLA+ model of that system, TLC runs on small instances,
and TLAPS proofs that hold for every instance.  `PROJECT.json` has the same
information in machine-readable form: runs, mutants of the properties, the map
from definitions to source lines, findings, hazards, theorems.

## 1. The system

### Components

| component | source | state | operations |
|---|---|---|---|
| task storage | `libs/db` | tables `jobs`, `vms`, `plan`, `locks` | one transaction per method of `PgTaskStorage` |
| core scheduler | `libs/scheduler/impl/scheduler.cpp` | the snapshot and the plan id of the iteration in progress | `startScheduling`, `getCurrentState`, `assign`, `commitPlanChange` |
| VM assigner | `libs/scheduler/impl/*assigner*`, `job_allocator.cpp`, `vm_slot_selector.cpp` | none (pure) | jobs and idle VMs to placements and new VMs |
| allocator | `libs/allocator` | the batch in progress | `allocate`, `terminate`, `terminateUntrackedVms` |
| cloud client | `libs/aws/allocator` | EC2 instances (external) | `RunInstances`, `StartInstances`, `TerminateInstances`, `DescribeInstances` |
| failure detector | `libs/failure_detector` | none | five handlers, called by `monitor` |
| distributed lock | `libs/zookeeper` | znode and lock number of each replica | `lock`, `checkLockAcquired`, watches |
| agent API, public API | `libs/server` | none | gRPC handlers over the task storage |
| agent | `client/` (Go) | job queues, containers | poll assignments, launch, report |
| connection pool | `libs/postgres` | queue of free connections, waiting threads, transaction handles | `startTransaction`, destruction of a handle |
| threads, shutdown | `libs/concurrency`, `libs/task_registry`, `bin` | loop position and stop flag of each thread, the members still alive | payload loop, signal, destruction |
| configuration, logging, `Result` | `libs/common`, `*/config.cpp` | none | |

### How they interact

All communication goes through the tables.  A *job* goes Queued, Scheduled (on
a VM), Running, and ends Completed, Cancelled, Error or InternalError;
Cancelling is the state of a cancelled job whose agent has not answered.  A
*VM* goes PendingAllocation, Allocating, Allocated, AgentStarted,
PendingTermination, Terminating, Terminated.  The scheduler creates VM rows in
PendingAllocation and sends idle ones to PendingTermination; allocate and
terminate threads claim rows with `FOR UPDATE SKIP LOCKED`, call the cloud
without any transaction open, and record the result in another transaction;
agents poll over gRPC, which turns Allocated into AgentStarted; the failure
detector moves rows that have been in one state for too long.

### What is hard

* **Optimistic planning.**  A plan is computed from a snapshot read without
  locks, by two statements, and written back with `UPDATE ... SET cpu_idle = <value>`.
  The guards are the `plan` table (is mine the newest plan?) and
  `checkConflicts_` (is a job final, is a VM no longer active?).
* **Time.**  `NOW()` is the start of a transaction, which then waits for a table
  lock.  Whether plans stay ordered is not obvious.
* **Several planners.**  The ZooKeeper lock can be held by two replicas for a
  while, and is optional.
* **Cloud calls between transactions.**  A worker may die, be slow, or fail to
  save, after the cloud has acted.  The failure detector may take the row away
  from a worker that is still at it.
* **Leader election.**  The lock's threads act on children they read earlier, and
  watch nodes that may be gone by then; sessions expire, calls fail after they
  took effect, replicas crash and leave their nodes behind.
* **Waiting.**  Threads wait for connections and for their next turn on condition
  variables whose flags are not all set under the mutex, and members are
  destroyed while threads and RPC handlers are at work.
* **Packing.**  Placement by sorted order over sizes that are compared in two
  dimensions; slots are merged while they are filled.
* **Late, lost and repeated reports.**  A restarted job keeps its `vm_id`; final
  reports release capacity whether or not they change the job.

### What makes each component correct

* Storage and scheduler: no two plans fight over a job; capacity written from a
  snapshot is safe; job outcomes are final; jobs are put on live VMs only.
* Allocator and failure detector: one worker at a time works on a row; every
  allocation is resolved; a row that says its instance was terminated is right.
* VM assigner: every job is placed exactly once, on a VM or slot that holds it; a
  VM is given up only if nothing was put on it; the strategy picks the VM its
  name says.
* Distributed lock: no two replicas are ever given the same number; at most one
  claims a number whose node exists; a replica without a session stops claiming.
* Connection pool: a connection has one owner; no wakeup is lost; every call is
  served.
* Shutdown: nothing runs on a destroyed member; destruction ends.
* Restart policy: the limits bound how often a VM is retried and how many VMs
  ever take a job on.

## 2. The modules

```
TaskStorage            tables jobs, vms; their transactions
   |        \
Scheduler   Allocator  plan, locks, replicas / cloud instances, worker threads
   \        /
   VmScheduler ------> JobLifecycle   (abstract: the life of one job)
   /        \
MCVmScheduler  StorageProofs <-- VmSchedulerProofs <-- LifecycleProofs <-- VmProofs

PgPool ------> ConnectionPool   (abstract)      PgPoolProofs
DistLock ----> LeaderLock       (abstract)      DistLockProofs
BackgroundThread <-- Shutdown <-- MCShutdown    ShutdownProofs
VmAssigner <-- MCVmAssigner                     VmAssignerProofs
```

An arrow to the right is a refinement, checked by TLC and proved by TLAPS; the
others are EXTENDS, an arrow pointing at the module that is extended.

**TaskStorage.**  `jobs[j]` has the columns `status`, `vm` (`vm_id`) and
`restarts` (`restart_count`); `vms[v]` has `status`, `total`, `idle`,
`restarts` and whether `cloud_vm_id` is set.  Status `"none"` is an id not
inserted yet.  Each operator is one transaction and has the name of the method:
`CancelJobs`, `UpdateJobState`, `RestartJobs`, `TerminateVmsWhere` (the
`terminateVms_` that takes a condition) and so on.  Clock conditions become
arbitrary subsets: "stale" rows are any subset of the rows that meet the rest
of the `WHERE` clause.  Capacity is one number, since every statement treats
`cpu` and `ram` alike; `Demand(S)` is `SUM(jobs.cpu)`, written as a cardinality
so that it can be reasoned about without recursion.

**Scheduler.**  Each replica goes idle, starting, readingJobs, readingVms,
assigned, committing.  BEGIN and the section under the table lock are separate
steps (`BeginStart`/`StartScheduling`, `BeginCommit`/`CommitPlanChange`), because
`NOW()` belongs to the first; the jobs and the VMs of a snapshot are separate
steps, because the transaction is READ COMMITTED.  The locked sections are
atomic, since `SHARE ROW EXCLUSIVE` conflicts with itself and row locks are held
to the end.  `Assign` is the set of state changes the assigner may return:
exactly those of `SimpleVmAssigner`, or all that meet the contract of
`ComplexVmAssigner`, which the module VmAssigner checks against the algorithm.
New VM rows take ids not in use; if the model has none left, the commit does not
happen.  `LockAcquired` and `LockLost` are the effect of the ZooKeeper lock; any
number of replicas may believe they hold it.  `SchedulingFailed` is a failed
call or a restart at any point.

**Allocator.**  A worker has a batch (`todo`), the row in hand (`vm`) and the
rows that failed.  Each cloud or database call is an action and can fail; a
cloud call that reports failure may have taken effect.  `rollbackUnallocatedVmsState`
is two actions, since it is two transactions.  `FetchVmsToTerminate` has the
outcome in which a NULL `cloud_vm_id` kills the process after the commit.
`instance[v]` is the cloud's instance for row `v`: the client token made from
the row id allows at most one.  `InstanceLost` is the provider taking it back.

**VmScheduler.**  Adds agents (`agent[v][j]`: unknown, held, done), the handlers
of the failure detector, the client calls, and the task status that
`getTaskState` and `getTaskResult` compute from the jobs (`TaskStatus`).  An agent
may report any status the agent API admits, as `AgentStatuses` of each run says;
the Go agent of this repository sends Completed and Error only, although
`docs/architecture.md` has it report Running first.  `TimelyWorkers` is the
assumption that `allocationTimeLimit` is longer than a live worker's cloud
calls; the runs use both values.

**JobLifecycle.**  What a client may rely on for one job: it is added once,
returned to the queue only at the price of a restart, and never changes once it
has an outcome.  VmScheduler implements it for every job
(`ImplementsJobLifecycle`); the mapping sends a row to its status and restart
count.

**PgPool, ConnectionPool.**  A thread goes through the call: `connection` locks
the mutex, waits while the queue is empty and takes the front; the handle begins
a transaction, ends or leaves it, and its destructor gives the connection back
and notifies.  Push and `notify_one` are separate steps, because the mutex is
released in between, and waits may wake up spuriously.  The abstract pool knows
only the owner of each connection; the mapping reads it off the queue and the
handles, and a connection in two places, or in none, maps to no abstract state.

**BackgroundThread, Shutdown.**  BackgroundThread has the loop of one thread
(outer check, payload, inner wait with a deadline) and its destructor, which sets
the flag and notifies without the mutex and then joins.  Shutdown instantiates
it for the members of `TaskRegistry` in the order of their declaration, with the
mode deciding which exist, and adds `main`, the signal handler and RPC handlers.
Members are destroyed in reverse order while the threads run on.

**DistLock, LeaderLock.**  Every ZooKeeper call of `lock()` and
`checkLockAcquired()` and every callback is a step of one of a replica's threads.
`created` remembers who created each node and never forgets; `znodes` are the
nodes that exist.  A thread keeps the children it read, so that it may decide on
old ones; `watch_exists` on a missing node waits for ever.  A failed create may
have had its effect.  An expired session either comes back as a new one or ends
the process; a crashed process leaves its nodes as `orphans` until its session
expires.  `GetZxid` takes the number modulo `Modulus`, since the code reads the
last nine digits.  LeaderLock is what the scheduler may rely on: numbers are
granted once, and claimed only by their grantee.

**VmAssigner.**  One plan from start to end, for every input in the given sets:
`AllocateJob` puts one job on the VM the strategy chooses or sets it aside,
`SelectSlot` puts one job that was set aside into a slot or makes a slot for it,
each call of `merge_` is a step (`Merge` or `MergeReturns`, with the parameter in
`startSlot`), `Finish` ends the plan.  Capacities are pairs of cores and memory
with the comparison of the code.  `LowerBounds` are the positions at which
`std::lower_bound` may stop: where the predicate changes from true to false.  On
a range that the predicate partitions there is one; otherwise the library
promises nothing, and a binary search stops at one of them.
`InstanceTypesForSlot` is the cloud client's lookup.  `InputAssumption` is what
the constructor of Scheduler demands of the slots (sorted, not empty; otherwise it
throws), and `IdleWithinTotal` of the VMs.

The MC modules only give constants their values: jobs of one unit and
their tasks, the sizes of slots, jobs and VMs, the threads of a
backend.

## 3. Runs

| run | instance | properties | distinct states |
|---|---|---|---|
| Planning | 2 replicas, 1 job, 2 VM ids, 1 allocate thread, clock to 3 | PlansAreSpaced, PlansAreOwned, SnapshotIsSound, LaunchesAreCounted, AssignmentIsKept, OutcomeIsFinal | 656k |
| Capacity | 1 replica, tasks of 1 and 2 jobs, slots of 1 and 2, clock to 2, timely workers | NoOvercommit, AssignedToActiveVm, ImplementsJobLifecycle, CompletedTaskStaysCompleted | 547k |
| SlowWorkers | 1 replica, 2 tasks of one job, slots of 1 and 2, clock to 2, the lock may be lost, workers may be overtaken, agents report Running and Completed | IdleWithinTotal, OnlyLateReportsOvercommit | 671k |
| VmLifecycle | 1 VM, 2 allocate, 1 terminate, 1 monitor thread, SimpleVmAssigner, fairness | TypeOK, TerminatedInstanceIsGone, OneWorkerPerVm, AllocationResolves | 240k |
| Pool | 4 threads, 2 connections, fairness | TypeOK, NoLostWakeup, BusyOnlyBehindDestructor, ImplementsConnectionPool, EveryCallIsServed | 37k |
| Shutdown | all threads of a FullScheduler backend, fairness | NoUseAfterDestruction, ResetCompletes | 580k |
| DistLock | 2 replicas, 3 nodes, an expiry, a crash and a failed create, fairness | AtMostOneLeads, ImplementsLeaderLock, StaleNumberIsDropped | 215k |
| Assigner | 5 strategies, 3 orderings, up to 3 jobs and 2 VMs, three lists of slots | JobsFitTheirVms, SlotsHoldTheirJobs, MergedFully, EveryJobIsPlacedOnce, TerminatesOnlyUnusedVms, InstanceIsTheSlot, FindsTheRightVm | 821k |

What they show, beyond the names:

* *Planning*: with two planners and no lock at all, plans stay in order, and no
  plan moves a job of another.  A replica with a stale lock number can do
  nothing that a replica without a lock cannot, so the run covers two leaders as
  well; the theorem `AssignmentKept` says it for every instance.
* *Capacity*: jobs that share a VM never overcommit it, a commit puts jobs on
  active VMs only, and no client sees a finished task unfinished again.
* *SlowWorkers*: `NoOvercommit` and `OneWorkerPerVm` hold under `TimelyWorkers`
  only.  Without it a row can be terminated and its job restarted while a slow
  worker revives the row.  `OnlyLateReportsOvercommit` says what survives: plans,
  cancellations, restarts and terminations keep the books of a VM balanced, and
  only a report on a job that already has its outcome releases capacity twice.
* *VmLifecycle*: an allocation is resolved whatever dies or fails on the way.
* *Pool*: neither a failed begin nor a spurious wakeup loses a connection or a
  wakeup, and a connection is busy with somebody else's transaction only while
  that one is being destroyed.
* *Shutdown*: a notification that falls between the check and the wait costs a
  period, not the join, since the wait has a deadline.
* *DistLock*: stale children never let two replicas with living nodes claim the
  lock.  A replica whose node is gone with its session stops claiming its number,
  with one exception, which the property states (`WatchMissed`): a thread that read
  the children before the expiry and decides after the reconnect claims the number of
  a dead node and registers its watch too late, so the watch never fires and the
  replica may claim that number for ever.  TLC shows it when the exception is dropped.
  `checkLeader_` does not stop such a replica; *Planning* says what it can do:
  nothing that breaks an assignment.
* *Assigner*: the contract of `ComplexAssign` in Scheduler is what the algorithm
  gives, for all strategies, if the sizes on offer are nested (each fits the next in
  cores and in memory, as in the default class `c6g.`) or if every job fits the last
  of them.  For other sizes it is not: with (2, 8) and (4, 4) on offer, `lower_bound`
  for a job of (2, 8) runs to the end, and `getMinFitSlot_` falls back to (4, 4),
  which is too small, although (2, 8) fits.  `SlotsHoldTheirJobs` has this exception;
  `NoOvercommit` has it in the premise `JobsFitSlots`.

Why the bounds are enough for the cases that matter.  Two replicas and a clock
of three intervals give three plans, so a plan can be overtaken by another and
by the plan after it, and a commit can refresh a timestamp after a wait.  Two
VM ids let a job be restarted from one VM and placed on another while the first
still reports.  Two tasks and a VM of size two give a VM shared by jobs of
different plans, and a third job a task whose jobs end at different times.  Two allocate workers are what the rollback race and the claim
race need.  Four threads on two connections leave two waiting while two give
back.  Three nodes are one per replica and one more for the replica that starts
over; the bound `MaxSeq` is below `Modulus`, so the order does not wrap around
(a wrap needs a thousand million nodes).  Of the slots of
Assigner one list doubles from slot to slot, so that merging happens and goes on,
one does not, and one mixes two families, so that the searches have several
places to stop at.  Symmetry (VM ids, replicas) is used in Planning,
which checks safety only.

`CHECK_DEADLOCK FALSE` everywhere: clock, jobs, calls, nodes and faults are
bounded, plans and processes end, so behaviours end.

### Disagreements between documentation and code

Each of these runs checks one sentence or arrow of the documentation, and TLC
finds a behaviour of the code that contradicts it.

| run | property | the documentation | the code |
|---|---|---|---|
| CancellingStuck | CancellingResolves | a cancelled job is "eventually" Cancelled | `Cancelling` is in `getFinalJobStatuses`, so the report Cancelled never changes the row |
| TerminatedRevived | TerminatedIsFinal | Terminated is the last state | the second transaction of a rollback terminates a row another worker has claimed; that worker's save makes it Allocated |
| StrandedJob | NoJobLeftOnTerminatedVm | the failure detector returns Scheduled jobs to the queue | `terminateVmsWithInactiveAgents` restarts Running jobs only |
| NobodyLeads | SomeReplicaLeads | one of the replicas is active | a watch set on a predecessor that is already gone never fires, and nobody behind it leads |

Further places where code and documentation or intention part, met while
modelling; each is visible in the code and has no run of its own:

* `main.cpp:49`: the signal handler sets `isStopping` and notifies nobody, so
  `main` goes on waiting until a spurious wakeup.  Shutdown has the wait without
  fairness for such wakeups, which is why `ResetCompletes` starts at the reset.
* `job_allocator.cpp:42`: the iterator of NextFit belongs to a vector that has
  been moved from and is a null pointer (`NullIterator`, `DereferenceNull`).
* `vm_slot_selector.cpp:71`, `job_allocator.cpp:151`: `lower_bound` with a
  predicate that does not partition slots of different families.  A VM that fits,
  or the least slot that does, may be missed; and when the search for a slot runs to
  the end, the last one is taken, which may be too small although another fits.
* `cloud_client.cpp:52`: a slot of SimpleVmAssigner need not be an instance type.
* `allocator.cpp:75`, `allocator.cpp:90`: nothing resolves a row left Terminating
  (two TODOs say so); and a plan may terminate a VM without a cloud id, which
  `getVmsToTerminate` reads as a string.
* `pg_task_storage.cpp:408`: `checkLeader_` logs a stale number and succeeds.
* `job_state.puml` has fewer arrows than jobs take.  Reports of agents are accepted
  in any status that is no outcome: from Scheduled a job also becomes Completed,
  Error or Cancelled, from Running Cancelled, and from Queued, by a late report of
  the VM it was restarted from (`vm_id` is kept), Running, Completed or Error.  After
  such a report a plan whose snapshot had the job Queued takes it from Running to
  Scheduled.  `Successors` in JobLifecycle has all of these, so
  `ImplementsJobLifecycle` is not a promise of the diagram.
* `public_api_service.cpp:171`: when the storage fails, the handler reads the error
  of the parameters, which have none.
* `client/registry/state.go:47`, `client/registry/registry.go:46`: maps that are
  never made; the first assignment panics.

### Fairness

*VmScheduler* assumes weak fairness of each allocate and terminate thread (a
`BackgroundThread` calls its payload again and again), of the failure detector's
stale-row handler (the same), and of the agents' polls and reports (tickers in
the client).  Nothing is assumed about crashes, which may happen for ever, about
the scheduler, or about clients.  `AllocationResolves` needs no more, because
every retry is charged to `restart_count`.

*PgPool* assumes that a thread inside a call takes its next step when it can; not
that it makes calls, nor that it ever wakes up for nothing.

*Shutdown* assumes that `main`, the threads and the handlers run, and that time
passes; not that signals come or that waits wake up spuriously.

*DistLock* assumes that threads run, that ZooKeeper expires the sessions of dead
processes, and that a client learns of its own expired session; faults are
never required to happen.

## 4. Proofs

Eight modules are checked by TLAPS for all values of the constants that meet the
named assumptions of the models: jobs are finite, requests are bounded, tasks
are disjoint, intervals are positive, there is a largest slot (and for VmAssigner
the slots are sorted and not empty), names for
"nothing" are not in the sets they stand outside of.  Jobs may ask for nothing,
or for more than any slot.

| module | theorem | statement |
|---|---|---|
| VmSchedulerProofs | Invariance, TypeCorrect | `Spec => []Inv`, `Spec => []TypeOK` |
| | PlansSpaced, PlansOwned | `Spec => []PlansAreSpaced`, `Spec => []PlansAreOwned` |
| | SnapshotSound | `Spec => []SnapshotIsSound` |
| | IdleBounded | `Spec => []IdleWithinTotal` |
| | AssignmentKept, OutcomeFinal | the action properties `AssignmentIsKept`, `OutcomeIsFinal` |
| | AssignedActive | the action property `AssignedToActiveVm` |
| LifecycleProofs | LifecycleImplemented | `Spec => ImplementsJobLifecycle` |
| | TaskStaysCompleted | the action property `CompletedTaskStaysCompleted` |
| | LaunchesCounted | `Spec => []LaunchesAreCounted` |
| VmProofs | OneWorker | `Spec => []OneWorkerPerVm`, if `TimelyWorkers` |
| | TerminatedGone | `Spec => []TerminatedInstanceIsGone` |
| | OnlyLateReports | the action property `OnlyLateReportsOvercommit`, if `JobsFitSlots` |
| | NoVmOvercommitted | `Spec => []NoOvercommit`, if `TimelyWorkers`, `RollbacksAreUncontested` and `JobsFitSlots` |
| PgPoolProofs | PoolInvariance, PoolTypeCorrect | `Spec => []Inv`, `Spec => []TypeOK` |
| | BusyBehindDestructor, WakeupsKept | `Spec => []BusyOnlyBehindDestructor`, `Spec => []NoLostWakeup` |
| | PoolImplemented | `Spec => ImplementsConnectionPool` |
| ShutdownProofs | DestructionIsOrdered | `Spec => []NoUseAfterDestruction` |
| DistLockProofs | LockInvariance, OneLeader | `Spec => []Inv`, `Spec => []AtMostOneLeads`, if `MaxSeq < Modulus` |
| | LockImplemented | `Spec => ImplementsLeaderLock`, if `MaxSeq < Modulus` |
| VmAssignerProofs | BooksBalance | `Spec => []JobsFitTheirVms` |
| | UsedVmsAreKept | `Spec => []TerminatesOnlyUnusedVms` |
| | RightVmFound | the action property `FindsTheRightVm` |
| | SlotsHoldJobs, NothingLeftToMerge | `Spec => []SlotsHoldTheirJobs`, `Spec => []MergedFully` |
| | PlansAreComplete | `Spec => []EveryJobIsPlacedOnce` |
| | LaunchedAsPlanned | `Spec => []InstanceIsTheSlot` |

**The service.**  Steps fall into two classes.  *Quiet* transactions (every one
but `commitPlanChange`) never make a job Scheduled, never revise an outcome,
never lower a VM's idle capacity and never change its size; `StorageProofs` shows
this for each of them (`QuietJobs`, `QuietVms`).  So only a commit can hurt a
snapshot.  A commit happens only for the newest plan, and `PlansAreSpaced` with
`PlansAreOwned` shows that there is exactly one such plan and that it belongs to
the committing replica: hence no *other* replica's snapshot is relevant when a
commit happens, and none becomes relevant by it.

`SnapshotIsSound` by itself is not inductive: a plan that is not the newest says
nothing, and could become the newest by a refresh.  `Inv` adds the ownership of
plans (timestamps never exceed the clock, two replicas at work have different
plans, a commit's `NOW()` is not before its row), and that the VMs of a snapshot
exist, so that a commit does not reuse their ids.  `AssignmentKept` and
`OutcomeFinal` then follow step by step: a commit assigns jobs of a sound
snapshot that passed `checkConflicts_`, and every other step is quiet.
`LifecycleImplemented` goes through the transactions once more and shows, job by
job, that each is a step of JobLifecycle or none.

`AssignedActive` looks inside the commit: a job that asks for something leaves
its VM less idle than it is large, so it is not among the VMs the same plan
terminates, and `checkConflicts_` has seen it active.  The property speaks of
jobs that ask for something, since for the others it is false.

`LaunchesCounted` needs to know which VM is not charged for yet: `LaunchInv` says
that every VM that took a job on, but for the one `vm_id` names, has been charged
as a restart, and that a job that waits, in the table or in the snapshot of the
newest plan, has been charged for all of them.

**VM rows.**  `OneWorkerPerVm` is not inductive, because a worker hands its failed
rows back at the end of its batch: if one of them were by then another worker's,
that row would be claimed twice.  `ClaimsAreExclusive` therefore includes the
failed rows until their restart, and says in which statuses a claimed row can
be.  `TerminatedGone` needs no timeliness: `GoneInv` adds that a row
without a cloud id is the only kind that is terminated without a call to the
cloud, and that a thread about to save a termination has seen the instance go;
an instance never comes back, as the client token of a row makes one only.

**Capacity.**  `Balanced(v)` counts the jobs whose capacity has not been released:
a job that was returned to the queue still has it, and a Cancelling job has it
until its agent reports.  The proof of `OnlyLateReports` takes the transactions
one by one; for a commit, `SnapshotIsSound` says that the idle capacity the plan
started from is not more than what is there now.  `NoOvercommit` is then a matter
of excluding late reports.  `AliveInv` does so for every VM that is in use *or may
still be made Allocated by a worker*: none of its jobs is back in the queue, and
none that has an outcome is still held by its agent.  The second kind of VM is
needed because `saveVmAllocationResult` revives rows.

Each premise is needed.

* `JobsFitSlots`: a job larger than every slot is put on the largest one, which it
  overcommits from the start (`operator-` saturates and no error is raised).  Among
  sizes that are not nested the premise has to be read as: every job fits the last
  size, the one `getMinFitSlot_` falls back to.
* `TimelyWorkers`: a slow worker revives a row whose jobs were restarted.
* `RollbacksAreUncontested` (a service that restarts no VM, or one allocate thread):
  with two workers and one restart TLC refutes `AliveInv`.  A worker's rollback
  restarts its row, a second worker claims it, and the first worker's second
  transaction terminates it and returns its jobs to the queue; the second worker
  saves it as Allocated, and a cancellation and a late report then both release
  the capacity of the same job.  It is the race of the run TerminatedRevived.

**The pool.**  `Inv` says that a connection is in the queue once or in one
handle, and counts: while some thread waits, the connections in the queue are no
more than the threads that are about to take one or to notify.  A push and the
notification that follows move one thread from one count to the other, which is
what makes the bound inductive although other threads may take the connection
in between.

**Shutdown.**  Members go in the reverse order of their declaration, so what is
alive is a prefix; a thread is gone before anything it uses.

**The lock.**  `AtMostOneLeads` is not inductive: a thread may be about to claim
on the strength of old children.  `Inv` says that numbers are used in their
order, that what a thread has seen is earlier than what it has not seen, and
that a claimed number is at most that of every node that exists.  New nodes come
behind all that were ever created, so none of this is disturbed by them.  The
premise `MaxSeq < Modulus` is needed: once the nine digits wrap around, a new
node is sorted first.

**The assigner.**  `Inv` has three parts that none of the properties states.
`VmsInv`: the container has one record of each VM, whose idle capacity is what
the jobs on it leave, and for BestFit and WorstFit it is sorted; `Rearranged`
shows that taking a record out and putting it back behind those that are not
greater keeps that, by naming for each position the one its record came from.
`PlacedInv`: each job is still to be looked at, on a VM or set aside, and of
those set aside in exactly one slot once it was looked at.  `MergedFully` is
inductive because it speaks of the time inside `merge_` too: then the two slots
to be joined are the only ones of a size that can be merged, so the join can make
at most one new pair, with the slot it makes.  The size of a merged slot is
offered and its idle capacity is right because two saturating subtractions that
did not saturate add up (`JoinTwo`).  `RightVmFound` needs that among nested
capacities the lexicographic order in which the containers are sorted is the
order of `fits()`; without nesting it is false.  `LaunchedAsPlanned` needs no
nesting: the lookup searches by the order the types are sorted by.

Model-checked only: the liveness properties `AllocationResolves`,
`EveryCallIsServed`, `ResetCompletes` and `StaleNumberIsDropped`, since liveness
under fairness is outside the prover.

## 5. Not modelled, and the plan

Left out for good: request formats, JSON validation, user data, placement and
paging of the cloud client, container images, S3, logging, configuration parsing,
`Result`, the mocks.  `DistributedLock::stop` is never called.  The queues of the
Go agent are modelled by their effect only: at this commit their maps are nil,
so there is no behaviour of theirs after the first assignment.

Left to do, in this order:

1. An abstract life cycle of a VM row, with the revival of a terminated row as
   the one step it does not have, implemented under `TimelyWorkers` and with one
   worker.
2. DistLock in place of `LockAcquired` and `LockLost`, with numbers that wrap
   around.
