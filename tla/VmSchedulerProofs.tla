------------------------- MODULE VmSchedulerProofs -------------------------
(***************************************************************************)
(* Theorems about the service, for any sets of jobs, VMs, replicas and     *)
(* threads, any capacities, restart limits and scheduling interval.        *)
(*                                                                         *)
(* They rest on one inductive invariant, Inv.  Its core is SnapshotInv:    *)
(* while a replica's plan is the newest row of the plan table, nobody else *)
(* has committed since the replica read its snapshot, and every other step *)
(* is quiet, so idle capacities can only have grown.                       *)
(***************************************************************************)
EXTENDS StorageProofs

\* SnapshotIsSound, with `newest' in place of the query on MAX(updated).
SnapshotInv ==
    \A b \in Backends : sched[b].plan = Len(plan) =>
        /\ sched[b].pc \in {"readingVms", "assigned", "committing"} =>
              \A j \in sched[b].queued : jobs[j].status # "Scheduled"
        /\ sched[b].pc \in {"assigned", "committing"} =>
              \A v \in sched[b].seen : sched[b].seenIdle[v] <= vms[v].idle

SeenVmsExist ==
    \A b \in Backends : \A v \in sched[b].seen : vms[v].status # "none"

Inv ==
    /\ TypeOK
    /\ PlansAreSpaced
    /\ PlansAreOwned
    /\ SnapshotInv
    /\ SeenVmsExist
    /\ IdleWithinTotal

\* The part of Inv about the plan table and the replicas alone.
PlanInv == SchedulerTypeOK /\ PlansAreSpaced /\ PlansAreOwned

----------------------------------------------------------------------------
(* The plan table.                                                         *)

(***************************************************************************)
(* isSchedulingRelevant_ accepts exactly the plan with the highest id:     *)
(* because plans are spaced, MAX(updated) picks the last row.              *)
(***************************************************************************)
LEMMA NewestIsRelevant ==
  ASSUME SchedulerTypeOK, PlansAreSpaced, NEW p \in DOMAIN plan
  PROVE  IsSchedulingRelevant(p) <=> p = Len(plan)
<1>1. /\ plan \in Seq(Nat)
      /\ Len(plan) \in Nat
      /\ DOMAIN plan = 1 .. Len(plan)
      /\ \A q \in DOMAIN plan : plan[q] \in Nat
  BY DEF SchedulerTypeOK
<1>2. Interval \in Nat /\ Interval > 0
  BY SchedulerAssumption
<1>3. \A q, r \in DOMAIN plan : q < r => plan[q] < plan[r]
  BY <1>1, <1>2 DEF PlansAreSpaced
<1>4. Len(plan) \in DOMAIN plan
  BY <1>1
<1>5. ASSUME IsSchedulingRelevant(p) PROVE p = Len(plan)
  <2>1. p \in LatestPlans
    BY <1>5 DEF IsSchedulingRelevant
  <2>2. plan[Len(plan)] <= plan[p]
    BY <1>4, <2>1 DEF LatestPlans
  <2> QED BY <1>1, <1>3, <1>4, <2>2
<1>6. ASSUME p = Len(plan) PROVE IsSchedulingRelevant(p)
  <2>1. \A q \in DOMAIN plan : q # p => plan[q] < plan[p]
    BY <1>1, <1>3, <1>6
  <2>2. p \in LatestPlans
    BY <1>1, <2>1 DEF LatestPlans
  <2>3. \A q \in LatestPlans : q = p
    BY <1>1, <2>1 DEF LatestPlans
  <2> QED BY <2>2, <2>3 DEF IsSchedulingRelevant
<1> QED BY <1>5, <1>6

(***************************************************************************)
(* A replica that moves on with the plan it has, or with none, disturbs no *)
(* other replica's claim.                                                  *)
(***************************************************************************)
LEMMA OwnedReplicaStep ==
  ASSUME PlansAreOwned, NEW b \in Backends, UNCHANGED <<clock, plan>>,
         \A c \in Backends : c # b => sched'[c] = sched[c],
         sched'[b].begin <= clock,
         HasPlan(b)' => HasPlan(b) /\ sched'[b].plan = sched[b].plan,
         sched'[b].pc = "committing" => plan[sched'[b].plan] <= sched'[b].begin
  PROVE  PlansAreOwned'
<1>1. \A p \in DOMAIN plan' : plan'[p] <= clock'
  BY DEF PlansAreOwned
<1>2. \A c \in Backends : sched'[c].begin <= clock'
  BY DEF PlansAreOwned
<1>3. \A c \in Backends : c # b => (HasPlan(c)' <=> HasPlan(c))
  BY DEF HasPlan
<1>4. \A c \in Backends : HasPlan(c)' => HasPlan(c) /\ sched'[c].plan = sched[c].plan
  BY <1>3
<1>5. \A c \in Backends : HasPlan(c)' => sched'[c].plan \in DOMAIN plan'
  BY <1>4 DEF PlansAreOwned
<1>6. \A c, d \in Backends : c # d /\ HasPlan(c)' /\ HasPlan(d)'
                                => sched'[c].plan # sched'[d].plan
  BY <1>4 DEF PlansAreOwned
<1>7. \A c \in Backends : sched'[c].pc = "committing"
                             => plan'[sched'[c].plan] <= sched'[c].begin
  BY DEF PlansAreOwned
<1> QED BY <1>1, <1>2, <1>5, <1>6, <1>7 DEF PlansAreOwned, HasPlan

(***************************************************************************)
(* A replica that gives up its plan leaves the plan table in order.        *)
(***************************************************************************)
LEMMA ForgetReplica ==
  ASSUME SchedulerTypeOK, PlansAreSpaced, PlansAreOwned, NEW b \in Backends,
         sched' = [sched EXCEPT ![b] = IdleReplica],
         locks' \in 0 .. MaxLockNumber, UNCHANGED <<clock, plan, lockNumber>>
  PROVE  PlanInv'
<1>1. IdleReplica \in Replica
  BY SchedulerAssumption DEF IdleReplica, Replica, Pcs, NoIdle
<1>2. /\ sched'[b] = IdleReplica
      /\ \A c \in Backends : c # b => sched'[c] = sched[c]
  BY DEF SchedulerTypeOK
<1>3. SchedulerTypeOK'
  BY <1>1 DEF SchedulerTypeOK
<1>4. PlansAreSpaced'
  BY DEF PlansAreSpaced
<1>5. IdleReplica.pc = "idle" /\ IdleReplica.begin = 0 /\ clock \in Nat
  BY DEF IdleReplica, SchedulerTypeOK
<1>6. PlansAreOwned'
  BY <1>2, <1>5 DEF PlansAreOwned, HasPlan
<1> QED BY <1>3, <1>4, <1>6 DEF PlanInv

(***************************************************************************)
(* Steps of a replica other than its commit keep the plan table in order:  *)
(* a plan is appended only after every row is one interval old.            *)
(***************************************************************************)
LEMMA PlanInvLocal ==
  ASSUME PlanInv, StorageTypeOK, SchedulerLocalStep
  PROVE  PlanInv'
<1>0. /\ SchedulerTypeOK /\ PlansAreSpaced /\ PlansAreOwned
      /\ plan \in Seq(Nat)
      /\ Len(plan) \in Nat
      /\ DOMAIN plan = 1 .. Len(plan)
      /\ \A q \in DOMAIN plan : plan[q] \in Nat
      /\ clock \in Nat
      /\ Interval \in Nat
      /\ \A b \in Backends : sched[b] \in Replica
  BY SchedulerAssumption DEF PlanInv, SchedulerTypeOK
<1>1. CASE Tick
  <2>1. SchedulerTypeOK'
    BY <1>0, <1>1 DEF Tick, SchedulerTypeOK
  <2>2. PlansAreSpaced'
    BY <1>0, <1>1 DEF Tick, PlansAreSpaced
  <2>3. \A b \in Backends : sched[b].begin \in Nat
    BY <1>0 DEF Replica
  <2>4. PlansAreOwned'
    BY <1>0, <1>1, <2>3 DEF Tick, PlansAreOwned, HasPlan
  <2> QED BY <2>1, <2>2, <2>4 DEF PlanInv
<1>2. ASSUME NEW b \in Backends, LockAcquired(b) \/ LockLost(b)
      PROVE  PlanInv'
  <2>1. SchedulerTypeOK'
    <3>1. PICK n \in 0 .. MaxLockNumber : lockNumber' = [lockNumber EXCEPT ![b] = n]
      BY <1>2, SchedulerAssumption DEF LockAcquired, LockLost
    <3>2. lockNumber' \in [Backends -> 0 .. MaxLockNumber]
      BY <1>0, <3>1 DEF SchedulerTypeOK
    <3> QED BY <1>0, <1>2, <3>2 DEF LockAcquired, LockLost, SchedulerTypeOK
  <2>2. PlansAreSpaced' /\ PlansAreOwned'
    BY <1>0, <1>2 DEF LockAcquired, LockLost, PlansAreSpaced, PlansAreOwned, HasPlan
  <2> QED BY <2>1, <2>2 DEF PlanInv
<1>3. ASSUME NEW b \in Backends, StartScheduling(b)
      PROVE  PlanInv'
  <2>0. PICK l \in 0 .. MaxLockNumber : locks' = l
    BY <1>0, <1>3 DEF StartScheduling, CheckLeader, SchedulerTypeOK, Replica
  <2>1. CASE PlanWasRecentlyUpdated(sched[b].begin)
    <3>1. /\ sched' = [sched EXCEPT ![b] = IdleReplica]
          /\ UNCHANGED <<clock, plan, lockNumber>>
      BY <1>3, <2>1 DEF StartScheduling
    <3> QED BY <1>0, <2>0, <3>1, ForgetReplica
  <2>2. CASE ~PlanWasRecentlyUpdated(sched[b].begin)
    <3>1. /\ plan' = Append(plan, sched[b].begin)
          /\ sched' = [sched EXCEPT ![b].pc = "readingJobs",
                                    ![b].plan = Len(plan) + 1]
          /\ UNCHANGED <<clock, lockNumber>>
      BY <1>3, <2>2 DEF StartScheduling
    <3>2. sched[b].begin \in Nat /\ sched[b].begin <= clock
      BY <1>0 DEF Replica, PlansAreOwned
    <3>3. /\ plan' \in Seq(Nat)
          /\ Len(plan') = Len(plan) + 1
          /\ DOMAIN plan' = 1 .. Len(plan) + 1
          /\ plan'[Len(plan) + 1] = sched[b].begin
          /\ \A p \in DOMAIN plan : plan'[p] = plan[p]
      BY <1>0, <3>1, <3>2
    <3>4. \A p \in DOMAIN plan : plan[p] + Interval <= sched[b].begin
      BY <1>0, <2>2, <3>2 DEF PlanWasRecentlyUpdated
    <3>5. /\ sched'[b] \in Replica
          /\ sched'[b].pc = "readingJobs"
          /\ sched'[b].plan = Len(plan) + 1
          /\ sched'[b].begin = sched[b].begin
          /\ \A c \in Backends : c # b => sched'[c] = sched[c]
      <4> DEFINE n == Len(plan) + 1
      <4>1. n \in Nat
        BY <1>0
      <4>2. sched' = [sched EXCEPT ![b].pc = "readingJobs", ![b].plan = n]
        BY <3>1
      <4> HIDE DEF n
      <4>3. /\ sched'[b] \in Replica
            /\ sched'[b].pc = "readingJobs"
            /\ sched'[b].plan = n
            /\ sched'[b].begin = sched[b].begin
            /\ \A c \in Backends : c # b => sched'[c] = sched[c]
        <5>1. sched \in [Backends -> Replica] /\ sched[b] \in Replica
          BY <1>0 DEF SchedulerTypeOK
        <5> QED BY <5>1, <4>1, <4>2 DEF Replica, Pcs
      <4> QED BY <4>3 DEF n
    <3>6. SchedulerTypeOK'
      BY <1>0, <2>0, <3>1, <3>3, <3>5 DEF SchedulerTypeOK
    <3>7. PlansAreSpaced'
      <4> SUFFICES ASSUME NEW p \in DOMAIN plan', NEW q \in DOMAIN plan', p < q
                   PROVE  plan'[p] + Interval <= plan'[q]
        BY DEF PlansAreSpaced
      <4>1. p \in DOMAIN plan
        BY <1>0, <3>3
      <4>2. CASE q \in DOMAIN plan
        BY <1>0, <3>3, <4>1, <4>2 DEF PlansAreSpaced
      <4>3. CASE q = Len(plan) + 1
        BY <3>3, <3>4, <4>1, <4>3
      <4> QED BY <1>0, <3>3, <4>2, <4>3
    <3>8. PlansAreOwned'
      <4>1. \A p \in DOMAIN plan' : plan'[p] <= clock'
        <5> SUFFICES ASSUME NEW p \in DOMAIN plan' PROVE plan'[p] <= clock
          BY <3>1
        <5>1. p \in DOMAIN plan \/ p = Len(plan) + 1
          BY <1>0, <3>3
        <5> QED BY <1>0, <3>2, <3>3, <5>1 DEF PlansAreOwned
      <4>2. \A c \in Backends : sched'[c].begin <= clock'
        BY <1>0, <3>1, <3>2, <3>5 DEF PlansAreOwned
      <4>3. \A c \in Backends : c # b => (HasPlan(c)' <=> HasPlan(c))
        BY <3>5 DEF HasPlan
      <4>4. \A c \in Backends : c # b /\ HasPlan(c)'
                                   => /\ sched'[c].plan = sched[c].plan
                                      /\ sched[c].plan \in 1 .. Len(plan)
        BY <1>0, <3>5, <4>3 DEF PlansAreOwned
      <4>5. \A c \in Backends : HasPlan(c)' => sched'[c].plan \in DOMAIN plan'
        BY <1>0, <3>3, <3>5, <4>4
      <4>6. \A c, d \in Backends : c # d /\ HasPlan(c)' /\ HasPlan(d)'
                                      => sched'[c].plan # sched'[d].plan
        BY <1>0, <3>5, <4>3, <4>4 DEF PlansAreOwned
      <4>7. ASSUME NEW c \in Backends, sched'[c].pc = "committing"
            PROVE  plan'[sched'[c].plan] <= sched'[c].begin
        <5>1. c # b /\ HasPlan(c)'
          BY <3>5, <4>7 DEF HasPlan
        <5> QED BY <1>0, <3>3, <3>5, <4>4, <4>7, <5>1 DEF PlansAreOwned
      <4> QED BY <4>1, <4>2, <4>5, <4>6, <4>7 DEF PlansAreOwned, HasPlan
    <3> QED BY <3>6, <3>7, <3>8 DEF PlanInv
  <2> QED BY <2>1, <2>2
<1>4. ASSUME NEW b \in Backends, BeginStart(b)
      PROVE  PlanInv'
  <2>1. /\ sched'[b] \in Replica
        /\ sched'[b].pc = "starting"
        /\ sched'[b].begin = clock
        /\ \A c \in Backends : c # b => sched'[c] = sched[c]
    BY <1>0, <1>4 DEF BeginStart, SchedulerTypeOK, Replica, Pcs
  <2>2. SchedulerTypeOK'
    BY <1>0, <1>4, <2>1 DEF BeginStart, SchedulerTypeOK
  <2>3. PlansAreSpaced' /\ PlansAreOwned'
    <3>1. UNCHANGED <<clock, plan>>
      BY <1>4 DEF BeginStart
    <3>2. ~HasPlan(b)' /\ sched'[b].pc # "committing"
      BY <2>1 DEF HasPlan
    <3>3. clock <= clock
      BY <1>0
    <3>4. PlansAreOwned'
      BY <1>0, <2>1, <3>1, <3>2, <3>3, OwnedReplicaStep
    <3> QED BY <1>0, <3>1, <3>4 DEF PlansAreSpaced
  <2> QED BY <2>2, <2>3 DEF PlanInv
<1>5. ASSUME NEW b \in Backends, GetQueuedJobs(b) \/ GetActiveVms(b)
      PROVE  PlanInv'
  <2>1. /\ sched'[b] \in Replica
        /\ sched'[b].pc \in {"readingVms", "assigned"}
        /\ sched'[b].plan = sched[b].plan
        /\ sched'[b].begin = sched[b].begin
        /\ \A c \in Backends : c # b => sched'[c] = sched[c]
    <3>1. CASE GetQueuedJobs(b)
      BY <1>0, <3>1 DEF GetQueuedJobs, SchedulerTypeOK, Replica, Pcs
    <3>2. CASE GetActiveVms(b)
      <4>1. [v \in Vms |-> IF v \in ActiveVms THEN vms[v].idle ELSE 0]
               \in [Vms -> Nat]
        BY DEF StorageTypeOK, VmRow
      <4>2. ActiveVms \in SUBSET Vms
        BY DEF ActiveVms
      <4> QED BY <1>0, <3>2, <4>1, <4>2
              DEF GetActiveVms, SchedulerTypeOK, Replica, Pcs
    <3> QED BY <1>5, <3>1, <3>2
  <2>2. HasPlan(b) /\ UNCHANGED <<clock, plan, locks, lockNumber>>
    BY <1>5 DEF GetQueuedJobs, GetActiveVms, HasPlan
  <2>3. SchedulerTypeOK'
    BY <1>0, <1>5, <2>1, <2>2 DEF GetQueuedJobs, GetActiveVms, SchedulerTypeOK
  <2>4. PlansAreSpaced' /\ PlansAreOwned'
    <3>1. sched'[b].begin <= clock /\ sched'[b].pc # "committing"
      BY <1>0, <2>1 DEF PlansAreOwned
    <3>2. PlansAreOwned'
      BY <1>0, <2>1, <2>2, <3>1, OwnedReplicaStep
    <3> QED BY <1>0, <2>2, <3>2 DEF PlansAreSpaced
  <2> QED BY <2>3, <2>4 DEF PlanInv
<1>6. ASSUME NEW b \in Backends, BeginCommit(b)
      PROVE  PlanInv'
  <2>1. /\ sched'[b] \in Replica
        /\ sched'[b].pc = "committing"
        /\ sched'[b].plan = sched[b].plan
        /\ sched'[b].begin = clock
        /\ \A c \in Backends : c # b => sched'[c] = sched[c]
    BY <1>0, <1>6 DEF BeginCommit, SchedulerTypeOK, Replica, Pcs
  <2>2. HasPlan(b) /\ UNCHANGED <<clock, plan, locks, lockNumber>>
    BY <1>6 DEF BeginCommit, HasPlan
  <2>3. SchedulerTypeOK'
    BY <1>0, <1>6, <2>1, <2>2 DEF BeginCommit, SchedulerTypeOK
  <2>4. PlansAreSpaced' /\ PlansAreOwned'
    <3>1. sched'[b].begin <= clock
      BY <1>0, <2>1
    <3>2. plan[sched'[b].plan] <= sched'[b].begin
      BY <1>0, <2>1, <2>2 DEF PlansAreOwned
    <3>3. PlansAreOwned'
      BY <1>0, <2>1, <2>2, <3>1, <3>2, OwnedReplicaStep
    <3> QED BY <1>0, <2>2, <3>3 DEF PlansAreSpaced
  <2> QED BY <2>3, <2>4 DEF PlanInv
<1>7. ASSUME NEW b \in Backends, SchedulingFailed(b)
      PROVE  PlanInv'
  BY <1>0, <1>7, ForgetReplica DEF SchedulingFailed, SchedulerTypeOK
<1> QED BY <1>1, <1>2, <1>3, <1>4, <1>5, <1>6, <1>7 DEF SchedulerLocalStep

----------------------------------------------------------------------------
(* Snapshots.                                                              *)

(***************************************************************************)
(* A quiet step invalidates no snapshot: it schedules no job and takes no  *)
(* idle capacity.                                                          *)
(***************************************************************************)
LEMMA SnapshotQuiet ==
  ASSUME TypeOK, SnapshotInv, SeenVmsExist, IdleWithinTotal,
         QuietVms, QuietJobs, UNCHANGED schedulerVars
  PROVE  SnapshotInv' /\ SeenVmsExist' /\ IdleWithinTotal'
<1>1. /\ \A b \in Backends : sched[b] \in Replica
      /\ \A v \in Vms : vms[v] \in VmRow /\ vms'[v] \in VmRow
      /\ sched' = sched /\ plan' = plan
  BY DEF TypeOK, SchedulerTypeOK, StorageTypeOK, QuietVms, schedulerVars
<1>2. \A b \in Backends : /\ sched[b].queued \subseteq Jobs
                          /\ sched[b].seen \subseteq Vms
                          /\ sched[b].seenIdle \in [Vms -> Nat]
  BY <1>1 DEF Replica
<1>3. \A v \in Vms : vms[v].idle \in Nat /\ vms'[v].idle \in Nat
  BY <1>1 DEF VmRow
<1>4. \A v \in Vms : /\ vms[v].idle <= vms'[v].idle
                     /\ vms'[v].idle <= vms'[v].total
                     /\ vms[v].status # "none" => vms'[v].status # "none"
  BY DEF QuietVms, IdleWithinTotal
<1>5. \A j \in Jobs : jobs[j].status # "Scheduled" => jobs'[j].status # "Scheduled"
  BY DEF QuietJobs
<1>6. SnapshotInv'
  <2> SUFFICES ASSUME NEW b \in Backends, sched[b].plan = Len(plan)
               PROVE  /\ sched[b].pc \in {"readingVms", "assigned", "committing"} =>
                            \A j \in sched[b].queued : jobs'[j].status # "Scheduled"
                      /\ sched[b].pc \in {"assigned", "committing"} =>
                            \A v \in sched[b].seen :
                               sched[b].seenIdle[v] <= vms'[v].idle
    BY <1>1 DEF SnapshotInv
  <2>1. ASSUME sched[b].pc \in {"readingVms", "assigned", "committing"},
               NEW j \in sched[b].queued
        PROVE  jobs'[j].status # "Scheduled"
    BY <1>2, <1>5, <2>1 DEF SnapshotInv
  <2>2. ASSUME sched[b].pc \in {"assigned", "committing"}, NEW v \in sched[b].seen
        PROVE  sched[b].seenIdle[v] <= vms'[v].idle
    <3>1. sched[b].seenIdle[v] <= vms[v].idle
      BY <2>2 DEF SnapshotInv
    <3>2. v \in Vms /\ sched[b].seenIdle[v] \in Nat
      BY <1>2, <2>2
    <3> QED BY <1>3, <1>4, <3>1, <3>2
  <2> QED BY <2>1, <2>2
<1>7. SeenVmsExist'
  BY <1>1, <1>2, <1>4 DEF SeenVmsExist
<1>8. IdleWithinTotal'
  BY <1>4 DEF IdleWithinTotal
<1> QED BY <1>6, <1>7, <1>8

(***************************************************************************)
(* Steps of a replica other than its commit keep every snapshot sound:     *)
(* a new plan makes all others obsolete, and a replica reads the tables as *)
(* they are.                                                               *)
(***************************************************************************)
LEMMA SnapshotLocal ==
  ASSUME Inv, SchedulerLocalStep, UNCHANGED storageVars
  PROVE  SnapshotInv' /\ SeenVmsExist'
<1>0. /\ SnapshotInv /\ SeenVmsExist /\ PlansAreOwned
      /\ sched \in [Backends -> Replica]
      /\ \A b \in Backends : sched[b] \in Replica
      /\ plan \in Seq(Nat)
      /\ Len(plan) \in Nat
      /\ DOMAIN plan = 1 .. Len(plan)
      /\ \A v \in Vms : vms[v] \in VmRow
      /\ jobs' = jobs /\ vms' = vms
  BY DEF Inv, TypeOK, SchedulerTypeOK, StorageTypeOK, storageVars
<1>1. CASE \/ Tick
           \/ \E b \in Backends : LockAcquired(b) \/ LockLost(b)
  <2>1. sched' = sched /\ plan' = plan
    BY <1>1 DEF Tick, LockAcquired, LockLost
  <2> QED BY <1>0, <2>1 DEF SnapshotInv, SeenVmsExist
<1>2. ASSUME NEW b \in Backends, plan' = plan,
             \A c \in Backends : c # b => sched'[c] = sched[c],
             sched'[b].plan = sched[b].plan
                \/ sched'[b].pc \notin {"readingVms", "assigned", "committing"},
             sched'[b].pc \in {"readingVms", "assigned", "committing"} =>
                \A j \in sched'[b].queued :
                   \/ jobs[j].status # "Scheduled"
                   \/ /\ sched[b].pc \in {"readingVms", "assigned", "committing"}
                      /\ j \in sched[b].queued,
             sched'[b].pc \in {"assigned", "committing"} =>
                \A v \in sched'[b].seen :
                   \/ sched'[b].seenIdle[v] <= vms[v].idle
                   \/ /\ sched[b].pc \in {"assigned", "committing"}
                      /\ v \in sched[b].seen
                      /\ sched'[b].seenIdle[v] = sched[b].seenIdle[v],
             \A v \in sched'[b].seen :
                v \in sched[b].seen \/ vms[v].status # "none"
      PROVE  SnapshotInv' /\ SeenVmsExist'
  <2>1. SnapshotInv'
    <3> SUFFICES ASSUME NEW c \in Backends, sched'[c].plan = Len(plan)
                 PROVE  /\ sched'[c].pc \in {"readingVms", "assigned", "committing"} =>
                              \A j \in sched'[c].queued : jobs[j].status # "Scheduled"
                        /\ sched'[c].pc \in {"assigned", "committing"} =>
                              \A v \in sched'[c].seen :
                                 sched'[c].seenIdle[v] <= vms[v].idle
      BY <1>0, <1>2 DEF SnapshotInv
    <3>1. CASE c # b
      BY <1>0, <1>2, <3>1 DEF SnapshotInv
    <3>2. CASE c = b
      BY <1>0, <1>2, <3>2 DEF SnapshotInv
    <3> QED BY <3>1, <3>2
  <2>2. SeenVmsExist'
    BY <1>0, <1>2 DEF SeenVmsExist
  <2> QED BY <2>1, <2>2
<1>3. ASSUME NEW b \in Backends, StartScheduling(b)
      PROVE  SnapshotInv' /\ SeenVmsExist'
  <2>1. CASE plan' = plan /\ sched' = [sched EXCEPT ![b] = IdleReplica]
    BY <1>0, <1>2, <2>1 DEF IdleReplica
  <2>2. CASE /\ plan' = Append(plan, sched[b].begin)
             /\ sched' = [sched EXCEPT ![b].pc = "readingJobs",
                                       ![b].plan = Len(plan) + 1]
    <3>1. Len(plan') = Len(plan) + 1
      BY <1>0, <2>2
    <3>2. /\ sched'[b].pc = "readingJobs"
          /\ sched'[b].seen = sched[b].seen
          /\ \A c \in Backends : c # b => sched'[c] = sched[c]
      BY <1>0, <2>2 DEF Replica
    <3>3. \A c \in Backends :
             sched'[c].pc \in {"readingVms", "assigned", "committing"} =>
                sched'[c].plan # Len(plan')
      BY <1>0, <3>1, <3>2 DEF PlansAreOwned, HasPlan
    <3>4. SnapshotInv'
      BY <3>3 DEF SnapshotInv
    <3>5. SeenVmsExist'
      BY <1>0, <3>2 DEF SeenVmsExist
    <3> QED BY <3>4, <3>5
  <2> QED BY <1>3, <2>1, <2>2 DEF StartScheduling
<1>4. ASSUME NEW b \in Backends, BeginStart(b)
      PROVE  SnapshotInv' /\ SeenVmsExist'
  <2>1. /\ plan' = plan
        /\ sched'[b].pc = "starting"
        /\ sched'[b].seen = sched[b].seen
        /\ \A c \in Backends : c # b => sched'[c] = sched[c]
    BY <1>0, <1>4 DEF BeginStart, Replica
  <2> QED BY <1>2, <2>1
<1>5. ASSUME NEW b \in Backends, GetQueuedJobs(b)
      PROVE  SnapshotInv' /\ SeenVmsExist'
  <2>1. /\ plan' = plan
        /\ sched'[b].pc = "readingVms"
        /\ sched'[b].plan = sched[b].plan
        /\ sched'[b].queued = {j \in Jobs : jobs[j].status = "Queued"}
        /\ sched'[b].seen = sched[b].seen
        /\ \A c \in Backends : c # b => sched'[c] = sched[c]
    BY <1>0, <1>5 DEF GetQueuedJobs, Replica
  <2> QED BY <1>2, <2>1
<1>6. ASSUME NEW b \in Backends, GetActiveVms(b)
      PROVE  SnapshotInv' /\ SeenVmsExist'
  <2>1. /\ plan' = plan
        /\ sched[b].pc = "readingVms"
        /\ sched'[b].pc = "assigned"
        /\ sched'[b].plan = sched[b].plan
        /\ sched'[b].queued = sched[b].queued
        /\ sched'[b].seen = ActiveVms
        /\ sched'[b].seenIdle =
              [v \in Vms |-> IF v \in ActiveVms THEN vms[v].idle ELSE 0]
        /\ \A c \in Backends : c # b => sched'[c] = sched[c]
    BY <1>0, <1>6 DEF GetActiveVms, Replica
  <2>2. \A v \in ActiveVms : v \in Vms /\ vms[v].status # "none"
    BY DEF ActiveVms, ActiveVmStatuses
  <2>3. \A v \in ActiveVms : sched'[b].seenIdle[v] <= vms[v].idle
    BY <1>0, <2>1, <2>2 DEF VmRow
  <2> QED BY <1>2, <2>1, <2>2, <2>3
<1>7. ASSUME NEW b \in Backends, BeginCommit(b)
      PROVE  SnapshotInv' /\ SeenVmsExist'
  <2>1. /\ plan' = plan
        /\ sched[b].pc = "assigned"
        /\ sched'[b].plan = sched[b].plan
        /\ sched'[b].queued = sched[b].queued
        /\ sched'[b].seen = sched[b].seen
        /\ sched'[b].seenIdle = sched[b].seenIdle
        /\ \A c \in Backends : c # b => sched'[c] = sched[c]
    BY <1>0, <1>7 DEF BeginCommit, Replica
  <2> QED BY <1>2, <2>1
<1>8. ASSUME NEW b \in Backends, SchedulingFailed(b)
      PROVE  SnapshotInv' /\ SeenVmsExist'
  BY <1>0, <1>2, <1>8 DEF SchedulingFailed, IdleReplica
<1> QED
  BY <1>1, <1>3, <1>4, <1>5, <1>6, <1>7, <1>8 DEF SchedulerLocalStep

----------------------------------------------------------------------------
(* commitPlanChange.                                                       *)

(***************************************************************************)
(* Either assigner places every queued job on some VM, and gives new VMs a *)
(* size.                                                                   *)
(***************************************************************************)
LEMMA AssignType ==
  ASSUME TypeOK, NEW b \in Backends, NEW c \in Assign(b)
  PROVE  /\ c.jobToVm \in [sched[b].queued -> Vms]
         /\ c.total \in [Vms -> Nat]
<1>1. /\ sched[b].queued \subseteq Jobs
      /\ sched[b].seen \subseteq Vms
  BY DEF TypeOK, SchedulerTypeOK, Replica
<1>2. FreshVms \subseteq Vms
  BY DEF FreshVms, VmsIn
<1>3. CASE c \in SimpleAssign(b)
  <2>1. PICK f \in [sched[b].queued -> FreshVms] :
           c = [jobToVm |-> f,
                total |-> [v \in Vms |-> Demand({j \in sched[b].queued : f[j] = v})]]
    BY <1>3 DEF SimpleAssign
  <2>2. \A v \in Vms : Demand({j \in sched[b].queued : f[j] = v}) \in Nat
    BY <1>1, DemandType
  <2> QED BY <1>2, <2>1, <2>2
<1>4. CASE c \in ComplexAssign(b)
  <2>1. c \in [jobToVm : [sched[b].queued -> sched[b].seen \cup FreshVms],
               total : [Vms -> Slots \cup {0}]]
    BY <1>4 DEF ComplexAssign
  <2>2. /\ c.jobToVm \in [sched[b].queued -> sched[b].seen \cup FreshVms]
        /\ c.total \in [Vms -> Slots \cup {0}]
    BY <2>1
  <2>3. Slots \cup {0} \subseteq Nat
    BY SchedulerAssumption
  <2>4. sched[b].seen \cup FreshVms \subseteq Vms
    BY <1>1, <1>2
  <2> QED BY <2>2, <2>3, <2>4
<1> QED BY <1>3, <1>4 DEF Assign

(***************************************************************************)
(* The idle capacity that a plan writes is a natural number within what    *)
(* the VM had: slot subtraction saturates and never goes below zero.       *)
(***************************************************************************)
LEMMA IdleAfterType ==
  ASSUME TypeOK, NEW b \in Backends, NEW c \in Assign(b), NEW v \in Vms
  PROVE  /\ IdleAfter(b, c, v) \in Nat
         /\ v \in sched[b].seen => IdleAfter(b, c, v) <= sched[b].seenIdle[v]
         /\ v \notin sched[b].seen => IdleAfter(b, c, v) <= c.total[v]
<1>1. /\ sched[b].queued \subseteq Jobs
      /\ sched[b].seenIdle \in [Vms -> Nat]
  BY DEF TypeOK, SchedulerTypeOK, Replica
<1>2. c.jobToVm \in [sched[b].queued -> Vms] /\ c.total \in [Vms -> Nat]
  BY AssignType
<1>3. Demand(PlacedOn(c, v)) \in Nat
  BY <1>1, <1>2, DemandType DEF PlacedOn
<1>4. sched[b].seenIdle[v] \in Nat /\ c.total[v] \in Nat
  BY <1>1, <1>2
<1> QED BY <1>3, <1>4 DEF IdleAfter

(***************************************************************************)
(* A commit that is carried out keeps the tables well formed and idle      *)
(* within total: the plan is the newest, so the snapshot it overwrites the *)
(* idle columns from is sound.                                             *)
(***************************************************************************)
LEMMA CommitVms ==
  ASSUME Inv, NEW b \in Backends, NEW c \in Assign(b),
         sched[b].pc = "committing", sched[b].plan = Len(plan),
         ApplyVmChanges(b, c)
  PROVE  /\ vms' \in [Vms -> VmRow]
         /\ \A v \in Vms : /\ vms'[v].idle <= vms'[v].total
                           /\ vms[v].status # "none" => vms'[v].status # "none"
<1> SUFFICES ASSUME NEW v \in Vms
             PROVE  /\ vms'[v] \in VmRow
                    /\ vms'[v].idle <= vms'[v].total
                    /\ vms[v].status # "none" => vms'[v].status # "none"
  BY DEF ApplyVmChanges
<1> DEFINE i == IdleAfter(b, c, v)
<1>1. /\ vms[v] \in VmRow
      /\ vms[v].idle <= vms[v].total
  BY DEF Inv, TypeOK, StorageTypeOK, IdleWithinTotal
<1>2. /\ i \in Nat
      /\ v \in sched[b].seen => i <= sched[b].seenIdle[v]
      /\ v \notin sched[b].seen => i <= c.total[v]
  BY IdleAfterType DEF Inv
<1>3. c.total[v] \in Nat
  BY AssignType DEF Inv
<1>4. v \in sched[b].seen =>
         /\ vms[v].status # "none"
         /\ sched[b].seenIdle[v] \in Nat
         /\ sched[b].seenIdle[v] <= vms[v].idle
  BY DEF Inv, SeenVmsExist, SnapshotInv, TypeOK, SchedulerTypeOK, Replica
<1>5. CASE v \in NewVms(c)
  <2>1. v \notin sched[b].seen
    BY <1>4, <1>5 DEF NewVms, FreshVms, VmsIn
  <2>2. vms'[v] = [NoVmRow EXCEPT !.status = "PendingAllocation",
                                  !.total = c.total[v], !.idle = i]
    BY <1>5 DEF ApplyVmChanges
  <2> HIDE DEF i
  <2>3. vms'[v] = [status |-> "PendingAllocation", total |-> c.total[v],
                   idle |-> i, restarts |-> 0, hasCloudId |-> FALSE]
    BY <2>2 DEF NoVmRow
  <2>4. 0 \in 0 .. VmRestartAttempts
    BY StorageAssumption
  <2>5. /\ vms'[v] \in VmRow
        /\ vms'[v].idle = i /\ vms'[v].total = c.total[v]
        /\ vms'[v].status = "PendingAllocation"
    BY <1>2, <1>3, <2>3, <2>4 DEF VmRow, VmStatuses
  <2> QED BY <1>2, <2>1, <2>5
<1>6. CASE v \notin NewVms(c)
  <2>1. PICK st \in {vms[v].status, "PendingTermination"}, n \in {vms[v].idle, i} :
           /\ vms'[v] = [vms[v] EXCEPT !.status = st, !.idle = n]
           /\ n = vms[v].idle \/ v \in sched[b].seen
    <3>1. vms'[v] = [vms[v] EXCEPT
                        !.status = IF v \in VmsToTerminate(b, c)
                                   THEN "PendingTermination" ELSE vms[v].status,
                        !.idle = IF v \in UpdatedVms(b, c) THEN i ELSE vms[v].idle]
      BY <1>6 DEF ApplyVmChanges
    <3> QED BY <3>1 DEF UpdatedVms
  <2> HIDE DEF i
  <2>2. /\ vms'[v] \in VmRow
        /\ vms'[v].idle = n /\ vms'[v].total = vms[v].total
        /\ vms'[v].status = st
    BY <1>1, <1>2, <2>1 DEF VmRow, VmStatuses
  <2>3. n <= vms[v].total
    BY <1>1, <1>2, <1>4, <2>1 DEF VmRow
  <2> QED BY <2>1, <2>2, <2>3
<1> QED BY <1>5, <1>6

(***************************************************************************)
(* commitPlanChange preserves Inv, whether it is carried out or cancelled. *)
(***************************************************************************)
LEMMA CommitInv ==
  ASSUME Inv, NEW b \in Backends, CommitPlanChange(b),
         UNCHANGED <<allocatorVars, agent>>
  PROVE  Inv'
<1>0. /\ TypeOK /\ SchedulerTypeOK /\ StorageTypeOK
      /\ PlansAreSpaced /\ PlansAreOwned /\ SnapshotInv /\ SeenVmsExist
      /\ IdleWithinTotal
      /\ sched \in [Backends -> Replica]
      /\ plan \in Seq(Nat)
      /\ DOMAIN plan = 1 .. Len(plan)
      /\ sched[b].pc = "committing"
      /\ sched' = [sched EXCEPT ![b] = IdleReplica]
      /\ UNCHANGED <<clock, locks, lockNumber>>
      /\ locks \in 0 .. MaxLockNumber
  BY DEF Inv, TypeOK, SchedulerTypeOK, CommitPlanChange
<1>1. /\ sched'[b] = IdleReplica
      /\ \A x \in Backends : x # b => sched'[x] = sched[x]
      /\ IdleReplica.pc = "idle" /\ IdleReplica.seen = {}
  BY <1>0 DEF IdleReplica
<1>2. HasPlan(b) /\ sched[b].plan \in DOMAIN plan
  BY <1>0 DEF HasPlan, PlansAreOwned
<1>3. AllocatorTypeOK' /\ agent' \in [Vms -> [Jobs -> {"unknown", "held", "done"}]]
  BY DEF Inv, TypeOK, AllocatorTypeOK, allocatorVars
<1>4. CASE UNCHANGED <<jobs, vms, plan>>
  <2>1. PlanInv'
    BY <1>0, <1>4, ForgetReplica
  <2>2. StorageTypeOK' /\ IdleWithinTotal'
    BY <1>0, <1>4 DEF StorageTypeOK, IdleWithinTotal
  <2>3. SnapshotInv' /\ SeenVmsExist'
    BY <1>0, <1>1, <1>4 DEF SnapshotInv, SeenVmsExist
  <2> QED BY <1>3, <2>1, <2>2, <2>3 DEF Inv, TypeOK, PlanInv
<1>5. ASSUME NEW c \in Assign(b), IsSchedulingRelevant(sched[b].plan),
             ApplyVmChanges(b, c), ApplyJobVmAssignments(b, c),
             RefreshPlanActivityTs(b)
      PROVE  Inv'
  <2>1. sched[b].plan = Len(plan)
    BY <1>0, <1>2, <1>5, NewestIsRelevant
  <2>2. /\ vms' \in [Vms -> VmRow]
        /\ \A v \in Vms : /\ vms'[v].idle <= vms'[v].total
                          /\ vms[v].status # "none" => vms'[v].status # "none"
    BY <1>0, <1>5, <2>1, CommitVms
  <2>3. jobs' \in [Jobs -> JobRow]
    <3>1. c.jobToVm \in [sched[b].queued -> Vms]
      BY <1>0, AssignType
    <3> SUFFICES ASSUME NEW j \in Jobs PROVE jobs'[j] \in JobRow
      BY <1>5 DEF ApplyJobVmAssignments
    <3>2. jobs[j] \in JobRow
      BY <1>0 DEF StorageTypeOK
    <3>3. CASE j \in sched[b].queued
      <4>1. jobs'[j] = [jobs[j] EXCEPT !.status = "Scheduled", !.vm = c.jobToVm[j]]
        BY <1>5, <3>3 DEF ApplyJobVmAssignments
      <4>2. c.jobToVm[j] \in Vms
        BY <3>1, <3>3
      <4> QED BY <3>2, <4>1, <4>2 DEF JobRow, JobStatuses
    <3>4. CASE j \notin sched[b].queued
      BY <1>5, <3>2, <3>4 DEF ApplyJobVmAssignments
    <3> QED BY <3>3, <3>4
  <2>4. /\ Len(plan) \in Nat
        /\ \A p \in DOMAIN plan : plan[p] \in Nat
        /\ clock \in Nat /\ Interval \in Nat
        /\ sched[b].begin \in Nat
        /\ sched[b].begin <= clock
        /\ plan[Len(plan)] <= sched[b].begin
    BY <1>0, <2>1, SchedulerAssumption DEF SchedulerTypeOK, Replica, PlansAreOwned
  <2>5. /\ plan' \in Seq(Nat)
        /\ Len(plan') = Len(plan)
        /\ DOMAIN plan' = DOMAIN plan
        /\ plan'[Len(plan)] = sched[b].begin
        /\ \A p \in DOMAIN plan : p # Len(plan) => plan'[p] = plan[p]
    BY <1>0, <1>2, <1>5, <2>1, <2>4 DEF RefreshPlanActivityTs
  <2>6. PlansAreSpaced'
    <3> SUFFICES ASSUME NEW p \in DOMAIN plan, NEW q \in DOMAIN plan, p < q
                 PROVE  plan'[p] + Interval <= plan'[q]
      BY <2>5 DEF PlansAreSpaced
    <3>1. p # Len(plan) /\ plan[p] + Interval <= plan[q]
      BY <1>0, <2>4 DEF PlansAreSpaced
    <3>2. CASE q = Len(plan)
      BY <2>4, <2>5, <3>1, <3>2
    <3>3. CASE q # Len(plan)
      BY <2>5, <3>1, <3>3
    <3> QED BY <3>2, <3>3
  <2>7. SchedulerTypeOK'
    <3>1. IdleReplica \in Replica
      BY SchedulerAssumption DEF IdleReplica, Replica, Pcs, NoIdle
    <3> QED BY <1>0, <2>5, <3>1 DEF SchedulerTypeOK
  <2>8. \A x \in Backends : HasPlan(x)' =>
           /\ x # b /\ HasPlan(x)
           /\ sched'[x] = sched[x]
           /\ sched[x].plan \in DOMAIN plan
           /\ sched[x].plan # Len(plan)
    BY <1>0, <1>1, <1>2, <2>1 DEF HasPlan, PlansAreOwned
  <2>9. PlansAreOwned'
    <3>1. \A p \in DOMAIN plan' : plan'[p] <= clock'
      BY <1>0, <2>4, <2>5 DEF PlansAreOwned
    <3>2. \A x \in Backends : sched'[x].begin <= clock'
      BY <1>0, <1>1, <2>4 DEF PlansAreOwned, IdleReplica
    <3>3. \A x \in Backends : HasPlan(x)' => sched'[x].plan \in DOMAIN plan'
      BY <2>5, <2>8
    <3>4. \A x, y \in Backends : x # y /\ HasPlan(x)' /\ HasPlan(y)'
                                    => sched'[x].plan # sched'[y].plan
      BY <1>0, <2>8 DEF PlansAreOwned
    <3>5. ASSUME NEW x \in Backends, sched'[x].pc = "committing"
          PROVE  plan'[sched'[x].plan] <= sched'[x].begin
      <4>1. HasPlan(x)'
        BY <3>5 DEF HasPlan
      <4>2. sched[x].pc = "committing"
        BY <2>8, <3>5, <4>1
      <4> QED BY <1>0, <2>5, <2>8, <4>1, <4>2 DEF PlansAreOwned
    <3> QED BY <3>1, <3>2, <3>3, <3>4, <3>5 DEF PlansAreOwned, HasPlan
  <2>10. SnapshotInv'
    <3>1. \A x \in Backends :
             sched'[x].pc \in {"readingVms", "assigned", "committing"} =>
                sched'[x].plan # Len(plan')
      BY <2>5, <2>8 DEF HasPlan
    <3> QED BY <3>1 DEF SnapshotInv
  <2>11. SeenVmsExist'
    <3>1. \A x \in Backends : sched[x].seen \subseteq Vms
      BY <1>0 DEF Replica
    <3> QED BY <1>0, <1>1, <2>2, <3>1 DEF SeenVmsExist
  <2>12. IdleWithinTotal'
    BY <2>2 DEF IdleWithinTotal
  <2> QED
    BY <1>3, <2>2, <2>3, <2>6, <2>7, <2>9, <2>10, <2>11, <2>12
       DEF Inv, TypeOK, StorageTypeOK
<1> QED BY <1>4, <1>5 DEF CommitPlanChange

----------------------------------------------------------------------------
(* The theorems.                                                           *)

(***************************************************************************)
(* A service with empty tables and idle threads satisfies Inv.             *)
(***************************************************************************)
LEMMA InitInv == Init => Inv
<1> SUFFICES ASSUME Init PROVE Inv
  OBVIOUS
<1>1. StorageTypeOK
  <2>1. NoJobRow \in JobRow
    BY StorageAssumption DEF NoJobRow, JobRow
  <2>2. NoVmRow \in VmRow
    BY StorageAssumption DEF NoVmRow, VmRow
  <2> QED BY <2>1, <2>2 DEF Init, StorageInit, StorageTypeOK
<1>2. SchedulerTypeOK
  <2>1. IdleReplica \in Replica
    BY SchedulerAssumption DEF IdleReplica, Replica, Pcs, NoIdle
  <2> QED BY <2>1, SchedulerAssumption DEF Init, SchedulerInit, SchedulerTypeOK
<1>3. AllocatorTypeOK
  BY DEF Init, AllocatorInit, AllocatorTypeOK, IdleWorker, Worker, AllocatePcs,
         TerminatePcs, Untracking
<1>4. TypeOK
  BY <1>1, <1>2, <1>3 DEF Init, TypeOK
<1>5. /\ plan = << >> /\ DOMAIN plan = {} /\ clock \in Nat
      /\ \A b \in Backends : /\ sched[b].pc = "idle"
                             /\ sched[b].begin = 0
                             /\ sched[b].seen = {}
  BY SchedulerAssumption DEF Init, SchedulerInit, IdleReplica
<1>6. PlansAreSpaced /\ PlansAreOwned
  BY <1>5 DEF PlansAreSpaced, PlansAreOwned, HasPlan
<1>7. SnapshotInv /\ SeenVmsExist
  BY <1>5 DEF SnapshotInv, SeenVmsExist
<1>8. IdleWithinTotal
  BY DEF Init, StorageInit, NoVmRow, IdleWithinTotal
<1> QED BY <1>4, <1>6, <1>7, <1>8 DEF Inv

(***************************************************************************)
(* Steps that leave the schedulers alone and are quiet preserve Inv.       *)
(***************************************************************************)
LEMMA QuietInv ==
  ASSUME Inv, QuietVms, QuietJobs, UNCHANGED schedulerVars, AllocatorTypeOK',
         agent' \in [Vms -> [Jobs -> {"unknown", "held", "done"}]]
  PROVE  Inv'
<1>1. StorageTypeOK'
  BY DEF QuietVms, QuietJobs, StorageTypeOK
<1>2. SchedulerTypeOK' /\ PlansAreSpaced' /\ PlansAreOwned'
  BY DEF Inv, TypeOK, SchedulerTypeOK, PlansAreSpaced, PlansAreOwned, HasPlan,
         schedulerVars
<1>3. SnapshotInv' /\ SeenVmsExist' /\ IdleWithinTotal'
  BY SnapshotQuiet DEF Inv
<1> QED BY <1>1, <1>2, <1>3 DEF Inv, TypeOK

(***************************************************************************)
(* Every step of the service preserves Inv.                                *)
(***************************************************************************)
LEMMA NextInv == Inv /\ [Next]_vars => Inv'
<1> SUFFICES ASSUME Inv, [Next]_vars PROVE Inv'
  OBVIOUS
<1>0. /\ TypeOK /\ StorageTypeOK /\ SchedulerTypeOK /\ AllocatorTypeOK
      /\ agent \in [Vms -> [Jobs -> {"unknown", "held", "done"}]]
  BY DEF Inv, TypeOK
<1>1. CASE ClientStep
  BY <1>0, <1>1, QuietClient, QuietInv
     DEF ClientStep, allocatorVars, AllocatorTypeOK
<1>2. CASE AgentStep
  BY <1>0, <1>2, QuietAgent, QuietInv DEF allocatorVars, AllocatorTypeOK
<1>3. CASE MonitorStep
  BY <1>0, <1>3, QuietMonitor, QuietInv
     DEF MonitorStep, allocatorVars, AllocatorTypeOK
<1>4. CASE SchedulerStep /\ UNCHANGED <<allocatorVars, agent>>
  <2>1. CASE SchedulerLocalStep /\ UNCHANGED storageVars
    <3>1. PlanInv'
      BY <1>0, <2>1, PlanInvLocal DEF Inv, PlanInv
    <3>2. SnapshotInv' /\ SeenVmsExist'
      BY <2>1, SnapshotLocal
    <3>3. StorageTypeOK' /\ IdleWithinTotal'
      BY <1>0, <2>1 DEF Inv, StorageTypeOK, IdleWithinTotal, storageVars
    <3>4. AllocatorTypeOK'
      BY <1>0, <1>4 DEF AllocatorTypeOK, allocatorVars
    <3> QED BY <1>0, <1>4, <3>1, <3>2, <3>3, <3>4 DEF Inv, TypeOK, PlanInv
  <2>2. CASE \E b \in Backends : CommitPlanChange(b)
    BY <1>4, <2>2, CommitInv
  <2> QED BY <1>4, <2>1, <2>2 DEF SchedulerStep
<1>5. CASE AllocatorStep /\ UNCHANGED <<schedulerVars, agent>>
  BY <1>0, <1>5, QuietAllocator, QuietInv
<1>6. CASE UNCHANGED vars
  <2>1. /\ QuietVms /\ QuietJobs /\ UNCHANGED schedulerVars
        /\ AllocatorTypeOK' /\ agent' = agent
    BY <1>0, <1>6, QuietUnchanged
       DEF vars, storageVars, schedulerVars, allocatorVars, AllocatorTypeOK
  <2> QED BY <1>0, <2>1, QuietInv
<1> QED BY <1>1, <1>2, <1>3, <1>4, <1>5, <1>6 DEF Next

(***************************************************************************)
(* Inv holds in every reachable state.                                     *)
(***************************************************************************)
THEOREM Invariance == Spec => []Inv
BY InitInv, NextInv, PTL DEF Spec

(***************************************************************************)
(* The tables, the replicas, the workers and the agents keep their types:  *)
(* in particular no restart counter passes its limit and no idle capacity  *)
(* becomes negative.                                                       *)
(***************************************************************************)
THEOREM TypeCorrect == Spec => []TypeOK
<1>1. Inv => TypeOK
  BY DEF Inv
<1> QED BY <1>1, Invariance, PTL

(***************************************************************************)
(* Plan rows stay one scheduling interval apart whatever the interleaving  *)
(* of startScheduling and commitPlanChange (planWasRecentlyUpdated_,       *)
(* refreshPlanActivityTs_).                                                *)
(***************************************************************************)
THEOREM PlansSpaced == Spec => []PlansAreSpaced
<1>1. Inv => PlansAreSpaced
  BY DEF Inv
<1> QED BY <1>1, Invariance, PTL

(***************************************************************************)
(* No two replicas work on one plan row, and no commit refreshes its row   *)
(* with an older timestamp.                                                *)
(***************************************************************************)
THEOREM PlansOwned == Spec => []PlansAreOwned
<1>1. Inv => PlansAreOwned
  BY DEF Inv
<1> QED BY <1>1, Invariance, PTL

(***************************************************************************)
(* The snapshot of a replica whose plan passes isSchedulingRelevant_ is    *)
(* sound, for any number of replicas and however long one of them sleeps   *)
(* between its read and its commit.                                        *)
(***************************************************************************)
THEOREM SnapshotSound == Spec => []SnapshotIsSound
<1>1. Inv => SnapshotIsSound
  <2> SUFFICES ASSUME Inv, NEW b \in Backends, IsSchedulingRelevant(sched[b].plan),
                      HasPlan(b)
               PROVE  sched[b].plan = Len(plan)
    BY DEF Inv, SnapshotIsSound, SnapshotInv, HasPlan
  <2>1. sched[b].plan \in DOMAIN plan
    BY DEF Inv, PlansAreOwned
  <2> QED BY <2>1, NewestIsRelevant DEF Inv, TypeOK
<1> QED BY <1>1, Invariance, PTL

(***************************************************************************)
(* Idle capacity never exceeds the size of the VM, although                *)
(* commitPlanChange overwrites it from a snapshot and late reports release *)
(* resources again.                                                        *)
(***************************************************************************)
THEOREM IdleBounded == Spec => []IdleWithinTotal
<1>1. Inv => IdleWithinTotal
  BY DEF Inv
<1> QED BY <1>1, Invariance, PTL

(***************************************************************************)
(* Every step is quiet on the jobs, or it is a commit that changes them.   *)
(***************************************************************************)
LEMMA QuietOrCommit ==
  ASSUME Inv, [Next]_vars
  PROVE  QuietJobs \/ \E b \in Backends : CommitPlanChange(b) /\ ~UNCHANGED jobs
<1>0. TypeOK /\ StorageTypeOK /\ AllocatorTypeOK
  BY DEF Inv, TypeOK
<1>1. CASE ClientStep
  BY <1>0, <1>1, QuietClient
<1>2. CASE AgentStep
  BY <1>0, <1>2, QuietAgent
<1>3. CASE MonitorStep
  BY <1>0, <1>3, QuietMonitor
<1>4. CASE SchedulerStep
  BY <1>0, <1>4, QuietUnchanged DEF SchedulerStep, storageVars
<1>5. CASE AllocatorStep
  BY <1>0, <1>5, QuietAllocator
<1>6. CASE UNCHANGED vars
  BY <1>0, <1>6, QuietUnchanged DEF vars, storageVars
<1> QED BY <1>1, <1>2, <1>3, <1>4, <1>5, <1>6 DEF Next

(***************************************************************************)
(* What a step does to the statuses of jobs: it is quiet, or it is a       *)
(* commit that schedules jobs that were neither Scheduled nor finished.    *)
(***************************************************************************)
LEMMA JobStep ==
  ASSUME Inv, [Next]_vars, NEW j \in Jobs
  PROVE  /\ jobs[j].status = "Scheduled" /\ jobs'[j].status = "Scheduled"
               => jobs'[j].vm = jobs[j].vm
         /\ jobs[j].status \in Outcomes => jobs'[j].status = jobs[j].status
<1>0. TypeOK /\ StorageTypeOK /\ SchedulerTypeOK /\ AllocatorTypeOK
  BY DEF Inv, TypeOK
<1>1. CASE QuietJobs
  BY <1>1 DEF QuietJobs
<1>2. ASSUME NEW b \in Backends, CommitPlanChange(b), ~UNCHANGED jobs
      PROVE  /\ jobs[j].status = "Scheduled" /\ jobs'[j].status = "Scheduled"
                   => jobs'[j].vm = jobs[j].vm
             /\ jobs[j].status \in Outcomes => jobs'[j].status = jobs[j].status
  <2>1. PICK c \in Assign(b) : /\ IsSchedulingRelevant(sched[b].plan)
                               /\ CheckConflicts(b, c)
                               /\ ApplyJobVmAssignments(b, c)
    BY <1>2 DEF CommitPlanChange
  <2>2. sched[b].pc = "committing" /\ HasPlan(b)
    BY <1>2 DEF CommitPlanChange, HasPlan
  <2>3. sched[b].plan \in DOMAIN plan
    BY <2>2 DEF Inv, PlansAreOwned
  <2>4. sched[b].plan = Len(plan)
    BY <1>0, <2>1, <2>3, NewestIsRelevant DEF Inv
  <2>5. CASE j \in sched[b].queued
    <3>1. jobs[j].status # "Scheduled"
      BY <2>2, <2>4, <2>5 DEF Inv, SnapshotInv
    <3>2. jobs[j].status \notin Outcomes
      BY <2>1, <2>5 DEF CheckConflicts, FinalJobStatuses, Outcomes
    <3> QED BY <3>1, <3>2
  <2>6. CASE j \notin sched[b].queued
    BY <2>1, <2>6 DEF ApplyJobVmAssignments
  <2> QED BY <2>5, <2>6
<1>3. QuietJobs \/ \E b \in Backends : CommitPlanChange(b) /\ ~UNCHANGED jobs
  BY QuietOrCommit
<1> QED BY <1>1, <1>2, <1>3

(***************************************************************************)
(* No two plans fight over a job, for any number of replicas: a Scheduled  *)
(* job stays on its VM until it has been restarted (commitPlanChange).     *)
(***************************************************************************)
THEOREM AssignmentKept == Spec => AssignmentIsKept
<1>1. Inv /\ [Next]_vars =>
         [\A j \in Jobs :
             jobs[j].status = "Scheduled" /\ jobs'[j].status = "Scheduled"
                => jobs'[j].vm = jobs[j].vm]_vars
  BY JobStep
<1> QED BY <1>1, Invariance, PTL DEF Spec, AssignmentIsKept

(***************************************************************************)
(* No step revises the outcome of a job: cancelJobs_, updateJobState,      *)
(* restartJobs and commitPlanChange all leave finished jobs alone.         *)
(***************************************************************************)
THEOREM OutcomeFinal == Spec => OutcomeIsFinal
<1>1. Inv /\ [Next]_vars =>
         [\A j \in Jobs :
             jobs[j].status \in {"Completed", "Cancelled", "Error", "InternalError"}
                => jobs'[j].status = jobs[j].status]_vars
  BY JobStep DEF Outcomes
<1> QED BY <1>1, Invariance, PTL DEF Spec, OutcomeIsFinal

(***************************************************************************)
(* A step that schedules a job is a commit that is carried out, with the   *)
(* newest plan and a snapshot that holds the job.                          *)
(***************************************************************************)
LEMMA ScheduledByCommit ==
  ASSUME Inv, [Next]_vars, NEW j \in Jobs,
         jobs[j].status # "Scheduled", jobs'[j].status = "Scheduled"
  PROVE  \E b \in Backends : \E c \in Assign(b) :
            /\ sched[b].pc = "committing" /\ sched[b].plan = Len(plan)
            /\ j \in sched[b].queued
            /\ CheckConflicts(b, c)
            /\ ApplyVmChanges(b, c) /\ ApplyJobVmAssignments(b, c)
<1>1. \E b \in Backends : CommitPlanChange(b) /\ ~UNCHANGED jobs
  BY QuietOrCommit DEF QuietJobs
<1>b. PICK b \in Backends : CommitPlanChange(b) /\ ~UNCHANGED jobs
  BY <1>1
<1>2. PICK c \in Assign(b) :
         /\ sched[b].pc = "committing"
         /\ IsSchedulingRelevant(sched[b].plan)
         /\ CheckConflicts(b, c)
         /\ ApplyVmChanges(b, c) /\ ApplyJobVmAssignments(b, c)
  BY <1>b DEF CommitPlanChange
<1>3. sched[b].plan \in DOMAIN plan
  BY <1>2 DEF Inv, PlansAreOwned, HasPlan
<1>4. sched[b].plan = Len(plan)
  BY <1>2, <1>3, NewestIsRelevant DEF Inv, TypeOK
<1>5. j \in sched[b].queued
  BY <1>2 DEF ApplyJobVmAssignments
<1> QED BY <1>2, <1>4, <1>5

(***************************************************************************)
(* Both assigners put a job on a new VM or on one of the snapshot, and on  *)
(* the latter no more than the snapshot says is idle.                      *)
(***************************************************************************)
LEMMA PlacedWhereItFits ==
  ASSUME Inv, NEW b \in Backends, NEW c \in Assign(b)
  PROVE  /\ \A j \in sched[b].queued :
               c.jobToVm[j] \in sched[b].seen \/ c.jobToVm[j] \in NewVms(c)
         /\ \A v \in sched[b].seen :
               /\ PlacedOn(c, v) \in SUBSET Jobs
               /\ Demand(PlacedOn(c, v)) <= sched[b].seenIdle[v]
<1>0. /\ sched[b].queued \subseteq Jobs
      /\ sched[b].seen \subseteq Vms
      /\ sched[b].seenIdle \in [Vms -> Nat]
      /\ \A v \in sched[b].seen : v \notin FreshVms
  BY DEF Inv, TypeOK, SchedulerTypeOK, Replica, SeenVmsExist, FreshVms, VmsIn
<1>1. c.jobToVm \in [sched[b].queued -> Vms]
  BY AssignType DEF Inv
<1>2. \A v \in Vms : PlacedOn(c, v) \in SUBSET Jobs
  BY <1>0, <1>1 DEF PlacedOn
<1>3. \A j \in sched[b].queued : c.jobToVm[j] \in FreshVms => c.jobToVm[j] \in NewVms(c)
  BY <1>1 DEF NewVms, PlacedOn
<1>4. CASE c \in SimpleAssign(b)
  <2>1. PICK f \in [sched[b].queued -> FreshVms] : c.jobToVm = f
    BY <1>4 DEF SimpleAssign
  <2>2. \A v \in sched[b].seen : PlacedOn(c, v) = {}
    BY <1>0, <2>1 DEF PlacedOn
  <2>3. \A v \in sched[b].seen : Demand(PlacedOn(c, v)) <= sched[b].seenIdle[v]
    <3> SUFFICES ASSUME NEW v \in sched[b].seen
                 PROVE  Demand(PlacedOn(c, v)) <= sched[b].seenIdle[v]
      OBVIOUS
    <3>1. Demand(PlacedOn(c, v)) = 0
      BY <2>2, DemandZero
    <3>2. sched[b].seenIdle[v] \in Nat
      BY <1>0
    <3> QED BY <3>1, <3>2
  <2> QED BY <1>0, <1>2, <1>3, <2>1, <2>3
<1>5. CASE c \in ComplexAssign(b)
  <2>1. /\ c.jobToVm \in [sched[b].queued -> sched[b].seen \cup FreshVms]
        /\ \A v \in sched[b].seen : Demand(PlacedOn(c, v)) <= sched[b].seenIdle[v]
    BY <1>5 DEF ComplexAssign
  <2> QED BY <1>0, <1>2, <1>3, <2>1
<1> QED BY <1>4, <1>5 DEF Assign

(***************************************************************************)
(* For any number of replicas, a plan never puts a job on a VM that is     *)
(* being terminated: not on one that the failure detector or an older plan *)
(* has given up since the snapshot was read, and not on one that the plan  *)
(* itself gives up (checkConflicts_, terminateVms_).                       *)
(***************************************************************************)
THEOREM AssignedActive == Spec => AssignedToActiveVm
<1>1. ASSUME Inv, [Next]_vars, NEW j \in Jobs, Req[j] > 0,
             jobs[j].status # "Scheduled", jobs'[j].status = "Scheduled"
      PROVE  vms'[jobs'[j].vm].status \in ActiveVmStatuses
  <2>b. PICK b \in Backends : \E c \in Assign(b) :
           /\ sched[b].pc = "committing" /\ sched[b].plan = Len(plan)
           /\ j \in sched[b].queued
           /\ CheckConflicts(b, c)
           /\ ApplyVmChanges(b, c) /\ ApplyJobVmAssignments(b, c)
    BY <1>1, ScheduledByCommit
  <2>1. PICK c \in Assign(b) :
           /\ sched[b].pc = "committing" /\ sched[b].plan = Len(plan)
           /\ j \in sched[b].queued
           /\ CheckConflicts(b, c)
           /\ ApplyVmChanges(b, c) /\ ApplyJobVmAssignments(b, c)
    BY <2>b
  <2> DEFINE v == c.jobToVm[j]
  <2>2. c.jobToVm \in [sched[b].queued -> Vms] /\ v \in Vms
    BY <1>1, <2>1, AssignType DEF Inv
  <2>3. jobs'[j].vm = v
    BY <1>1, <2>1 DEF ApplyJobVmAssignments, Inv, TypeOK, StorageTypeOK, JobRow
  <2>4. j \in PlacedOn(c, v)
    BY <2>1, <2>2 DEF PlacedOn
  <2>5. CASE v \in NewVms(c)
    <3>1. PICK s, i : vms'[v] = [NoVmRow EXCEPT !.status = "PendingAllocation",
                                               !.total = s, !.idle = i]
      BY <2>1, <2>2, <2>5 DEF ApplyVmChanges
    <3>2. vms'[v].status = "PendingAllocation"
      BY <3>1 DEF NoVmRow
    <3> QED BY <2>3, <3>2 DEF ActiveVmStatuses
  <2>6. CASE v \notin NewVms(c)
    <3>1. v \in sched[b].seen /\ v \in UpdatedVms(b, c)
      BY <1>1, <2>1, <2>4, <2>6, PlacedWhereItFits DEF UpdatedVms
    <3>2. vms[v].status \in ActiveVmStatuses
      BY <2>1, <3>1 DEF CheckConflicts
    <3>3. v \notin VmsToTerminate(b, c)
      <4> DEFINE d == Demand(PlacedOn(c, v))
                 i == sched[b].seenIdle[v]
      <4>1. d \in Nat /\ d > 0 /\ d <= i
        BY <1>1, <2>4, <3>1, PlacedWhereItFits, DemandType, DemandZero
      <4>2. /\ i \in Nat /\ i <= vms[v].idle
            /\ vms[v].idle \in Nat /\ vms[v].total \in Nat
            /\ vms[v].idle <= vms[v].total
        BY <1>1, <2>1, <2>2, <3>1
           DEF Inv, TypeOK, StorageTypeOK, VmRow, SchedulerTypeOK, Replica,
               SnapshotInv, IdleWithinTotal
      <4>3. IdleAfter(b, c, v) = i - d
        BY <3>1, <4>1 DEF IdleAfter
      <4> HIDE DEF d, i
      <4>4. IdleAfter(b, c, v) # vms[v].total
        BY <4>1, <4>2, <4>3
      <4> QED BY <4>4 DEF VmsToTerminate
    <3>4. PICK i : vms'[v] = [vms[v] EXCEPT !.status = vms[v].status, !.idle = i]
      BY <2>1, <2>2, <2>6, <3>3 DEF ApplyVmChanges
    <3>5. vms'[v].status = vms[v].status
      BY <1>1, <2>2, <3>4 DEF Inv, TypeOK, StorageTypeOK, VmRow
    <3> QED BY <2>3, <3>2, <3>5
  <2> QED BY <2>5, <2>6
<1>2. Inv /\ [Next]_vars =>
         [\A j \in Jobs :
             Req[j] > 0 /\ jobs[j].status # "Scheduled" /\ jobs'[j].status = "Scheduled"
                => vms'[jobs'[j].vm].status \in ActiveVmStatuses]_vars
  BY <1>1
<1> QED BY <1>2, Invariance, PTL DEF Spec, AssignedToActiveVm

=============================================================================
