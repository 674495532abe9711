----------------------------- MODULE VmAssigner -----------------------------
(***************************************************************************)
(* VmAssigner::assign, the computation between a scheduler's snapshot and  *)
(* its commit, with capacities in two dimensions.                          *)
(*                                                                         *)
(* The input is chosen in Init.  ComplexVmAssigner hands the jobs one by   *)
(* one to a JobAllocator, then the jobs that got no VM to VmSlotSelector;  *)
(* one job is one step, and so is each call of merge_.  std::sort is not   *)
(* stable: of jobs and VMs that compare equal any may come first.          *)
(*                                                                         *)
(* Two orders are at work.  operator<=> compares the cores and then the    *)
(* memory; fits() wants both.  std::lower_bound searches sequences sorted  *)
(* by the first for a boundary of the second, which need not be the only   *)
(* one: the standard then promises nothing, and a binary search may stop   *)
(* at any boundary.                                                        *)
(***************************************************************************)
EXTENDS Integers, Sequences, FiniteSets, SequencesExt

CONSTANTS
    Strategies,    \* "Simple", or an AllocationStrategy
    Orderings,     \* JobOrdering
    SlotLists,     \* possibleSlots: sorted sequences of capacities
    JobSizes,      \* capacities that jobs require
    MaxJobs,       \* bound on queued jobs
    VmSizes,       \* [total, idle] of active VMs
    MaxVms         \* bound on active VMs

Capacity == Nat \X Nat

VARIABLES
    in,         \* the input: strategy, ordering, slots, req, vms
    phase,      \* allocating, selecting, merging, done or crashed
    vms,        \* vms_ of the job allocator, in the order of its container
    updated,    \* updatedVmIds_
    todo,       \* jobs the current loop has still to look at
    jobToVm,    \* jobs put on existing VMs
    unplaced,   \* unallocatedJobs
    desired,    \* desiredSlots
    startSlot   \* the parameter of merge_

vars == <<in, phase, vms, updated, todo, jobToVm, unplaced, desired, startSlot>>

----------------------------------------------------------------------------
(* SlotCapacity: <<cpu, ram>>.                                             *)

Less(a, b) == a[1] < b[1] \/ (a[1] = b[1] /\ a[2] < b[2])

Fits(a, b) == a[1] <= b[1] /\ a[2] <= b[2]

Minus(a, b) == <<IF a[1] > b[1] THEN a[1] - b[1] ELSE 0,
                 IF a[2] > b[2] THEN a[2] - b[2] ELSE 0>>

Plus(a, b) == <<a[1] + b[1], a[2] + b[2]>>

Twice(a) == <<2 * a[1], 2 * a[2]>>

\* Mutant of LowerBounds: the search stops before the boundary.
LowerBoundsEarly(s, before) ==
    {i \in 1 .. Len(s) + 1 : i > 1 => i - 1 \in before}

\* Where std::lower_bound may stop in s if its predicate holds at the positions
\* before: one position if they come first.
LowerBounds(s, before) ==
    {i \in 1 .. Len(s) + 1 : /\ i > 1 => i - 1 \in before
                             /\ i <= Len(s) => i \notin before}

(***************************************************************************)
(* The constructor of Scheduler refuses slots that are empty or unsorted;  *)
(* idle capacities within the size of their VM are IdleWithinTotal of      *)
(* VmScheduler.                                                            *)
(***************************************************************************)
ASSUME InputAssumption ==
    /\ Strategies \subseteq {"Simple", "FirstFit", "NextFit", "BestFit", "WorstFit"}
    /\ Orderings \subseteq {"Fifo", "Ascending", "Descending"}
    /\ \A s \in SlotLists :
          /\ s \in Seq(Capacity) /\ s # << >>
          /\ \A i, k \in DOMAIN s : i < k => ~Less(s[k], s[i])
    /\ JobSizes \subseteq Capacity
    /\ \A v \in VmSizes :
          v \in [total : Capacity, idle : Capacity] /\ Fits(v.idle, v.total)
    /\ MaxJobs \in Nat /\ MaxVms \in Nat

----------------------------------------------------------------------------
Jobs == DOMAIN in.req

NoSlot == <<0, 0>>

\* The orders in which the constructor of the allocator may leave the VMs.
Containers(strategy, input) ==
    LET Record(i) == [id |-> i, total |-> input[i].total, idle |-> input[i].idle]
        Arranged(p) == [i \in DOMAIN input |-> Record(p[i])]
        Sorted(p) == \A i, k \in DOMAIN input :
                        i < k => ~Less(input[p[k]].idle, input[p[i]].idle)
    IN  IF strategy \in {"BestFit", "WorstFit"}
        THEN {Arranged(p) : p \in {q \in Bijection(DOMAIN input, DOMAIN input) : Sorted(q)}}
        ELSE {Arranged([i \in DOMAIN input |-> i])}

Init ==
    /\ in \in [strategy : Strategies, ordering : Orderings, slots : SlotLists,
               req : BoundedSeq(JobSizes, MaxJobs), vms : BoundedSeq(VmSizes, MaxVms)]
    /\ phase = "allocating"
    /\ vms \in Containers(in.strategy, in.vms)
    /\ updated = {}
    /\ todo = Jobs
    /\ jobToVm = << >>
    /\ unplaced = {}
    /\ desired = << >>
    /\ startSlot = NoSlot

----------------------------------------------------------------------------
(* OrderedJobs and JobAllocator.                                           *)

\* j may be the next of S in the order of requiredCapacity, largest first.
IsLargest(j, S) == j \in S /\ \A k \in S : ~Less(in.req[j], in.req[k])

IsSmallest(j, S) == j \in S /\ \A k \in S : ~Less(in.req[k], in.req[j])

IsNext(j) ==
    CASE in.ordering = "Fifo" -> j \in todo /\ \A k \in todo : j <= k
      [] in.ordering = "Ascending" -> IsSmallest(j, todo)
      [] in.ordering = "Descending" -> IsLargest(j, todo)

FirstFitVms(r) == {SelectInSeq(vms, LAMBDA v : Fits(r, v.idle))}

\* WorstFit looks at the last VM only.
WorstFitVms(r) == {IF vms # << >> /\ Fits(r, Last(vms).idle) THEN Len(vms) ELSE 0}

BestFitVms(r) ==
    {IF i <= Len(vms) /\ Fits(r, vms[i].idle) THEN i ELSE 0 :
        i \in LowerBounds(vms, {k \in DOMAIN vms : ~Fits(r, vms[k].idle)})}

\* The position of the VM that takes a job, 0 if none does.
Allocate(r) ==
    CASE in.strategy = "FirstFit" -> FirstFitVms(r)
      [] in.strategy = "WorstFit" -> WorstFitVms(r)
      [] in.strategy = "BestFit" -> BestFitVms(r)
      [] in.strategy = "NextFit" -> {0}

\* multiset::insert: behind the elements that are not greater.
Insert(s, v) ==
    {InsertAt(s, k, v) : k \in LowerBounds(s, {l \in DOMAIN s : ~Less(v.idle, s[l].idle)})}

\* Mutant of UseVm: the VM keeps its idle capacity.
UseVmForFree(i, r) == {vms}

\* idleCapacity -= requiredCapacity, and the container is put in order.
UseVm(i, r) ==
    LET v == [vms[i] EXCEPT !.idle = Minus(@, r)]
    IN  IF in.strategy = "FirstFit" THEN {[vms EXCEPT ![i] = v]}
        ELSE Insert(RemoveAt(vms, i), v)

(***************************************************************************)
(* NextFit's iter_ is taken from the parameter that vms_ has been moved    *)
(* from, and is null.  Without VMs it equals end(); otherwise it is        *)
(* dereferenced, and the process dies.                                     *)
(***************************************************************************)
NullIterator == in.strategy = "NextFit" /\ vms # << >>

AllocateJob(j) ==
    /\ phase = "allocating" /\ in.strategy # "Simple"
    /\ ~NullIterator
    /\ IsNext(j)
    /\ todo' = todo \ {j}
    /\ \E i \in Allocate(in.req[j]) :
          \/ /\ i # 0
             /\ vms' \in UseVm(i, in.req[j])
             /\ updated' = updated \cup {vms[i].id}
             /\ jobToVm' = [k \in DOMAIN jobToVm \cup {j} |->
                               IF k = j THEN vms[i].id ELSE jobToVm[k]]
             /\ UNCHANGED unplaced
          \/ /\ i = 0
             /\ unplaced' = unplaced \cup {j}
             /\ UNCHANGED <<vms, updated, jobToVm>>
    /\ UNCHANGED <<in, phase, desired, startSlot>>

DereferenceNull ==
    /\ phase = "allocating" /\ todo # {}
    /\ NullIterator
    /\ phase' = "crashed"
    /\ UNCHANGED <<in, vms, updated, todo, jobToVm, unplaced, desired, startSlot>>

\* Mutant of StartSelecting: all the jobs are handed on.
SelectAll ==
    /\ phase = "allocating" /\ in.strategy # "Simple"
    /\ todo = {}
    /\ phase' = "selecting"
    /\ todo' = Jobs
    /\ UNCHANGED <<in, vms, updated, jobToVm, unplaced, desired, startSlot>>

StartSelecting ==
    /\ phase = "allocating" /\ in.strategy # "Simple"
    /\ todo = {}
    /\ phase' = "selecting"
    /\ todo' = unplaced
    /\ UNCHANGED <<in, vms, updated, jobToVm, unplaced, desired, startSlot>>

----------------------------------------------------------------------------
(* VmSlotSelector.                                                         *)

GetMinFitSlots(r) ==
    {IF i > Len(in.slots) THEN Last(in.slots) ELSE in.slots[i] :
        i \in LowerBounds(in.slots, {k \in DOMAIN in.slots : ~Fits(r, in.slots[k])})}

Offered(c) == \E i \in DOMAIN in.slots : in.slots[i] = c

\* Mutant of BestDesired: the slot with the least idle capacity, fit or not.
LeastDesired(r) ==
    {k \in DOMAIN desired :
        \A l \in DOMAIN desired : /\ ~Less(desired[l].idle, desired[k].idle)
                                  /\ desired[l].idle = desired[k].idle => k <= l}

\* The slots a job fits in with the least idle capacity: the first one is taken.
BestDesired(r) ==
    LET fit == {k \in DOMAIN desired : Fits(r, desired[k].idle)}
    IN  {k \in fit : \A l \in fit : /\ ~Less(desired[l].idle, desired[k].idle)
                                    /\ desired[l].idle = desired[k].idle => k <= l}

\* A desired slot that takes one more job.
WithJob(slot, j) ==
    [total |-> slot.total, idle |-> Minus(slot.idle, in.req[j]), jobs |-> slot.jobs \cup {j}]

SelectSlot(j) ==
    LET r == in.req[j]
        New(slot) == [total |-> slot, idle |-> Minus(slot, r), jobs |-> {j}]
    IN  /\ phase = "selecting"
        /\ IsLargest(j, todo)
        /\ todo' = todo \ {j}
        /\ \/ \E k \in BestDesired(r) :
                /\ desired' = [desired EXCEPT ![k] = WithJob(@, j)]
                /\ UNCHANGED <<phase, startSlot>>
           \/ /\ BestDesired(r) = {}
              /\ \E slot \in GetMinFitSlots(r) :
                    /\ desired' = Append(desired, New(slot))
                    /\ startSlot' = slot
              /\ phase' = "merging"
        /\ UNCHANGED <<in, vms, updated, jobToVm, unplaced>>

\* The slots of the size that merge_ was called with.
OfStartSlot == {k \in DOMAIN desired : desired[k].total = startSlot}

MergeIsOver == Cardinality(OfStartSlot) = 1 \/ ~Offered(Twice(startSlot))

Joined(k, l) == [total |-> Twice(startSlot),
                 idle |-> Plus(desired[k].idle, desired[l].idle),
                 jobs |-> desired[k].jobs \cup desired[l].jobs]

\* Mutant of Merge: the merged slot is not merged further.
MergeOnce ==
    /\ phase = "merging" /\ ~MergeIsOver
    /\ \E k, l \in OfStartSlot :
          /\ k < l
          /\ desired' = Append(RemoveAt(RemoveAt(desired, l), k), Joined(k, l))
    /\ phase' = "selecting" /\ startSlot' = NoSlot
    /\ UNCHANGED <<in, vms, updated, todo, jobToVm, unplaced>>

\* merge_: two slots of a size become one of twice the size, for which it is
\* called again.
Merge ==
    /\ phase = "merging" /\ ~MergeIsOver
    /\ \E k, l \in OfStartSlot :
          /\ k < l
          /\ desired' = Append(RemoveAt(RemoveAt(desired, l), k), Joined(k, l))
    /\ startSlot' = Twice(startSlot)
    /\ UNCHANGED <<in, phase, vms, updated, todo, jobToVm, unplaced>>

\* merge_ returns when the size is the only one, or its double is not offered.
MergeReturns ==
    /\ phase = "merging" /\ MergeIsOver
    /\ phase' = "selecting" /\ startSlot' = NoSlot
    /\ UNCHANGED <<in, vms, updated, todo, jobToVm, unplaced, desired>>

Finish ==
    /\ phase = "selecting"
    /\ todo = {}
    /\ phase' = "done"
    /\ UNCHANGED <<in, vms, updated, todo, jobToVm, unplaced, desired, startSlot>>

----------------------------------------------------------------------------
\* SimpleVmAssigner: a slot of the required capacity for each job.
SimpleAssign ==
    /\ phase = "allocating" /\ in.strategy = "Simple"
    /\ desired' = [j \in Jobs |-> [total |-> in.req[j], idle |-> <<0, 0>>, jobs |-> {j}]]
    /\ phase' = "done"
    /\ UNCHANGED <<in, vms, updated, todo, jobToVm, unplaced, startSlot>>

Next ==
    \/ \E j \in Jobs : AllocateJob(j) \/ SelectSlot(j)
    \/ DereferenceNull
    \/ StartSelecting
    \/ Merge
    \/ MergeReturns
    \/ Finish
    \/ SimpleAssign

Spec == Init /\ [][Next]_vars

----------------------------------------------------------------------------
(* The result, and what the cloud client makes of it.                      *)

UpdatedIdle(id) == (CHOOSE v \in Range(vms) : v.id = id).idle

VmsToTerminate == {v.id : v \in {w \in Range(vms) : w.total = w.idle}}

\* Mutant of InstanceTypesForSlot: the boundary is the wrong one.
NextInstanceTypes(size) ==
    {IF i > Len(in.slots) THEN Last(in.slots) ELSE in.slots[i] :
        i \in LowerBounds(in.slots, {k \in DOMAIN in.slots : ~Less(size, in.slots[k])})}

\* getInstanceTypeForSlot; the slots are the capacities of the types.
InstanceTypesForSlot(size) ==
    {IF i > Len(in.slots) THEN Last(in.slots) ELSE in.slots[i] :
        i \in LowerBounds(in.slots, {k \in DOMAIN in.slots : Less(in.slots[k], size)})}

----------------------------------------------------------------------------
(* Properties.                                                             *)

\* The units of a dimension that the jobs of S ask for; their sum is the number.
Units(S, d) == UNION {{j} \X (1 .. in.req[j][d]) : j \in S}

Demand(S) == <<Cardinality(Units(S, 1)), Cardinality(Units(S, 2))>>

OnVm(id) == {j \in DOMAIN jobToVm : jobToVm[j] = id}

(***************************************************************************)
(* The books balance while the containers are being reordered: the jobs on *)
(* a VM fit what was idle there, the idle capacity to be written is what   *)
(* they leave, and exactly the VMs that got a job are updated.             *)
(***************************************************************************)
JobsFitTheirVms ==
    \A i \in DOMAIN in.vms :
        /\ Fits(Demand(OnVm(i)), in.vms[i].idle)
        /\ UpdatedIdle(i) = Minus(in.vms[i].idle, Demand(OnVm(i)))
        /\ i \in updated <=> OnVm(i) # {}

(***************************************************************************)
(* A new slot is of an offered size and holds all its jobs with the idle   *)
(* capacity it claims, merged slots included, unless one of its jobs does  *)
(* not fit the last size on offer.  That holds for sizes of several        *)
(* families too, among which the search may miss the least that fits; a    *)
(* job that does not fit the last size may then be given it although       *)
(* another size fits.                                                      *)
(***************************************************************************)
SlotsHoldTheirJobs ==
    in.strategy # "Simple" =>
        \A k \in DOMAIN desired :
            /\ Offered(desired[k].total)
            /\ \/ /\ Fits(Demand(desired[k].jobs), desired[k].total)
                  /\ desired[k].idle = Minus(desired[k].total, Demand(desired[k].jobs))
               \/ \E j \in desired[k].jobs : ~Fits(in.req[j], Last(in.slots))

(***************************************************************************)
(* Merging goes as far as it can: when merge_ is not at work, no two slots *)
(* of a size are left whose double is offered, and while it is there are   *)
(* two of one size at most.                                                *)
(***************************************************************************)
MergedFully ==
    in.strategy # "Simple" =>
        \A k, l \in DOMAIN desired :
            k # l /\ desired[k].total = desired[l].total
                  /\ Offered(Twice(desired[k].total))
                => phase = "merging" /\ OfStartSlot = {k, l}

(***************************************************************************)
(* Every queued job is in the plan exactly once.                           *)
(***************************************************************************)
EveryJobIsPlacedOnce ==
    phase = "done" =>
        \A j \in Jobs :
            LET slots == {k \in DOMAIN desired : j \in desired[k].jobs}
            IN  Cardinality(slots) = IF j \in DOMAIN jobToVm THEN 0 ELSE 1

(***************************************************************************)
(* A plan terminates a VM it uses only for jobs that need nothing: a VM is *)
(* idle when its idle capacity is its total, whatever is placed on it.     *)
(***************************************************************************)
TerminatesOnlyUnusedVms ==
    phase = "done" => \A i \in VmsToTerminate : Demand(OnVm(i)) = <<0, 0>>

Nested == \A v, w \in Range(vms) : Fits(v.idle, w.idle) \/ Fits(w.idle, v.idle)

(***************************************************************************)
(* When idle capacities are nested, no strategy overlooks a VM: a job goes *)
(* to a new VM only if it fits no existing one, and best fit takes a VM    *)
(* with the least idle capacity of those it fits, worst fit with the most. *)
(***************************************************************************)
FindsTheRightVm ==
    [][\A j \in Jobs :
        LET r == in.req[j]
            fit == {v \in Range(vms) : Fits(r, v.idle)}
        IN  phase = "allocating" /\ Nested /\ j \in todo \ todo' =>
            IF j \in unplaced' THEN fit = {}
            ELSE \E v \in fit :
                    /\ v.id = jobToVm'[j]
                    /\ in.strategy = "BestFit" => \A w \in fit : Fits(v.idle, w.idle)
                    /\ in.strategy = "WorstFit" => \A w \in fit : Fits(w.idle, v.idle)
      ]_vars

(***************************************************************************)
(* The instance that is launched for a slot of a plan has exactly the      *)
(* slot's capacity.                                                        *)
(***************************************************************************)
InstanceIsTheSlot ==
    in.strategy # "Simple" =>
        \A k \in DOMAIN desired :
            InstanceTypesForSlot(desired[k].total) = {desired[k].total}

=============================================================================
