-------------------------- MODULE VmAssignerProofs --------------------------
(***************************************************************************)
(* Theorems about VmAssigner, for every input: any number of jobs and VMs, *)
(* any capacities, any sorted sizes on offer.                              *)
(***************************************************************************)
EXTENDS VmAssigner, FiniteSetTheorems, SequenceTheorems, TLAPS

----------------------------------------------------------------------------
(* Numbers and sequences.                                                  *)

(***************************************************************************)
(* A set of naturals has a least element: what the scan of FirstFit and    *)
(* the search for an instance type find.                                   *)
(***************************************************************************)
LEMMA LeastNat ==
  ASSUME NEW S \in SUBSET Nat, S # {}
  PROVE  \E n \in S : \A m \in S : n <= m
<1> DEFINE R == OpToRel(<, Nat)
<1>1. IsWellFoundedOn(R, Nat)
  BY NatLessThanWellFounded
<1>2. \A m, n \in Nat : m < n => <<m, n>> \in R
  BY DEF OpToRel
<1> HIDE DEF R
<1>3. \E n \in S : \A m \in S : ~(<<m, n>> \in R)
  BY <1>1, WFMin
<1>4. \E n \in S : \A m \in S : ~(m < n)
  BY <1>2, <1>3, Zenon
<1> QED BY <1>4

(***************************************************************************)
(* Erasing an element moves the later ones up by one.                      *)
(***************************************************************************)
LEMMA RemoveAtProperties ==
  ASSUME NEW S, NEW s \in Seq(S), NEW i \in 1 .. Len(s)
  PROVE  /\ RemoveAt(s, i) \in Seq(S)
         /\ Len(RemoveAt(s, i)) = Len(s) - 1
         /\ \A k \in 1 .. Len(s) - 1 :
               RemoveAt(s, i)[k] = IF k < i THEN s[k] ELSE s[k + 1]
<1> DEFINE a == SubSeq(s, 1, i - 1)
           b == SubSeq(s, i + 1, Len(s))
<1>1. /\ a \in Seq(S) /\ Len(a) = i - 1
      /\ \A k \in 1 .. i - 1 : a[k] = s[k]
  BY SubSeqProperties
<1>2. /\ b \in Seq(S) /\ Len(b) = Len(s) - i
      /\ \A k \in 1 .. Len(s) - i : b[k] = s[i + k]
  BY SubSeqProperties
<1>3. RemoveAt(s, i) = a \o b
  BY DEF RemoveAt
<1> HIDE DEF a, b
<1>4. /\ a \o b \in Seq(S) /\ Len(a \o b) = Len(a) + Len(b)
      /\ \A k \in 1 .. Len(a) + Len(b) :
            (a \o b)[k] = IF k <= Len(a) THEN a[k] ELSE b[k - Len(a)]
  BY <1>1, <1>2, ConcatProperties
<1> QED BY <1>1, <1>2, <1>3, <1>4

(***************************************************************************)
(* Inserting an element moves the later ones down by one.                  *)
(***************************************************************************)
LEMMA InsertAtProperties ==
  ASSUME NEW S, NEW s \in Seq(S), NEW i \in 1 .. Len(s) + 1, NEW e \in S
  PROVE  /\ InsertAt(s, i, e) \in Seq(S)
         /\ Len(InsertAt(s, i, e)) = Len(s) + 1
         /\ \A k \in 1 .. Len(s) + 1 :
               InsertAt(s, i, e)[k] =
                  IF k < i THEN s[k] ELSE IF k = i THEN e ELSE s[k - 1]
<1> DEFINE a == SubSeq(s, 1, i - 1)
           b == SubSeq(s, i, Len(s))
           c == a \o <<e>>
<1>1. /\ a \in Seq(S) /\ Len(a) = i - 1
      /\ \A k \in 1 .. i - 1 : a[k] = s[k]
  BY SubSeqProperties
<1>2. /\ b \in Seq(S) /\ Len(b) = Len(s) - i + 1
      /\ \A k \in 1 .. Len(s) - i + 1 : b[k] = s[i + k - 1]
  BY SubSeqProperties
<1>3. InsertAt(s, i, e) = c \o b
  BY DEF InsertAt
<1>4. <<e>> \in Seq(S) /\ Len(<<e>>) = 1 /\ <<e>>[1] = e
  OBVIOUS
<1> HIDE DEF a, b
<1>5. /\ c \in Seq(S) /\ Len(c) = i
      /\ \A k \in 1 .. i : c[k] = IF k < i THEN s[k] ELSE e
  <2>1. /\ c \in Seq(S) /\ Len(c) = Len(a) + 1
        /\ \A k \in 1 .. Len(a) + 1 :
              c[k] = IF k <= Len(a) THEN a[k] ELSE <<e>>[k - Len(a)]
    BY <1>1, <1>4, ConcatProperties
  <2> HIDE DEF c
  <2> QED BY <1>1, <1>4, <2>1
<1> HIDE DEF c
<1>6. /\ c \o b \in Seq(S) /\ Len(c \o b) = Len(c) + Len(b)
      /\ \A k \in 1 .. Len(c) + Len(b) :
            (c \o b)[k] = IF k <= Len(c) THEN c[k] ELSE b[k - Len(c)]
  BY <1>2, <1>5, ConcatProperties
<1> QED BY <1>2, <1>3, <1>5, <1>6

----------------------------------------------------------------------------
(* The input, and types.                                                   *)

VmSize == [total : Capacity, idle : Capacity]

VmRecord == [id : Nat, total : Capacity, idle : Capacity]

SlotRecord == [total : Capacity, idle : Capacity, jobs : SUBSET Jobs]

InputOK ==
    in \in [strategy : Strategies, ordering : Orderings, slots : SlotLists,
            req : BoundedSeq(JobSizes, MaxJobs), vms : BoundedSeq(VmSizes, MaxVms)]

\* What InputAssumption gives for the input at hand.
InputMeans ==
    /\ in.strategy \in {"Simple", "FirstFit", "NextFit", "BestFit", "WorstFit"}
    /\ in.ordering \in {"Fifo", "Ascending", "Descending"}
    /\ in.req \in Seq(Capacity) /\ Jobs = 1 .. Len(in.req)
    /\ in.slots \in Seq(Capacity) /\ Len(in.slots) \in Nat \ {0}
    /\ \A i, k \in 1 .. Len(in.slots) : i < k => ~Less(in.slots[k], in.slots[i])
    /\ in.vms \in Seq(VmSize)
    /\ \A i \in 1 .. Len(in.vms) : Fits(in.vms[i].idle, in.vms[i].total)

TypeInv ==
    /\ InputOK
    /\ phase \in {"allocating", "selecting", "merging", "done", "crashed"}
    /\ vms \in Seq(VmRecord)
    /\ todo \in SUBSET Jobs
    /\ DOMAIN jobToVm \subseteq Jobs
    /\ jobToVm \in [DOMAIN jobToVm -> DOMAIN in.vms]
    /\ unplaced \in SUBSET Jobs
    /\ desired \in Seq(SlotRecord)
    /\ startSlot \in Capacity

(***************************************************************************)
(* The input consists of sequences of capacities as InputAssumption says.  *)
(***************************************************************************)
LEMMA InputFacts ==
  ASSUME InputOK
  PROVE  InputMeans
<1>1. PICK m \in 0 .. MaxJobs : in.req \in [1 .. m -> JobSizes]
  BY DEF InputOK, BoundedSeq, SeqOf
<1>2. PICK n \in 0 .. MaxVms : in.vms \in [1 .. n -> VmSizes]
  BY DEF InputOK, BoundedSeq, SeqOf
<1>3. in.req \in Seq(Capacity) /\ Jobs = 1 .. Len(in.req)
  BY <1>1, InputAssumption DEF Jobs
<1>4. /\ in.vms \in Seq(VmSize)
      /\ \A i \in 1 .. Len(in.vms) : Fits(in.vms[i].idle, in.vms[i].total)
  <2>1. n \in Nat /\ in.vms \in [1 .. n -> VmSize]
    BY <1>2, InputAssumption DEF VmSize
  <2>2. Len(in.vms) = n
    BY <1>2, InputAssumption
  <2>3. in.vms \in Seq(VmSize)
    BY <2>1
  <2>4. \A i \in 1 .. n : Fits(in.vms[i].idle, in.vms[i].total)
    BY <1>2, InputAssumption
  <2> QED BY <2>2, <2>3, <2>4
<1>5. /\ in.slots \in Seq(Capacity) /\ in.slots # << >>
      /\ \A i, k \in DOMAIN in.slots : i < k => ~Less(in.slots[k], in.slots[i])
  BY InputAssumption DEF InputOK
<1>6. /\ in.strategy \in {"Simple", "FirstFit", "NextFit", "BestFit", "WorstFit"}
      /\ in.ordering \in {"Fifo", "Ascending", "Descending"}
  BY InputAssumption DEF InputOK
<1>7. Len(in.slots) \in Nat \ {0} /\ DOMAIN in.slots = 1 .. Len(in.slots)
  BY <1>5, EmptySeq, LenProperties
<1> QED BY <1>3, <1>4, <1>5, <1>6, <1>7 DEF InputMeans

----------------------------------------------------------------------------
(* The demand of a set of jobs.                                            *)

(***************************************************************************)
(* Finitely many jobs ask for finitely many units.                         *)
(***************************************************************************)
LEMMA UnitsFinite ==
  ASSUME InputMeans, NEW S \in SUBSET Jobs, NEW d \in {1, 2}
  PROVE  IsFiniteSet(Units(S, d))
<1> DEFINE Of(j) == {j} \X (1 .. in.req[j][d])
           f == [j \in S |-> Of(j)]
           T == {Of(j) : j \in S}
<1>1. IsFiniteSet(S)
  <2>1. Len(in.req) \in Int /\ 1 \in Int
    BY DEF InputMeans
  <2>2. IsFiniteSet(1 .. Len(in.req))
    BY <2>1, FS_Interval
  <2> QED BY <2>2, FS_Subset DEF InputMeans
<1>2. f \in Surjection(S, T)
  BY DEF Surjection
<1>3. IsFiniteSet(T)
  <2> HIDE DEF f, T
  <2> QED BY <1>1, <1>2, FS_Surjection
<1>4. ASSUME NEW j \in S
      PROVE  IsFiniteSet(Of(j))
  <2>1. in.req[j][d] \in Int /\ 1 \in Int
    <3>1. in.req[j] \in Nat \X Nat
      BY DEF InputMeans, Capacity
    <3> QED BY <3>1
  <2>2. IsFiniteSet(1 .. in.req[j][d])
    BY <2>1, FS_Interval
  <2>3. IsFiniteSet({j})
    BY FS_Singleton
  <2> QED BY <2>2, <2>3, FS_Product
<1>5. \A t \in T : IsFiniteSet(t)
  <2> HIDE DEF Of
  <2> QED BY <1>4
<1>6. IsFiniteSet(UNION T)
  <2> HIDE DEF T
  <2> QED BY <1>3, <1>5, FS_UNION
<1> QED BY <1>6 DEF Units

(***************************************************************************)
(* A demand is a capacity.                                                 *)
(***************************************************************************)
LEMMA DemandType ==
  ASSUME InputMeans, NEW S \in SUBSET Jobs
  PROVE  Demand(S) \in Capacity
BY UnitsFinite, FS_CardinalityType DEF Demand, Capacity

(***************************************************************************)
(* No jobs ask for nothing.                                                *)
(***************************************************************************)
LEMMA DemandOfNone == Demand({}) = <<0, 0>>
<1>1. \A d : Units({}, d) = {}
  BY DEF Units
<1> QED BY <1>1, FS_EmptySet DEF Demand

(***************************************************************************)
(* One job asks for its requiredCapacity.                                  *)
(***************************************************************************)
LEMMA DemandOfOne ==
  ASSUME InputMeans, NEW j \in Jobs
  PROVE  Demand({j}) = in.req[j]
<1>1. ASSUME NEW d \in {1, 2}
      PROVE  Cardinality(Units({j}, d)) = in.req[j][d]
  <2> DEFINE n == in.req[j][d]
  <2>1. Units({j}, d) = {j} \X (1 .. n)
    BY DEF Units
  <2>2. n \in Nat
    <3>1. in.req[j] \in Nat \X Nat
      BY DEF InputMeans, Capacity
    <3> QED BY <3>1
  <2> HIDE DEF n
  <2>3. IsFiniteSet(1 .. n) /\ Cardinality(1 .. n) = n
    BY <2>2, FS_Interval
  <2>4. IsFiniteSet({j}) /\ Cardinality({j}) = 1
    BY FS_Singleton
  <2>5. Cardinality({j} \X (1 .. n)) = Cardinality({j}) * Cardinality(1 .. n)
    BY <2>3, <2>4, FS_Product
  <2>6. Cardinality({j} \X (1 .. n)) = n
    BY <2>2, <2>3, <2>4, <2>5
  <2> QED BY <2>1, <2>6 DEF n
<1>2. in.req[j] \in Nat \X Nat
  BY DEF InputMeans, Capacity
<1> QED BY <1>1, <1>2 DEF Demand

(***************************************************************************)
(* The demand of two sets without a common job is the sum.                 *)
(***************************************************************************)
LEMMA DemandAdds ==
  ASSUME InputMeans, NEW S \in SUBSET Jobs, NEW T \in SUBSET Jobs, S \cap T = {}
  PROVE  Demand(S \cup T) = Plus(Demand(S), Demand(T))
<1>1. ASSUME NEW d \in {1, 2}
      PROVE  Cardinality(Units(S \cup T, d))
                = Cardinality(Units(S, d)) + Cardinality(Units(T, d))
  <2> DEFINE U == Units(S, d)
             V == Units(T, d)
  <2>1. Units(S \cup T, d) = U \cup V /\ U \cap V = {}
    BY DEF Units
  <2>2. IsFiniteSet(U) /\ IsFiniteSet(V)
    BY UnitsFinite
  <2> HIDE DEF U, V
  <2>3. /\ Cardinality(U) \in Nat /\ Cardinality(V) \in Nat
        /\ Cardinality(U \cap V) = 0
    BY <2>1, <2>2, FS_CardinalityType, FS_EmptySet
  <2>4. Cardinality(U \cup V)
           = Cardinality(U) + Cardinality(V) - Cardinality(U \cap V)
    BY <2>2, FS_Union
  <2>5. Cardinality(U \cup V) = Cardinality(U) + Cardinality(V)
    BY <2>3, <2>4
  <2> QED BY <2>1, <2>5 DEF U, V
<1> QED BY <1>1 DEF Demand, Plus

----------------------------------------------------------------------------
(* The inductive invariant.                                                *)

Sorted(s) == \A k, l \in DOMAIN s : k < l => ~Less(s[l].idle, s[k].idle)

\* What a record of the allocator's container says of the VM i it stands for.
RecordOK(v, i) ==
    /\ v.total = in.vms[i].total
    /\ Fits(Demand(OnVm(i)), in.vms[i].idle)
    /\ v.idle = Minus(in.vms[i].idle, Demand(OnVm(i)))

(***************************************************************************)
(* The container has one record of each VM, whose idle capacity is what    *)
(* the jobs placed so far leave, in the order that BestFit and WorstFit    *)
(* search by.                                                              *)
(***************************************************************************)
VmsInv ==
    /\ \A k \in DOMAIN vms : vms[k].id \in DOMAIN in.vms
    /\ \A k \in DOMAIN vms, i \in DOMAIN in.vms :
          vms[k].id = i => RecordOK(vms[k], i)
    /\ \A k, l \in DOMAIN vms : vms[k].id = vms[l].id => k = l
    /\ \A i \in DOMAIN in.vms : \E k \in DOMAIN vms : vms[k].id = i
    /\ \A i \in DOMAIN in.vms : i \in updated <=> OnVm(i) # {}
    /\ in.strategy \in {"BestFit", "WorstFit"} => Sorted(vms)

(***************************************************************************)
(* Where the jobs are: still to be looked at, on a VM, set aside, or of    *)
(* those set aside in one slot.                                            *)
(***************************************************************************)
PlacedInv ==
    /\ phase \in {"allocating", "crashed"} => desired = << >>
    /\ in.strategy = "Simple" =>
          /\ DOMAIN jobToVm = {}
          /\ phase \notin {"selecting", "merging"}
          /\ phase = "done" => /\ DOMAIN desired = Jobs
                               /\ \A j \in Jobs : desired[j].jobs = {j}
    /\ in.strategy # "Simple" =>
          /\ DOMAIN jobToVm \cap unplaced = {}
          /\ phase = "allocating" =>
                /\ todo \cap (DOMAIN jobToVm \cup unplaced) = {}
                /\ todo \cup DOMAIN jobToVm \cup unplaced = Jobs
          /\ phase \in {"selecting", "merging", "done"} =>
                /\ DOMAIN jobToVm \cup unplaced = Jobs
                /\ todo \subseteq unplaced
                /\ \A j \in unplaced \ todo :
                      \E k \in DOMAIN desired : j \in desired[k].jobs
                /\ \A k \in DOMAIN desired : desired[k].jobs \subseteq unplaced \ todo
                /\ \A k, l \in DOMAIN desired :
                      k # l => desired[k].jobs \cap desired[l].jobs = {}
          /\ phase = "done" => todo = {}

Inv == TypeInv /\ VmsInv /\ PlacedInv /\ SlotsHoldTheirJobs /\ MergedFully

----------------------------------------------------------------------------
(* Capacities.                                                             *)

(***************************************************************************)
(* The operators of SlotCapacity return capacities.                        *)
(***************************************************************************)
LEMMA CapacityType ==
  ASSUME NEW a \in Capacity, NEW b \in Capacity
  PROVE  /\ Minus(a, b) \in Capacity
         /\ Plus(a, b) \in Capacity
         /\ Twice(a) \in Capacity
BY DEF Capacity, Minus, Plus, Twice

(***************************************************************************)
(* What fits beside a demand fits with it, and the subtractions do not     *)
(* saturate.                                                               *)
(***************************************************************************)
LEMMA TakeOne ==
  ASSUME NEW c \in Capacity, NEW d \in Capacity, NEW r \in Capacity,
         Fits(d, c), Fits(r, Minus(c, d))
  PROVE  /\ Fits(Plus(d, r), c)
         /\ Minus(Minus(c, d), r) = Minus(c, Plus(d, r))
BY DEF Capacity, Fits, Minus, Plus

(***************************************************************************)
(* Two slots of a size hold together what one of twice the size holds.     *)
(***************************************************************************)
LEMMA JoinTwo ==
  ASSUME NEW c \in Capacity, NEW d \in Capacity, NEW e \in Capacity,
         Fits(d, c), Fits(e, c)
  PROVE  /\ Fits(Plus(d, e), Twice(c))
         /\ Plus(Minus(c, d), Minus(c, e)) = Minus(Twice(c), Plus(d, e))
<1>1. \A x, y, z \in Nat : y <= x /\ z <= x =>
         /\ y + z <= 2 * x
         /\ (IF x > y THEN x - y ELSE 0) + (IF x > z THEN x - z ELSE 0)
               = IF 2 * x > y + z THEN 2 * x - (y + z) ELSE 0
  OBVIOUS
<1> QED BY <1>1 DEF Capacity, Fits, Minus, Plus, Twice

(***************************************************************************)
(* A VM that is entirely idle after its jobs were placed has jobs that ask *)
(* for nothing.                                                            *)
(***************************************************************************)
LEMMA NothingTaken ==
  ASSUME NEW t \in Capacity, NEW c \in Capacity, NEW d \in Capacity,
         Fits(c, t), Fits(d, c), t = Minus(c, d)
  PROVE  d = <<0, 0>>
BY DEF Capacity, Fits, Minus

(***************************************************************************)
(* operator<=> is a total order.                                           *)
(***************************************************************************)
LEMMA LessIsTotal ==
  /\ \A a, b, c \in Capacity : ~Less(b, a) /\ ~Less(c, b) => ~Less(c, a)
  /\ \A a, b \in Capacity : ~Less(a, b) /\ ~Less(b, a) => a = b
  /\ \A a, b \in Capacity : Less(a, b) => ~Less(b, a)
  /\ \A a, b \in Capacity : ~Less(b, a) /\ (Fits(a, b) \/ Fits(b, a)) => Fits(a, b)
BY DEF Capacity, Less, Fits

----------------------------------------------------------------------------
(* JobAllocator.                                                           *)

Used(i, r) == [vms[i] EXCEPT !.idle = Minus(@, r)]

(***************************************************************************)
(* UseVm rearranges the container: every record is there once, that of the *)
(* VM in use with less idle capacity, and the order is kept.               *)
(***************************************************************************)
LEMMA Rearranged ==
  ASSUME TypeInv, InputMeans, VmsInv, NEW i \in DOMAIN vms, NEW r \in Capacity,
         NEW s \in UseVm(i, r)
  PROVE  /\ s \in Seq(VmRecord)
         /\ \E f \in [DOMAIN s -> DOMAIN vms] :
               /\ \A k, l \in DOMAIN s : f[k] = f[l] => k = l
               /\ \A k \in DOMAIN vms : \E l \in DOMAIN s : f[l] = k
               /\ \A k \in DOMAIN s :
                     s[k] = IF f[k] = i THEN Used(i, r) ELSE vms[f[k]]
         /\ in.strategy \in {"BestFit", "WorstFit"} => Sorted(s)
<1> DEFINE n == Len(vms)
           v == Used(i, r)
<1>1. /\ vms \in Seq(VmRecord) /\ n \in Nat /\ DOMAIN vms = 1 .. n /\ i \in 1 .. n
      /\ \A k \in 1 .. n : vms[k] \in VmRecord
  BY DEF TypeInv
<1>2. v \in VmRecord /\ v.id = vms[i].id
  BY <1>1, CapacityType DEF VmRecord, Used
<1>3. CASE in.strategy = "FirstFit"
  <2>1. s = [vms EXCEPT ![i] = v]
    BY <1>3 DEF UseVm, Used
  <2>2. /\ s \in Seq(VmRecord) /\ Len(s) = n /\ DOMAIN s = 1 .. n
        /\ \A k \in 1 .. n : s[k] = IF k = i THEN v ELSE vms[k]
    BY <1>1, <1>2, <2>1, ExceptSeq
  <2> DEFINE f == [k \in 1 .. n |-> k]
  <2>3. /\ f \in [DOMAIN s -> DOMAIN vms]
        /\ \A k, l \in DOMAIN s : f[k] = f[l] => k = l
        /\ \A k \in DOMAIN vms : \E l \in DOMAIN s : f[l] = k
        /\ \A k \in DOMAIN s : s[k] = IF f[k] = i THEN v ELSE vms[f[k]]
    BY <1>1, <2>2
  <2> QED BY <1>3, <2>2, <2>3
<1>4. CASE in.strategy # "FirstFit"
  <2> DEFINE t == RemoveAt(vms, i)
             source(m) == IF m < i THEN m ELSE m + 1
  <2>1. PICK q \in 1 .. Len(t) + 1 :
           /\ q > 1 => ~Less(v.idle, t[q - 1].idle)
           /\ q <= Len(t) => Less(v.idle, t[q].idle)
           /\ s = InsertAt(t, q, v)
    BY <1>4 DEF UseVm, Used, Insert, LowerBounds
  <2>2. /\ t \in Seq(VmRecord) /\ Len(t) = n - 1
        /\ \A k \in 1 .. n - 1 : t[k] = vms[source(k)]
    BY <1>1, RemoveAtProperties
  <2> HIDE DEF t, v, n
  <2>5. /\ s \in Seq(VmRecord) /\ Len(s) = n
        /\ \A k \in 1 .. n :
              s[k] = IF k < q THEN t[k] ELSE IF k = q THEN v ELSE t[k - 1]
    <3>1. /\ s \in Seq(VmRecord) /\ Len(s) = Len(t) + 1
          /\ \A k \in 1 .. Len(t) + 1 :
              s[k] = IF k < q THEN t[k] ELSE IF k = q THEN v ELSE t[k - 1]
      <4>1. t \in Seq(VmRecord) /\ v \in VmRecord /\ s = InsertAt(t, q, v)
        BY <1>2, <2>1, <2>2
      <4>2. /\ InsertAt(t, q, v) \in Seq(VmRecord)
            /\ Len(InsertAt(t, q, v)) = Len(t) + 1
            /\ \A k \in 1 .. Len(t) + 1 :
                  InsertAt(t, q, v)[k] =
                     IF k < q THEN t[k] ELSE IF k = q THEN v ELSE t[k - 1]
        <5>1. t \in Seq(VmRecord) /\ v \in VmRecord
          BY <1>2, <2>2
        <5>2. \A S : \A x \in Seq(S), e \in S : \A p \in 1 .. Len(x) + 1 :
                 /\ InsertAt(x, p, e) \in Seq(S)
                 /\ Len(InsertAt(x, p, e)) = Len(x) + 1
                 /\ \A k \in 1 .. Len(x) + 1 :
                       InsertAt(x, p, e)[k] =
                          IF k < p THEN x[k] ELSE IF k = p THEN e ELSE x[k - 1]
          BY InsertAtProperties
        <5> HIDE DEF InsertAt
        <5> QED BY <5>1, <5>2
      <4> QED BY <4>1, <4>2
    <3>2. Len(t) + 1 = n
      BY <1>1, <2>2
    <3> QED BY <3>1, <3>2
  <2>6. DOMAIN s = 1 .. n
    BY <2>5
  <2> DEFINE f == [k \in 1 .. n |-> IF k < q THEN source(k)
                                    ELSE IF k = q THEN i ELSE source(k - 1)]
  <2>7. q \in 1 .. n
    BY <1>1, <2>1, <2>2
  <2>8. /\ f \in [1 .. n -> 1 .. n]
        /\ \A k, l \in 1 .. n : f[k] = f[l] => k = l
    BY <1>1, <2>7
  <2>9. ASSUME NEW k \in 1 .. n
        PROVE  \E l \in 1 .. n : f[l] = k
    <3> DEFINE m == IF k < i THEN k ELSE k - 1
    <3>1. CASE k = i
      BY <2>7, <3>1
    <3>2. CASE k # i /\ m < q
      <4>1. m \in 1 .. n /\ f[m] = k
        BY <1>1, <2>7, <3>2
      <4> QED BY <4>1
    <3>3. CASE k # i /\ m >= q
      <4>1. m + 1 \in 1 .. n /\ f[m + 1] = k
        BY <1>1, <2>7, <3>3
      <4> QED BY <4>1
    <3> QED BY <1>1, <2>7, <3>1, <3>2, <3>3
  <2>10. ASSUME NEW k \in 1 .. n
         PROVE  s[k] = IF f[k] = i THEN v ELSE vms[f[k]]
    <3>1. CASE k < q
      BY <1>1, <2>2, <2>5, <2>7, <3>1
    <3>2. CASE k = q
      BY <1>1, <2>5, <3>2
    <3>3. CASE k > q
      <4>1. k - 1 \in 1 .. n - 1 /\ f[k] = source(k - 1)
        <5>1. k - 1 \in 1 .. n - 1
          BY <1>1, <2>7, <3>3
        <5>2. ~(k < q) /\ k # q
          BY <2>7, <3>3
        <5> QED BY <5>1, <5>2
      <4>3. s[k] = t[k - 1]
        BY <1>1, <2>5, <2>7, <3>3
      <4>2. source(k - 1) # i
        BY <1>1, <4>1
      <4> QED BY <2>2, <4>1, <4>2, <4>3
    <3> QED BY <2>7, <3>1, <3>2, <3>3
  <2>11. ASSUME in.strategy \in {"BestFit", "WorstFit"}
         PROVE  Sorted(s)
    <3>1. ASSUME NEW k \in 1 .. n - 1, NEW l \in 1 .. n - 1, k < l
          PROVE  ~Less(t[l].idle, t[k].idle)
      <4>1. Sorted(vms)
        BY <2>11 DEF VmsInv
      <4>2. /\ source(k) \in 1 .. n /\ source(l) \in 1 .. n
            /\ source(k) < source(l)
        BY <1>1, <3>1
      <4> QED BY <1>1, <2>2, <4>1, <4>2 DEF Sorted
    <3>2. /\ v.idle \in Capacity
          /\ \A k \in 1 .. n - 1 : t[k].idle \in Capacity
      <4>1. \A k \in 1 .. n - 1 : t[k] \in VmRecord
        BY <1>1, <2>2, ElementOfSeq
      <4> QED BY <1>2, <4>1 DEF VmRecord
    <3>3. ASSUME NEW k \in 1 .. n - 1, k < q
          PROVE  ~Less(v.idle, t[k].idle)
      <4>1. CASE k = q - 1
        BY <1>1, <2>1, <2>7, <3>3, <4>1
      <4>2. CASE k < q - 1
        <5>1. q - 1 \in 1 .. n - 1 /\ k < q - 1
          BY <1>1, <2>7, <3>3, <4>2
        <5>2. ~Less(v.idle, t[q - 1].idle) /\ ~Less(t[q - 1].idle, t[k].idle)
          <6>1. q > 1
            BY <2>7, <5>1
          <6> QED BY <2>1, <3>1, <5>1, <6>1
        <5> QED BY <3>2, <5>1, <5>2, LessIsTotal
      <4> QED BY <1>1, <2>7, <3>3, <4>1, <4>2
    <3>4. ASSUME NEW k \in 1 .. n - 1, k >= q
          PROVE  ~Less(t[k].idle, v.idle)
      <4>1. q \in 1 .. n - 1 /\ Less(v.idle, t[q].idle)
        BY <1>1, <2>2, <2>1, <2>7, <3>4
      <4>2. ~Less(t[q].idle, v.idle)
        BY <3>2, <4>1, LessIsTotal
      <4>3. CASE k = q
        BY <4>2, <4>3
      <4>4. CASE k > q
        <5>1. ~Less(t[k].idle, t[q].idle)
          BY <3>1, <4>1, <4>4
        <5> QED BY <3>2, <4>1, <4>2, <5>1, LessIsTotal
      <4> QED BY <1>1, <2>7, <3>4, <4>3, <4>4
    <3>5. ASSUME NEW k \in 1 .. n, NEW l \in 1 .. n, k < l
          PROVE  ~Less(s[l].idle, s[k].idle)
      <4>1. CASE l < q
        <5>1. k \in 1 .. n - 1 /\ l \in 1 .. n - 1 /\ k < q
          BY <1>1, <2>7, <3>5, <4>1
        <5>2. s[l] = t[l] /\ s[k] = t[k]
          BY <2>5, <3>5, <4>1, <5>1
        <5> QED BY <3>1, <3>5, <5>1, <5>2
      <4>2. CASE l = q
        <5>1. k \in 1 .. n - 1 /\ k < q
          BY <1>1, <2>7, <3>5, <4>2
        <5>2. s[l] = v /\ s[k] = t[k]
          BY <2>5, <3>5, <4>2, <5>1
        <5> QED BY <3>3, <5>1, <5>2
      <4>3. CASE l > q /\ k = q
        <5>1. l - 1 \in 1 .. n - 1 /\ l - 1 >= q
          BY <1>1, <2>7, <3>5, <4>3
        <5>2. s[l] = t[l - 1] /\ s[k] = v
          BY <1>1, <2>5, <2>7, <3>5, <4>3
        <5> QED BY <3>4, <5>1, <5>2
      <4>4. CASE l > q /\ k < q
        <5>1. /\ s[l] = t[l - 1] /\ s[k] = t[k]
              /\ l - 1 \in 1 .. n - 1 /\ k \in 1 .. n - 1
              /\ l - 1 = k \/ k < l - 1
          BY <1>1, <2>5, <2>7, <3>5, <4>4
        <5>2. ~Less(t[k].idle, t[k].idle)
          BY <3>2, <5>1, LessIsTotal
        <5> QED BY <3>1, <5>1, <5>2
      <4>5. CASE l > q /\ k > q
        <5>1. /\ s[l] = t[l - 1] /\ s[k] = t[k - 1]
              /\ l - 1 \in 1 .. n - 1 /\ k - 1 \in 1 .. n - 1
              /\ k - 1 < l - 1
          BY <1>1, <2>5, <2>7, <3>5, <4>5
        <5> QED BY <3>1, <5>1
      <4> QED BY <2>7, <4>1, <4>2, <4>3, <4>4, <4>5
    <3> QED BY <2>6, <3>5 DEF Sorted
  <2>12. \A k \in DOMAIN s : s[k] = IF f[k] = i THEN v ELSE vms[f[k]]
    BY <2>6, <2>10
  <2>13. \A k \in DOMAIN vms : \E l \in DOMAIN s : f[l] = k
    BY <1>1, <2>6, <2>9
  <2> HIDE DEF f
  <2>14. f \in [DOMAIN s -> DOMAIN vms] /\ (\A k, l \in DOMAIN s : f[k] = f[l] => k = l)
    BY <1>1, <2>6, <2>8
  <2>15. \E g \in [DOMAIN s -> DOMAIN vms] :
            /\ \A k, l \in DOMAIN s : g[k] = g[l] => k = l
            /\ \A k \in DOMAIN vms : \E l \in DOMAIN s : g[l] = k
            /\ \A k \in DOMAIN s : s[k] = IF g[k] = i THEN v ELSE vms[g[k]]
    BY <2>12, <2>13, <2>14
  <2> QED BY <2>5, <2>11, <2>15 DEF v
<1> QED BY <1>3, <1>4

(***************************************************************************)
(* Every strategy returns the position of a VM that the job fits, or none. *)
(* FirstFit returns none only if the job fits no VM.                       *)
(***************************************************************************)
LEMMA AllocatedVmFits ==
  ASSUME TypeInv, InputMeans, in.strategy # "Simple", NEW r \in Capacity,
         NEW i \in Allocate(r)
  PROVE  /\ i # 0 => i \in DOMAIN vms /\ Fits(r, vms[i].idle)
         /\ i = 0 /\ in.strategy = "FirstFit" =>
               \A k \in DOMAIN vms : ~Fits(r, vms[k].idle)
<1>1. vms \in Seq(VmRecord) /\ Len(vms) \in Nat /\ DOMAIN vms = 1 .. Len(vms)
  BY DEF TypeInv
<1>2. CASE in.strategy = "FirstFit"
  <2> DEFINE I == {k \in 1 .. Len(vms) : Fits(r, vms[k].idle)}
  <2>1. i = IF I # {} THEN Min(I) ELSE 0
    BY <1>2 DEF Allocate, FirstFitVms, SelectInSeq
  <2>2. CASE I = {}
    BY <1>1, <2>1, <2>2
  <2>3. CASE I # {}
    <3>1. \E n \in I : \A m \in I : n <= m
      <4>1. I \in SUBSET Nat
        BY <1>1
      <4> HIDE DEF I
      <4> QED BY <2>3, <4>1, LeastNat
    <3>2. Min(I) \in I
      <4> HIDE DEF I
      <4> QED BY <3>1 DEF Min
    <3>3. i \in I /\ i # 0
      BY <1>1, <2>1, <2>3, <3>2
    <3> QED BY <1>1, <3>3
  <2> QED BY <2>2, <2>3
<1>3. CASE in.strategy = "WorstFit"
  <2>1. i = IF vms # << >> /\ Fits(r, Last(vms).idle) THEN Len(vms) ELSE 0
    BY <1>3 DEF Allocate, WorstFitVms
  <2>2. vms # << >> => Len(vms) \in 1 .. Len(vms)
    BY <1>1, EmptySeq
  <2> QED BY <1>1, <1>3, <2>1, <2>2 DEF Last
<1>4. CASE in.strategy = "BestFit"
  <2>1. PICK k \in 1 .. Len(vms) + 1 :
           i = IF k <= Len(vms) /\ Fits(r, vms[k].idle) THEN k ELSE 0
    BY <1>4 DEF Allocate, BestFitVms, LowerBounds
  <2> QED BY <1>1, <1>4, <2>1
<1>5. CASE in.strategy = "NextFit"
  BY <1>5 DEF Allocate
<1> QED BY <1>2, <1>3, <1>4, <1>5 DEF InputMeans

(***************************************************************************)
(* A job that is put on a VM takes from its idle capacity what it asks     *)
(* for, and from no other: the books balance after the step.               *)
(***************************************************************************)
LEMMA VmsPlaced ==
  ASSUME TypeInv, InputMeans, VmsInv, UNCHANGED in, NEW j \in Jobs \ DOMAIN jobToVm,
         NEW i \in DOMAIN vms, Fits(in.req[j], vms[i].idle),
         vms' \in UseVm(i, in.req[j]),
         updated' = updated \cup {vms[i].id},
         jobToVm' = [k \in DOMAIN jobToVm \cup {j} |->
                        IF k = j THEN vms[i].id ELSE jobToVm[k]]
  PROVE  VmsInv' /\ vms' \in Seq(VmRecord)
<1> DEFINE r == in.req[j]
           s == vms'
<1>1. r \in Capacity
  BY DEF InputMeans
<1>2. PICK f \in [DOMAIN s -> DOMAIN vms] :
         /\ s \in Seq(VmRecord)
         /\ \A k, l \in DOMAIN s : f[k] = f[l] => k = l
         /\ \A k \in DOMAIN vms : \E l \in DOMAIN s : f[l] = k
         /\ \A k \in DOMAIN s : s[k] = IF f[k] = i THEN Used(i, r) ELSE vms[f[k]]
         /\ in.strategy \in {"BestFit", "WorstFit"} => Sorted(s)
  BY <1>1, Rearranged
<1>3. \A k \in DOMAIN vms : vms[k] \in VmRecord
  BY DEF TypeInv
<1>4. /\ Used(i, r).id = vms[i].id /\ Used(i, r).total = vms[i].total
      /\ Used(i, r).idle = Minus(vms[i].idle, r)
  BY <1>3 DEF Used, VmRecord
<1>5. \A k \in DOMAIN s : s[k].id = vms[f[k]].id /\ s[k].total = vms[f[k]].total
  BY <1>2, <1>4
<1>6. ASSUME NEW d
      PROVE  OnVm(d)' = IF d = vms[i].id THEN OnVm(d) \cup {j} ELSE OnVm(d)
  BY DEF OnVm
<1>7. ASSUME NEW d
      PROVE  OnVm(d) \in SUBSET Jobs /\ j \notin OnVm(d)
  BY DEF OnVm, TypeInv
<1>8. ASSUME NEW k \in DOMAIN s, NEW d \in DOMAIN in.vms, s[k].id = d
      PROVE  RecordOK(vms[k], d)'
  <2> DEFINE v == vms[f[k]]
             D == Demand(OnVm(d))
             c == in.vms[d].idle
  <2>1. f[k] \in DOMAIN vms /\ v.id = d /\ RecordOK(v, d)
    BY <1>2, <1>5, <1>8 DEF VmsInv
  <2>2. D \in Capacity
    BY <1>7, DemandType
  <2>3. c \in Capacity
    <3>1. in.vms[d] \in VmSize
      BY DEF InputMeans
    <3> QED BY <3>1 DEF VmSize
  <2>4. CASE f[k] = i
    <3>1. Demand(OnVm(d))' = Demand(OnVm(d) \cup {j})
      BY <1>6, <2>1, <2>4 DEF Demand, Units
    <3>2. Demand(OnVm(d) \cup {j}) = Plus(D, r)
      <4>1. Demand({j}) = r
        BY DemandOfOne
      <4>2. OnVm(d) \in SUBSET Jobs /\ {j} \in SUBSET Jobs /\ OnVm(d) \cap {j} = {}
        BY <1>7
      <4> QED BY <4>1, <4>2, DemandAdds
    <3>3. Fits(r, Minus(c, D)) /\ Fits(D, c)
      BY <2>1, <2>4 DEF RecordOK
    <3>4. Fits(Plus(D, r), c) /\ Minus(Minus(c, D), r) = Minus(c, Plus(D, r))
      BY <1>1, <2>2, <2>3, <3>3, TakeOne
    <3>5. s[k].total = v.total /\ s[k].idle = Minus(v.idle, r)
      BY <1>2, <1>4, <2>4
    <3>6. v.total = in.vms[d].total /\ v.idle = Minus(c, D)
      BY <2>1 DEF RecordOK
    <3> QED BY <3>1, <3>2, <3>4, <3>5, <3>6 DEF RecordOK
  <2>5. CASE f[k] # i
    <3>1. d # vms[i].id
      BY <2>1, <2>5 DEF VmsInv
    <3>2. Demand(OnVm(d))' = D
      BY <1>6, <3>1 DEF Demand, Units
    <3>3. s[k] = v
      BY <1>2, <2>5
    <3> QED BY <2>1, <3>2, <3>3 DEF RecordOK
  <2> QED BY <2>4, <2>5
<1>9. \A k, l \in DOMAIN s : s[k].id = s[l].id => k = l
  <2>1. ASSUME NEW k \in DOMAIN s, NEW l \in DOMAIN s, s[k].id = s[l].id
        PROVE  f[k] = f[l]
    BY <1>2, <1>5, <2>1 DEF VmsInv
  <2> QED BY <1>2, <2>1
<1>10. \A d \in DOMAIN in.vms : \E k \in DOMAIN s : s[k].id = d
  <2> TAKE d \in DOMAIN in.vms
  <2>1. PICK k \in DOMAIN vms : vms[k].id = d
    BY DEF VmsInv
  <2>2. PICK l \in DOMAIN s : f[l] = k
    BY <1>2
  <2> QED BY <1>5, <2>1, <2>2
<1>11. \A d \in DOMAIN in.vms : d \in updated' <=> OnVm(d)' # {}
  BY <1>6 DEF VmsInv
<1>12. \A k \in DOMAIN s : s[k].id \in DOMAIN in.vms
  BY <1>2, <1>5 DEF VmsInv
<1> QED BY <1>2, <1>8, <1>9, <1>10, <1>11, <1>12 DEF VmsInv, Sorted

----------------------------------------------------------------------------
(* The start.                                                              *)

(***************************************************************************)
(* The constructors fill the container with one record of each VM, sorted  *)
(* where the strategy wants it.                                            *)
(***************************************************************************)
LEMMA ContainerFilled ==
  ASSUME InputMeans, vms \in Containers(in.strategy, in.vms)
  PROVE  /\ vms \in Seq(VmRecord)
         /\ \A k \in DOMAIN vms :
               /\ vms[k].id \in DOMAIN in.vms
               /\ vms[k].total = in.vms[vms[k].id].total
               /\ vms[k].idle = in.vms[vms[k].id].idle
         /\ \A k, l \in DOMAIN vms : vms[k].id = vms[l].id => k = l
         /\ \A i \in DOMAIN in.vms : \E k \in DOMAIN vms : vms[k].id = i
         /\ in.strategy \in {"BestFit", "WorstFit"} => Sorted(vms)
<1> DEFINE n == Len(in.vms)
           Record(i) == [id |-> i, total |-> in.vms[i].total, idle |-> in.vms[i].idle]
           Ordered(p) == \A i, k \in 1 .. n :
                            i < k => ~Less(in.vms[p[k]].idle, in.vms[p[i]].idle)
<1>1. n \in Nat /\ DOMAIN in.vms = 1 .. n
  BY DEF InputMeans
<1>2. ASSUME NEW i \in 1 .. n
      PROVE  Record(i) \in VmRecord
  <2>1. in.vms[i] \in VmSize
    BY <1>1 DEF InputMeans
  <2> QED BY <1>1, <2>1 DEF VmSize, VmRecord
<1>3. ASSUME NEW p \in [1 .. n -> 1 .. n],
             \A i, k \in 1 .. n : p[i] = p[k] => i = k,
             \A i \in 1 .. n : \E k \in 1 .. n : p[k] = i,
             vms = [k \in 1 .. n |-> Record(p[k])],
             in.strategy \in {"BestFit", "WorstFit"} => Ordered(p)
      PROVE  /\ vms \in Seq(VmRecord)
             /\ \A k \in DOMAIN vms :
                   /\ vms[k].id \in DOMAIN in.vms
                   /\ vms[k].total = in.vms[vms[k].id].total
                   /\ vms[k].idle = in.vms[vms[k].id].idle
             /\ \A k, l \in DOMAIN vms : vms[k].id = vms[l].id => k = l
             /\ \A i \in DOMAIN in.vms : \E k \in DOMAIN vms : vms[k].id = i
             /\ in.strategy \in {"BestFit", "WorstFit"} => Sorted(vms)
  <2>1. vms \in [1 .. n -> VmRecord] /\ DOMAIN vms = 1 .. n
    BY <1>2, <1>3
  <2>2. vms \in Seq(VmRecord)
    BY <1>1, <2>1
  <2>3. \A k \in 1 .. n : /\ vms[k].id = p[k]
                          /\ vms[k].total = in.vms[p[k]].total
                          /\ vms[k].idle = in.vms[p[k]].idle
    BY <1>3
  <2>4. in.strategy \in {"BestFit", "WorstFit"} => Sorted(vms)
    BY <1>3, <2>1, <2>3 DEF Sorted
  <2>5. \A k \in DOMAIN vms :
           /\ vms[k].id \in DOMAIN in.vms
           /\ vms[k].total = in.vms[vms[k].id].total
           /\ vms[k].idle = in.vms[vms[k].id].idle
    BY <1>1, <1>3, <2>1, <2>3
  <2>6. ASSUME NEW k \in DOMAIN vms, NEW l \in DOMAIN vms, vms[k].id = vms[l].id
        PROVE  k = l
    <3>1. k \in 1 .. n /\ l \in 1 .. n /\ p[k] = p[l]
      BY <2>1, <2>3, <2>6
    <3>2. \A i, m \in 1 .. n : p[i] = p[m] => i = m
      BY <1>3
    <3> HIDE DEF n
    <3> QED BY <3>1, <3>2
  <2>7. ASSUME NEW i \in DOMAIN in.vms
        PROVE  \E k \in DOMAIN vms : vms[k].id = i
    <3>1. PICK k \in 1 .. n : p[k] = i
      BY <1>1, <1>3
    <3> QED BY <2>1, <2>3, <3>1
  <2> QED BY <2>2, <2>4, <2>5, <2>6, <2>7
<1>4. CASE in.strategy \in {"BestFit", "WorstFit"}
  <2>1. PICK p \in Bijection(DOMAIN in.vms, DOMAIN in.vms) :
           /\ vms = [k \in DOMAIN in.vms |-> Record(p[k])]
           /\ \A i, k \in DOMAIN in.vms :
                 i < k => ~Less(in.vms[p[k]].idle, in.vms[p[i]].idle)
    BY <1>4 DEF Containers
  <2>2. /\ p \in [1 .. n -> 1 .. n]
        /\ \A i, k \in 1 .. n : p[i] = p[k] => i = k
        /\ \A i \in 1 .. n : \E k \in 1 .. n : p[k] = i
    BY <1>1, <2>1 DEF Bijection, Injection, Surjection, IsInjective
  <2>3. vms = [k \in 1 .. n |-> Record(p[k])] /\ Ordered(p)
    BY <1>1, <2>1
  <2> HIDE DEF Record, Ordered, n
  <2> QED BY <1>3, <2>2, <2>3
<1>5. CASE in.strategy \notin {"BestFit", "WorstFit"}
  <2> DEFINE p == [k \in 1 .. n |-> k]
  <2>1. vms = [k \in 1 .. n |-> Record(p[k])]
    BY <1>1, <1>5 DEF Containers
  <2>2. /\ p \in [1 .. n -> 1 .. n]
        /\ \A i, k \in 1 .. n : p[i] = p[k] => i = k
        /\ \A i \in 1 .. n : \E k \in 1 .. n : p[k] = i
    OBVIOUS
  <2> HIDE DEF Record, Ordered, n, p
  <2> QED BY <1>3, <1>5, <2>1, <2>2
<1> QED BY <1>4, <1>5

(***************************************************************************)
(* The invariant holds before the first job is looked at.                  *)
(***************************************************************************)
LEMMA InvAtStart == Init => Inv
<1> SUFFICES ASSUME Init PROVE Inv
  OBVIOUS
<1>1. InputOK
  BY DEF Init, InputOK
<1>2. InputMeans
  BY <1>1, InputFacts
<1>3. /\ vms \in Seq(VmRecord)
      /\ \A k \in DOMAIN vms :
            /\ vms[k].id \in DOMAIN in.vms
            /\ vms[k].total = in.vms[vms[k].id].total
            /\ vms[k].idle = in.vms[vms[k].id].idle
      /\ \A k, l \in DOMAIN vms : vms[k].id = vms[l].id => k = l
      /\ \A i \in DOMAIN in.vms : \E k \in DOMAIN vms : vms[k].id = i
      /\ in.strategy \in {"BestFit", "WorstFit"} => Sorted(vms)
  BY <1>2, ContainerFilled DEF Init
<1>4. DOMAIN jobToVm = {} /\ desired = << >> /\ DOMAIN desired = {}
  BY DEF Init
<1>5. TypeInv
  <2>1. jobToVm \in [DOMAIN jobToVm -> DOMAIN in.vms]
    BY DEF Init
  <2>2. desired \in Seq(SlotRecord) /\ startSlot \in Capacity
    BY EmptySeq DEF Init, NoSlot, Capacity
  <2> QED BY <1>1, <1>3, <1>4, <2>1, <2>2 DEF TypeInv, Init
<1>6. VmsInv
  <2>1. \A i : OnVm(i) = {}
    BY <1>4 DEF OnVm
  <2>2. ASSUME NEW i \in DOMAIN in.vms
        PROVE  in.vms[i].idle \in Capacity
    <3>1. in.vms[i] \in VmSize
      BY <1>2 DEF InputMeans
    <3> QED BY <3>1 DEF VmSize
  <2>3. \A c \in Capacity : Fits(<<0, 0>>, c) /\ Minus(c, <<0, 0>>) = c
    BY DEF Fits, Minus, Capacity
  <2>4. ASSUME NEW k \in DOMAIN vms, NEW i \in DOMAIN in.vms, vms[k].id = i
        PROVE  RecordOK(vms[k], i)
    <3>1. Demand(OnVm(i)) = <<0, 0>>
      BY <2>1, DemandOfNone
    <3>2. vms[k].total = in.vms[i].total /\ vms[k].idle = in.vms[i].idle
      BY <1>3, <2>4
    <3> QED BY <2>2, <2>3, <3>1, <3>2 DEF RecordOK
  <2>5. updated = {}
    BY DEF Init
  <2> QED BY <1>3, <2>1, <2>4, <2>5 DEF VmsInv
<1>7. PlacedInv
  BY <1>4 DEF PlacedInv, Init
<1>8. SlotsHoldTheirJobs /\ MergedFully
  BY <1>4 DEF SlotsHoldTheirJobs, MergedFully
<1> QED BY <1>5, <1>6, <1>7, <1>8 DEF Inv

----------------------------------------------------------------------------
(* The steps.                                                              *)

(***************************************************************************)
(* Steps that leave the allocator alone keep its books.                    *)
(***************************************************************************)
LEMMA VmsUnchanged ==
  ASSUME VmsInv, UNCHANGED <<in, vms, updated, jobToVm>>
  PROVE  VmsInv'
BY DEF VmsInv, RecordOK, OnVm, Demand, Units, Sorted

(***************************************************************************)
(* Steps that leave the new slots alone keep what they hold.               *)
(***************************************************************************)
LEMMA SlotsUnchanged ==
  ASSUME SlotsHoldTheirJobs, UNCHANGED <<in, desired>>
  PROVE  SlotsHoldTheirJobs'
BY DEF SlotsHoldTheirJobs, Offered, Demand, Units

(***************************************************************************)
(* No slots: nothing to hold and nothing to merge.                         *)
(***************************************************************************)
LEMMA NoSlots ==
  ASSUME desired' = << >>
  PROVE  SlotsHoldTheirJobs' /\ MergedFully'
BY DEF SlotsHoldTheirJobs, MergedFully

(***************************************************************************)
(* JobAllocator::allocate and what ComplexVmAssigner does with its answer. *)
(***************************************************************************)
LEMMA AllocateJobKeeps ==
  ASSUME Inv, InputMeans, NEW j \in Jobs, AllocateJob(j)
  PROVE  Inv'
<1> USE DEF Inv
<1>1. /\ phase = "allocating" /\ phase' = phase /\ in' = in /\ in.strategy # "Simple"
      /\ desired' = desired /\ desired = << >> /\ startSlot' = startSlot
      /\ todo' = todo \ {j} /\ j \in todo
  BY DEF AllocateJob, IsNext, IsSmallest, IsLargest, PlacedInv, InputMeans
<1>2. j \notin DOMAIN jobToVm \cup unplaced
  BY <1>1 DEF PlacedInv
<1>3. PICK i \in Allocate(in.req[j]) :
         \/ /\ i # 0
            /\ vms' \in UseVm(i, in.req[j])
            /\ updated' = updated \cup {vms[i].id}
            /\ jobToVm' = [k \in DOMAIN jobToVm \cup {j} |->
                              IF k = j THEN vms[i].id ELSE jobToVm[k]]
            /\ UNCHANGED unplaced
         \/ /\ i = 0
            /\ unplaced' = unplaced \cup {j}
            /\ UNCHANGED <<vms, updated, jobToVm>>
  BY DEF AllocateJob
<1>4. SlotsHoldTheirJobs' /\ MergedFully'
  BY <1>1, NoSlots
<1>5. InputOK' /\ Jobs' = Jobs /\ SlotRecord' = SlotRecord
  BY <1>1 DEF InputOK, Jobs, SlotRecord, TypeInv
<1>6. CASE i # 0
  <2>1. in.req[j] \in Capacity
    BY DEF InputMeans
  <2>2. i \in DOMAIN vms /\ Fits(in.req[j], vms[i].idle)
    BY <1>1, <1>6, <2>1, AllocatedVmFits
  <2>3. VmsInv' /\ vms' \in Seq(VmRecord)
    BY <1>1, <1>2, <1>3, <1>6, <2>2, VmsPlaced
  <2>4. vms[i].id \in DOMAIN in.vms
    BY <2>2 DEF VmsInv
  <2>5. /\ DOMAIN jobToVm' = DOMAIN jobToVm \cup {j}
        /\ jobToVm' \in [DOMAIN jobToVm' -> DOMAIN in.vms]
    BY <1>3, <1>6, <2>4 DEF TypeInv
  <2>6. TypeInv'
    BY <1>1, <1>3, <1>5, <1>6, <2>3, <2>5 DEF TypeInv
  <2>7. PlacedInv'
    BY <1>1, <1>2, <1>3, <1>5, <1>6, <2>5 DEF PlacedInv
  <2> QED BY <1>4, <2>3, <2>6, <2>7
<1>7. CASE i = 0
  <2>1. VmsInv'
    BY <1>1, <1>3, <1>7, VmsUnchanged
  <2>2. TypeInv'
    BY <1>1, <1>3, <1>5, <1>7 DEF TypeInv
  <2>3. PlacedInv'
    BY <1>1, <1>2, <1>3, <1>5, <1>7 DEF PlacedInv
  <2> QED BY <1>4, <2>1, <2>2, <2>3
<1> QED BY <1>6, <1>7

(***************************************************************************)
(* The steps between the loops, the end, and the crash of NextFit.         *)
(***************************************************************************)
LEMMA PhasesKeep ==
  ASSUME Inv, InputMeans, StartSelecting \/ Finish \/ DereferenceNull
  PROVE  Inv'
<1> USE DEF Inv
<1>1. UNCHANGED <<in, vms, updated, jobToVm, unplaced, desired, startSlot>>
  BY DEF StartSelecting, Finish, DereferenceNull
<1>2. VmsInv' /\ SlotsHoldTheirJobs'
  BY <1>1, VmsUnchanged, SlotsUnchanged
<1>3. InputOK' /\ Jobs' = Jobs /\ SlotRecord' = SlotRecord
  BY <1>1 DEF InputOK, Jobs, SlotRecord, TypeInv
<1>4. TypeInv'
  BY <1>1, <1>3 DEF TypeInv, StartSelecting, Finish, DereferenceNull
<1>5. PlacedInv'
  <2>1. CASE StartSelecting
    <3>1. desired = << >> /\ DOMAIN desired = {}
      BY <2>1 DEF StartSelecting, PlacedInv
    <3> QED BY <1>1, <1>3, <2>1, <3>1 DEF StartSelecting, PlacedInv
  <2>2. CASE Finish
    BY <1>1, <1>3, <2>2 DEF Finish, PlacedInv
  <2>3. CASE DereferenceNull
    BY <1>1, <1>3, <2>3 DEF DereferenceNull, PlacedInv, NullIterator
  <2> QED BY <2>1, <2>2, <2>3
<1>6. MergedFully'
  <2>1. CASE StartSelecting \/ DereferenceNull
    <3>1. desired' = << >>
      BY <1>1, <2>1 DEF StartSelecting, DereferenceNull, PlacedInv
    <3> QED BY <3>1, NoSlots
  <2>2. CASE Finish
    BY <1>1, <2>2 DEF Finish, MergedFully, Offered, OfStartSlot
  <2> QED BY <2>1, <2>2
<1> QED BY <1>2, <1>4, <1>5, <1>6

(***************************************************************************)
(* SimpleVmAssigner gives every job a slot of its own.                     *)
(***************************************************************************)
LEMMA SimpleAssignKeeps ==
  ASSUME Inv, InputMeans, SimpleAssign
  PROVE  Inv'
<1> USE DEF Inv
<1>1. /\ UNCHANGED <<in, vms, updated, todo, jobToVm, unplaced, startSlot>>
      /\ in.strategy = "Simple" /\ phase' = "done"
      /\ desired' = [j \in Jobs |-> [total |-> in.req[j], idle |-> <<0, 0>>, jobs |-> {j}]]
  BY DEF SimpleAssign
<1>2. VmsInv'
  BY <1>1, VmsUnchanged
<1>3. InputOK' /\ Jobs' = Jobs /\ SlotRecord' = SlotRecord
  BY <1>1 DEF InputOK, Jobs, SlotRecord, TypeInv
<1>4. desired' \in Seq(SlotRecord) /\ DOMAIN desired' = Jobs
  <2>1. \A j \in Jobs : in.req[j] \in Capacity /\ {j} \in SUBSET Jobs
    BY DEF InputMeans
  <2>2. desired' \in [1 .. Len(in.req) -> SlotRecord] /\ Len(in.req) \in Nat
    BY <1>1, <2>1 DEF InputMeans, SlotRecord, Capacity
  <2>3. Jobs = 1 .. Len(in.req)
    BY DEF InputMeans
  <2> QED BY <2>2, <2>3
<1>5. TypeInv'
  BY <1>1, <1>3, <1>4 DEF TypeInv
<1>6. PlacedInv'
  BY <1>1, <1>3, <1>4 DEF PlacedInv
<1>7. SlotsHoldTheirJobs' /\ MergedFully'
  BY <1>1 DEF SlotsHoldTheirJobs, MergedFully
<1> QED BY <1>2, <1>5, <1>6, <1>7

----------------------------------------------------------------------------
(* VmSlotSelector.                                                         *)

\* SlotsHoldTheirJobs for one slot.
SlotOK(d) ==
    /\ Offered(d.total)
    /\ \/ Fits(Demand(d.jobs), d.total) /\ d.idle = Minus(d.total, Demand(d.jobs))
       \/ \E j \in d.jobs : ~Fits(in.req[j], Last(in.slots))

(***************************************************************************)
(* In a plan that is in order each slot is.                                *)
(***************************************************************************)
LEMMA SlotsAreOK ==
  ASSUME SlotsHoldTheirJobs, in.strategy # "Simple"
  PROVE  \A k \in DOMAIN desired : SlotOK(desired[k])
BY DEF SlotsHoldTheirJobs, SlotOK

(***************************************************************************)
(* Slots that are in order one by one make a plan that is.                 *)
(***************************************************************************)
LEMMA SlotsHold ==
  ASSUME in' = in, \A k \in DOMAIN desired' : SlotOK(desired'[k])
  PROVE  SlotsHoldTheirJobs'
<1>1. ASSUME NEW k
      PROVE  /\ Demand(desired[k].jobs)' = Demand(desired'[k].jobs)
             /\ Offered(desired[k].total)' <=> Offered(desired'[k].total)
  BY DEF Demand, Units, Offered
<1> QED BY <1>1 DEF SlotsHoldTheirJobs, SlotOK

(***************************************************************************)
(* getMinFitSlot_ returns a size on offer, which the job fits unless it    *)
(* does not fit the last one.                                              *)
(***************************************************************************)
LEMMA MinFitSlot ==
  ASSUME InputMeans, NEW r \in Capacity, NEW slot \in GetMinFitSlots(r)
  PROVE  /\ Offered(slot) /\ slot \in Capacity
         /\ Fits(r, slot) \/ ~Fits(r, Last(in.slots))
<1> DEFINE n == Len(in.slots)
<1>1. /\ n \in Nat \ {0} /\ DOMAIN in.slots = 1 .. n
      /\ \A k \in 1 .. n : in.slots[k] \in Capacity
  BY DEF InputMeans
<1>2. PICK i \in 1 .. n + 1 :
         /\ i > 1 => ~Fits(r, in.slots[i - 1])
         /\ i <= n => Fits(r, in.slots[i])
         /\ slot = IF i > n THEN Last(in.slots) ELSE in.slots[i]
  BY DEF GetMinFitSlots, LowerBounds
<1>3. CASE i <= n
  BY <1>1, <1>2, <1>3 DEF Offered
<1>4. CASE i = n + 1
  BY <1>1, <1>2, <1>4 DEF Offered, Last
<1> QED BY <1>1, <1>3, <1>4

(***************************************************************************)
(* A slot made for a job holds it, if any does.                            *)
(***************************************************************************)
LEMMA NewSlotHolds ==
  ASSUME InputMeans, NEW j \in Jobs, NEW slot \in GetMinFitSlots(in.req[j])
  PROVE  LET new == [total |-> slot, idle |-> Minus(slot, in.req[j]), jobs |-> {j}]
         IN  SlotOK(new) /\ new \in SlotRecord
<1>1. in.req[j] \in Capacity
  BY DEF InputMeans
<1>2. /\ Offered(slot) /\ slot \in Capacity
      /\ Fits(in.req[j], slot) \/ ~Fits(in.req[j], Last(in.slots))
  BY <1>1, MinFitSlot
<1>3. Demand({j}) = in.req[j]
  BY DemandOfOne
<1>4. Minus(slot, in.req[j]) \in Capacity
  BY <1>1, <1>2, CapacityType
<1> QED BY <1>2, <1>3, <1>4 DEF SlotOK, SlotRecord

(***************************************************************************)
(* A slot that takes one more job it fits holds that one too.              *)
(***************************************************************************)
LEMMA SlotTakesJob ==
  ASSUME InputMeans, NEW d \in SlotRecord, SlotOK(d), NEW j \in Jobs \ d.jobs,
         Fits(in.req[j], d.idle)
  PROVE  SlotOK(WithJob(d, j)) /\ WithJob(d, j) \in SlotRecord
<1> DEFINE D == Demand(d.jobs)
           r == in.req[j]
           e == WithJob(d, j)
<1>1. r \in Capacity /\ d.total \in Capacity /\ d.idle \in Capacity /\ d.jobs \in SUBSET Jobs
  BY DEF InputMeans, SlotRecord
<1>2. D \in Capacity
  BY <1>1, DemandType
<1>3. e.total = d.total /\ e.idle = Minus(d.idle, r) /\ e.jobs = d.jobs \cup {j}
  BY DEF WithJob
<1>4. Demand(d.jobs \cup {j}) = Plus(D, r)
  <2>1. Demand({j}) = r
    BY DemandOfOne
  <2>2. {j} \in SUBSET Jobs /\ d.jobs \cap {j} = {}
    OBVIOUS
  <2> QED BY <1>1, <2>1, <2>2, DemandAdds
<1>5. e \in SlotRecord
  <2>1. Minus(d.idle, r) \in Capacity
    BY <1>1, CapacityType
  <2> QED BY <1>1, <2>1 DEF SlotRecord, WithJob
<1>6. CASE Fits(D, d.total) /\ d.idle = Minus(d.total, D)
  <2>1. /\ Fits(Plus(D, r), d.total)
        /\ Minus(Minus(d.total, D), r) = Minus(d.total, Plus(D, r))
    BY <1>1, <1>2, <1>6, TakeOne
  <2> HIDE DEF D, r, e
  <2> QED BY <1>3, <1>4, <1>5, <1>6, <2>1 DEF SlotOK, e
<1>7. CASE \E l \in d.jobs : ~Fits(in.req[l], Last(in.slots))
  <2> HIDE DEF e
  <2> QED BY <1>3, <1>5, <1>7 DEF SlotOK, e
<1> QED BY <1>6, <1>7 DEF SlotOK

(***************************************************************************)
(* Two slots of a size, joined, hold the jobs of both.                     *)
(***************************************************************************)
LEMMA JoinedSlotHolds ==
  ASSUME InputMeans, NEW d \in SlotRecord, NEW e \in SlotRecord,
         SlotOK(d), SlotOK(e), d.total = e.total, d.jobs \cap e.jobs = {},
         Offered(Twice(d.total))
  PROVE  LET m == [total |-> Twice(d.total), idle |-> Plus(d.idle, e.idle),
                   jobs |-> d.jobs \cup e.jobs]
         IN  SlotOK(m) /\ m \in SlotRecord
<1> DEFINE c == d.total
           D == Demand(d.jobs)
           E == Demand(e.jobs)
           m == [total |-> Twice(c), idle |-> Plus(d.idle, e.idle), jobs |-> d.jobs \cup e.jobs]
<1>1. /\ c \in Capacity /\ d.idle \in Capacity /\ e.idle \in Capacity
      /\ d.jobs \in SUBSET Jobs /\ e.jobs \in SUBSET Jobs
  BY DEF SlotRecord
<1>2. D \in Capacity /\ E \in Capacity
  BY <1>1, DemandType
<1>3. Demand(d.jobs \cup e.jobs) = Plus(D, E)
  BY <1>1, DemandAdds
<1>4. Twice(c) \in Capacity /\ Plus(d.idle, e.idle) \in Capacity
  BY <1>1, CapacityType
<1>5. m \in SlotRecord
  BY <1>1, <1>4 DEF SlotRecord
<1>6. CASE /\ Fits(D, c) /\ d.idle = Minus(c, D)
           /\ Fits(E, c) /\ e.idle = Minus(c, E)
  <2>1. /\ Fits(Plus(D, E), Twice(c))
        /\ Plus(Minus(c, D), Minus(c, E)) = Minus(Twice(c), Plus(D, E))
    BY <1>1, <1>2, <1>6, JoinTwo
  <2> HIDE DEF D, E
  <2> QED BY <1>3, <1>5, <1>6, <2>1 DEF SlotOK
<1>7. CASE \E l \in d.jobs \cup e.jobs : ~Fits(in.req[l], Last(in.slots))
  BY <1>5, <1>7 DEF SlotOK
<1> QED BY <1>6, <1>7 DEF SlotOK

(***************************************************************************)
(* A job goes into a slot that is there.                                   *)
(***************************************************************************)
LEMMA JobJoinsSlot ==
  ASSUME Inv, InputMeans, phase = "selecting", NEW j \in todo, NEW k \in DOMAIN desired,
         Fits(in.req[j], desired[k].idle), todo' = todo \ {j},
         desired' = [desired EXCEPT ![k] = WithJob(@, j)],
         UNCHANGED <<in, phase, vms, updated, jobToVm, unplaced, startSlot>>
  PROVE  Inv'
<1> USE DEF Inv
<1> DEFINE d == desired[k]
           e == WithJob(d, j)
<1>1. /\ j \in Jobs /\ j \notin d.jobs /\ j \in unplaced /\ in.strategy # "Simple"
      /\ desired \in Seq(SlotRecord) /\ d \in SlotRecord
  BY DEF PlacedInv, TypeInv
<1>2. SlotOK(e) /\ e \in SlotRecord
  <2>1. SlotOK(d)
    BY <1>1, SlotsAreOK
  <2> QED BY <1>1, <2>1, SlotTakesJob
<1>3. e.total = d.total /\ e.jobs = d.jobs \cup {j}
  BY DEF WithJob
<1> HIDE DEF e
<1>4. /\ desired' \in Seq(SlotRecord) /\ DOMAIN desired' = DOMAIN desired
      /\ \A l \in DOMAIN desired : desired'[l] = IF l = k THEN e ELSE desired[l]
  <2>1. DOMAIN desired = 1 .. Len(desired) /\ k \in 1 .. Len(desired)
    BY <1>1
  <2>2. desired' = [desired EXCEPT ![k] = e]
    BY DEF e
  <2>3. /\ desired' \in Seq(SlotRecord) /\ Len(desired') = Len(desired)
        /\ \A l \in 1 .. Len(desired) : desired'[l] = IF l = k THEN e ELSE desired[l]
    BY <1>1, <1>2, <2>1, <2>2, ExceptSeq
  <2> QED BY <2>1, <2>3
<1>5. VmsInv'
  BY VmsUnchanged
<1>6. TypeInv'
  <2>1. InputOK' /\ Jobs' = Jobs /\ SlotRecord' = SlotRecord
    BY DEF InputOK, Jobs, SlotRecord, TypeInv
  <2> QED BY <1>4, <2>1 DEF TypeInv
<1>7. PlacedInv'
  <2>1. Jobs' = Jobs
    BY DEF Jobs
  <2>2. \A l \in DOMAIN desired' : desired'[l].jobs \subseteq unplaced' \ todo'
    BY <1>1, <1>3, <1>4 DEF PlacedInv
  <2>3. \A l \in unplaced' \ todo' : \E m \in DOMAIN desired' : l \in desired'[m].jobs
    BY <1>1, <1>3, <1>4 DEF PlacedInv
  <2>4. \A l, m \in DOMAIN desired' :
           l # m => desired'[l].jobs \cap desired'[m].jobs = {}
    BY <1>1, <1>3, <1>4 DEF PlacedInv
  <2> QED BY <1>1, <2>1, <2>2, <2>3, <2>4 DEF PlacedInv
<1>8. SlotsHoldTheirJobs'
  <2>1. \A l \in DOMAIN desired : SlotOK(desired[l])
    BY <1>1, SlotsAreOK
  <2> QED BY <1>2, <1>4, <2>1, SlotsHold
<1>9. MergedFully'
  <2>1. \A l \in DOMAIN desired : desired'[l].total = desired[l].total
    BY <1>3, <1>4
  <2> QED BY <1>4, <2>1 DEF MergedFully, Offered, OfStartSlot
<1> QED BY <1>5, <1>6, <1>7, <1>8, <1>9

(***************************************************************************)
(* A slot is made for a job, and merge_ is called.                         *)
(***************************************************************************)
LEMMA SlotIsMade ==
  ASSUME Inv, InputMeans, phase = "selecting", NEW j \in todo, todo' = todo \ {j},
         NEW slot \in GetMinFitSlots(in.req[j]), startSlot' = slot, phase' = "merging",
         desired' = Append(desired, [total |-> slot, idle |-> Minus(slot, in.req[j]),
                                     jobs |-> {j}]),
         UNCHANGED <<in, vms, updated, jobToVm, unplaced>>
  PROVE  Inv'
<1> USE DEF Inv
<1> DEFINE n == Len(desired) + 1
           e == [total |-> slot, idle |-> Minus(slot, in.req[j]), jobs |-> {j}]
<1>1. /\ j \in Jobs /\ j \in unplaced /\ in.strategy # "Simple"
      /\ desired \in Seq(SlotRecord) /\ slot \in Capacity
  <2>1. j \in Jobs /\ j \in unplaced /\ in.strategy # "Simple" /\ desired \in Seq(SlotRecord)
    BY DEF PlacedInv, TypeInv
  <2>2. in.req[j] \in Capacity
    BY <2>1 DEF InputMeans
  <2> QED BY <2>1, <2>2, MinFitSlot
<1>2. SlotOK(e) /\ e \in SlotRecord
  BY <1>1, NewSlotHolds
<1>3. e.total = slot /\ e.jobs = {j}
  OBVIOUS
<1>4. desired' = Append(desired, e)
  OBVIOUS
<1> HIDE DEF e
<1>5. /\ desired' \in Seq(SlotRecord) /\ DOMAIN desired = 1 .. n - 1
      /\ DOMAIN desired' = 1 .. n /\ n \in Nat \ {0} /\ desired'[n] = e
      /\ \A l \in 1 .. n - 1 : desired'[l] = desired[l]
  BY <1>1, <1>2, <1>4
<1> HIDE DEF n
<1>6. VmsInv'
  BY VmsUnchanged
<1>7. TypeInv'
  <2>1. InputOK' /\ Jobs' = Jobs /\ SlotRecord' = SlotRecord
    BY DEF InputOK, Jobs, SlotRecord, TypeInv
  <2> QED BY <1>1, <1>5, <2>1 DEF TypeInv
<1>8. \A l \in 1 .. n : l # n => l \in 1 .. n - 1
  BY <1>5
<1>9. PlacedInv'
  <2>1. Jobs' = Jobs
    BY DEF Jobs
  <2>2. \A l \in DOMAIN desired' : desired'[l].jobs \subseteq unplaced' \ todo'
    BY <1>1, <1>3, <1>5, <1>8 DEF PlacedInv
  <2>3. \A l \in unplaced' \ todo' : \E m \in DOMAIN desired' : l \in desired'[m].jobs
    <3> TAKE l \in unplaced' \ todo'
    <3>1. CASE l = j
      <4>1. n \in 1 .. n
        BY <1>5
      <4> QED BY <1>3, <1>5, <3>1, <4>1
    <3>2. CASE l # j
      <4>1. PICK m \in 1 .. n - 1 : l \in desired[m].jobs
        BY <1>5, <3>2 DEF PlacedInv
      <4>2. m \in 1 .. n
        BY <1>5
      <4> QED BY <1>5, <4>1, <4>2
    <3> QED BY <3>1, <3>2
  <2>4. \A l, m \in DOMAIN desired' :
           l # m => desired'[l].jobs \cap desired'[m].jobs = {}
    BY <1>1, <1>3, <1>5, <1>8 DEF PlacedInv
  <2> QED BY <1>1, <2>1, <2>2, <2>3, <2>4 DEF PlacedInv
<1>10. SlotsHoldTheirJobs'
  <2>1. \A l \in DOMAIN desired : SlotOK(desired[l])
    BY <1>1, SlotsAreOK
  <2> QED BY <1>2, <1>5, <1>8, <2>1, SlotsHold
<1>11. MergedFully'
  <2>1. ASSUME NEW l \in 1 .. n - 1, NEW m \in 1 .. n - 1, l # m,
               desired[l].total = desired[m].total
        PROVE  ~Offered(Twice(desired[l].total))
    BY <1>1, <1>5, <2>1 DEF MergedFully
  <2>2. ASSUME NEW l \in 1 .. n, NEW m \in 1 .. n, l # m,
               desired'[l].total = desired'[m].total,
               Offered(Twice(desired'[l].total))
        PROVE  OfStartSlot' = {l, m}
    <3>1. l = n \/ m = n
      BY <1>5, <1>8, <2>1, <2>2
    <3>2. desired'[l].total = slot
      BY <1>3, <1>5, <2>2, <3>1
    <3>3. ASSUME NEW x \in 1 .. n, desired'[x].total = slot, x # l, x # m
          PROVE  FALSE
      BY <1>5, <1>8, <2>1, <2>2, <3>1, <3>2, <3>3
    <3> QED BY <1>5, <2>2, <3>2, <3>3 DEF OfStartSlot
  <2>3. \A l : Offered(Twice(desired[l].total))' <=> Offered(Twice(desired'[l].total))
    BY DEF Offered, Twice
  <2> QED BY <1>5, <2>2, <2>3 DEF MergedFully
<1> QED BY <1>6, <1>7, <1>9, <1>10, <1>11

(***************************************************************************)
(* The loop of select over the jobs that got no VM.                        *)
(***************************************************************************)
LEMMA SelectSlotKeeps ==
  ASSUME Inv, InputMeans, NEW j \in Jobs, SelectSlot(j)
  PROVE  Inv'
<1>1. j \in todo
  BY DEF SelectSlot, IsLargest
<1>2. CASE \E k \in BestDesired(in.req[j]) :
             /\ desired' = [desired EXCEPT ![k] = WithJob(@, j)]
             /\ UNCHANGED <<phase, startSlot>>
  <2>1. PICK k \in DOMAIN desired :
           /\ Fits(in.req[j], desired[k].idle)
           /\ desired' = [desired EXCEPT ![k] = WithJob(@, j)]
           /\ UNCHANGED <<phase, startSlot>>
    BY <1>2 DEF BestDesired
  <2> QED BY <1>1, <2>1, JobJoinsSlot DEF SelectSlot
<1>3. CASE /\ phase' = "merging"
           /\ \E slot \in GetMinFitSlots(in.req[j]) :
                /\ desired' = Append(desired, [total |-> slot, jobs |-> {j},
                                               idle |-> Minus(slot, in.req[j])])
                /\ startSlot' = slot
  BY <1>1, <1>3, SlotIsMade DEF SelectSlot
<1> QED BY <1>2, <1>3 DEF SelectSlot

\* t is s without two of its elements and with e at the end.
TwoReplaced(s, k, l, e, t) ==
    \E n \in Nat : \E f \in [1 .. n -> DOMAIN s \ {k, l}] :
        /\ t \in Seq(SlotRecord) /\ DOMAIN t = 1 .. n + 1 /\ t[n + 1] = e
        /\ \A x \in 1 .. n : t[x] = s[f[x]]
        /\ \A x, y \in 1 .. n : f[x] = f[y] => x = y
        /\ \A z \in DOMAIN s \ {k, l} : \E x \in 1 .. n : f[x] = z

(***************************************************************************)
(* Two elements erased and one put at the end: the others stay, each once. *)
(***************************************************************************)
LEMMA TwoErased ==
  ASSUME NEW s \in Seq(SlotRecord), NEW k \in DOMAIN s, NEW l \in DOMAIN s, k < l,
         NEW e \in SlotRecord, NEW t, t = Append(RemoveAt(RemoveAt(s, l), k), e)
  PROVE  TwoReplaced(s, k, l, e, t)
<1> DEFINE A == RemoveAt(s, l)
           B == RemoveAt(A, k)
           n == Len(s) - 2
           f == [x \in 1 .. n |-> IF x < k THEN x ELSE IF x + 1 < l THEN x + 1 ELSE x + 2]
<1>1. DOMAIN s = 1 .. Len(s) /\ Len(s) \in Nat /\ k \in 1 .. Len(s) /\ l \in 1 .. Len(s)
  OBVIOUS
<1>2. n \in Nat /\ k \in 1 .. Len(s) - 1
  BY <1>1
<1>3. /\ A \in Seq(SlotRecord) /\ Len(A) = Len(s) - 1
      /\ \A x \in 1 .. Len(s) - 1 : A[x] = IF x < l THEN s[x] ELSE s[x + 1]
  BY <1>1, RemoveAtProperties
<1> HIDE DEF A
<1>4. /\ B \in Seq(SlotRecord) /\ Len(B) = Len(A) - 1
      /\ \A x \in 1 .. Len(A) - 1 : B[x] = IF x < k THEN A[x] ELSE A[x + 1]
  <2>1. k \in 1 .. Len(A)
    BY <1>2, <1>3
  <2> QED BY <1>3, <2>1, RemoveAtProperties
<1>5. t = Append(B, e)
  BY DEF A
<1> HIDE DEF B
<1>6. Len(B) = n
  BY <1>1, <1>3, <1>4
<1>7. /\ t \in Seq(SlotRecord) /\ DOMAIN t = 1 .. n + 1 /\ t[n + 1] = e
      /\ \A x \in 1 .. n : t[x] = B[x]
  <2> HIDE DEF n
  <2> QED BY <1>2, <1>4, <1>5, <1>6
<1>8. ASSUME NEW x \in 1 .. n
      PROVE  t[x] = s[f[x]]
  <2>1. x \in 1 .. Len(A) - 1 /\ x \in 1 .. Len(s) - 1 /\ x + 1 \in 1 .. Len(s) - 1
    BY <1>1, <1>3
  <2>2. t[x] = IF x < k THEN A[x] ELSE A[x + 1]
    BY <1>4, <1>7, <2>1
  <2>3. /\ A[x] = IF x < l THEN s[x] ELSE s[x + 1]
        /\ A[x + 1] = IF x + 1 < l THEN s[x + 1] ELSE s[x + 1 + 1]
    BY <1>3, <2>1
  <2>4. x + 1 + 1 = x + 2 /\ (x < k => x < l)
    BY <1>1
  <2> QED BY <2>2, <2>3, <2>4
<1>9. /\ f \in [1 .. n -> 1 .. Len(s)]
      /\ \A x \in 1 .. n : f[x] # k /\ f[x] # l
      /\ \A x, y \in 1 .. n : f[x] = f[y] => x = y
  BY <1>1
<1>10. ASSUME NEW z \in 1 .. Len(s), z # k, z # l
       PROVE  \E x \in 1 .. n : f[x] = z
  <2>1. CASE z < k
    <3>1. z \in 1 .. n /\ f[z] = z
      BY <1>1, <1>10, <2>1
    <3> QED BY <3>1
  <2>2. CASE k < z /\ z < l
    <3>1. z - 1 \in 1 .. n /\ f[z - 1] = z
      BY <1>1, <1>10, <2>2
    <3> QED BY <3>1
  <2>3. CASE l < z
    <3>1. z - 2 \in 1 .. n /\ f[z - 2] = z
      BY <1>1, <1>10, <2>3
    <3> QED BY <3>1
  <2> QED BY <1>1, <1>10, <2>1, <2>2, <2>3
<1>11. f \in [1 .. n -> DOMAIN s \ {k, l}]
  <2> HIDE DEF f, n
  <2> QED BY <1>1, <1>9
<1>12. /\ \A x \in 1 .. n : t[x] = s[f[x]]
       /\ \A x, y \in 1 .. n : f[x] = f[y] => x = y
       /\ \A z \in DOMAIN s \ {k, l} : \E x \in 1 .. n : f[x] = z
  <2> HIDE DEF f, n
  <2> QED BY <1>1, <1>8, <1>9, <1>10
<1> HIDE DEF f, n
<1>13. \E g \in [1 .. n -> DOMAIN s \ {k, l}] :
          /\ t \in Seq(SlotRecord) /\ DOMAIN t = 1 .. n + 1 /\ t[n + 1] = e
          /\ \A x \in 1 .. n : t[x] = s[g[x]]
          /\ \A x, y \in 1 .. n : g[x] = g[y] => x = y
          /\ \A z \in DOMAIN s \ {k, l} : \E x \in 1 .. n : g[x] = z
  BY <1>7, <1>11, <1>12, Zenon
<1> QED BY <1>2, <1>13, Zenon DEF TwoReplaced

(***************************************************************************)
(* merge_ joins two slots.                                                 *)
(***************************************************************************)
LEMMA MergeKeeps ==
  ASSUME Inv, InputMeans, Merge
  PROVE  Inv'
<1> USE DEF Inv
<1>1. PICK k, l \in OfStartSlot :
         k < l /\ desired' = Append(RemoveAt(RemoveAt(desired, l), k), Joined(k, l))
  BY DEF Merge
<1> DEFINE c == startSlot
           e == Joined(k, l)
<1>2. /\ phase = "merging" /\ Offered(Twice(c)) /\ startSlot' = Twice(c)
      /\ UNCHANGED <<in, phase, vms, updated, todo, jobToVm, unplaced>>
      /\ in.strategy # "Simple"
  BY DEF Merge, MergeIsOver, PlacedInv
<1>3. /\ k \in DOMAIN desired /\ l \in DOMAIN desired /\ k # l
      /\ desired[k].total = c /\ desired[l].total = c
      /\ desired \in Seq(SlotRecord) /\ c \in Capacity
      /\ desired[k] \in SlotRecord /\ desired[l] \in SlotRecord
  <2>1. desired \in Seq(SlotRecord) /\ c \in Capacity
    BY DEF TypeInv
  <2>2. k \in DOMAIN desired /\ l \in DOMAIN desired /\ desired[k].total = c /\ desired[l].total = c
    BY DEF OfStartSlot
  <2>3. k # l
    BY <1>1, <2>1, <2>2
  <2> QED BY <2>1, <2>2, <2>3
<1>4. OfStartSlot = {k, l}
  BY <1>2, <1>3 DEF MergedFully
<1>5. SlotOK(e) /\ e \in SlotRecord
  <2>1. SlotOK(desired[k]) /\ SlotOK(desired[l])
    BY <1>2, <1>3, SlotsAreOK
  <2>2. desired[k].jobs \cap desired[l].jobs = {}
    BY <1>2, <1>3 DEF PlacedInv
  <2> QED BY <1>2, <1>3, <2>1, <2>2, JoinedSlotHolds DEF Joined
<1>6. e.total = Twice(c) /\ e.jobs = desired[k].jobs \cup desired[l].jobs
  BY DEF Joined
<1> HIDE DEF e
<1>7. TwoReplaced(desired, k, l, e, desired')
  <2>1. desired' = Append(RemoveAt(RemoveAt(desired, l), k), e)
    BY <1>1 DEF e
  <2> QED BY <1>1, <1>3, <1>5, <2>1, TwoErased
<1>8. PICK n \in Nat : \E f \in [1 .. n -> DOMAIN desired \ {k, l}] :
         /\ desired' \in Seq(SlotRecord) /\ DOMAIN desired' = 1 .. n + 1 /\ desired'[n + 1] = e
         /\ \A x \in 1 .. n : desired'[x] = desired[f[x]]
         /\ \A x, y \in 1 .. n : f[x] = f[y] => x = y
         /\ \A z \in DOMAIN desired \ {k, l} : \E x \in 1 .. n : f[x] = z
  BY <1>7, Zenon DEF TwoReplaced
<1>9. PICK f \in [1 .. n -> DOMAIN desired \ {k, l}] :
         /\ desired' \in Seq(SlotRecord) /\ DOMAIN desired' = 1 .. n + 1 /\ desired'[n + 1] = e
         /\ \A x \in 1 .. n : desired'[x] = desired[f[x]]
         /\ \A x, y \in 1 .. n : f[x] = f[y] => x = y
         /\ \A z \in DOMAIN desired \ {k, l} : \E x \in 1 .. n : f[x] = z
  BY <1>8
<1>10. /\ \A x \in 1 .. n + 1 : x # n + 1 => x \in 1 .. n
      /\ \A x \in 1 .. n : x \in 1 .. n + 1 /\ x # n + 1
      /\ n + 1 \in 1 .. n + 1
  OBVIOUS
<1>11. VmsInv'
  BY <1>2, VmsUnchanged
<1>12. TypeInv'
  <2>1. InputOK' /\ Jobs' = Jobs /\ SlotRecord' = SlotRecord
    BY <1>2 DEF InputOK, Jobs, SlotRecord, TypeInv
  <2>2. startSlot' \in Capacity
    BY <1>2, <1>3, CapacityType
  <2> QED BY <1>2, <1>9, <2>1, <2>2 DEF TypeInv
<1>13. PlacedInv'
  <2>1. Jobs' = Jobs
    BY <1>2 DEF Jobs
  <2>2. \A x \in DOMAIN desired' : desired'[x].jobs \subseteq unplaced' \ todo'
    BY <1>2, <1>3, <1>6, <1>9, <1>10 DEF PlacedInv
  <2>3. \A j \in unplaced' \ todo' : \E x \in DOMAIN desired' : j \in desired'[x].jobs
    <3> TAKE j \in unplaced' \ todo'
    <3>1. PICK z \in DOMAIN desired : j \in desired[z].jobs
      BY <1>2 DEF PlacedInv
    <3>2. CASE z \in {k, l}
      BY <1>6, <1>9, <1>10, <3>1, <3>2
    <3>3. CASE z \notin {k, l}
      BY <1>9, <1>10, <3>1, <3>3
    <3> QED BY <3>2, <3>3
  <2>4. ASSUME NEW x \in 1 .. n, NEW y \in 1 .. n, x # y
        PROVE  desired'[x].jobs \cap desired'[y].jobs = {}
    BY <1>2, <1>9, <2>4 DEF PlacedInv
  <2>5. ASSUME NEW x \in 1 .. n
        PROVE  desired'[x].jobs \cap e.jobs = {}
    BY <1>2, <1>3, <1>6, <1>9 DEF PlacedInv
  <2>6. \A x, y \in DOMAIN desired' :
           x # y => desired'[x].jobs \cap desired'[y].jobs = {}
    BY <1>9, <1>10, <2>4, <2>5
  <2> QED BY <1>2, <2>1, <2>2, <2>3, <2>6 DEF PlacedInv
<1>14. SlotsHoldTheirJobs'
  <2>1. \A x \in DOMAIN desired : SlotOK(desired[x])
    BY <1>2, SlotsAreOK
  <2>2. \A x \in DOMAIN desired' : SlotOK(desired'[x])
    BY <1>5, <1>9, <1>10, <2>1
  <2> QED BY <1>2, <2>2, SlotsHold
<1>15. MergedFully'
  <2>1. ASSUME NEW x \in DOMAIN desired \ {k, l}, NEW y \in DOMAIN desired \ {k, l}, x # y,
               desired[x].total = desired[y].total
        PROVE  ~Offered(Twice(desired[x].total))
    <3>1. OfStartSlot # {x, y}
      BY <1>4
    <3> QED BY <1>2, <2>1, <3>1 DEF MergedFully
  <2>2. ASSUME NEW x \in 1 .. n, NEW y \in 1 .. n, x # y,
               desired'[x].total = desired'[y].total
        PROVE  ~Offered(Twice(desired'[x].total))
    BY <1>9, <2>1, <2>2
  <2>3. ASSUME NEW x \in 1 .. n + 1, NEW y \in 1 .. n + 1, x # y,
               desired'[x].total = desired'[y].total,
               Offered(Twice(desired'[x].total))
        PROVE  OfStartSlot' = {x, y}
    <3>1. x = n + 1 \/ y = n + 1
      BY <1>10, <2>2, <2>3
    <3>2. desired'[x].total = Twice(c)
      BY <1>6, <1>9, <2>3, <3>1
    <3>3. ASSUME NEW z \in 1 .. n + 1, desired'[z].total = Twice(c), z # x, z # y
          PROVE  FALSE
      BY <1>10, <2>2, <2>3, <3>1, <3>2, <3>3
    <3>4. OfStartSlot' = {z \in 1 .. n + 1 : desired'[z].total = Twice(c)}
      BY <1>2, <1>9 DEF OfStartSlot
    <3>5. desired'[y].total = Twice(c)
      BY <2>3, <3>2
    <3> HIDE DEF c
    <3> QED BY <3>2, <3>3, <3>4, <3>5
  <2>4. \A x : Offered(Twice(desired[x].total))' <=> Offered(Twice(desired'[x].total))
    BY <1>2 DEF Offered, Twice
  <2> QED BY <1>2, <1>9, <2>3, <2>4 DEF MergedFully
<1> QED BY <1>11, <1>12, <1>13, <1>14, <1>15

(***************************************************************************)
(* merge_ returns: the slot it was called for is the only one of its size, *)
(* or cannot be merged.                                                    *)
(***************************************************************************)
LEMMA MergeReturnsKeeps ==
  ASSUME Inv, InputMeans, MergeReturns
  PROVE  Inv'
<1> USE DEF Inv
<1>1. /\ phase = "merging" /\ phase' = "selecting" /\ startSlot' = NoSlot /\ MergeIsOver
      /\ UNCHANGED <<in, vms, updated, todo, jobToVm, unplaced, desired>>
      /\ in.strategy # "Simple"
  BY DEF MergeReturns, PlacedInv
<1>2. VmsInv' /\ SlotsHoldTheirJobs'
  BY <1>1, VmsUnchanged, SlotsUnchanged
<1>3. InputOK' /\ Jobs' = Jobs /\ SlotRecord' = SlotRecord
  BY <1>1 DEF InputOK, Jobs, SlotRecord, TypeInv
<1>4. TypeInv'
  <2>1. NoSlot \in Capacity
    BY DEF NoSlot, Capacity
  <2> QED BY <1>1, <1>3, <2>1 DEF TypeInv
<1>5. PlacedInv'
  BY <1>1, <1>3 DEF PlacedInv
<1>6. ASSUME NEW k \in DOMAIN desired, NEW l \in DOMAIN desired, k # l,
             desired[k].total = desired[l].total, Offered(Twice(desired[k].total))
      PROVE  FALSE
  <2>1. OfStartSlot = {k, l}
    BY <1>1, <1>6 DEF MergedFully
  <2>2. Cardinality({k, l}) = 2
    <3>1. {k, l} = {k} \cup {l} /\ l \notin {k}
      BY <1>6
    <3>2. IsFiniteSet({k}) /\ Cardinality({k}) = 1
      BY FS_Singleton
    <3>3. Cardinality({k} \cup {l}) = Cardinality({k}) + 1
      BY <3>1, <3>2, FS_AddElement
    <3> QED BY <3>1, <3>2, <3>3
  <2>3. desired[k].total = startSlot
    BY <2>1 DEF OfStartSlot
  <2> QED BY <1>1, <1>6, <2>1, <2>2, <2>3 DEF MergeIsOver
<1>7. MergedFully'
  BY <1>1, <1>6 DEF MergedFully, Offered
<1> QED BY <1>2, <1>4, <1>5, <1>7

----------------------------------------------------------------------------
(* The invariant.                                                          *)

(***************************************************************************)
(* Every step keeps the invariant.                                         *)
(***************************************************************************)
LEMMA StepKeeps ==
  ASSUME Inv, [Next]_vars
  PROVE  Inv'
<1>1. InputMeans
  BY InputFacts DEF Inv, TypeInv
<1>2. CASE \E j \in Jobs : AllocateJob(j) \/ SelectSlot(j)
  BY <1>1, <1>2, AllocateJobKeeps, SelectSlotKeeps
<1>3. CASE DereferenceNull \/ StartSelecting \/ Finish
  BY <1>1, <1>3, PhasesKeep
<1>4. CASE Merge
  BY <1>1, <1>4, MergeKeeps
<1>5. CASE MergeReturns
  BY <1>1, <1>5, MergeReturnsKeeps
<1>6. CASE SimpleAssign
  BY <1>1, <1>6, SimpleAssignKeeps
<1>7. CASE UNCHANGED vars
  <2>1. /\ in' = in /\ phase' = phase /\ vms' = vms /\ updated' = updated /\ todo' = todo
        /\ jobToVm' = jobToVm /\ unplaced' = unplaced /\ desired' = desired
        /\ startSlot' = startSlot
    BY <1>7 DEF vars
  <2>2. VmsInv' /\ SlotsHoldTheirJobs'
    BY <2>1, VmsUnchanged, SlotsUnchanged DEF Inv
  <2>3. InputOK' /\ Jobs' = Jobs /\ SlotRecord' = SlotRecord
    BY <2>1 DEF InputOK, Jobs, SlotRecord, TypeInv, Inv
  <2>4. TypeInv' /\ PlacedInv'
    BY <2>1, <2>3 DEF TypeInv, PlacedInv, Inv
  <2>5. MergedFully'
    BY <2>1 DEF MergedFully, Offered, OfStartSlot, Inv
  <2> QED BY <2>2, <2>4, <2>5 DEF Inv
<1> QED BY <1>2, <1>3, <1>4, <1>5, <1>6, <1>7 DEF Next

(***************************************************************************)
(* The invariant holds in every state of every run of the assigner.        *)
(***************************************************************************)
LEMMA Invariance == Spec => []Inv
<1>1. Init => Inv
  BY InvAtStart
<1>2. Inv /\ [Next]_vars => Inv'
  BY StepKeeps
<1> QED BY <1>1, <1>2, PTL DEF Spec

----------------------------------------------------------------------------
(* Existing VMs.                                                           *)

(***************************************************************************)
(* The books of JobAllocator balance: the jobs put on a VM fit together    *)
(* what was idle there, the idle capacity that is written back is what     *)
(* they leave, and updatedVmIds_ are the VMs that got a job.               *)
(***************************************************************************)
THEOREM BooksBalance == Spec => []JobsFitTheirVms
<1>1. ASSUME Inv
      PROVE  JobsFitTheirVms
  <2> USE <1>1 DEF Inv
  <2> SUFFICES ASSUME NEW i \in DOMAIN in.vms
               PROVE  /\ Fits(Demand(OnVm(i)), in.vms[i].idle)
                      /\ UpdatedIdle(i) = Minus(in.vms[i].idle, Demand(OnVm(i)))
                      /\ i \in updated <=> OnVm(i) # {}
    BY DEF JobsFitTheirVms
  <2>1. PICK k \in DOMAIN vms : vms[k].id = i
    BY DEF VmsInv
  <2>2. RecordOK(vms[k], i)
    BY <2>1 DEF VmsInv
  <2>3. vms[k] \in Range(vms)
    BY <2>1 DEF Range
  <2>4. \A v \in Range(vms) : v.id = i => v = vms[k]
    BY <2>1 DEF Range, VmsInv
  <2>5. (CHOOSE v \in Range(vms) : v.id = i) = vms[k]
    BY <2>1, <2>3, <2>4
  <2>6. UpdatedIdle(i) = vms[k].idle
    BY <2>5 DEF UpdatedIdle
  <2> QED BY <2>2, <2>6 DEF RecordOK, VmsInv
<1> QED BY <1>1, Invariance, PTL

(***************************************************************************)
(* A VM that a plan terminates has no job of the plan that needs anything, *)
(* because its idle capacity was within its size.                          *)
(***************************************************************************)
THEOREM UsedVmsAreKept == Spec => []TerminatesOnlyUnusedVms
<1>1. ASSUME Inv
      PROVE  TerminatesOnlyUnusedVms
  <2> USE <1>1 DEF Inv
  <2> SUFFICES ASSUME NEW i \in VmsToTerminate
               PROVE  Demand(OnVm(i)) = <<0, 0>>
    BY DEF TerminatesOnlyUnusedVms
  <2>1. InputMeans
    BY InputFacts DEF TypeInv
  <2>2. PICK k \in DOMAIN vms : vms[k].id = i /\ vms[k].total = vms[k].idle
    BY DEF VmsToTerminate, Range
  <2>3. i \in DOMAIN in.vms /\ RecordOK(vms[k], i)
    BY <2>2 DEF VmsInv
  <2>4. in.vms[i] \in VmSize /\ Fits(in.vms[i].idle, in.vms[i].total)
    BY <2>1, <2>3 DEF InputMeans
  <2>5. in.vms[i].total \in Capacity /\ in.vms[i].idle \in Capacity
    BY <2>4 DEF VmSize
  <2>6. OnVm(i) \in SUBSET Jobs
    BY DEF OnVm, TypeInv
  <2>7. Demand(OnVm(i)) \in Capacity
    BY <2>1, <2>6, DemandType
  <2>8. /\ Fits(Demand(OnVm(i)), in.vms[i].idle)
        /\ in.vms[i].total = Minus(in.vms[i].idle, Demand(OnVm(i)))
    BY <2>2, <2>3 DEF RecordOK
  <2> QED BY <2>4, <2>5, <2>7, <2>8, NothingTaken
<1> QED BY <1>1, Invariance, PTL

(***************************************************************************)
(* Among nested capacities the order that BestFit and WorstFit search by   *)
(* is the order of fits().                                                 *)
(***************************************************************************)
LEMMA NestedIsOrdered ==
  ASSUME TypeInv, VmsInv, Nested, in.strategy \in {"BestFit", "WorstFit"},
         NEW r \in Capacity, NEW k \in DOMAIN vms, NEW l \in DOMAIN vms, k <= l
  PROVE  /\ Fits(vms[k].idle, vms[l].idle)
         /\ Fits(r, vms[k].idle) => Fits(r, vms[l].idle)
<1>1. vms \in Seq(VmRecord) /\ k \in Nat /\ l \in Nat
  BY DEF TypeInv
<1>2. vms[k] \in VmRecord /\ vms[l] \in VmRecord
  BY <1>1
<1>3. vms[k].idle \in Capacity /\ vms[l].idle \in Capacity
  BY <1>2 DEF VmRecord
<1>4. ~Less(vms[l].idle, vms[k].idle)
  <2>1. CASE k = l
    BY <1>3, <2>1, LessIsTotal
  <2>2. CASE k < l
    BY <2>2 DEF VmsInv, Sorted
  <2> QED BY <1>1, <2>1, <2>2
<1>5. Fits(vms[k].idle, vms[l].idle) \/ Fits(vms[l].idle, vms[k].idle)
  BY DEF Nested, Range
<1>6. Fits(vms[k].idle, vms[l].idle)
  BY <1>3, <1>4, <1>5, LessIsTotal
<1>7. \A a, b \in Capacity : Fits(r, a) /\ Fits(a, b) => Fits(r, b)
  BY DEF Capacity, Fits
<1> QED BY <1>3, <1>6, <1>7

(***************************************************************************)
(* Among nested capacities a strategy that returns no VM has overlooked    *)
(* none, BestFit returns the smallest that the job fits and WorstFit the   *)
(* largest.                                                                *)
(***************************************************************************)
LEMMA AllocateFindsVm ==
  ASSUME TypeInv, InputMeans, VmsInv, Nested, in.strategy # "Simple", ~NullIterator,
         NEW r \in Capacity, NEW i \in Allocate(r)
  PROVE  /\ i = 0 => \A m \in DOMAIN vms : ~Fits(r, vms[m].idle)
         /\ i # 0 => /\ i \in DOMAIN vms /\ Fits(r, vms[i].idle)
                     /\ in.strategy = "BestFit" =>
                           \A m \in DOMAIN vms :
                              Fits(r, vms[m].idle) => Fits(vms[i].idle, vms[m].idle)
                     /\ in.strategy = "WorstFit" =>
                           \A m \in DOMAIN vms : Fits(vms[m].idle, vms[i].idle)
<1> DEFINE n == Len(vms)
<1>1. n \in Nat /\ DOMAIN vms = 1 .. n /\ (vms # << >> => n # 0)
  BY EmptySeq DEF TypeInv
<1>2. i # 0 => i \in DOMAIN vms /\ Fits(r, vms[i].idle)
  BY AllocatedVmFits
<1>3. CASE in.strategy = "FirstFit"
  BY <1>2, <1>3, AllocatedVmFits
<1>4. CASE in.strategy = "NextFit"
  <2>1. i = 0
    BY <1>4 DEF Allocate
  <2>2. DOMAIN vms = {}
    BY <1>4 DEF NullIterator
  <2> QED BY <2>1, <2>2
<1>5. CASE in.strategy = "WorstFit"
  <2>1. i = IF vms # << >> /\ Fits(r, vms[n].idle) THEN n ELSE 0
    BY <1>5 DEF Allocate, WorstFitVms, Last
  <2>2. ASSUME NEW m \in DOMAIN vms
        PROVE  /\ vms # << >> /\ Fits(vms[m].idle, vms[n].idle)
               /\ Fits(r, vms[m].idle) => Fits(r, vms[n].idle)
    <3>1. n \in DOMAIN vms /\ m <= n
      BY <1>1
    <3> HIDE DEF n
    <3>2. vms # << >>
      BY <2>2
    <3> QED BY <1>5, <3>1, <3>2, NestedIsOrdered
  <2>3. CASE i = 0
    <3>1. ASSUME NEW m \in DOMAIN vms, Fits(r, vms[m].idle)
          PROVE  FALSE
      <4>1. n # 0
        BY <1>1, <3>1
      <4> QED BY <2>1, <2>2, <2>3, <3>1, <4>1
    <3> QED BY <2>3, <3>1
  <2>4. CASE i # 0
    BY <1>2, <1>5, <2>1, <2>2, <2>4
  <2> QED BY <2>3, <2>4
<1>6. CASE in.strategy = "BestFit"
  <2>1. PICK k \in 1 .. n + 1 :
           /\ k > 1 => ~Fits(r, vms[k - 1].idle)
           /\ k <= n => Fits(r, vms[k].idle)
           /\ i = IF k <= n /\ Fits(r, vms[k].idle) THEN k ELSE 0
    BY <1>6 DEF Allocate, BestFitVms, LowerBounds
  <2>2. ASSUME NEW m \in DOMAIN vms, Fits(r, vms[m].idle)
        PROVE  m >= k
    <3>1. SUFFICES ASSUME m < k PROVE FALSE
      BY <1>1
    <3>2. k > 1 /\ k - 1 \in DOMAIN vms /\ m <= k - 1
      BY <1>1, <3>1
    <3>3. Fits(r, vms[k - 1].idle)
      BY <1>6, <2>2, <3>2, NestedIsOrdered
    <3> QED BY <2>1, <3>2, <3>3
  <2>3. CASE i = 0
    <3>1. k = n + 1
      BY <1>1, <2>1, <2>3
    <3> QED BY <1>1, <2>2, <2>3, <3>1
  <2>4. CASE i # 0
    <3>1. i = k
      BY <2>1, <2>4
    <3>2. ASSUME NEW m \in DOMAIN vms, Fits(r, vms[m].idle)
          PROVE  Fits(vms[i].idle, vms[m].idle)
      <4>1. i \in DOMAIN vms /\ i <= m
        BY <1>1, <1>2, <2>2, <2>4, <3>1, <3>2
      <4> QED BY <1>6, <4>1, NestedIsOrdered
    <3> QED BY <1>2, <1>6, <2>4, <3>2
  <2> QED BY <2>3, <2>4
<1> QED BY <1>3, <1>4, <1>5, <1>6 DEF InputMeans

(***************************************************************************)
(* No strategy overlooks a VM when the idle capacities are nested, and     *)
(* best and worst fit deserve their names.                                 *)
(***************************************************************************)
THEOREM RightVmFound == Spec => FindsTheRightVm
<1> DEFINE fit(j) == {v \in Range(vms) : Fits(in.req[j], v.idle)}
           Right(j) ==
              phase = "allocating" /\ Nested /\ j \in todo \ todo' =>
              IF j \in unplaced' THEN fit(j) = {}
              ELSE \E v \in fit(j) :
                      /\ v.id = jobToVm'[j]
                      /\ in.strategy = "BestFit" => \A w \in fit(j) : Fits(v.idle, w.idle)
                      /\ in.strategy = "WorstFit" => \A w \in fit(j) : Fits(w.idle, v.idle)
<1>1. ASSUME Inv, [Next]_vars, NEW j \in Jobs
      PROVE  Right(j)
  <2> USE <1>1 DEF Inv
  <2> SUFFICES ASSUME phase = "allocating", Nested, j \in todo, j \notin todo'
               PROVE  IF j \in unplaced' THEN fit(j) = {}
                      ELSE \E v \in fit(j) :
                              /\ v.id = jobToVm'[j]
                              /\ in.strategy = "BestFit" => \A w \in fit(j) : Fits(v.idle, w.idle)
                              /\ in.strategy = "WorstFit" => \A w \in fit(j) : Fits(w.idle, v.idle)
    OBVIOUS
  <2>1. InputMeans
    BY InputFacts DEF TypeInv
  <2>2. AllocateJob(j)
    <3>1. \E l \in Jobs : AllocateJob(l)
      BY DEF Next, vars, SelectSlot, DereferenceNull, StartSelecting, Merge, MergeReturns,
             Finish, SimpleAssign
    <3>2. PICK l \in Jobs : AllocateJob(l)
      BY <3>1
    <3>3. l = j
      BY <3>2 DEF AllocateJob
    <3> QED BY <3>2, <3>3
  <2>3. PICK i \in Allocate(in.req[j]) :
           \/ /\ i # 0
              /\ jobToVm' = [k \in DOMAIN jobToVm \cup {j} |->
                                IF k = j THEN vms[i].id ELSE jobToVm[k]]
              /\ UNCHANGED unplaced
           \/ /\ i = 0
              /\ unplaced' = unplaced \cup {j}
    BY <2>2 DEF AllocateJob
  <2>4. in.strategy # "Simple" /\ ~NullIterator /\ j \notin unplaced
    BY <2>2 DEF AllocateJob, PlacedInv
  <2>5. in.req[j] \in Capacity
    BY <2>1 DEF InputMeans
  <2>6. /\ i = 0 => \A m \in DOMAIN vms : ~Fits(in.req[j], vms[m].idle)
        /\ i # 0 => /\ i \in DOMAIN vms /\ Fits(in.req[j], vms[i].idle)
                    /\ in.strategy = "BestFit" =>
                          \A m \in DOMAIN vms :
                             Fits(in.req[j], vms[m].idle) => Fits(vms[i].idle, vms[m].idle)
                    /\ in.strategy = "WorstFit" =>
                          \A m \in DOMAIN vms : Fits(vms[m].idle, vms[i].idle)
    BY <2>1, <2>4, <2>5, AllocateFindsVm
  <2>7. fit(j) = {vms[m] : m \in {l \in DOMAIN vms : Fits(in.req[j], vms[l].idle)}}
    BY DEF Range
  <2> HIDE DEF fit
  <2>8. CASE i = 0
    BY <2>3, <2>6, <2>7, <2>8
  <2>9. CASE i # 0
    <3>1. j \notin unplaced' /\ jobToVm'[j] = vms[i].id
      BY <2>3, <2>4, <2>9
    <3>2. vms[i] \in fit(j)
      BY <2>6, <2>7, <2>9
    <3>3. in.strategy = "BestFit" => \A w \in fit(j) : Fits(vms[i].idle, w.idle)
      BY <2>6, <2>7, <2>9
    <3>4. in.strategy = "WorstFit" => \A w \in fit(j) : Fits(w.idle, vms[i].idle)
      BY <2>6, <2>7, <2>9
    <3> QED BY <3>1, <3>2, <3>3, <3>4
  <2> QED BY <2>8, <2>9
<1>2. Inv /\ [Next]_vars => [\A j \in Jobs : Right(j)]_vars
  BY <1>1
<1> QED BY <1>2, Invariance, PTL DEF Spec, FindsTheRightVm

----------------------------------------------------------------------------
(* New VMs.                                                                *)

(***************************************************************************)
(* A slot of a plan is of an offered size and holds its jobs with the idle *)
(* capacity it claims, merged slots included, whatever the sizes on offer. *)
(***************************************************************************)
THEOREM SlotsHoldJobs == Spec => []SlotsHoldTheirJobs
<1>1. Inv => SlotsHoldTheirJobs
  BY DEF Inv
<1> QED BY <1>1, Invariance, PTL

(***************************************************************************)
(* merge_ leaves nothing to merge.                                         *)
(***************************************************************************)
THEOREM NothingLeftToMerge == Spec => []MergedFully
<1>1. Inv => MergedFully
  BY DEF Inv
<1> QED BY <1>1, Invariance, PTL

(***************************************************************************)
(* A plan has every queued job once: on an existing VM or in one slot.     *)
(***************************************************************************)
THEOREM PlansAreComplete == Spec => []EveryJobIsPlacedOnce
<1>1. ASSUME Inv
      PROVE  EveryJobIsPlacedOnce
  <2> USE <1>1 DEF Inv
  <2> SUFFICES ASSUME phase = "done", NEW j \in Jobs
               PROVE  Cardinality({k \in DOMAIN desired : j \in desired[k].jobs})
                         = IF j \in DOMAIN jobToVm THEN 0 ELSE 1
    BY DEF EveryJobIsPlacedOnce
  <2> DEFINE slots == {k \in DOMAIN desired : j \in desired[k].jobs}
  <2>1. CASE j \in DOMAIN jobToVm
    <3>1. in.strategy # "Simple" /\ j \notin unplaced
      BY <2>1 DEF PlacedInv
    <3>2. slots = {}
      BY <3>1 DEF PlacedInv
    <3> QED BY <2>1, <3>2, FS_EmptySet
  <2>2. CASE j \notin DOMAIN jobToVm
    <3>1. PICK k : slots = {k}
      <4>1. CASE in.strategy = "Simple"
        <5>1. slots = {j}
          BY <4>1 DEF PlacedInv
        <5> QED BY <5>1
      <4>2. CASE in.strategy # "Simple"
        <5>1. j \in unplaced \ todo
          BY <2>2, <4>2 DEF PlacedInv
        <5>2. PICK k \in DOMAIN desired : j \in desired[k].jobs
          BY <4>2, <5>1 DEF PlacedInv
        <5>3. \A l \in DOMAIN desired : j \in desired[l].jobs => l = k
          BY <4>2, <5>2 DEF PlacedInv
        <5>4. slots = {k}
          BY <5>2, <5>3
        <5> QED BY <5>4
      <4> QED BY <4>1, <4>2
    <3>2. Cardinality({k}) = 1
      BY FS_Singleton
    <3> HIDE DEF slots
    <3> QED BY <2>2, <3>1, <3>2 DEF slots
  <2> QED BY <2>1, <2>2
<1> QED BY <1>1, Invariance, PTL

(***************************************************************************)
(* getInstanceTypeForSlot, which searches the sorted types by the total    *)
(* order, finds the type of a size on offer.                               *)
(***************************************************************************)
LEMMA TypeOfOfferedSize ==
  ASSUME InputMeans, NEW c, Offered(c)
  PROVE  InstanceTypesForSlot(c) = {c}
<1> DEFINE n == Len(in.slots)
           s == in.slots
           Stops(i) == /\ i > 1 => Less(s[i - 1], c)
                       /\ i <= n => ~Less(s[i], c)
<1>1. /\ n \in Nat \ {0} /\ DOMAIN s = 1 .. n
      /\ \A k \in 1 .. n : s[k] \in Capacity
      /\ \A i, k \in 1 .. n : i < k => ~Less(s[k], s[i])
  BY DEF InputMeans
<1>2. PICK m \in 1 .. n : s[m] = c
  BY <1>1 DEF Offered
<1>3. c \in Capacity
  BY <1>1, <1>2
<1>4. ASSUME NEW i \in 1 .. n + 1, Stops(i)
      PROVE  i <= n /\ s[i] = c
  <2>1. i <= m
    <3>1. SUFFICES ASSUME i > m PROVE FALSE
      BY <1>1
    <3>2. i - 1 \in 1 .. n /\ i > 1 /\ (i - 1 = m \/ m < i - 1)
      BY <1>1, <3>1
    <3>3. Less(s[i - 1], c)
      BY <1>4, <3>2
    <3>4. ~Less(c, c)
      BY <1>3, LessIsTotal
    <3> QED BY <1>1, <1>2, <3>2, <3>3, <3>4
  <2>2. i \in 1 .. n /\ ~Less(s[i], c)
    BY <1>1, <1>4, <2>1
  <2>3. CASE i = m
    BY <1>1, <1>2, <2>3
  <2>4. CASE i < m
    <3>1. ~Less(c, s[i])
      BY <1>1, <1>2, <2>2, <2>4
    <3> QED BY <1>1, <1>3, <2>2, <3>1, LessIsTotal
  <2> QED BY <1>1, <2>1, <2>3, <2>4
<1>5. \E i \in 1 .. n + 1 : Stops(i)
  <2> DEFINE N == {i \in 1 .. n : ~Less(s[i], c)}
  <2>1. N \in SUBSET Nat /\ N # {}
    <3>1. ~Less(s[m], c)
      BY <1>2, <1>3, LessIsTotal
    <3> QED BY <1>1, <3>1
  <2>2. PICK i \in N : \A k \in N : i <= k
    <3> HIDE DEF N
    <3> QED BY <2>1, LeastNat
  <2>3. i \in 1 .. n + 1 /\ ~Less(s[i], c)
    BY <1>1, <2>2
  <2>4. ASSUME i > 1
        PROVE  Less(s[i - 1], c)
    <3>1. i - 1 \in 1 .. n /\ ~(i <= i - 1)
      BY <1>1, <2>2, <2>4
    <3> QED BY <2>2, <3>1
  <2> QED BY <2>3, <2>4
<1>6. InstanceTypesForSlot(c) =
         {IF i > n THEN Last(s) ELSE s[i] : i \in {k \in 1 .. n + 1 : Stops(k)}}
  BY DEF InstanceTypesForSlot, LowerBounds
<1>7. \A i \in 1 .. n + 1 : Stops(i) => (IF i > n THEN Last(s) ELSE s[i]) = c
  BY <1>1, <1>4
<1> HIDE DEF Stops, s, n
<1> QED BY <1>5, <1>6, <1>7

(***************************************************************************)
(* The instance that is launched for a slot has the slot's capacity.       *)
(***************************************************************************)
THEOREM LaunchedAsPlanned == Spec => []InstanceIsTheSlot
<1>1. ASSUME Inv
      PROVE  InstanceIsTheSlot
  <2>1. InputMeans
    BY <1>1, InputFacts DEF Inv, TypeInv
  <2>2. in.strategy # "Simple" => \A k \in DOMAIN desired : Offered(desired[k].total)
    BY <1>1 DEF Inv, SlotsHoldTheirJobs
  <2> QED BY <2>1, <2>2, TypeOfOfferedSize DEF InstanceIsTheSlot
<1> QED BY <1>1, Invariance, PTL

=============================================================================
