---------------------------- MODULE PgPoolProofs ----------------------------
(***************************************************************************)
(* Theorems about the connection pool, for any finite sets of threads and  *)
(* connections and any number of storage calls.                            *)
(*                                                                         *)
(* PoolInv places every connection: it is once in the queue or in exactly  *)
(* one handle, the handle of a thread between connection() and             *)
(* freeConnection().  NoLostWakeup is inductive beside it: each step moves *)
(* the length of the queue and the number of threads about to look at it   *)
(* or to notify by the same amount.                                        *)
(***************************************************************************)
EXTENDS PgPool, FiniteSetTheorems, TLAPS

Distinct == \A i, j \in DOMAIN connectionPool :
                connectionPool[i] = connectionPool[j] => i = j

HandlesAreExclusive ==
    /\ \A t \in Threads : connection[t] # NoConnection => ~InPool(connection[t])
    /\ \A t, u \in Threads : connection[t] # NoConnection /\ connection[t] = connection[u]
                                => t = u

NothingLost == \A c \in Connections : InPool(c) \/ Holds(c) # {}

HandlesByPc ==
    \A t \in Threads :
        /\ connection[t] # NoConnection <=> pc[t] \in {"connected", "open", "closing"}
        /\ txn[t] # NoConnection =>
              \/ pc[t] \in {"open", "closing"} /\ txn[t] = connection[t]
              \/ pc[t] \in {"notifying", "destroying"}

PoolInv == TypeOK /\ Distinct /\ HandlesAreExclusive /\ NothingLost /\ HandlesByPc

----------------------------------------------------------------------------
(* The invariant.                                                          *)

(***************************************************************************)
(* The constructor of PgPool puts every connection into the queue, once:   *)
(* an injection from 1 .. poolSize is onto.                                *)
(***************************************************************************)
LEMMA InitPool == Init => PoolInv
<1> SUFFICES ASSUME Init PROVE PoolInv
  OBVIOUS
<1> DEFINE n == Cardinality(Connections)
<1>1. n \in Nat
  BY PgPoolAssumption, FS_CardinalityType
<1>2. /\ connectionPool \in [1 .. n -> Connections]
      /\ \A i, j \in DOMAIN connectionPool :
            connectionPool[i] = connectionPool[j] => i = j
  BY DEF Init
<1>3. connectionPool \in Injection(1 .. n, Connections)
  BY <1>2 DEF Injection, IsInjective
<1>4. Cardinality(1 .. n) = n
  BY <1>1, FS_Interval
<1>5. connectionPool \in Surjection(1 .. n, Connections)
  BY <1>3, <1>4, PgPoolAssumption, FS_Injection
<1>6. NothingLost
  BY <1>2, <1>5 DEF Surjection, NothingLost, InPool
<1>7. connectionPool \in Seq(Connections)
  BY <1>1, <1>2
<1>8. TypeOK
  BY <1>7, PgPoolAssumption DEF Init, TypeOK, Pcs
<1>9. Distinct /\ HandlesAreExclusive /\ HandlesByPc
  BY <1>2 DEF Init, Distinct, HandlesAreExclusive, HandlesByPc
<1> QED BY <1>6, <1>8, <1>9 DEF PoolInv

(***************************************************************************)
(* connection() takes the front of the queue: what is left is the queue    *)
(* without that connection.                                                *)
(***************************************************************************)
LEMMA Popped ==
  ASSUME TypeOK, Distinct, connectionPool # << >>,
         connectionPool' = Tail(connectionPool)
  PROVE  /\ connectionPool' \in Seq(Connections)
         /\ Len(connectionPool') = Len(connectionPool) - 1
         /\ Head(connectionPool) \in Connections
         /\ InPool(Head(connectionPool))
         /\ Distinct'
         /\ \A c : InPool(c)' <=> InPool(c) /\ c # Head(connectionPool)
<1>1. /\ connectionPool \in Seq(Connections)
      /\ Len(connectionPool) \in Nat \ {0}
      /\ DOMAIN connectionPool = 1 .. Len(connectionPool)
      /\ Head(connectionPool) = connectionPool[1]
      /\ 1 \in DOMAIN connectionPool
  BY DEF TypeOK
<1>2. /\ connectionPool' \in Seq(Connections)
      /\ Len(connectionPool') = Len(connectionPool) - 1
      /\ DOMAIN connectionPool' = 1 .. Len(connectionPool) - 1
      /\ \A i \in 1 .. Len(connectionPool) - 1 :
            connectionPool'[i] = connectionPool[i + 1]
  BY <1>1
<1>3. Distinct'
  <2> SUFFICES ASSUME NEW i \in DOMAIN connectionPool', NEW j \in DOMAIN connectionPool',
                      connectionPool'[i] = connectionPool'[j]
               PROVE  i = j
    BY DEF Distinct
  <2>1. /\ i + 1 \in DOMAIN connectionPool
        /\ j + 1 \in DOMAIN connectionPool
        /\ connectionPool[i + 1] = connectionPool[j + 1]
    BY <1>1, <1>2
  <2>2. i + 1 = j + 1
    BY <2>1 DEF Distinct
  <2> QED BY <1>2, <2>2
<1>4. ASSUME NEW c PROVE InPool(c)' <=> InPool(c) /\ c # Head(connectionPool)
  <2>1. ASSUME InPool(c)' PROVE InPool(c) /\ c # Head(connectionPool)
    <3>1. PICK i \in 1 .. Len(connectionPool) - 1 : connectionPool[i + 1] = c
      BY <1>2, <2>1 DEF InPool
    <3>2. i + 1 \in DOMAIN connectionPool /\ i + 1 # 1
      BY <1>1, <3>1
    <3> QED BY <1>1, <3>1, <3>2 DEF InPool, Distinct
  <2>2. ASSUME InPool(c), c # Head(connectionPool) PROVE InPool(c)'
    <3>1. PICK i \in 1 .. Len(connectionPool) : connectionPool[i] = c
      BY <1>1, <2>2 DEF InPool
    <3>2. i - 1 \in 1 .. Len(connectionPool) - 1 /\ (i - 1) + 1 = i
      BY <1>1, <2>2, <3>1
    <3>3. connectionPool'[i - 1] = c
      BY <1>2, <3>1, <3>2
    <3> QED BY <1>2, <3>2, <3>3 DEF InPool
  <2> QED BY <2>1, <2>2
<1>5. InPool(Head(connectionPool)) /\ Head(connectionPool) \in Connections
  BY <1>1 DEF InPool
<1> QED BY <1>2, <1>3, <1>4, <1>5

(***************************************************************************)
(* freeConnection() appends a connection that was not in the queue.        *)
(***************************************************************************)
LEMMA Pushed ==
  ASSUME TypeOK, Distinct, NEW d \in Connections, ~InPool(d),
         connectionPool' = Append(connectionPool, d)
  PROVE  /\ connectionPool' \in Seq(Connections)
         /\ Len(connectionPool') = Len(connectionPool) + 1
         /\ Distinct'
         /\ \A c : InPool(c)' <=> InPool(c) \/ c = d
<1>1. /\ connectionPool \in Seq(Connections)
      /\ Len(connectionPool) \in Nat
      /\ DOMAIN connectionPool = 1 .. Len(connectionPool)
  BY DEF TypeOK
<1>2. /\ connectionPool' \in Seq(Connections)
      /\ Len(connectionPool') = Len(connectionPool) + 1
      /\ DOMAIN connectionPool' = 1 .. Len(connectionPool) + 1
      /\ connectionPool'[Len(connectionPool) + 1] = d
      /\ \A i \in DOMAIN connectionPool : connectionPool'[i] = connectionPool[i]
  BY <1>1
<1>3. \A i \in DOMAIN connectionPool' :
         i \in DOMAIN connectionPool \/ i = Len(connectionPool) + 1
  BY <1>1, <1>2
<1>4. \A i \in DOMAIN connectionPool : connectionPool[i] # d
  BY DEF InPool
<1>5. Distinct'
  BY <1>2, <1>3, <1>4 DEF Distinct
<1>6. Len(connectionPool) + 1 \in DOMAIN connectionPool'
      /\ \A i \in DOMAIN connectionPool : i \in DOMAIN connectionPool'
  BY <1>1, <1>2
<1>7. \A c : InPool(c)' <=> InPool(c) \/ c = d
  BY <1>2, <1>3, <1>6 DEF InPool
<1> QED BY <1>2, <1>5, <1>7

(***************************************************************************)
(* A step that leaves the queue and the handles alone, and takes a thread  *)
(* with or without a handle to another place of the same kind.             *)
(***************************************************************************)
LEMMA SameHandles ==
  ASSUME PoolInv, UNCHANGED <<connectionPool, connection>>, TypeOK', HandlesByPc'
  PROVE  PoolInv'
<1>1. Distinct' /\ HandlesAreExclusive' /\ NothingLost'
  BY DEF PoolInv, Distinct, HandlesAreExclusive, NothingLost, InPool, Holds
<1> QED BY <1>1 DEF PoolInv

(***************************************************************************)
(* Every step of a thread keeps each connection in exactly one place.      *)
(***************************************************************************)
LEMMA NextPool == PoolInv /\ [Next]_vars => PoolInv'
<1> SUFFICES ASSUME PoolInv, [Next]_vars PROVE PoolInv'
  OBVIOUS
<1>0. /\ TypeOK /\ Distinct /\ HandlesAreExclusive /\ NothingLost /\ HandlesByPc
      /\ connection \in [Threads -> Connections \cup {NoConnection}]
      /\ txn \in [Threads -> Connections \cup {NoConnection}]
      /\ pc \in [Threads -> Pcs]
      /\ calls \in [Threads -> 0 .. MaxCalls]
      /\ connectionPool \in Seq(Connections)
  BY DEF PoolInv, TypeOK
<1>1. ASSUME NEW t \in Threads, Call(t) PROVE PoolInv'
  <2>1. calls' \in [Threads -> 0 .. MaxCalls]
    BY <1>0, <1>1, PgPoolAssumption DEF Call
  <2>2. TypeOK'
    BY <1>0, <1>1, <2>1 DEF Call, TypeOK, Pcs
  <2>3. HandlesByPc'
    BY <1>0, <1>1 DEF Call, HandlesByPc
  <2> QED BY <1>1, <2>2, <2>3, SameHandles DEF Call
<1>2. ASSUME NEW t \in Threads, SpuriousWakeup(t) PROVE PoolInv'
  <2>1. TypeOK' /\ HandlesByPc'
    BY <1>0, <1>2 DEF SpuriousWakeup, TypeOK, Pcs, HandlesByPc
  <2> QED BY <1>2, <2>1, SameHandles DEF SpuriousWakeup
<1>3. ASSUME NEW t \in Threads, Connection(t) PROVE PoolInv'
  <2>1. CASE connectionPool = << >>
    <3>1. TypeOK' /\ HandlesByPc'
      BY <1>0, <1>3, <2>1 DEF Connection, TypeOK, Pcs, HandlesByPc
    <3> QED BY <1>3, <2>1, <3>1, SameHandles DEF Connection
  <2>2. CASE connectionPool # << >>
    <3> DEFINE h == Head(connectionPool)
    <3>1. /\ pc[t] = "asking"
          /\ connectionPool' = Tail(connectionPool)
          /\ connection' = [connection EXCEPT ![t] = h]
          /\ pc' = [pc EXCEPT ![t] = "connected"]
          /\ UNCHANGED <<txn, calls>>
      BY <1>3, <2>2 DEF Connection
    <3>2. /\ connectionPool' \in Seq(Connections)
          /\ h \in Connections
          /\ InPool(h)
          /\ Distinct'
          /\ \A c : InPool(c)' <=> InPool(c) /\ c # h
      BY <1>0, <2>2, <3>1, Popped
    <3> HIDE DEF h
    <3>3. connection[t] = NoConnection
      BY <1>0, <3>1 DEF HandlesByPc
    <3>4. TypeOK'
      BY <1>0, <3>1, <3>2 DEF TypeOK, Pcs
    <3>5. /\ connection'[t] = h
          /\ \A u \in Threads : u # t => connection'[u] = connection[u]
          /\ \A u \in Threads : connection[u] # h
      BY <1>0, <3>1, <3>2, PgPoolAssumption DEF HandlesAreExclusive
    <3>6. HandlesAreExclusive'
      BY <1>0, <3>2, <3>5 DEF HandlesAreExclusive
    <3>7. NothingLost'
      <4> SUFFICES ASSUME NEW c \in Connections, c # h, ~InPool(c)
                   PROVE  Holds(c)' # {}
        BY <3>2, <3>5 DEF NothingLost, Holds
      <4>1. PICK u \in Threads : connection[u] = c
        BY <1>0 DEF NothingLost, Holds
      <4>2. u # t
        BY <3>3, <4>1, PgPoolAssumption
      <4> QED BY <3>5, <4>1, <4>2 DEF Holds
    <3>8. HandlesByPc'
      BY <1>0, <3>1, <3>2, PgPoolAssumption DEF HandlesByPc
    <3> QED BY <3>2, <3>4, <3>6, <3>7, <3>8 DEF PoolInv
  <2> QED BY <2>1, <2>2
<1>4. ASSUME NEW t \in Threads,
             BeginTransaction(t) \/ EndTransaction(t) \/ LeaveTransaction(t)
      PROVE  PoolInv'
  <2>1. UNCHANGED <<connectionPool, connection>>
    BY <1>4 DEF BeginTransaction, EndTransaction, LeaveTransaction
  <2>2. TypeOK' /\ HandlesByPc'
    BY <1>0, <1>4
       DEF BeginTransaction, EndTransaction, LeaveTransaction, TypeOK, Pcs, HandlesByPc
  <2> QED BY <2>1, <2>2, SameHandles
<1>5. ASSUME NEW t \in Threads, FreeConnection(t) PROVE PoolInv'
  <2> DEFINE d == connection[t]
  <2>1. /\ pc[t] = "closing"
        /\ connectionPool' = Append(connectionPool, d)
        /\ connection' = [connection EXCEPT ![t] = NoConnection]
        /\ pc' = [pc EXCEPT ![t] = "notifying"]
        /\ UNCHANGED <<txn, calls>>
    BY <1>5 DEF FreeConnection
  <2>2. d \in Connections /\ d # NoConnection /\ ~InPool(d)
    BY <1>0, <2>1 DEF HandlesByPc, HandlesAreExclusive
  <2> HIDE DEF d
  <2>3. /\ connectionPool' \in Seq(Connections)
        /\ Distinct'
        /\ \A c : InPool(c)' <=> InPool(c) \/ c = d
    BY <1>0, <2>1, <2>2, Pushed
  <2>4. TypeOK'
    BY <1>0, <2>1, <2>3 DEF TypeOK, Pcs
  <2>5. /\ connection'[t] = NoConnection
        /\ \A u \in Threads : u # t => connection'[u] = connection[u] /\ connection[u] # d
    BY <1>0, <2>1, <2>2 DEF HandlesAreExclusive, d
  <2>6. HandlesAreExclusive'
    BY <1>0, <2>3, <2>5 DEF HandlesAreExclusive
  <2>7. NothingLost'
    <3> SUFFICES ASSUME NEW c \in Connections, c # d, ~InPool(c)
                 PROVE  Holds(c)' # {}
      BY <2>3 DEF NothingLost
    <3>1. PICK u \in Threads : connection[u] = c
      BY <1>0 DEF NothingLost, Holds
    <3>2. u # t
      BY <3>1 DEF d
    <3> QED BY <2>5, <3>1, <3>2 DEF Holds
  <2>8. HandlesByPc'
    BY <1>0, <2>1 DEF HandlesByPc
  <2> QED BY <2>3, <2>4, <2>6, <2>7, <2>8 DEF PoolInv
<1>6. ASSUME NEW t \in Threads, NotifyOne(t) PROVE PoolInv'
  <2>1. TypeOK' /\ HandlesByPc'
    <3>1. CASE pc' = [pc EXCEPT ![t] = "destroying"]
      BY <1>0, <1>6, <3>1 DEF NotifyOne, TypeOK, Pcs, HandlesByPc
    <3>2. ASSUME NEW u \in Waiting, pc' = [pc EXCEPT ![t] = "destroying", ![u] = "asking"]
          PROVE  TypeOK' /\ HandlesByPc'
      BY <1>0, <1>6, <3>2 DEF NotifyOne, Waiting, TypeOK, Pcs, HandlesByPc
    <3> QED BY <1>6, <3>1, <3>2 DEF NotifyOne
  <2> QED BY <1>6, <2>1, SameHandles DEF NotifyOne
<1>7. ASSUME NEW t \in Threads, DestroyTransaction(t) PROVE PoolInv'
  <2>1. TypeOK' /\ HandlesByPc'
    BY <1>0, <1>7 DEF DestroyTransaction, TypeOK, Pcs, HandlesByPc
  <2> QED BY <1>7, <2>1, SameHandles DEF DestroyTransaction
<1>8. CASE UNCHANGED vars
  BY <1>8 DEF vars, PoolInv, TypeOK, Distinct, HandlesAreExclusive, NothingLost,
              HandlesByPc, InPool, Holds
<1> QED BY <1>1, <1>2, <1>3, <1>4, <1>5, <1>6, <1>7, <1>8 DEF Next, Proceed

(***************************************************************************)
(* PoolInv holds in every reachable state.                                 *)
(***************************************************************************)
THEOREM PoolInvariance == Spec => []PoolInv
BY InitPool, NextPool, PTL DEF Spec

(***************************************************************************)
(* The queue only ever holds connections, and each handle a connection or  *)
(* null, in every state of any number of threads.                          *)
(***************************************************************************)
THEOREM PoolTypeCorrect == Spec => []TypeOK
<1>1. PoolInv => TypeOK
  BY DEF PoolInv
<1> QED BY <1>1, PoolInvariance, PTL

(***************************************************************************)
(* A transaction is refused for a busy connection only in the window that  *)
(* ~TransactionHandle leaves between freeConnection() and the destructor   *)
(* of txn_, for any number of threads.                                     *)
(***************************************************************************)
THEOREM BusyBehindDestructor == Spec => []BusyOnlyBehindDestructor
<1>1. PoolInv => BusyOnlyBehindDestructor
  <2> SUFFICES ASSUME PoolInv, NEW t \in Threads, NEW u \in Threads,
                      connection[t] # NoConnection, txn[u] = connection[t],
                      pc[u] \notin {"notifying", "destroying"}
               PROVE  u = t
    BY DEF BusyOnlyBehindDestructor
  <2>1. txn[u] = connection[u]
    BY DEF PoolInv, HandlesByPc
  <2> QED BY <2>1 DEF PoolInv, HandlesAreExclusive
<1> QED BY <1>1, PoolInvariance, PTL

----------------------------------------------------------------------------
(* Wakeups.                                                                *)

\* The threads that will look at the queue or wake one that will.
Alert == {t \in Threads : pc[t] \in {"asking", "notifying"}}

(***************************************************************************)
(* Threads are finitely many, and one thread more or less counts for one.  *)
(***************************************************************************)
LEMMA AlertCounts ==
  /\ Cardinality(Alert) \in Nat
  /\ \A t : /\ Cardinality(Alert \cup {t}) =
                  IF t \in Alert THEN Cardinality(Alert) ELSE Cardinality(Alert) + 1
            /\ Cardinality(Alert \ {t}) =
                  IF t \in Alert THEN Cardinality(Alert) - 1 ELSE Cardinality(Alert)
<1>1. IsFiniteSet(Alert)
  BY PgPoolAssumption, FS_Subset DEF Alert
<1> QED BY <1>1, FS_CardinalityType, FS_AddElement, FS_RemoveElement

(***************************************************************************)
(* NoLostWakeup is preserved by every step: a thread that takes a          *)
(* connection stops being alert, one that gives a connection back becomes  *)
(* alert, and a notification hands the alert on to a waiting thread.       *)
(***************************************************************************)
LEMMA NextWakeup == PoolInv /\ NoLostWakeup /\ [Next]_vars => NoLostWakeup'
<1> SUFFICES ASSUME PoolInv, NoLostWakeup, [Next]_vars, Waiting' # {}
             PROVE  Len(connectionPool') <= Cardinality(Alert')
  BY DEF NoLostWakeup, Alert
<1>0. /\ TypeOK /\ Distinct
      /\ pc \in [Threads -> Pcs]
      /\ connectionPool \in Seq(Connections)
      /\ Len(connectionPool) \in Nat
      /\ Cardinality(Alert) \in Nat
      /\ Waiting # {} => Len(connectionPool) <= Cardinality(Alert)
  BY AlertCounts DEF PoolInv, TypeOK, NoLostWakeup, Alert
<1>1. ASSUME NEW t \in Threads, Call(t) \/ SpuriousWakeup(t)
      PROVE  Len(connectionPool') <= Cardinality(Alert')
  <2>1. Alert' = Alert \cup {t} /\ Waiting' \subseteq Waiting
    BY <1>0, <1>1 DEF Call, SpuriousWakeup, Alert, Waiting
  <2>2. connectionPool' = connectionPool
    BY <1>1 DEF Call, SpuriousWakeup
  <2>3. Cardinality(Alert) <= Cardinality(Alert')
    BY <1>0, <2>1, AlertCounts
  <2>4. Cardinality(Alert') \in Nat
    BY AlertCounts, <1>0, <2>1
  <2>5. Len(connectionPool) <= Cardinality(Alert)
    BY <1>0, <2>1
  <2> QED BY <1>0, <2>2, <2>3, <2>4, <2>5
<1>2. ASSUME NEW t \in Threads, Connection(t)
      PROVE  Len(connectionPool') <= Cardinality(Alert')
  <2>1. Alert' = Alert \ {t} /\ t \in Alert
    BY <1>0, <1>2 DEF Connection, Alert
  <2>2. CASE connectionPool = << >>
    <3>1. Len(connectionPool') = 0
      BY <1>2, <2>2 DEF Connection
    <3>2. t \in Alert => Cardinality(Alert) >= 1
      <4>1. Alert # {}
        BY <2>1
      <4>2. IsFiniteSet(Alert)
        BY PgPoolAssumption, FS_Subset DEF Alert
      <4> QED BY <1>0, <4>1, <4>2, FS_EmptySet
    <3> QED BY <1>0, <2>1, <3>1, <3>2, AlertCounts
  <2>3. CASE connectionPool # << >>
    <3>1. Len(connectionPool') = Len(connectionPool) - 1
      BY <1>0, <1>2, <2>3, Popped DEF Connection
    <3>2. Waiting' \subseteq Waiting
      BY <1>0, <1>2, <2>3 DEF Connection, Waiting
    <3> QED BY <1>0, <2>1, <3>1, <3>2, AlertCounts
  <2> QED BY <2>2, <2>3
<1>3. ASSUME NEW t \in Threads,
             \/ BeginTransaction(t) \/ EndTransaction(t)
             \/ LeaveTransaction(t) \/ DestroyTransaction(t)
      PROVE  Len(connectionPool') <= Cardinality(Alert')
  <2>1. Alert' = Alert /\ Waiting' = Waiting /\ connectionPool' = connectionPool
    BY <1>0, <1>3 DEF BeginTransaction, EndTransaction, LeaveTransaction,
                      DestroyTransaction, Alert, Waiting
  <2> QED BY <1>0, <2>1
<1>4. ASSUME NEW t \in Threads, FreeConnection(t)
      PROVE  Len(connectionPool') <= Cardinality(Alert')
  <2>1. Alert' = Alert \cup {t} /\ t \notin Alert /\ Waiting' = Waiting
    BY <1>0, <1>4 DEF FreeConnection, Alert, Waiting
  <2>2. connection[t] \in Connections /\ ~InPool(connection[t])
    BY <1>4 DEF FreeConnection, PoolInv, TypeOK, HandlesByPc, HandlesAreExclusive
  <2>3. Len(connectionPool') = Len(connectionPool) + 1
    BY <1>0, <1>4, <2>2, Pushed DEF FreeConnection
  <2> QED BY <1>0, <2>1, <2>3, AlertCounts
<1>5. ASSUME NEW t \in Threads, NotifyOne(t)
      PROVE  Len(connectionPool') <= Cardinality(Alert')
  <2>1. CASE Waiting = {} /\ pc' = [pc EXCEPT ![t] = "destroying"]
    BY <1>0, <2>1 DEF Waiting
  <2>2. ASSUME NEW u \in Waiting, pc' = [pc EXCEPT ![t] = "destroying", ![u] = "asking"]
        PROVE  Len(connectionPool') <= Cardinality(Alert')
    <3>1. t \in Alert /\ u \notin Alert /\ u # t /\ u \in Threads
      BY <1>5, <2>2 DEF NotifyOne, Alert, Waiting
    <3>2. Alert' = (Alert \cup {u}) \ {t}
      BY <1>0, <2>2, <3>1 DEF Alert
    <3>3. IsFiniteSet(Alert \cup {u})
      BY PgPoolAssumption, FS_Subset, <3>1 DEF Alert
    <3>4. Cardinality(Alert') = Cardinality(Alert \cup {u}) - 1
      BY <3>1, <3>2, <3>3, FS_RemoveElement
    <3>5. Cardinality(Alert \cup {u}) = Cardinality(Alert) + 1
      BY <3>1, AlertCounts
    <3>6. connectionPool' = connectionPool /\ Waiting # {}
      BY <1>5, <2>2 DEF NotifyOne
    <3> QED BY <1>0, <3>4, <3>5, <3>6
  <2> QED BY <1>5, <2>1, <2>2 DEF NotifyOne
<1>6. CASE UNCHANGED vars
  BY <1>0, <1>6 DEF vars, Alert, Waiting
<1> QED BY <1>1, <1>2, <1>3, <1>4, <1>5, <1>6 DEF Next, Proceed

(***************************************************************************)
(* No wakeup of poolNotEmpty_ is lost although freeConnection() notifies   *)
(* after it has released mutex_, for any number of threads, connections    *)
(* and spurious wakeups.                                                   *)
(***************************************************************************)
THEOREM WakeupsKept == Spec => []NoLostWakeup
<1>1. Init => NoLostWakeup
  BY DEF Init, NoLostWakeup, Waiting
<1> QED BY <1>1, NextWakeup, PoolInvariance, PTL DEF Spec

----------------------------------------------------------------------------
(* Refinement.                                                             *)

OwnersKnown ==
    \A c \in Connections :
        /\ InPool(c) => Owner(c) = Nobody
        /\ \A t \in Threads : connection[t] = c => Owner(c) = t

(***************************************************************************)
(* The owner of a connection under PoolInv: nobody while it is in the      *)
(* queue, and otherwise the one thread whose handle has it.                *)
(***************************************************************************)
LEMMA OwnerOf == PoolInv => OwnersKnown
<1> SUFFICES ASSUME PoolInv, NEW c \in Connections
             PROVE  /\ InPool(c) => Owner(c) = Nobody
                    /\ \A t \in Threads : connection[t] = c => Owner(c) = t
  BY DEF OwnersKnown
<1>1. c # NoConnection
  BY PgPoolAssumption
<1>2. ASSUME InPool(c) PROVE Owner(c) = Nobody
  <2>1. Holds(c) = {}
    BY <1>1, <1>2 DEF PoolInv, HandlesAreExclusive, Holds
  <2> QED BY <1>2, <2>1 DEF Owner
<1>3. ASSUME NEW t \in Threads, connection[t] = c PROVE Owner(c) = t
  <2>1. ~InPool(c)
    BY <1>1, <1>3 DEF PoolInv, HandlesAreExclusive
  <2>2. Holds(c) = {t}
    BY <1>1, <1>3 DEF PoolInv, HandlesAreExclusive, Holds
  <2>3. (CHOOSE u \in Threads : Holds(c) = {u}) = t
    BY <2>2
  <2> QED BY <2>1, <2>2, <2>3 DEF Owner
<1> QED BY <1>2, <1>3

(***************************************************************************)
(* PgPool implements ConnectionPool: connection() acquires a connection of *)
(* nobody, freeConnection() releases the one its thread owns, and no other *)
(* step changes an owner.                                                  *)
(***************************************************************************)
THEOREM PoolImplemented == Spec => ImplementsConnectionPool
<1> DEFINE owners == [c \in Connections |-> Owner(c)]
<1>1. Init => Abstract!Init
  <2> SUFFICES ASSUME Init PROVE \A c \in Connections : Owner(c) = Nobody
    BY DEF Abstract!Init
  <2>1. PoolInv
    BY InitPool
  <2>2. \A t \in Threads : connection[t] = NoConnection
    BY DEF Init
  <2> QED BY <2>1, <2>2, OwnerOf, PgPoolAssumption DEF OwnersKnown, PoolInv, NothingLost, Holds
<1>2. PoolInv /\ PoolInv' /\ [Next]_vars => [Abstract!Next]_owners
  <2> SUFFICES ASSUME PoolInv, PoolInv', [Next]_vars PROVE [Abstract!Next]_owners
    OBVIOUS
  <2>0. OwnersKnown /\ OwnersKnown'
    BY OwnerOf, PTL
  <2>1. \A c \in Connections :
           /\ InPool(c) => Owner(c) = Nobody
           /\ \A t \in Threads : connection[t] = c => Owner(c) = t
    BY <2>0 DEF OwnersKnown
  <2>2. \A c \in Connections :
           /\ InPool(c)' => Owner(c)' = Nobody
           /\ \A t \in Threads : connection'[t] = c => Owner(c)' = t
    BY <2>0 DEF OwnersKnown
  <2>3. \A c \in Connections :
           InPool(c) \/ \E t \in Threads : connection[t] = c
    BY DEF PoolInv, NothingLost, Holds
  <2>4. CASE UNCHANGED <<connectionPool, connection>>
    <3>1. \A c \in Connections : Owner(c)' = Owner(c)
      BY <2>4 DEF Owner, InPool, Holds
    <3> QED BY <3>1
  <2>5. ASSUME NEW t \in Threads, Connection(t), connectionPool # << >>
        PROVE  Abstract!Next
    <3>0. PICK h \in Connections : h = Head(connectionPool)
      BY <2>5, Popped DEF Connection, PoolInv
    <3>1. InPool(h)
      BY <2>5, <3>0, Popped DEF Connection, PoolInv
    <3>2. \A c : InPool(c)' <=> InPool(c) /\ c # h
      BY <2>5, <3>0, Popped DEF Connection, PoolInv
    <3>3. connection[t] = NoConnection /\ connection' = [connection EXCEPT ![t] = h]
      BY <2>5, <3>0 DEF Connection, PoolInv, HandlesByPc
    <3>4. connection'[t] = h /\ \A u \in Threads : u # t => connection'[u] = connection[u]
      BY <3>3 DEF PoolInv, TypeOK
    <3>5. Owner(h) = Nobody /\ Owner(h)' = t
      BY <2>1, <2>2, <3>1, <3>4
    <3>6. \A c \in Connections : Owner(c) # t
      BY <2>1, <2>3, <3>3, PgPoolAssumption
    <3>7. ASSUME NEW c \in Connections, c # h PROVE Owner(c)' = Owner(c)
      <4>1. CASE InPool(c)
        BY <2>1, <2>2, <3>2, <3>7, <4>1
      <4>2. ASSUME NEW u \in Threads, connection[u] = c PROVE Owner(c)' = Owner(c)
        <5>1. connection'[u] = c
          BY <3>3, <3>4, <4>2, PgPoolAssumption
        <5> QED BY <2>1, <2>2, <4>2, <5>1
      <4> QED BY <2>3, <4>1, <4>2
    <3>8. Abstract!Acquire(t, h)
      BY <3>1, <3>5, <3>6, <3>7 DEF Abstract!Acquire
    <3> QED BY <3>1, <3>8 DEF Abstract!Next
  <2>6. ASSUME NEW t \in Threads, FreeConnection(t)
        PROVE  Abstract!Next
    <3>0. PICK d \in Connections : d = connection[t]
      BY <2>6 DEF FreeConnection, PoolInv, TypeOK, HandlesByPc
    <3>1. ~InPool(d)
      BY <2>6, <3>0, PgPoolAssumption DEF PoolInv, HandlesAreExclusive
    <3>2. \A c : InPool(c)' <=> InPool(c) \/ c = d
      BY <2>6, <3>0, <3>1, Pushed DEF FreeConnection, PoolInv
    <3>3. \A u \in Threads : u # t => connection'[u] = connection[u]
      BY <2>6 DEF FreeConnection, PoolInv, TypeOK
    <3>4. Owner(d) = t /\ Owner(d)' = Nobody
      BY <2>1, <2>2, <3>0, <3>1, <3>2
    <3>5. ASSUME NEW c \in Connections, c # d PROVE Owner(c)' = Owner(c)
      <4>1. CASE InPool(c)
        BY <2>1, <2>2, <3>2, <4>1
      <4>2. ASSUME NEW u \in Threads, connection[u] = c PROVE Owner(c)' = Owner(c)
        <5>1. connection'[u] = c
          BY <3>0, <3>3, <3>5, <4>2
        <5> QED BY <2>1, <2>2, <4>2, <5>1
      <4> QED BY <2>3, <4>1, <4>2
    <3>6. Abstract!Release(t, d)
      BY <3>1, <3>4, <3>5 DEF Abstract!Release
    <3> QED BY <3>1, <3>6 DEF Abstract!Next
  <2>7. \/ UNCHANGED <<connectionPool, connection>>
        \/ \E t \in Threads : \/ Connection(t) /\ connectionPool # << >>
                              \/ FreeConnection(t)
    BY DEF Next, Proceed, vars, Call, SpuriousWakeup, Connection, BeginTransaction,
           EndTransaction, LeaveTransaction, NotifyOne, DestroyTransaction
  <2> QED BY <2>4, <2>5, <2>6, <2>7
<1> QED BY <1>1, <1>2, PoolInvariance, PTL
        DEF Spec, ImplementsConnectionPool, Abstract!Spec

=============================================================================
