------------------------------- MODULE PgPool -------------------------------
(***************************************************************************)
(* The pool of PostgreSQL connections, pg::PgPool, and the life of a       *)
(* TransactionHandle in a thread that calls a method of PgTaskStorage.     *)
(*                                                                         *)
(* connection() and the first block of freeConnection() run under mutex_,  *)
(* so each is one step up to the point where it waits.  notify_one comes   *)
(* after the unlock and is a step of its own.  No method opens a second    *)
(* transaction while it has one.                                           *)
(*                                                                         *)
(* TransactionHandle declares txn_ before connectionHandle_: its destructor*)
(* gives the connection back first and destroys the transaction after      *)
(* that.  A transaction that was neither committed nor aborted is still    *)
(* registered with its connection in between.                              *)
(***************************************************************************)
EXTENDS Naturals, Sequences, FiniteSets

CONSTANTS
    Threads,        \* gRPC handlers and background threads
    Connections,    \* the poolSize connections
    NoConnection,   \* a null connection_
    Nobody,         \* no thread
    MaxCalls        \* bound on the storage calls of a thread

ASSUME PgPoolAssumption ==
    /\ IsFiniteSet(Threads)
    /\ IsFiniteSet(Connections)
    /\ NoConnection \notin Connections
    /\ Nobody \notin Threads
    /\ MaxCalls \in Nat

VARIABLES
    connectionPool,  \* PgPool::connectionPool_, a queue
    connection,      \* ConnectionHandle::connection_ of each thread
    txn,             \* the connection each thread's transaction is registered with
    pc,              \* where each thread is
    calls            \* storage calls made by each thread

vars == <<connectionPool, connection, txn, pc, calls>>

\* asking: before or after a wait, about to take mutex_; waiting: blocked on
\* poolNotEmpty_; closing, notifying, destroying: steps of the destructors.
Pcs == {"idle", "asking", "waiting", "connected", "open", "closing",
        "notifying", "destroying"}

Init ==
    /\ connectionPool \in {s \in [1 .. Cardinality(Connections) -> Connections] :
                              \A i, j \in DOMAIN s : s[i] = s[j] => i = j}
    /\ connection = [t \in Threads |-> NoConnection]
    /\ txn = [t \in Threads |-> NoConnection]
    /\ pc = [t \in Threads |-> "idle"]
    /\ calls = [t \in Threads |-> 0]

TypeOK ==
    /\ connectionPool \in Seq(Connections)
    /\ connection \in [Threads -> Connections \cup {NoConnection}]
    /\ txn \in [Threads -> Connections \cup {NoConnection}]
    /\ pc \in [Threads -> Pcs]
    /\ calls \in [Threads -> 0 .. MaxCalls]

----------------------------------------------------------------------------
\* A storage method starts.
Call(t) ==
    /\ pc[t] = "idle"
    /\ calls[t] < MaxCalls
    /\ calls' = [calls EXCEPT ![t] = @ + 1]
    /\ pc' = [pc EXCEPT ![t] = "asking"]
    /\ UNCHANGED <<connectionPool, connection, txn>>

Connection(t) ==
    /\ pc[t] = "asking"
    /\ \/ /\ connectionPool = << >>
          /\ pc' = [pc EXCEPT ![t] = "waiting"]
          /\ UNCHANGED <<connectionPool, connection>>
       \/ /\ connectionPool # << >>
          /\ connection' = [connection EXCEPT ![t] = Head(connectionPool)]
          /\ connectionPool' = Tail(connectionPool)
          /\ pc' = [pc EXCEPT ![t] = "connected"]
    /\ UNCHANGED <<txn, calls>>

SpuriousWakeup(t) ==
    /\ pc[t] = "waiting"
    /\ pc' = [pc EXCEPT ![t] = "asking"]
    /\ UNCHANGED <<connectionPool, connection, txn, calls>>

\* The connection still has a transaction registered.
Busy(c) == \E u \in Threads : txn[u] = c

\* The transaction object is made.  pqxx throws if the connection is busy or
\* broken; the local ConnectionHandle is then destroyed.
BeginTransaction(t) ==
    /\ pc[t] = "connected"
    /\ \/ /\ ~Busy(connection[t])
          /\ txn' = [txn EXCEPT ![t] = connection[t]]
          /\ pc' = [pc EXCEPT ![t] = "open"]
       \/ /\ pc' = [pc EXCEPT ![t] = "closing"]
          /\ UNCHANGED txn
    /\ UNCHANGED <<connectionPool, connection, calls>>

\* commit(), or the abort() of execQuery after a failed statement.
EndTransaction(t) ==
    /\ pc[t] = "open"
    /\ txn' = [txn EXCEPT ![t] = NoConnection]
    /\ pc' = [pc EXCEPT ![t] = "closing"]
    /\ UNCHANGED <<connectionPool, connection, calls>>

\* A method returns without a commit: every read-only one does.
LeaveTransaction(t) ==
    /\ pc[t] = "open"
    /\ pc' = [pc EXCEPT ![t] = "closing"]
    /\ UNCHANGED <<connectionPool, connection, txn, calls>>

\* Mutant of FreeConnection: the handle does not give its connection up.
ShareConnection(t) ==
    /\ pc[t] = "closing"
    /\ connectionPool' = Append(connectionPool, connection[t])
    /\ pc' = [pc EXCEPT ![t] = "notifying"]
    /\ UNCHANGED <<connection, txn, calls>>

\* Mutant of FreeConnection: connection_ is reset before it is put back.
FreeNull(t) ==
    /\ pc[t] = "closing"
    /\ connectionPool' = Append(connectionPool, NoConnection)
    /\ connection' = [connection EXCEPT ![t] = NoConnection]
    /\ pc' = [pc EXCEPT ![t] = "notifying"]
    /\ UNCHANGED <<txn, calls>>

FreeConnection(t) ==
    /\ pc[t] = "closing"
    /\ connectionPool' = Append(connectionPool, connection[t])
    /\ connection' = [connection EXCEPT ![t] = NoConnection]
    /\ pc' = [pc EXCEPT ![t] = "notifying"]
    /\ UNCHANGED <<txn, calls>>

Waiting == {t \in Threads : pc[t] = "waiting"}

\* Mutant of NotifyOne: nobody is notified.
NotifyNobody(t) ==
    /\ pc[t] = "notifying"
    /\ pc' = [pc EXCEPT ![t] = "destroying"]
    /\ UNCHANGED <<connectionPool, connection, txn, calls>>

NotifyOne(t) ==
    /\ pc[t] = "notifying"
    /\ \/ /\ Waiting = {}
          /\ pc' = [pc EXCEPT ![t] = "destroying"]
       \/ \E u \in Waiting :
             pc' = [pc EXCEPT ![t] = "destroying", ![u] = "asking"]
    /\ UNCHANGED <<connectionPool, connection, txn, calls>>

\* The destructor of txn_, after that of connectionHandle_.
DestroyTransaction(t) ==
    /\ pc[t] = "destroying"
    /\ txn' = [txn EXCEPT ![t] = NoConnection]
    /\ pc' = [pc EXCEPT ![t] = "idle"]
    /\ UNCHANGED <<connectionPool, connection, calls>>

----------------------------------------------------------------------------
\* What a thread does once it has been called, unless it is blocked.
Proceed(t) ==
    \/ Connection(t)
    \/ BeginTransaction(t)
    \/ EndTransaction(t)
    \/ LeaveTransaction(t)
    \/ FreeConnection(t)
    \/ NotifyOne(t)
    \/ DestroyTransaction(t)

Next == \E t \in Threads : Call(t) \/ SpuriousWakeup(t) \/ Proceed(t)

Spec == Init /\ [][Next]_vars

FairSpec == Spec /\ \A t \in Threads : WF_vars(Proceed(t))

----------------------------------------------------------------------------
(* Properties.                                                             *)

Holds(c) == {t \in Threads : connection[t] = c}

InPool(c) == \E i \in DOMAIN connectionPool : connectionPool[i] = c

\* A connection that is both in the pool and in a handle, in two handles, or in
\* neither is no connection the abstract pool has.
Owner(c) ==
    CASE InPool(c) /\ Holds(c) = {} -> Nobody
      [] ~InPool(c) /\ \E t \in Threads : Holds(c) = {t} ->
            CHOOSE t \in Threads : Holds(c) = {t}
      [] OTHER -> NoConnection

Abstract == INSTANCE ConnectionPool
                WITH owner <- [c \in Connections |-> Owner(c)]

(***************************************************************************)
(* PgPool is a connection pool: whatever threads fail, wake up for nothing *)
(* or overtake each other, a connection is never in two handles, never     *)
(* both in a handle and given out again, and never lost.                   *)
(***************************************************************************)
ImplementsConnectionPool == Abstract!Spec

(***************************************************************************)
(* No wakeup is lost, though notify_one is called without the mutex: when  *)
(* a thread waits for poolNotEmpty_, each connection in the queue has      *)
(* another thread that is about to take it or about to notify.             *)
(***************************************************************************)
NoLostWakeup ==
    Waiting # {} =>
        Len(connectionPool) <=
            Cardinality({t \in Threads : pc[t] \in {"asking", "notifying"}})

(***************************************************************************)
(* A thread can find its connection busy only behind the destructor of the *)
(* handle that had it before: the connection's registered transaction is   *)
(* the thread's own, or that of a thread which has given the connection    *)
(* back and not yet destroyed txn_.                                        *)
(***************************************************************************)
BusyOnlyBehindDestructor ==
    \A t, u \in Threads :
        /\ connection[t] # NoConnection
        /\ txn[u] = connection[t]
        => u = t \/ pc[u] \in {"notifying", "destroying"}

(***************************************************************************)
(* Every call gets a connection in the end, when transactions end and      *)
(* callers do not come back for ever.                                      *)
(***************************************************************************)
EveryCallIsServed == \A t \in Threads : pc[t] = "asking" ~> pc[t] = "connected"

=============================================================================
