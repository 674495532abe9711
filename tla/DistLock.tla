------------------------------ MODULE DistLock ------------------------------
(***************************************************************************)
(* DistributedLock over ZooKeeper.  Each replica creates an ephemeral node *)
(* with a sequence number; the replica whose node comes first claims the   *)
(* lock and watches its own node, any other watches the node before its    *)
(* own.  A watch is waited for by a detached thread that runs              *)
(* checkLockAcquired when it fires.                                        *)
(*                                                                         *)
(* Each ZooKeeper call is a step.  The children that a thread has read may *)
(* be stale when it decides, and the node it wants to watch may be gone    *)
(* when the server registers the watch: watch_exists then watches for the  *)
(* creation of a node that nobody will create.  On an expired session a    *)
(* call throws.  Either the client gets a new session, which is what       *)
(* checkLockAcquired's search for its own node expects, or every retry     *)
(* throws and the recursion of checkLockAcquired ends the process.         *)
(*                                                                         *)
(* stop() is not modelled: nothing calls it.                               *)
(***************************************************************************)
EXTENDS Integers, FiniteSets, FiniteSetsExt

CONSTANTS
    Backends,     \* replicas
    Nobody,       \* no replica
    Modulus,      \* 10^9
    MaxSeq,       \* bound on the nodes ever created
    MaxExpiries,  \* bound on expired sessions
    MaxCrashes,   \* bound on crashes of replicas
    MaxFailures   \* bound on failed create calls

ASSUME DistLockAssumption ==
    /\ Nobody \notin Backends
    /\ {Modulus, MaxSeq, MaxExpiries, MaxCrashes, MaxFailures} \subseteq Nat
    /\ Modulus > 0

NoNumber == -1

Seqs == 1 .. MaxSeq

\* A failed create leaves a thread with one more check to make, and each
\* check that succeeds starts a thread.
Slots == 1 .. MaxFailures + 1

VARIABLES
    created,      \* znodes ever created: the replica that created each
    znodes,       \* the znodes that exist
    orphans,      \* the nodes of each session whose process is dead
    session,      \* the session of each replica's client
    nodeName,     \* createdNodeName_ of each replica, 0: none yet
    lockNumber,   \* lockNumber_ of each replica
    thread,       \* the threads of each replica
    faults        \* faults so far, by kind

vars == <<created, znodes, orphans, session, nodeName, lockNumber, thread, faults>>

(***************************************************************************)
(* entering: lock() is next; locking: create is next; naming:              *)
(* createdNodeName_ is next; checking: get_children is next; deciding: the *)
(* children are known; requesting: the watch is not registered yet;        *)
(* watching: it is; waiting: it is, for a node that did not exist.         *)
(* again: calls of checkLockAcquired that the callers of lock() still have *)
(* to make.                                                                *)
(***************************************************************************)
Pcs == {"off", "entering", "locking", "naming", "checking", "deciding", "requesting",
        "watching", "waiting"}

Thread == [pc : Pcs, node : 0 .. MaxSeq, children : SUBSET Seqs,
           again : 0 .. MaxFailures]

OffThread == [pc |-> "off", node |-> 0, children |-> {}, again |-> 0]

NewProcess == [k \in Slots |-> IF k = 1 THEN [OffThread EXCEPT !.pc = "entering"]
                                        ELSE OffThread]

NoFaults == [expiries |-> 0, crashes |-> 0, failures |-> 0]

Init ==
    /\ created = [n \in Seqs |-> Nobody]
    /\ znodes = {}
    /\ orphans = {}
    /\ session = [b \in Backends |-> "live"]
    /\ nodeName = [b \in Backends |-> 0]
    /\ lockNumber = [b \in Backends |-> NoNumber]
    /\ thread = [b \in Backends |-> NewProcess]
    /\ faults = NoFaults

TypeOK ==
    /\ created \in [Seqs -> Backends \cup {Nobody}]
    /\ znodes \subseteq Seqs
    /\ orphans \subseteq SUBSET Seqs
    /\ session \in [Backends -> {"live", "expired"}]
    /\ nodeName \in [Backends -> 0 .. MaxSeq]
    /\ lockNumber \in [Backends -> {NoNumber} \cup 0 .. Modulus - 1]
    /\ thread \in [Backends -> [Slots -> Thread]]
    /\ faults.expiries <= MaxExpiries
    /\ faults.crashes <= MaxCrashes
    /\ faults.failures <= MaxFailures

\* Mutant of GetZxid: only the last binary digit is read.
GetLastDigit(n) == n % 2

GetZxid(n) == n % Modulus

\* The order of std::sort on pairs of a zxid and a name.
Before(m, n) == \/ GetZxid(m) < GetZxid(n)
                \/ GetZxid(m) = GetZxid(n) /\ m < n

FirstOf(S) == CHOOSE m \in S : \A n \in S \ {m} : Before(m, n)

LastOf(S) == CHOOSE m \in S : \A n \in S \ {m} : Before(n, m)

\* The sequence numbers that are left: ZooKeeper's counter only grows.
NextSeq == {n \in Seqs : /\ created[n] = Nobody
                         /\ \A m \in Seqs : m < n => created[m] # Nobody}

----------------------------------------------------------------------------
(* lock().                                                                 *)

Goto(b, k, pc) == thread' = [thread EXCEPT ![b][k].pc = pc]

\* Mutant of EnterLock: the number is kept until there is a new one.
EnterLockKeeping(b, k) ==
    /\ thread[b][k].pc = "entering"
    /\ Goto(b, k, "locking")
    /\ UNCHANGED <<created, znodes, orphans, session, nodeName, lockNumber, faults>>

EnterLock(b, k) ==
    /\ thread[b][k].pc = "entering"
    /\ lockNumber' = [lockNumber EXCEPT ![b] = NoNumber]
    /\ Goto(b, k, "locking")
    /\ UNCHANGED <<created, znodes, orphans, session, nodeName, faults>>

NewNode(b, n) ==
    /\ n \in NextSeq
    /\ session[b] = "live"
    /\ created' = [created EXCEPT ![n] = b]
    /\ znodes' = znodes \cup {n}

CreateNode(b, k) ==
    /\ thread[b][k].pc = "locking"
    /\ \E n \in Seqs :
          /\ NewNode(b, n)
          /\ thread' = [thread EXCEPT ![b][k].pc = "naming", ![b][k].node = n]
    /\ UNCHANGED <<orphans, session, nodeName, lockNumber, faults>>

\* The call throws, with or without an effect: lock() is called again, and
\* checkLockAcquired once more when it returns.
CreateFails(b, k) ==
    /\ thread[b][k].pc = "locking"
    /\ faults.failures < MaxFailures
    /\ faults' = [faults EXCEPT !.failures = @ + 1]
    /\ UNCHANGED <<created, znodes>> \/ \E n \in Seqs : NewNode(b, n)
    /\ thread' = [thread EXCEPT ![b][k].pc = "entering", ![b][k].again = @ + 1]
    /\ UNCHANGED <<orphans, session, nodeName, lockNumber>>

NameNode(b, k) ==
    /\ thread[b][k].pc = "naming"
    /\ nodeName' = [nodeName EXCEPT ![b] = thread[b][k].node]
    /\ Goto(b, k, "checking")
    /\ UNCHANGED <<created, znodes, orphans, session, lockNumber, faults>>

----------------------------------------------------------------------------
(* checkLockAcquired().                                                    *)

\* On an expired session the call throws and is made again: no step.
GetChildren(b, k) ==
    /\ thread[b][k].pc = "checking"
    /\ session[b] = "live"
    /\ thread' = [thread EXCEPT ![b][k].pc = "deciding", ![b][k].children = znodes]
    /\ UNCHANGED <<created, znodes, orphans, session, nodeName, lockNumber, faults>>

FreeSlot(b) == Min({k \in Slots : thread[b][k].pc = "off"})

\* A thread that watches n is started.  The current one ends, unless some
\* caller of lock() has a check to make.
StartWatch(b, k, n) ==
    LET watcher == [OffThread EXCEPT !.pc = "requesting", !.node = n]
    IN  thread' = IF thread[b][k].again = 0
                  THEN [thread EXCEPT ![b][k] = watcher]
                  ELSE [thread EXCEPT ![b][FreeSlot(b)] = watcher,
                                      ![b][k].pc = "checking",
                                      ![b][k].children = {},
                                      ![b][k].again = @ - 1]

NodesOf(b) == {n \in znodes \ UNION orphans : created[n] = b}

(***************************************************************************)
(* The replica dies and is started again.  The nodes of its session live   *)
(* on until that session expires.                                          *)
(***************************************************************************)
Restart(b) ==
    /\ orphans' = orphans \cup ({NodesOf(b)} \ {{}})
    /\ session' = [session EXCEPT ![b] = "live"]
    /\ nodeName' = [nodeName EXCEPT ![b] = 0]
    /\ lockNumber' = [lockNumber EXCEPT ![b] = NoNumber]
    /\ thread' = [thread EXCEPT ![b] = NewProcess]
    /\ UNCHANGED <<created, znodes>>

\* it == begin(): the node is the first one.
DecideFirst(b, k) ==
    LET children == thread[b][k].children
    IN  /\ thread[b][k].pc = "deciding"
        /\ nodeName[b] \in children
        /\ FirstOf(children) = nodeName[b]
        /\ lockNumber' = [lockNumber EXCEPT ![b] = GetZxid(nodeName[b])]
        /\ StartWatch(b, k, nodeName[b])
        /\ UNCHANGED <<created, znodes, orphans, session, nodeName, faults>>

\* it == begin() == end(): there is no node at all.  The past-the-end iterator
\* of a vector without storage is dereferenced, and the process dies.
DecideOnNothing(b, k) ==
    /\ thread[b][k].pc = "deciding"
    /\ thread[b][k].children = {}
    /\ Restart(b)
    /\ UNCHANGED faults

\* it == end(): the node is not there, and lock() starts over.
DecideGone(b, k) ==
    /\ thread[b][k].pc = "deciding"
    /\ thread[b][k].children # {} /\ nodeName[b] \notin thread[b][k].children
    /\ thread' = [thread EXCEPT ![b][k].pc = "entering", ![b][k].children = {}]
    /\ UNCHANGED <<created, znodes, orphans, session, nodeName, lockNumber, faults>>

DecideLater(b, k) ==
    LET children == thread[b][k].children
        before == {n \in children : Before(n, nodeName[b])}
    IN  /\ thread[b][k].pc = "deciding"
        /\ nodeName[b] \in children
        /\ before # {}
        /\ StartWatch(b, k, LastOf(before))
        /\ UNCHANGED <<created, znodes, orphans, session, nodeName, lockNumber, faults>>

----------------------------------------------------------------------------
(* Watches: retryLock() and retryCheckLockAcquired().                      *)

\* The server registers the watch, or the call throws and the thread checks.
RegisterWatch(b, k) ==
    /\ thread[b][k].pc = "requesting"
    /\ Goto(b, k, IF session[b] = "expired" THEN "checking"
                  ELSE IF thread[b][k].node \in znodes THEN "watching"
                  ELSE "waiting")
    /\ UNCHANGED <<created, znodes, orphans, session, nodeName, lockNumber, faults>>

WatchFires(b, k) ==
    /\ thread[b][k].pc = "watching"
    /\ thread[b][k].node \notin znodes
    /\ session[b] = "live"
    /\ Goto(b, k, "checking")
    /\ UNCHANGED <<created, znodes, orphans, session, nodeName, lockNumber, faults>>

----------------------------------------------------------------------------
(* ZooKeeper and faults.                                                   *)

Expire(b) ==
    /\ session[b] = "live"
    /\ faults.expiries < MaxExpiries
    /\ faults' = [faults EXCEPT !.expiries = @ + 1]
    /\ session' = [session EXCEPT ![b] = "expired"]
    /\ znodes' = znodes \ NodesOf(b)
    /\ UNCHANGED <<created, orphans, nodeName, lockNumber, thread>>

OrphansExpire(S) ==
    /\ S \in orphans
    /\ orphans' = orphans \ {S}
    /\ znodes' = znodes \ S
    /\ UNCHANGED <<created, session, nodeName, lockNumber, thread, faults>>

\* The client has a new session; watches and requests of the old one throw.
Reconnect(b) ==
    /\ session[b] = "expired"
    /\ session' = [session EXCEPT ![b] = "live"]
    /\ thread' = [thread EXCEPT ![b] = [k \in Slots |->
            IF thread[b][k].pc \in {"requesting", "watching", "waiting"}
            THEN [thread[b][k] EXCEPT !.pc = "checking"] ELSE thread[b][k]]]
    /\ UNCHANGED <<created, znodes, orphans, nodeName, lockNumber, faults>>

\* checkLockAcquired calls itself whenever a call has thrown.
RetriesExhaustTheStack(b) ==
    /\ session[b] = "expired"
    /\ Restart(b)
    /\ UNCHANGED faults

Crash(b) ==
    /\ faults.crashes < MaxCrashes
    /\ faults' = [faults EXCEPT !.crashes = @ + 1]
    /\ Restart(b)

----------------------------------------------------------------------------
ThreadStep(b, k) ==
    \/ EnterLock(b, k)
    \/ CreateNode(b, k)
    \/ NameNode(b, k)
    \/ GetChildren(b, k)
    \/ DecideFirst(b, k)
    \/ DecideOnNothing(b, k)
    \/ DecideGone(b, k)
    \/ DecideLater(b, k)
    \/ RegisterWatch(b, k)
    \/ WatchFires(b, k)

SessionEnds(b) == Reconnect(b) \/ RetriesExhaustTheStack(b)

Next ==
    \/ \E b \in Backends :
          \/ \E k \in Slots : ThreadStep(b, k) \/ CreateFails(b, k)
          \/ Expire(b)
          \/ SessionEnds(b)
          \/ Crash(b)
    \/ \E S \in SUBSET Seqs : OrphansExpire(S)

Spec == Init /\ [][Next]_vars

(***************************************************************************)
(* Threads run, ZooKeeper expires the sessions of dead processes, and a    *)
(* client finds out that its session has expired.                          *)
(***************************************************************************)
FairSpec ==
    /\ Spec
    /\ \A b \in Backends : /\ WF_vars(SessionEnds(b))
                           /\ \A k \in Slots : WF_vars(ThreadStep(b, k))
    /\ WF_vars(\E S \in SUBSET Seqs : OrphansExpire(S))

----------------------------------------------------------------------------
(* Properties.                                                             *)

\* The replica claims the number of a node of its own that exists.
Leads(b) == \E n \in znodes : created[n] = b /\ lockNumber[b] = GetZxid(n)

(***************************************************************************)
(* At most one replica claims the lock with a node that still exists: the  *)
(* children that checkLockAcquired decides on may be stale, but nodes only *)
(* come behind those that are there.                                       *)
(***************************************************************************)
AtMostOneLeads == \A b, c \in Backends : Leads(b) /\ Leads(c) => b = c

Granted == INSTANCE LeaderLock WITH grantee <- created, Numbers <- Seqs

(***************************************************************************)
(* The lock implements what the scheduler may rely on: no two replicas are *)
(* ever given the same number, and a replica claims only its own numbers,  *)
(* across crashes, lost sessions and threads that decide on old children.  *)
(***************************************************************************)
ImplementsLeaderLock == Granted!Spec

\* The watch on n was registered when n was gone already, and will not fire.
WatchMissed(b, n) ==
    /\ session[b] = "live"
    /\ \E k \in Slots : thread[b][k].pc = "waiting" /\ thread[b][k].node = n

(***************************************************************************)
(* A replica gives up the number of a node that is gone with its session   *)
(* (retryCheckLockAcquired, lock), so that it stops planning: the watch on *)
(* its own node tells it, or the call that throws.  The one exception is a *)
(* thread that claims the number after the reconnect, on children from     *)
(* before the expiry: its watch comes after the node went, and the replica *)
(* may claim the dead number for ever.                                     *)
(***************************************************************************)
StaleNumberIsDropped ==
    \A b \in Backends, n \in Seqs :
        lockNumber[b] = GetZxid(n) /\ created[n] = b /\ n \notin znodes
            ~> lockNumber[b] # GetZxid(n) \/ WatchMissed(b, n)

(***************************************************************************)
(* "Only one of the replicas of cre scheduler has to be active at any      *)
(* time, this is what distributed locking via ZooKeeper is used for."      *)
(* (docs/architecture.md): when nothing fails any more, some replica       *)
(* leads.                                                                  *)
(***************************************************************************)
SomeReplicaLeads == <>(\E b \in Backends : Leads(b))

=============================================================================
