--------------------------- MODULE DistLockProofs ---------------------------
(***************************************************************************)
(* DistLock is safe for any number of replicas, threads and faults, as     *)
(* long as the sequence numbers of the nodes have no more than nine digits *)
(* (MaxSeq < Modulus).                                                     *)
(*                                                                         *)
(* The argument: nodes only come behind those that were ever created, so a *)
(* node that a thread has not seen is later than every node it has seen.   *)
(* A replica that decides on old children is therefore still right that    *)
(* its node is the first, and a number it claims is at most that of any    *)
(* node that exists.                                                       *)
(***************************************************************************)
EXTENDS DistLock, WellFoundedInduction, TLAPS

Record == [pc : Pcs, node : 0 .. MaxSeq, children : SUBSET Seqs, again : Int]

Types ==
    /\ created \in [Seqs -> Backends \cup {Nobody}]
    /\ znodes \in SUBSET Seqs
    /\ nodeName \in [Backends -> 0 .. MaxSeq]
    /\ lockNumber \in [Backends -> Int]
    /\ thread \in [Backends -> [Slots -> Record]]

\* Numbers are used in their order, and a node that exists was created.
NodesOk(cr, zn) ==
    /\ \A m, n \in Seqs : m < n /\ cr[n] # Nobody => cr[m] # Nobody
    /\ \A n \in zn : cr[n] # Nobody

\* What a thread r of replica b has seen is earlier than what it has not.
RecordOk(b, r, cr, zn) ==
    /\ \A c \in r.children : cr[c] # Nobody
    /\ \A c \in r.children, m \in zn \ r.children : c < m
    /\ r.pc = "naming" => r.node \in Seqs /\ cr[r.node] = b

NameOk(b, name, cr) == name # 0 => name \in Seqs /\ cr[name] = b

NumberOk(b, number, cr, zn) ==
    number # NoNumber =>
        /\ number \in Seqs
        /\ cr[number] = b
        /\ \A m \in zn : number <= m

Inv ==
    /\ Types
    /\ NodesOk(created, znodes)
    /\ \A b \in Backends, k \in Slots : RecordOk(b, thread[b][k], created, znodes)
    /\ \A b \in Backends : NameOk(b, nodeName[b], created)
    /\ \A b \in Backends : NumberOk(b, lockNumber[b], created, znodes)

----------------------------------------------------------------------------
(* The order of the nodes.                                                 *)

\* A set of numbers that is not empty has a least one.
LEMMA MinExists ==
    ASSUME NEW S \in SUBSET Nat, S # {}
    PROVE  \E m \in S : \A n \in S : m <= n
<1>1. PICK m \in S : \A n \in S : ~(<<n, m>> \in OpToRel(<, Nat))
    BY WFMin, NatLessThanWellFounded
<1>2. ASSUME NEW n \in S PROVE m <= n
    <2>1. <<n, m>> \in Nat \X Nat
        OBVIOUS
    <2>2. ~(n < m)
        BY <1>1, <2>1 DEF OpToRel
    <2> QED BY <2>2
<1> QED BY <1>2

\* A set of sequence numbers that is not empty has a greatest one.
LEMMA MaxExists ==
    ASSUME NEW S \in SUBSET Seqs, S # {}
    PROVE  \E m \in S : \A n \in S : n <= m
<1> DEFINE T == {MaxSeq - n : n \in S}
<1>1. MaxSeq \in Nat
    BY DistLockAssumption
<1>2. T \in SUBSET Nat /\ T # {}
    <2>1. \A n \in S : MaxSeq - n \in Nat
        BY <1>1 DEF Seqs
    <2>2. PICK n \in S : TRUE
        OBVIOUS
    <2>3. MaxSeq - n \in T
        BY <2>2
    <2> QED BY <2>1, <2>3
<1>3. PICK t \in T : \A u \in T : t <= u
    BY <1>2, MinExists
<1>4. PICK m \in S : t = MaxSeq - m
    BY <1>3
<1>5. ASSUME NEW n \in S PROVE n <= m
    <2>1. MaxSeq - n \in T
        OBVIOUS
    <2>2. MaxSeq - m <= MaxSeq - n
        BY <1>3, <1>4, <2>1
    <2> QED BY <1>1, <2>2 DEF Seqs
<1> QED BY <1>5

\* Below the modulus getZxid keeps the order of the nodes.
LEMMA BeforeIsLess ==
    ASSUME MaxSeq < Modulus, NEW m \in Seqs, NEW n \in Seqs
    PROVE  /\ GetZxid(m) = m
           /\ Before(m, n) <=> m < n
<1>1. MaxSeq \in Nat /\ Modulus \in Nat
    BY DistLockAssumption
<1>2. \A x \in Seqs : x % Modulus = x
    BY <1>1 DEF Seqs
<1> QED BY <1>1, <1>2 DEF GetZxid, Before, Seqs

\* The first node of a sorted list of children is the least.
LEMMA FirstIsLeast ==
    ASSUME MaxSeq < Modulus, NEW S \in SUBSET Seqs, S # {}
    PROVE  FirstOf(S) \in S /\ \A n \in S : FirstOf(S) <= n
<1>1. MaxSeq \in Nat /\ Seqs \subseteq Nat
    BY DistLockAssumption DEF Seqs
<1>2. PICK m \in S : \A n \in S : m <= n
    BY <1>1, MinExists
<1>3. \A n \in S \ {m} : Before(m, n)
    BY <1>1, <1>2, BeforeIsLess
<1>4. FirstOf(S) \in S /\ \A n \in S \ {FirstOf(S)} : Before(FirstOf(S), n)
    BY <1>3 DEF FirstOf
<1>5. ASSUME NEW n \in S PROVE FirstOf(S) <= n
    <2>1. CASE n = FirstOf(S)
        BY <1>1, <1>4, <2>1
    <2>2. CASE n # FirstOf(S)
        <3>1. Before(FirstOf(S), n) /\ FirstOf(S) \in Seqs /\ n \in Seqs
            BY <1>4, <2>2
        <3>2. FirstOf(S) < n
            BY <3>1, BeforeIsLess
        <3>3. FirstOf(S) \in Nat /\ n \in Nat
            BY <1>1, <3>1
        <3> QED BY <3>2, <3>3
    <2> QED BY <2>1, <2>2
<1> QED BY <1>4, <1>5

\* The last node of a list of children is one of them.
LEMMA LastIsMember ==
    ASSUME MaxSeq < Modulus, NEW S \in SUBSET Seqs, S # {}
    PROVE  LastOf(S) \in S
<1>1. MaxSeq \in Nat /\ Seqs \subseteq Nat
    BY DistLockAssumption DEF Seqs
<1>2. PICK m \in S : \A n \in S : n <= m
    BY MaxExists
<1>3. \A n \in S \ {m} : Before(n, m)
    BY <1>1, <1>2, BeforeIsLess
<1> QED BY <1>3 DEF LastOf

----------------------------------------------------------------------------
(* Steps that create no node.                                              *)

\* Record s of a thread comes after r, and has seen no more than r.
Calm(s, r) ==
    /\ s \in Record
    /\ s.children = r.children \/ s.children = {}
    /\ s.pc = "naming" => r.pc = "naming" /\ s.node = r.node

Calms(t) ==
    /\ t \in [Backends -> [Slots -> Record]]
    /\ \A b \in Backends, k \in Slots : Calm(t[b][k], thread[b][k])

\* A step that creates nothing and only lets threads forget keeps the invariant,
\* if the names and numbers it sets are right.
LEMMA CalmStep ==
    ASSUME Inv, created' = created, znodes' \in SUBSET znodes, Calms(thread'),
           nodeName' \in [Backends -> 0 .. MaxSeq],
           lockNumber' \in [Backends -> Int],
           \A b \in Backends : NameOk(b, nodeName'[b], created),
           \A b \in Backends : \/ lockNumber'[b] \in {lockNumber[b], NoNumber}
                               \/ NumberOk(b, lockNumber'[b], created, znodes)
    PROVE  Inv'
<1>1. Types'
    BY DEF Inv, Types, Calms
<1>2. NodesOk(created, znodes)'
    BY DEF Inv, NodesOk
<1>3. ASSUME NEW b \in Backends, NEW k \in Slots
      PROVE  RecordOk(b, thread'[b][k], created', znodes')
    <2>1. Calm(thread'[b][k], thread[b][k]) /\ RecordOk(b, thread[b][k], created, znodes)
        BY DEF Inv, Calms
    <2> QED BY <2>1 DEF Calm, RecordOk
<1>4. ASSUME NEW b \in Backends PROVE NumberOk(b, lockNumber'[b], created', znodes')
    BY DEF Inv, NumberOk
<1> QED BY <1>1, <1>2, <1>3, <1>4 DEF Inv

\* A step of one thread.
LEMMA OneThread ==
    ASSUME Inv, NEW b \in Backends, NEW k \in Slots, NEW r, Calm(r, thread[b][k])
    PROVE  Calms([thread EXCEPT ![b][k] = r])
BY DEF Inv, Types, Calms, Calm

\* A thread that only moves on has seen no more.
LEMMA Goes ==
    ASSUME Inv, NEW b \in Backends, NEW k \in Slots, NEW pc \in Pcs \ {"naming"},
           Goto(b, k, pc)
    PROVE  Calms(thread')
<1> DEFINE r == [thread[b][k] EXCEPT !.pc = pc]
<1>1. thread[b][k] \in Record
    BY DEF Inv, Types
<1>2. Calm(r, thread[b][k])
    BY <1>1 DEF Calm, Record
<1>3. thread' = [thread EXCEPT ![b][k] = r]
    BY DEF Goto
<1> QED BY <1>2, <1>3, OneThread

\* A slot without a thread is a record.
LEMMA OffIsRecord == OffThread \in Record
BY DistLockAssumption DEF OffThread, Record, Pcs

\* Starting the thread of a watch lets no thread see more.
LEMMA StartsWatch ==
    ASSUME Inv, NEW b \in Backends, NEW k \in Slots, NEW n \in 0 .. MaxSeq,
           StartWatch(b, k, n)
    PROVE  Calms(thread')
<1> DEFINE w == [OffThread EXCEPT !.pc = "requesting", !.node = n]
<1>1. thread[b][k] \in Record /\ thread \in [Backends -> [Slots -> Record]]
    BY DEF Inv, Types
<1>2. w \in Record /\ w.children = {} /\ w.pc = "requesting"
    BY OffIsRecord DEF OffThread, Record, Pcs
<1>4. CASE thread[b][k].again = 0
    <2>1. thread' = [thread EXCEPT ![b][k] = w]
        BY <1>4 DEF StartWatch
    <2>2. Calm(w, thread[b][k])
        BY <1>2 DEF Calm
    <2> QED BY <2>1, <2>2, OneThread
<1>5. CASE thread[b][k].again # 0
    <2>1. thread' = [thread EXCEPT ![b][FreeSlot(b)] = w,
                                   ![b][k].pc = "checking", ![b][k].children = {},
                                   ![b][k].again = @ - 1]
        BY <1>5 DEF StartWatch
    <2> HIDE DEF w
    <2>2. ASSUME NEW c \in Backends, NEW j \in Slots
          PROVE  thread'[c][j] \in {thread[c][j], w} \/
                 (thread'[c][j] \in Record /\ thread'[c][j].children = {} /\
                  thread'[c][j].pc = "checking")
        BY <1>1, <1>2, <2>1 DEF Record, Pcs
    <2>3. thread' \in [Backends -> [Slots -> Record]]
        BY <1>1, <1>2, <2>1 DEF Record, Pcs
    <2>4. ASSUME NEW c \in Backends, NEW j \in Slots
          PROVE  Calm(thread'[c][j], thread[c][j])
        BY <1>1, <1>2, <2>2, <2>3 DEF Calm
    <2> QED BY <2>3, <2>4 DEF Calms
<1> QED BY <1>4, <1>5

\* A restarted process knows no node and claims no number.
LEMMA Restarts ==
    ASSUME Inv, NEW b \in Backends, Restart(b)
    PROVE  Inv'
<1>1. NewProcess \in [Slots -> Record]
    BY OffIsRecord DEF NewProcess, OffThread, Record, Pcs
<1>2. \A k \in Slots : NewProcess[k].children = {} /\ NewProcess[k].pc # "naming"
    BY DEF NewProcess, OffThread
<1>3. Calms(thread')
    <2>1. thread' = [thread EXCEPT ![b] = NewProcess] /\ Types
        BY DEF Restart, Inv
    <2>2. thread' \in [Backends -> [Slots -> Record]]
        BY <1>1, <2>1 DEF Types
    <2>3. ASSUME NEW c \in Backends, NEW k \in Slots
          PROVE  Calm(thread'[c][k], thread[c][k])
        <3>1. CASE c = b
            BY <1>2, <2>1, <2>2, <3>1 DEF Types, Calm
        <3>2. CASE c # b
            BY <2>1, <2>2, <3>2 DEF Types, Calm
        <3> QED BY <3>1, <3>2
    <2> QED BY <2>2, <2>3 DEF Calms
<1>4. /\ nodeName' \in [Backends -> 0 .. MaxSeq]
      /\ \A c \in Backends : NameOk(c, nodeName'[c], created)
    BY DistLockAssumption DEF Restart, Inv, Types, NameOk
<1>5. /\ lockNumber' \in [Backends -> Int]
      /\ \A c \in Backends : lockNumber'[c] \in {lockNumber[c], NoNumber}
    BY DEF Restart, Inv, Types, NoNumber
<1> QED BY <1>3, <1>4, <1>5, CalmStep DEF Restart

\* A step that changes neither the names nor the numbers, and creates nothing.
LEMMA QuietStep ==
    ASSUME Inv, created' = created, znodes' \in SUBSET znodes, Calms(thread'),
           nodeName' = nodeName, lockNumber' = lockNumber
    PROVE  Inv'
BY CalmStep DEF Inv, Types

\* Threads that do not move have seen no more.
LEMMA SameThreads ==
    ASSUME Inv, thread' = thread
    PROVE  Calms(thread')
BY DEF Inv, Types, Calms, Calm

\* lock() drops the number.
LEMMA EnterLockKeeps ==
    ASSUME Inv, NEW b \in Backends, NEW k \in Slots, EnterLock(b, k)
    PROVE  Inv'
<1>1. Calms(thread')
    BY Goes DEF EnterLock, Pcs
<1>2. /\ lockNumber' \in [Backends -> Int]
      /\ \A c \in Backends : lockNumber'[c] \in {lockNumber[c], NoNumber}
    BY DEF EnterLock, Inv, Types, NoNumber
<1>3. /\ nodeName' \in [Backends -> 0 .. MaxSeq]
      /\ \A c \in Backends : NameOk(c, nodeName'[c], created)
    BY DEF EnterLock, Inv, Types
<1> QED BY <1>1, <1>2, <1>3, CalmStep DEF EnterLock

\* createdNodeName_ is set to a node of the replica's own.
LEMMA NameNodeKeeps ==
    ASSUME Inv, NEW b \in Backends, NEW k \in Slots, NameNode(b, k)
    PROVE  Inv'
<1>1. Calms(thread')
    BY Goes DEF NameNode, Pcs
<1>2. thread[b][k].node \in Seqs /\ created[thread[b][k].node] = b
    BY DEF NameNode, Inv, RecordOk
<1>3. /\ nodeName' \in [Backends -> 0 .. MaxSeq]
      /\ \A c \in Backends : NameOk(c, nodeName'[c], created)
    BY <1>2, DistLockAssumption DEF NameNode, Inv, Types, NameOk, Seqs
<1>4. lockNumber' \in [Backends -> Int] /\ lockNumber' = lockNumber
    BY DEF NameNode, Inv, Types
<1> QED BY <1>1, <1>3, <1>4, CalmStep DEF NameNode

\* The number that checkLockAcquired claims is that of an own node and is at most
\* that of every node that exists, also when the children are old.
LEMMA DecideFirstKeeps ==
    ASSUME MaxSeq < Modulus, Inv, NEW b \in Backends, NEW k \in Slots, DecideFirst(b, k)
    PROVE  /\ Inv'
           /\ nodeName[b] \in Seqs /\ created[nodeName[b]] = b
           /\ lockNumber' = [lockNumber EXCEPT ![b] = nodeName[b]]
<1> DEFINE n == nodeName[b]
           S == thread[b][k].children
<1>1. /\ S \in SUBSET Seqs /\ n \in S /\ n = FirstOf(S)
      /\ StartWatch(b, k, n)
      /\ lockNumber' = [lockNumber EXCEPT ![b] = GetZxid(n)]
      /\ created' = created /\ znodes' = znodes /\ nodeName' = nodeName
    BY DEF DecideFirst, Inv, Types, Record
<1>2. n \in Seqs /\ created[n] = b /\ GetZxid(n) = n /\ n \in Int
    BY <1>1, BeforeIsLess, DistLockAssumption DEF Inv, NameOk, Seqs
<1>3. \A m \in znodes : n <= m
    <2>1. \A m \in S : n <= m
        BY <1>1, FirstIsLeast
    <2>2. \A m \in znodes \ S : n < m
        BY <1>1 DEF Inv, RecordOk
    <2>3. znodes \subseteq Int
        BY DistLockAssumption DEF Inv, Types, Seqs
    <2> HIDE DEF n
    <2> QED BY <1>2, <2>1, <2>2, <2>3
<1>4. lockNumber' = [lockNumber EXCEPT ![b] = n]
    BY <1>1, <1>2
<1>5. Calms(thread')
    BY <1>1, StartsWatch DEF Inv, Types
<1>6. NumberOk(b, n, created, znodes)
    BY <1>2, <1>3 DEF NumberOk
<1>7. /\ lockNumber' \in [Backends -> Int]
      /\ \A c \in Backends : \/ lockNumber'[c] \in {lockNumber[c], NoNumber}
                             \/ NumberOk(c, lockNumber'[c], created, znodes)
    BY <1>2, <1>4, <1>6 DEF Inv, Types
<1>8. /\ nodeName' \in [Backends -> 0 .. MaxSeq]
      /\ \A c \in Backends : NameOk(c, nodeName'[c], created)
    BY <1>1 DEF Inv, Types
<1>9. Inv'
    BY <1>1, <1>5, <1>7, <1>8, CalmStep
<1> QED BY <1>2, <1>4, <1>9

\* The thread goes back to lock() and forgets the children.
LEMMA DecideGoneKeeps ==
    ASSUME Inv, NEW b \in Backends, NEW k \in Slots, DecideGone(b, k)
    PROVE  Inv'
<1> DEFINE r == [thread[b][k] EXCEPT !.pc = "entering", !.children = {}]
<1>1. thread[b][k] \in Record
    BY DEF Inv, Types
<1>2. Calm(r, thread[b][k])
    BY <1>1 DEF Calm, Record, Pcs
<1>3. thread' = [thread EXCEPT ![b][k] = r]
    BY DEF DecideGone
<1>4. Calms(thread')
    BY <1>2, <1>3, OneThread
<1> QED BY <1>4, QuietStep DEF DecideGone

\* The thread watches the node before its own.
LEMMA DecideLaterKeeps ==
    ASSUME MaxSeq < Modulus, Inv, NEW b \in Backends, NEW k \in Slots, DecideLater(b, k)
    PROVE  Inv'
<1> DEFINE S == {n \in thread[b][k].children : Before(n, nodeName[b])}
<1>1. S \in SUBSET Seqs /\ S # {} /\ StartWatch(b, k, LastOf(S))
    BY DEF DecideLater, Inv, Types, Record
<1> HIDE DEF S
<1>2. LastOf(S) \in Seqs
    BY <1>1, LastIsMember
<1>3. LastOf(S) \in 0 .. MaxSeq
    BY <1>2, DistLockAssumption DEF Seqs
<1>4. Calms(thread')
    BY <1>1, <1>3, StartsWatch
<1> QED BY <1>4, QuietStep DEF DecideLater

\* Registering a watch changes only where the thread is.
LEMMA RegisterWatchKeeps ==
    ASSUME Inv, NEW b \in Backends, NEW k \in Slots, RegisterWatch(b, k)
    PROVE  Inv'
<1>1. PICK pc \in {"checking", "watching", "waiting"} : Goto(b, k, pc)
    BY DEF RegisterWatch
<1>2. Calms(thread')
    BY <1>1, Goes DEF Pcs
<1> QED BY <1>2, QuietStep DEF RegisterWatch

\* So does a watch that fires.
LEMMA WatchFiresKeeps ==
    ASSUME Inv, NEW b \in Backends, NEW k \in Slots, WatchFires(b, k)
    PROVE  Inv'
<1>1. Calms(thread')
    BY Goes DEF WatchFires, Pcs
<1> QED BY <1>1, QuietStep DEF WatchFires

\* An expired session takes nodes away.
LEMMA ExpiryKeeps ==
    ASSUME Inv, NEW b \in Backends, Expire(b)
    PROVE  Inv'
BY SameThreads, QuietStep DEF Expire

\* So does the session of a dead process.
LEMMA OrphansExpireKeeps ==
    ASSUME Inv, NEW S \in SUBSET Seqs, OrphansExpire(S)
    PROVE  Inv'
BY SameThreads, QuietStep DEF OrphansExpire

\* A new session sends the watching threads to checkLockAcquired.
LEMMA ReconnectKeeps ==
    ASSUME Inv, NEW b \in Backends, Reconnect(b)
    PROVE  Inv'
<1>1. thread \in [Backends -> [Slots -> Record]]
    BY DEF Inv, Types
<1>2. ASSUME NEW c \in Backends, NEW k \in Slots
      PROVE  thread'[c][k] \in {thread[c][k], [thread[c][k] EXCEPT !.pc = "checking"]}
    BY <1>1 DEF Reconnect
<1>3. ASSUME NEW c \in Backends, NEW k \in Slots
      PROVE  Calm(thread'[c][k], thread[c][k])
    <2>1. thread[c][k] \in Record
        BY <1>1
    <2> QED BY <1>2, <2>1 DEF Calm, Record, Pcs
<1>4. thread' \in [Backends -> [Slots -> Record]]
    <2>1. ASSUME NEW k \in Slots PROVE [thread[b][k] EXCEPT !.pc = "checking"] \in Record
        <3>1. thread[b][k] \in Record
            BY <1>1
        <3> QED BY <3>1 DEF Record, Pcs
    <2> QED BY <1>1, <2>1 DEF Reconnect
<1>5. Calms(thread')
    BY <1>3, <1>4 DEF Calms
<1> QED BY <1>5, QuietStep DEF Reconnect

----------------------------------------------------------------------------
(* Steps that read or create nodes.                                        *)

\* A thread that reads the children has seen every node that exists.
LEMMA GetChildrenKeeps ==
    ASSUME Inv, NEW b \in Backends, NEW k \in Slots, GetChildren(b, k)
    PROVE  Inv'
<1> DEFINE r == [thread[b][k] EXCEPT !.pc = "deciding", !.children = znodes]
<1>1. thread \in [Backends -> [Slots -> Record]] /\ znodes \in SUBSET Seqs
    BY DEF Inv, Types
<1>2. r \in Record /\ r.children = znodes /\ r.pc = "deciding"
    <2>1. thread[b][k] \in Record
        BY <1>1
    <2> QED BY <1>1, <2>1 DEF Record, Pcs
<1>3. thread' = [thread EXCEPT ![b][k] = r]
    BY DEF GetChildren
<1> HIDE DEF r
<1>4. UNCHANGED <<created, znodes, nodeName, lockNumber>>
    BY DEF GetChildren
<1>5. RecordOk(b, r, created, znodes)
    BY <1>2 DEF RecordOk, Inv, NodesOk
<1>6. \A c \in Backends, j \in Slots : thread'[c][j] = thread[c][j] \/ (c = b /\ thread'[c][j] = r)
    BY <1>1, <1>3
<1>7. thread' \in [Backends -> [Slots -> Record]]
    BY <1>1, <1>2, <1>3
<1>8. \A c \in Backends, j \in Slots : RecordOk(c, thread'[c][j], created, znodes)
    BY <1>5, <1>6 DEF Inv
<1> QED BY <1>4, <1>7, <1>8 DEF Inv, Types

\* A new node is later than every node that was ever created.
LEMMA NewNodeIsLast ==
    ASSUME Inv, NEW b \in Backends, NEW n \in Seqs, NewNode(b, n)
    PROVE  /\ \A m \in Seqs : created[m] # Nobody => m < n
           /\ created[n] = Nobody
           /\ created' \in [Seqs -> Backends \cup {Nobody}]
           /\ \A m \in Seqs : created'[m] = IF m = n THEN b ELSE created[m]
           /\ znodes' = znodes \cup {n}
           /\ NodesOk(created', znodes')
<1>1. /\ created[n] = Nobody /\ \A m \in Seqs : m < n => created[m] # Nobody
      /\ created \in [Seqs -> Backends \cup {Nobody}]
      /\ created' = [created EXCEPT ![n] = b] /\ znodes' = znodes \cup {n}
      /\ b # Nobody /\ znodes \in SUBSET Seqs /\ Seqs \subseteq Int
    BY DistLockAssumption DEF NewNode, NextSeq, Inv, Types, Seqs
<1>2. \A m \in Seqs : created[m] # Nobody => m < n
    BY <1>1 DEF Inv, NodesOk
<1>3. \A m \in Seqs : created'[m] = IF m = n THEN b ELSE created[m]
    BY <1>1
<1>4. NodesOk(created', znodes')
    BY <1>1, <1>2, <1>3 DEF Inv, NodesOk
<1> QED BY <1>1, <1>2, <1>3, <1>4

\* Creating a node n keeps the invariant, whatever the thread does next that
\* has seen no more; it may remember n.
LEMMA NewNodeKeeps ==
    ASSUME Inv, NEW b \in Backends, NEW k \in Slots, NEW n \in Seqs, NewNode(b, n),
           NEW r \in Record, r.children = thread[b][k].children,
           r.pc = "naming" => r.node = n,
           thread' = [thread EXCEPT ![b][k] = r], UNCHANGED <<nodeName, lockNumber>>
    PROVE  Inv'
<1>1. /\ \A m \in Seqs : created[m] # Nobody => m < n
      /\ created[n] = Nobody
      /\ created' \in [Seqs -> Backends \cup {Nobody}]
      /\ \A m \in Seqs : created'[m] = IF m = n THEN b ELSE created[m]
      /\ znodes' = znodes \cup {n}
      /\ NodesOk(created', znodes')
    BY NewNodeIsLast
<1>2. /\ thread \in [Backends -> [Slots -> Record]] /\ znodes \in SUBSET Seqs
      /\ Seqs \subseteq Int /\ b # Nobody /\ Nobody \notin Backends
    BY DistLockAssumption DEF Inv, Types, Seqs
<1>3. Types'
    BY <1>1, <1>2 DEF Inv, Types
<1>4. ASSUME NEW c \in Backends, NEW s \in Record, RecordOk(c, s, created, znodes)
      PROVE  RecordOk(c, s, created', znodes')
    <2>1. s.children \in SUBSET Seqs
        BY DEF Record
    <2>2. \A m \in s.children : created'[m] # Nobody /\ m < n
        BY <1>1, <1>2, <1>4, <2>1 DEF RecordOk
    <2>3. \A m \in s.children, x \in znodes' \ s.children : m < x
        BY <1>1, <1>4, <2>2 DEF RecordOk
    <2>4. s.pc = "naming" => s.node \in Seqs /\ created'[s.node] = c
        BY <1>1, <1>2, <1>4 DEF RecordOk
    <2> QED BY <2>2, <2>3, <2>4 DEF RecordOk
<1>5. RecordOk(b, r, created', znodes')
    <2>1. RecordOk(b, thread[b][k], created', znodes')
        BY <1>2, <1>4 DEF Inv
    <2> QED BY <1>1, <2>1 DEF RecordOk
<1>6. \A c \in Backends, j \in Slots : RecordOk(c, thread'[c][j], created', znodes')
    <2> SUFFICES ASSUME NEW c \in Backends, NEW j \in Slots
                 PROVE  RecordOk(c, thread'[c][j], created', znodes')
        OBVIOUS
    <2>1. CASE c = b /\ j = k
        BY <1>2, <1>5, <2>1
    <2>2. CASE ~(c = b /\ j = k)
        <3>1. thread'[c][j] = thread[c][j]
            BY <1>2, <2>2
        <3> QED BY <1>2, <1>4, <3>1 DEF Inv
    <2> QED BY <2>1, <2>2
<1>7. \A c \in Backends : NameOk(c, nodeName'[c], created')
    BY <1>1, <1>2 DEF Inv, NameOk
<1>8. \A c \in Backends : NumberOk(c, lockNumber'[c], created', znodes')
    <2> SUFFICES ASSUME NEW c \in Backends, lockNumber[c] # NoNumber
                 PROVE  NumberOk(c, lockNumber[c], created', znodes')
        BY DEF NumberOk
    <2> DEFINE l == lockNumber[c]
    <2>1. l \in Seqs /\ created[l] = c /\ \A m \in znodes : l <= m
        BY DEF Inv, NumberOk
    <2> HIDE DEF l
    <2>2. l < n /\ created'[l] = c
        BY <1>1, <1>2, <2>1
    <2>3. \A m \in znodes' : l <= m
        BY <1>1, <1>2, <2>1, <2>2
    <2>4. NumberOk(c, l, created', znodes')
        BY <2>1, <2>2, <2>3 DEF NumberOk
    <2> QED BY <2>4 DEF l
<1> QED BY <1>1, <1>3, <1>6, <1>7, <1>8 DEF Inv

\* create, with the answer received.
LEMMA CreateNodeKeeps ==
    ASSUME Inv, NEW b \in Backends, NEW k \in Slots, CreateNode(b, k)
    PROVE  Inv'
<1>1. PICK n \in Seqs :
          /\ NewNode(b, n)
          /\ thread' = [thread EXCEPT ![b][k].pc = "naming", ![b][k].node = n]
    BY DEF CreateNode
<1> DEFINE r == [thread[b][k] EXCEPT !.pc = "naming", !.node = n]
<1>2. thread[b][k] \in Record /\ n \in 0 .. MaxSeq
    BY DistLockAssumption DEF Inv, Types, Seqs
<1>3. r \in Record /\ r.children = thread[b][k].children /\ r.node = n
    BY <1>2 DEF Record, Pcs
<1>4. thread' = [thread EXCEPT ![b][k] = r]
    BY <1>1
<1>5. UNCHANGED <<nodeName, lockNumber>>
    BY DEF CreateNode
<1> HIDE DEF r
<1>6. NewNode(b, n) /\ r.children = thread[b][k].children /\ (r.pc = "naming" => r.node = n)
    BY <1>1, <1>3
<1> QED BY <1>3, <1>4, <1>5, <1>6, NewNodeKeeps, Zenon

\* create, with or without an effect, whose answer is lost.
LEMMA CreateFailsKeeps ==
    ASSUME Inv, NEW b \in Backends, NEW k \in Slots, CreateFails(b, k)
    PROVE  Inv'
<1> DEFINE r == [thread[b][k] EXCEPT !.pc = "entering", !.again = @ + 1]
<1>1. thread[b][k] \in Record
    BY DEF Inv, Types
<1>2. thread[b][k].again + 1 \in Int
    BY <1>1 DEF Record
<1>3. r \in Record /\ r.children = thread[b][k].children /\ r.pc = "entering"
    BY <1>1, <1>2 DEF Record, Pcs
<1>4. thread' = [thread EXCEPT ![b][k] = r] /\ UNCHANGED <<nodeName, lockNumber>>
    BY DEF CreateFails
<1>5. CASE UNCHANGED <<created, znodes>>
    <2>1. Calms(thread')
        <3>1. Calm(r, thread[b][k])
            BY <1>3 DEF Calm
        <3> QED BY <1>4, <3>1, OneThread
    <2> QED BY <1>4, <1>5, <2>1, QuietStep
<1>6. ASSUME NEW n \in Seqs, NewNode(b, n) PROVE Inv'
    BY <1>3, <1>4, <1>6, NewNodeKeeps
<1> QED BY <1>5, <1>6 DEF CreateFails

----------------------------------------------------------------------------
(* The theorems.                                                           *)

\* The invariant holds before any replica calls lock().
LEMMA InitInv == Init => Inv
<1> SUFFICES ASSUME Init PROVE Inv
    OBVIOUS
<1>1. NewProcess \in [Slots -> Record]
    BY OffIsRecord DEF NewProcess, OffThread, Record, Pcs
<1>2. \A k \in Slots : NewProcess[k].children = {} /\ NewProcess[k].pc # "naming"
    BY DEF NewProcess, OffThread
<1>3. Types
    BY <1>1, DistLockAssumption DEF Init, Types, NoNumber
<1>4. NodesOk(created, znodes)
    BY DEF Init, NodesOk
<1>5. \A b \in Backends, k \in Slots : RecordOk(b, thread[b][k], created, znodes)
    BY <1>2 DEF Init, RecordOk
<1> QED BY <1>3, <1>4, <1>5 DEF Init, Inv, NameOk, NumberOk

\* Every step keeps the invariant.
LEMMA NextInv == MaxSeq < Modulus /\ Inv /\ [Next]_vars => Inv'
<1> SUFFICES ASSUME MaxSeq < Modulus, Inv, [Next]_vars PROVE Inv'
    OBVIOUS
<1>1. ASSUME NEW b \in Backends, NEW k \in Slots, ThreadStep(b, k) PROVE Inv'
    <2>1. CASE DecideOnNothing(b, k)
        BY <2>1, Restarts DEF DecideOnNothing
    <2>2. CASE ~DecideOnNothing(b, k)
        BY <1>1, <2>2, EnterLockKeeps, CreateNodeKeeps, NameNodeKeeps, GetChildrenKeeps,
           DecideFirstKeeps, DecideGoneKeeps, DecideLaterKeeps, RegisterWatchKeeps,
           WatchFiresKeeps DEF ThreadStep
    <2> QED BY <2>1, <2>2
<1>2. ASSUME NEW b \in Backends, NEW k \in Slots, CreateFails(b, k) PROVE Inv'
    BY <1>2, CreateFailsKeeps
<1>3. ASSUME NEW b \in Backends, Expire(b) PROVE Inv'
    BY <1>3, ExpiryKeeps
<1>4. ASSUME NEW b \in Backends, SessionEnds(b) PROVE Inv'
    BY <1>4, ReconnectKeeps, Restarts DEF SessionEnds, RetriesExhaustTheStack
<1>5. ASSUME NEW b \in Backends, Crash(b) PROVE Inv'
    BY <1>5, Restarts DEF Crash
<1>6. ASSUME NEW S \in SUBSET Seqs, OrphansExpire(S) PROVE Inv'
    BY <1>6, OrphansExpireKeeps
<1>7. CASE UNCHANGED vars
    BY <1>7, SameThreads, QuietStep DEF vars
<1> QED BY <1>1, <1>2, <1>3, <1>4, <1>5, <1>6, <1>7 DEF Next

(***************************************************************************)
(* The invariant above holds for any replicas, bounds and faults while the *)
(* numbers of the nodes keep their order in getZxid.                       *)
(***************************************************************************)
THEOREM LockInvariance ==
    ASSUME MaxSeq < Modulus
    PROVE  Spec => []Inv
BY InitInv, NextInv, PTL DEF Spec

(***************************************************************************)
(* At most one replica claims the lock with a node that still exists,      *)
(* although checkLockAcquired decides on children that may be stale.       *)
(***************************************************************************)
THEOREM OneLeader ==
    ASSUME MaxSeq < Modulus
    PROVE  Spec => []AtMostOneLeads
<1>1. Inv => AtMostOneLeads
    <2> SUFFICES ASSUME Inv, NEW b \in Backends, NEW c \in Backends, Leads(b), Leads(c)
                 PROVE  b = c
        BY DEF AtMostOneLeads
    <2>1. PICK m \in znodes : created[m] = b /\ lockNumber[b] = GetZxid(m)
        BY DEF Leads
    <2>2. PICK n \in znodes : created[n] = c /\ lockNumber[c] = GetZxid(n)
        BY DEF Leads
    <2>3. m \in Seqs /\ n \in Seqs /\ lockNumber[b] = m /\ lockNumber[c] = n
        BY <2>1, <2>2, BeforeIsLess DEF Inv, Types
    <2>4. m \in Nat /\ n \in Nat /\ m # NoNumber /\ n # NoNumber
        BY <2>3, DistLockAssumption DEF Seqs, NoNumber
    <2>5. m <= n /\ n <= m
        BY <2>3, <2>4 DEF Inv, NumberOk
    <2>6. m = n
        BY <2>4, <2>5
    <2> QED BY <2>1, <2>2, <2>6
<1> QED BY <1>1, LockInvariance, PTL

(***************************************************************************)
(* The lock implements LeaderLock: a number is granted to one replica,     *)
(* once, by the call that creates the node, and checkLockAcquired claims   *)
(* only the numbers of the replica's own nodes.                            *)
(***************************************************************************)
THEOREM LockImplemented ==
    ASSUME MaxSeq < Modulus
    PROVE  Spec => ImplementsLeaderLock
<1>1. Init => Granted!Init
    BY DEF Init, Granted!Init
<1>2. Inv /\ [Next]_vars => [Granted!Next]_<<created, lockNumber>>
    <2> SUFFICES ASSUME Inv, [Next]_vars
                 PROVE  Granted!Next \/ UNCHANGED <<created, lockNumber>>
        OBVIOUS
    <2>1. ASSUME NEW b \in Backends, Restart(b) PROVE Granted!Next
        BY <2>1 DEF Restart, Granted!Next, Granted!Drop
    <2>2. ASSUME NEW b \in Backends, NEW n \in Seqs, NewNode(b, n), UNCHANGED lockNumber
          PROVE  Granted!Next
        BY <2>2 DEF NewNode, NextSeq, Granted!Next, Granted!Grant
    <2>3. ASSUME NEW b \in Backends, NEW k \in Slots, ThreadStep(b, k)
          PROVE  Granted!Next \/ UNCHANGED <<created, lockNumber>>
        <3>1. CASE EnterLock(b, k)
            BY <3>1 DEF EnterLock, Granted!Next, Granted!Drop
        <3>2. CASE CreateNode(b, k)
            BY <2>2, <3>2 DEF CreateNode
        <3>3. CASE DecideFirst(b, k)
            <4>1. /\ nodeName[b] \in Seqs /\ created[nodeName[b]] = b
                  /\ lockNumber' = [lockNumber EXCEPT ![b] = nodeName[b]]
                BY <3>3, DecideFirstKeeps
            <4> QED BY <3>3, <4>1 DEF DecideFirst, Granted!Next, Granted!Claim
        <3>4. CASE DecideOnNothing(b, k)
            BY <2>1, <3>4 DEF DecideOnNothing
        <3>5. CASE NameNode(b, k) \/ GetChildren(b, k) \/ DecideGone(b, k) \/
                   DecideLater(b, k) \/ RegisterWatch(b, k) \/ WatchFires(b, k)
            BY <3>5 DEF NameNode, GetChildren, DecideGone, DecideLater, RegisterWatch,
                        WatchFires
        <3> QED BY <2>3, <3>1, <3>2, <3>3, <3>4, <3>5 DEF ThreadStep
    <2>4. ASSUME NEW b \in Backends, NEW k \in Slots, CreateFails(b, k)
          PROVE  Granted!Next \/ UNCHANGED <<created, lockNumber>>
        BY <2>2, <2>4 DEF CreateFails
    <2>5. ASSUME NEW b \in Backends, Expire(b) \/ SessionEnds(b) \/ Crash(b)
          PROVE  Granted!Next \/ UNCHANGED <<created, lockNumber>>
        BY <2>1, <2>5 DEF Expire, SessionEnds, Reconnect, RetriesExhaustTheStack, Crash
    <2>6. ASSUME NEW S \in SUBSET Seqs, OrphansExpire(S)
          PROVE  UNCHANGED <<created, lockNumber>>
        BY <2>6 DEF OrphansExpire
    <2>7. CASE UNCHANGED vars
        BY <2>7 DEF vars
    <2> QED BY <2>3, <2>4, <2>5, <2>6, <2>7 DEF Next
<1> QED BY <1>1, <1>2, LockInvariance, PTL DEF Spec, ImplementsLeaderLock, Granted!Spec

=============================================================================
