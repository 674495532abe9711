--------------------------- MODULE ShutdownProofs ---------------------------
(***************************************************************************)
(* No member of TaskRegistry is used after its destruction, in every mode  *)
(* of the backend.                                                         *)
(*                                                                         *)
(* The inductive invariant says where destruction has got to: the threads  *)
(* among the destroyed members have ended, and a handler runs only while   *)
(* the gRPC server is there.  A thread that has not ended is one of the    *)
(* first four members, so all of the members that payloads use are alive.  *)
(***************************************************************************)
EXTENDS Shutdown, TLAPS

ShutdownInv ==
    /\ pc \in [Threads -> RunnerPcs]
    /\ destroyed \in 0 .. 9
    /\ \A i \in 1 .. 9 : i <= destroyed /\ Members[i] \in Threads
                            => pc[Members[i]] = "ended"
    /\ handler => destroyed <= 4

(***************************************************************************)
(* The declarations of TaskRegistry: the threads are the last members and  *)
(* so the first to go.                                                     *)
(***************************************************************************)
LEMMA Declarations ==
  /\ Len(Members) = 9
  /\ Members[1] = "monitorThread"
  /\ Members[2] = "schedulingThread"
  /\ Members[3] = "terminationThread"
  /\ Members[4] = "allocationThread"
  /\ Members[5] = "grpcServer"
  /\ Members[6] = "failureDetector"
  /\ Members[7] = "allocator"
  /\ Members[8] = "scheduler"
  /\ Members[9] = "taskStorage"
BY DEF Members

(***************************************************************************)
(* Every mode starts only the threads that TaskRegistry declares.          *)
(***************************************************************************)
LEMMA ThreadsAreMembers ==
  \A t \in Threads : \E i \in 1 .. 4 : t = Members[i]
<1>1. RegistryThreads \subseteq {"allocationThread", "terminationThread",
                                 "monitorThread", "schedulingThread"}
  BY ModeAssumption DEF RegistryThreads, ServiceThreads
<1> QED BY <1>1, ThreadsAssumption, Declarations

(***************************************************************************)
(* A thread that has not ended, and a handler at work, find all the        *)
(* members they use.                                                       *)
(***************************************************************************)
LEMMA MembersOutliveThreads == ShutdownInv => NoUseAfterDestruction
<1> SUFFICES ASSUME ShutdownInv PROVE NoUseAfterDestruction
  OBVIOUS
<1>1. ASSUME destroyed <= 4
      PROVE  {"grpcServer", "failureDetector", "allocator", "scheduler",
              "taskStorage"} \subseteq Alive
  <2>1. \A i \in 5 .. 9 : i \in destroyed + 1 .. Len(Members)
    BY <1>1, Declarations DEF ShutdownInv
  <2>2. \A i \in 5 .. 9 : Members[i] \in Alive
    BY <2>1 DEF Alive
  <2> QED BY <2>2, Declarations
<1>2. ASSUME NEW t \in Threads, pc[t] \in {"starting", "payload"}
      PROVE  Uses(t) \subseteq Alive
  <2>1. PICK i \in 1 .. 4 : t = Members[i]
    BY ThreadsAreMembers
  <2>2. destroyed <= 4
    BY <1>2, <2>1 DEF ShutdownInv
  <2>3. t \in {"allocationThread", "terminationThread", "monitorThread",
               "schedulingThread"}
    BY <2>1, Declarations
  <2>4. Uses(t) \subseteq {"failureDetector", "allocator", "scheduler", "taskStorage"}
    BY <2>3 DEF Uses
  <2> QED BY <1>1, <2>2, <2>4
<1>3. ASSUME handler PROVE Uses("handler") \subseteq Alive
  <2>1. Uses("handler") = {"grpcServer", "taskStorage"}
    BY DEF Uses
  <2> QED BY <1>1, <1>3, <2>1 DEF ShutdownInv
<1> QED BY <1>2, <1>3 DEF NoUseAfterDestruction

(***************************************************************************)
(* Nothing a running thread does brings an ended one back.                 *)
(***************************************************************************)
LEMMA EndedStaysEnded ==
  ASSUME ShutdownInv, pc' \in [Threads -> RunnerPcs], UNCHANGED <<destroyed, handler>>,
         \A t \in Threads : pc[t] = "ended" => pc'[t] = "ended"
  PROVE  ShutdownInv'
BY DEF ShutdownInv

(***************************************************************************)
(* Every step keeps ShutdownInv: a thread is counted as destroyed only     *)
(* after join, and the gRPC server only when no handler is left.           *)
(***************************************************************************)
LEMMA NextShutdown == ShutdownInv /\ [Next]_vars => ShutdownInv'
<1> SUFFICES ASSUME ShutdownInv, [Next]_vars PROVE ShutdownInv'
  OBVIOUS
<1>0. pc \in [Threads -> RunnerPcs] /\ destroyed \in 0 .. 9
  BY DEF ShutdownInv
<1>1. ASSUME NEW t \in Threads, ThreadStep(t) \/ ClockStep(t) \/ ThreadWakesUp(t)
      PROVE  ShutdownInv'
  <2>1. PICK q \in RunnerPcs :
           /\ pc' = [pc EXCEPT ![t] = q]
           /\ pc[t] = "ended" => q = "ended"
    BY <1>0, <1>1
       DEF ThreadStep, ClockStep, ThreadWakesUp, Runner, OuterLoop, StartPayload,
           PayloadDone, InnerLoop, WaitUntil, Timeout, SpuriousWakeup, Elapse,
           Goto, RunnerPcs
  <2>2. UNCHANGED <<destroyed, handler>>
    BY <1>1 DEF ThreadStep, ClockStep, ThreadWakesUp
  <2> QED BY <1>0, <2>1, <2>2, EndedStaysEnded
<1>2. CASE StopThread
  <2>1. CASE destructor = "joining"
    <3>1. /\ Joined(Victim) /\ Victim \in Threads
          /\ destroyed < 9 /\ destroyed' = destroyed + 1
          /\ UNCHANGED <<pc, handler>>
      BY <1>2, <2>1, Declarations DEF StopThread, threadVars
    <3>2. Members[destroyed + 1] \in Threads /\ pc[Members[destroyed + 1]] = "ended"
      BY <3>1 DEF Joined, Victim
    <3>3. destroyed' <= 4
      <4>1. destroyed + 1 \in 1 .. 9
        BY <1>0, <3>1
      <4>2. \A i \in 5 .. 9 : \A k \in 1 .. 4 : Members[i] # Members[k]
        BY Declarations
      <4>3. PICK k \in 1 .. 4 : Members[destroyed + 1] = Members[k]
        BY <3>2, ThreadsAreMembers
      <4> QED BY <3>1, <4>1, <4>2, <4>3
    <3> QED BY <1>0, <3>1, <3>2, <3>3 DEF ShutdownInv
  <2>2. CASE destructor # "joining"
    <3>1. /\ UNCHANGED <<destroyed, handler>>
          /\ UNCHANGED pc \/ pc' = [pc EXCEPT ![Victim] = IF @ = "waiting"
                                                            THEN "locked" ELSE @]
      BY <1>2, <2>2 DEF StopThread, SetStopped, NotifyAwake
    <3>2. /\ pc' \in [Threads -> RunnerPcs]
          /\ \A t \in Threads : pc[t] = "ended" => pc'[t] = "ended"
      BY <1>0, <3>1 DEF RunnerPcs
    <3> QED BY <3>1, <3>2, EndedStaysEnded
  <2> QED BY <2>1, <2>2
<1>3. CASE DestroyMember
  <2>1. /\ Victim \notin Threads
        /\ Victim = "grpcServer" => ~handler
        /\ destroyed < 9 /\ destroyed' = destroyed + 1
        /\ UNCHANGED <<pc, handler>>
    BY <1>3, Declarations DEF DestroyMember, threadVars
  <2>2. handler' => destroyed' <= 4
    <3>1. destroyed = 4 => Victim = "grpcServer"
      BY Declarations DEF Victim
    <3> QED BY <1>0, <2>1, <3>1 DEF ShutdownInv
  <2>3. Members[destroyed + 1] \notin Threads
    BY <2>1 DEF Victim
  <2> QED BY <1>0, <2>1, <2>2, <2>3 DEF ShutdownInv
<1>4. CASE HandlerStarts
  <2>1. UNCHANGED <<pc, destroyed>> /\ "grpcServer" \in Alive
    BY <1>4 DEF HandlerStarts, threadVars
  <2>2. PICK i \in destroyed + 1 .. 9 : Members[i] = "grpcServer"
    BY <2>1, Declarations DEF Alive
  <2>3. i = 5
    BY <1>0, <2>2, Declarations
  <2>4. destroyed <= 4
    BY <1>0, <2>2, <2>3
  <2> QED BY <2>1, <2>4 DEF ShutdownInv
<1>5. CASE HandlerReturns
  BY <1>5 DEF HandlerReturns, threadVars, ShutdownInv
<1>6. CASE Signal \/ MainLoop \/ MainWait \/ MainReturn \/ MainSpuriousWakeup
  BY <1>6 DEF Signal, MainLoop, MainWait, MainReturn, MainSpuriousWakeup, MainGoto,
              threadVars, ShutdownInv
<1>7. CASE UNCHANGED vars
  BY <1>7 DEF vars, threadVars, ShutdownInv
<1> QED BY <1>1, <1>2, <1>3, <1>4, <1>5, <1>6, <1>7 DEF Next, MainStep

(***************************************************************************)
(* Whatever the mode, and wherever a signal finds the threads and the RPC  *)
(* handlers, taskRegistry.reset() destroys no member that a payload or a   *)
(* handler still uses.                                                     *)
(***************************************************************************)
THEOREM DestructionIsOrdered == Spec => []NoUseAfterDestruction
<1>1. Init => ShutdownInv
  BY DEF Init, ThreadInit, RunnerPcs, ShutdownInv
<1> QED BY <1>1, NextShutdown, MembersOutliveThreads, PTL DEF Spec

=============================================================================
