------------------------------ MODULE Shutdown ------------------------------
(***************************************************************************)
(* A backend process from the end of its start-up to its exit: main waits  *)
(* for SIGINT and then destroys the TaskRegistry, whose members go in the  *)
(* reverse of the order in which the class declares them.                  *)
(*                                                                         *)
(* The signal handler may run at any moment, and sets isStopping; nothing  *)
(* in the program notifies the condition variable main waits on.           *)
(***************************************************************************)
EXTENDS BackgroundThread, Naturals, Sequences

CONSTANT Mode  \* SchedulerMode

ASSUME ModeAssumption ==
    Mode \in {"FullScheduler", "SchedulerService", "CoreScheduler"}

ServiceThreads == {"allocationThread", "terminationThread", "monitorThread"}

\* The threads that the constructor of TaskRegistry starts.
RegistryThreads ==
    CASE Mode = "FullScheduler" -> ServiceThreads \cup {"schedulingThread"}
      [] Mode = "SchedulerService" -> ServiceThreads
      [] Mode = "CoreScheduler" -> {"schedulingThread"}

\* Mutant of Members: the thread of the allocator goes after the allocator.
MembersSwapped ==
    <<"monitorThread", "schedulingThread", "terminationThread", "grpcServer",
      "failureDetector", "allocator", "allocationThread", "scheduler",
      "taskStorage">>

\* The members of TaskRegistry in the order of their destruction.
Members ==
    <<"monitorThread", "schedulingThread", "terminationThread",
      "allocationThread", "grpcServer", "failureDetector", "allocator",
      "scheduler", "taskStorage">>

\* The members that a payload, or an RPC handler, uses.
Uses(t) ==
    CASE t \in {"allocationThread", "terminationThread"} ->
            {"allocator", "taskStorage"}
      [] t = "schedulingThread" -> {"scheduler", "taskStorage"}
      [] t = "monitorThread" -> {"failureDetector", "allocator", "taskStorage"}
      [] t = "handler" -> {"grpcServer", "taskStorage"}

VARIABLES
    isStopping,  \* the global flag
    main,        \* where main is
    destroyed,   \* how many members have been destroyed
    destructor,  \* where the destructor of the next member is
    handler      \* an RPC handler is at work

vars == <<threadVars, isStopping, main, destroyed, destructor, handler>>

MainPcs == {"checking", "sleepy", "waiting", "resetting", "returned", "exited"}

ASSUME ThreadsAssumption == Threads = RegistryThreads

Init ==
    /\ ThreadInit
    /\ isStopping = FALSE
    /\ main = "checking"
    /\ destroyed = 0
    /\ destructor = "storing"
    /\ handler = FALSE

TypeOK ==
    /\ ThreadTypeOK
    /\ isStopping \in BOOLEAN
    /\ main \in MainPcs
    /\ destroyed \in 0 .. Len(Members)
    /\ destructor \in {"storing", "notifying", "joining"}
    /\ handler \in BOOLEAN

Alive == {Members[i] : i \in destroyed + 1 .. Len(Members)}

Running == main \notin {"returned", "exited"}

----------------------------------------------------------------------------
\* sigterm(): a second signal exits the process on the spot.
Signal ==
    /\ Running
    /\ isStopping' = TRUE
    /\ main' = IF isStopping THEN "exited" ELSE main
    /\ UNCHANGED <<threadVars, destroyed, destructor, handler>>

MainGoto(from, to) ==
    /\ main = from
    /\ main' = to
    /\ UNCHANGED <<threadVars, isStopping, destroyed, destructor, handler>>

MainLoop == MainGoto("checking", IF isStopping THEN "resetting" ELSE "sleepy")

MainWait == MainGoto("sleepy", "waiting")

MainSpuriousWakeup == MainGoto("waiting", "checking")

----------------------------------------------------------------------------
(* taskRegistry.reset().                                                   *)

Victim == Members[destroyed + 1]

\* ~BackgroundThread of the next member.
StopThread ==
    /\ main = "resetting" /\ destroyed < Len(Members) /\ Victim \in Threads
    /\ \/ /\ destructor = "storing"
          /\ SetStopped(Victim)
          /\ destructor' = "notifying"
          /\ UNCHANGED destroyed
       \/ /\ destructor = "notifying"
          /\ NotifyAwake(Victim)
          /\ destructor' = "joining"
          /\ UNCHANGED destroyed
       \/ /\ destructor = "joining" /\ Joined(Victim)
          /\ destructor' = "storing"
          /\ destroyed' = destroyed + 1
          /\ UNCHANGED threadVars
    /\ UNCHANGED <<isStopping, main, handler>>

\* Any other member, or the null pointer of a thread this mode does not have.
\* The gRPC server waits for its handlers.
DestroyMember ==
    /\ main = "resetting" /\ destroyed < Len(Members) /\ Victim \notin Threads
    /\ Victim = "grpcServer" => ~handler
    /\ destroyed' = destroyed + 1
    /\ UNCHANGED <<threadVars, isStopping, main, destructor, handler>>

MainReturn ==
    /\ destroyed = Len(Members)
    /\ MainGoto("resetting", "returned")

MainStep == MainLoop \/ MainWait \/ StopThread \/ DestroyMember \/ MainReturn

----------------------------------------------------------------------------
(* The other threads of the process.                                       *)

\* A server that is being shut down takes no new calls.
HandlerStarts ==
    /\ Running /\ "grpcServer" \in Alive
    /\ ~(main = "resetting" /\ Victim = "grpcServer")
    /\ ~handler /\ handler' = TRUE
    /\ UNCHANGED <<threadVars, isStopping, main, destroyed, destructor>>

HandlerReturns ==
    /\ Running
    /\ handler /\ handler' = FALSE
    /\ UNCHANGED <<threadVars, isStopping, main, destroyed, destructor>>

ThreadStep(t) ==
    /\ Running
    /\ Runner(t)
    /\ UNCHANGED <<isStopping, main, destroyed, destructor, handler>>

ClockStep(t) ==
    /\ Running
    /\ Elapse(t)
    /\ UNCHANGED <<isStopping, main, destroyed, destructor, handler>>

ThreadWakesUp(t) ==
    /\ Running
    /\ SpuriousWakeup(t)
    /\ UNCHANGED <<isStopping, main, destroyed, destructor, handler>>

----------------------------------------------------------------------------
Next ==
    \/ Signal
    \/ MainStep
    \/ MainSpuriousWakeup
    \/ HandlerStarts
    \/ HandlerReturns
    \/ \E t \in Threads : ThreadStep(t) \/ ClockStep(t) \/ ThreadWakesUp(t)

Spec == Init /\ [][Next]_vars

\* The threads are scheduled, time passes and RPC handlers return.  Spurious
\* wakeups may happen, and signals may come; neither has to.
FairSpec ==
    /\ Spec
    /\ WF_vars(MainStep)
    /\ WF_vars(HandlerReturns)
    /\ \A t \in Threads : WF_vars(ThreadStep(t)) /\ WF_vars(ClockStep(t))

----------------------------------------------------------------------------
(* Properties.                                                             *)

(***************************************************************************)
(* No payload and no RPC handler runs on a member that has been destroyed: *)
(* the threads are declared last, so they are joined first, and the gRPC   *)
(* server goes before the storage its handlers call.                       *)
(***************************************************************************)
NoUseAfterDestruction ==
    /\ \A t \in Threads : pc[t] \in {"starting", "payload"} => Uses(t) \subseteq Alive
    /\ handler => Uses("handler") \subseteq Alive

(***************************************************************************)
(* Destruction ends, although the destructor of BackgroundThread may       *)
(* notify a thread that is about to wait: wait_until has a deadline.       *)
(***************************************************************************)
ResetCompletes == main = "resetting" ~> ~Running

=============================================================================
