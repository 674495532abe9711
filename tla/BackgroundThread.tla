-------------------------- MODULE BackgroundThread --------------------------
(***************************************************************************)
(* Background threads that call a payload once in each interval, and what  *)
(* their destructor does.                                                  *)
(*                                                                         *)
(* The destructor sets isStopped_ and notifies isAwake_ without taking     *)
(* mutex_, so both may fall between the check of isStopped_ and the        *)
(* wait_until that follows it: the check and the wait are two steps.       *)
(***************************************************************************)
CONSTANT Threads

VARIABLES
    pc,         \* where each runner is
    isStopped,  \* isStopped_ of each thread
    elapsed     \* start + sleepDuration_ has passed

threadVars == <<pc, isStopped, elapsed>>

\* looping: at the outer while; starting: past its condition; locked: at the
\* inner while, with mutex_; sleepy: past its condition; waiting: in wait_until.
RunnerPcs == {"looping", "starting", "payload", "locked", "sleepy", "waiting",
              "ended"}

ThreadInit ==
    /\ pc = [t \in Threads |-> "looping"]
    /\ isStopped = [t \in Threads |-> FALSE]
    /\ elapsed = [t \in Threads |-> FALSE]

ThreadTypeOK ==
    /\ pc \in [Threads -> RunnerPcs]
    /\ isStopped \in [Threads -> BOOLEAN]
    /\ elapsed \in [Threads -> BOOLEAN]

----------------------------------------------------------------------------
(* runner().                                                               *)

Goto(t, from, to) ==
    /\ pc[t] = from
    /\ pc' = [pc EXCEPT ![t] = to]
    /\ UNCHANGED <<isStopped, elapsed>>

OuterLoop(t) == Goto(t, "looping", IF isStopped[t] THEN "ended" ELSE "starting")

\* start = now(), and payload_() is called.
StartPayload(t) ==
    /\ pc[t] = "starting"
    /\ pc' = [pc EXCEPT ![t] = "payload"]
    /\ elapsed' = [elapsed EXCEPT ![t] = FALSE]
    /\ UNCHANGED isStopped

\* The payload returns and mutex_ is taken.
PayloadDone(t) == Goto(t, "payload", "locked")

InnerLoop(t) ==
    Goto(t, "locked", IF isStopped[t] \/ elapsed[t] THEN "looping" ELSE "sleepy")

WaitUntil(t) == Goto(t, "sleepy", "waiting")

\* Mutant of Timeout: a wait without a deadline.
NoTimeout(t) == pc[t] = "waiting" /\ FALSE /\ UNCHANGED threadVars

Timeout(t) == elapsed[t] /\ Goto(t, "waiting", "locked")

SpuriousWakeup(t) == Goto(t, "waiting", "locked")

\* The clock passes start + sleepDuration_.
Elapse(t) ==
    /\ pc[t] \in {"payload", "locked", "sleepy", "waiting"}
    /\ ~elapsed[t]
    /\ elapsed' = [elapsed EXCEPT ![t] = TRUE]
    /\ UNCHANGED <<pc, isStopped>>

Runner(t) ==
    \/ OuterLoop(t)
    \/ StartPayload(t)
    \/ PayloadDone(t)
    \/ InnerLoop(t)
    \/ WaitUntil(t)
    \/ Timeout(t)

----------------------------------------------------------------------------
(* ~BackgroundThread(), which runs in some other thread.                   *)

SetStopped(t) ==
    /\ isStopped' = [isStopped EXCEPT ![t] = TRUE]
    /\ UNCHANGED <<pc, elapsed>>

\* notify_one: only the runner ever waits for isAwake_.
NotifyAwake(t) ==
    /\ pc' = [pc EXCEPT ![t] = IF @ = "waiting" THEN "locked" ELSE @]
    /\ UNCHANGED <<isStopped, elapsed>>

Joined(t) == pc[t] = "ended"

=============================================================================
