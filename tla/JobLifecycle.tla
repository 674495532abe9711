---------------------------- MODULE JobLifecycle ----------------------------
(***************************************************************************)
(* What the service promises for each job, whoever acts on it: a job is    *)
(* added once, goes back to the queue at most MaxRestarts times, each time *)
(* at the price of a restart, and never leaves an outcome.                 *)
(***************************************************************************)
EXTENDS Naturals

CONSTANTS Jobs, MaxRestarts

VARIABLES
    status,    \* of each job, "none" before it is added
    restarts   \* charged to each job

Unfinished == {"Queued", "Scheduled", "Running"}

Init ==
    /\ status = [j \in Jobs |-> "none"]
    /\ restarts = [j \in Jobs |-> 0]

(***************************************************************************)
(* The statuses a job may take next without a restart.  They are more than *)
(* the arrows of job_state.puml.  A report is taken whatever the status,   *)
(* if that is no outcome: Completed and Error need no Running before them, *)
(* Cancelled no Cancelling, and the previous VM of a job that is back in   *)
(* the queue may still report on it.  A plan whose snapshot has the job    *)
(* Queued makes it Scheduled although such a report has made it Running    *)
(* since.                                                                  *)
(***************************************************************************)
Successors(st) ==
    CASE st = "none" -> {"Queued"}
      [] st = "Queued" -> {"Scheduled", "Running", "Completed", "Error", "Cancelled"}
      [] st = "Scheduled" -> {"Running", "Completed", "Error", "Cancelling", "Cancelled"}
      [] st = "Running" -> {"Scheduled", "Completed", "Error", "Cancelling", "Cancelled"}
      [] OTHER -> {}

Moves(j) ==
    /\ status'[j] \in Successors(status[j])
    /\ restarts'[j] = restarts[j]

Restarts(j) ==
    /\ status[j] \in {"Scheduled", "Running"}
    /\ \/ /\ restarts[j] < MaxRestarts
          /\ status'[j] = "Queued"
          /\ restarts'[j] = restarts[j] + 1
       \/ /\ restarts[j] = MaxRestarts
          /\ status'[j] = "InternalError"
          /\ restarts'[j] = restarts[j]

Stays(j) == status'[j] = status[j] /\ restarts'[j] = restarts[j]

\* One transaction may move several jobs.
Next == \A j \in Jobs : Moves(j) \/ Restarts(j) \/ Stays(j)

Spec == Init /\ [][Next]_<<status, restarts>>

=============================================================================
