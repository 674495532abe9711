--------------------------- MODULE MCVmScheduler ---------------------------
(***************************************************************************)
(* The whole service on small instances: every job asks for one unit of    *)
(* capacity.  The sets of jobs, VMs, replicas and threads and the bounds   *)
(* are given by each .cfg file.                                            *)
(***************************************************************************)
EXTENDS VmScheduler, TLC

MCReq == [j \in Jobs |-> 1]

MCTasks == {{j} : j \in Jobs}

\* A task of one job, and a task of all the others.
MCTwoTasks == LET j == CHOOSE j \in Jobs : TRUE IN {{j}, Jobs \ {j}}

\* VM ids and replicas are interchangeable.  Used by safety runs only.
MCSymmetry == Permutations(Vms) \cup Permutations(Backends)

=============================================================================
