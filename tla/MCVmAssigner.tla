---------------------------- MODULE MCVmAssigner ----------------------------
(***************************************************************************)
(* Instances of VmAssigner.  Capacities are <<cores, memory>> in units of  *)
(* the smallest slot.                                                      *)
(***************************************************************************)
EXTENDS VmAssigner

\* Sizes that double, sizes that do not, and sizes of two families.
MCSlots == {<<<<1, 2>>, <<2, 4>>, <<4, 8>>>>,
            <<<<1, 1>>, <<3, 3>>>>,
            <<<<1, 4>>, <<2, 2>>, <<2, 8>>, <<4, 4>>>>}

MCJobSizes == {<<0, 0>>, <<1, 2>>, <<2, 1>>, <<2, 3>>, <<5, 1>>}

MCVmSizes == {[total |-> <<2, 4>>, idle |-> <<2, 4>>],
              [total |-> <<2, 4>>, idle |-> <<1, 3>>],
              [total |-> <<4, 2>>, idle |-> <<3, 1>>]}

=============================================================================
