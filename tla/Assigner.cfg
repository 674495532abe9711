\* Every strategy and every ordering.
SPECIFICATION Spec

CONSTANTS
    Strategies = {"Simple", "FirstFit", "NextFit", "BestFit", "WorstFit"}
    Orderings = {"Fifo", "Ascending", "Descending"}
    SlotLists <- MCSlots
    JobSizes <- MCJobSizes
    MaxJobs = 3
    VmSizes <- MCVmSizes
    MaxVms = 2

INVARIANTS
    JobsFitTheirVms
    SlotsHoldTheirJobs
    MergedFully
    EveryJobIsPlacedOnce
    TerminatesOnlyUnusedVms
    InstanceIsTheSlot

PROPERTIES
    FindsTheRightVm

\* A plan ends.
CHECK_DEADLOCK FALSE
