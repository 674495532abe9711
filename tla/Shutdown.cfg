\* A backend with every thread, under fairness.
SPECIFICATION FairSpec

CONSTANTS
    Threads <- MCThreads
    Mode = "FullScheduler"

INVARIANTS
    NoUseAfterDestruction

PROPERTIES
    ResetCompletes

\* The process ends.
CHECK_DEADLOCK FALSE
