\* Four threads share two connections.
SPECIFICATION FairSpec

CONSTANTS
    Threads = {t1, t2, t3, t4}
    Connections = {c1, c2}
    NoConnection = NoConnection
    Nobody = Nobody
    MaxCalls = 1

INVARIANTS
    TypeOK
    NoLostWakeup
    BusyOnlyBehindDestructor

PROPERTIES
    ImplementsConnectionPool
    EveryCallIsServed

\* The calls are bounded: a run ends when all have been made.
CHECK_DEADLOCK FALSE
