\* Two replicas, one expired session, one crash and one failed create,
\* under fairness.
SPECIFICATION FairSpec

CONSTANTS
    Backends = {b1, b2}
    Nobody = Nobody
    Modulus = 10
    MaxSeq = 3
    MaxExpiries = 1
    MaxCrashes = 1
    MaxFailures = 1

INVARIANTS
    AtMostOneLeads

PROPERTIES
    ImplementsLeaderLock
    StaleNumberIsDropped

\* Nodes and faults are bounded, and replicas may all wait for watches.
CHECK_DEADLOCK FALSE
