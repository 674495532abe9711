\* A replica dies while the other one is about to watch its node.
SPECIFICATION FairSpec

CONSTANTS
    Backends = {b1, b2}
    Nobody = Nobody
    Modulus = 10
    MaxSeq = 4
    MaxExpiries = 0
    MaxCrashes = 1
    MaxFailures = 0

PROPERTIES
    SomeReplicaLeads

\* Nodes and faults are bounded, and replicas may all wait for watches.
CHECK_DEADLOCK FALSE
