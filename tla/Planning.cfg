\* Two replicas plan one job over two VMs while agents, clients and the
\* failure detector act.
SPECIFICATION Spec

CONSTANTS
    Jobs = {j1}
    Tasks <- MCTasks
    Vms = {v1, v2}
    NoVm = NoVm
    Req <- MCReq
    MaxReq = 1
    JobRestartAttempts = 1
    VmRestartAttempts = 0
    Backends = {b1, b2}
    Interval = 1
    MaxClock = 3
    MaxLockNumber = 0
    Slots = {1}
    AssignerType = "Complex"
    AllocateThreads = {a1}
    TerminateThreads = {}
    MonitorThreads = {}
    MaxVmAllocationCount = 1
    MaxVmTerminationCount = 1
    AgentStatuses = {"Running", "Completed"}
    TimelyWorkers = TRUE

INVARIANTS
    PlansAreSpaced
    PlansAreOwned
    SnapshotIsSound
    LaunchesAreCounted

PROPERTIES
    AssignmentIsKept
    OutcomeIsFinal

SYMMETRY MCSymmetry

\* The clock, the number of jobs and the restarts are bounded: a run may end.
CHECK_DEADLOCK FALSE
