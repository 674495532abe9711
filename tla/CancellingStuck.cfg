\* A cancelled job under fairness.
SPECIFICATION FairSpec

CONSTANTS
    Jobs = {j1}
    Tasks <- MCTasks
    Vms = {v1}
    NoVm = NoVm
    Req <- MCReq
    MaxReq = 1
    JobRestartAttempts = 0
    VmRestartAttempts = 0
    Backends = {b1}
    Interval = 1
    MaxClock = 1
    MaxLockNumber = 0
    Slots = {1}
    AssignerType = "Complex"
    AllocateThreads = {a1}
    TerminateThreads = {t1}
    MonitorThreads = {}
    MaxVmAllocationCount = 1
    MaxVmTerminationCount = 1
    AgentStatuses = {"Completed", "Cancelled"}
    TimelyWorkers = TRUE

PROPERTIES
    CancellingResolves

\* The clock, the number of jobs and the restarts are bounded: a run may end.
CHECK_DEADLOCK FALSE
