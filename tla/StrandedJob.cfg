\* An agent falls silent before it has picked up its job.
SPECIFICATION Spec

CONSTANTS
    Jobs = {j1}
    Tasks <- MCTasks
    Vms = {v1}
    NoVm = NoVm
    Req <- MCReq
    MaxReq = 1
    JobRestartAttempts = 1
    VmRestartAttempts = 1
    Backends = {b1}
    Interval = 1
    MaxClock = 3
    MaxLockNumber = 0
    Slots = {1}
    AssignerType = "Complex"
    AllocateThreads = {a1}
    TerminateThreads = {}
    MonitorThreads = {}
    MaxVmAllocationCount = 1
    MaxVmTerminationCount = 1
    AgentStatuses = {"Completed"}
    TimelyWorkers = TRUE

INVARIANTS
    NoJobLeftOnTerminatedVm

\* The clock, the number of jobs and the restarts are bounded: a run may end.
CHECK_DEADLOCK FALSE
