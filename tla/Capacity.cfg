\* Jobs of two tasks, one of them with two jobs, share a VM; a live allocate worker
\* is never overtaken by the failure detector.
SPECIFICATION Spec

CONSTANTS
    Jobs = {j1, j2, j3}
    Tasks <- MCTwoTasks
    Vms = {v1}
    NoVm = NoVm
    Req <- MCReq
    MaxReq = 1
    JobRestartAttempts = 1
    VmRestartAttempts = 0
    Backends = {b1}
    Interval = 1
    MaxClock = 2
    MaxLockNumber = 0
    Slots = {1, 2}
    AssignerType = "Complex"
    AllocateThreads = {a1}
    TerminateThreads = {}
    MonitorThreads = {}
    MaxVmAllocationCount = 1
    MaxVmTerminationCount = 1
    AgentStatuses = {"Running", "Completed"}
    TimelyWorkers = TRUE

INVARIANTS
    NoOvercommit

PROPERTIES
    AssignedToActiveVm
    ImplementsJobLifecycle
    CompletedTaskStaysCompleted

\* The clock, the number of jobs and the restarts are bounded: a run may end.
CHECK_DEADLOCK FALSE
