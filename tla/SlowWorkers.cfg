\* Jobs of two tasks share a VM; allocate workers may be slower than
\* allocationTimeLimit.
SPECIFICATION Spec

CONSTANTS
    Jobs = {j1, j2}
    Tasks <- MCTasks
    Vms = {v1}
    NoVm = NoVm
    Req <- MCReq
    MaxReq = 1
    JobRestartAttempts = 1
    VmRestartAttempts = 0
    Backends = {b1}
    Interval = 1
    MaxClock = 2
    MaxLockNumber = 1
    Slots = {1, 2}
    AssignerType = "Complex"
    AllocateThreads = {a1}
    TerminateThreads = {}
    MonitorThreads = {}
    MaxVmAllocationCount = 1
    MaxVmTerminationCount = 1
    AgentStatuses = {"Running", "Completed"}
    TimelyWorkers = FALSE

INVARIANTS
    IdleWithinTotal

PROPERTIES
    OnlyLateReportsOvercommit

\* The clock, the number of jobs and the restarts are bounded: a run may end.
CHECK_DEADLOCK FALSE
