\* Two allocate workers and one VM.
SPECIFICATION Spec

CONSTANTS
    Jobs = {j1}
    Tasks <- MCTasks
    Vms = {v1}
    NoVm = NoVm
    Req <- MCReq
    MaxReq = 1
    JobRestartAttempts = 1
    VmRestartAttempts = 1
    Backends = {b1}
    Interval = 1
    MaxClock = 2
    MaxLockNumber = 0
    Slots = {1}
    AssignerType = "Complex"
    AllocateThreads = {a1, a2}
    TerminateThreads = {}
    MonitorThreads = {}
    MaxVmAllocationCount = 1
    MaxVmTerminationCount = 1
    AgentStatuses = {"Completed"}
    TimelyWorkers = TRUE

PROPERTIES
    TerminatedIsFinal

\* The clock, the number of jobs and the restarts are bounded: a run may end.
CHECK_DEADLOCK FALSE
