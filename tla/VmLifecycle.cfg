\* One VM with every kind of thread, two allocate workers included, with
\* SimpleVmAssigner and under fairness.
SPECIFICATION FairSpec

CONSTANTS
    Jobs = {j1}
    Tasks <- MCTasks
    Vms = {v1}
    NoVm = NoVm
    Req <- MCReq
    MaxReq = 1
    JobRestartAttempts = 1
    VmRestartAttempts = 1
    Backends = {b1}
    Interval = 1
    MaxClock = 2
    MaxLockNumber = 0
    Slots = {1}
    AssignerType = "Simple"
    AllocateThreads = {a1, a2}
    TerminateThreads = {t1}
    MonitorThreads = {m1}
    MaxVmAllocationCount = 1
    MaxVmTerminationCount = 1
    AgentStatuses = {"Running", "Cancelled", "Error"}
    TimelyWorkers = TRUE

INVARIANTS
    TypeOK
    TerminatedInstanceIsGone
    OneWorkerPerVm

PROPERTIES
    AllocationResolves

\* The clock, the number of jobs and the restarts are bounded: a run may end.
CHECK_DEADLOCK FALSE
