\* Two chains, one worker process, two crashes.
SPECIFICATION Spec
CONSTANTS
    Chains = {"c1", "c2"}
    ChainIds <- MCChainIds
    JobNames = {"a", "u"}
    WorkerJobs <- MCWorkerJobs
    Handled = {"a"}
    Workers = {w1}
    MaxVisible = 1
    MaxSkipping = 1
    MaxRestarts = 2
INVARIANTS
    TypeOK
    RunsExclusively
    LockMatchesRuns
PROPERTIES
    KeepsRunning
    AllJobsScheduled
