SPECIFICATION Spec
CONSTANTS
    s1 = s1  s2 = s2  r1 = r1  r2 = r2
    Submissions <- OneSubmission
    Replicas <- OneReplica
    Workers = {w1}
    Home <- AllAtFirst
    Terminal <- Verdicts
    WorkerPrefetch = 2
    ResultPrefetch = 2
    FaultKinds = {"database"}
    MaxFaults = 1
INVARIANTS JudgingExplained
CHECK_DEADLOCK FALSE
