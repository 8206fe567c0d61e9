SPECIFICATION FairSpec
CONSTANTS
    s1 = s1  s2 = s2  r1 = r1  r2 = r2
    Submissions <- TwoSubmissions
    Replicas <- OneReplica
    Workers = {w1}
    Home <- AllAtFirst
    Terminal <- Verdicts
    WorkerPrefetch = 2
    ResultPrefetch = 1
    FaultKinds = {"storage", "enqueue", "publish", "worker", "database", "apiserver"}
    MaxFaults = 2
INVARIANTS JudgingExplained AnswerMatchesStore
PROPERTY AcceptedIsJudged
CHECK_DEADLOCK FALSE
