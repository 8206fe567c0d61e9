SPECIFICATION Spec
CONSTANTS
    s1 = s1  s2 = s2  r1 = r1  r2 = r2
    Submissions <- TwoSubmissions
    Replicas <- TwoReplicas
    Workers = {w1}
    Home <- OneEach
    Terminal <- Verdicts
    WorkerPrefetch = 1
    ResultPrefetch = 2
    FaultKinds = {"store", "storage", "enqueue", "publish", "worker", "database", "connection", "apiserver"}
    MaxFaults = 2
INVARIANTS TypeOK IInv NoLostJob NoLostResult NoStrandedPending
PROPERTIES DeletedStaysDeleted ImplementsService
SYMMETRY Swaps
CHECK_DEADLOCK FALSE
