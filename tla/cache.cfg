SPECIFICATION Spec
CONSTANTS
    Testcases = {t1, t2}
    Capacity = 2
    MaxVersion = 2
    FaultKinds = {"open", "copy", "remove", "crash"}
    MaxFaults = 1
SYMMETRY TestcaseSymmetry
INVARIANTS TypeOK TrackedHaveFiles DiskAccounted PathStillThere
