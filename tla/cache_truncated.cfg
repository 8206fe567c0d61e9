SPECIFICATION Spec
CONSTANTS
    Testcases = {t1, t2}
    Capacity = 3
    MaxVersion = 1
    FaultKinds = {"copy"}
    MaxFaults = 1
SYMMETRY TestcaseSymmetry
INVARIANTS ServedWhole
