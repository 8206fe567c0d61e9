SPECIFICATION FairSpec
CONSTANTS
    Slots = {c1, c2, c3}
    Runs = {d1, d2, d3, d4}
    Root = root
INVARIANTS SlotsConserved WorkDirPrivate ReleaseNeverBlocks IInv
PROPERTY WaiterServed
