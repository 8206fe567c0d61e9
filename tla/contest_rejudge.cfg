SPECIFICATION FairSpec
CONSTANTS
    Submissions = {s1, s2}
    Workers = {w1}
    MaxVersion = 1
    MaxRejudges = 1
    MaxFaults = 1
INVARIANTS TypeOK ResetIsJudged RejudgeTakesEffect
PROPERTY RejudgedEventually
CHECK_DEADLOCK FALSE
