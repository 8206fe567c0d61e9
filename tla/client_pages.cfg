\* Each page of the web client, with at most two requests in flight.
SPECIFICATION Spec

CONSTANTS
    MaxInFlight = 2
    MaxRows = 2
    Start = 1
    End = 2
    LastTime = 3
    MaxToggles = 3
    Skews = {0, 1}
    MaxProblems = 3
    MaxClicks = 3
    MaxEdits = 1
    MaxContests = 3
    Problems = {1}
    MaxActs = 3
    Users = {u1, u2}
    Owner = u1
    MaxChanges = 3
    MaxDecisions = 2

INVARIANTS
    TypeOK
    PollingMatchesScreen
    ButtonTellsTruth
    FormMatchesHeading
    SavedMeansStored
    PanelIsTrue
    RoleTableIsTrue
    ReportedDecisionStands

PROPERTY PendingLeavesScreen

\* The user may stop clicking.
CHECK_DEADLOCK FALSE
