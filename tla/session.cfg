\* Two tabs of one browser, tokens that expire while the run lasts.
SPECIFICATION Spec

CONSTANTS
    Tabs = {t1, t2}
    TTL = 1
    MaxNow = 2
    MaxSignIns = 2
    None = None
    Unread = Unread

INVARIANTS
    TypeOK
    TimerIsCurrent
    NoStrandedPage

PROPERTIES
    NoEarlySignOut
    ExpiredSessionLeaves
