SPECIFICATION FairSpec
CONSTANTS
    Callers = {c1, c2}
    Trusted = TRUE
    Beat = 1
    Timeout = 2
    Ceiling = 5
    UnansweredGrace = 1
    NudgeGrace = 1
    UnprovenGrace = 2
    MaxTime = 5
    MaxFailures = 1
INVARIANTS TypeOK  EndedIsSettled
PROPERTIES SilenceKeepsTheMeter CallEnds
CHECK_DEADLOCK FALSE
