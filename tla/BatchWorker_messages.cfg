SPECIFICATION FairSpec
CONSTANTS
    w1 = w1  w2 = w2
    s1 = s1  s2 = s2 
    Jobs = {j1}
    Workers = {w1}
    Slots = {s1, s2}
    Owner <- OneProcess
    RetryDelays = 1
    MaxPublishFailures = 2
    MaxFailures = 1
INVARIANTS TypeOK NothingLost ChainsNeedFaults
PROPERTY QueuesDrain
CHECK_DEADLOCK FALSE
