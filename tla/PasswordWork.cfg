\* Two workers and two queued jobs, as many calls again; one call's work may
\* never end.
SPECIFICATION FairSpec
CONSTANTS
    Workers = {w1, w2}
    Jobs = {c1, c2, c3, c4, c5}
    Slow = {c1}
    QueuedJobs = 2
    Nobody = Nobody
CHECK_DEADLOCK FALSE
PROPERTIES
    StaysCharged
    EveryJobEnds
