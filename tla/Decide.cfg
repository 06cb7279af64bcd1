SPECIFICATION FairSpec
CONSTANTS
    d1 = d1
    d2 = d2
    d3 = d3
    a = a
    b = b
    c = c
    Decisions = {d1, d2, d3}
    Traffics <- MCTraffics
    Policies = {"fail_decision", "backpressure", "drop_counted"}
    MaxPending = 1
    CanStop = TRUE
    NoJob = NoJob
CHECK_DEADLOCK FALSE
INVARIANTS QueueExact VerdictHonest AdmissionExact EndsCountedOnce
PROPERTY EveryCallEnds
