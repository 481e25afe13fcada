CONSTANTS
    Edition = {1, 2}
    Request = {1, 2, 3}
    alias = alias
    none = none
    k1 = k1
    k2 = k2
    b1 = b1
    b2 = b2
    ana = ana
    bia = bia
    Key = {k1, k2}
    Body = {b1, b2}
    Actor = {ana, bia}
    Active = alias
    None = none
    Latest = 2
    Job <- ResentJobs
    MaxAttempts = 2
    MaxCrashes = 1
SPECIFICATION Spec
INVARIANTS ExactlyOnce PublishedAfterCommit
PROPERTIES ImplementsLedger
CHECK_DEADLOCK FALSE
