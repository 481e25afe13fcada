CONSTANTS
    e1 = e1
    e2 = e2
    alias = alias
    Edition = {e1, e2}
    Active = alias
    None = None
    Asked = Asked
    Routes <- AllRoutes
    MaxRevision = 2
    MaxLog = 3
SPECIFICATION FairSpec
INVARIANTS NoEventPassedOver
PROPERTIES RevisionNeverGoesBack Converges
CHECK_DEADLOCK FALSE
