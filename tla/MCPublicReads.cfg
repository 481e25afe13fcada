CONSTANTS
    c1 = c1
    c2 = c2
    e1 = e1
    e2 = e2
    x1 = x1
    v1 = v1
    v2 = v2
    r1 = r1
    Competition <- MCCompetition
    Edition <- MCEdition
    Shared <- MCShared
    Value <- MCValue
    Year = {1, 2}
    Status = {"PLANNING", "ONGOING", "FINISHED"}
    Active = Active
    NoEdition = NoEdition
    MaxRevision = 3
    Spectated <- MCSpectated
    About <- MCAbout
    Reader <- MCReader
    Nothing = Nothing
SYMMETRY Symmetric
SPECIFICATION Spec
INVARIANTS
    OneActivePair
    CopiesAgree
PROPERTIES
    RevisionTellsTheView
    LiveNeverGoesBack
CONSTRAINTS OnePart Room
ACTION_CONSTRAINT Early
CHECK_DEADLOCK FALSE
