CONSTANTS
    ana = ana
    bia = bia
    caio = caio
    p1 = p1
    p2 = p2
    g = g
    h = h
    Entry = {ana, bia, caio}
    PhaseId = {p1, p2}
    GroupName = {g, h}
    Label = Label
    None = None
    Scheduled = {m1}
    Generated = {r1}
    Setups <- AllSetups
    MayLeave = {ana}
    Pairs <- SomePairs
SPECIFICATION Spec
INVARIANTS EchoIsHarmless StandingsAreCurrent
PROPERTIES StructureFrozen OperatedMatchesStay
CHECK_DEADLOCK FALSE
