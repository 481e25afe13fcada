CONSTANTS
    None = None
    Actor = {ana, bia}
    Regulation <- Regulations
    Announced <- AnnouncedSides
    Lease = 0
    MaxTime = 1
    MaxEvents <- Events
    MayBecome <- Replacements
    MaxScore = 1
SYMMETRY Actors
SPECIFICATION Spec
INVARIANTS ScoreIsEarned NoSetAfterTheEnd ResultIsSound
PROPERTIES NoWayBack
CHECK_DEADLOCK FALSE
