\* Three awards, at most two in one list; two closures.
CONSTANTS
    champion = champion
    third = third
    own = own
    first = first
    bronze = bronze
    alfa = alfa
    futsal = futsal
    xadrez = xadrez
    root = root
    None = None
    Keep = Keep
    a1 = a1
    a2 = a2
    a3 = a3
    Metric <- MCMetric
    Default <- MCDefault
    Standard <- MCStandard
    Position <- MCPosition
    Manual = Manual
    Award <- MCAward
    Account <- MCAccount
    Root = root
    Member = {}
    Athlete = {}
    Elsewhere = {}
    Catalog = {}
    Shelved = {}
    MaxGrants = 1
    Team <- MCTeam
    Discipline <- MCDiscipline
    MaxList = 2
    MaxClosures = 2
SYMMETRY Symmetric
SPECIFICATION Spec
INVARIANTS
    NothingScoresTwice
    ScoresStand
    OneClosureAtATime
PROPERTY SeedingRespectsChoices
