CONSTANTS
    root = root
    ana = ana
    gil = gil
    futsal = futsal
    xadrez = xadrez
    alfa = alfa
    beta = beta
    a1 = a1
    None = None
    Keep = Keep
    Account <- MCAccount
    Root = root
    Member <- MCMember
    Discipline <- MCDiscipline
    Team <- MCTeam
    Athlete <- MCAthlete
    Elsewhere <- MCElsewhere
    Catalog <- MCCatalog
    Shelved = {}
    MaxGrants = 3
SYMMETRY Symmetric
SPECIFICATION RosterSpec
INVARIANTS
    RostersFollowTheAthlete
    NothingInUseDisappears
PROPERTIES
    TeamsKeepTheirAthletes
    NoEscalation
