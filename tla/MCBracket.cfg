CONSTANTS
    t1 = t1
    t2 = t2
    t3 = t3
    t4 = t4
    t5 = t5
    Entry = {t1, t2, t3, t4, t5}
    None = None
    Tables <- TwoTables
    Rules <- AllRules
    Keys <- OneKey
SPECIFICATION Spec
INVARIANTS WinnersAdvance SeededOnce EndsWithTheFinal NeverStuck
