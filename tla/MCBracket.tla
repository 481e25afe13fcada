----------------------------- MODULE MCBracket -----------------------------
(* Five entries; three, four or five qualify, four of them possibly by a   *)
(* published key that is not the seeding's.                                *)
EXTENDS Bracket

CONSTANTS t1, t2, t3, t4, t5

TwoTables == {<<t1, t2, t3, t4, t5>>, <<t2, t5, t4, t1, t3>>}

Rule(n, crossing, third) == [qualifiers |-> n, crossing |-> crossing, third |-> third]
AllRules == {Rule(3, "padrao", TRUE), Rule(4, "padrao", TRUE), Rule(4, "sequencial", FALSE),
             Rule(5, "sequencial", FALSE)}
FourQualify == {Rule(4, "padrao", FALSE)}

CrossedKey == <<<<1, 3>>, <<2, 4>>>>
OneKey == {CrossedKey}
=============================================================================
