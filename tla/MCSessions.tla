----------------------------- MODULE MCSessions -----------------------------
(* Two requests against one account, one replica that boots over it.       *)
EXTENDS Sessions, TLC

CONSTANTS r1, r2, b1

MCRequest == {r1, r2}
MCReplica == {b1}
Symmetric == Permutations(MCRequest)
=============================================================================
