-------------------------- MODULE MCRevisionStream --------------------------
(* Two editions, one client on one of them or on the alias.                *)
EXTENDS RevisionStream

CONSTANTS e1, e2, alias

AllRoutes == {e1, alias}
=============================================================================
