-------------------------- MODULE MCActionPipeline --------------------------
(* Two editions, the alias "active", and deliveries chosen so that keys,   *)
(* routes and activations meet.                                            *)
EXTENDS ActionPipeline, TLC

CONSTANTS alias, none, k1, k2, b1, b2, ana, bia

Ask(key, body, actor, route) ==
    [key |-> key, body |-> body, actor |-> actor, route |-> route,
     everywhere |-> FALSE, activates |-> none]
Activation(key, route, edition) ==
    [key |-> key, body |-> b2, actor |-> ana, route |-> route,
     everywhere |-> TRUE, activates |-> edition]

(* A request and its resend through the alias, and an activation that      *)
(* switches the alias between, before or after them.                       *)
ResentJobs ==
    1 :> Ask(k1, b1, ana, alias) @@ 2 :> Ask(k1, b1, ana, alias) @@
    3 :> Activation(k2, 1, 2)

(* More rivals than a delivery has attempts, one key for all of them: two  *)
(* answers meet in edition 1, two actors and two bodies share the key, and *)
(* two deliveries may take the rows of both editions in opposite order.    *)
RivalJobs ==
    1 :> Activation(k1, 2, 1) @@
    2 :> [Ask(k1, b1, ana, 1) EXCEPT !.everywhere = TRUE] @@
    3 :> Ask(k1, b1, bia, alias)
=============================================================================
