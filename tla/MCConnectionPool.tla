-------------------------- MODULE MCConnectionPool --------------------------
(***************************************************************************)
(* ConnectionPool on one service with two user-scoped keys.                *)
(***************************************************************************)
EXTENDS ConnectionPool, TLC

CONSTANTS service, user1, user2

MCBase == [k \in Keys |-> service]

PoolSymmetry == Permutations(Calls) \cup Permutations(Keys \ {service})

=============================================================================
