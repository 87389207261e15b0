------------------------------- MODULE Limits -------------------------------
(***************************************************************************)
(* The one option of mkRouter that the router's life and the connections   *)
(* in its map share.                                                       *)
(***************************************************************************)
EXTENDS Naturals

CONSTANT MaxConnections   \* maxConnections of the listening router

ASSUME LimitsAssumption == MaxConnections \in Nat
=============================================================================
