------------------------------ MODULE MCSystem ------------------------------
(* A small instance of System for TLC. *)
EXTENDS System, TLC

CONSTANTS c1, c2, s1, s2, a1, a2

\* Each attempt has an address of its own.
OwnAddresses == (c1 :> a1) @@ (c2 :> a2)
=============================================================================
