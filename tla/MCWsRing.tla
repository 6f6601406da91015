------------------------------- MODULE MCWsRing -------------------------------
(***************************************************************************)
(* WsRing with a ring that wraps and fills up.  With three clients and one *)
(* slot in the table, clients are culled beside survivors and are given no *)
(* id.                                                                     *)
(***************************************************************************)
EXTENDS WsRing, TLC

CONSTANTS c1, c2, c3

ThreeClients == {c1, c2, c3}
ClientSymmetry == Permutations(ThreeClients)
===============================================================================
