---------------------------- MODULE MCBroadcast ----------------------------
(***************************************************************************)
(* The safety run of Broadcast: WebSockets differ in name only, so states  *)
(* that a permutation of them makes equal are checked once.                *)
(***************************************************************************)
EXTENDS Broadcast, TLC

Symmetry == Permutations(WebSockets)
=============================================================================
