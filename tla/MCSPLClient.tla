---------------------------- MODULE MCSPLClient ----------------------------
(* TLC instances of SPLClient. *)
EXTENDS SPLClient, TLC

(* Connections are interchangeable: sound for the safety runs only. *)
ConnSymmetry == Permutations(Conns)
=============================================================================
