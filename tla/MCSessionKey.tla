---------------------------- MODULE MCSessionKey ----------------------------
(* SessionKey for TLC: symmetry over interchangeable connections and sessions. *)
EXTENDS SessionKey, TLC

MCSymmetry == Permutations(Conns) \cup Permutations(Sessions)
=============================================================================
