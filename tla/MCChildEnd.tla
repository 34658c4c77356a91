----------------------------- MODULE MCChildEnd -----------------------------
(* ChildEnd for TLC: what its process may ignore. *)
EXTENDS ChildEnd

Stubborn == {"HUP", "TERM"}
=============================================================================
