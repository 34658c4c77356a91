--------------------------- MODULE MCInputBuffer ---------------------------
(* InputBuffer for TLC: messages of every size that fits. *)
EXTENDS InputBuffer

FittingSizes == 1..Limit
=============================================================================
