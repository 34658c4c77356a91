------------------------------ MODULE LiveSlot ------------------------------
(***************************************************************************)
(* What the session manager promises of one key (session.py, first lines): *)
(* at most one process at a time, each session object used for one         *)
(* process, and a successor only after the predecessor was condemned and   *)
(* is gone.                                                                *)
(***************************************************************************)
CONSTANTS Sessions, None

VARIABLES slot,      \* the session whose process lives, or None
          condemned, \* its termination has begun and cannot be taken back
          spent      \* the sessions that have had their process

vars == <<slot, condemned, spent>>

Init == slot = None /\ condemned = FALSE /\ spent = {}

Fill(s) ==
    /\ s \notin spent
    /\ slot' = s
    /\ condemned' = FALSE
    /\ spent' = spent \cup {s}

\* A process starts where none is, or in the place of a condemned one.
Spawn(s) == slot = None /\ Fill(s)
Replace(s) == slot # None /\ condemned /\ Fill(s)

Condemn ==
    /\ slot # None /\ ~condemned
    /\ condemned' = TRUE
    /\ UNCHANGED <<slot, spent>>

\* By itself or because it was condemned.
Die ==
    /\ slot # None
    /\ slot' = None
    /\ condemned' = FALSE
    /\ UNCHANGED spent

Next == Condemn \/ Die \/ \E s \in Sessions : Spawn(s) \/ Replace(s)

Spec == Init /\ [][Next]_vars
=============================================================================
