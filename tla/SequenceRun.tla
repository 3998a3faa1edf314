---------------------------- MODULE SequenceRun ----------------------------
(***************************************************************************)
(* What a sequence promises to the user and to the planner: its rows are   *)
(* shot in order, one frame at a time; it only ends as done when every row *)
(* is complete, and otherwise it is cut short.  A refused start changes    *)
(* nothing.                                                                *)
(***************************************************************************)
EXTENDS Integers

CONSTANT Need     \* Need[l]: frames to accept for row l

VARIABLES
    phase,        \* "stopped" or "running"
    shots,        \* shots[l]: frames accepted for row l
    outcome       \* how the last run ended, "none" while one runs

vars == <<phase, shots, outcome>>

Init ==
    /\ phase = "stopped" /\ outcome = "none"
    /\ shots = [l \in DOMAIN Need |-> 0]

Begin ==
    /\ phase = "stopped" /\ phase' = "running"
    /\ shots' = [l \in DOMAIN Need |-> 0]
    /\ outcome' = "none"

Shoot(l) ==
    /\ phase = "running"
    /\ shots[l] < Need[l]
    /\ \A k \in DOMAIN Need : k < l => shots[k] = Need[k]
    /\ shots' = [shots EXCEPT ![l] = @ + 1]
    /\ UNCHANGED <<phase, outcome>>

End ==
    /\ phase = "running" /\ phase' = "stopped"
    /\ \/ outcome' = "done" /\ shots = Need
       \/ outcome' = "cut"
    /\ UNCHANGED shots

Next == Begin \/ (\E l \in DOMAIN Need : Shoot(l)) \/ End

Spec == Init /\ [][Next]_vars
=============================================================================
