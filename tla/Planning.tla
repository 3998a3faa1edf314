------------------------------ MODULE Planning ------------------------------
(***************************************************************************)
(* What a planning promises: the targets are shot one at a time, each at   *)
(* most once; a target gets one verdict, which stays; the planning stops   *)
(* by itself exactly when the last target gets its verdict, and otherwise  *)
(* only when it is stopped.                                                *)
(***************************************************************************)
CONSTANT Targets

VARIABLES
    phase,        \* "stopped" or "running"
    fate          \* fate[t]: "open", "shooting" or the verdict on t

vars == <<phase, fate>>

Verdicts == {"Finished", "Cancelled", "Failed"}

Init == phase = "stopped" /\ fate = [t \in Targets |-> "open"]

Begin ==
    /\ phase = "stopped" /\ phase' = "running"
    /\ fate' = [t \in Targets |-> "open"]

Shoot(t) ==
    /\ phase = "running"
    /\ fate[t] = "open"
    /\ \A u \in Targets : fate[u] # "shooting"
    /\ fate' = [fate EXCEPT ![t] = "shooting"]
    /\ UNCHANGED phase

\* A target that was shot is finished or cancelled, one that was not has failed.
Judge(t) ==
    /\ phase = "running"
    /\ \/ fate[t] = "shooting" /\ \E v \in {"Finished", "Cancelled"} :
                                      fate' = [fate EXCEPT ![t] = v]
       \/ fate[t] = "open" /\ fate' = [fate EXCEPT ![t] = "Failed"]
    /\ phase' = IF \A u \in Targets : fate'[u] \in Verdicts
                THEN "stopped" ELSE "running"

Stop ==
    /\ phase = "running" /\ phase' = "stopped"
    /\ UNCHANGED fate

Next == Begin \/ (\E t \in Targets : Shoot(t) \/ Judge(t)) \/ Stop

Spec == Init /\ [][Next]_vars
=============================================================================
