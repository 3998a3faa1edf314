------------------------------- MODULE MCFocus -------------------------------
(* The constants of Focus that a configuration file cannot write.           *)
EXTENDS Focus

\* Both measures, from startpos; the second set begins around where the focuser is.
MCModes == {[sharp |-> s, around |-> FALSE] : s \in BOOLEAN}
MCAround == {[sharp |-> FALSE, around |-> TRUE]}

=============================================================================
