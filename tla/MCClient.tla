------------------------------ MODULE MCClient ------------------------------
(* Values of the constants of Client for model checking. *)
EXTENDS Client

CONSTANTS m1, p1, v1, v2

\* A server that has loaded nothing yet, and one with a grid at its limit.
FreshOrFull ==
    {Nothing, Put(Nothing, m1, Put(Nothing, p1, [val |-> v2, rows |-> <<v1, v2>>]))}

\* An error of the time before the page was opened.
OneError == {<<0>>}
=============================================================================
