---------------------------- MODULE MCSequencer ----------------------------
(* Sequencer on small grids. *)
EXTENDS Sequencer

TwoByTwo  == <<2, 1>>      \* two rows, two shots and one
OneByTwo  == <<2>>         \* one row of two shots
LR        == <<"L", "R">>  \* the rows use different filters
LOnly     == <<"L">>
=============================================================================
