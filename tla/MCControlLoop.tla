--------------------------- MODULE MCControlLoop ---------------------------
(* Model checking of ControlLoop: the users are interchangeable.           *)
EXTENDS ControlLoop, TLC

Users == Permutations(User)
=============================================================================
