------------------------------- MODULE MCPipe -------------------------------
(* Values for the model checking of Pipe.                                  *)
EXTENDS Pipe, TLC

CONSTANTS r1, r2, w1, w2

TwoReaders == {r1, r2}
TwoWriters == {w1, w2}

(* The threads of a kind are interchangeable.                              *)
ThreadSymmetry == Permutations(TwoReaders) \cup Permutations(TwoWriters)
=============================================================================
