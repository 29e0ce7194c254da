---------------------------- MODULE MCRecorder ----------------------------
(* Two goroutines, one metadata key and two values, all model values.     *)
(* Goroutines are interchangeable and so are the values, which the        *)
(* properties only compare for equality.                                  *)
EXTENDS Recorder, TLC

CONSTANTS g1, g2, k1, v1, v2

MCGoroutines == {g1, g2}
MCKeys == {k1}
MCValues == {v1, v2}

Symmetry == Permutations(MCGoroutines) \cup Permutations(MCValues)
=============================================================================
