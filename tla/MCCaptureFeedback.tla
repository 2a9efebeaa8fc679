-------------------------- MODULE MCCaptureFeedback --------------------------
(* Two sessions, two labels, and a clock that runs from 0 to 3 and back.   *)
EXTENDS CaptureFeedback, TLC

McTimes == {0, 1, 3}
McFreezes == 0..5
McSymmetry == Permutations(Sessions) \cup Permutations(Labels)
=============================================================================
