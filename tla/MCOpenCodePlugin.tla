-------------------------- MODULE MCOpenCodePlugin --------------------------
(* Small instances of OpenCodePlugin for TLC.                              *)
EXTENDS OpenCodePlugin, TLC

CONSTANTS s1, s2, s3

ThreeSessions == {s1, s2, s3}
Symmetry == Permutations(ThreeSessions)
=============================================================================
