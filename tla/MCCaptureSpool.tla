--------------------------- MODULE MCCaptureSpool ---------------------------
(***************************************************************************)
(* Instances of CaptureSpool for TLC.  Session 1 is of a one-by-one        *)
(* profile, sessions 2 and 3 are bridge sessions or further single ones.   *)
(***************************************************************************)
EXTENDS CaptureSpool

Intake(s, k, a, n, p) ==
    [session |-> s, kind |-> k, authority |-> a, at |-> n, path |-> p]

Started(s) == Intake(s, "session_started", "unavailable", 0, 9)
Gap(s) == Intake(s, "other", "unavailable", 0, 2)
Sequenced(s, n) == Intake(s, "other", "sequence", n, 5 - n)
Finished(s) == Intake(s, "session_finished", "unavailable", 0, 1)

TwoSessions == {1, 2}
ThreeSessions == {1, 2, 3}

SingleIntakes == {Sequenced(1, 1), Sequenced(1, 2), Started(2)}
NoChunks == {}

MixedSingles == {Sequenced(1, 1), Sequenced(1, 2)}
BridgeChunks ==
    {[events |-> <<Started(2), Finished(2)>>,
      fallback |-> <<Started(2), Gap(2), Finished(2)>>],
     [events |-> <<Started(3)>>, fallback |-> <<Started(3)>>]}
MixedIntakes == MixedSingles \cup
    {Started(2), Gap(2), Finished(2), Started(3)}

AnyOutcome == {"admitted", "busy", "refused"}
MaybeBusy == {"admitted", "busy"}
=============================================================================
