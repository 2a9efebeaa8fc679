--------------------------- MODULE MCCaptureStore ---------------------------
(***************************************************************************)
(* Instances of CaptureStore for TLC.  The intakes of session s: its start *)
(* a, its end z, an event e, and for a bridge the gap marker g of the      *)
(* spool's fallback; x has the digest of session 1's event, but is not it. *)
(***************************************************************************)
EXTENDS CaptureStore

Intake(s, d, k, c) == [session |-> s, digest |-> d, kind |-> k, captured |-> c]
Start(s) == Intake(s, 10 * s, "session_started", TRUE)
Event(s) == Intake(s, 10 * s + 1, "other", TRUE)
End(s) == Intake(s, 10 * s + 2, "session_finished", TRUE)
Gap(s) == Intake(s, 10 * s + 3, "other", FALSE)
Forged(s) == Intake(s, 11, "other", TRUE)

Chunk(s, b, i, n, intakes) ==
    [session |-> s, batch |-> b, index |-> i, count |-> n, intakes |-> intakes]

TwoSessions == {1, 2}
OneConnection == {"k"}
TwoConnections == {"k", "l"}   \* l: a second provider of the project
Bridge == {{"k"}}
Hooks == {{}}
EitherProfile == {{}, {"k"}}
NoIntakes == {}
NoChunks == {}
SameConnection == [s \in TwoSessions |-> "k"]
NoLegacy == [s \in TwoSessions |-> <<>>]

\* Bridge: a batch of two chunks, a chunk that contradicts the first one, one
\* of a batch of its own, one with a colliding digest, one of session 2 under the batch of session 1.
SessionIntakes ==
    {Start(1), Event(1), End(1), Gap(1), Start(2), Forged(2), Gap(2)}   \* all there are
BridgeFallbacks == {Start(1), Gap(1), End(1), Start(2), Gap(2)}
BridgeChunks ==
    {Chunk(1, 1, 0, 2, <<Start(1), Event(1)>>),
     Chunk(1, 1, 1, 2, <<Start(1), End(1)>>),
     Chunk(1, 1, 0, 2, <<Start(1)>>),
     Chunk(1, 3, 0, 1, <<Start(1), Event(1)>>),
     Chunk(2, 2, 0, 1, <<Start(2), Forged(2)>>),
     Chunk(2, 1, 1, 2, <<Start(2)>>)}

\* Hooks: intakes one by one, in any order.
HookIntakes == {Event(1), End(1), Start(2), Forged(2), Gap(2)}

\* A session that a version-one store left, with as many events as it may have.
LegacyOne == [s \in TwoSessions |->
                IF s = 1 THEN <<Start(1), Event(1)>> ELSE <<>>]
LegacyChunks == {Chunk(1, 1, 0, 1, <<Start(1), End(1)>>)}
=============================================================================
