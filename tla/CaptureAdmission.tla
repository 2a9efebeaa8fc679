-------------------------- MODULE CaptureAdmission --------------------------
(***************************************************************************)
(* What the spool promises the hooks and the maintenance commands, without *)
(* files, markers, crashes or steps.  A session's intakes reach the store  *)
(* directly only while none of them waits; what waits stays until the      *)
(* store holds it; drops only accumulate, a bridge drop fences every later *)
(* chunk, and both are forgotten only when nothing waits.                  *)
(***************************************************************************)
EXTENDS Integers, Sequences

CONSTANTS Sessions, Intakes, Chunks

VARIABLES
    queued,   \* the intakes that wait
    stored,   \* per session, the intakes the store holds
    dropped,  \* drops recorded
    fence     \* a bridge chunk was dropped

vars == <<queued, stored, dropped, fence>>

Waiting(s) == {e \in queued : e.session = s}

Init ==
    /\ queued = {} /\ dropped = 0 /\ fence = FALSE
    /\ stored = [s \in Sessions |-> {}]

\* One intake goes straight to the store: nothing of its session waits.
Pass(e) ==
    /\ Waiting(e.session) = {}
    /\ stored' = [stored EXCEPT ![e.session] = @ \cup {e}]
    /\ UNCHANGED <<queued, dropped, fence>>

\* A bridge chunk does, as a whole: besides, no chunk was dropped before it.
PassChunk(c) ==
    LET s == Head(c.fallback).session IN
    /\ Waiting(s) = {} /\ ~fence
    /\ stored' = [stored EXCEPT ![s] = @ \cup {c.events[i] : i \in DOMAIN c.events}]
    /\ UNCHANGED <<queued, dropped, fence>>

Queue(e) ==
    /\ queued' = queued \cup {e}
    /\ UNCHANGED <<stored, dropped, fence>>

Deliver(e) ==
    /\ e \in queued
    /\ stored' = [stored EXCEPT ![e.session] = @ \cup {e}]
    /\ UNCHANGED <<queued, dropped, fence>>

\* Only what the store holds stops waiting.
Forget(e) ==
    /\ e \in queued /\ e \in stored[e.session]
    /\ queued' = queued \ {e}
    /\ UNCHANGED <<stored, dropped, fence>>

Drop ==
    /\ dropped' \in Nat /\ dropped' > dropped
    /\ fence => fence'
    /\ fence' \in BOOLEAN
    /\ UNCHANGED <<queued, stored>>

Reset ==
    /\ queued = {}
    /\ dropped' = 0 /\ fence' = FALSE
    /\ UNCHANGED <<queued, stored>>

Next ==
    \/ \E e \in Intakes : Pass(e) \/ Queue(e) \/ Deliver(e) \/ Forget(e)
    \/ \E c \in Chunks : PassChunk(c)
    \/ Drop \/ Reset

Spec == Init /\ [][Next]_vars
=============================================================================
