----------------------------- MODULE FeedbackLog -----------------------------
(***************************************************************************)
(* What the feedback of one project promises a reader: the verdicts on a   *)
(* session form a log that only grows at its end, in the order of their    *)
(* stamps, each verdict another one than the one before it, and only so    *)
(* many; a deleted session has no verdicts and never gets one, unless the  *)
(* whole project is deleted, tombstones included.                          *)
(***************************************************************************)
EXTENDS Integers, Sequences

CONSTANTS Sessions, MaxRevisions

VARIABLES
    log,   \* the verdicts on every session
    gone   \* the deleted sessions

\* A verdict that may follow those of history.
Follows(history, verdict) ==
    history # <<>> =>
        /\ verdict.label # history[Len(history)].label
        /\ verdict.at > history[Len(history)].at

Init == log = [s \in Sessions |-> <<>>] /\ gone = {}

Revise(s) ==
    /\ s \notin gone
    /\ Len(log[s]) < MaxRevisions
    /\ Len(log'[s]) = Len(log[s]) + 1
    /\ Follows(log[s], log'[s][Len(log'[s])])
    /\ log' = [log EXCEPT ![s] = Append(@, log'[s][Len(log'[s])])]
    /\ UNCHANGED gone

Delete(s) ==
    /\ log' = [log EXCEPT ![s] = <<>>]
    /\ gone' = gone \cup {s}

\* The project is deleted: first its verdicts are hidden, then it is purged.
Wipe ==
    /\ log' = [s \in Sessions |-> <<>>]
    /\ gone' \in {gone, {}}

Next == Wipe \/ \E s \in Sessions : Revise(s) \/ Delete(s)

Spec == Init /\ [][Next]_<<log, gone>>
=============================================================================
