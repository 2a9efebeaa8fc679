---------------------------- MODULE CaptureLedger ----------------------------
(***************************************************************************)
(* What the capture store promises of the evidence of one project: every   *)
(* session has a ledger of intakes that only grows at its end, starts with *)
(* the session's start and ends with its end, and holds every producer     *)
(* event once; a deleted session never comes back, unless the whole        *)
(* connection is deleted, tombstones included.                             *)
(***************************************************************************)
EXTENDS Integers, Sequences

CONSTANTS Sessions, ConnectionOf

VARIABLES
    ledger,  \* the intakes of every session
    gone     \* the deleted sessions

Starts(e) == e.kind = "session_started"
Ends(e) == e.kind = "session_finished"

WellFormed(events) ==
    \A i \in DOMAIN events :
        /\ Starts(events[i]) <=> i = 1
        /\ Ends(events[i]) => i = Len(events)

HeldOnce(events, others) ==
    \A i \in DOMAIN events :
        /\ \A j \in 1..(i - 1) : events[j].digest # events[i].digest
        /\ \A t \in DOMAIN others : \A j \in DOMAIN others[t] :
              others[t][j].digest # events[i].digest

Init == /\ \A s \in Sessions : WellFormed(ledger[s])
        /\ gone = {}

\* One intake, or those of a chunk, are added at the end of a ledger.
Extend(s) ==
    /\ s \notin gone
    /\ Len(ledger'[s]) > Len(ledger[s])
    /\ SubSeq(ledger'[s], 1, Len(ledger[s])) = ledger[s]
    /\ \A i \in DOMAIN ledger'[s] : ledger'[s][i].session = s
    /\ WellFormed(ledger'[s])
    /\ HeldOnce(ledger'[s],
           [t \in {u \in Sessions \ {s} : ConnectionOf[u] = ConnectionOf[s]} |->
               ledger[t]])
    /\ ledger' = [ledger EXCEPT ![s] = ledger'[s]]
    /\ UNCHANGED gone

\* One session is deleted for good.
Delete(s) ==
    /\ ledger' = [ledger EXCEPT ![s] = <<>>]
    /\ gone' = gone \cup {s}

\* Everything of some connections is deleted, and so what was deleted of them.
Wipe(connections) ==
    /\ ledger' = [s \in Sessions |->
                    IF ConnectionOf[s] \in connections THEN <<>> ELSE ledger[s]]
    /\ gone' = {s \in gone : ConnectionOf[s] \notin connections}

Next ==
    \/ \E s \in Sessions : Extend(s) \/ Delete(s)
    \/ \E connections \in SUBSET {ConnectionOf[s] : s \in Sessions} :
          Wipe(connections)

Spec == Init /\ [][Next]_<<ledger, gone>>
=============================================================================
