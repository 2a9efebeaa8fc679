-------------------------- MODULE MCCaptureCommands --------------------------
(***************************************************************************)
(* Instances of CaptureCommands for TLC: two host generations, and a       *)
(* config that does not exist (0) or has a text of the user (1).           *)
(***************************************************************************)
EXTENDS CaptureCommands

TwoProcesses == {1, 2}
OneProcess == {1}
TwoGenerations == {1, 2}
UserTexts == {0, 1}

Limit(connects, deletes, nhooks, crashes, overlaps, nedits) ==
    [connects |-> connects, deletes |-> deletes, hooks |-> nhooks,
     crashes |-> crashes, overlaps |-> overlaps, edits |-> nedits]

\* One command after the other, with crashes, an edit and a deletion; or one
\* that starts while another runs.
Behaviours == {Limit(2, 1, 1, 2, 0, 1), Limit(2, 0, 1, 1, 1, 0)}
CrashAlone == {Limit(1, 0, 0, 1, 0, 0)}
=============================================================================
