--------------------------- MODULE CaptureFeedback ---------------------------
(***************************************************************************)
(* The human labels of the captured sessions of one project: the feedback  *)
(* part of the capture store (src/saliencegate/capture/store.py).  A label *)
(* is a chain of revision rows whose identifiers are tags over the whole   *)
(* chain before them, and one anchor row, newer than all of them, whose    *)
(* identifier is a tag over the chain.  Nothing but the rows says how long *)
(* the chain is or which row is the anchor: every operation sorts the rows *)
(* by their stamps, which come from a clock that may be set back.          *)
(*                                                                         *)
(* Abstracted: a tag is the data it is computed from (a keyed digest has   *)
(* no collisions), a microsecond is 1, and of the sessions only the states *)
(* and the time of closure are kept (CaptureStore has the rest).           *)
(***************************************************************************)
EXTENDS Integers, Sequences

CONSTANTS
    Sessions,
    Labels,        \* CaptureFeedbackLabel
    Times,         \* what the clock may show
    MaxRevisions,  \* MAX_CAPTURE_FEEDBACK_REVISIONS_PER_SESSION
    Freezes,       \* the times at which a study freezes its labels
    None           \* no time of closure

ASSUME TimesAssumption ==
    Times \subseteq Nat /\ Freezes \subseteq Nat /\ None \notin Nat
ASSUME BoundAssumption == MaxRevisions \in Nat \ {0}

VARIABLES
    clock,       \* datetime.now(UTC)
    deleting,    \* the connections of the project are being deleted
    session,     \* capture_sessions: [state, closedAt, degraded]
    tombstones,  \* deleted_sessions
    rows         \* feedback_labels, by session

vars == <<clock, deleting, session, tombstones, rows>>

Verdicts == [label : Labels, at : Nat]
SessionStates == {"absent", "open", "closed", "quarantined", "deleting"}
Absent == [state |-> "absent", closedAt |-> None, degraded |-> FALSE]

-----------------------------------------------------------------------------
(* Rows: the identifier of a row is its domain and the chain of verdicts it*)
(* is a tag of; the label of a row is that of the last of them.            *)

RevisionRow(chain, k) ==
    [domain |-> "feedback_id", chain |-> SubSeq(chain, 1, k), at |-> chain[k].at]

AnchorRowOfLabel(chain, at) ==   \* mutant: binds the last label only
    [domain |-> "feedback_anchor_id",
     chain |-> <<[label |-> chain[Len(chain)].label, at |-> 0]>>, at |-> at]

AnchorRow(chain, at) ==
    [domain |-> "feedback_anchor_id", chain |-> chain, at |-> at]

RowsOf(chain, at) ==
    {RevisionRow(chain, k) : k \in DOMAIN chain} \cup {AnchorRow(chain, at)}

Newest(found) == CHOOSE r \in found : \A q \in found : q.at <= r.at

\* The anchor is the newest row, the latest revision is the next one.
Anchor(found) == Newest(found)
Revisions(found) == {r \in found : r # Anchor(found)}
Latest(found) == Newest(Revisions(found))

\* Sorted by their stamps: each verdict is newer than those before it, and is
\* another one than the last of them.
Monotone(chain) ==
    \A k \in DOMAIN chain : \A j \in 1..(k - 1) :
        /\ chain[j].at < chain[k].at
        /\ j = k - 1 => chain[j].label # chain[k].label

Sound(chain, at) ==
    /\ chain # <<>> /\ Len(chain) <= MaxRevisions
    /\ Monotone(chain)
    /\ chain[Len(chain)].at < at

\* _verified_feedback_rows: no rows, or the revisions of one chain, in the
\* order of their stamps, and behind them the anchor of that chain.
Verified(found) ==
    \/ found = {}
    \/ /\ Revisions(found) # {}
       /\ Sound(Latest(found).chain, Anchor(found).at)
       /\ found = RowsOf(Latest(found).chain, Anchor(found).at)

\* The history that readers report.
History(found) == IF found = {} THEN <<>> ELSE Latest(found).chain

\* list_feedback(label_freeze): the revisions before a freeze.
Frozen(found, freeze) ==
    {r \in Revisions(found) : r.at < freeze}

-----------------------------------------------------------------------------
Init ==
    /\ clock \in Times
    /\ deleting = FALSE
    /\ session = [s \in Sessions |-> Absent]
    /\ tombstones = {}
    /\ rows = [s \in Sessions |-> {}]

\* Time passes, or the clock is set back.
SetClock(time) ==
    /\ clock' = time
    /\ UNCHANGED <<deleting, session, tombstones, rows>>

ClosedAtNow(row, state) ==   \* mutant: every update of a closed session counts
    IF state = "closed" THEN clock ELSE None

\* _update_session: the time of closure stays while the session is closed.
ClosedAt(row, state) ==
    IF state # "closed" THEN None
    ELSE IF row.state = "closed" THEN row.closedAt ELSE clock

Update(s, state, degraded) ==
    session' = [session EXCEPT ![s] =
        [state |-> state, closedAt |-> ClosedAt(session[s], state),
         degraded |-> degraded]]

(* What admission does to the sessions that are labelled (CaptureStore).   *)

Admissible(s) ==
    ~deleting /\ s \notin tombstones /\ session[s].state # "deleting"

\* An event is appended: the first opens the session, the last closes it.
Grow(s, next) ==
    /\ Admissible(s)
    /\ session[s].state = "open" \/ (session[s].state = "absent" /\ next = "open")
    /\ \E degraded \in {session[s].degraded, TRUE} : Update(s, next, degraded)
    /\ UNCHANGED <<clock, deleting, tombstones, rows>>

\* A contradiction, or a chunk for a session that has ended.
Quarantine(s) ==
    /\ Admissible(s)
    /\ Update(s, "quarantined", TRUE)
    /\ UNCHANGED <<clock, deleting, tombstones, rows>>

\* A hook reports a loss, maybe after the session was closed and labelled.
MarkHealth(s) ==
    /\ Admissible(s) /\ session[s].state # "absent"
    /\ Update(s, session[s].state, TRUE)
    /\ UNCHANGED <<clock, deleting, tombstones, rows>>

-----------------------------------------------------------------------------
(* record_feedback: one transaction.  A command that lost its answer, or   *)
(* that stopped before the commit, is one that asks again.                 *)

Labelable(s) == ~deleting /\ session[s].state = "closed"

StampOfAnchor(s) ==   \* mutant: the clock counts for the first label only
    IF rows[s] # {} THEN Anchor(rows[s]).at + 1
    ELSE IF clock < session[s].closedAt THEN session[s].closedAt ELSE clock

StampOfClock(s) == clock   \* mutant: a clock that was set back is believed

\* The clock, but not before the closure nor before the last anchor's stamp.
Stamp(s) ==
    IF rows[s] = {}
    THEN IF clock < session[s].closedAt THEN session[s].closedAt ELSE clock
    ELSE IF clock <= Anchor(rows[s]).at THEN Anchor(rows[s]).at + 1 ELSE clock

RepeatsNone(found, label) == FALSE   \* mutant: a repetition is a revision

\* The label that is in force: nothing is written.
Repeats(found, label) ==
    History(found) # <<>> /\ label = History(found)[Len(History(found))].label

Full(found) == Len(History(found)) >= MaxRevisions

\* The old anchor goes, the revision and its anchor come.
WithRevision(found, chain) ==
    Revisions(found) \cup {RevisionRow(chain, Len(chain)),
                           AnchorRow(chain, chain[Len(chain)].at + 1)}

Record(s, label) ==
    /\ Labelable(s) /\ Verified(rows[s])
    /\ ~Repeats(rows[s], label)
    /\ ~Full(rows[s])
    /\ rows' = [rows EXCEPT ![s] =
          WithRevision(@, Append(History(@), [label |-> label, at |-> Stamp(s)]))]
    /\ UNCHANGED <<clock, deleting, session, tombstones>>

-----------------------------------------------------------------------------
(* Deletion (CaptureStore has its phases): the rows go with the session.   *)

MarkSession(s) ==
    /\ session[s].state \notin {"absent", "deleting"} /\ Verified(rows[s])
    /\ Update(s, "deleting", session[s].degraded)
    /\ UNCHANGED <<clock, deleting, tombstones, rows>>

PurgeSession(s) ==
    /\ session[s].state = "deleting" /\ Verified(rows[s])
    /\ session' = [session EXCEPT ![s] = Absent]
    /\ tombstones' = tombstones \cup {s}
    /\ rows' = [rows EXCEPT ![s] = {}]
    /\ UNCHANGED <<clock, deleting>>

MarkProject ==
    /\ ~deleting
    /\ deleting' = TRUE
    /\ UNCHANGED <<clock, session, tombstones, rows>>

PurgeProject ==
    /\ deleting /\ \A s \in Sessions : Verified(rows[s])
    /\ deleting' = FALSE
    /\ session' = [s \in Sessions |-> Absent]
    /\ tombstones' = {}
    /\ rows' = [s \in Sessions |-> {}]
    /\ UNCHANGED clock

Next ==
    \/ \E time \in Times : SetClock(time)
    \/ \E s \in Sessions :
          \/ \E next \in {"open", "closed"} : Grow(s, next)
          \/ Quarantine(s) \/ MarkHealth(s)
          \/ MarkSession(s) \/ PurgeSession(s)
          \/ \E label \in Labels : Record(s, label)
    \/ MarkProject \/ PurgeProject

Spec == Init /\ [][Next]_vars

-----------------------------------------------------------------------------
(* Properties.                                                             *)

TypeOK ==
    /\ clock \in Times
    /\ deleting \in BOOLEAN
    /\ session \in [Sessions -> [state : SessionStates,
                                 closedAt : Nat \cup {None}, degraded : BOOLEAN]]
    /\ \A s \in Sessions : session[s].closedAt = None <=> session[s].state # "closed"
    /\ tombstones \subseteq Sessions
    /\ DOMAIN rows = Sessions
    /\ \A s \in Sessions : \A r \in rows[s] :
          /\ r.domain \in {"feedback_id", "feedback_anchor_id"}
          /\ r.chain \in Seq(Verdicts) /\ r.at \in Nat

\* However the clock runs, no label is written that a later operation would
\* refuse as tampered with, and a row neither comes before the end of its
\* session nor outlives it: the check that record, history, list and deletion
\* make, and the count of all rows that maintenance compares with what it
\* verified, never fail of the program's own doing.
FeedbackVerifies ==
    \A s \in Sessions :
        /\ Verified(rows[s])
        /\ session[s].state \in {"absent", "open"} => rows[s] = {}

\* "A chained, authenticated anchor detects mutation and partial or tail
\* truncation while any feedback history remains": no part of the rows of a
\* session verifies, but none of them and all.
TruncationDetected ==
    \A s \in Sessions : \A part \in SUBSET rows[s] :
        Verified(part) => part \in {{}, rows[s]}

\* A label is never stamped before the session's closure, though the clock be
\* set back between them and the session's row be rewritten after it: an
\* export refuses a label that is earlier.
LabelsFollowClosure ==
    \A s \in Sessions : session[s].state = "closed" =>
        \A r \in rows[s] : session[s].closedAt <= r.at

\* What was listed under a freeze stays what that freeze lists: a label that
\* is recorded when the clock, or any stamp of the session, has reached the
\* freeze does not come to lie before it.
FreezeKept ==
    [][\A s \in Sessions : session'[s].state # "absent" =>
          \A freeze \in Freezes :
              (freeze <= clock \/ \E r \in rows[s] : freeze <= r.at) =>
                  Frozen(rows'[s], freeze) = Frozen(rows[s], freeze)]_vars

\* The feedback implements FeedbackLog.  From the mark on, readers are refused.
Hidden(s) == deleting \/ session[s].state = "deleting"
Log == INSTANCE FeedbackLog WITH
    log <- [s \in Sessions |-> IF Hidden(s) THEN <<>> ELSE History(rows[s])],
    gone <- tombstones \cup {s \in Sessions : session[s].state = "deleting"}

ImplementsLog == Log!Spec
=============================================================================
