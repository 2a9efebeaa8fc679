---------------------------- MODULE CaptureStore ----------------------------
(***************************************************************************)
(* The capture store (src/saliencegate/capture/store.py): connections,     *)
(* their sessions, the chained events of a session, the receipts of bridge *)
(* chunks, and deletion.  Every operation is one SQLite write transaction, *)
(* so one action here is one transaction; a deletion is several of them,   *)
(* and other processes (or a crash) come in between.                       *)
(*                                                                         *)
(* Abstracted: tags and digests of rows (a stored row is authentic; what   *)
(* the chain check says of counts, sources and ordinals is kept), times,   *)
(* which health code is recorded with a quarantine, feedback, and the      *)
(* cache of verified heads: it only spares a check of what was checked.    *)
(***************************************************************************)
EXTENDS Integers, FiniteSets, Sequences

CONSTANTS
    Connections,
    Profiles,      \* which connections may be those of a bridge (OpenCode, Pi)
    Sessions,      \* (connection_id, session_id) keys
    ConnectionOf,  \* the connection of a session
    Intakes,       \* intakes, as records [session, digest, kind, captured]
    Hooked,        \* those that hooks append one by one (Codex, Claude Code)
    Drained,       \* those of hooks that a drain of the spool appends
    Fallbacks,     \* those of bridges that it appends
    Chunks,        \* bridge chunks, as [session, batch, index, count, intakes]
    LegacyEvents,  \* events that a version-one store left in a session
    MaxEvents,     \* MAX_CAPTURE_EVENTS_PER_SESSION
    MaxReceipts,   \* MAX_CAPTURE_TRANSPORT_CHUNKS_PER_SESSION
    None, Project  \* no deletion; the deletion of the whole project

Kinds == {"session_started", "other", "session_finished"}
Sources == {"direct", "spool_drain"}
ConnectionStates ==
    {"absent", "pending", "enabled", "draining", "disabled", "deleting"}
SessionStates == {"absent", "open", "closed", "quarantined", "deleting"}

ASSUME NamesAssumption ==
    /\ Profiles \subseteq SUBSET Connections
    /\ ConnectionOf \in [Sessions -> Connections]
    /\ None \notin Sessions /\ Project \notin Sessions /\ None # Project
    /\ Connections # {}
ASSUME IntakesAssumption ==
    /\ Intakes \subseteq [session : Sessions, digest : Nat, kind : Kinds,
                          captured : BOOLEAN]
    /\ Hooked \cup Drained \cup Fallbacks \subseteq Intakes
\* An adapter puts the session's start before the events of every chunk.
ASSUME ChunksAssumption ==
    \A c \in Chunks :
        /\ c.session \in Sessions /\ c.batch \in Nat
        /\ c.count \in Nat /\ c.index \in 0..(c.count - 1)
        /\ c.intakes \in Seq({e \in Intakes : e.session = c.session})
        /\ c.intakes # <<>> /\ Head(c.intakes).kind = "session_started"
\* What a version-one store wrote passed the same checks: a start first, no end
\* in an open session, a producer digest once per connection, and the limit.
ASSUME LegacyAssumption ==
    /\ LegacyEvents \in [Sessions -> Seq(Intakes)]
    /\ \A s \in Sessions :
          /\ Len(LegacyEvents[s]) <= MaxEvents
          /\ \A i \in DOMAIN LegacyEvents[s] :
                /\ LegacyEvents[s][i].session = s
                /\ LegacyEvents[s][i].kind # "session_finished"
                /\ LegacyEvents[s][i].kind = "session_started" <=> i = 1
    /\ \A s, t \in Sessions : ConnectionOf[s] = ConnectionOf[t] =>
          \A i \in DOMAIN LegacyEvents[s], j \in DOMAIN LegacyEvents[t] :
              LegacyEvents[s][i].digest = LegacyEvents[t][j].digest => s = t /\ i = j
ASSUME BoundsAssumption == MaxEvents \in Nat \ {0} /\ MaxReceipts \in Nat \ {0}

VARIABLES
    bridges,     \* the connections of a bridge profile: fixed
    connection,  \* the state of each row of connections
    session,     \* the rows of a session: capture_sessions, capture_events,
                 \* capture_transport_receipts
    tombstones,  \* deleted_sessions
    deletion,    \* the deletion a process is in: [of, phase, ids]
    alarm        \* an operation failed with CaptureStoreIntegrityError

rows == <<connection, session, tombstones>>
changing == <<connection, session, tombstones, deletion, alarm>>
vars == <<bridges, changing>>

Absent == [state |-> "absent", degraded |-> FALSE, ledgered |-> FALSE,
           events |-> <<>>, receipts |-> <<>>]
NoDeletion == [of |-> None, phase |-> "none", ids |-> {}]

IsBridge(s) == ConnectionOf[s] \in bridges
SessionsOf(c) == {s \in Sessions : ConnectionOf[s] = c}
Siblings(s) == SessionsOf(ConnectionOf[s])

-----------------------------------------------------------------------------
(* What a transaction computes from the sessions it reads (db).            *)

LastPost(row) ==
    IF row.receipts = <<>> THEN 0 ELSE row.receipts[Len(row.receipts)].post

ReceiptsOrdered(row) ==
    \A i \in DOMAIN row.receipts :
        /\ row.receipts[i].post <= Len(row.events)
        /\ \A j \in 1..(i - 1) :
              /\ row.receipts[j].post <= row.receipts[i].post
              /\ row.receipts[j].chunk.batch = row.receipts[i].chunk.batch =>
                    /\ row.receipts[j].chunk.index # row.receipts[i].chunk.index
                    /\ row.receipts[j].chunk.count = row.receipts[i].chunk.count

EventsFullLate(row) == Len(row.events) > MaxEvents   \* mutant: off by one
EventsFull(row) == Len(row.events) >= MaxEvents
ReceiptsFull(row) == Len(row.receipts) >= MaxReceipts

EndedClosed(row) == row.state = "closed"   \* mutant: a quarantine is no end
Ended(row) == row.state \in {"closed", "quarantined"}

\* _verify_transport_chain: no event of a bridge session without a receipt,
\* but those the spool brought, and these only with degraded coverage.  Inside
\* a chunk the events after the last receipt are pending.
ChainVerifies(row, pending) ==
    IF ~row.ledgered THEN row.receipts = <<>>
    ELSE /\ ReceiptsOrdered(row)
         /\ \/ pending
            \/ LastPost(row) = Len(row.events)
            \/ /\ row.degraded
               /\ \A i \in (LastPost(row) + 1)..Len(row.events) :
                     row.events[i].source = "spool_drain"

BarredDeleting(db, s) == db[s].state = "deleting"   \* mutant: no tombstones

\* _append_session_row raises: behind a tombstone, or while deleting.
Barred(db, s) == s \in tombstones \/ db[s].state = "deleting"

\* A new session of a bridge gets its receipt ledger at once.
Created(s) == [Absent EXCEPT !.state = "open", !.ledgered = IsBridge(s)]

Quarantined(db, affected) ==
    [s \in Sessions |->
        IF s \notin affected THEN db[s]
        ELSE [(IF db[s].state = "absent" THEN Created(s) ELSE db[s])
              EXCEPT !.state = "quarantined", !.degraded = TRUE]]

\* The sessions of this connection that hold the producer's digest.
TwinSessions(db, e) ==
    {s \in Siblings(e.session) :
        \E i \in DOMAIN db[s].events : db[s].events[i].intake.digest = e.digest}
IsReplay(db, e) ==
    \E i \in DOMAIN db[e.session].events : db[e.session].events[i].intake = e

AllowedStates(source) ==
    IF source = "direct" THEN {"enabled"} ELSE {"enabled", "draining", "disabled"}

IsFallbackNever(e, source, bound) == FALSE   \* mutant: not told apart

\* A bridge intake that does not come in a chunk: the spool's fallback.
IsFallback(e, source, bound) ==
    IsBridge(e.session) /\ source = "spool_drain" /\ ~bound

\* _append_authenticated_in_transaction, in the order of its checks.
Answer(db, e, source, bound) ==
    LET s == e.session
        row == db[s]
        state == connection[ConnectionOf[s]]
        twins == TwinSessions(db, e)
    IN  IF \/ state \in {"absent", "deleting"}
           \/ IsBridge(s) /\ source = "direct" /\ ~bound
           \/ \E t \in twins \cup {s} : Barred(db, t)
        THEN "refused"
        ELSE IF \E t \in twins : ~ChainVerifies(db[t], bound) THEN "unverified"
        ELSE IF IsReplay(db, e) THEN "replayed"
        ELSE IF state \notin AllowedStates(source) THEN "refused"
        ELSE IF twins # {} THEN "collision"
        ELSE IF row.state = "absent" /\ e.kind # "session_started" THEN "refused"
        ELSE IF Ended(row)
             THEN IF IsFallback(e, source, bound) THEN "gap" ELSE "refused"
        ELSE IF row.state = "open" /\ e.kind = "session_started" THEN "refused"
        ELSE IF ~ChainVerifies(row, bound) THEN "unverified"
        ELSE IF EventsFull(row) THEN "overflow" ELSE "admitted"

\* The sessions an answer quarantines.
Affected(db, e, answer) ==
    CASE answer = "collision"           -> TwinSessions(db, e) \cup {e.session}
      [] answer \in {"gap", "overflow"} -> {e.session}
      [] OTHER                          -> {}

Extended(db, e, source, bound) ==
    LET s == e.session
        row == IF db[s].state = "absent" THEN Created(s) ELSE db[s]
    IN  [db EXCEPT ![s] =
            [row EXCEPT
                !.events = Append(@, [intake |-> e, source |-> source]),
                !.state = IF e.kind = "session_finished" THEN "closed" ELSE "open",
                !.degraded = \/ @
                             \/ ~e.captured
                             \/ IsFallback(e, source, bound)]]

\* The sessions after the answer: a replay and a refusal are rolled back.
Appended(db, e, source, bound) ==
    LET answer == Answer(db, e, source, bound)
    IN  [answer |-> answer,
         affected |-> Affected(db, e, answer),
         db |-> IF answer = "admitted" THEN Extended(db, e, source, bound)
                ELSE Quarantined(db, Affected(db, e, answer))]

-----------------------------------------------------------------------------
(* Bridge chunks.                                                          *)

ReceiptChunks(db, s) ==
    {db[s].receipts[i].chunk : i \in DOMAIN db[s].receipts}
BatchMates(db, c) ==
    {d \in UNION {ReceiptChunks(db, s) : s \in Siblings(c.session)} :
        d.batch = c.batch}
\* Chunks this one contradicts: the same place in a batch with other content,
\* else a batch of another session or of another number of chunks.
SamePlace(db, c) == {d \in BatchMates(db, c) : d.index = c.index}
Contradicted(db, c) ==
    IF SamePlace(db, c) # {} THEN SamePlace(db, c) \ {c}
    ELSE IF \E d \in BatchMates(db, c) : d.session # c.session \/ d.count # c.count
         THEN BatchMates(db, c)
         ELSE {}

\* The first chunk for a session of a version-one store gives it a ledger.
Upgraded(db, s) ==
    IF db[s].state = "open" /\ ~db[s].ledgered
    THEN [db EXCEPT ![s].ledgered = TRUE, ![s].degraded = TRUE]
    ELSE db

AppendedUntilReplay(db, c) ==   \* mutant: a replay ends the chunk
    LET run[n \in 0..Len(c.intakes)] ==
            IF n = 0
            THEN [answer |-> "admitted", affected |-> {}, db |-> db]
            ELSE IF run[n - 1].answer = "admitted"
                 THEN Appended(run[n - 1].db, c.intakes[n], "direct", TRUE)
                 ELSE run[n - 1]
    IN  run[Len(c.intakes)]

\* The intakes of the chunk one after the other; the first that is neither
\* admitted nor replayed ends it.
AppendedAll(db, c) ==
    LET run[n \in 0..Len(c.intakes)] ==
            IF n = 0
            THEN [answer |-> "admitted", affected |-> {}, db |-> db]
            ELSE IF run[n - 1].answer \in {"admitted", "replayed"}
                 THEN Appended(run[n - 1].db, c.intakes[n], "direct", TRUE)
                 ELSE run[n - 1]
    IN  run[Len(c.intakes)]

ReceiptedIntakes(db, c) ==   \* mutant: the receipt counts its own intakes only
    [db EXCEPT ![c.session].receipts =
        Append(@, [chunk |-> c, post |-> Len(c.intakes)])]

Receipted(db, c) ==
    [db EXCEPT ![c.session].receipts =
        Append(@, [chunk |-> c, post |-> Len(db[c.session].events)])]

-----------------------------------------------------------------------------
Init ==
    /\ bridges \in Profiles
    /\ \A s \in Sessions : LegacyEvents[s] # <<>> => IsBridge(s)
    /\ connection = [c \in Connections |->
          IF \E s \in SessionsOf(c) : LegacyEvents[s] # <<>>
          THEN "enabled" ELSE "absent"]
    /\ session = [s \in Sessions |->
          IF LegacyEvents[s] = <<>> THEN Absent
          ELSE [Absent EXCEPT !.state = "open",
                   !.degraded = \E i \in DOMAIN LegacyEvents[s] :
                                    ~LegacyEvents[s][i].captured,
                   !.events = [i \in DOMAIN LegacyEvents[s] |->
                       [intake |-> LegacyEvents[s][i], source |-> "direct"]]]]
    /\ tombstones = {}
    /\ deletion = NoDeletion
    /\ alarm = FALSE

Commit(db) == session' = db /\ UNCHANGED alarm
Fail == alarm' = TRUE /\ UNCHANGED session
CommitVerified(db, s) == IF ChainVerifies(db[s], FALSE) THEN Commit(db) ELSE Fail

(* Connections.                                                            *)

\* connect registers a connection as pending before it installs anything ...
Register(c) ==
    /\ connection[c] = "absent"
    /\ connection' = [connection EXCEPT ![c] = "pending"]
    /\ UNCHANGED <<session, tombstones, deletion, alarm>>

\* ... and enables it afterwards; disconnect takes the spool's maintenance lock
\* (which deletions hold) to set it draining, and disables it without.
Transitions == {<<"pending", "enabled">>, <<"enabled", "draining">>,
                <<"draining", "disabled">>, <<"disabled", "enabled">>}
Transition(c, target) ==
    /\ <<connection[c], target>> \in Transitions
    /\ connection[c] = "enabled" => deletion = NoDeletion
    /\ connection' = [connection EXCEPT ![c] = target]
    /\ UNCHANGED <<session, tombstones, deletion, alarm>>

-----------------------------------------------------------------------------
(* Admission.                                                              *)

\* append: a hook's intake, or an intake the spool is drained of.
AppendIntake(e, source) ==
    LET out == Appended(session, e, source, FALSE)
    IN  /\ IF out.answer = "unverified" THEN Fail ELSE Commit(out.db)
        /\ UNCHANGED <<connection, tombstones, deletion>>

\* mark_session_health: a hook records that coverage is lost.
MarkHealth(s) ==
    /\ connection[ConnectionOf[s]] = "enabled"
    /\ ~Barred(session, s)
    /\ IF session[s].state = "absent"
       THEN Commit(Quarantined(session, {s}))
       ELSE IF ChainVerifies(session[s], FALSE)
            THEN Commit([session EXCEPT ![s].degraded = TRUE])
            ELSE Fail
    /\ UNCHANGED <<connection, tombstones, deletion>>

\* append_transport_chunk needs an enabled connection.
Settle(db, affected, s) ==
    /\ \A t \in affected : ~Barred(session, t)
    /\ CommitVerified(Quarantined(db, affected), s)

\* A retried chunk that is there already.
ChunkReplayed(c) ==
    /\ connection[ConnectionOf[c.session]] = "enabled"
    /\ c \in BatchMates(session, c)
    /\ IF /\ ChainVerifies(session[c.session], FALSE)
          /\ \A i \in DOMAIN c.intakes : IsReplay(session, c.intakes[i])
       THEN Commit(session) ELSE Fail
    /\ UNCHANGED <<connection, tombstones, deletion>>

\* Both sides of a contradiction are quarantined.
ChunkContradicts(c) ==
    /\ connection[ConnectionOf[c.session]] = "enabled"
    /\ Contradicted(session, c) # {}
    /\ Settle(session, {c.session} \cup {d.session : d \in Contradicted(session, c)},
              c.session)
    /\ UNCHANGED <<connection, tombstones, deletion>>

NewChunk(c) ==
    /\ connection[ConnectionOf[c.session]] = "enabled"
    /\ c \notin BatchMates(session, c) /\ Contradicted(session, c) = {}
    /\ ~Barred(session, c.session)

\* A chunk for a closed session; a quarantined one refuses it unchanged.
ChunkAfterClose(c) ==
    /\ NewChunk(c)
    /\ session[c.session].state = "closed"
    /\ Settle(session, {c.session}, c.session)
    /\ UNCHANGED <<connection, tombstones, deletion>>

ChunkOverflows(c) ==
    /\ NewChunk(c)
    /\ session[c.session].state = "open"
    /\ ReceiptsFull(session[c.session])
    /\ Settle(Upgraded(session, c.session), {c.session}, c.session)
    /\ UNCHANGED <<connection, tombstones, deletion>>

\* All intakes and the receipt, or a quarantine and none of them.
ChunkAppended(c) ==
    /\ NewChunk(c)
    /\ session[c.session].state \in {"absent", "open"}
    /\ ~ReceiptsFull(session[c.session])
    /\ LET before == Upgraded(session, c.session)
           run == AppendedAll(before, c)
       IN  IF run.answer \in {"admitted", "replayed"}
           THEN CommitVerified(Receipted(run.db, c), c.session)
           ELSE IF run.answer \in {"collision", "overflow"}
           THEN Settle(before, run.affected, c.session)
           ELSE run.answer = "unverified" /\ Fail
    /\ UNCHANGED <<connection, tombstones, deletion>>

-----------------------------------------------------------------------------
(* Deletion: a command works under the spool's maintenance lock, one at a  *)
(* time, in several transactions; connect, hooks and crashes are between.  *)

InDeletion(of, phase) == deletion.of = of /\ deletion.phase = phase
Deleting(of, phase, ids) ==
    deletion' = [of |-> of, phase |-> phase, ids |-> ids]
Present == {c \in Connections : connection[c] # "absent"}

MarkSessionOnce(s) ==   \* mutant: a marked session counts as deleted
    /\ deletion = NoDeletion
    /\ session[s].state \notin {"absent", "deleting"}
    /\ IF ChainVerifies(session[s], FALSE)
       THEN /\ Commit([session EXCEPT ![s].state = "deleting"])
            /\ Deleting(s, "marked", {})
       ELSE Fail /\ UNCHANGED deletion
    /\ UNCHANGED <<connection, tombstones>>

\* Drains happen before the mark: AppendIntake.
MarkSession(s) ==
    /\ deletion = NoDeletion
    /\ session[s].state # "absent"
    /\ IF ChainVerifies(session[s], FALSE)
       THEN /\ Commit([session EXCEPT ![s].state = "deleting"])
            /\ Deleting(s, "marked", {})
       ELSE Fail /\ UNCHANGED deletion
    /\ UNCHANGED <<connection, tombstones>>

PurgeSession(s) ==
    /\ InDeletion(s, "marked")
    /\ IF session[s].state = "deleting" /\ ChainVerifies(session[s], FALSE)
       THEN /\ Commit([session EXCEPT ![s] = Absent])
            /\ tombstones' = tombstones \cup {s}
       ELSE Fail /\ UNCHANGED tombstones
    /\ deletion' = NoDeletion
    /\ UNCHANGED connection

\* _require_project_connections_disabled: all disabled, or all being deleted.
ProjectDeletable ==
    {connection[c] : c \in Present} \in {{}, {"disabled"}, {"deleting"}}

CheckProject ==
    /\ deletion = NoDeletion
    /\ ProjectDeletable
    /\ Deleting(Project, "checked", {})
    /\ UNCHANGED <<rows, alarm>>

MarkProject ==
    /\ InDeletion(Project, "checked")
    /\ IF Present # {} /\ \A c \in Present : connection[c] \in {"disabled", "deleting"}
       THEN /\ connection' = [c \in Connections |->
                   IF c \in Present THEN "deleting" ELSE "absent"]
            /\ Deleting(Project, "marked", Present)
       ELSE UNCHANGED connection /\ deletion' = NoDeletion
    /\ UNCHANGED <<session, tombstones, alarm>>

PurgeProject ==
    /\ InDeletion(Project, "marked")
    /\ deletion' = NoDeletion
    /\ IF Present # deletion.ids
       THEN UNCHANGED <<rows, alarm>>
       ELSE IF \A s \in Sessions : ChainVerifies(session[s], FALSE)
            THEN /\ connection' = [c \in Connections |-> "absent"]
                 /\ Commit([s \in Sessions |-> Absent])
                 /\ tombstones' = {}
            ELSE Fail /\ UNCHANGED <<connection, tombstones>>

\* The process of a deletion stops between two of its transactions.
Crash ==
    /\ deletion # NoDeletion
    /\ deletion' = NoDeletion
    /\ UNCHANGED <<rows, alarm>>

-----------------------------------------------------------------------------
Lifecycle ==
    \/ \E c \in Connections : Register(c)
    \/ \E c \in Connections, t \in ConnectionStates : Transition(c, t)

Admission ==
    \/ \E e \in Hooked : ~IsBridge(e.session) /\ AppendIntake(e, "direct")
    \/ \E e \in Drained : ~IsBridge(e.session) /\ AppendIntake(e, "spool_drain")
    \/ \E e \in Fallbacks : IsBridge(e.session) /\ AppendIntake(e, "spool_drain")
    \/ \E s \in Sessions : MarkHealth(s)
    \/ \E c \in {d \in Chunks : IsBridge(d.session)} :
          \/ ChunkReplayed(c) \/ ChunkContradicts(c) \/ ChunkAfterClose(c)
          \/ ChunkOverflows(c) \/ ChunkAppended(c)

Deletion ==
    \/ \E s \in Sessions : MarkSession(s) \/ PurgeSession(s)
    \/ CheckProject \/ MarkProject \/ PurgeProject

Next == (Lifecycle \/ Admission \/ Deletion \/ Crash) /\ UNCHANGED bridges

Spec == Init /\ [][Next]_vars

\* A deletion that failed is run again, and not interrupted for ever.
Resumed(s) == session[s].state = "deleting" /\ MarkSession(s)
FairSpec ==
    /\ Spec
    /\ \A s \in Sessions : SF_changing(Resumed(s)) /\ SF_changing(PurgeSession(s))
    /\ WF_changing(MarkProject) /\ WF_changing(PurgeProject)

-----------------------------------------------------------------------------
(* Properties.                                                             *)

TypeOK ==
    /\ bridges \in Profiles
    /\ connection \in [Connections -> ConnectionStates]
    /\ DOMAIN session = Sessions
    /\ \A s \in Sessions :
          /\ session[s].state \in SessionStates
          /\ session[s].degraded \in BOOLEAN /\ session[s].ledgered \in BOOLEAN
          /\ session[s].events \in Seq([intake : Intakes, source : Sources])
          /\ session[s].receipts \in Seq([chunk : Chunks, post : 0..MaxEvents])
          /\ Len(session[s].events) <= MaxEvents
          /\ Len(session[s].receipts) <= MaxReceipts
    /\ tombstones \subseteq Sessions
    /\ deletion \in [of : Sessions \cup {Project, None},
                     phase : {"none", "checked", "marked"},
                     ids : SUBSET Connections]
    /\ alarm \in BOOLEAN

\* No operation of the program makes a store that a later one refuses as
\* tampered with: every chain verification of the code succeeds, whatever
\* chunks, drains, collisions, overflows and deletions came before.
NothingTampered == ~alarm

\* A receipt stands for its whole chunk: when a chunk has a receipt, all its
\* intakes are among the events the receipt counts, so a chunk that failed in
\* its middle left neither a receipt nor an event behind.
ReceiptsBacked ==
    \A s \in Sessions : \A i \in DOMAIN session[s].receipts :
        LET r == session[s].receipts[i]
        IN  \A k \in DOMAIN r.chunk.intakes :
                \E j \in 1..r.post : session[s].events[j].intake = r.chunk.intakes[k]

\* A session that reports whole coverage has it: every event was captured, and
\* in a bridge session every event came in a chunk with a receipt, none from
\* the spool's fallback.
CoverageHonest ==
    \A s \in Sessions : ~session[s].degraded =>
        \A i \in DOMAIN session[s].events :
            /\ session[s].events[i].intake.captured
            /\ session[s].ledgered =>
                  \E c \in ReceiptChunks(session, s) :
                      \E k \in DOMAIN c.intakes :
                          c.intakes[k] = session[s].events[i].intake

\* What a session lost stays lost: degraded coverage and quarantine last until
\* the session is deleted, a closed session is never open again, and nothing
\* leaves deletion but the purge.
LossKept ==
    [][\A s \in Sessions : session'[s].state # "absent" =>
          /\ session[s].degraded => session'[s].degraded
          /\ session[s].state = "quarantined" =>
                session'[s].state \in {"quarantined", "deleting"}
          /\ session[s].state = "closed" => session'[s].state # "open"
          /\ session[s].state = "deleting" => session'[s].state = "deleting"]_vars

\* The store implements CaptureLedger: from the mark on, a deleted session is
\* gone for every reader, although its rows are purged in a later transaction.
Hidden(s) ==
    session[s].state = "deleting" \/ connection[ConnectionOf[s]] = "deleting"
Ledger == INSTANCE CaptureLedger WITH
    ledger <- [s \in Sessions |->
        IF Hidden(s) THEN <<>>
        ELSE [i \in DOMAIN session[s].events |-> session[s].events[i].intake]],
    gone <- {s \in Sessions :
        /\ connection[ConnectionOf[s]] # "deleting"
        /\ s \in tombstones \/ session[s].state = "deleting"}

ImplementsLedger == Ledger!Spec

\* A deletion that was begun ends: the rows of a session marked for deletion
\* are purged, though its process stopped after the mark.
SessionDeletionEnds ==
    \A s \in Sessions : session[s].state = "deleting" ~> session[s].state = "absent"

\* When no connection of the project is in use (every one is disabled, or is
\* already being deleted), the project can be deleted.
UnusedProjectDeletable ==
    deletion = NoDeletion
    /\ (\A c \in Present : connection[c] \in {"disabled", "deleting"})
        => ProjectDeletable
=============================================================================
