---------------------------- MODULE CaptureSpool ----------------------------
(***************************************************************************)
(* The authenticated fallback spool of Universal Shadow Capture            *)
(* (src/saliencegate/capture/spool.py).  Its state is a directory of       *)
(* files: one entry per queued intake, one marker per session, one health  *)
(* file.  Every operation runs under one exclusive cross-process lock, but *)
(* its files are published and removed one at a time, and the process may  *)
(* die between any two of them.  One action here is one file operation (or *)
(* one call of the capture store); pc # "idle" means that the lock is held.*)
(*                                                                         *)
(* Abstracted: framing, MAC tags and file identities (a file that is there *)
(* is authentic: tampering is outside this model), the drop reason, the    *)
(* Windows path, and the byte quota (MaxEvents stands for whichever of the *)
(* two limits is reached first).                                           *)
(***************************************************************************)
EXTENDS Integers, FiniteSets, Sequences

CONSTANTS
    Sessions,    \* (connection_id, session_id) keys, as numbers: they sort
    Intakes,     \* intakes, as records [session, kind, authority, at, path]
    Singles,     \* those a hook admits one by one (Codex, Claude Code)
    Chunks,      \* bridge chunks, as records [events, fallback] of sequences
    Outcomes,    \* what a store call may do, a subset of StoreOutcomes
    MaxEvents,   \* MAX_CAPTURE_SPOOL_EVENTS
    MaxBacklog,  \* _MAX_BRIDGE_FALLBACK_EXISTING_EVENTS
    MaxHooks,    \* bound on hook invocations
    MaxCrashes,  \* bound on processes that stop between two file operations
    MaxKills,    \* bound on processes killed inside a file publication
    None

StoreOutcomes == {"admitted", "busy", "refused"}
Kinds == {"session_started", "other", "session_finished"}
Authorities == {"sequence", "timestamp", "unavailable"}

ASSUME SessionsAssumption == Sessions \subseteq Nat /\ None \notin Sessions
ASSUME IntakesAssumption ==
    Intakes \subseteq [session : Sessions, kind : Kinds,
                       authority : Authorities, at : Nat, path : Nat]
\* A connection has one profile: the sessions of bridge chunks (OpenCode, Pi)
\* are not those of single intakes, and a chunk is of one session.
ASSUME ChunksAssumption ==
    /\ Singles \subseteq Intakes
    /\ \A c \in Chunks :
          /\ c.events \in Seq(Intakes) /\ c.events # <<>>
          /\ c.fallback \in Seq(Intakes) /\ c.fallback # <<>>
          /\ \E s \in Sessions :
                /\ \A i \in DOMAIN c.events : c.events[i].session = s
                /\ \A i \in DOMAIN c.fallback : c.fallback[i].session = s
                /\ \A e \in Singles : e.session # s
ASSUME BoundsAssumption ==
    /\ Outcomes \subseteq StoreOutcomes
    /\ MaxEvents \in Nat /\ MaxBacklog \in Nat
    /\ MaxHooks \in Nat /\ MaxCrashes \in Nat /\ MaxKills \in Nat

VARIABLES
    entries,   \* the *.capture-intake files
    marker,    \* the *.capture-session files: "none", "pending", "acknowledged"
    health,    \* the health file; dropped = 0 when there is none
    debris,    \* a temporary file of a killed publication is in the directory
    store,     \* external: per session, the intakes the store holds (a replay
               \* of one it holds changes nothing: append is idempotent)
    pc,        \* where the lock holder is; "idle" when the lock is free
    kind,      \* the operation of the lock holder
    todo,      \* its intakes still to place, or the one being drained
    fresh,     \* pending_quota_barrier: this drop created the session's marker
    receipts,  \* history: dropped_quota receipts since the health file was new
    phantom,   \* history: drops that interrupted operations may have counted
    fenced,    \* history: a bridge drop was acknowledged since then
    hooks, crashes, kills

disk == <<entries, marker, health>>
bounds == <<hooks, crashes, kills>>
history == <<receipts, phantom, fenced>>
vars == <<entries, marker, health, debris, store, pc, kind, todo, fresh,
          receipts, phantom, fenced, hooks, crashes, kills>>

NoHealth == [dropped |-> 0, ack |-> None, barrier |-> None]

Enqueuing == {"admit", "transport"}
Removing == kind \in {"drain", "clear"}        \* remove=True
Clearing == kind = "clear"                     \* clear_bridge_barrier=True

Queued(s) == {e \in entries : e.session = s}
Orphans == {s \in Sessions : marker[s] # "none" /\ Queued(s) = {}}
Reconciled == \A e \in entries : marker[e.session] # "none"
SpoolFull == Cardinality(entries) >= MaxEvents
BacklogExceeded == Cardinality(entries) > MaxBacklog

\* The health report: the pending orphans no health file accounts for yet
\* are added to the recorded drops.
SyntheticDrops ==
    Cardinality({s \in Orphans : /\ marker[s] = "pending"
                                 /\ s \notin {health.ack, health.barrier}})
ReportedDrops == health.dropped + SyntheticDrops
HealthRefused ==
    \/ debris
    \/ ~Reconciled
    \/ \E s \in Sessions : marker[s] = "acknowledged" /\ health.dropped = 0
    \/ \E s \in Sessions \ Orphans : marker[s] = "pending" /\ s = health.ack
    \/ health.barrier # None /\ marker[health.barrier] = "none"

LifecycleRank(e) == CASE e.kind = "session_started" -> 0
                      [] e.kind = "other" -> 1
                      [] e.kind = "session_finished" -> 2
AuthorityRank(e) == CASE e.authority = "sequence" -> 0
                      [] e.authority = "timestamp" -> 1
                      [] e.authority = "unavailable" -> 2
DrainKey(e) == <<e.session, LifecycleRank(e), AuthorityRank(e),
                 IF e.authority = "unavailable" THEN 0 ELSE e.at, e.path>>
DrainsBefore(a, b) ==
    \E i \in 1..5 : /\ DrainKey(a)[i] < DrainKey(b)[i]
                    /\ \A j \in 1..(i - 1) : DrainKey(a)[j] = DrainKey(b)[j]

-----------------------------------------------------------------------------
Init ==
    /\ entries = {}
    /\ marker = [s \in Sessions |-> "none"]
    /\ health = NoHealth
    /\ debris = FALSE
    /\ store = [s \in Sessions |-> {}]
    /\ pc = "idle" /\ kind = "none" /\ todo = <<>> /\ fresh = FALSE
    /\ receipts = 0 /\ phantom = 0 /\ fenced = FALSE
    /\ hooks = 0 /\ crashes = 0 /\ kills = 0

Goto(label) == pc' = label /\ UNCHANGED <<kind, todo, fresh>>
Release == pc' = "idle" /\ kind' = "none" /\ todo' = <<>> /\ fresh' = FALSE
Return == Release /\ UNCHANGED <<disk, debris, store, history, bounds>>
SetMarker(s, state) == marker' = [marker EXCEPT ![s] = state]

Begin(op, label, items) ==
    pc' = label /\ kind' = op /\ todo' = items /\ fresh' = FALSE

-----------------------------------------------------------------------------
(* Starting an operation: the lock is free.                                *)

\* admit: a session with a marker goes to the spool, any other to the store,
\* and only a busy store sends it to the spool after all.
AdmitQueued(e) ==
    /\ pc = "idle" /\ hooks < MaxHooks
    /\ marker[e.session] # "none"
    /\ Begin("admit", "reconcile", <<e>>)
    /\ hooks' = hooks + 1
    /\ UNCHANGED <<disk, debris, store, history, crashes, kills>>

AdmitDirect(e) ==
    /\ pc = "idle" /\ hooks < MaxHooks
    /\ marker[e.session] = "none"
    /\ hooks' = hooks + 1
    /\ \E outcome \in Outcomes :
          /\ store' = IF outcome = "admitted"
                      THEN [store EXCEPT ![e.session] = @ \cup {e}]
                      ELSE store
          /\ IF outcome = "busy"
             THEN Begin("admit", "reconcile", <<e>>)
             ELSE UNCHANGED <<pc, kind, todo, fresh>>
    /\ UNCHANGED <<disk, debris, history, crashes, kills>>

ChunkSession(c) == Head(c.fallback).session

\* admit_transport behind a bridge barrier: the whole fallback is dropped.
TransportFenced(c) ==
    /\ pc = "idle" /\ hooks < MaxHooks
    /\ health.barrier # None
    /\ hooks' = hooks + 1
    /\ Begin("transport", "require", c.fallback)
    /\ UNCHANGED <<disk, debris, store, history, crashes, kills>>

TransportDirectPastBarrier(c) ==   \* mutant: the barrier is not looked at
    /\ pc = "idle" /\ hooks < MaxHooks
    /\ marker[ChunkSession(c)] = "none"
    /\ hooks' = hooks + 1
    /\ \E outcome \in Outcomes :
          /\ store' = IF outcome = "admitted"
                      THEN [store EXCEPT ![ChunkSession(c)] =
                                @ \cup {c.events[i] : i \in DOMAIN c.events}]
                      ELSE store
          /\ IF outcome = "busy"
             THEN Begin("transport", "backlog", c.fallback)
             ELSE UNCHANGED <<pc, kind, todo, fresh>>
    /\ UNCHANGED <<disk, debris, history, crashes, kills>>

\* No barrier and no marker: the chunk goes to the store, all or nothing.
TransportDirect(c) ==
    /\ pc = "idle" /\ hooks < MaxHooks
    /\ health.barrier = None
    /\ marker[ChunkSession(c)] = "none"
    /\ hooks' = hooks + 1
    /\ \E outcome \in Outcomes :
          /\ store' = IF outcome = "admitted"
                      THEN [store EXCEPT ![ChunkSession(c)] =
                                @ \cup {c.events[i] : i \in DOMAIN c.events}]
                      ELSE store
          /\ IF outcome = "busy"
             THEN Begin("transport", "backlog", c.fallback)
             ELSE UNCHANGED <<pc, kind, todo, fresh>>
    /\ UNCHANGED <<disk, debris, history, crashes, kills>>

TransportQueued(c) ==
    /\ pc = "idle" /\ hooks < MaxHooks
    /\ health.barrier = None
    /\ marker[ChunkSession(c)] # "none"
    /\ hooks' = hooks + 1
    /\ Begin("transport", "backlog", c.fallback)
    /\ UNCHANGED <<disk, debris, store, history, crashes, kills>>

DrainStart ==
    /\ pc = "idle"
    /\ Begin("drain", "reconcile", <<>>)
    /\ UNCHANGED <<disk, debris, store, history, bounds>>

ClearStart ==
    /\ pc = "idle"
    /\ Begin("clear", "reconcile", <<>>)
    /\ UNCHANGED <<disk, debris, store, history, bounds>>

-----------------------------------------------------------------------------
(* Reconciling markers with entries: enqueue, drain and clear begin so.    *)

AfterReconcile == IF Clearing THEN "erase"
                  ELSE IF kind = "drain" THEN "require" ELSE "place"

ReconcileRefusedOrphans ==   \* mutant: an orphan is refused, not reconciled
    pc = "reconcile" /\ (debris \/ Orphans # {}) /\ Return

\* The listing refuses unknown files, then queued sessions without a marker.
ReconcileRefused == pc = "reconcile" /\ (debris \/ ~Reconciled) /\ Return

\* clear_drop_health_if_empty returns FALSE while anything is queued.
ClearDeclined ==
    /\ pc = "reconcile" /\ ~debris /\ Reconciled
    /\ Clearing /\ entries # {}
    /\ Return

ReconcileClearing ==   \* mutant: a clear does not look for entries
    /\ pc = "reconcile" /\ ~debris /\ Reconciled
    /\ Goto(IF Orphans = {} THEN AfterReconcile ELSE "barrier")
    /\ UNCHANGED <<disk, debris, store, history, bounds>>

Reconcile ==
    /\ pc = "reconcile" /\ ~debris /\ Reconciled
    /\ ~(Clearing /\ entries # {})
    /\ Goto(IF Orphans = {} THEN AfterReconcile ELSE "barrier")
    /\ UNCHANGED <<disk, debris, store, history, bounds>>

\* _persist_orphan_degradation_locked, first part: the bridge barrier.
PersistBarrier ==
    /\ pc = "barrier"
    /\ IF health.barrier = None
       THEN Goto("acked") /\ UNCHANGED disk
       ELSE LET s == health.barrier IN
            /\ marker[s] # "none"
            /\ \/ /\ marker[s] = "pending"
                  /\ SetMarker(s, "acknowledged") /\ Goto("barrier")
               \/ /\ marker[s] = "acknowledged"
                  /\ IF s \in Orphans /\ Removing /\ Clearing
                     THEN SetMarker(s, "none") ELSE UNCHANGED marker
                  /\ Goto("acked")
            /\ UNCHANGED <<entries, health>>
    /\ UNCHANGED <<debris, store, history, bounds>>

PersistBarrierRefused ==
    /\ pc = "barrier"
    /\ health.barrier # None /\ marker[health.barrier] = "none"
    /\ Return

AckPending == health.ack # None /\ marker[health.ack] = "pending"

\* Second part: a drop that is in the health file, whose marker is still
\* pending because the process stopped in between.
PersistAcknowledged ==
    /\ pc = "acked"
    /\ AckPending => health.ack \in Orphans
    /\ IF AckPending
       THEN SetMarker(health.ack, IF Removing THEN "none" ELSE "acknowledged")
       ELSE UNCHANGED marker
    /\ Goto("orphans")
    /\ UNCHANGED <<entries, health, debris, store, history, bounds>>

PersistAcknowledgedRefused ==
    /\ pc = "acked" /\ AckPending /\ health.ack \notin Orphans
    /\ Return

EveryOtherOrphan == Orphans \ {health.barrier}   \* mutant: settled ones too

\* Third part: every other orphan, in key order, is counted and then
\* acknowledged (enqueue) or removed (drain, clear).  An acknowledged one with
\* no health file is refused: AcknowledgedCounted says that there is none.
RemainingOrphans ==
    {s \in Orphans \ {health.barrier} : Removing \/ marker[s] = "pending"}
NextOrphan(s) ==
    s \in RemainingOrphans /\ \A t \in RemainingOrphans : s <= t

PersistOrphanUnfenced ==   \* mutant: the new record omits the barrier
    /\ pc = "orphans"
    /\ \E s \in RemainingOrphans :
          /\ NextOrphan(s)
          /\ IF marker[s] = "pending" /\ health.ack # s
             THEN /\ health' = [dropped |-> health.dropped + 1, ack |-> s, barrier |-> None]
                  /\ UNCHANGED marker
             ELSE /\ SetMarker(s, IF Removing THEN "none" ELSE "acknowledged")
                  /\ UNCHANGED health
    /\ Goto("orphans")
    /\ UNCHANGED <<entries, debris, store, history, bounds>>

PersistOrphanAgain ==   \* mutant: the record does not say which was counted
    /\ pc = "orphans"
    /\ \E s \in RemainingOrphans :
          /\ NextOrphan(s)
          /\ health' = [health EXCEPT !.dropped = @ + 1]
          /\ marker' \in {marker, [marker EXCEPT ![s] =
                              IF Removing THEN "none" ELSE "acknowledged"]}
    /\ Goto("orphans")
    /\ UNCHANGED <<entries, debris, store, history, bounds>>

PersistOrphan ==
    /\ pc = "orphans"
    /\ \E s \in RemainingOrphans :
          /\ NextOrphan(s)
          /\ marker[s] = "acknowledged" => health.dropped > 0
          /\ IF marker[s] = "pending" /\ health.ack # s
             THEN /\ health' = [health EXCEPT !.dropped = @ + 1, !.ack = s]
                  /\ UNCHANGED marker
             ELSE /\ SetMarker(s, IF Removing THEN "none" ELSE "acknowledged")
                  /\ UNCHANGED health
    /\ Goto("orphans")
    /\ UNCHANGED <<entries, debris, store, history, bounds>>

PersistDone ==
    /\ pc = "orphans" /\ RemainingOrphans = {}
    /\ Goto(AfterReconcile)
    /\ UNCHANGED <<disk, debris, store, history, bounds>>

-----------------------------------------------------------------------------
(* Placing one intake: _enqueue_locked after its reconciliation.           *)

Item == Head(todo)

\* The intake's call returns; the next fallback intake starts over.
Placed == IF Len(todo) = 1
          THEN Release
          ELSE /\ pc' = "reconcile" /\ todo' = Tail(todo) /\ fresh' = FALSE
               /\ UNCHANGED kind

AlreadyQueued ==
    /\ pc = "place" /\ Item \in entries
    /\ Placed
    /\ UNCHANGED <<disk, debris, store, history, bounds>>

EnsureMarkerAcknowledged ==   \* mutant: acknowledged before it is counted
    /\ pc = "place" /\ Item \notin entries
    /\ marker[Item.session] = "none"
    /\ SetMarker(Item.session, IF SpoolFull THEN "acknowledged" ELSE "pending")
    /\ pc' = (IF SpoolFull THEN "count" ELSE "publish") /\ fresh' = SpoolFull
    /\ UNCHANGED <<entries, health, debris, store, kind, todo, history, bounds>>

EnsureMarker ==
    /\ pc = "place" /\ Item \notin entries
    /\ marker[Item.session] = "none"
    /\ SetMarker(Item.session, "pending")
    /\ IF SpoolFull
       THEN pc' = "count" /\ fresh' = TRUE
       ELSE pc' = "publish" /\ fresh' = FALSE
    /\ UNCHANGED <<entries, health, debris, store, kind, todo, history, bounds>>

MarkerFound ==
    /\ pc = "place" /\ Item \notin entries
    /\ marker[Item.session] # "none"
    /\ Goto(IF SpoolFull THEN "count" ELSE "publish")
    /\ UNCHANGED <<disk, debris, store, history, bounds>>

PublishEntry ==
    /\ pc = "publish"
    /\ entries' = entries \cup {Item}
    /\ Placed
    /\ UNCHANGED <<marker, health, debris, store, history, bounds>>

\* The spool is full: the drop is written to the health file ...
CountQuotaDrop ==
    /\ pc = "count"
    /\ health' = [dropped |-> health.dropped + 1,
                  ack |-> IF fresh THEN Item.session ELSE health.ack,
                  barrier |-> IF kind = "transport" /\ health.barrier = None
                              THEN Item.session ELSE health.barrier]
    /\ Goto("settle")
    /\ UNCHANGED <<entries, marker, debris, store, history, bounds>>

\* ... and only then is a marker that stands for it acknowledged.
SettlesMarker ==
    \/ fresh
    \/ health.barrier = Item.session /\ marker[Item.session] = "pending"

SettleQuotaDrop ==
    /\ pc = "settle"
    /\ IF SettlesMarker
       THEN SetMarker(Item.session, "acknowledged")
       ELSE UNCHANGED marker
    /\ Placed
    /\ receipts' = receipts + 1
    /\ fenced' = (fenced \/ kind = "transport")
    /\ UNCHANGED <<entries, health, debris, store, phantom, bounds>>

-----------------------------------------------------------------------------
(* The bridge fallback under a backlog, and the bridge barrier.            *)

AfterRequire == IF kind = "drain" THEN "append" ELSE "tally"

\* _require_bridge_barrier_locked, in admit_transport and in drain.
RequireBarrier ==
    /\ pc = "require"
    /\ health.barrier # None => marker[health.barrier] # "none"
    /\ IF health.barrier # None /\ marker[health.barrier] = "pending"
       THEN SetMarker(health.barrier, "acknowledged")
       ELSE UNCHANGED marker
    /\ Goto(AfterRequire)
    /\ UNCHANGED <<entries, health, debris, store, history, bounds>>

RequireBarrierRefused ==
    /\ pc = "require"
    /\ health.barrier # None /\ marker[health.barrier] = "none"
    /\ Return

\* The backlog check reads names only, and refuses an unknown one.
BacklogRefused == pc = "backlog" /\ debris /\ Return

CheckBacklog ==
    /\ pc = "backlog" /\ ~debris
    /\ Goto(IF BacklogExceeded THEN "tally" ELSE "reconcile")
    /\ UNCHANGED <<disk, debris, store, history, bounds>>

Dropped == /\ Release
           /\ receipts' = receipts + Len(todo)
           /\ fenced' = TRUE
           /\ UNCHANGED phantom

\* _drop_bridge_fallback_locked: the fallback joins the drops of an existing
\* barrier, or raises one with the marker of its own session.
TallyEnsureMarker ==
    /\ pc = "tally"
    /\ health.barrier = None /\ marker[Item.session] = "none"
    /\ SetMarker(Item.session, "pending") /\ Goto("tally")
    /\ UNCHANGED <<entries, health, debris, store, history, bounds>>

TallyFallbackOnce ==   \* mutant: the fallback counts as one drop
    /\ pc = "tally"
    /\ health' = [health EXCEPT !.dropped = @ + 1,
                                !.barrier = IF @ = None THEN Item.session ELSE @]
    /\ IF health.barrier = None
       THEN marker[Item.session] # "none" /\ Goto("seal") /\ UNCHANGED history
       ELSE Dropped
    /\ UNCHANGED <<entries, marker, debris, store, bounds>>

TallyFallback ==
    /\ pc = "tally"
    /\ health' = [health EXCEPT !.dropped = @ + Len(todo),
                                !.barrier = IF @ = None THEN Item.session ELSE @]
    /\ IF health.barrier = None
       THEN marker[Item.session] # "none" /\ Goto("seal") /\ UNCHANGED history
       ELSE Dropped
    /\ UNCHANGED <<entries, marker, debris, store, bounds>>

SealFallback ==
    /\ pc = "seal"
    /\ IF marker[Item.session] = "pending"
       THEN SetMarker(Item.session, "acknowledged") ELSE UNCHANGED marker
    /\ Dropped
    /\ UNCHANGED <<entries, health, debris, store, bounds>>

-----------------------------------------------------------------------------
(* Draining, and clearing the health file.                                 *)

DrainAppendBusy ==   \* mutant: busy is taken for an answer
    /\ pc = "append"
    /\ \E e \in entries :
          /\ \A other \in entries \ {e} : DrainsBefore(e, other)
          /\ \E outcome \in Outcomes :
                store' = IF outcome = "admitted"
                         THEN [store EXCEPT ![e.session] = @ \cup {e}] ELSE store
          /\ pc' = "unlink" /\ todo' = <<e>>
    /\ UNCHANGED <<disk, debris, kind, fresh, history, bounds>>

\* Each entry is offered to the store in drain order.  Busy ends the drain,
\* any other failure is raised: both leave this entry and the later ones.
DrainAppend ==
    /\ pc = "append"
    /\ \E e \in entries :
          /\ \A other \in entries \ {e} : DrainsBefore(e, other)
          /\ \E outcome \in Outcomes :
                IF outcome = "admitted"
                THEN /\ store' = [store EXCEPT ![e.session] = @ \cup {e}]
                     /\ pc' = "unlink" /\ todo' = <<e>>
                     /\ UNCHANGED <<kind, fresh>>
                ELSE Release /\ UNCHANGED store
    /\ UNCHANGED <<disk, debris, history, bounds>>

DrainFinished ==
    /\ pc = "append" /\ entries = {}
    /\ Return

UnlinkEntryUnmarks ==   \* mutant: the marker goes with the first entry
    /\ pc = "unlink"
    /\ entries' = entries \ {Item}
    /\ Goto("unmark")
    /\ UNCHANGED <<marker, health, debris, store, history, bounds>>

UnlinkEntry ==
    /\ pc = "unlink"
    /\ entries' = entries \ {Item}
    /\ IF /\ Queued(Item.session) = {Item}
          /\ Item.session # health.barrier
       THEN Goto("unmark")
       ELSE pc' = "append" /\ todo' = <<>> /\ UNCHANGED <<kind, fresh>>
    /\ UNCHANGED <<marker, health, debris, store, history, bounds>>

RemoveMarker ==
    /\ pc = "unmark"
    /\ SetMarker(Item.session, "none")
    /\ pc' = "append" /\ todo' = <<>> /\ UNCHANGED <<kind, fresh>>
    /\ UNCHANGED <<entries, health, debris, store, history, bounds>>

EraseHealth ==
    /\ pc = "erase"
    /\ health' = NoHealth
    /\ receipts' = 0 /\ phantom' = 0 /\ fenced' = FALSE
    /\ Release
    /\ UNCHANGED <<entries, marker, debris, store, bounds>>

-----------------------------------------------------------------------------
(* Failures of the lock holder; the lock goes with the process.            *)

\* Drops that the health file may count although no receipt says so: the
\* intakes between their marker and their receipt, and a drained session
\* whose last entry is gone while its marker is not.
Exposed == CASE pc \in {"place", "publish", "count", "settle", "unmark"} -> 1
             [] pc \in {"tally", "seal"} -> Len(todo)
             [] OTHER -> 0

Crash ==
    /\ pc # "idle" /\ crashes < MaxCrashes
    /\ Release
    /\ crashes' = crashes + 1
    /\ phantom' = phantom + Exposed
    /\ UNCHANGED <<disk, debris, store, receipts, fenced, hooks, kills>>

\* The next step publishes a file (it does not only read, move on or delete).
Publishing ==
    \/ pc \in {"publish", "count", "tally"}
    \/ pc = "place" /\ Item \notin entries /\ marker[Item.session] = "none"
    \/ pc = "settle" /\ SettlesMarker
    \/ pc = "seal" /\ marker[Item.session] = "pending"
    \/ /\ pc \in {"barrier", "require"}
       /\ health.barrier # None /\ marker[health.barrier] = "pending"
    \/ pc = "acked" /\ AckPending /\ ~Removing
    \/ /\ pc = "orphans"
       /\ \E s \in RemainingOrphans :
             NextOrphan(s) /\ marker[s] = "pending" /\ (Removing => health.ack # s)

\* A process killed inside a publication leaves its temporary file behind.
Kill ==
    /\ Publishing /\ kills < MaxKills
    /\ Release
    /\ debris' = TRUE
    /\ kills' = kills + 1
    /\ phantom' = phantom + Exposed
    /\ UNCHANGED <<disk, store, receipts, fenced, hooks, crashes>>

-----------------------------------------------------------------------------
Start ==
    \/ \E e \in Singles : AdmitQueued(e) \/ AdmitDirect(e)
    \/ \E c \in Chunks : TransportFenced(c) \/ TransportDirect(c)
                         \/ TransportQueued(c)
    \/ DrainStart
    \/ ClearStart

Persist ==
    \/ ReconcileRefused \/ ClearDeclined \/ Reconcile
    \/ PersistBarrier \/ PersistBarrierRefused
    \/ PersistAcknowledged \/ PersistAcknowledgedRefused
    \/ PersistOrphan \/ PersistDone

Place ==
    \/ AlreadyQueued \/ EnsureMarker \/ MarkerFound \/ PublishEntry
    \/ CountQuotaDrop \/ SettleQuotaDrop

Fallback ==
    \/ RequireBarrier \/ RequireBarrierRefused
    \/ BacklogRefused \/ CheckBacklog
    \/ TallyEnsureMarker \/ TallyFallback \/ SealFallback

Drain == DrainAppend \/ DrainFinished \/ UnlinkEntry \/ RemoveMarker \/ EraseHealth

Step == Persist \/ Place \/ Fallback \/ Drain
Next == Start \/ Step \/ Crash \/ Kill

Spec == Init /\ [][Next]_vars
\* A process that holds the lock runs: nothing in the code waits there except
\* the store, which answers or reports busy within its timeout.
FairSpec == Spec /\ WF_vars(Step)
\* Besides, maintenance commands keep being run and the store is not busy for
\* ever: what the user and the machine are assumed to do, not the code.
DrainFairSpec ==
    FairSpec /\ SF_vars(DrainStart) /\ SF_vars(DrainAppend /\ pc' = "unlink")

-----------------------------------------------------------------------------
(* Properties.                                                             *)

TypeOK ==
    /\ entries \subseteq Intakes
    /\ marker \in [Sessions -> {"none", "pending", "acknowledged"}]
    /\ health \in [dropped : Nat, ack : Sessions \cup {None},
                   barrier : Sessions \cup {None}]
    /\ debris \in BOOLEAN
    /\ store \in [Sessions -> SUBSET Intakes]
    /\ pc \in {"idle", "reconcile", "barrier", "acked", "orphans", "place",
              "publish", "count", "settle", "require", "backlog", "tally",
              "seal", "append", "unlink", "unmark", "erase"}
    /\ kind \in {"none", "admit", "transport", "drain", "clear"}
    /\ todo \in Seq(Intakes)
    /\ fresh \in BOOLEAN
    /\ receipts \in Nat /\ phantom \in Nat /\ fenced \in BOOLEAN
    /\ hooks \in 0..MaxHooks /\ crashes \in 0..MaxCrashes /\ kills \in 0..MaxKills

\* Wherever a process dies, every queued session still has its marker: the
\* marker is published before the first entry and removed after the last one,
\* so no operation refuses the spool for a gap the program made itself.
QueuedSessionsMarked == Reconciled

\* An acknowledged marker stands for drops that are in the health file: it is
\* written first, so no acknowledgement survives a crash uncounted.
AcknowledgedCounted ==
    \A s \in Sessions : marker[s] = "acknowledged" => health.dropped > 0

\* Every dropped_quota receipt that was returned is counted in the health
\* file, whatever was interrupted, reconciled, drained or counted since.
DropsAccounted == receipts <= health.dropped

\* No drop is counted twice: between operations the report never exceeds the
\* receipts and what interrupted operations had in flight, however often a
\* half-done reconciliation is started over.
DropsNotOvercounted == pc = "idle" => ReportedDrops <= receipts + phantom

\* Once a bridge was told that its chunk is dropped, the barrier stays in the
\* health file until the file itself is cleared, across orphans counted,
\* drains and crashes.
FenceKept == fenced => health.barrier # None

\* Nothing overtakes the spool: a hook puts an intake straight into the store
\* only when no intake of its session is queued, and a bridge chunk only when
\* no bridge chunk was dropped since the health file was cleared.
NoOvertaking ==
    [][\A s \in Sessions :
          pc = "idle" /\ store'[s] # store[s] =>
              /\ Queued(s) = {}
              /\ fenced => \A c \in Chunks : ChunkSession(c) # s]_vars

\* The file-by-file protocol implements CaptureAdmission: an entry leaves the
\* spool only when the store holds its intake (also after a crash between the
\* append and the unlink), and the health file goes only when none is queued.
Promise == INSTANCE CaptureAdmission WITH
    queued <- entries, stored <- store,
    dropped <- health.dropped, fence <- health.barrier # None

ImplementsAdmission == Promise!Spec

\* The inductive invariant behind the safety properties above.
\* Where the lock holder is, it has the items that step looks at, and the
\* entry it is about to unlink is one the store has answered for.
HolderHasItems ==
    /\ kind \in Enqueuing => todo # <<>>
    /\ pc \in {"reconcile", "barrier", "acked", "orphans"} =>
          kind \in Enqueuing \cup {"drain", "clear"}
    /\ pc \in {"place", "publish", "count", "settle", "backlog", "tally", "seal"} =>
          kind \in Enqueuing
    /\ pc = "require" => kind \in {"transport", "drain"}
    /\ pc \in {"append", "unlink", "unmark"} => kind = "drain"
    /\ pc \in {"unlink", "unmark"} => todo # <<>>
    /\ pc = "unlink" => /\ Head(todo) \in entries
                       /\ Head(todo) \in store[Head(todo).session]

\* A marker precedes the entries of its session and outlives them.
MarkersBracketEntries ==
    /\ QueuedSessionsMarked
    /\ pc \in {"publish", "count", "settle", "seal"} =>
          marker[Head(todo).session] # "none"
    /\ pc = "unmark" => Queued(Head(todo).session) = {}

\* A drop is in the health file before anything else shows it.
CountedFirst ==
    /\ health.ack # None \/ health.barrier # None => health.dropped > 0
    /\ pc = "settle" => health.dropped >= receipts + 1
    /\ pc = "settle" /\ kind = "transport" => health.barrier # None
    /\ pc = "seal" => /\ health.dropped >= receipts + Len(todo)
                      /\ health.barrier # None

\* Clearing runs on an empty queue and reaches the health file markerless.
ClearedIsEmpty ==
    /\ kind = "clear" /\ pc # "reconcile" => entries = {}
    /\ kind = "clear" /\ pc \in {"acked", "orphans"} /\ health.barrier # None =>
          marker[health.barrier] = "none"
    /\ pc = "erase" => /\ kind = "clear"
                       /\ \A s \in Sessions : marker[s] = "none"

SpoolInv ==
    /\ TypeOK /\ HolderHasItems /\ MarkersBracketEntries /\ AcknowledgedCounted
    /\ CountedFirst /\ ClearedIsEmpty /\ DropsAccounted /\ FenceKept

\* The lock is always given back: no operation loops, also over the markers an
\* earlier one left half done.
LockReleased == pc # "idle" ~> pc = "idle"

\* Every queued intake gets into the store, however often a process died, or
\* the health check says that the spool needs a repair: nothing is stuck in a
\* spool that looks healthy.
QueuedEventuallyStored ==
    \A e \in Intakes :
        e \in entries ~> e \in store[e.session] \/ HealthRefused

\* health() and observe_health() accept every spool that only this program
\* has written.
HealthReadable == pc = "idle" => ~HealthRefused
=============================================================================
