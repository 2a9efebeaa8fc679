------------------------- MODULE CaptureSpoolProofs -------------------------
(***************************************************************************)
(* Theorems about CaptureSpool, for every value of its constants: SpoolInv *)
(* is inductive, and what follows from it.                                 *)
(***************************************************************************)
EXTENDS CaptureSpool, FiniteSetTheorems, TLAPS

\* Every intake is of a session.
LEMMA IntakeSession == \A e \in Intakes : e.session \in Sessions
  BY IntakesAssumption

\* A non-empty sequence of intakes has a head that is one, and a shorter tail.
LEMMA HeadAndTail ==
  ASSUME NEW items \in Seq(Intakes), items # <<>>
  PROVE  /\ Head(items) \in Intakes /\ Tail(items) \in Seq(Intakes)
         /\ Len(items) \in Nat /\ Len(items) > 0
         /\ Len(items) # 1 => Tail(items) # <<>>
<1>1. Len(items) \in Nat /\ Len(items) > 0
  OBVIOUS
<1>2. Head(items) \in Intakes /\ Tail(items) \in Seq(Intakes)
  OBVIOUS
<1>3. Len(Tail(items)) = Len(items) - 1
  BY <1>1
<1>4. QED
  BY <1>1, <1>2, <1>3

\* A chunk is handed over under the session of the head of its fallback.
LEMMA ChunkIntakes ==
  ASSUME NEW c \in Chunks
  PROVE  /\ c.fallback \in Seq(Intakes) /\ c.fallback # <<>>
         /\ ChunkSession(c) \in Sessions
         /\ {c.events[i] : i \in DOMAIN c.events} \subseteq Intakes
         /\ \A e \in Singles : e.session # ChunkSession(c)
<1>1. c.fallback \in Seq(Intakes) /\ c.fallback # <<>> /\ c.events \in Seq(Intakes)
  BY ChunksAssumption
<1>2. Head(c.fallback) \in Intakes /\ Head(c.fallback) = c.fallback[1]
      /\ 1 \in DOMAIN c.fallback
  BY <1>1
<1>3. PICK s \in Sessions :
        /\ \A i \in DOMAIN c.fallback : c.fallback[i].session = s
        /\ \A e \in Singles : e.session # s
  BY ChunksAssumption
<1>4. {c.events[i] : i \in DOMAIN c.events} \subseteq Intakes
  BY <1>1
<1>5. QED
  BY <1>1, <1>2, <1>3, <1>4 DEF ChunkSession

LEMMA InitInv == Init => SpoolInv
<1> SUFFICES ASSUME Init PROVE SpoolInv
  OBVIOUS
<1> USE DEF Init, NoHealth
<1>1. TypeOK
  <2>1. marker \in [Sessions -> {"none", "pending", "acknowledged"}]
    OBVIOUS
  <2>2. store \in [Sessions -> SUBSET Intakes]
    OBVIOUS
  <2>3. health \in [dropped : Nat, ack : Sessions \cup {None},
                   barrier : Sessions \cup {None}]
    OBVIOUS
  <2>4. hooks \in 0..MaxHooks /\ crashes \in 0..MaxCrashes /\ kills \in 0..MaxKills
    BY BoundsAssumption
  <2>5. todo \in Seq(Intakes)
    OBVIOUS
  <2>6. QED
    BY <2>1, <2>2, <2>3, <2>4, <2>5 DEF TypeOK
<1>2. HolderHasItems
  BY DEF HolderHasItems, Enqueuing
<1>3. MarkersBracketEntries
  BY DEF MarkersBracketEntries, QueuedSessionsMarked, Reconciled
<1>4. AcknowledgedCounted
  BY DEF AcknowledgedCounted
<1>5. CountedFirst /\ ClearedIsEmpty /\ DropsAccounted /\ FenceKept
  BY DEF CountedFirst, ClearedIsEmpty, DropsAccounted, FenceKept
<1>6. QED
  BY <1>1, <1>2, <1>3, <1>4, <1>5 DEF SpoolInv

-----------------------------------------------------------------------------
(* Each group of actions preserves the invariant.                          *)

\* Giving the lock back over a spool that is left as it is: nothing is
\* promised of an idle spool that was not true while the lock was held.
LEMMA ReleaseInv ==
  ASSUME SpoolInv, Release, TypeOK', UNCHANGED <<disk, receipts, fenced>>
  PROVE  SpoolInv'
<1> USE DEF SpoolInv, Release, disk
<1>1. (HolderHasItems /\ MarkersBracketEntries /\ AcknowledgedCounted)'
  BY DEF HolderHasItems, MarkersBracketEntries, AcknowledgedCounted, Enqueuing,
         QueuedSessionsMarked, Reconciled
<1>2. (CountedFirst /\ ClearedIsEmpty /\ DropsAccounted /\ FenceKept)'
  BY DEF CountedFirst, ClearedIsEmpty, DropsAccounted, FenceKept
<1>3. QED
  BY <1>1, <1>2

\* Starting an operation with items of its own, at a step that presumes no
\* more than that they are there.
LEMMA BeginInv ==
  ASSUME SpoolInv, TypeOK', UNCHANGED <<disk, receipts, fenced>>,
         NEW op, NEW label, NEW items, Begin(op, label, items),
         \/ /\ op \in Enqueuing /\ items # <<>>
            /\ \/ label \in {"reconcile", "backlog"}
               \/ label = "require" /\ op = "transport"
         \/ op \in {"drain", "clear"} /\ label = "reconcile"
  PROVE  SpoolInv'
<1> USE DEF SpoolInv, Begin, disk
<1>1. (HolderHasItems /\ MarkersBracketEntries /\ AcknowledgedCounted)'
  BY DEF HolderHasItems, MarkersBracketEntries, AcknowledgedCounted, Enqueuing,
         QueuedSessionsMarked, Reconciled
<1>2. (CountedFirst /\ ClearedIsEmpty /\ DropsAccounted /\ FenceKept)'
  BY DEF CountedFirst, ClearedIsEmpty, DropsAccounted, FenceKept, Enqueuing
<1>3. QED
  BY <1>1, <1>2

\* The same when nothing of the protocol moves.
LEMMA StayInv ==
  ASSUME SpoolInv, TypeOK', pc = "idle" \/ UNCHANGED store,
         UNCHANGED <<disk, pc, kind, todo, receipts, fenced>>
  PROVE  SpoolInv'
<1> USE DEF SpoolInv, disk
<1>1. (HolderHasItems /\ MarkersBracketEntries /\ AcknowledgedCounted)'
  BY DEF HolderHasItems, MarkersBracketEntries, AcknowledgedCounted, Enqueuing,
         QueuedSessionsMarked, Reconciled, Queued
<1>2. (CountedFirst /\ ClearedIsEmpty /\ DropsAccounted /\ FenceKept)'
  BY DEF CountedFirst, ClearedIsEmpty, DropsAccounted, FenceKept
<1>3. QED
  BY <1>1, <1>2

\* Adding intakes to a session of the store keeps it one.
LEMMA StoreGrows ==
  ASSUME NEW s \in Sessions, NEW more \in SUBSET Intakes,
         store \in [Sessions -> SUBSET Intakes],
         store' \in {store, [store EXCEPT ![s] = @ \cup more]}
  PROVE  store' \in [Sessions -> SUBSET Intakes]
  OBVIOUS

\* A step at the start of an operation keeps the types: it counts a hook and
\* leaves the files alone.
LEMMA StartType ==
  ASSUME TypeOK, UNCHANGED <<disk, debris, history, crashes, kills>>,
         store' \in [Sessions -> SUBSET Intakes],
         hooks' = hooks \/ (hooks' = hooks + 1 /\ hooks < MaxHooks),
         \/ UNCHANGED <<pc, kind, todo, fresh>>
         \/ \E op \in {"admit", "transport", "drain", "clear"},
               label \in {"reconcile", "require", "backlog"},
               items \in Seq(Intakes) : Begin(op, label, items)
  PROVE  TypeOK'
<1>1. hooks' \in 0..MaxHooks
  BY BoundsAssumption DEF TypeOK
<1>2. todo' \in Seq(Intakes) /\ fresh' \in BOOLEAN
      /\ pc' \in {pc, "reconcile", "require", "backlog"}
      /\ kind' \in {kind, "admit", "transport", "drain", "clear"}
  BY DEF TypeOK, Begin
<1>3. QED
  BY <1>1, <1>2 DEF TypeOK, disk, history

LEMMA StartInv == SpoolInv /\ Start => SpoolInv'
<1> SUFFICES ASSUME SpoolInv, Start PROVE SpoolInv'
  OBVIOUS
<1>0. TypeOK /\ store \in [Sessions -> SUBSET Intakes]
  BY DEF SpoolInv, TypeOK
<1>1. ASSUME NEW e \in Singles, AdmitQueued(e) PROVE SpoolInv'
  <2>1. <<e>> \in Seq(Intakes) /\ <<e>> # <<>>
    BY ChunksAssumption
  <2>2. TypeOK'
    BY <1>0, <1>1, <2>1, StartType DEF AdmitQueued
  <2>3. QED
    BY <1>1, <2>1, <2>2, BeginInv DEF AdmitQueued, Enqueuing, history
<1>2. ASSUME NEW e \in Singles, AdmitDirect(e) PROVE SpoolInv'
  <2>1. e \in Intakes /\ <<e>> \in Seq(Intakes) /\ <<e>> # <<>> /\ e.session \in Sessions
    BY ChunksAssumption, IntakeSession
  <2>2. store' \in [Sessions -> SUBSET Intakes]
    <3>1. store' \in {store, [store EXCEPT ![e.session] = @ \cup {e}]}
      BY <1>2 DEF AdmitDirect
    <3>2. QED
      BY <1>0, <2>1, <3>1, StoreGrows
  <2>3. \/ Begin("admit", "reconcile", <<e>>)
        \/ UNCHANGED <<pc, kind, todo, fresh>>
    BY <1>2 DEF AdmitDirect
  <2>4. UNCHANGED <<disk, debris, history, crashes, kills>>
        /\ hooks' = hooks + 1 /\ hooks < MaxHooks /\ pc = "idle"
    BY <1>2 DEF AdmitDirect
  <2>5. TypeOK'
    BY <1>0, <2>1, <2>2, <2>3, <2>4, StartType
  <2>6. QED
    BY <2>1, <2>3, <2>4, <2>5, BeginInv, StayInv DEF Enqueuing, history
<1>3. ASSUME NEW c \in Chunks,
             TransportFenced(c) \/ TransportDirect(c) \/ TransportQueued(c)
      PROVE  SpoolInv'
  <2>1. c.fallback \in Seq(Intakes) /\ c.fallback # <<>>
        /\ ChunkSession(c) \in Sessions
    BY ChunkIntakes
  <2>2. store' \in [Sessions -> SUBSET Intakes]
    <3> DEFINE sent == {c.events[i] : i \in DOMAIN c.events}
    <3>1. store' \in {store, [store EXCEPT ![ChunkSession(c)] = @ \cup sent]}
      BY <1>3 DEF TransportFenced, TransportDirect, TransportQueued
    <3>2. sent \in SUBSET Intakes
      BY ChunkIntakes
    <3> HIDE DEF sent
    <3>3. QED
      BY <1>0, <2>1, <3>1, <3>2, StoreGrows
  <2>3. \/ \E label \in {"require", "backlog"} : Begin("transport", label, c.fallback)
        \/ UNCHANGED <<pc, kind, todo, fresh>>
    BY <1>3 DEF TransportFenced, TransportDirect, TransportQueued
  <2>4. UNCHANGED <<disk, debris, history, crashes, kills>>
        /\ hooks' = hooks + 1 /\ hooks < MaxHooks /\ pc = "idle"
    BY <1>3 DEF TransportFenced, TransportDirect, TransportQueued
  <2>5. TypeOK'
    BY <1>0, <2>1, <2>2, <2>3, <2>4, StartType
  <2>6. QED
    BY <2>1, <2>3, <2>4, <2>5, BeginInv, StayInv DEF Enqueuing, history
<1>4. ASSUME DrainStart \/ ClearStart PROVE SpoolInv'
  <2>1. <<>> \in Seq(Intakes)
    OBVIOUS
  <2>2. PICK op \in {"drain", "clear"} : Begin(op, "reconcile", <<>>)
    BY <1>4 DEF DrainStart, ClearStart
  <2>3. /\ UNCHANGED <<disk, debris, history, crashes, kills>>
        /\ hooks' = hooks /\ store' = store
    BY <1>4 DEF DrainStart, ClearStart, bounds
  <2>4. TypeOK'
    BY <1>0, <2>1, <2>2, <2>3 DEF TypeOK, Begin, disk, history
  <2>5. QED
    BY <2>2, <2>3, <2>4, BeginInv DEF history
<1>5. QED
  BY <1>1, <1>2, <1>3, <1>4 DEF Start

\* What a step does to the markers when it sets one.
LEMMA SetMarkerEffect ==
  ASSUME TypeOK, NEW s \in Sessions, NEW state \in {"none", "pending", "acknowledged"},
         SetMarker(s, state)
  PROVE  /\ marker' \in [Sessions -> {"none", "pending", "acknowledged"}]
         /\ marker'[s] = state
         /\ \A t \in Sessions \ {s} : marker'[t] = marker[t]
  BY DEF TypeOK, SetMarker

\* A step inside an operation that only moves on keeps the types.
LEMMA MoveType ==
  ASSUME TypeOK, UNCHANGED <<kind, todo, fresh, entries, debris, store, history, bounds>>,
         marker' \in [Sessions -> {"none", "pending", "acknowledged"}],
         health' \in [dropped : Nat, ack : Sessions \cup {None},
                      barrier : Sessions \cup {None}],
         pc' \in {"reconcile", "barrier", "acked", "orphans", "place", "publish",
                  "count", "settle", "require", "tally", "seal", "append", "unmark",
                  "erase"}
  PROVE  TypeOK'
  BY DEF TypeOK, history, bounds

\* An operation that gives up, or has nothing left to do.
LEMMA ReturnInv == SpoolInv /\ Return => SpoolInv'
<1> SUFFICES ASSUME SpoolInv, Return PROVE SpoolInv'
  OBVIOUS
<1>1. <<>> \in Seq(Intakes)
  OBVIOUS
<1>2. TypeOK'
  BY <1>1 DEF SpoolInv, TypeOK, Return, Release, disk, history, bounds
<1>3. QED
  BY <1>2, ReleaseInv DEF Return, history

\* After a clean reconciliation the queue is empty and markerless if clearing.
LEMMA ReconcileInv == SpoolInv /\ Reconcile => SpoolInv'
<1> SUFFICES ASSUME SpoolInv, Reconcile PROVE SpoolInv'
  OBVIOUS
<1> USE DEF Reconcile, Goto, disk
<1>1. /\ pc = "reconcile" /\ kind \in Enqueuing \cup {"drain", "clear"}
      /\ pc' \in {"barrier", "place", "require", "erase"}
      /\ pc' = "place" => kind \in Enqueuing
      /\ pc' = "require" => kind = "drain"
      /\ pc' = "erase" => kind = "clear" /\ entries = {} /\ Orphans = {}
      /\ kind = "clear" => entries = {}
  BY DEF SpoolInv, HolderHasItems, AfterReconcile, Enqueuing, Clearing
<1>2. TypeOK'
  BY <1>1, MoveType DEF SpoolInv, TypeOK
<1>3. (HolderHasItems /\ MarkersBracketEntries /\ AcknowledgedCounted)'
  BY <1>1 DEF SpoolInv, HolderHasItems, MarkersBracketEntries, AcknowledgedCounted,
              QueuedSessionsMarked, Reconciled, Enqueuing
<1>4. ClearedIsEmpty'
  BY <1>1 DEF SpoolInv, ClearedIsEmpty, Orphans, Queued
<1>5. (CountedFirst /\ DropsAccounted /\ FenceKept)'
  BY <1>1 DEF SpoolInv, CountedFirst, DropsAccounted, FenceKept, history
<1>6. QED
  BY <1>2, <1>3, <1>4, <1>5 DEF SpoolInv

\* The barrier's marker is acknowledged, and removed when clearing.
LEMMA PersistBarrierInv == SpoolInv /\ PersistBarrier => SpoolInv'
<1> SUFFICES ASSUME SpoolInv, PersistBarrier PROVE SpoolInv'
  OBVIOUS
<1> USE DEF PersistBarrier, Goto
<1>0. TypeOK /\ health.barrier \in Sessions \cup {None} /\ None \notin Sessions
  BY SessionsAssumption DEF SpoolInv, TypeOK
<1>1. /\ pc = "barrier" /\ kind \in Enqueuing \cup {"drain", "clear"}
      /\ pc' \in {"barrier", "acked"}
      /\ UNCHANGED <<entries, health, debris, store, history, bounds, kind, todo, fresh>>
      /\ kind = "clear" => entries = {}
  BY DEF SpoolInv, HolderHasItems, ClearedIsEmpty, disk
<1>2. CASE UNCHANGED marker
  <2>1. TypeOK'
    BY <1>0, <1>1, <1>2, MoveType DEF TypeOK
  <2>2. (HolderHasItems /\ MarkersBracketEntries /\ AcknowledgedCounted)'
    BY <1>1, <1>2 DEF SpoolInv, HolderHasItems, MarkersBracketEntries, AcknowledgedCounted,
                QueuedSessionsMarked, Reconciled, Enqueuing
  <2>3. ClearedIsEmpty'
    BY <1>0, <1>1, <1>2 DEF SpoolInv, ClearedIsEmpty, Orphans, Queued, Removing, Clearing,
                SetMarker, TypeOK
  <2>4. (CountedFirst /\ DropsAccounted /\ FenceKept)'
    BY <1>1 DEF SpoolInv, CountedFirst, DropsAccounted, FenceKept, history
  <2>5. QED
    BY <2>1, <2>2, <2>3, <2>4 DEF SpoolInv
<1>3. CASE ~UNCHANGED marker
  <2>1. PICK state \in {"none", "acknowledged"} :
          /\ SetMarker(health.barrier, state) /\ health.barrier \in Sessions
          /\ state = "none" => health.barrier \in Orphans
          /\ kind = "clear" /\ pc' = "acked" => state = "none"
    BY <1>0, <1>1, <1>3 DEF disk, Removing, Clearing, Orphans, Queued
  <2>2. /\ marker' \in [Sessions -> {"none", "pending", "acknowledged"}]
        /\ marker'[health.barrier] = state
        /\ \A t \in Sessions \ {health.barrier} : marker'[t] = marker[t]
    BY <1>0, <2>1, SetMarkerEffect
  <2>3. TypeOK'
    BY <1>0, <1>1, <2>2, MoveType DEF TypeOK
  <2>4. HolderHasItems'
    BY <1>1 DEF SpoolInv, HolderHasItems, Enqueuing
  <2>5. MarkersBracketEntries'
    BY <1>0, <1>1, <2>1, <2>2, IntakeSession DEF SpoolInv, MarkersBracketEntries,
       QueuedSessionsMarked, Reconciled, Orphans, Queued, TypeOK
  <2>6. AcknowledgedCounted'
    BY <1>0, <1>1, <2>1, <2>2 DEF SpoolInv, AcknowledgedCounted, CountedFirst
  <2>7. ClearedIsEmpty'
    BY <1>1, <2>1, <2>2 DEF ClearedIsEmpty
  <2>8. (CountedFirst /\ DropsAccounted /\ FenceKept)'
    BY <1>1 DEF SpoolInv, CountedFirst, DropsAccounted, FenceKept, history
  <2>9. QED
    BY <2>3, <2>4, <2>5, <2>6, <2>7, <2>8 DEF SpoolInv
<1>4. QED
  BY <1>2, <1>3

\* A recorded drop whose marker was still pending is settled.
LEMMA PersistAcknowledgedInv == SpoolInv /\ PersistAcknowledged => SpoolInv'
<1> SUFFICES ASSUME SpoolInv, PersistAcknowledged PROVE SpoolInv'
  OBVIOUS
<1> USE DEF PersistAcknowledged, Goto
<1>0. TypeOK /\ health.ack \in Sessions \cup {None} /\ None \notin Sessions
  BY SessionsAssumption DEF SpoolInv, TypeOK
<1>1. /\ pc = "acked" /\ pc' = "orphans" /\ kind \in Enqueuing \cup {"drain", "clear"}
      /\ UNCHANGED <<entries, health, debris, store, history, bounds, kind, todo, fresh>>
      /\ kind = "clear" => entries = {}
  BY DEF SpoolInv, HolderHasItems, ClearedIsEmpty
<1>2. \/ marker' = marker
      \/ \E state \in {"none", "acknowledged"} :
            /\ SetMarker(health.ack, state) /\ health.ack \in Orphans
            /\ kind = "clear" => state = "none"
  BY <1>1 DEF Removing
<1> DEFINE Settled ==
             /\ marker' \in [Sessions -> {"none", "pending", "acknowledged"}]
             /\ \A t \in Sessions :
                   \/ marker'[t] = marker[t]
                   \/ /\ t \in Orphans /\ t = health.ack
                      /\ marker'[t] \in {"none", "acknowledged"}
                      /\ kind = "clear" => marker'[t] = "none"
<1>3. Settled
  <2>1. CASE marker' = marker
    BY <1>0, <2>1 DEF TypeOK
  <2>2. ASSUME NEW state \in {"none", "acknowledged"},
               SetMarker(health.ack, state), health.ack \in Orphans,
               kind = "clear" => state = "none"
        PROVE  Settled
    BY <1>0, <2>2, SetMarkerEffect DEF Orphans
  <2>3. QED
    BY <1>2, <2>1, <2>2
<1>4. TypeOK'
  BY <1>0, <1>1, <1>3, MoveType DEF TypeOK
<1>5. HolderHasItems'
  BY <1>1 DEF SpoolInv, HolderHasItems, Enqueuing
<1>6. MarkersBracketEntries'
  BY <1>0, <1>1, <1>3, IntakeSession DEF SpoolInv, MarkersBracketEntries,
     QueuedSessionsMarked, Reconciled, Orphans, Queued, TypeOK
<1>7. AcknowledgedCounted'
  BY <1>0, <1>1, <1>3 DEF SpoolInv, AcknowledgedCounted, CountedFirst
<1>8. ClearedIsEmpty'
  <2>1. kind = "clear" /\ health.barrier # None => marker'[health.barrier] = "none"
    BY <1>0, <1>1, <1>3 DEF SpoolInv, ClearedIsEmpty, TypeOK
  <2>2. QED
    BY <1>1, <2>1 DEF SpoolInv, ClearedIsEmpty
<1>9. (CountedFirst /\ DropsAccounted /\ FenceKept)'
  BY <1>1 DEF SpoolInv, CountedFirst, DropsAccounted, FenceKept, history
<1>10. QED
  BY <1>4, <1>5, <1>6, <1>7, <1>8, <1>9 DEF SpoolInv

\* An orphan is counted before its marker is acknowledged or removed.
LEMMA PersistOrphanInv == SpoolInv /\ PersistOrphan => SpoolInv'
<1> SUFFICES ASSUME SpoolInv, PersistOrphan PROVE SpoolInv'
  OBVIOUS
<1>0. TypeOK /\ None \notin Sessions
      /\ health \in [dropped : Nat, ack : Sessions \cup {None},
                     barrier : Sessions \cup {None}]
  BY SessionsAssumption DEF SpoolInv, TypeOK
<1>1. /\ pc = "orphans" /\ pc' = "orphans" /\ kind \in Enqueuing \cup {"drain", "clear"}
      /\ UNCHANGED <<entries, debris, store, history, bounds, kind, todo, fresh>>
      /\ kind = "clear" => entries = {}
  BY DEF SpoolInv, HolderHasItems, ClearedIsEmpty, PersistOrphan, Goto
<1>2. PICK s \in RemainingOrphans :
        /\ marker[s] = "acknowledged" => health.dropped > 0
        /\ \/ /\ health' = [health EXCEPT !.dropped = @ + 1, !.ack = s]
              /\ UNCHANGED marker
           \/ /\ marker[s] # "pending" \/ health.ack = s
              /\ UNCHANGED health
              /\ \E state \in {"none", "acknowledged"} : SetMarker(s, state)
  BY DEF PersistOrphan
<1>3. s \in Orphans /\ s \in Sessions /\ s # health.barrier /\ marker[s] # "none"
  BY <1>2 DEF RemainingOrphans, Orphans
<1>4. CASE health' = [health EXCEPT !.dropped = @ + 1, !.ack = s] /\ UNCHANGED marker
  <2>1. /\ health'.dropped = health.dropped + 1 /\ health'.barrier = health.barrier
        /\ health' \in [dropped : Nat, ack : Sessions \cup {None},
                        barrier : Sessions \cup {None}]
    <3>1. health' = [dropped |-> health.dropped + 1, ack |-> s,
                     barrier |-> health.barrier]
      BY <1>0, <1>4
    <3>2. health.dropped + 1 \in Nat /\ health.barrier \in Sessions \cup {None}
      BY <1>0
    <3>3. QED
      BY <1>3, <3>1, <3>2
  <2>2. TypeOK'
    BY <1>0, <1>1, <1>4, <2>1, MoveType DEF TypeOK
  <2>3. (HolderHasItems /\ MarkersBracketEntries)'
    BY <1>1, <1>4 DEF SpoolInv, HolderHasItems, MarkersBracketEntries,
       QueuedSessionsMarked, Reconciled, Enqueuing
  <2>4. (AcknowledgedCounted /\ CountedFirst /\ DropsAccounted /\ FenceKept)'
    BY <1>0, <1>1, <2>1 DEF SpoolInv, TypeOK, AcknowledgedCounted, CountedFirst,
       DropsAccounted, FenceKept, history
  <2>5. ClearedIsEmpty'
    BY <1>1, <1>4, <2>1 DEF SpoolInv, ClearedIsEmpty
  <2>6. QED
    BY <2>2, <2>3, <2>4, <2>5 DEF SpoolInv
<1>5. ASSUME NEW state \in {"none", "acknowledged"}, SetMarker(s, state),
             marker[s] # "pending" \/ health.ack = s, UNCHANGED health
      PROVE  SpoolInv'
  <2>1. health.dropped > 0
    BY <1>0, <1>2, <1>3, <1>5 DEF SpoolInv, CountedFirst, TypeOK
  <2>2. /\ marker' \in [Sessions -> {"none", "pending", "acknowledged"}]
        /\ marker'[s] = state
        /\ \A t \in Sessions \ {s} : marker'[t] = marker[t]
    BY <1>0, <1>3, <1>5, SetMarkerEffect
  <2>3. TypeOK'
    BY <1>0, <1>1, <1>5, <2>2, MoveType DEF TypeOK
  <2>4. HolderHasItems'
    BY <1>1 DEF SpoolInv, HolderHasItems, Enqueuing
  <2>5. MarkersBracketEntries'
    BY <1>0, <1>1, <1>3, <2>2, IntakeSession DEF SpoolInv, MarkersBracketEntries,
       QueuedSessionsMarked, Reconciled, Orphans, Queued, TypeOK
  <2>6. AcknowledgedCounted'
    BY <1>5, <2>1 DEF AcknowledgedCounted
  <2>7. ClearedIsEmpty'
    BY <1>0, <1>1, <1>3, <1>5, <2>2 DEF SpoolInv, ClearedIsEmpty, TypeOK
  <2>8. (CountedFirst /\ DropsAccounted /\ FenceKept)'
    BY <1>1, <1>5 DEF SpoolInv, CountedFirst, DropsAccounted, FenceKept, history
  <2>9. QED
    BY <2>3, <2>4, <2>5, <2>6, <2>7, <2>8 DEF SpoolInv
<1>6. QED
  BY <1>2, <1>4, <1>5

\* With every orphan settled, a clear has no marker left at all.
LEMMA PersistDoneInv == SpoolInv /\ PersistDone => SpoolInv'
<1> SUFFICES ASSUME SpoolInv, PersistDone PROVE SpoolInv'
  OBVIOUS
<1> USE DEF PersistDone, Goto
<1>0. TypeOK /\ None \notin Sessions
  BY SessionsAssumption DEF SpoolInv
<1>1. /\ pc = "orphans" /\ kind \in Enqueuing \cup {"drain", "clear"}
      /\ pc' \in {"place", "require", "erase"}
      /\ pc' = "place" => kind \in Enqueuing
      /\ pc' = "require" => kind = "drain"
      /\ pc' = "erase" => kind = "clear" /\ entries = {}
      /\ UNCHANGED <<entries, marker, health, debris, store, history, bounds,
                     kind, todo, fresh>>
  BY DEF SpoolInv, HolderHasItems, AfterReconcile, Enqueuing, Clearing, ClearedIsEmpty, disk
<1>2. TypeOK'
  BY <1>0, <1>1, MoveType DEF TypeOK
<1>3. (HolderHasItems /\ MarkersBracketEntries /\ AcknowledgedCounted)'
  BY <1>1 DEF SpoolInv, HolderHasItems, MarkersBracketEntries, AcknowledgedCounted,
              QueuedSessionsMarked, Reconciled, Enqueuing
<1>4. ClearedIsEmpty'
  <2>1. kind = "clear" => \A s \in Sessions : marker[s] = "none"
    <3> SUFFICES ASSUME kind = "clear", NEW s \in Sessions, marker[s] # "none" PROVE FALSE
      OBVIOUS
    <3>1. s \in Orphans /\ s # health.barrier
      BY <1>0, <1>1 DEF SpoolInv, ClearedIsEmpty, Orphans, Queued
    <3>2. QED
      BY <3>1 DEF RemainingOrphans, Removing
  <2>2. kind = "clear" => entries = {}
    BY <1>1 DEF SpoolInv, ClearedIsEmpty
  <2>3. QED
    BY <1>1, <2>1, <2>2 DEF ClearedIsEmpty
<1>5. (CountedFirst /\ DropsAccounted /\ FenceKept)'
  BY <1>1 DEF SpoolInv, CountedFirst, DropsAccounted, FenceKept, history
<1>6. QED
  BY <1>2, <1>3, <1>4, <1>5 DEF SpoolInv

LEMMA PersistInv == SpoolInv /\ Persist => SpoolInv'
  BY ReturnInv, ReconcileInv, PersistBarrierInv, PersistAcknowledgedInv,
     PersistOrphanInv, PersistDoneInv
  DEF Persist, ReconcileRefused, ClearDeclined, PersistBarrierRefused,
      PersistAcknowledgedRefused

\* Where an enqueuing operation looks at an intake, there is one.
LEMMA ItemThere ==
  ASSUME SpoolInv,
         pc \in {"place", "publish", "count", "settle", "backlog", "tally", "seal"}
                \/ pc \in {"unlink", "unmark"}
  PROVE  /\ Item \in Intakes /\ Item.session \in Sessions
         /\ todo \in Seq(Intakes) /\ todo # <<>>
         /\ Len(todo) \in Nat /\ Len(todo) > 0
<1>1. todo \in Seq(Intakes) /\ todo # <<>>
  BY DEF SpoolInv, TypeOK, HolderHasItems
<1>2. QED
  BY <1>1, HeadAndTail, IntakeSession DEF Item

\* Once an intake is placed, its call returns or the next intake starts over.
LEMMA PlacedEffect ==
  ASSUME SpoolInv, Placed, pc \in {"place", "publish", "settle"}
  PROVE  /\ pc' \in {"idle", "reconcile"} /\ fresh' = FALSE
         /\ pc' = "idle" => kind' = "none"
         /\ pc' = "reconcile" => kind' \in Enqueuing /\ todo' # <<>>
         /\ kind' \in {"none", "admit", "transport"}
         /\ kind' \in Enqueuing => todo' # <<>>
         /\ todo' \in Seq(Intakes)
<1>1. kind \in Enqueuing
  BY DEF SpoolInv, HolderHasItems
<1>2. CASE Len(todo) = 1
  <2>1. <<>> \in Seq(Intakes)
    OBVIOUS
  <2>2. QED
    BY <1>2, <2>1 DEF Placed, Release, Enqueuing
<1>3. CASE Len(todo) # 1
  <2>1. Tail(todo) \in Seq(Intakes) /\ Tail(todo) # <<>>
    BY <1>3, ItemThere, HeadAndTail
  <2>2. QED
    BY <1>1, <1>3, <2>1 DEF Placed, Enqueuing
<1>4. QED
  BY <1>2, <1>3

\* An intake that is queued already needs nothing.
LEMMA AlreadyQueuedInv == SpoolInv /\ AlreadyQueued => SpoolInv'
<1> SUFFICES ASSUME SpoolInv, AlreadyQueued PROVE SpoolInv'
  OBVIOUS
<1>1. UNCHANGED <<entries, marker, health, debris, store, history, bounds>> /\ Placed
      /\ pc = "place"
  BY DEF AlreadyQueued, disk
<1>2. TypeOK'
  BY <1>1, PlacedEffect DEF SpoolInv, TypeOK, history, bounds
<1>3. (HolderHasItems /\ MarkersBracketEntries /\ AcknowledgedCounted)'
  BY <1>1, PlacedEffect DEF SpoolInv, HolderHasItems, MarkersBracketEntries,
     AcknowledgedCounted, QueuedSessionsMarked, Reconciled, Enqueuing
<1>4. (CountedFirst /\ ClearedIsEmpty /\ DropsAccounted /\ FenceKept)'
  BY <1>1, PlacedEffect DEF SpoolInv, CountedFirst, ClearedIsEmpty, DropsAccounted,
     FenceKept, history
<1>5. QED
  BY <1>2, <1>3, <1>4 DEF SpoolInv

\* The marker is there before its entry or its drop is.
LEMMA MarkItemInv == SpoolInv /\ (EnsureMarker \/ MarkerFound) => SpoolInv'
<1> SUFFICES ASSUME SpoolInv, EnsureMarker \/ MarkerFound PROVE SpoolInv'
  OBVIOUS
<1>0. TypeOK /\ Item.session \in Sessions /\ pc = "place"
  BY ItemThere DEF SpoolInv, EnsureMarker, MarkerFound
<1>1. /\ pc' \in {"count", "publish"} /\ kind \in Enqueuing /\ fresh' \in BOOLEAN
      /\ UNCHANGED <<entries, health, debris, store, history, bounds, kind, todo>>
  BY <1>0 DEF SpoolInv, TypeOK, HolderHasItems, EnsureMarker, MarkerFound, Goto, disk
<1> DEFINE Marked ==
             /\ marker' \in [Sessions -> {"none", "pending", "acknowledged"}]
             /\ marker'[Item.session] # "none"
             /\ \A t \in Sessions : \/ marker'[t] = marker[t]
                                    \/ marker[t] = "none" /\ marker'[t] = "pending"
<1>2. Marked
  <2>1. CASE EnsureMarker
    BY <1>0, <2>1, SetMarkerEffect DEF EnsureMarker
  <2>2. CASE MarkerFound
    BY <1>0, <2>2 DEF MarkerFound, disk, TypeOK
  <2>3. QED
    BY <2>1, <2>2
<1>3. TypeOK'
  BY <1>0, <1>1, <1>2 DEF TypeOK, history, bounds
<1>4. HolderHasItems'
  BY <1>0, <1>1 DEF SpoolInv, HolderHasItems, Enqueuing
<1>5. MarkersBracketEntries'
  BY <1>0, <1>1, <1>2, IntakeSession DEF SpoolInv, MarkersBracketEntries,
     QueuedSessionsMarked, Reconciled, TypeOK, Item
<1>6. (AcknowledgedCounted /\ CountedFirst /\ DropsAccounted /\ FenceKept)'
  BY <1>1, <1>2 DEF SpoolInv, AcknowledgedCounted, CountedFirst, DropsAccounted,
     FenceKept, history
<1>7. ClearedIsEmpty'
  BY <1>1 DEF ClearedIsEmpty, Enqueuing
<1>8. QED
  BY <1>3, <1>4, <1>5, <1>6, <1>7 DEF SpoolInv

\* The entry of a marked session is published.
LEMMA PublishEntryInv == SpoolInv /\ PublishEntry => SpoolInv'
<1> SUFFICES ASSUME SpoolInv, PublishEntry PROVE SpoolInv'
  OBVIOUS
<1>1. UNCHANGED <<marker, health, debris, store, history, bounds>> /\ Placed
      /\ pc = "publish" /\ entries' = entries \cup {Item}
  BY DEF PublishEntry
<1>2. TypeOK'
  BY <1>1, PlacedEffect, ItemThere DEF SpoolInv, TypeOK, history, bounds
<1>3. (HolderHasItems /\ AcknowledgedCounted)'
  BY <1>1, PlacedEffect DEF SpoolInv, HolderHasItems, AcknowledgedCounted, Enqueuing
<1>4. MarkersBracketEntries'
  BY <1>1, PlacedEffect, ItemThere DEF SpoolInv, MarkersBracketEntries,
     QueuedSessionsMarked, Reconciled, Item
<1>5. (CountedFirst /\ ClearedIsEmpty /\ DropsAccounted /\ FenceKept)'
  BY <1>1, PlacedEffect DEF SpoolInv, CountedFirst, ClearedIsEmpty, DropsAccounted,
     FenceKept, history
<1>6. QED
  BY <1>2, <1>3, <1>4, <1>5 DEF SpoolInv

\* The drop is in the health file, with the barrier if a bridge is to be told.
LEMMA CountQuotaDropInv == SpoolInv /\ CountQuotaDrop => SpoolInv'
<1> SUFFICES ASSUME SpoolInv, CountQuotaDrop PROVE SpoolInv'
  OBVIOUS
<1>0. /\ TypeOK /\ Item.session \in Sessions /\ pc = "count" /\ None \notin Sessions
      /\ health \in [dropped : Nat, ack : Sessions \cup {None},
                     barrier : Sessions \cup {None}]
      /\ receipts \in Nat
  BY ItemThere, SessionsAssumption DEF SpoolInv, TypeOK, CountQuotaDrop
<1>1. /\ pc' = "settle" /\ kind \in Enqueuing
      /\ UNCHANGED <<entries, marker, debris, store, history, bounds, kind, todo, fresh>>
  BY <1>0 DEF SpoolInv, HolderHasItems, CountQuotaDrop, Goto
<1>2. /\ health'.dropped = health.dropped + 1
      /\ health'.barrier = IF kind = "transport" /\ health.barrier = None
                           THEN Item.session ELSE health.barrier
      /\ health' \in [dropped : Nat, ack : Sessions \cup {None},
                      barrier : Sessions \cup {None}]
  BY <1>0 DEF CountQuotaDrop
<1>3. TypeOK'
  BY <1>0, <1>1, <1>2, MoveType DEF TypeOK
<1>4. (HolderHasItems /\ MarkersBracketEntries)'
  BY <1>0, <1>1 DEF SpoolInv, HolderHasItems, MarkersBracketEntries,
     QueuedSessionsMarked, Reconciled, Enqueuing
<1>5. (AcknowledgedCounted /\ CountedFirst /\ DropsAccounted /\ FenceKept)'
  BY <1>0, <1>1, <1>2 DEF SpoolInv, AcknowledgedCounted, CountedFirst, DropsAccounted,
     FenceKept, history
<1>6. ClearedIsEmpty'
  BY <1>1 DEF ClearedIsEmpty, Enqueuing
<1>7. QED
  BY <1>3, <1>4, <1>5, <1>6 DEF SpoolInv

\* Then its marker is acknowledged and the receipt returned.
LEMMA SettleQuotaDropInv == SpoolInv /\ SettleQuotaDrop => SpoolInv'
<1> SUFFICES ASSUME SpoolInv, SettleQuotaDrop PROVE SpoolInv'
  OBVIOUS
<1>0. TypeOK /\ Item.session \in Sessions /\ pc = "settle" /\ health.dropped > 0
      /\ receipts \in Nat /\ health.dropped \in Nat /\ fenced \in BOOLEAN
  BY ItemThere DEF SpoolInv, TypeOK, CountedFirst, SettleQuotaDrop
<1>1. /\ UNCHANGED <<entries, health, debris, store, phantom, bounds>>
      /\ Placed /\ receipts' = receipts + 1 /\ fenced' = (fenced \/ kind = "transport")
  BY DEF SettleQuotaDrop
<1> DEFINE Marked ==
             /\ marker' \in [Sessions -> {"none", "pending", "acknowledged"}]
             /\ \A t \in Sessions : marker'[t] = marker[t] \/ marker'[t] = "acknowledged"
<1>2. Marked
  <2>1. CASE SettlesMarker
    BY <1>0, <2>1, SetMarkerEffect DEF SettleQuotaDrop
  <2>2. CASE ~SettlesMarker
    BY <1>0, <2>2 DEF SettleQuotaDrop, TypeOK
  <2>3. QED
    BY <2>1, <2>2
<1>3. TypeOK'
  BY <1>0, <1>1, <1>2, PlacedEffect DEF TypeOK, bounds
<1>4. HolderHasItems'
  BY <1>0, <1>1, PlacedEffect DEF HolderHasItems, Enqueuing
<1>5. MarkersBracketEntries'
  BY <1>0, <1>1, <1>2, PlacedEffect, IntakeSession DEF SpoolInv, MarkersBracketEntries,
     QueuedSessionsMarked, Reconciled, TypeOK
<1>6. (AcknowledgedCounted /\ DropsAccounted)'
  BY <1>0, <1>1 DEF SpoolInv, AcknowledgedCounted, DropsAccounted, CountedFirst
<1>7. (CountedFirst /\ ClearedIsEmpty /\ FenceKept)'
  BY <1>0, <1>1, PlacedEffect DEF SpoolInv, CountedFirst, ClearedIsEmpty, FenceKept
<1>8. QED
  BY <1>3, <1>4, <1>5, <1>6, <1>7 DEF SpoolInv

LEMMA PlaceInv == SpoolInv /\ Place => SpoolInv'
  BY AlreadyQueuedInv, MarkItemInv, PublishEntryInv, CountQuotaDropInv, SettleQuotaDropInv
  DEF Place

\* The barrier's marker is acknowledged before a drain or a fenced drop.
LEMMA RequireBarrierInv == SpoolInv /\ RequireBarrier => SpoolInv'
<1> SUFFICES ASSUME SpoolInv, RequireBarrier PROVE SpoolInv'
  OBVIOUS
<1>0. TypeOK /\ health.barrier \in Sessions \cup {None} /\ None \notin Sessions
  BY SessionsAssumption DEF SpoolInv, TypeOK
<1>1. /\ pc = "require" /\ kind \in {"transport", "drain"}
      /\ pc' \in {"append", "tally"}
      /\ pc' = "append" <=> kind = "drain"
      /\ UNCHANGED <<entries, health, debris, store, history, bounds, kind, todo, fresh>>
  BY DEF SpoolInv, HolderHasItems, RequireBarrier, Goto, AfterRequire
<1> DEFINE Marked ==
             /\ marker' \in [Sessions -> {"none", "pending", "acknowledged"}]
             /\ \A t \in Sessions :
                   \/ marker'[t] = marker[t]
                   \/ marker'[t] = "acknowledged" /\ health.barrier # None
<1>2. Marked
  <2>1. CASE health.barrier # None /\ marker[health.barrier] = "pending"
    <3>1. SetMarker(health.barrier, "acknowledged") /\ health.barrier \in Sessions
      BY <1>0, <2>1 DEF RequireBarrier
    <3>2. QED
      BY <1>0, <2>1, <3>1, SetMarkerEffect
  <2>2. CASE ~(health.barrier # None /\ marker[health.barrier] = "pending")
    BY <1>0, <2>2 DEF RequireBarrier, TypeOK
  <2>3. QED
    BY <2>1, <2>2
<1>3. TypeOK'
  BY <1>0, <1>1, <1>2, MoveType DEF TypeOK
<1>4. HolderHasItems'
  BY <1>1 DEF SpoolInv, HolderHasItems, Enqueuing
<1>5. MarkersBracketEntries'
  BY <1>0, <1>1, <1>2, IntakeSession DEF SpoolInv, MarkersBracketEntries,
     QueuedSessionsMarked, Reconciled, TypeOK
<1>6. (AcknowledgedCounted /\ CountedFirst /\ DropsAccounted /\ FenceKept)'
  BY <1>1, <1>2 DEF SpoolInv, AcknowledgedCounted, CountedFirst, DropsAccounted,
     FenceKept, history
<1>7. ClearedIsEmpty'
  BY <1>1 DEF ClearedIsEmpty
<1>8. QED
  BY <1>3, <1>4, <1>5, <1>6, <1>7 DEF SpoolInv

\* The backlog decides between queueing the fallback and dropping it.
LEMMA CheckBacklogInv == SpoolInv /\ CheckBacklog => SpoolInv'
<1> SUFFICES ASSUME SpoolInv, CheckBacklog PROVE SpoolInv'
  OBVIOUS
<1>1. /\ pc = "backlog" /\ kind \in Enqueuing /\ pc' \in {"tally", "reconcile"}
      /\ UNCHANGED <<entries, marker, health, debris, store, history, bounds,
                     kind, todo, fresh>>
  BY DEF SpoolInv, HolderHasItems, CheckBacklog, Goto, disk
<1>2. TypeOK'
  BY <1>1, MoveType DEF SpoolInv, TypeOK
<1>3. (HolderHasItems /\ MarkersBracketEntries /\ AcknowledgedCounted)'
  BY <1>1 DEF SpoolInv, HolderHasItems, MarkersBracketEntries, AcknowledgedCounted,
     QueuedSessionsMarked, Reconciled, Enqueuing
<1>4. (CountedFirst /\ ClearedIsEmpty /\ DropsAccounted /\ FenceKept)'
  BY <1>1 DEF SpoolInv, CountedFirst, ClearedIsEmpty, DropsAccounted, FenceKept,
     history, Enqueuing
<1>5. QED
  BY <1>2, <1>3, <1>4 DEF SpoolInv

LEMMA TallyEnsureMarkerInv == SpoolInv /\ TallyEnsureMarker => SpoolInv'
<1> SUFFICES ASSUME SpoolInv, TallyEnsureMarker PROVE SpoolInv'
  OBVIOUS
<1>0. TypeOK /\ Item.session \in Sessions /\ pc = "tally" /\ pc' = "tally"
  BY ItemThere DEF SpoolInv, TallyEnsureMarker, Goto
<1>1. /\ kind \in Enqueuing
      /\ UNCHANGED <<entries, health, debris, store, history, bounds, kind, todo, fresh>>
  BY <1>0 DEF SpoolInv, HolderHasItems, TallyEnsureMarker, Goto
<1>2. /\ marker' \in [Sessions -> {"none", "pending", "acknowledged"}]
      /\ marker'[Item.session] = "pending"
      /\ \A t \in Sessions \ {Item.session} : marker'[t] = marker[t]
  BY <1>0, SetMarkerEffect DEF TallyEnsureMarker
<1>3. TypeOK'
  BY <1>0, <1>1, <1>2, MoveType DEF TypeOK
<1>4. HolderHasItems'
  BY <1>0, <1>1 DEF SpoolInv, HolderHasItems
<1>5. MarkersBracketEntries'
  BY <1>0, <1>1, <1>2, IntakeSession DEF SpoolInv, MarkersBracketEntries,
     QueuedSessionsMarked, Reconciled, TypeOK
<1>6. (AcknowledgedCounted /\ CountedFirst /\ DropsAccounted /\ FenceKept)'
  BY <1>0, <1>1, <1>2 DEF SpoolInv, AcknowledgedCounted, CountedFirst, DropsAccounted,
     FenceKept, history
<1>7. ClearedIsEmpty'
  BY <1>0, <1>1 DEF ClearedIsEmpty, Enqueuing
<1>8. QED
  BY <1>3, <1>4, <1>5, <1>6, <1>7 DEF SpoolInv

\* Every intake of the dropped fallback is counted before the bridge is told.
LEMMA TallyFallbackInv == SpoolInv /\ TallyFallback => SpoolInv'
<1> SUFFICES ASSUME SpoolInv, TallyFallback PROVE SpoolInv'
  OBVIOUS
<1>0. /\ TypeOK /\ Item.session \in Sessions /\ pc = "tally" /\ None \notin Sessions
      /\ health \in [dropped : Nat, ack : Sessions \cup {None},
                     barrier : Sessions \cup {None}]
      /\ Len(todo) \in Nat /\ Len(todo) > 0 /\ receipts \in Nat /\ kind \in Enqueuing
  BY ItemThere, SessionsAssumption DEF SpoolInv, TypeOK, HolderHasItems, TallyFallback
<1>1. UNCHANGED <<entries, marker, debris, store, bounds>>
  BY DEF TallyFallback
<1>2. /\ health'.dropped = health.dropped + Len(todo) /\ health'.ack = health.ack
      /\ health'.barrier \in Sessions
      /\ health' \in [dropped : Nat, ack : Sessions \cup {None},
                      barrier : Sessions \cup {None}]
  <2>1. health' = [dropped |-> health.dropped + Len(todo), ack |-> health.ack,
                   barrier |-> IF health.barrier = None
                               THEN Item.session ELSE health.barrier]
    BY <1>0 DEF TallyFallback
  <2>2. health.dropped + Len(todo) \in Nat /\ health.ack \in Sessions \cup {None}
        /\ (IF health.barrier = None THEN Item.session ELSE health.barrier) \in Sessions
    BY <1>0
  <2>3. QED
    BY <2>1, <2>2
<1>3. CASE health.barrier = None
  <2>1. /\ pc' = "seal" /\ marker[Item.session] # "none"
        /\ UNCHANGED <<kind, todo, fresh, history>>
    BY <1>3 DEF TallyFallback, Goto
  <2>2. TypeOK'
    BY <1>0, <1>1, <1>2, <2>1, MoveType DEF TypeOK
  <2>3. (HolderHasItems /\ MarkersBracketEntries)'
    BY <1>0, <1>1, <2>1 DEF SpoolInv, HolderHasItems, MarkersBracketEntries,
       QueuedSessionsMarked, Reconciled, Item
  <2>4. (AcknowledgedCounted /\ CountedFirst /\ DropsAccounted /\ FenceKept)'
    BY <1>0, <1>1, <1>2, <2>1 DEF SpoolInv, AcknowledgedCounted, CountedFirst,
       DropsAccounted, FenceKept, history
  <2>5. ClearedIsEmpty'
    BY <1>0, <2>1 DEF ClearedIsEmpty, Enqueuing
  <2>6. QED
    BY <2>2, <2>3, <2>4, <2>5 DEF SpoolInv
<1>4. CASE health.barrier # None
  <2>1. /\ Release /\ receipts' = receipts + Len(todo) /\ fenced' = TRUE
        /\ UNCHANGED phantom
    BY <1>4 DEF TallyFallback, Dropped
  <2>2. TypeOK'
    <3>1. <<>> \in Seq(Intakes) /\ receipts' \in Nat
      BY <1>0, <2>1
    <3>2. QED
      BY <1>0, <1>1, <1>2, <2>1, <3>1 DEF TypeOK, Release, bounds
  <2>3. (HolderHasItems /\ MarkersBracketEntries /\ ClearedIsEmpty)'
    BY <1>1, <2>1 DEF SpoolInv, HolderHasItems, MarkersBracketEntries, ClearedIsEmpty,
       QueuedSessionsMarked, Reconciled, Release, Enqueuing
  <2>4. (AcknowledgedCounted /\ CountedFirst /\ DropsAccounted /\ FenceKept)'
    BY <1>0, <1>1, <1>2, <2>1 DEF SpoolInv, AcknowledgedCounted, CountedFirst,
       DropsAccounted, FenceKept, Release
  <2>5. QED
    BY <2>2, <2>3, <2>4 DEF SpoolInv
<1>5. QED
  BY <1>3, <1>4

\* The new barrier's marker is acknowledged and the bridge told.
LEMMA SealFallbackInv == SpoolInv /\ SealFallback => SpoolInv'
<1> SUFFICES ASSUME SpoolInv, SealFallback PROVE SpoolInv'
  OBVIOUS
<1>0. /\ TypeOK /\ Item.session \in Sessions /\ pc = "seal"
      /\ Len(todo) \in Nat /\ Len(todo) > 0 /\ receipts \in Nat /\ health.dropped \in Nat
      /\ health.dropped >= receipts + Len(todo) /\ health.barrier # None
  BY ItemThere DEF SpoolInv, TypeOK, CountedFirst, SealFallback
<1>1. /\ UNCHANGED <<entries, health, debris, store, phantom, bounds>>
      /\ Release /\ receipts' = receipts + Len(todo) /\ fenced' = TRUE
  BY DEF SealFallback, Dropped
<1> DEFINE Marked ==
             /\ marker' \in [Sessions -> {"none", "pending", "acknowledged"}]
             /\ \A t \in Sessions : marker'[t] = marker[t] \/ marker'[t] = "acknowledged"
<1>2. Marked
  <2>1. CASE marker[Item.session] = "pending"
    BY <1>0, <2>1, SetMarkerEffect DEF SealFallback
  <2>2. CASE marker[Item.session] # "pending"
    BY <1>0, <2>2 DEF SealFallback, TypeOK
  <2>3. QED
    BY <2>1, <2>2
<1>3. TypeOK'
  <2>1. <<>> \in Seq(Intakes) /\ receipts' \in Nat
    BY <1>0, <1>1
  <2>2. QED
    BY <1>0, <1>1, <1>2, <2>1 DEF TypeOK, Release, bounds
<1>4. (HolderHasItems /\ ClearedIsEmpty)'
  BY <1>1 DEF HolderHasItems, ClearedIsEmpty, Release, Enqueuing
<1>5. MarkersBracketEntries'
  BY <1>0, <1>1, <1>2, IntakeSession DEF SpoolInv, MarkersBracketEntries,
     QueuedSessionsMarked, Reconciled, TypeOK, Release
<1>6. (AcknowledgedCounted /\ CountedFirst /\ DropsAccounted /\ FenceKept)'
  BY <1>0, <1>1 DEF SpoolInv, AcknowledgedCounted, CountedFirst, DropsAccounted,
     FenceKept, Release
<1>7. QED
  BY <1>3, <1>4, <1>5, <1>6 DEF SpoolInv

LEMMA FallbackInv == SpoolInv /\ Fallback => SpoolInv'
  BY ReturnInv, RequireBarrierInv, CheckBacklogInv, TallyEnsureMarkerInv,
     TallyFallbackInv, SealFallbackInv
  DEF Fallback, RequireBarrierRefused, BacklogRefused

\* An entry the store holds is on its way out; any other stays.
LEMMA DrainAppendInv == SpoolInv /\ DrainAppend => SpoolInv'
<1> SUFFICES ASSUME SpoolInv, DrainAppend PROVE SpoolInv'
  OBVIOUS
<1>0. TypeOK /\ pc = "append" /\ kind = "drain" /\ store \in [Sessions -> SUBSET Intakes]
  BY DEF SpoolInv, TypeOK, HolderHasItems, DrainAppend
<1>1. UNCHANGED <<entries, marker, health, debris, history, bounds>>
  BY DEF DrainAppend, disk
<1>2. CASE Release /\ UNCHANGED store
  <2>1. TypeOK'
    <3>1. <<>> \in Seq(Intakes)
      OBVIOUS
    <3>2. QED
      BY <1>0, <1>1, <1>2, <3>1 DEF TypeOK, Release, history, bounds
  <2>2. QED
    BY <1>1, <1>2, <2>1, ReleaseInv DEF history, disk
<1>3. CASE \E e \in entries : /\ store' = [store EXCEPT ![e.session] = @ \cup {e}]
                              /\ pc' = "unlink" /\ todo' = <<e>>
                              /\ UNCHANGED <<kind, fresh>>
  <2>1. PICK e \in entries : /\ store' = [store EXCEPT ![e.session] = @ \cup {e}]
                             /\ pc' = "unlink" /\ todo' = <<e>>
                             /\ UNCHANGED <<kind, fresh>>
    BY <1>3
  <2>2. e \in Intakes /\ e.session \in Sessions /\ todo' \in Seq(Intakes) /\ todo' # <<>>
    BY <1>0, <2>1, IntakeSession DEF TypeOK
  <2>3. store' \in [Sessions -> SUBSET Intakes]
    BY <1>0, <2>1, <2>2, StoreGrows
  <2>4. TypeOK'
    BY <1>0, <1>1, <2>1, <2>2, <2>3 DEF TypeOK, history, bounds
  <2>5. (HolderHasItems /\ MarkersBracketEntries /\ AcknowledgedCounted)'
    BY <1>0, <1>1, <2>1, <2>2 DEF SpoolInv, HolderHasItems, MarkersBracketEntries,
       AcknowledgedCounted, QueuedSessionsMarked, Reconciled, Enqueuing
  <2>6. (CountedFirst /\ ClearedIsEmpty /\ DropsAccounted /\ FenceKept)'
    BY <1>0, <1>1, <2>1 DEF SpoolInv, CountedFirst, ClearedIsEmpty, DropsAccounted,
       FenceKept, history
  <2>7. QED
    BY <2>4, <2>5, <2>6 DEF SpoolInv
<1>4. QED
  BY <1>2, <1>3 DEF DrainAppend

\* The marker goes after the last entry of its session.
LEMMA UnlinkEntryInv == SpoolInv /\ UnlinkEntry => SpoolInv'
<1> SUFFICES ASSUME SpoolInv, UnlinkEntry PROVE SpoolInv'
  OBVIOUS
<1>0. /\ TypeOK /\ pc = "unlink" /\ kind = "drain" /\ Item \in Intakes
      /\ todo \in Seq(Intakes) /\ todo # <<>> /\ <<>> \in Seq(Intakes)
  BY ItemThere DEF SpoolInv, HolderHasItems, UnlinkEntry
<1>1. /\ UNCHANGED <<marker, health, debris, store, history, bounds, kind, fresh>>
      /\ entries' = entries \ {Item}
      /\ \/ pc' = "unmark" /\ todo' = todo /\ Queued(Item.session) = {Item}
         \/ pc' = "append" /\ todo' = <<>>
  BY DEF UnlinkEntry, Goto
<1>2. TypeOK'
  BY <1>0, <1>1 DEF TypeOK, history, bounds
<1>3. (HolderHasItems /\ AcknowledgedCounted)'
  BY <1>0, <1>1 DEF SpoolInv, HolderHasItems, AcknowledgedCounted, Enqueuing
<1>4. MarkersBracketEntries'
  BY <1>0, <1>1 DEF SpoolInv, MarkersBracketEntries, QueuedSessionsMarked, Reconciled,
     Queued, Item
<1>5. (CountedFirst /\ ClearedIsEmpty /\ DropsAccounted /\ FenceKept)'
  BY <1>0, <1>1 DEF SpoolInv, CountedFirst, ClearedIsEmpty, DropsAccounted, FenceKept,
     history
<1>6. QED
  BY <1>2, <1>3, <1>4, <1>5 DEF SpoolInv

LEMMA RemoveMarkerInv == SpoolInv /\ RemoveMarker => SpoolInv'
<1> SUFFICES ASSUME SpoolInv, RemoveMarker PROVE SpoolInv'
  OBVIOUS
<1>0. /\ TypeOK /\ pc = "unmark" /\ kind = "drain" /\ Item.session \in Sessions
      /\ <<>> \in Seq(Intakes) /\ Queued(Item.session) = {}
  BY ItemThere DEF SpoolInv, HolderHasItems, MarkersBracketEntries, RemoveMarker, Item
<1>1. /\ UNCHANGED <<entries, health, debris, store, history, bounds, kind, fresh>>
      /\ pc' = "append" /\ todo' = <<>>
  BY DEF RemoveMarker
<1>2. /\ marker' \in [Sessions -> {"none", "pending", "acknowledged"}]
      /\ marker'[Item.session] = "none"
      /\ \A t \in Sessions \ {Item.session} : marker'[t] = marker[t]
  BY <1>0, SetMarkerEffect DEF RemoveMarker
<1>3. TypeOK'
  BY <1>0, <1>1, <1>2 DEF TypeOK, history, bounds
<1>4. (HolderHasItems /\ AcknowledgedCounted)'
  BY <1>0, <1>1, <1>2 DEF SpoolInv, HolderHasItems, AcknowledgedCounted, Enqueuing
<1>5. MarkersBracketEntries'
  BY <1>0, <1>1, <1>2, IntakeSession DEF SpoolInv, MarkersBracketEntries,
     QueuedSessionsMarked, Reconciled, Queued, TypeOK
<1>6. (CountedFirst /\ ClearedIsEmpty /\ DropsAccounted /\ FenceKept)'
  BY <1>0, <1>1 DEF SpoolInv, CountedFirst, ClearedIsEmpty, DropsAccounted, FenceKept,
     history
<1>7. QED
  BY <1>3, <1>4, <1>5, <1>6 DEF SpoolInv

\* The health file is erased over an empty and markerless spool only.
LEMMA EraseHealthInv == SpoolInv /\ EraseHealth => SpoolInv'
<1> SUFFICES ASSUME SpoolInv, EraseHealth PROVE SpoolInv'
  OBVIOUS
<1>0. /\ TypeOK /\ \A s \in Sessions : marker[s] = "none"
      /\ entries = {} /\ <<>> \in Seq(Intakes)
  BY DEF SpoolInv, ClearedIsEmpty, EraseHealth
<1>1. /\ UNCHANGED <<entries, marker, debris, store, bounds>> /\ Release
      /\ health' = NoHealth /\ receipts' = 0 /\ phantom' = 0 /\ fenced' = FALSE
  BY DEF EraseHealth
<1>2. TypeOK'
  BY <1>0, <1>1 DEF TypeOK, Release, NoHealth, bounds
<1>3. (HolderHasItems /\ MarkersBracketEntries /\ ClearedIsEmpty)'
  BY <1>0, <1>1 DEF HolderHasItems, MarkersBracketEntries, ClearedIsEmpty, Release,
     QueuedSessionsMarked, Reconciled, Enqueuing
<1>4. (AcknowledgedCounted /\ CountedFirst /\ DropsAccounted /\ FenceKept)'
  BY <1>0, <1>1 DEF AcknowledgedCounted, CountedFirst, DropsAccounted, FenceKept,
     Release, NoHealth
<1>5. QED
  BY <1>2, <1>3, <1>4 DEF SpoolInv

LEMMA DrainInv == SpoolInv /\ Drain => SpoolInv'
  BY ReturnInv, DrainAppendInv, UnlinkEntryInv, RemoveMarkerInv, EraseHealthInv
  DEF Drain, DrainFinished

\* A process that stops, between two files or inside one, leaves an invariant
\* spool to the next: this is what the order of the file operations is for.
LEMMA FailureInv == SpoolInv /\ (Crash \/ Kill) => SpoolInv'
<1> SUFFICES ASSUME SpoolInv, Crash \/ Kill PROVE SpoolInv'
  OBVIOUS
<1>0. TypeOK /\ <<>> \in Seq(Intakes)
  BY DEF SpoolInv
<1>1. /\ UNCHANGED <<entries, marker, health, store, receipts, fenced, hooks>>
      /\ Release /\ debris' \in {debris, TRUE} /\ phantom' = phantom + Exposed
  BY DEF Crash, Kill, disk
<1>2. crashes' \in 0..MaxCrashes /\ kills' \in 0..MaxKills
  BY <1>0, BoundsAssumption DEF TypeOK, Crash, Kill
<1>3. phantom' \in Nat
  <2>1. Exposed \in Nat
    <3>1. CASE pc \in {"tally", "seal"}
      BY <3>1, ItemThere DEF Exposed
    <3>2. CASE pc \notin {"tally", "seal"}
      BY <3>2 DEF Exposed
    <3>3. QED
      BY <3>1, <3>2
  <2>2. QED
    BY <1>0, <1>1, <2>1 DEF TypeOK
<1>4. TypeOK'
  BY <1>0, <1>1, <1>2, <1>3 DEF TypeOK, Release
<1>5. QED
  BY <1>1, <1>4, ReleaseInv DEF disk

-----------------------------------------------------------------------------
(* The theorems.                                                           *)

\* SpoolInv holds of every spool, for any sessions, intakes, chunks, quotas,
\* store answers, and number of crashes and kills.
THEOREM SpoolInvariant == Spec => []SpoolInv
<1>1. SpoolInv /\ [Next]_vars => SpoolInv'
  <2> SUFFICES ASSUME SpoolInv, [Next]_vars PROVE SpoolInv'
    OBVIOUS
  <2>1. CASE UNCHANGED vars
    <3>1. TypeOK'
      BY <2>1 DEF SpoolInv, TypeOK, vars
    <3>2. QED
      BY <2>1, <3>1, StayInv DEF vars, disk
  <2>2. CASE Next
    BY <2>2, StartInv, PersistInv, PlaceInv, FallbackInv, DrainInv, FailureInv
    DEF Next, Step
  <2>3. QED
    BY <2>1, <2>2
<1>2. QED
  BY <1>1, InitInv, PTL DEF Spec

\* Types, for every value of the constants.
THEOREM SpoolTypes == Spec => []TypeOK
<1>1. SpoolInv => TypeOK
  BY DEF SpoolInv
<1>2. QED
  BY <1>1, SpoolInvariant, PTL

\* No crash or kill, at any file operation of any of the five operations,
\* leaves a queued session without its marker.
THEOREM SpoolSessionsMarked == Spec => []QueuedSessionsMarked
<1>1. SpoolInv => QueuedSessionsMarked
  BY DEF SpoolInv, MarkersBracketEntries
<1>2. QED
  BY <1>1, SpoolInvariant, PTL

\* An acknowledged marker never stands for an uncounted drop.
THEOREM SpoolAcknowledgedCounted == Spec => []AcknowledgedCounted
<1>1. SpoolInv => AcknowledgedCounted
  BY DEF SpoolInv
<1>2. QED
  BY <1>1, SpoolInvariant, PTL

\* Every drop a hook was told of is in the health file.
THEOREM SpoolDropsAccounted == Spec => []DropsAccounted
<1>1. SpoolInv => DropsAccounted
  BY DEF SpoolInv
<1>2. QED
  BY <1>1, SpoolInvariant, PTL

\* A bridge drop keeps its barrier until the health file is cleared.
THEOREM SpoolFenceKept == Spec => []FenceKept
<1>1. SpoolInv => FenceKept
  BY DEF SpoolInv
<1>2. QED
  BY <1>1, SpoolInvariant, PTL

-----------------------------------------------------------------------------
(* Nothing overtakes the spool.                                            *)

\* No step from an idle spool reaches the store but a direct admission, which
\* looks at the session's marker and, for a chunk, at the barrier.
LEMMA DirectStep ==
  ASSUME SpoolInv, [Next]_vars, pc = "idle", NEW s \in Sessions, store'[s] # store[s]
  PROVE  /\ Queued(s) = {}
         /\ fenced => \A c \in Chunks : ChunkSession(c) # s
<1>0. TypeOK /\ store \in [Sessions -> SUBSET Intakes]
  BY DEF SpoolInv, TypeOK
<1>1. marker[s] = "none" => Queued(s) = {}
  BY DEF SpoolInv, MarkersBracketEntries, QueuedSessionsMarked, Reconciled, Queued
<1>2. ASSUME NEW e \in Singles, AdmitDirect(e)
      PROVE  marker[s] = "none" /\ \A c \in Chunks : ChunkSession(c) # s
  <2>1. e.session \in Sessions
    BY ChunksAssumption, IntakeSession
  <2>2. s = e.session
    BY <1>0, <1>2, <2>1 DEF AdmitDirect
  <2>3. QED
    BY <1>2, <2>2, ChunkIntakes DEF AdmitDirect
<1>3. ASSUME NEW c \in Chunks, TransportDirect(c)
      PROVE  marker[s] = "none" /\ ~fenced
  <2>1. ChunkSession(c) \in Sessions
    BY ChunkIntakes
  <2>2. s = ChunkSession(c)
    BY <1>0, <1>3, <2>1 DEF TransportDirect
  <2>3. QED
    BY <1>3, <2>2 DEF TransportDirect, SpoolInv, FenceKept
<1>4. \/ \E e \in Singles : AdmitDirect(e)
      \/ \E c \in Chunks : TransportDirect(c)
  <2>1. CASE Start
    BY <2>1 DEF Start, AdmitQueued, TransportFenced, TransportQueued, DrainStart, ClearStart
  <2>2. CASE Step
    BY <2>2 DEF Step, Persist, ReconcileRefused, ClearDeclined, Reconcile, PersistBarrier,
       PersistBarrierRefused, PersistAcknowledged, PersistAcknowledgedRefused,
       PersistOrphan, PersistDone,
       Place, AlreadyQueued, EnsureMarker, MarkerFound, PublishEntry, CountQuotaDrop,
       SettleQuotaDrop,
       Fallback, RequireBarrier, RequireBarrierRefused, BacklogRefused, CheckBacklog,
       TallyEnsureMarker, TallyFallback, SealFallback,
       Drain, DrainAppend, DrainFinished, UnlinkEntry, RemoveMarker, EraseHealth
  <2>3. CASE Crash \/ Kill \/ UNCHANGED vars
    BY <2>3 DEF Crash, Kill, vars
  <2>4. QED
    BY <2>1, <2>2, <2>3 DEF Next
<1>5. QED
  BY <1>1, <1>2, <1>3, <1>4

\* A hook reaches the store past the spool only when its session has nothing
\* queued and, for a chunk, no bridge drop has been acknowledged.
THEOREM SpoolNoOvertaking == Spec => NoOvertaking
<1>1. SpoolInv /\ [Next]_vars =>
        [\A s \in Sessions :
           pc = "idle" /\ store'[s] # store[s] =>
             /\ Queued(s) = {}
             /\ fenced => \A c \in Chunks : ChunkSession(c) # s]_vars
  BY DirectStep
<1>2. QED
  BY <1>1, SpoolInvariant, PTL DEF Spec, NoOvertaking

-----------------------------------------------------------------------------
(* The spool implements CaptureAdmission.                                  *)

\* What most steps do to the promise: nothing.
LEMMA PromiseKept ==
  ASSUME UNCHANGED <<entries, store, health>>
  PROVE  UNCHANGED Promise!vars
  BY DEF Promise!vars

\* A direct admission passes what it admits, or the store declines it.
LEMMA StartPromise == SpoolInv /\ Start => [Promise!Next]_(Promise!vars)
<1> SUFFICES ASSUME SpoolInv, Start PROVE [Promise!Next]_(Promise!vars)
  OBVIOUS
<1>1. ASSUME NEW e \in Singles, AdmitDirect(e) PROVE [Promise!Next]_(Promise!vars)
  <2>1. e \in Intakes /\ e.session \in Sessions
    BY ChunksAssumption, IntakeSession
  <2>2. CASE UNCHANGED store
    BY <1>1, <2>2, PromiseKept DEF AdmitDirect, disk
  <2>3. CASE store' = [store EXCEPT ![e.session] = @ \cup {e}]
    <3>1. {x \in entries : x.session = e.session} = {}
      BY <1>1, <2>1 DEF AdmitDirect, SpoolInv, MarkersBracketEntries,
         QueuedSessionsMarked, Reconciled
    <3>2. Promise!Pass(e)
      BY <1>1, <2>3, <3>1 DEF AdmitDirect, disk, Promise!Pass, Promise!Waiting
    <3>3. QED
      BY <2>1, <3>2 DEF Promise!Next
  <2>4. QED
    BY <1>1, <2>2, <2>3 DEF AdmitDirect
<1>2. ASSUME NEW c \in Chunks, TransportDirect(c) PROVE [Promise!Next]_(Promise!vars)
  <2>1. ChunkSession(c) \in Sessions
    BY ChunkIntakes
  <2>2. CASE UNCHANGED store
    BY <1>2, <2>2, PromiseKept DEF TransportDirect, disk
  <2>3. CASE store' = [store EXCEPT ![ChunkSession(c)] =
                          @ \cup {c.events[i] : i \in DOMAIN c.events}]
    <3>1. {x \in entries : x.session = ChunkSession(c)} = {}
      BY <1>2, <2>1 DEF TransportDirect, SpoolInv, MarkersBracketEntries,
         QueuedSessionsMarked, Reconciled
    <3>2. Promise!PassChunk(c)
      BY <1>2, <2>3, <3>1 DEF TransportDirect, disk, ChunkSession, Promise!PassChunk,
         Promise!Waiting
    <3>3. QED
      BY <3>2 DEF Promise!Next
  <2>4. QED
    BY <1>2, <2>2, <2>3 DEF TransportDirect
<1>3. CASE \/ \E e \in Singles : AdmitQueued(e)
           \/ \E c \in Chunks : TransportFenced(c) \/ TransportQueued(c)
           \/ DrainStart \/ ClearStart
  BY <1>3, PromiseKept DEF AdmitQueued, TransportFenced, TransportQueued, DrainStart,
     ClearStart, disk
<1>4. QED
  BY <1>1, <1>2, <1>3 DEF Start

\* A step that counts drops, with or without the barrier.
LEMMA DropStep ==
  ASSUME TypeOK, UNCHANGED <<entries, store>>,
         health'.dropped \in Nat, health'.dropped > health.dropped,
         health.barrier # None => health'.barrier # None
  PROVE  Promise!Drop
  BY DEF Promise!Drop

\* Reconciling counts orphans and touches no entry.
LEMMA PersistPromise == SpoolInv /\ Persist => [Promise!Next]_(Promise!vars)
<1> SUFFICES ASSUME SpoolInv, Persist PROVE [Promise!Next]_(Promise!vars)
  OBVIOUS
<1>1. CASE PersistOrphan
  <2>1. UNCHANGED <<entries, store>>
    BY <1>1 DEF PersistOrphan
  <2>2. CASE UNCHANGED health
    BY <2>1, <2>2, PromiseKept
  <2>3. CASE \E s \in RemainingOrphans :
                health' = [health EXCEPT !.dropped = @ + 1, !.ack = s]
    <3>1. /\ health'.dropped \in Nat /\ health'.dropped > health.dropped
          /\ health'.barrier = health.barrier
      BY <2>3 DEF SpoolInv, TypeOK
    <3>2. QED
      BY <2>1, <3>1, DropStep DEF SpoolInv, Promise!Next
  <2>4. QED
    BY <1>1, <2>2, <2>3 DEF PersistOrphan
<1>2. CASE ~PersistOrphan
  <2>1. UNCHANGED <<entries, store, health>>
    BY <1>2 DEF Persist, ReconcileRefused, ClearDeclined, Reconcile, PersistBarrier,
       PersistBarrierRefused, PersistAcknowledged, PersistAcknowledgedRefused,
       PersistDone, Return, disk
  <2>2. QED
    BY <2>1, PromiseKept
<1>3. QED
  BY <1>1, <1>2

\* Placing queues an intake or counts its drop.
LEMMA PlacePromise == SpoolInv /\ Place => [Promise!Next]_(Promise!vars)
<1> SUFFICES ASSUME SpoolInv, Place PROVE [Promise!Next]_(Promise!vars)
  OBVIOUS
<1>1. CASE PublishEntry
  <2>1. Item \in Intakes
    BY <1>1, ItemThere DEF PublishEntry
  <2>2. Promise!Queue(Item)
    BY <1>1 DEF PublishEntry, Promise!Queue
  <2>3. QED
    BY <2>1, <2>2 DEF Promise!Next
<1>2. CASE CountQuotaDrop
  <2>1. Item.session \in Sessions /\ None \notin Sessions
    BY <1>2, ItemThere, SessionsAssumption DEF CountQuotaDrop
  <2>2. /\ UNCHANGED <<entries, store>>
        /\ health'.dropped \in Nat /\ health'.dropped > health.dropped
        /\ health.barrier # None => health'.barrier # None
    BY <1>2, <2>1 DEF CountQuotaDrop, SpoolInv, TypeOK
  <2>3. QED
    BY <2>2, DropStep DEF SpoolInv, Promise!Next
<1>3. CASE AlreadyQueued \/ EnsureMarker \/ MarkerFound \/ SettleQuotaDrop
  BY <1>3, PromiseKept DEF AlreadyQueued, EnsureMarker, MarkerFound, SettleQuotaDrop, disk
<1>4. QED
  BY <1>1, <1>2, <1>3 DEF Place

\* A dropped fallback is counted as a whole.
LEMMA FallbackPromise == SpoolInv /\ Fallback => [Promise!Next]_(Promise!vars)
<1> SUFFICES ASSUME SpoolInv, Fallback PROVE [Promise!Next]_(Promise!vars)
  OBVIOUS
<1>1. CASE TallyFallback
  <2>1. /\ Item.session \in Sessions /\ None \notin Sessions
        /\ Len(todo) \in Nat /\ Len(todo) > 0
        /\ health.dropped \in Nat
        /\ health \in [dropped : Nat, ack : Sessions \cup {None},
                       barrier : Sessions \cup {None}]
    BY <1>1, ItemThere, SessionsAssumption DEF TallyFallback, SpoolInv, TypeOK
  <2>2. /\ health'.dropped = health.dropped + Len(todo)
        /\ health'.barrier = IF health.barrier = None
                             THEN Item.session ELSE health.barrier
    BY <1>1, <2>1 DEF TallyFallback
  <2>3. UNCHANGED <<entries, store>>
    BY <1>1 DEF TallyFallback
  <2>4. QED
    BY <2>1, <2>2, <2>3, DropStep DEF SpoolInv, Promise!Next
<1>2. CASE ~TallyFallback
  BY <1>2, PromiseKept DEF Fallback, RequireBarrier, RequireBarrierRefused, BacklogRefused,
     CheckBacklog, TallyEnsureMarker, SealFallback, Return, disk
<1>3. QED
  BY <1>1, <1>2

\* A drain delivers before it forgets, and the health file goes with nothing
\* waiting.
LEMMA DrainPromise == SpoolInv /\ Drain => [Promise!Next]_(Promise!vars)
<1> SUFFICES ASSUME SpoolInv, Drain PROVE [Promise!Next]_(Promise!vars)
  OBVIOUS
<1>1. CASE DrainAppend
  <2>1. UNCHANGED <<entries, health>>
    BY <1>1 DEF DrainAppend, disk
  <2>2. CASE UNCHANGED store
    BY <2>1, <2>2, PromiseKept
  <2>3. ASSUME NEW e \in entries, store' = [store EXCEPT ![e.session] = @ \cup {e}]
        PROVE  [Promise!Next]_(Promise!vars)
    <3>1. e \in Intakes /\ Promise!Deliver(e)
      BY <2>1, <2>3 DEF SpoolInv, TypeOK, Promise!Deliver
    <3>2. QED
      BY <3>1 DEF Promise!Next
  <2>4. QED
    BY <1>1, <2>2, <2>3 DEF DrainAppend
<1>2. CASE UnlinkEntry
  <2>1. Item \in Intakes /\ Item \in entries /\ Item \in store[Item.session]
    BY <1>2, ItemThere DEF UnlinkEntry, SpoolInv, HolderHasItems, Item
  <2>2. Promise!Forget(Item)
    BY <1>2, <2>1 DEF UnlinkEntry, Promise!Forget
  <2>3. QED
    BY <2>1, <2>2 DEF Promise!Next
<1>3. CASE EraseHealth
  <2>1. entries = {} /\ health' = NoHealth /\ UNCHANGED <<entries, store>>
    BY <1>3 DEF EraseHealth, SpoolInv, ClearedIsEmpty
  <2>2. Promise!Reset
    BY <2>1 DEF Promise!Reset, NoHealth
  <2>3. QED
    BY <2>2 DEF Promise!Next
<1>4. CASE DrainFinished \/ RemoveMarker
  BY <1>4, PromiseKept DEF DrainFinished, RemoveMarker, Return, disk
<1>5. QED
  BY <1>1, <1>2, <1>3, <1>4 DEF Drain

\* The files, their order and every crash between them implement the promise:
\* what is queued waits until the store has it, drops only accumulate, and both
\* are forgotten only over an empty queue.
THEOREM SpoolImplementsAdmission == Spec => ImplementsAdmission
<1>1. Init => Promise!Init
  BY DEF Init, NoHealth, Promise!Init
<1>2. SpoolInv /\ [Next]_vars => [Promise!Next]_(Promise!vars)
  <2> SUFFICES ASSUME SpoolInv, [Next]_vars PROVE [Promise!Next]_(Promise!vars)
    OBVIOUS
  <2>1. CASE Crash \/ Kill \/ UNCHANGED vars
    BY <2>1, PromiseKept DEF Crash, Kill, vars, disk
  <2>2. CASE Start \/ Step
    BY <2>2, StartPromise, PersistPromise, PlacePromise, FallbackPromise, DrainPromise
    DEF Step
  <2>3. QED
    BY <2>1, <2>2 DEF Next
<1>3. QED
  BY <1>1, <1>2, SpoolInvariant, PTL DEF Spec, ImplementsAdmission, Promise!Spec

-----------------------------------------------------------------------------
(* No drop is counted twice.                                               *)

Marked == {s \in Sessions : marker[s] # "none"}

\* The orphans whose marker is pending, but for the barrier's own: those a
\* reconciliation has still to count or to acknowledge.
Pending == {s \in Orphans \ {health.barrier} : marker[s] = "pending"}

\* Those the report adds to the recorded drops.
Uncounted == Pending \ {health.ack}

\* The report says no more than the receipts and what was interrupted; the
\* same without the item in hand, whose marker may stand for its drop already.
Told == health.dropped + Cardinality(Uncounted) <= receipts + phantom
ToldBut ==
    health.dropped + Cardinality(Uncounted \ {Item.session}) <= receipts + phantom

\* Where the lock holder is, what the report may exceed the receipts by: the
\* item whose marker stands for it, or whose drop is recorded.
CountedOnce ==
    /\ IsFiniteSet(Marked)
    /\ pc \notin {"count", "settle"} => ~ fresh
    /\ pc = "orphans" /\ health.ack \in Pending => NextOrphan(health.ack)
    /\ pc = "place" \/ (pc \in {"count", "settle"} /\ ~ fresh) => Pending = {}
    /\ pc \in {"publish", "count", "settle"} => Pending \subseteq {Item.session}
    /\ pc = "settle" /\ fresh => health.ack = Item.session
    /\ pc \in {"publish", "count"} => health.dropped <= receipts + phantom
    /\ pc = "settle" => health.dropped <= receipts + phantom + 1
    /\ pc = "unmark" \/ (pc = "tally" /\ health.barrier = None) => ToldBut
    /\ pc = "seal" =>
         health.dropped + Cardinality(Uncounted) <= receipts + phantom + Len(todo)
    /\ pc \notin {"publish", "count", "settle", "unmark", "seal"}
         /\ ~ (pc = "tally" /\ health.barrier = None) => Told

\* A part of a finite set is finite, and has no more members.
LEMMA PartCounts ==
  ASSUME NEW X, IsFiniteSet(X), NEW Y \in SUBSET X
  PROVE  /\ IsFiniteSet(Y) /\ Cardinality(Y) \in Nat
         /\ Cardinality(X) \in Nat /\ Cardinality(Y) <= Cardinality(X)
  BY FS_Subset, FS_CardinalityType

\* What the report adds is a number.
LEMMA UncountedCounts ==
  ASSUME IsFiniteSet(Marked)
  PROVE  /\ IsFiniteSet(Uncounted) /\ Cardinality(Uncounted) \in Nat
         /\ IsFiniteSet(Uncounted \ {Item.session})
         /\ Cardinality(Uncounted \ {Item.session}) \in Nat
         /\ Cardinality(Uncounted \ {Item.session}) <= Cardinality(Uncounted)
<1>1. Uncounted \in SUBSET Marked
  BY DEF Uncounted, Pending, Orphans, Marked
<1>2. IsFiniteSet(Uncounted) /\ Cardinality(Uncounted) \in Nat
  BY <1>1, PartCounts
<1>3. QED
  BY <1>2, PartCounts

\* The numbers of a spool.
LEMMA SpoolNumbers ==
  ASSUME SpoolInv
  PROVE  /\ health.dropped \in Nat /\ receipts \in Nat /\ phantom \in Nat
         /\ Len(todo) \in Nat /\ (todo # <<>> => Len(todo) > 0)
         /\ (todo # <<>> => Item \in Intakes /\ Item.session \in Sessions)
         /\ health.ack \in Sessions \cup {None} /\ health.barrier \in Sessions \cup {None}
         /\ None \notin Sessions
<1>1. health.dropped \in Nat /\ receipts \in Nat /\ phantom \in Nat /\ todo \in Seq(Intakes)
      /\ health.ack \in Sessions \cup {None} /\ health.barrier \in Sessions \cup {None}
  BY DEF SpoolInv, TypeOK
<1>2. todo # <<>> => Item \in Intakes /\ Len(todo) > 0
  BY <1>1, HeadAndTail DEF Item
<1>3. Len(todo) \in Nat
  BY <1>1
<1>4. QED
  BY <1>1, <1>2, <1>3, IntakeSession, SessionsAssumption

\* A directory has finitely many markers: a step makes at most one.
LEMMA MarkersFinite ==
  ASSUME IsFiniteSet(Marked), NEW s, \A t \in Sessions \ {s} : marker'[t] = marker[t]
  PROVE  IsFiniteSet(Marked')
<1>1. IsFiniteSet(Marked \cup {s})
  BY FS_AddElement
<1>2. Marked' \subseteq Marked \cup {s}
  BY DEF Marked
<1>3. QED
  BY <1>1, <1>2, FS_Subset

\* At a step that looks at no drop, the report is what it was told to be.
LEMMA PlainOnce ==
  ASSUME IsFiniteSet(Marked'), Told', ~ fresh', health'.dropped \in Nat,
         receipts' \in Nat, phantom' \in Nat,
         pc' \notin {"orphans", "place", "publish", "count", "settle", "unmark", "seal"}
  PROVE  CountedOnce'
<1>1. Uncounted' \in SUBSET Marked'
  BY DEF Uncounted, Pending, Orphans, Marked
<1>2. IsFiniteSet(Uncounted') /\ Cardinality(Uncounted') \in Nat
  BY <1>1, PartCounts
<1>3. Cardinality(Uncounted' \ {Item'.session}) \in Nat
      /\ Cardinality(Uncounted' \ {Item'.session}) <= Cardinality(Uncounted')
  BY <1>2, PartCounts
<1>4. ToldBut'
  BY <1>2, <1>3 DEF Told, ToldBut
<1>5. QED
  BY <1>4 DEF CountedOnce

\* The report is told if it grows by no orphan, and by no drop.
LEMMA StaysTold ==
  ASSUME SpoolInv, IsFiniteSet(Marked), Told, Uncounted' \subseteq Uncounted,
         health'.dropped = health.dropped, receipts' \in Nat, phantom' \in Nat,
         receipts + phantom <= receipts' + phantom'
  PROVE  Told'
<1>1. /\ health.dropped \in Nat /\ receipts \in Nat /\ phantom \in Nat
  BY SpoolNumbers
<1>2. IsFiniteSet(Uncounted) /\ Cardinality(Uncounted) \in Nat
  BY UncountedCounts
<1>3. Cardinality(Uncounted') \in Nat /\ Cardinality(Uncounted') <= Cardinality(Uncounted)
  BY <1>2, PartCounts
<1>4. PICK r \in Nat, p \in Nat : receipts' = r /\ phantom' = p
  OBVIOUS
<1>5. health.dropped + Cardinality(Uncounted) <= receipts + phantom
  BY DEF Told
<1>6. PICK c \in Nat : Cardinality(Uncounted') = c
  BY <1>3
<1>7. health.dropped + c <= r + p
  BY <1>1, <1>2, <1>3, <1>4, <1>5, <1>6
<1>8. QED
  BY <1>4, <1>6, <1>7 DEF Told

\* A step that leaves the files leaves what they show.
LEMMA SameShown ==
  ASSUME UNCHANGED disk
  PROVE  /\ Pending' = Pending /\ Uncounted' = Uncounted /\ Marked' = Marked
         /\ Orphans' = Orphans /\ health' = health
  BY DEF disk, Pending, Uncounted, Marked, Orphans, Queued

\* An operation that starts, gives up, or moves on without a drop in hand.
LEMMA QuietOnce ==
  ASSUME SpoolInv, CountedOnce, UNCHANGED <<disk, receipts, phantom>>,
         pc \notin {"publish", "count", "settle", "unmark", "seal"},
         pc = "tally" => health.barrier # None, ~ fresh',
         pc' \notin {"orphans", "place", "publish", "count", "settle", "unmark", "seal"}
  PROVE  CountedOnce'
<1>1. Told /\ IsFiniteSet(Marked)
  BY DEF CountedOnce
<1>2. /\ Uncounted' = Uncounted /\ Marked' = Marked /\ health' = health
      /\ receipts' = receipts /\ phantom' = phantom
  BY SameShown
<1>3. health.dropped \in Nat /\ receipts \in Nat /\ phantom \in Nat
  BY SpoolNumbers
<1>4. Told'
  BY <1>1, <1>2 DEF Told
<1>5. QED
  BY <1>1, <1>2, <1>3, <1>4, PlainOnce

\* The step that begins to place an intake finds nothing left to reconcile.
LEMMA PlaceOnce ==
  ASSUME SpoolInv, CountedOnce, UNCHANGED <<disk, receipts, phantom>>,
         pc \in {"reconcile", "orphans"}, Pending = {}, pc' = "place", ~ fresh'
  PROVE  CountedOnce'
<1>1. Told /\ IsFiniteSet(Marked)
  BY DEF CountedOnce
<1>2. /\ Uncounted' = Uncounted /\ Marked' = Marked /\ Pending' = Pending
      /\ health' = health /\ receipts' = receipts /\ phantom' = phantom
  BY SameShown
<1>3. Told'
  BY <1>1, <1>2 DEF Told
<1>4. QED
  BY <1>1, <1>2, <1>3 DEF CountedOnce

\* Only the marker of the barrier, which stands for no drop of its own, changes.
LEMMA BarrierOnce ==
  ASSUME SpoolInv, CountedOnce, UNCHANGED <<entries, health, receipts, phantom>>,
         \A t \in Sessions \ {health.barrier} : marker'[t] = marker[t],
         pc \in {"barrier", "require"}, ~ fresh',
         pc' \notin {"orphans", "place", "publish", "count", "settle", "unmark", "seal"}
  PROVE  CountedOnce'
<1>1. Told /\ IsFiniteSet(Marked)
  BY DEF CountedOnce
<1>2. IsFiniteSet(Marked')
  BY <1>1, MarkersFinite
<1>3. Uncounted' \subseteq Uncounted
  BY DEF Uncounted, Pending, Orphans, Queued
<1>4. health.dropped \in Nat /\ receipts \in Nat /\ phantom \in Nat
  BY SpoolNumbers
<1>5. Told'
  BY <1>1, <1>3, <1>4, StaysTold
<1>6. QED
  BY <1>2, <1>4, <1>5, PlainOnce

LEMMA StartOnce == SpoolInv /\ CountedOnce /\ Start => CountedOnce'
<1> SUFFICES ASSUME SpoolInv, CountedOnce, Start PROVE CountedOnce'
  OBVIOUS
<1>1. pc = "idle" /\ UNCHANGED <<disk, receipts, phantom>>
  BY DEF Start, AdmitQueued, AdmitDirect, TransportFenced, TransportDirect,
         TransportQueued, DrainStart, ClearStart, Begin, history
<1>2. ~ fresh
  BY <1>1 DEF CountedOnce
<1>3. ~ fresh' /\ pc' \in {"idle", "reconcile", "require", "backlog"}
  BY <1>1, <1>2 DEF Start, AdmitQueued, AdmitDirect, TransportFenced, TransportDirect,
         TransportQueued, DrainStart, ClearStart, Begin
<1>4. QED
  BY <1>1, <1>3, QuietOnce

\* An operation that gives up over a spool it left as it was.
LEMMA ReturnOnce ==
  ASSUME SpoolInv, CountedOnce, Return,
         pc \in {"reconcile", "barrier", "acked", "require", "backlog", "append"}
  PROVE  CountedOnce'
<1>1. ~ fresh' /\ pc' = "idle" /\ UNCHANGED <<disk, receipts, phantom>>
  BY DEF Return, Release, history
<1>2. QED
  BY <1>1, QuietOnce

LEMMA ReconcileOnce == SpoolInv /\ CountedOnce /\ Reconcile => CountedOnce'
<1> SUFFICES ASSUME SpoolInv, CountedOnce, Reconcile PROVE CountedOnce'
  OBVIOUS
<1>1. /\ pc = "reconcile" /\ UNCHANGED <<disk, receipts, phantom, fresh>>
      /\ pc' = IF Orphans = {} THEN AfterReconcile ELSE "barrier"
  BY DEF Reconcile, Goto, history
<1>2. ~ fresh'
  BY <1>1 DEF CountedOnce
<1>3. CASE pc' = "place"
  <2>1. Orphans = {}
    BY <1>1, <1>3
  <2>2. Pending = {}
    BY <2>1 DEF Pending
  <2>3. QED
    BY <1>1, <1>2, <1>3, <2>2, PlaceOnce
<1>4. CASE pc' # "place"
  <2>1. pc' \in {"erase", "require", "barrier"}
    BY <1>1, <1>4 DEF AfterReconcile
  <2>2. QED
    BY <1>1, <1>2, <2>1, QuietOnce
<1>5. QED
  BY <1>3, <1>4

LEMMA PersistBarrierOnce == SpoolInv /\ CountedOnce /\ PersistBarrier => CountedOnce'
<1> SUFFICES ASSUME SpoolInv, CountedOnce, PersistBarrier PROVE CountedOnce'
  OBVIOUS
<1>1. /\ pc = "barrier" /\ pc' \in {"barrier", "acked"}
      /\ UNCHANGED <<entries, health, receipts, phantom, fresh>>
  BY DEF PersistBarrier, Goto, history, disk
<1>2. ~ fresh'
  BY <1>1 DEF CountedOnce
<1>3. \A t \in Sessions \ {health.barrier} : marker'[t] = marker[t]
  <2>1. CASE marker' = marker
    BY <2>1
  <2>2. CASE health.barrier # None /\ marker' # marker
    <3>1. health.barrier \in Sessions
      BY <2>2, SpoolNumbers
    <3>2. PICK state \in {"none", "pending", "acknowledged"} :
            SetMarker(health.barrier, state)
      BY <2>2 DEF PersistBarrier, disk
    <3>3. TypeOK
      BY DEF SpoolInv
    <3>4. QED
      BY <3>1, <3>2, <3>3, SetMarkerEffect
  <2>3. health.barrier = None => marker' = marker
    BY DEF PersistBarrier, disk
  <2>4. QED
    BY <2>1, <2>2, <2>3
<1>4. QED
  BY <1>1, <1>2, <1>3, BarrierOnce

LEMMA PersistAcknowledgedOnce ==
  SpoolInv /\ CountedOnce /\ PersistAcknowledged => CountedOnce'
<1> SUFFICES ASSUME SpoolInv, CountedOnce, PersistAcknowledged PROVE CountedOnce'
  OBVIOUS
<1>1. /\ pc = "acked" /\ pc' = "orphans"
      /\ UNCHANGED <<entries, health, receipts, phantom, fresh>>
  BY DEF PersistAcknowledged, Goto, history
<1>2. ~ fresh' /\ Told /\ IsFiniteSet(Marked)
  BY <1>1 DEF CountedOnce
<1>3. /\ \A t \in Sessions \ {health.ack} : marker'[t] = marker[t]
      /\ health.ack \in Sessions => marker'[health.ack] # "pending"
      /\ marker' = marker \/ health.ack \in Sessions
  <2>1. CASE AckPending
    <3>1. health.ack \in Sessions
      BY <2>1, SpoolNumbers DEF AckPending
    <3>2. PICK state \in {"none", "acknowledged"} : SetMarker(health.ack, state)
      BY <2>1 DEF PersistAcknowledged
    <3>3. TypeOK
      BY DEF SpoolInv
    <3>4. QED
      BY <3>1, <3>2, <3>3, SetMarkerEffect
  <2>2. CASE ~ AckPending
    BY <2>2, SpoolNumbers DEF AckPending, PersistAcknowledged
  <2>3. QED
    BY <2>1, <2>2
<1>4. IsFiniteSet(Marked')
  BY <1>2, <1>3, MarkersFinite
<1>5. Uncounted' \subseteq Uncounted
  BY <1>1, <1>3 DEF Uncounted, Pending, Orphans, Queued
<1>6. health'.ack \notin Pending'
  BY <1>1, <1>3 DEF Pending, Orphans
<1>7. health.dropped \in Nat /\ receipts \in Nat /\ phantom \in Nat
  BY SpoolNumbers
<1>8. Told'
  BY <1>1, <1>2, <1>5, <1>7, StaysTold
<1>9. QED
  BY <1>1, <1>2, <1>4, <1>6, <1>8 DEF CountedOnce

\* A report that is this number is told if the receipts are that many.
LEMMA ToldAfter ==
  ASSUME NEW d \in Nat, NEW c \in Nat, NEW r \in Nat, NEW p \in Nat,
         health'.dropped = d, Cardinality(Uncounted') = c, receipts' = r, phantom' = p,
         d + c <= r + p
  PROVE  Told'
  BY DEF Told

\* One orphan more or less is one more or less.
LEMMA OneCounts ==
  ASSUME NEW X, IsFiniteSet(X), NEW x
  PROVE  /\ IsFiniteSet(X \ {x}) /\ Cardinality(X) \in Nat /\ Cardinality(X \ {x}) \in Nat
         /\ x \in X => Cardinality(X) = Cardinality(X \ {x}) + 1
         /\ Cardinality(X) <= Cardinality(X \ {x}) + 1
<1>1. /\ IsFiniteSet(X \ {x}) /\ Cardinality(X) \in Nat /\ Cardinality(X \ {x}) \in Nat
  BY PartCounts
<1>2. Cardinality(X \ {x}) = IF x \in X THEN Cardinality(X) - 1 ELSE Cardinality(X)
  BY FS_RemoveElement
<1>3. QED
  BY <1>1, <1>2

\* The first orphan there is left is unique.
LEMMA NextUnique ==
  ASSUME NEW s, NEW t, NextOrphan(s), NextOrphan(t)
  PROVE  s = t
<1>1. s \in Nat /\ t \in Nat /\ s <= t /\ t <= s
  BY SessionsAssumption DEF NextOrphan, RemainingOrphans, Orphans
<1>2. QED
  BY <1>1

LEMMA PersistOrphanOnce == SpoolInv /\ CountedOnce /\ PersistOrphan => CountedOnce'
<1> SUFFICES ASSUME SpoolInv, CountedOnce, PersistOrphan PROVE CountedOnce'
  OBVIOUS
<1>1. /\ pc = "orphans" /\ pc' = "orphans" /\ UNCHANGED <<entries, receipts, phantom, kind, fresh>>
  BY DEF PersistOrphan, Goto, history
<1>2. /\ ~ fresh' /\ Told /\ IsFiniteSet(Marked)
      /\ health.ack \in Pending => NextOrphan(health.ack)
  BY <1>1 DEF CountedOnce
<1>3. PICK s \in RemainingOrphans :
        /\ NextOrphan(s)
        /\ IF marker[s] = "pending" /\ health.ack # s
           THEN /\ health' = [health EXCEPT !.dropped = @ + 1, !.ack = s]
                /\ UNCHANGED marker
           ELSE /\ SetMarker(s, IF Removing THEN "none" ELSE "acknowledged")
                /\ UNCHANGED health
  BY DEF PersistOrphan
<1>4. s \in Sessions /\ s \in Orphans /\ s # health.barrier
  BY DEF RemainingOrphans, Orphans
<1>5. /\ health.dropped \in Nat /\ receipts \in Nat /\ phantom \in Nat
  BY SpoolNumbers
<1>6. CASE marker[s] = "pending" /\ health.ack # s
  <2>1. /\ health'.dropped = health.dropped + 1 /\ health'.ack = s
        /\ health'.barrier = health.barrier /\ marker' = marker
    <3>1. health \in [dropped : Nat, ack : Sessions \cup {None},
                      barrier : Sessions \cup {None}]
      BY DEF SpoolInv, TypeOK
    <3>2. health' = [health EXCEPT !.dropped = @ + 1, !.ack = s] /\ marker' = marker
      BY <1>3, <1>6
    <3>3. QED
      BY <3>1, <3>2
  <2>2. s \in Pending
    BY <1>4, <1>6 DEF Pending
  <2>3. health.ack \notin Pending
    BY <1>2, <1>3, <1>6, NextUnique
  <2>4. /\ Marked' = Marked /\ Pending' = Pending /\ Orphans' = Orphans
        /\ RemainingOrphans' = RemainingOrphans
    BY <1>1, <2>1 DEF Marked, Pending, Orphans, Queued, RemainingOrphans, Removing
  <2>5. Uncounted = Pending /\ Uncounted' = Pending \ {s}
    BY <2>1, <2>3, <2>4 DEF Uncounted
  <2>6. IsFiniteSet(Pending)
    BY <1>2, <2>5, UncountedCounts
  <2>7. PICK c \in Nat : Cardinality(Uncounted') = c /\ Cardinality(Uncounted) = c + 1
    BY <2>2, <2>5, <2>6, OneCounts
  <2>8. (health.dropped + 1) + c <= receipts + phantom
    BY <1>2, <1>5, <2>7 DEF Told
  <2>9. Told'
    BY <1>1, <1>5, <2>1, <2>7, <2>8, ToldAfter
  <2>10. NextOrphan(s)'
    BY <1>3, <2>4 DEF NextOrphan
  <2>11. QED
    BY <1>1, <1>2, <2>1, <2>4, <2>9, <2>10 DEF CountedOnce, NextOrphan
<1>7. CASE ~ (marker[s] = "pending" /\ health.ack # s)
  <2>1. /\ health' = health /\ marker'[s] # "pending"
        /\ \A t \in Sessions \ {s} : marker'[t] = marker[t]
    <3>1. PICK state \in {"none", "acknowledged"} : SetMarker(s, state)
      BY <1>3, <1>7
    <3>2. TypeOK
      BY DEF SpoolInv
    <3>3. health' = health
      BY <1>3, <1>7
    <3>4. QED
      BY <1>4, <3>1, <3>2, <3>3, SetMarkerEffect
  <2>2. IsFiniteSet(Marked')
    BY <1>2, <2>1, MarkersFinite
  <2>3. Pending' \subseteq Pending \ {s}
    BY <1>1, <2>1 DEF Pending, Orphans, Queued
  <2>4. Uncounted' \subseteq Uncounted
    BY <2>1, <2>3 DEF Uncounted
  <2>5. Told'
    BY <1>1, <1>2, <1>5, <2>1, <2>4, StaysTold
  <2>6. health'.ack \notin Pending'
    BY <1>2, <1>3, <2>1, <2>3, NextUnique
  <2>7. QED
    BY <1>1, <1>2, <2>2, <2>5, <2>6 DEF CountedOnce
<1>8. QED
  BY <1>6, <1>7

LEMMA PersistDoneOnce == SpoolInv /\ CountedOnce /\ PersistDone => CountedOnce'
<1> SUFFICES ASSUME SpoolInv, CountedOnce, PersistDone PROVE CountedOnce'
  OBVIOUS
<1>1. /\ pc = "orphans" /\ UNCHANGED <<disk, receipts, phantom, fresh>>
      /\ pc' = AfterReconcile /\ RemainingOrphans = {}
  BY DEF PersistDone, Goto, history
<1>2. ~ fresh'
  BY <1>1 DEF CountedOnce
<1>3. Pending = {}
  BY <1>1 DEF Pending, RemainingOrphans
<1>4. CASE pc' = "place"
  BY <1>1, <1>2, <1>3, <1>4, PlaceOnce
<1>5. CASE pc' # "place"
  <2>1. pc' \in {"erase", "require"}
    BY <1>1, <1>5 DEF AfterReconcile
  <2>2. QED
    BY <1>1, <1>2, <2>1, QuietOnce
<1>6. QED
  BY <1>4, <1>5

LEMMA PersistOnce == SpoolInv /\ CountedOnce /\ Persist => CountedOnce'
  BY ReturnOnce, ReconcileOnce, PersistBarrierOnce, PersistAcknowledgedOnce,
     PersistOrphanOnce, PersistDoneOnce
     DEF Persist, ReconcileRefused, ClearDeclined, PersistBarrierRefused,
         PersistAcknowledgedRefused

LEMMA AlreadyQueuedOnce == SpoolInv /\ CountedOnce /\ AlreadyQueued => CountedOnce'
<1> SUFFICES ASSUME SpoolInv, CountedOnce, AlreadyQueued PROVE CountedOnce'
  OBVIOUS
<1>1. pc = "place" /\ Placed /\ UNCHANGED <<disk, receipts, phantom>>
  BY DEF AlreadyQueued, history
<1>2. ~ fresh' /\ pc' \in {"idle", "reconcile"}
  BY <1>1, PlacedEffect
<1>3. QED
  BY <1>1, <1>2, QuietOnce

\* The marker of an item stands for its drop, if its drop is what comes next.
LEMMA MarkItemOnce ==
  SpoolInv /\ CountedOnce /\ (EnsureMarker \/ MarkerFound) => CountedOnce'
<1> SUFFICES ASSUME SpoolInv, CountedOnce, EnsureMarker \/ MarkerFound PROVE CountedOnce'
  OBVIOUS
<1>1. /\ pc = "place" /\ pc' \in {"publish", "count"}
      /\ UNCHANGED <<entries, health, receipts, phantom, todo>>
      /\ pc' = "publish" => fresh' = FALSE \/ fresh' = fresh
      /\ marker' # marker /\ pc' = "count" => fresh'
  BY DEF EnsureMarker, MarkerFound, Goto, history, disk
<1>2. ~ fresh /\ Told /\ IsFiniteSet(Marked) /\ Pending = {}
  BY <1>1 DEF CountedOnce
<1>3. /\ Item \in Intakes /\ Item.session \in Sessions /\ Item' = Item
  BY <1>1, ItemThere DEF Item
<1>4. \A t \in Sessions \ {Item.session} : marker'[t] = marker[t]
  <2>1. TypeOK
    BY DEF SpoolInv
  <2>2. CASE EnsureMarker
    BY <1>3, <2>1, <2>2, SetMarkerEffect DEF EnsureMarker
  <2>3. CASE MarkerFound
    BY <2>3 DEF MarkerFound, disk
  <2>4. QED
    BY <2>2, <2>3
<1>5. IsFiniteSet(Marked')
  BY <1>2, <1>4, MarkersFinite
<1>6. Pending' \subseteq {Item.session}
  BY <1>1, <1>2, <1>4 DEF Pending, Orphans, Queued
<1>7. pc' = "count" /\ ~ fresh' => Pending' = {}
  <2>1. marker' = marker => Pending' = Pending
    BY <1>1 DEF Pending, Orphans, Queued
  <2>2. QED
    BY <1>1, <1>2, <2>1
<1>8. health.dropped \in Nat /\ receipts \in Nat /\ phantom \in Nat
  BY SpoolNumbers
<1>9. health.dropped <= receipts + phantom
  BY <1>2, <1>8, UncountedCounts DEF Told
<1>10. pc' \notin {"count", "settle"} => ~ fresh'
  BY <1>1, <1>2
<1>11. health'.dropped <= receipts' + phantom'
  BY <1>1, <1>9
<1>12. Pending' \subseteq {Item'.session}
  BY <1>3, <1>6
<1>13. QED
  BY <1>1, <1>5, <1>7, <1>10, <1>11, <1>12 DEF CountedOnce

\* Nothing is pending any more once the item in hand is placed or settled.
LEMMA PlacedOnce ==
  ASSUME SpoolInv, CountedOnce, Placed, pc \in {"publish", "settle"},
         IsFiniteSet(Marked'), Pending' \ {health'.ack} = {},
         NEW d \in Nat, NEW r \in Nat, NEW p \in Nat,
         health'.dropped = d, receipts' = r, phantom' = p, d <= r + p
  PROVE  CountedOnce'
<1>1. ~ fresh' /\ pc' \in {"idle", "reconcile"}
  BY PlacedEffect
<1>2. Uncounted' = {}
  BY DEF Uncounted
<1>3. Cardinality(Uncounted') = 0
  BY <1>2, FS_EmptySet
<1>4. Told'
  <2>1. d + 0 <= r + p /\ 0 \in Nat
    OBVIOUS
  <2>2. QED
    BY <1>3, <2>1, ToldAfter
<1>5. QED
  BY <1>1, <1>4, PlainOnce

LEMMA PublishEntryOnce == SpoolInv /\ CountedOnce /\ PublishEntry => CountedOnce'
<1> SUFFICES ASSUME SpoolInv, CountedOnce, PublishEntry PROVE CountedOnce'
  OBVIOUS
<1>1. /\ pc = "publish" /\ Placed /\ entries' = entries \cup {Item}
      /\ UNCHANGED <<marker, health, receipts, phantom>>
  BY DEF PublishEntry, history
<1>2. /\ IsFiniteSet(Marked) /\ Pending \subseteq {Item.session}
      /\ health.dropped <= receipts + phantom
  BY <1>1 DEF CountedOnce
<1>3. IsFiniteSet(Marked')
  BY <1>1, <1>2 DEF Marked
<1>4. Pending' = {}
  BY <1>1, <1>2 DEF Pending, Orphans, Queued
<1>5. health.dropped \in Nat /\ receipts \in Nat /\ phantom \in Nat
  BY SpoolNumbers
<1>6. QED
  BY <1>1, <1>2, <1>3, <1>4, <1>5, PlacedOnce

LEMMA CountQuotaDropOnce == SpoolInv /\ CountedOnce /\ CountQuotaDrop => CountedOnce'
<1> SUFFICES ASSUME SpoolInv, CountedOnce, CountQuotaDrop PROVE CountedOnce'
  OBVIOUS
<1>1. /\ pc = "count" /\ pc' = "settle"
      /\ UNCHANGED <<entries, marker, receipts, phantom, todo, fresh>>
      /\ health'.dropped = health.dropped + 1
      /\ fresh => health'.ack = Item.session
      /\ health'.barrier = health.barrier \/ health.barrier = None
  BY DEF CountQuotaDrop, Goto, history
<1>2. /\ IsFiniteSet(Marked) /\ Pending \subseteq {Item.session}
      /\ ~ fresh => Pending = {}
      /\ health.dropped <= receipts + phantom
  BY <1>1 DEF CountedOnce
<1>3. None \notin Sessions /\ health.dropped \in Nat /\ receipts \in Nat /\ phantom \in Nat
  BY SpoolNumbers
<1>4. Pending' \subseteq Pending
  BY <1>1, <1>3 DEF Pending, Orphans, Queued
<1>5. Marked' = Marked /\ Item' = Item
  BY <1>1 DEF Marked, Item
<1>6. health'.dropped <= receipts' + phantom' + 1
  BY <1>1, <1>2, <1>3
<1>7. QED
  BY <1>1, <1>2, <1>4, <1>5, <1>6 DEF CountedOnce

LEMMA SettleQuotaDropOnce == SpoolInv /\ CountedOnce /\ SettleQuotaDrop => CountedOnce'
<1> SUFFICES ASSUME SpoolInv, CountedOnce, SettleQuotaDrop PROVE CountedOnce'
  OBVIOUS
<1>1. /\ pc = "settle" /\ Placed /\ UNCHANGED <<entries, health, phantom>>
      /\ receipts' = receipts + 1
      /\ IF SettlesMarker THEN SetMarker(Item.session, "acknowledged")
         ELSE UNCHANGED marker
  BY DEF SettleQuotaDrop
<1>2. /\ IsFiniteSet(Marked) /\ Pending \subseteq {Item.session}
      /\ ~ fresh => Pending = {}
      /\ health.dropped <= receipts + phantom + 1
  BY <1>1 DEF CountedOnce
<1>3. Item.session \in Sessions
  BY <1>1, ItemThere
<1>4. /\ \A t \in Sessions \ {Item.session} : marker'[t] = marker[t]
      /\ fresh => marker'[Item.session] = "acknowledged"
      /\ marker' = marker \/ marker'[Item.session] = "acknowledged"
  <2>1. TypeOK
    BY DEF SpoolInv
  <2>2. CASE SettlesMarker
    BY <1>1, <1>3, <2>1, <2>2, SetMarkerEffect
  <2>3. CASE ~ SettlesMarker
    BY <1>1, <2>3 DEF SettlesMarker
  <2>4. QED
    BY <2>2, <2>3
<1>5. IsFiniteSet(Marked')
  BY <1>2, <1>4, MarkersFinite
<1>6. Pending' = {}
  BY <1>1, <1>2, <1>4 DEF Pending, Orphans, Queued
<1>7. health.dropped \in Nat /\ receipts \in Nat /\ phantom \in Nat
  BY SpoolNumbers
<1>8. receipts + 1 \in Nat /\ health.dropped <= (receipts + 1) + phantom
  BY <1>2, <1>7
<1>9. QED
  BY <1>1, <1>5, <1>6, <1>7, <1>8, PlacedOnce

LEMMA PlaceStepOnce == SpoolInv /\ CountedOnce /\ Place => CountedOnce'
  BY AlreadyQueuedOnce, MarkItemOnce, PublishEntryOnce, CountQuotaDropOnce,
     SettleQuotaDropOnce DEF Place

-----------------------------------------------------------------------------
(* The fallback.                                                           *)

LEMMA RequireBarrierOnce == SpoolInv /\ CountedOnce /\ RequireBarrier => CountedOnce'
<1> SUFFICES ASSUME SpoolInv, CountedOnce, RequireBarrier PROVE CountedOnce'
  OBVIOUS
<1>1. /\ pc = "require" /\ pc' \in {"append", "tally"}
      /\ UNCHANGED <<entries, health, receipts, phantom, fresh>>
  BY DEF RequireBarrier, Goto, history, AfterRequire
<1>2. ~ fresh'
  BY <1>1 DEF CountedOnce
<1>3. \A t \in Sessions \ {health.barrier} : marker'[t] = marker[t]
  <2>1. CASE health.barrier # None /\ marker[health.barrier] = "pending"
    <3>1. health.barrier \in Sessions
      BY <2>1, SpoolNumbers
    <3>2. SetMarker(health.barrier, "acknowledged")
      BY <2>1 DEF RequireBarrier
    <3>3. TypeOK
      BY DEF SpoolInv
    <3>4. QED
      BY <3>1, <3>2, <3>3, SetMarkerEffect
  <2>2. CASE ~ (health.barrier # None /\ marker[health.barrier] = "pending")
    BY <2>2 DEF RequireBarrier
  <2>3. QED
    BY <2>1, <2>2
<1>4. QED
  BY <1>1, <1>2, <1>3, BarrierOnce

LEMMA CheckBacklogOnce == SpoolInv /\ CountedOnce /\ CheckBacklog => CountedOnce'
<1> SUFFICES ASSUME SpoolInv, CountedOnce, CheckBacklog PROVE CountedOnce'
  OBVIOUS
<1>1. /\ pc = "backlog" /\ pc' \in {"tally", "reconcile"}
      /\ UNCHANGED <<disk, receipts, phantom, fresh>>
  BY DEF CheckBacklog, Goto, history
<1>2. ~ fresh'
  BY <1>1 DEF CountedOnce
<1>3. QED
  BY <1>1, <1>2, QuietOnce

\* The marker of the chunk's session stands for the fallback, once it is counted.
LEMMA TallyEnsureMarkerOnce ==
  SpoolInv /\ CountedOnce /\ TallyEnsureMarker => CountedOnce'
<1> SUFFICES ASSUME SpoolInv, CountedOnce, TallyEnsureMarker PROVE CountedOnce'
  OBVIOUS
<1>1. /\ pc = "tally" /\ pc' = "tally" /\ health.barrier = None
      /\ UNCHANGED <<entries, health, receipts, phantom, todo, fresh>>
      /\ SetMarker(Item.session, "pending")
  BY DEF TallyEnsureMarker, Goto, history
<1>2. IsFiniteSet(Marked) /\ ToldBut /\ ~ fresh
  BY <1>1 DEF CountedOnce
<1>3. Item.session \in Sessions /\ Item' = Item
  BY <1>1, ItemThere DEF Item
<1>4. \A t \in Sessions \ {Item.session} : marker'[t] = marker[t]
  BY <1>1, <1>3, SetMarkerEffect DEF SpoolInv
<1>5. IsFiniteSet(Marked')
  BY <1>2, <1>4, MarkersFinite
<1>6. Uncounted' \ {Item'.session} = Uncounted \ {Item.session}
  BY <1>1, <1>3, <1>4 DEF Uncounted, Pending, Orphans, Queued
<1>7. ToldBut'
  BY <1>1, <1>2, <1>6 DEF ToldBut
<1>8. QED
  BY <1>1, <1>2, <1>5, <1>7 DEF CountedOnce

LEMMA TallyDropsOnce == SpoolInv /\ CountedOnce /\ TallyFallback => CountedOnce'
<1> SUFFICES ASSUME SpoolInv, CountedOnce, TallyFallback PROVE CountedOnce'
  OBVIOUS
<1>1. /\ pc = "tally" /\ UNCHANGED <<entries, marker, phantom>>
  BY DEF TallyFallback, history, Dropped
<1>2. /\ health'.dropped = health.dropped + Len(todo) /\ health'.ack = health.ack
      /\ health'.barrier = IF health.barrier = None THEN Item.session ELSE health.barrier
  <2>1. health \in [dropped : Nat, ack : Sessions \cup {None},
                    barrier : Sessions \cup {None}]
    BY DEF SpoolInv, TypeOK
  <2>2. health' = [health EXCEPT !.dropped = @ + Len(todo),
                                 !.barrier = IF @ = None THEN Item.session ELSE @]
    BY DEF TallyFallback
  <2>3. QED
    BY <2>1, <2>2
<1>3. IsFiniteSet(Marked) /\ IsFiniteSet(Marked') /\ ~ fresh
  BY <1>1 DEF CountedOnce, Marked
<1>4. /\ health.dropped \in Nat /\ receipts \in Nat /\ phantom \in Nat /\ Len(todo) \in Nat
      /\ None \notin Sessions /\ Item.session \in Sessions
  BY <1>1, SpoolNumbers, ItemThere
<1>5. IsFiniteSet(Uncounted) /\ Cardinality(Uncounted) \in Nat
      /\ Cardinality(Uncounted \ {Item.session}) \in Nat
  BY <1>3, UncountedCounts
<1>6. CASE health.barrier = None
  <2>1. pc' = "seal" /\ ~ fresh' /\ UNCHANGED <<receipts, todo>>
    BY <1>3, <1>6 DEF TallyFallback, Goto, history
  <2>2. ToldBut
    BY <1>1, <1>6 DEF CountedOnce
  <2>3. Uncounted' = Uncounted \ {Item.session}
    BY <1>1, <1>2, <1>4, <1>6 DEF Uncounted, Pending, Orphans, Queued
  <2>4. PICK c \in Nat : Cardinality(Uncounted') = c /\ Cardinality(Uncounted \ {Item.session}) = c
    BY <1>5, <2>3
  <2>5. (health.dropped + Len(todo)) + c <= (receipts + phantom) + Len(todo)
    BY <1>4, <2>2, <2>4 DEF ToldBut
  <2>6. health'.dropped + Cardinality(Uncounted') <= receipts' + phantom' + Len(todo')
    BY <1>1, <1>2, <2>1, <2>4, <2>5
  <2>7. QED
    BY <1>3, <2>1, <2>6 DEF CountedOnce
<1>7. CASE health.barrier # None
  <2>1. pc' = "idle" /\ ~ fresh' /\ receipts' = receipts + Len(todo)
    BY <1>7 DEF TallyFallback, Dropped, Release
  <2>2. Told
    BY <1>1, <1>7 DEF CountedOnce
  <2>3. Uncounted' = Uncounted
    BY <1>1, <1>2, <1>7 DEF Uncounted, Pending, Orphans, Queued
  <2>4. (health.dropped + Len(todo)) + Cardinality(Uncounted) <= (receipts + Len(todo)) + phantom
    BY <1>4, <1>5, <2>2 DEF Told
  <2>5. health.dropped + Len(todo) \in Nat /\ receipts + Len(todo) \in Nat
    BY <1>4
  <2>6. Told'
    BY <1>1, <1>2, <1>4, <1>5, <2>1, <2>3, <2>4, <2>5, ToldAfter
  <2>7. QED
    BY <1>1, <1>2, <1>3, <1>4, <2>1, <2>5, <2>6, PlainOnce
<1>8. QED
  BY <1>6, <1>7

LEMMA SealFallbackOnce == SpoolInv /\ CountedOnce /\ SealFallback => CountedOnce'
<1> SUFFICES ASSUME SpoolInv, CountedOnce, SealFallback PROVE CountedOnce'
  OBVIOUS
<1>1. /\ pc = "seal" /\ UNCHANGED <<entries, health, phantom>>
      /\ receipts' = receipts + Len(todo) /\ pc' = "idle" /\ ~ fresh'
  BY DEF SealFallback, Dropped, Release
<1>2. /\ IsFiniteSet(Marked)
      /\ health.dropped + Cardinality(Uncounted) <= receipts + phantom + Len(todo)
  BY <1>1 DEF CountedOnce
<1>3. /\ health.dropped \in Nat /\ receipts \in Nat /\ phantom \in Nat /\ Len(todo) \in Nat
      /\ Item.session \in Sessions
  BY <1>1, SpoolNumbers, ItemThere
<1>4. /\ \A t \in Sessions \ {Item.session} : marker'[t] = marker[t]
      /\ marker' = marker \/ marker'[Item.session] # "pending"
  <2>1. CASE marker[Item.session] = "pending"
    BY <1>3, <2>1, SetMarkerEffect DEF SealFallback, SpoolInv
  <2>2. CASE marker[Item.session] # "pending"
    BY <2>2 DEF SealFallback
  <2>3. QED
    BY <2>1, <2>2
<1>5. IsFiniteSet(Marked')
  BY <1>2, <1>4, MarkersFinite
<1>6. Uncounted' \subseteq Uncounted
  BY <1>1, <1>4 DEF Uncounted, Pending, Orphans, Queued
<1>7. IsFiniteSet(Uncounted) /\ Cardinality(Uncounted) \in Nat
  BY <1>2, UncountedCounts
<1>8. PICK c \in Nat : Cardinality(Uncounted') = c /\ c <= Cardinality(Uncounted)
  BY <1>6, <1>7, PartCounts
<1>9. receipts + Len(todo) \in Nat /\ health.dropped + c <= (receipts + Len(todo)) + phantom
  BY <1>2, <1>3, <1>7, <1>8
<1>10. Told'
  BY <1>1, <1>3, <1>8, <1>9, ToldAfter
<1>11. QED
  BY <1>1, <1>3, <1>5, <1>9, <1>10, PlainOnce

LEMMA FallbackOnce == SpoolInv /\ CountedOnce /\ Fallback => CountedOnce'
  BY ReturnOnce, RequireBarrierOnce, CheckBacklogOnce, TallyEnsureMarkerOnce,
     TallyDropsOnce, SealFallbackOnce
     DEF Fallback, RequireBarrierRefused, BacklogRefused

-----------------------------------------------------------------------------
(* Draining, clearing, and failures.                                       *)

LEMMA DrainAppendOnce == SpoolInv /\ CountedOnce /\ DrainAppend => CountedOnce'
<1> SUFFICES ASSUME SpoolInv, CountedOnce, DrainAppend PROVE CountedOnce'
  OBVIOUS
<1>1. /\ pc = "append" /\ UNCHANGED <<disk, receipts, phantom>>
      /\ \/ pc' = "unlink" /\ fresh' = fresh
         \/ pc' = "idle" /\ fresh' = FALSE
  BY DEF DrainAppend, Release, history
<1>2. ~ fresh'
  BY <1>1 DEF CountedOnce
<1>3. QED
  BY <1>1, <1>2, QuietOnce

\* A session whose last entry goes is an orphan until its marker goes too.
LEMMA UnlinkEntryOnce == SpoolInv /\ CountedOnce /\ UnlinkEntry => CountedOnce'
<1> SUFFICES ASSUME SpoolInv, CountedOnce, UnlinkEntry PROVE CountedOnce'
  OBVIOUS
<1>1. /\ pc = "unlink" /\ entries' = entries \ {Item}
      /\ UNCHANGED <<marker, health, receipts, phantom, fresh>>
  BY DEF UnlinkEntry, Goto, history
<1>2. ~ fresh' /\ Told /\ IsFiniteSet(Marked)
  BY <1>1 DEF CountedOnce
<1>3. Marked' = Marked
  BY <1>1 DEF Marked
<1>4. Uncounted' \ {Item.session} \subseteq Uncounted
  BY <1>1 DEF Uncounted, Pending, Orphans, Queued
<1>5. /\ health.dropped \in Nat /\ receipts \in Nat /\ phantom \in Nat
      /\ Item.session \in Sessions
  BY <1>1, SpoolNumbers, ItemThere
<1>6. IsFiniteSet(Uncounted) /\ Cardinality(Uncounted) \in Nat
  BY <1>2, UncountedCounts
<1>7. CASE Queued(Item.session) = {Item} /\ Item.session # health.barrier
  <2>1. pc' = "unmark" /\ Item' = Item
    BY <1>7 DEF UnlinkEntry, Goto, Item
  <2>2. PICK c \in Nat :
          Cardinality(Uncounted' \ {Item.session}) = c /\ c <= Cardinality(Uncounted)
    BY <1>4, <1>6, PartCounts
  <2>3. health.dropped + c <= receipts + phantom
    BY <1>2, <1>5, <1>6, <2>2 DEF Told
  <2>4. ToldBut'
    BY <1>1, <2>1, <2>2, <2>3 DEF ToldBut
  <2>5. QED
    BY <1>2, <1>3, <2>1, <2>4 DEF CountedOnce
<1>8. CASE ~ (Queued(Item.session) = {Item} /\ Item.session # health.barrier)
  <2>1. pc' = "append"
    BY <1>8 DEF UnlinkEntry
  <2>2. Item \in entries
    BY <1>1 DEF SpoolInv, HolderHasItems, Item
  <2>3. Item.session \notin Uncounted'
    <3>1. CASE Item.session = health.barrier
      BY <1>1, <3>1 DEF Uncounted, Pending
    <3>2. CASE Queued(Item.session) # {Item}
      <4>1. PICK e \in entries : e # Item /\ e.session = Item.session
        BY <2>2, <3>2 DEF Queued
      <4>2. e \in entries' /\ e.session = Item.session
        BY <1>1, <4>1
      <4>3. Item.session \notin Orphans'
        BY <4>2 DEF Orphans, Queued
      <4>4. QED
        BY <4>3 DEF Uncounted, Pending
    <3>3. QED
      BY <1>8, <3>1, <3>2
  <2>4. Uncounted' \subseteq Uncounted
    BY <1>4, <2>3
  <2>5. Told'
    BY <1>1, <1>2, <1>5, <2>4, StaysTold
  <2>6. QED
    BY <1>1, <1>2, <1>3, <1>5, <2>1, <2>5, PlainOnce
<1>9. QED
  BY <1>7, <1>8

LEMMA RemoveMarkerOnce == SpoolInv /\ CountedOnce /\ RemoveMarker => CountedOnce'
<1> SUFFICES ASSUME SpoolInv, CountedOnce, RemoveMarker PROVE CountedOnce'
  OBVIOUS
<1>1. /\ pc = "unmark" /\ pc' = "append" /\ SetMarker(Item.session, "none")
      /\ UNCHANGED <<entries, health, receipts, phantom, fresh>>
  BY DEF RemoveMarker, history
<1>2. ~ fresh' /\ ToldBut /\ IsFiniteSet(Marked)
  BY <1>1 DEF CountedOnce
<1>3. /\ health.dropped \in Nat /\ receipts \in Nat /\ phantom \in Nat
      /\ Item.session \in Sessions
  BY <1>1, SpoolNumbers, ItemThere
<1>4. /\ \A t \in Sessions \ {Item.session} : marker'[t] = marker[t]
      /\ marker'[Item.session] = "none"
  BY <1>1, <1>3, SetMarkerEffect DEF SpoolInv
<1>5. IsFiniteSet(Marked')
  BY <1>2, <1>4, MarkersFinite
<1>6. Uncounted' \subseteq Uncounted \ {Item.session}
  BY <1>1, <1>4 DEF Uncounted, Pending, Orphans, Queued
<1>7. IsFiniteSet(Uncounted \ {Item.session}) /\ Cardinality(Uncounted \ {Item.session}) \in Nat
  BY <1>2, UncountedCounts
<1>8. PICK c \in Nat :
        Cardinality(Uncounted') = c /\ c <= Cardinality(Uncounted \ {Item.session})
  BY <1>6, <1>7, PartCounts
<1>9. health.dropped + c <= receipts + phantom
  BY <1>2, <1>3, <1>7, <1>8 DEF ToldBut
<1>10. Told'
  BY <1>1, <1>3, <1>8, <1>9, ToldAfter
<1>11. QED
  BY <1>1, <1>2, <1>3, <1>5, <1>10, PlainOnce

\* The health file goes when there is no marker, and the receipts start over.
LEMMA EraseHealthOnce == SpoolInv /\ CountedOnce /\ EraseHealth => CountedOnce'
<1> SUFFICES ASSUME SpoolInv, CountedOnce, EraseHealth PROVE CountedOnce'
  OBVIOUS
<1>1. /\ pc = "erase" /\ pc' = "idle" /\ ~ fresh' /\ marker' = marker
      /\ health'.dropped = 0 /\ receipts' = 0 /\ phantom' = 0
  BY DEF EraseHealth, Release, NoHealth
<1>2. \A s \in Sessions : marker[s] = "none"
  BY <1>1 DEF SpoolInv, ClearedIsEmpty
<1>3. Marked' = {} /\ Uncounted' = {}
  BY <1>1, <1>2 DEF Marked, Uncounted, Pending, Orphans
<1>4. Cardinality(Uncounted') = 0 /\ IsFiniteSet(Marked')
  BY <1>3, FS_EmptySet
<1>5. 0 \in Nat /\ 0 + 0 <= 0 + 0
  OBVIOUS
<1>6. Told'
  BY <1>1, <1>4, <1>5, ToldAfter
<1>7. QED
  BY <1>1, <1>4, <1>5, <1>6, PlainOnce

LEMMA DrainOnce == SpoolInv /\ CountedOnce /\ Drain => CountedOnce'
  BY ReturnOnce, DrainAppendOnce, UnlinkEntryOnce, RemoveMarkerOnce, EraseHealthOnce
     DEF Drain, DrainFinished

\* What an interrupted operation may have counted covers what the report says
\* beyond the receipts.
LEMMA ExposedCovers ==
  ASSUME SpoolInv, CountedOnce
  PROVE  /\ Exposed \in Nat
         /\ health.dropped + Cardinality(Uncounted) <= receipts + phantom + Exposed
<1>1. IsFiniteSet(Marked)
  BY DEF CountedOnce
<1>2. /\ health.dropped \in Nat /\ receipts \in Nat /\ phantom \in Nat /\ Len(todo) \in Nat
  BY SpoolNumbers
<1>3. IsFiniteSet(Uncounted)
  BY <1>1, UncountedCounts
<1>4. /\ Cardinality(Uncounted) \in Nat /\ Cardinality(Uncounted \ {Item.session}) \in Nat
      /\ Cardinality(Uncounted) <= Cardinality(Uncounted \ {Item.session}) + 1
  BY <1>3, OneCounts
<1>5. CASE pc \in {"publish", "count"}
  <2>1. Uncounted \ {Item.session} = {}
    BY <1>5 DEF CountedOnce, Uncounted
  <2>2. Cardinality(Uncounted \ {Item.session}) = 0
    BY <2>1, FS_EmptySet
  <2>3. health.dropped <= receipts + phantom /\ Exposed = 1
    BY <1>5 DEF CountedOnce, Exposed
  <2>4. QED
    BY <1>2, <1>4, <2>2, <2>3
<1>6. CASE pc = "settle"
  <2>1. Uncounted = {}
    <3>1. CASE fresh
      BY <1>6, <3>1 DEF CountedOnce, Uncounted
    <3>2. CASE ~ fresh
      BY <1>6, <3>2 DEF CountedOnce, Uncounted
    <3>3. QED
      BY <3>1, <3>2
  <2>2. Cardinality(Uncounted) = 0
    BY <2>1, FS_EmptySet
  <2>3. health.dropped <= receipts + phantom + 1 /\ Exposed = 1
    BY <1>6 DEF CountedOnce, Exposed
  <2>4. QED
    BY <1>2, <2>2, <2>3
<1>7. CASE pc = "unmark" \/ (pc = "tally" /\ health.barrier = None)
  <2>1. ToldBut
    BY <1>7 DEF CountedOnce
  <2>2. Exposed \in Nat /\ Exposed >= 1
    BY <1>2, <1>7, ItemThere DEF Exposed
  <2>3. QED
    BY <1>2, <1>4, <2>1, <2>2 DEF ToldBut
<1>8. CASE pc = "seal"
  <2>1. Exposed = Len(todo)
        /\ health.dropped + Cardinality(Uncounted) <= receipts + phantom + Len(todo)
    BY <1>8 DEF CountedOnce, Exposed
  <2>2. QED
    BY <1>2, <2>1
<1>9. CASE pc \notin {"publish", "count", "settle", "unmark", "seal"}
           /\ ~ (pc = "tally" /\ health.barrier = None)
  <2>1. Told
    BY <1>9 DEF CountedOnce
  <2>2. Exposed \in Nat
    BY <1>2 DEF Exposed
  <2>3. QED
    BY <1>2, <1>4, <2>1, <2>2 DEF Told
<1>10. QED
  BY <1>5, <1>6, <1>7, <1>8, <1>9

LEMMA FailureOnce == SpoolInv /\ CountedOnce /\ (Crash \/ Kill) => CountedOnce'
<1> SUFFICES ASSUME SpoolInv, CountedOnce, Crash \/ Kill PROVE CountedOnce'
  OBVIOUS
<1>1. /\ UNCHANGED <<disk, receipts>> /\ phantom' = phantom + Exposed
      /\ pc' = "idle" /\ ~ fresh'
  BY DEF Crash, Kill, Release
<1>2. IsFiniteSet(Marked)
  BY DEF CountedOnce
<1>3. Uncounted' = Uncounted /\ Marked' = Marked /\ health' = health
  BY <1>1, SameShown
<1>4. health.dropped \in Nat /\ receipts \in Nat /\ phantom \in Nat
  BY SpoolNumbers
<1>5. Cardinality(Uncounted) \in Nat
  BY <1>2, UncountedCounts
<1>6. phantom + Exposed \in Nat
      /\ health.dropped + Cardinality(Uncounted) <= receipts + (phantom + Exposed)
  BY <1>4, <1>5, ExposedCovers
<1>7. Told'
  BY <1>1, <1>3, <1>4, <1>5, <1>6, ToldAfter
<1>8. QED
  BY <1>1, <1>2, <1>3, <1>4, <1>6, <1>7, PlainOnce

LEMMA InitOnce == Init => CountedOnce
<1> SUFFICES ASSUME Init PROVE CountedOnce
  OBVIOUS
<1>1. /\ pc = "idle" /\ ~ fresh /\ health.dropped = 0 /\ receipts = 0 /\ phantom = 0
      /\ \A s \in Sessions : marker[s] = "none"
  BY DEF Init, NoHealth
<1>2. Marked = {} /\ Uncounted = {}
  BY <1>1 DEF Marked, Uncounted, Pending, Orphans
<1>3. Cardinality(Uncounted) = 0 /\ IsFiniteSet(Marked)
  BY <1>2, FS_EmptySet
<1>4. Told
  BY <1>1, <1>3 DEF Told
<1>5. QED
  BY <1>1, <1>3, <1>4 DEF CountedOnce

\* CountedOnce holds in every reachable state, together with SpoolInv: the
\* report never runs ahead of the receipts by more than what the lock holder
\* has in flight.
THEOREM SpoolCountedOnce == Spec => []CountedOnce
<1>1. Init => SpoolInv /\ CountedOnce
  BY InitInv, InitOnce
<1>2. SpoolInv /\ CountedOnce /\ [Next]_vars => CountedOnce'
  <2> SUFFICES ASSUME SpoolInv, CountedOnce, [Next]_vars PROVE CountedOnce'
    OBVIOUS
  <2>1. CASE Next
    BY <2>1, StartOnce, PersistOnce, PlaceStepOnce, FallbackOnce, DrainOnce, FailureOnce
       DEF Next, Step
  <2>2. CASE UNCHANGED vars
    BY <2>2 DEF CountedOnce, vars, history, disk, bounds, Marked, Pending, Uncounted,
                Told, ToldBut, Item, NextOrphan, RemainingOrphans, Removing, Orphans,
                Queued
  <2>3. QED
    BY <2>1, <2>2
<1>3. QED
  BY <1>1, <1>2, SpoolInvariant, PTL DEF Spec

\* DropsNotOvercounted: between operations, the drops the health report counts
\* never exceed the dropped_quota receipts and what interrupted operations had
\* in flight, however often a half-done reconciliation is started over.
THEOREM SpoolDropsNotOvercounted == Spec => []DropsNotOvercounted
<1>1. CountedOnce => DropsNotOvercounted
  <2> SUFFICES ASSUME CountedOnce, pc = "idle"
               PROVE  ReportedDrops <= receipts + phantom
    BY DEF DropsNotOvercounted
  <2>1. Told
    BY DEF CountedOnce
  <2>2. {s \in Orphans : marker[s] = "pending" /\ s \notin {health.ack, health.barrier}}
        = Uncounted
    BY DEF Uncounted, Pending
  <2>3. QED
    BY <2>1, <2>2 DEF Told, ReportedDrops, SyntheticDrops
<1>2. QED
  BY <1>1, SpoolCountedOnce, PTL
=============================================================================
