------------------------- MODULE CaptureStoreProofs -------------------------
(***************************************************************************)
(* Theorems about CaptureStore, for any connections, sessions, intakes,    *)
(* chunks and limits.  A transaction computes the sessions it leaves from  *)
(* those it reads (db); Whole is about such a db, also in the middle of a  *)
(* chunk, and every operator of the model keeps it.  Sealed is what a      *)
(* committed row adds: what is in it is vouched for.                       *)
(***************************************************************************)
EXTENDS CaptureStore, SumTheorems, SequenceTheorems

(* ------------------------------ invariants ----------------------------- *)

Stored == [intake : Intakes, source : Sources]
Receipts == [chunk : Chunks, post : 0..MaxEvents]
Rows ==
    [state : SessionStates, degraded : BOOLEAN, ledgered : BOOLEAN,
     events : Seq(Stored), receipts : Seq(Receipts)]

\* The session's start is its first event, and its end, if any, its last one.
Formed(s, row) ==
    /\ row.state = "open" => row.events # <<>>
    /\ \A i \in DOMAIN row.events :
          /\ row.events[i].intake.session = s
          /\ row.events[i].intake.kind = "session_started" <=> i = 1
          /\ row.events[i].intake.kind = "session_finished" =>
                i = Len(row.events) /\ row.state # "open"

\* ReceiptsBacked of one session, whose chunks are its own.
Backed(s, row) ==
    \A i \in DOMAIN row.receipts :
        /\ row.receipts[i].chunk.session = s
        /\ \A k \in DOMAIN row.receipts[i].chunk.intakes :
              \E j \in 1..row.receipts[i].post :
                  row.events[j].intake = row.receipts[i].chunk.intakes[k]

RowWhole(s, row) ==
    /\ Len(row.events) <= MaxEvents /\ Len(row.receipts) <= MaxReceipts
    /\ row.state = "absent" => row = Absent
    /\ row.ledgered => IsBridge(s)
    /\ ~ row.ledgered => row.receipts = <<>>
    /\ ReceiptsOrdered(row)
    /\ Formed(s, row) /\ Backed(s, row)
    /\ ~ row.degraded => \A i \in DOMAIN row.events : row.events[i].intake.captured

\* A connection has a producer digest once.
Distinct(db) ==
    \A s, t \in Sessions : ConnectionOf[s] = ConnectionOf[t] =>
        \A i \in DOMAIN db[s].events, j \in DOMAIN db[t].events :
            db[s].events[i].intake.digest = db[t].events[j].intake.digest =>
                s = t /\ i = j

Whole(db) ==
    /\ db \in [Sessions -> Rows]
    /\ \A s \in Sessions : RowWhole(s, db[s])
    /\ Distinct(db)

\* Some receipt is for the chunk that brought an event.
Covered(row, i) ==
    \E r \in DOMAIN row.receipts : \E k \in DOMAIN row.receipts[r].chunk.intakes :
        row.receipts[r].chunk.intakes[k] = row.events[i].intake

Sealed(row) ==
    /\ ChainVerifies(row, FALSE)
    /\ row.ledgered /\ ~ row.degraded =>
          \A i \in DOMAIN row.events : Covered(row, i)

Vars ==
    /\ bridges \in Profiles
    /\ connection \in [Connections -> ConnectionStates]
    /\ tombstones \subseteq Sessions
    /\ deletion \in [of : Sessions \cup {Project, None},
                     phase : {"none", "checked", "marked"},
                     ids : SUBSET Connections]
    /\ alarm \in BOOLEAN

\* The session whose deletion goes on is marked.
MarkedFirst ==
    deletion.phase = "marked" /\ deletion.of \in Sessions =>
        session[deletion.of].state = "deleting"

Inv ==
    /\ Vars /\ MarkedFirst /\ Whole(session)
    /\ \A s \in Sessions : Sealed(session[s])

\* Without a version-one store, every bridge session has its ledger.
NoLegacyRows == \A s \in Sessions : session[s].state # "absent" =>
                    session[s].ledgered = IsBridge(s)

(* ------------------------- operators of a session ---------------------- *)

(* The rows of a session that is new, or not there.                        *)
LEMMA NewRows ==
    ASSUME NEW s \in Sessions
    PROVE  /\ Absent \in Rows /\ Created(s) \in Rows
           /\ Absent.state = "absent" /\ ~ Absent.degraded /\ ~ Absent.ledgered
           /\ Absent.events = <<>> /\ Absent.receipts = <<>>
           /\ Created(s).state = "open" /\ ~ Created(s).degraded
           /\ Created(s).ledgered = IsBridge(s)
           /\ Created(s).events = <<>> /\ Created(s).receipts = <<>>
           /\ RowWhole(s, Absent) /\ Sealed(Absent)
<1>1. IsBridge(s) \in BOOLEAN
  BY DEF IsBridge
<1>2. /\ Absent \in Rows
      /\ Absent.state = "absent" /\ ~ Absent.degraded /\ ~ Absent.ledgered
      /\ Absent.events = <<>> /\ Absent.receipts = <<>>
  BY DEF Absent, Rows, SessionStates
<1>3. Created(s) = [Absent EXCEPT !.state = "open", !.ledgered = IsBridge(s)]
  BY DEF Created
<1>4. /\ Created(s) \in Rows
      /\ Created(s).state = "open" /\ ~ Created(s).degraded
      /\ Created(s).ledgered = IsBridge(s)
      /\ Created(s).events = <<>> /\ Created(s).receipts = <<>>
  BY <1>1, <1>2, <1>3 DEF Rows, SessionStates
<1>5. /\ Len(Absent.events) = 0 /\ Len(Absent.receipts) = 0
      /\ DOMAIN Absent.events = {} /\ DOMAIN Absent.receipts = {}
  BY <1>2
<1>6. RowWhole(s, Absent)
  BY <1>2, <1>5, BoundsAssumption DEF RowWhole, ReceiptsOrdered, Formed, Backed
<1>7. Sealed(Absent)
  BY <1>2, <1>5 DEF Sealed, ChainVerifies
<1>8. QED
  BY <1>2, <1>4, <1>6, <1>7

(* What a row says of its evidence does not change while the evidence is   *)
(* the same and no coverage is claimed that was not there.                 *)
LEMMA SameEvidence ==
    ASSUME NEW s \in Sessions, NEW row \in Rows, NEW new \in Rows, RowWhole(s, row),
           new.events = row.events, new.receipts = row.receipts,
           \/ new.state \notin {"absent", "open"}
           \/ new.state = row.state /\ row.state # "absent",
           new.ledgered => IsBridge(s), row.ledgered => new.ledgered,
           row.degraded => new.degraded
    PROVE  RowWhole(s, new)
<1>1. /\ Len(new.events) <= MaxEvents /\ Len(new.receipts) <= MaxReceipts
      /\ new.state # "absent" /\ ~ new.ledgered => new.receipts = <<>>
  BY DEF RowWhole
<1>2. ReceiptsOrdered(new)
  BY DEF RowWhole, ReceiptsOrdered
<1>3. Formed(s, new)
  BY DEF RowWhole, Formed
<1>4. Backed(s, new)
  BY DEF RowWhole, Backed
<1>5. ~ new.degraded => \A i \in DOMAIN new.events : new.events[i].intake.captured
  <2>1. SUFFICES ASSUME ~ new.degraded PROVE ~ row.degraded
    BY DEF RowWhole
  <2>2. QED
    BY <2>1
<1>6. QED
  BY <1>1, <1>2, <1>3, <1>4, <1>5 DEF RowWhole

(* The same for what a committed row is vouched for with.                  *)
LEMMA SameSeal ==
    ASSUME NEW row \in Rows, NEW new \in Rows, Sealed(row),
           new.events = row.events, new.receipts = row.receipts,
           new.ledgered = row.ledgered, row.degraded => new.degraded
    PROVE  Sealed(new)
<1>1. ReceiptsOrdered(new) = ReceiptsOrdered(row) /\ LastPost(new) = LastPost(row)
  BY DEF ReceiptsOrdered, LastPost
<1>2. ChainVerifies(new, FALSE)
  BY <1>1 DEF Sealed, ChainVerifies
<1>3. ASSUME new.ledgered, ~ new.degraded, NEW i \in DOMAIN new.events
      PROVE  Covered(new, i)
  <2>1. Covered(row, i)
    BY <1>3 DEF Sealed
  <2>2. QED
    BY <2>1 DEF Covered
<1>4. QED
  BY <1>2, <1>3 DEF Sealed

(* A quarantine keeps the evidence of the sessions it is about, and leaves *)
(* the others alone.                                                       *)
LEMMA QuarantinedRow ==
    ASSUME NEW db, Whole(db), NEW affected, NEW s \in Sessions
    PROVE  LET new == Quarantined(db, affected)[s] IN
           /\ new \in Rows /\ RowWhole(s, new)
           /\ new.events = db[s].events /\ new.receipts = db[s].receipts
           /\ s \notin affected => new = db[s]
           /\ s \in affected =>
                /\ new.state = "quarantined" /\ new.degraded
                /\ new.ledgered = IF db[s].state = "absent" THEN IsBridge(s)
                                  ELSE db[s].ledgered
<1> DEFINE new == Quarantined(db, affected)[s]
           row == IF db[s].state = "absent" THEN Created(s) ELSE db[s]
<1>1. db[s] \in Rows /\ RowWhole(s, db[s])
  BY DEF Whole
<1>2. CASE s \notin affected
  <2>1. new = db[s]
    BY <1>2 DEF Quarantined
  <2>2. QED
    BY <1>1, <1>2, <2>1
<1>3. CASE s \in affected
  <2>1. new = [row EXCEPT !.state = "quarantined", !.degraded = TRUE]
    BY <1>3 DEF Quarantined
  <2>2. /\ row \in Rows /\ row.events = db[s].events /\ row.receipts = db[s].receipts
        /\ row.ledgered = IF db[s].state = "absent" THEN IsBridge(s) ELSE db[s].ledgered
    <3>1. db[s].state = "absent" => db[s] = Absent
      BY <1>1 DEF RowWhole
    <3>2. QED
      BY <1>1, <3>1, NewRows
  <2> HIDE DEF row, new
  <2>3. /\ new \in Rows /\ new.state = "quarantined" /\ new.degraded
        /\ new.events = db[s].events /\ new.receipts = db[s].receipts
        /\ new.ledgered = row.ledgered
    BY <2>1, <2>2 DEF Rows, SessionStates
  <2>4. /\ new.ledgered => IsBridge(s)
        /\ db[s].ledgered => new.ledgered
    <3>1. /\ db[s].ledgered => IsBridge(s)
          /\ db[s].state = "absent" => db[s] = Absent
      BY <1>1 DEF RowWhole
    <3>2. ~ Absent.ledgered
      BY NewRows
    <3>3. QED
      BY <2>2, <2>3, <3>1, <3>2
  <2>5. /\ new \in Rows /\ new.state \notin {"absent", "open"}
        /\ db[s].degraded => new.degraded
        /\ new.events = db[s].events /\ new.receipts = db[s].receipts
    BY <2>3
  <2>6. RowWhole(s, new)
    BY <1>1, <2>4, <2>5, SameEvidence
  <2>7. QED
    BY <1>3, <2>2, <2>3, <2>6 DEF new
<1>4. QED
  BY <1>2, <1>3

(* The db of a quarantine.                                                 *)
LEMMA QuarantinedWhole ==
    ASSUME NEW db, Whole(db), NEW affected
    PROVE  Whole(Quarantined(db, affected))
<1> DEFINE new == Quarantined(db, affected)
<1>1. \A s \in Sessions : /\ new[s] \in Rows /\ RowWhole(s, new[s])
                          /\ new[s].events = db[s].events
  BY QuarantinedRow
<1>2. new = [s \in Sessions |-> new[s]]
  BY DEF Quarantined
<1> HIDE DEF new
<1>3. new \in [Sessions -> Rows]
  BY <1>1, <1>2
<1>4. Distinct(new)
  BY <1>1 DEF Whole, Distinct
<1>5. QED
  BY <1>1, <1>3, <1>4 DEF Whole, new

(* An event more at the end of a sequence.                                 *)
LEMMA OneMore ==
    ASSUME NEW T, NEW q \in Seq(T), NEW x \in T
    PROVE  /\ Append(q, x) \in Seq(T)
           /\ Len(q) \in Nat /\ Len(Append(q, x)) = Len(q) + 1
           /\ DOMAIN q = 1..Len(q) /\ DOMAIN Append(q, x) = 1..(Len(q) + 1)
           /\ \A i \in DOMAIN q : Append(q, x)[i] = q[i]
           /\ Append(q, x)[Len(q) + 1] = x
           /\ \A i \in DOMAIN Append(q, x) : i \in DOMAIN q \/ i = Len(q) + 1
    OBVIOUS

(* What each answer says of the rows it was given for.                     *)
LEMMA AnswerFacts ==
    ASSUME NEW db, NEW e \in Intakes, NEW source, NEW bound
    PROVE  LET answer == Answer(db, e, source, bound)
               s == e.session
               twins == TwinSessions(db, e)
               state == connection[ConnectionOf[s]]
           IN  /\ answer \in {"refused", "unverified", "replayed", "collision",
                              "gap", "overflow", "admitted"}
               /\ answer # "refused" =>
                     /\ state \notin {"absent", "deleting"}
                     /\ \A t \in twins \cup {s} : ~ Barred(db, t)
                     /\ IsBridge(s) /\ source = "direct" => bound
               /\ answer = "unverified" =>
                     \E t \in twins \cup {s} : ~ ChainVerifies(db[t], bound)
               /\ answer = "replayed" => IsReplay(db, e)
               /\ answer = "gap" => IsFallback(e, source, bound)
               /\ answer = "admitted" =>
                     /\ state \in AllowedStates(source) /\ twins = {}
                     /\ db[s].state = "absent" => e.kind = "session_started"
                     /\ ~ Ended(db[s])
                     /\ db[s].state = "open" => e.kind # "session_started"
                     /\ ~ EventsFull(db[s])
<1> DEFINE s == e.session
           twins == TwinSessions(db, e)
           state == connection[ConnectionOf[s]]
           barred == \/ state \in {"absent", "deleting"}
                     \/ IsBridge(s) /\ source = "direct" /\ ~bound
                     \/ \E t \in twins \cup {s} : Barred(db, t)
           doubtful == \E t \in twins : ~ChainVerifies(db[t], bound)
           unstarted == db[s].state = "absent" /\ e.kind # "session_started"
           restarted == db[s].state = "open" /\ e.kind = "session_started"
           bad == state \notin AllowedStates(source)
           twin == twins # {}
           again == IsReplay(db, e)
           fallback == IsFallback(e, source, bound)
           ended == Ended(db[s])
           odd == ~ChainVerifies(db[s], bound)
           full == EventsFull(db[s])
           answer == Answer(db, e, source, bound)
<1>1. answer = IF barred THEN "refused"
               ELSE IF doubtful THEN "unverified"
               ELSE IF again THEN "replayed"
               ELSE IF bad THEN "refused"
               ELSE IF twin THEN "collision"
               ELSE IF unstarted THEN "refused"
               ELSE IF ended THEN IF fallback THEN "gap" ELSE "refused"
               ELSE IF restarted THEN "refused"
               ELSE IF odd THEN "unverified"
               ELSE IF full THEN "overflow" ELSE "admitted"
  BY DEF Answer
<1>2. /\ answer \in {"refused", "unverified", "replayed", "collision", "gap",
                     "overflow", "admitted"}
      /\ answer # "refused" => ~ barred
      /\ answer = "unverified" => doubtful \/ odd
      /\ answer = "replayed" => again
      /\ answer = "gap" => fallback
      /\ answer = "admitted" => ~ bad /\ ~ twin /\ ~ unstarted /\ ~ ended /\ ~ restarted /\ ~ full
  <2> HIDE DEF answer, barred, doubtful, again, bad, twin, unstarted, ended, fallback,
               restarted, odd, full
  <2>1. QED
    BY <1>1
<1>3. QED
  BY <1>2

\* The rows that Extended leaves: the intake is the new last event.
Longer(db, e, source, bound) ==
    LET s == e.session
        new == Extended(db, e, source, bound)[s]
    IN  /\ Extended(db, e, source, bound) \in [Sessions -> Rows]
        /\ \A t \in Sessions \ {s} : Extended(db, e, source, bound)[t] = db[t]
        /\ s \in Sessions /\ new \in Rows
        /\ new.events = Append(db[s].events, [intake |-> e, source |-> source])
        /\ new.receipts = db[s].receipts
        /\ new.state = IF e.kind = "session_finished" THEN "closed" ELSE "open"
        /\ new.ledgered = IF db[s].state = "absent" THEN IsBridge(s)
                          ELSE db[s].ledgered
        /\ new.degraded <=> \/ db[s].degraded \/ ~ e.captured
                            \/ IsFallback(e, source, bound)

(* An admitted intake is the new last event of its session.                *)
LEMMA ExtendedRow ==
    ASSUME NEW db, Whole(db), NEW e \in Intakes, NEW source \in Sources, NEW bound \in BOOLEAN
    PROVE  Longer(db, e, source, bound)
<1> DEFINE s == e.session
           row == IF db[s].state = "absent" THEN Created(s) ELSE db[s]
           state == IF e.kind = "session_finished" THEN "closed" ELSE "open"
           degraded == row.degraded \/ ~ e.captured \/ IsFallback(e, source, bound)
           new == [row EXCEPT !.events = Append(row.events, [intake |-> e, source |-> source]),
                              !.state = state, !.degraded = degraded]
<1>1. s \in Sessions /\ [intake |-> e, source |-> source] \in Stored
  BY IntakesAssumption DEF Stored
<1>2. db[s] \in Rows /\ RowWhole(s, db[s]) /\ db \in [Sessions -> Rows]
  BY <1>1 DEF Whole
<1>3. /\ row \in Rows /\ row.events = db[s].events /\ row.receipts = db[s].receipts
      /\ row.ledgered = IF db[s].state = "absent" THEN IsBridge(s) ELSE db[s].ledgered
      /\ row.degraded = db[s].degraded
  <2>1. db[s].state = "absent" => db[s] = Absent
    BY <1>2 DEF RowWhole
  <2>2. Absent.degraded = FALSE /\ Created(s).degraded = FALSE
    BY <1>1, NewRows DEF Absent, Created
  <2>3. QED
    BY <1>1, <1>2, <2>1, <2>2, NewRows
<1>4. Extended(db, e, source, bound) = [db EXCEPT ![s] = new]
  BY DEF Extended
<1>5. degraded \in BOOLEAN /\ state \in SessionStates
  <2>1. row.degraded \in BOOLEAN
    BY <1>3 DEF Rows
  <2>2. QED
    BY <2>1 DEF SessionStates
<1>6. row.events \in Seq(Stored)
  BY <1>3 DEF Rows
<1>7. Append(row.events, [intake |-> e, source |-> source]) \in Seq(Stored)
  BY <1>1, <1>6, OneMore
<1> DEFINE events == Append(row.events, [intake |-> e, source |-> source])
<1>8. new = [row EXCEPT !.events = events, !.state = state, !.degraded = degraded]
  OBVIOUS
<1> HIDE DEF events, state, degraded, new, row
<1>9. /\ new \in Rows /\ new.events = events /\ new.state = state
      /\ new.degraded = degraded /\ new.receipts = row.receipts
      /\ new.ledgered = row.ledgered
  BY <1>3, <1>5, <1>7, <1>8 DEF Rows, events
<1>10. /\ [db EXCEPT ![s] = new] \in [Sessions -> Rows]
       /\ [db EXCEPT ![s] = new][s] = new
       /\ \A t \in Sessions \ {s} : [db EXCEPT ![s] = new][t] = db[t]
  BY <1>1, <1>2, <1>9
<1>11. new.degraded <=> \/ db[s].degraded \/ ~ e.captured
                        \/ IsFallback(e, source, bound)
  BY <1>3, <1>5, <1>9 DEF degraded
<1>12. QED
  BY <1>1, <1>3, <1>4, <1>9, <1>10, <1>11 DEF events, state, Longer

(* An intake that is admitted leaves the sessions as they should be.       *)
LEMMA ExtendedWhole ==
    ASSUME NEW db, Whole(db), NEW e \in Intakes, NEW source \in Sources, NEW bound \in BOOLEAN,
           Answer(db, e, source, bound) = "admitted"
    PROVE  Whole(Extended(db, e, source, bound))
<1> DEFINE s == e.session
           out == Extended(db, e, source, bound)
           new == out[s]
           x == [intake |-> e, source |-> source]
           old == db[s].events
<1>1. /\ out \in [Sessions -> Rows] /\ \A t \in Sessions \ {s} : out[t] = db[t]
      /\ s \in Sessions /\ new \in Rows /\ new.events = Append(old, x)
      /\ new.receipts = db[s].receipts
      /\ new.state = IF e.kind = "session_finished" THEN "closed" ELSE "open"
      /\ new.ledgered = IF db[s].state = "absent" THEN IsBridge(s) ELSE db[s].ledgered
      /\ new.degraded <=> \/ db[s].degraded \/ ~ e.captured
                          \/ IsFallback(e, source, bound)
  BY ExtendedRow DEF Longer
<1>2. /\ TwinSessions(db, e) = {}
      /\ db[s].state = "absent" => e.kind = "session_started"
      /\ ~ Ended(db[s]) /\ ~ EventsFull(db[s]) /\ ~ Barred(db, s)
      /\ db[s].state = "open" => e.kind # "session_started"
  BY AnswerFacts
<1>3. x \in Stored /\ x.intake = e /\ old \in Seq(Stored) /\ db[s] \in Rows
      /\ RowWhole(s, db[s])
  BY <1>1 DEF Stored, Whole, Rows
<1>4. /\ Len(old) \in Nat /\ Len(new.events) = Len(old) + 1
      /\ DOMAIN old = 1..Len(old) /\ DOMAIN new.events = 1..(Len(old) + 1)
      /\ \A i \in DOMAIN old : new.events[i] = old[i]
      /\ new.events[Len(old) + 1] = x
      /\ \A i \in DOMAIN new.events : i \in DOMAIN old \/ i = Len(old) + 1
  <2>1. x \in Stored /\ old \in Seq(Stored) /\ new.events = Append(old, x)
    BY <1>1, <1>3
  <2> HIDE DEF x, old, new, out
  <2>2. QED
    BY <2>1, OneMore
<1>5. db[s].state \in {"absent", "open"}
  BY <1>2, <1>3 DEF Rows, SessionStates, Ended, Barred
<1>6. db[s].state = "absent" => db[s] = Absent /\ old = <<>>
  BY <1>1, <1>3, NewRows DEF RowWhole
<1> HIDE DEF out, new, old, x, s
<1>7. Len(new.events) <= MaxEvents /\ Len(new.receipts) <= MaxReceipts
      /\ new.state # "absent"
  <2>1. Len(old) < MaxEvents
    BY <1>2, <1>4, BoundsAssumption DEF EventsFull, old
  <2>2. Len(new.events) <= MaxEvents
    BY <1>4, <2>1, BoundsAssumption
  <2>3. QED
    BY <1>1, <1>3, <2>2 DEF RowWhole
<1>8. new.ledgered => IsBridge(s)
  BY <1>1, <1>3 DEF RowWhole
<1>9. ~ new.ledgered => new.receipts = <<>>
  BY <1>1, <1>3, <1>6, NewRows DEF RowWhole
<1>10. ReceiptsOrdered(new)
  <2>1. ReceiptsOrdered(db[s]) /\ db[s].receipts \in Seq(Receipts)
    BY <1>3 DEF RowWhole, Rows
  <2>2. \A i \in DOMAIN new.receipts : new.receipts[i].post <= Len(new.events)
    <3>1. ASSUME NEW i \in DOMAIN new.receipts
          PROVE  new.receipts[i].post <= Len(new.events)
      <4>1. new.receipts[i] \in Receipts
        BY <1>1, <2>1
      <4>2. new.receipts[i].post \in Nat
        BY <4>1, BoundsAssumption DEF Receipts
      <4>3. new.receipts[i].post <= Len(old)
        BY <1>1, <2>1 DEF ReceiptsOrdered, old
      <4>4. QED
        BY <1>4, <4>2, <4>3
    <3>2. QED
      BY <3>1
  <2>3. QED
    BY <1>1, <2>1, <2>2 DEF ReceiptsOrdered
<1>11. Formed(s, new)
  <2>1. Formed(s, db[s])
    BY <1>3 DEF RowWhole
  <2>2. new.events # <<>>
    BY <1>4
  <2>3. ASSUME NEW i \in DOMAIN new.events
        PROVE  /\ new.events[i].intake.session = s
               /\ new.events[i].intake.kind = "session_started" <=> i = 1
               /\ new.events[i].intake.kind = "session_finished" =>
                     i = Len(new.events) /\ new.state # "open"
    <3>1. CASE i \in DOMAIN old
      <4>1. db[s].state = "open"
        BY <1>5, <1>6, <3>1
      <4>2. new.events[i] = db[s].events[i] /\ i \in DOMAIN db[s].events
        BY <1>4, <3>1 DEF old
      <4>3. QED
        BY <2>1, <4>1, <4>2 DEF Formed
    <3>2. CASE i = Len(old) + 1
      <4>1. new.events[i].intake = e /\ e.session = s
        BY <1>3, <1>4, <3>2 DEF s
      <4>2. e.kind = "session_started" <=> i = 1
        <5>1. CASE db[s].state = "absent"
          BY <1>2, <1>4, <1>6, <3>2, <5>1
        <5>2. CASE db[s].state = "open"
          <6>1. old # <<>>
            BY <2>1, <5>2 DEF Formed, old
          <6>2. Len(old) # 0
            BY <1>3, <6>1
          <6>3. QED
            BY <1>2, <1>4, <3>2, <5>2, <6>2
        <5>3. QED
          BY <1>5, <5>1, <5>2
      <4>3. QED
        BY <1>1, <1>4, <3>2, <4>1, <4>2
    <3>3. QED
      BY <1>4, <3>1, <3>2
  <2>4. QED
    BY <2>2, <2>3 DEF Formed
<1>12. Backed(s, new)
  <2>1. Backed(s, db[s]) /\ ReceiptsOrdered(db[s]) /\ db[s].receipts \in Seq(Receipts)
    BY <1>3 DEF RowWhole, Rows
  <2>2. ASSUME NEW i \in DOMAIN new.receipts
        PROVE  /\ new.receipts[i].chunk.session = s
               /\ \A k \in DOMAIN new.receipts[i].chunk.intakes :
                     \E j \in 1..new.receipts[i].post :
                         new.events[j].intake = new.receipts[i].chunk.intakes[k]
    <3>1. new.receipts[i] = db[s].receipts[i] /\ i \in DOMAIN db[s].receipts
      BY <1>1
    <3>2. new.receipts[i].post \in Nat /\ new.receipts[i].post <= Len(old)
      <4>1. new.receipts[i] \in Receipts
        BY <2>1, <3>1
      <4>2. QED
        BY <2>1, <3>1, <4>1, BoundsAssumption DEF Receipts, ReceiptsOrdered, old
    <3>3. \A j \in 1..new.receipts[i].post : new.events[j] = db[s].events[j]
      BY <1>4, <3>2 DEF old
    <3>4. QED
      BY <2>1, <3>1, <3>3 DEF Backed
  <2>3. QED
    BY <2>2 DEF Backed
<1>13. ~ new.degraded => \A i \in DOMAIN new.events : new.events[i].intake.captured
  <2>1. ASSUME ~ new.degraded, NEW i \in DOMAIN new.events
        PROVE  new.events[i].intake.captured
    <3>1. ~ db[s].degraded /\ e.captured
      BY <1>1, <2>1
    <3>2. CASE i \in DOMAIN old
      BY <1>3, <1>4, <3>1, <3>2 DEF RowWhole, old
    <3>3. CASE i = Len(old) + 1
      BY <1>3, <1>4, <3>1, <3>3
    <3>4. QED
      BY <1>4, <3>2, <3>3
  <2>2. QED
    BY <2>1
<1>14. RowWhole(s, new)
  BY <1>7, <1>8, <1>9, <1>10, <1>11, <1>12, <1>13 DEF RowWhole
<1>15. \A t \in Sessions : RowWhole(t, out[t])
  <2>1. new = out[s]
    BY DEF new
  <2>2. QED
    BY <1>1, <1>14, <2>1 DEF Whole
<1>16. Distinct(out)
  <2>1. ASSUME NEW t \in Sessions, ConnectionOf[t] = ConnectionOf[s], NEW i \in DOMAIN db[t].events
        PROVE  db[t].events[i].intake.digest # e.digest
    BY <1>2, <2>1 DEF TwinSessions, Siblings, SessionsOf, s
  <2>2. ASSUME NEW t \in Sessions, NEW i \in DOMAIN out[t].events
        PROVE  \/ t = s /\ i = Len(old) + 1 /\ out[t].events[i].intake = e
               \/ i \in DOMAIN db[t].events /\ out[t].events[i] = db[t].events[i]
    <3>1. CASE t = s
      BY <1>3, <1>4, <2>2, <3>1 DEF new, old
    <3>2. CASE t # s
      BY <1>1, <2>2, <3>2
    <3>3. QED
      BY <3>1, <3>2
  <2>3. ASSUME NEW t \in Sessions, NEW u \in Sessions, ConnectionOf[t] = ConnectionOf[u],
               NEW i \in DOMAIN out[t].events, NEW j \in DOMAIN out[u].events,
               out[t].events[i].intake.digest = out[u].events[j].intake.digest
        PROVE  t = u /\ i = j
    <3>1. Distinct(db)
      BY DEF Whole
    <3>2. CASE t = s /\ i = Len(old) + 1 /\ out[t].events[i].intake = e
      <4>1. ~ (j \in DOMAIN db[u].events /\ out[u].events[j] = db[u].events[j])
        BY <2>1, <2>3, <3>2
      <4>2. QED
        BY <2>2, <3>2, <4>1
    <3>3. CASE i \in DOMAIN db[t].events /\ out[t].events[i] = db[t].events[i]
      <4>1. ~ (u = s /\ j = Len(old) + 1 /\ out[u].events[j].intake = e)
        BY <2>1, <2>3, <3>3
      <4>2. j \in DOMAIN db[u].events /\ out[u].events[j] = db[u].events[j]
        BY <2>2, <4>1
      <4>3. QED
        BY <2>3, <3>1, <3>3, <4>2 DEF Distinct
    <3>4. QED
      BY <2>2, <3>2, <3>3
  <2>4. QED
    BY <2>3 DEF Distinct
<1>17. QED
  BY <1>1, <1>15, <1>16 DEF Whole, out

(* Inside a chunk a session that is whole verifies: what has no receipt    *)
(* yet is pending.                                                         *)
LEMMA PendingVerifies ==
    ASSUME NEW s \in Sessions, NEW row, RowWhole(s, row)
    PROVE  ChainVerifies(row, TRUE)
BY DEF RowWhole, ChainVerifies

(* A ledger for a session of a version-one store takes nothing away.       *)
LEMMA UpgradedWhole ==
    ASSUME NEW db, Whole(db), NEW s \in Sessions, IsBridge(s)
    PROVE  LET new == Upgraded(db, s) IN
           /\ Whole(new)
           /\ \A t \in Sessions :
                 /\ new[t].events = db[t].events /\ new[t].receipts = db[t].receipts
                 /\ new[t].state = db[t].state
                 /\ db[t].degraded => new[t].degraded
                 /\ t # s => new[t] = db[t]
           /\ new[s].state = "open" => new[s].ledgered
           /\ \/ new[s] = db[s]
              \/ new[s].degraded /\ ~ db[s].ledgered /\ db[s].state = "open"
           /\ db[s].ledgered => new = db
<1> DEFINE new == Upgraded(db, s)
<1>1. db \in [Sessions -> Rows] /\ db[s] \in Rows /\ RowWhole(s, db[s])
  BY DEF Whole
<1>2. CASE ~ (db[s].state = "open" /\ ~ db[s].ledgered)
  <2>1. new = db
    BY <1>2 DEF Upgraded
  <2>2. QED
    BY <1>2, <2>1
<1>3. CASE db[s].state = "open" /\ ~ db[s].ledgered
  <2> DEFINE row == [db[s] EXCEPT !.ledgered = TRUE, !.degraded = TRUE]
  <2>1. /\ row \in Rows /\ row.state = db[s].state /\ row.ledgered /\ row.degraded
        /\ row.events = db[s].events /\ row.receipts = db[s].receipts
    BY <1>1 DEF Rows
  <2>2. new = [db EXCEPT ![s] = row]
    BY <1>1, <1>3 DEF Upgraded, Rows
  <2>3. RowWhole(s, row)
    <3>1. row.state # "absent" /\ row.state = db[s].state
      BY <1>3, <2>1
    <3> HIDE DEF row
    <3>2. QED
      BY <1>1, <2>1, <3>1, SameEvidence
  <2> HIDE DEF row
  <2>4. /\ new \in [Sessions -> Rows] /\ new[s] = row
        /\ \A t \in Sessions : t # s => new[t] = db[t]
    BY <1>1, <2>1, <2>2
  <2> HIDE DEF new
  <2>5. \A t \in Sessions :
           /\ RowWhole(t, new[t])
           /\ new[t].events = db[t].events /\ new[t].receipts = db[t].receipts
           /\ new[t].state = db[t].state
           /\ db[t].degraded => new[t].degraded
           /\ t # s => new[t] = db[t]
    BY <2>1, <2>3, <2>4 DEF Whole
  <2>6. Distinct(new)
    BY <2>5 DEF Whole, Distinct
  <2>7. Whole(new) /\ new[s].ledgered /\ new[s].degraded
    BY <2>1, <2>4, <2>5, <2>6 DEF Whole
  <2>8. QED
    BY <1>3, <2>5, <2>7 DEF new
<1>4. QED
  BY <1>2, <1>3

(* ------------------------------- a chunk ------------------------------- *)

\* The sessions that the first n intakes of a chunk lead to, from those that
\* it found, while none of them ends it.
Grown(found, c, n, db) ==
    LET s == c.session IN
    /\ Whole(db)
    /\ \A t \in Sessions \ {s} : db[t] = found[t]
    /\ db[s].receipts = found[s].receipts
    /\ db[s].state \in {"absent", "open", "closed"}
    /\ db[s].state # "absent" => db[s].ledgered
    /\ found[s].degraded => db[s].degraded
    /\ Len(found[s].events) <= Len(db[s].events)
    /\ \A i \in DOMAIN found[s].events : db[s].events[i] = found[s].events[i]
    /\ \A k \in 1..n :
          \E j \in DOMAIN db[s].events : db[s].events[j].intake = c.intakes[k]
    /\ \A j \in DOMAIN db[s].events :
          \/ j \in DOMAIN found[s].events
          \/ \E k \in DOMAIN c.intakes : c.intakes[k] = db[s].events[j].intake

\* What becomes of the sessions with the n-th intake.
Ran(found, c, n, out) ==
    /\ out.answer \in {"refused", "replayed", "collision", "overflow", "admitted"}
    /\ out.answer \in {"replayed", "admitted"} => Grown(found, c, n, out.db)
    /\ out.answer \in {"collision", "overflow"} => out.affected \subseteq Sessions

(* A chunk has intakes, all of its own session.                            *)
LEMMA ChunkFacts ==
    ASSUME NEW c \in Chunks
    PROVE  /\ c.session \in Sessions
           /\ c.intakes \in Seq(Intakes) /\ Len(c.intakes) \in Nat \ {0}
           /\ DOMAIN c.intakes = 1..Len(c.intakes)
           /\ \A k \in DOMAIN c.intakes :
                 c.intakes[k] \in Intakes /\ c.intakes[k].session = c.session
<1> DEFINE own == {e \in Intakes : e.session = c.session}
<1>1. c.session \in Sessions /\ c.intakes \in Seq(own) /\ c.intakes # <<>>
  BY ChunksAssumption
<1>2. \A k \in DOMAIN c.intakes : c.intakes[k] \in own
  BY <1>1
<1>3. c.intakes \in Seq(Intakes)
  BY <1>1
<1>4. QED
  BY <1>1, <1>2, <1>3

(* No answer but those: in a chunk there is no fallback, and what is not   *)
(* receipted yet is pending.                                               *)
LEMMA GrownStep ==
    ASSUME NEW found, NEW c \in Chunks, IsBridge(c.session),
           NEW n \in 1..Len(c.intakes), NEW db, Grown(found, c, n - 1, db)
    PROVE  Ran(found, c, n, Appended(db, c.intakes[n], "direct", TRUE))
<1> DEFINE s == c.session
           e == c.intakes[n]
           answer == Answer(db, e, "direct", TRUE)
           out == Appended(db, e, "direct", TRUE)
<1>1. /\ s \in Sessions /\ e \in Intakes /\ e.session = s /\ n \in DOMAIN c.intakes
      /\ "direct" \in Sources /\ TRUE \in BOOLEAN
  BY ChunkFacts DEF Sources
<1>2. out.answer = answer /\ out.affected = Affected(db, e, answer)
      /\ out.db = IF answer = "admitted" THEN Extended(db, e, "direct", TRUE)
                  ELSE Quarantined(db, Affected(db, e, answer))
  BY DEF Appended
<1>3. Whole(db)
  BY DEF Grown
<1>4. answer # "gap"
  <2>1. ~ IsFallback(e, "direct", TRUE)
    BY DEF IsFallback
  <2>2. QED
    BY <1>1, <2>1, AnswerFacts
<1>5. answer # "unverified"
  <2>1. \A t \in TwinSessions(db, e) \cup {e.session} : t \in Sessions
    BY <1>1 DEF TwinSessions, Siblings, SessionsOf
  <2>2. \A t \in Sessions : ChainVerifies(db[t], TRUE)
    BY <1>3, PendingVerifies DEF Whole
  <2>3. QED
    BY <1>1, <2>1, <2>2, AnswerFacts
<1>6. answer \in {"refused", "replayed", "collision", "overflow", "admitted"}
  BY ZenonT(60), <1>1, <1>4, <1>5, AnswerFacts
<1>7. Affected(db, e, answer) \subseteq Sessions
  BY <1>1 DEF Affected, TwinSessions, Siblings, SessionsOf
<1>8. CASE answer = "replayed"
  <2>1. Affected(db, e, answer) = {}
    BY <1>8 DEF Affected
  <2>2. out.db = db
    BY <1>2, <1>3, <1>8, <2>1 DEF Quarantined, Whole
  <2>3. \E j \in DOMAIN db[s].events : db[s].events[j].intake = e
    <3>1. IsReplay(db, e)
      BY <1>1, <1>8, AnswerFacts
    <3>2. e.session = s
      BY <1>1
    <3> HIDE DEF e, s
    <3>3. QED
      BY <3>1, <3>2 DEF IsReplay
  <2>4. \A k \in 1..n : k \in 1..(n - 1) \/ c.intakes[k] = e
    OBVIOUS
  <2> HIDE DEF e, out
  <2>5. Grown(found, c, n, db)
    BY <2>3, <2>4 DEF Grown
  <2>6. QED
    BY <1>2, <1>6, <1>8, <2>2, <2>5 DEF Ran, out, e
<1>9. CASE answer = "admitted"
  <2> DEFINE new == Extended(db, e, "direct", TRUE)
             old == db[s].events
             x == [intake |-> e, source |-> "direct"]
  <2>1. /\ \A t \in Sessions \ {s} : new[t] = db[t]
        /\ new[s].events = Append(old, x)
        /\ new[s].receipts = db[s].receipts
        /\ new[s].state = IF e.kind = "session_finished" THEN "closed" ELSE "open"
        /\ new[s].ledgered = IF db[s].state = "absent" THEN IsBridge(s)
                             ELSE db[s].ledgered
        /\ db[s].degraded => new[s].degraded
    <3>1. Longer(db, e, "direct", TRUE)
      BY <1>1, <1>3, ExtendedRow
    <3>2. e.session = s
      BY <1>1
    <3> HIDE DEF e, s
    <3>3. QED
      BY <3>1, <3>2 DEF Longer
  <2>2. Whole(new)
    BY <1>1, <1>3, <1>9, ExtendedWhole
  <2>3. old \in Seq(Stored) /\ x \in Stored /\ x.intake = e
    BY <1>1, <1>3 DEF Whole, Rows, Stored, Sources
  <2> HIDE DEF x
  <2>4. /\ Len(old) \in Nat /\ Len(new[s].events) = Len(old) + 1
        /\ DOMAIN old = 1..Len(old) /\ DOMAIN new[s].events = 1..(Len(old) + 1)
        /\ \A i \in DOMAIN old : new[s].events[i] = old[i]
        /\ new[s].events[Len(old) + 1] = x
        /\ \A i \in DOMAIN new[s].events : i \in DOMAIN old \/ i = Len(old) + 1
    <3> HIDE DEF old, new
    <3>1. QED
      BY <2>1, <2>3, OneMore
  <2>5. new[s].events[Len(old) + 1].intake = e /\ Len(old) + 1 \in DOMAIN new[s].events
    <3> HIDE DEF old, new, e
    <3>1. QED
      BY <2>3, <2>4
  <2>6. /\ \A t \in Sessions \ {s} : db[t] = found[t]
        /\ db[s].receipts = found[s].receipts
        /\ db[s].state # "absent" => db[s].ledgered
        /\ found[s].degraded => db[s].degraded
        /\ Len(found[s].events) <= Len(old)
        /\ \A i \in DOMAIN found[s].events : old[i] = found[s].events[i]
        /\ \A k \in 1..(n - 1) :
              \E j \in DOMAIN old : old[j].intake = c.intakes[k]
        /\ \A j \in DOMAIN old :
              \/ j \in DOMAIN found[s].events
              \/ \E k \in DOMAIN c.intakes : c.intakes[k] = old[j].intake
    BY DEF Grown
  <2>13. DOMAIN found[s].events \subseteq DOMAIN old
    BY DEF Grown
  <2>7. \A k \in 1..n : k \in 1..(n - 1) \/ c.intakes[k] = e
    OBVIOUS
  <2> HIDE DEF e, old, new
  <2>8. \A k \in 1..n :
           \E j \in DOMAIN new[s].events : new[s].events[j].intake = c.intakes[k]
    <3>1. ASSUME NEW k \in 1..n
          PROVE  \E j \in DOMAIN new[s].events : new[s].events[j].intake = c.intakes[k]
      <4>1. CASE k \in 1..(n - 1)
        <5>1. PICK j \in DOMAIN old : old[j].intake = c.intakes[k]
          BY <2>6, <4>1
        <5>2. j \in DOMAIN new[s].events /\ new[s].events[j] = old[j]
          BY <2>4, <5>1
        <5>3. QED
          BY <5>1, <5>2
      <4>2. CASE c.intakes[k] = e
        BY <2>5, <4>2
      <4>3. QED
        BY <2>7, <4>1, <4>2
    <3>2. QED
      BY <3>1
  <2>9. \A j \in DOMAIN new[s].events :
           \/ j \in DOMAIN found[s].events
           \/ \E k \in DOMAIN c.intakes : c.intakes[k] = new[s].events[j].intake
    <3>1. e = c.intakes[n]
      BY DEF e
    <3>2. QED
      BY <1>1, <2>4, <2>5, <2>6, <3>1
  <2>10. Len(found[s].events) <= Len(new[s].events)
    BY <2>4, <2>6
  <2>11. \A i \in DOMAIN found[s].events : new[s].events[i] = found[s].events[i]
    BY <2>4, <2>6, <2>13
  <2>12. Grown(found, c, n, new)
    BY <2>1, <2>2, <2>6, <2>8, <2>9, <2>10, <2>11 DEF Grown
  <2>14. QED
    BY <1>2, <1>6, <1>9, <2>12 DEF Ran, new, e
<1>10. QED
  BY <1>2, <1>6, <1>7, <1>8, <1>9 DEF Ran

\* What the first n intakes of a chunk give, one after the other.
IsRun(run, db, c, n) ==
    run = [i \in 0..n |->
        IF i = 0
        THEN [answer |-> "admitted", affected |-> {}, db |-> db]
        ELSE IF run[i - 1].answer \in {"admitted", "replayed"}
             THEN Appended(run[i - 1].db, c.intakes[i], "direct", TRUE)
             ELSE run[i - 1]]

(* A chunk has such a run, however many intakes are in it.                 *)
LEMMA RunExists ==
    ASSUME NEW db, NEW c, NEW N \in Nat
    PROVE  \E run : IsRun(run, db, c, N)
<1> DEFINE Good == {n \in Nat : \E run : IsRun(run, db, c, n)}
           first == [answer |-> "admitted", affected |-> {}, db |-> db]
           step(out, i) == IF out.answer \in {"admitted", "replayed"}
                           THEN Appended(out.db, c.intakes[i], "direct", TRUE)
                           ELSE out
<1>0. \A run, n : IsRun(run, db, c, n) <=>
                     run = [i \in 0..n |-> IF i = 0 THEN first ELSE step(run[i - 1], i)]
  BY DEF IsRun
<1> HIDE DEF first, step
<1>1. 0 \in Good
  <2> DEFINE run == [i \in 0..0 |-> first]
  <2>1. run = [i \in 0..0 |-> IF i = 0 THEN first ELSE step(run[i - 1], i)]
    OBVIOUS
  <2> HIDE DEF run
  <2>2. IsRun(run, db, c, 0)
    BY <1>0, <2>1
  <2>3. QED
    BY <2>2
<1>2. ASSUME NEW n \in Nat, n \in Good
      PROVE  n + 1 \in Good
  <2>1. PICK run : IsRun(run, db, c, n)
    BY <1>2
  <2>2. run = [i \in 0..n |-> IF i = 0 THEN first ELSE step(run[i - 1], i)]
    BY <1>0, <2>1
  <2> DEFINE next == [i \in 0..(n + 1) |-> IF i = 0 THEN first ELSE step(run[i - 1], i)]
  <2>3. \A i \in 0..n : next[i] = run[i]
    <3>1. ASSUME NEW i \in 0..n
          PROVE  next[i] = run[i]
      <4>1. i \in 0..(n + 1)
        OBVIOUS
      <4>2. QED
        BY <2>2, <4>1
    <3>2. QED
      BY <3>1
  <2>4. ASSUME NEW i \in 0..(n + 1), i # 0
        PROVE  run[i - 1] = next[i - 1]
    <3>1. i - 1 \in 0..n
      BY <2>4
    <3>2. QED
      BY <2>3, <3>1
  <2>5. next = [i \in 0..(n + 1) |-> IF i = 0 THEN first ELSE step(next[i - 1], i)]
    BY <2>4
  <2> HIDE DEF next
  <2>6. IsRun(next, db, c, n + 1)
    BY <1>0, <2>5
  <2>7. QED
    BY <2>6
<1> HIDE DEF Good
<1>3. N \in Good
  BY <1>1, <1>2, SetInduction
<1>4. QED
  BY <1>3 DEF Good

\* What a chunk finds: its session is new, or open with a ledger.
Found(db, c) ==
    /\ Whole(db)
    /\ db[c.session].state \in {"absent", "open"}
    /\ db[c.session].state = "open" => db[c.session].ledgered

(* As the run goes, the sessions grow by the intakes it has gone through.  *)
LEMMA RunGrows ==
    ASSUME NEW found, NEW c \in Chunks, IsBridge(c.session), Found(found, c),
           NEW N \in Nat, N = Len(c.intakes), NEW run, IsRun(run, found, c, N)
    PROVE  Ran(found, c, N, run[N])
<1> DEFINE Good == {n \in Nat : n <= N => Ran(found, c, n, run[n])}
<1>1. 0 \in Good
  <2>1. run[0] = [answer |-> "admitted", affected |-> {}, db |-> found]
    BY DEF IsRun
  <2>2. Grown(found, c, 0, found)
    <3>1. found[c.session] \in Rows
      BY ChunkFacts DEF Found, Whole
    <3>2. Len(found[c.session].events) <= Len(found[c.session].events)
      BY <3>1 DEF Rows
    <3>3. QED
      BY <3>2 DEF Grown, Found
  <2>3. Ran(found, c, 0, run[0])
    BY <2>1, <2>2 DEF Ran
  <2>4. QED
    BY <2>3
<1>2. ASSUME NEW n \in Nat, n \in Good
      PROVE  n + 1 \in Good
  <2>1. SUFFICES ASSUME n + 1 <= N
                 PROVE  Ran(found, c, n + 1, run[n + 1])
    OBVIOUS
  <2>2. /\ n + 1 \in 0..N /\ n + 1 \in 1..Len(c.intakes) /\ n + 1 # 0
        /\ (n + 1) - 1 = n
    BY <2>1
  <2>3. run[n + 1] = IF run[n].answer \in {"admitted", "replayed"}
                     THEN Appended(run[n].db, c.intakes[n + 1], "direct", TRUE)
                     ELSE run[n]
    BY <2>2 DEF IsRun
  <2>4. Ran(found, c, n, run[n])
    BY <1>2, <2>1
  <2>5. CASE run[n].answer \in {"admitted", "replayed"}
    <3>1. Grown(found, c, (n + 1) - 1, run[n].db)
      BY <2>2, <2>4, <2>5 DEF Ran
    <3>2. Ran(found, c, n + 1, Appended(run[n].db, c.intakes[n + 1], "direct", TRUE))
      BY <2>2, <3>1, GrownStep
    <3>3. QED
      BY <2>3, <2>5, <3>2
  <2>6. CASE run[n].answer \notin {"admitted", "replayed"}
    BY <2>3, <2>4, <2>6 DEF Ran
  <2>7. QED
    BY <2>5, <2>6
<1> HIDE DEF Good
<1>3. N \in Good
  BY <1>1, <1>2, SetInduction
<1>4. QED
  BY <1>3 DEF Good

(* All or nothing: a chunk that nothing ended has all its intakes there.   *)
LEMMA ChunkRuns ==
    ASSUME NEW found, NEW c \in Chunks, IsBridge(c.session), Found(found, c)
    PROVE  Ran(found, c, Len(c.intakes), AppendedAll(found, c))
<1> DEFINE N == Len(c.intakes)
           run == CHOOSE x : IsRun(x, found, c, N)
<1>1. N \in Nat
  BY ChunkFacts
<1>2. IsRun(run, found, c, N)
  BY <1>1, RunExists
<1>3. AppendedAll(found, c) = run[N]
  BY DEF AppendedAll, IsRun
<1> HIDE DEF run
<1>4. QED
  BY <1>1, <1>2, <1>3, RunGrows

(* The receipt of a chunk for what its intakes led to.  No chunk of its    *)
(* batch has its place or another count.                                   *)
LEMMA ReceiptedWhole ==
    ASSUME NEW found, NEW c \in Chunks, Found(found, c), NEW db,
           Grown(found, c, Len(c.intakes), db),
           c \notin BatchMates(found, c), Contradicted(found, c) = {},
           ~ ReceiptsFull(found[c.session])
    PROVE  LET s == c.session
               new == Receipted(db, c)
           IN  /\ Whole(new)
               /\ \A t \in Sessions : t # s => new[t] = found[t]
               /\ new[s].events = db[s].events /\ new[s].state = db[s].state
               /\ new[s].degraded = db[s].degraded
               /\ new[s].ledgered
               /\ ChainVerifies(new[s], FALSE)
               /\ (~ found[s].degraded =>
                     \A i \in DOMAIN found[s].events : Covered(found[s], i))
                  => (~ new[s].degraded =>
                        \A i \in DOMAIN new[s].events : Covered(new[s], i))
<1> DEFINE s == c.session
           old == db[s].receipts
           post == Len(db[s].events)
           x == [chunk |-> c, post |-> post]
           row == [db[s] EXCEPT !.receipts = Append(old, x)]
           new == Receipted(db, c)
<1>1. /\ s \in Sessions /\ Whole(db) /\ db \in [Sessions -> Rows]
      /\ db[s] \in Rows /\ RowWhole(s, db[s]) /\ old = found[s].receipts
  BY ChunkFacts DEF Grown, Whole
<1>2. /\ old \in Seq(Receipts) /\ db[s].events \in Seq(Stored)
      /\ post \in Nat /\ DOMAIN db[s].events = 1..post /\ post <= MaxEvents
  BY <1>1 DEF Rows, RowWhole
<1>3. x \in Receipts /\ x.chunk = c /\ x.post = post
  BY <1>2, BoundsAssumption DEF Receipts
<1>4. new = [db EXCEPT ![s] = row]
  BY DEF Receipted
<1> HIDE DEF x, post
<1>5. /\ Append(old, x) \in Seq(Receipts)
      /\ Len(old) \in Nat /\ Len(Append(old, x)) = Len(old) + 1
      /\ DOMAIN old = 1..Len(old) /\ DOMAIN Append(old, x) = 1..(Len(old) + 1)
      /\ \A i \in DOMAIN old : Append(old, x)[i] = old[i]
      /\ Append(old, x)[Len(old) + 1] = x
      /\ \A i \in DOMAIN Append(old, x) : i \in DOMAIN old \/ i = Len(old) + 1
  BY <1>2, <1>3, OneMore
<1>6. /\ row \in Rows /\ row.receipts = Append(old, x)
      /\ row.events = db[s].events /\ row.state = db[s].state
      /\ row.degraded = db[s].degraded /\ row.ledgered = db[s].ledgered
  <2> DEFINE longer == Append(old, x)
  <2>1. longer \in Seq(Receipts)
    BY <1>5
  <2>2. row = [db[s] EXCEPT !.receipts = longer]
    OBVIOUS
  <2> HIDE DEF longer, row
  <2>3. /\ row \in Rows /\ row.receipts = longer
        /\ row.events = db[s].events /\ row.state = db[s].state
        /\ row.degraded = db[s].degraded /\ row.ledgered = db[s].ledgered
    BY <1>1, <2>1, <2>2 DEF Rows
  <2>4. QED
    BY <2>3 DEF longer
<1> HIDE DEF row
<1>7. new \in [Sessions -> Rows] /\ new[s] = row /\ \A t \in Sessions : t # s => new[t] = db[t]
  BY <1>1, <1>4, <1>6
<1> HIDE DEF new, old
<1>8. \A k \in DOMAIN c.intakes : \E j \in 1..post : row.events[j].intake = c.intakes[k]
  <2>1. \A k \in 1..Len(c.intakes) :
           \E j \in DOMAIN db[s].events : db[s].events[j].intake = c.intakes[k]
    BY DEF Grown
  <2>2. DOMAIN c.intakes = 1..Len(c.intakes)
    BY ChunkFacts
  <2>3. QED
    BY <1>2, <1>6, <2>1, <2>2
<1>9. row.state # "absent" /\ row.ledgered
  <2>1. \E k \in DOMAIN c.intakes : TRUE
    BY ChunkFacts
  <2>2. 1..post # {}
    BY <1>8, <2>1
  <2>3. db[s].events # <<>>
    BY <1>2, <2>2
  <2>4. db[s].state # "absent"
    BY <1>1, <2>3, NewRows DEF RowWhole
  <2>5. QED
    BY <1>6, <2>4 DEF Grown
<1>10. ReceiptsOrdered(row) /\ LastPost(row) = Len(row.events)
  <2>1. ASSUME NEW i \in DOMAIN old
        PROVE  /\ old[i].chunk.batch = c.batch =>
                     old[i].chunk.index # c.index /\ old[i].chunk.count = c.count
               /\ old[i].post \in Nat /\ old[i].post <= post
    <3>1. old[i].chunk \in ReceiptChunks(found, s)
      BY <1>1, <2>1 DEF ReceiptChunks
    <3>2. s \in Siblings(s)
      BY <1>1 DEF Siblings, SessionsOf
    <3>3. old[i].chunk.batch = c.batch => old[i].chunk \in BatchMates(found, c)
      BY <3>1, <3>2 DEF BatchMates
    <3>4. old[i].chunk.batch = c.batch =>
             old[i].chunk.index # c.index /\ old[i].chunk.count = c.count
      BY <3>3 DEF Contradicted, SamePlace
    <3>5. old[i] \in Receipts /\ ReceiptsOrdered(db[s])
      BY <1>1, <1>2, <2>1 DEF RowWhole
    <3>6. old[i].post <= post
      BY <2>1, <3>5 DEF ReceiptsOrdered, old, post
    <3>7. old[i].post \in Nat
      BY <3>5, BoundsAssumption DEF Receipts
    <3>8. QED
      BY <3>4, <3>6, <3>7
  <2>2. ASSUME NEW i \in DOMAIN row.receipts
        PROVE  /\ row.receipts[i].post <= Len(row.events)
               /\ \A j \in 1..(i - 1) :
                     /\ row.receipts[j].post <= row.receipts[i].post
                     /\ row.receipts[j].chunk.batch = row.receipts[i].chunk.batch =>
                           /\ row.receipts[j].chunk.index # row.receipts[i].chunk.index
                           /\ row.receipts[j].chunk.count = row.receipts[i].chunk.count
    <3>1. i \in Nat /\ i <= Len(old) + 1
      BY <1>5, <1>6, <2>2
    <3>2. \A j \in 1..(i - 1) : j \in DOMAIN old /\ row.receipts[j] = old[j]
      BY <1>5, <1>6, <3>1
    <3>3. CASE i \in DOMAIN old
      <4>1. row.receipts[i] = old[i] /\ ReceiptsOrdered(db[s]) /\ old = db[s].receipts
        BY <1>1, <1>5, <1>6, <3>3 DEF RowWhole, old
      <4>2. /\ old[i].post <= Len(db[s].events)
            /\ \A j \in 1..(i - 1) :
                  /\ old[j].post <= old[i].post
                  /\ old[j].chunk.batch = old[i].chunk.batch =>
                        /\ old[j].chunk.index # old[i].chunk.index
                        /\ old[j].chunk.count = old[i].chunk.count
        BY <3>3, <4>1 DEF ReceiptsOrdered
      <4>3. \A j \in 1..(i - 1) : row.receipts[j] = old[j]
        BY <3>2
      <4>4. row.events = db[s].events
        BY <1>6
      <4>5. QED
        BY <4>1, <4>2, <4>3, <4>4
    <3>4. CASE i = Len(old) + 1
      <4>1. row.receipts[i] = x
        BY <1>5, <1>6, <3>4
      <4>2. row.receipts[i].post <= Len(row.events)
        BY <1>2, <1>3, <1>6, <4>1 DEF post
      <4>3. ASSUME NEW j \in 1..(i - 1)
            PROVE  /\ row.receipts[j].post <= row.receipts[i].post
                   /\ row.receipts[j].chunk.batch = row.receipts[i].chunk.batch =>
                         /\ row.receipts[j].chunk.index # row.receipts[i].chunk.index
                         /\ row.receipts[j].chunk.count = row.receipts[i].chunk.count
        <5>1. row.receipts[j] = old[j] /\ j \in DOMAIN old
          BY <3>2
        <5>2. QED
          BY <1>3, <2>1, <4>1, <5>1
      <4>4. QED
        BY <4>2, <4>3
    <3>5. QED
      BY <1>5, <1>6, <2>2, <3>3, <3>4
  <2>3. LastPost(row) = Len(row.events)
    <3>1. row.receipts # <<>> /\ Len(row.receipts) = Len(old) + 1
      BY <1>5, <1>6
    <3>2. row.receipts[Len(row.receipts)] = x
      BY <1>5, <1>6, <3>1
    <3>3. QED
      BY <1>3, <1>6, <3>1, <3>2 DEF LastPost, post
  <2>4. QED
    BY <2>2, <2>3 DEF ReceiptsOrdered
<1>11. ChainVerifies(row, FALSE)
  BY <1>9, <1>10 DEF ChainVerifies
<1>12. Backed(s, row)
  <2>1. ASSUME NEW i \in DOMAIN row.receipts
        PROVE  /\ row.receipts[i].chunk.session = s
               /\ \A k \in DOMAIN row.receipts[i].chunk.intakes :
                     \E j \in 1..row.receipts[i].post :
                         row.events[j].intake = row.receipts[i].chunk.intakes[k]
    <3>1. CASE i \in DOMAIN old
      <4>1. row.receipts[i] = db[s].receipts[i] /\ i \in DOMAIN db[s].receipts
        BY <1>5, <1>6, <3>1 DEF old
      <4>2. Backed(s, db[s]) /\ row.events = db[s].events
        BY <1>1, <1>6 DEF RowWhole
      <4>3. /\ db[s].receipts[i].chunk.session = s
            /\ \A k \in DOMAIN db[s].receipts[i].chunk.intakes :
                  \E j \in 1..db[s].receipts[i].post :
                     db[s].events[j].intake = db[s].receipts[i].chunk.intakes[k]
        BY <4>1, <4>2 DEF Backed
      <4>4. QED
        BY <4>1, <4>2, <4>3
    <3>2. CASE i = Len(old) + 1
      <4>1. row.receipts[i] = x
        BY <1>5, <1>6, <3>2
      <4>2. QED
        BY <1>3, <1>8, <4>1
    <3>3. QED
      BY <1>5, <1>6, <2>1, <3>1, <3>2
  <2>2. QED
    BY <2>1 DEF Backed
<1>13. Len(row.receipts) <= MaxReceipts
  <2>1. Len(old) < MaxReceipts
    BY <1>1, <1>5, BoundsAssumption DEF ReceiptsFull
  <2>2. QED
    BY <1>5, <1>6, <2>1, BoundsAssumption
<1>14. RowWhole(s, row)
  <2>1. Formed(s, row)
    <3>1. Formed(s, db[s])
      BY <1>1 DEF RowWhole
    <3>2. row.state = db[s].state /\ row.events = db[s].events
      BY <1>6
    <3>3. QED
      BY <3>1, <3>2 DEF Formed
  <2>2. ~ row.degraded => \A i \in DOMAIN row.events : row.events[i].intake.captured
    BY <1>1, <1>6 DEF RowWhole
  <2>3. Len(row.events) <= MaxEvents /\ (row.ledgered => IsBridge(s))
    BY <1>1, <1>6 DEF RowWhole
  <2>4. QED
    BY <1>9, <1>10, <1>12, <1>13, <2>1, <2>2, <2>3 DEF RowWhole
<1>15. Whole(new)
  <2>1. \A t \in Sessions : RowWhole(t, new[t]) /\ new[t].events = db[t].events
    BY <1>1, <1>6, <1>7, <1>14 DEF Whole
  <2>2. Distinct(new)
    BY <1>1, <2>1 DEF Whole, Distinct
  <2>3. QED
    BY <1>7, <2>1, <2>2 DEF Whole
<1>16. \A i \in DOMAIN row.events :
          \/ i \in DOMAIN found[s].events
          \/ Covered(row, i)
  <2>1. ASSUME NEW i \in DOMAIN row.events, i \notin DOMAIN found[s].events
        PROVE  Covered(row, i)
    <3>1. PICK k \in DOMAIN c.intakes : c.intakes[k] = row.events[i].intake
      BY <1>6, <2>1 DEF Grown
    <3>2. Len(old) + 1 \in DOMAIN row.receipts /\ row.receipts[Len(old) + 1].chunk = c
      BY <1>3, <1>5, <1>6
    <3>3. QED
      BY <3>1, <3>2 DEF Covered
  <2>2. QED
    BY <2>1
<1>17. \A i \in DOMAIN found[s].events : Covered(found[s], i) => Covered(row, i)
  <2>1. ASSUME NEW i \in DOMAIN found[s].events, Covered(found[s], i)
        PROVE  Covered(row, i)
    <3>1. row.events[i] = found[s].events[i]
      BY <1>6, <2>1 DEF Grown
    <3>2. PICK r \in DOMAIN old : \E k \in DOMAIN old[r].chunk.intakes :
                    old[r].chunk.intakes[k] = found[s].events[i].intake
      BY <1>1, <2>1 DEF Covered
    <3>3. r \in DOMAIN row.receipts /\ row.receipts[r] = old[r]
      BY <1>5, <1>6, <3>2
    <3>4. QED
      BY <3>1, <3>2, <3>3 DEF Covered
  <2>2. QED
    BY <2>1
<1>18. \A t \in Sessions : t # s => new[t] = found[t]
  BY <1>7 DEF Grown
<1>19. found[s].degraded => row.degraded
  BY <1>6 DEF Grown
<1>20. (~ found[s].degraded => \A i \in DOMAIN found[s].events : Covered(found[s], i))
       => (~ row.degraded => \A i \in DOMAIN row.events : Covered(row, i))
  BY <1>16, <1>17, <1>19
<1>21. QED
  BY <1>6, <1>7, <1>9, <1>11, <1>15, <1>18, <1>20 DEF new

(* ------------------------------ admission ------------------------------ *)

\* What an admission keeps of a session: what was lost, and that it was there.
Kept(old, new) ==
    /\ old.degraded => new.degraded
    /\ old.state = "quarantined" => new.state = "quarantined"
    /\ old.state = "closed" => new.state # "open"
    /\ old.state = "deleting" <=> new.state = "deleting"
    /\ old.state # "absent" => new.state # "absent"

\* At most one session has new events, after those it had.
Grew(s) ==
    /\ \A t \in Sessions : t # s => session'[t].events = session[t].events
    /\ \/ session'[s].events = session[s].events
       \/ /\ ~ Barred(session, s) /\ connection[ConnectionOf[s]] # "deleting"
          /\ Len(session[s].events) < Len(session'[s].events)
          /\ \A i \in DOMAIN session[s].events :
                session'[s].events[i] = session[s].events[i]

\* No admission of a store without legacy sessions finds anything tampered with.
Quiet ==
    NoLegacyRows =>
        /\ alarm' = alarm
        /\ \A t \in Sessions : session'[t].state # "absent" =>
              session'[t].ledgered = IsBridge(t)

\* The step of an admission that is about session s.
Admitted(s) ==
    /\ UNCHANGED <<connection, tombstones, deletion>> /\ alarm' \in BOOLEAN
    /\ Whole(session')
    /\ \A t \in Sessions : Sealed(session'[t]) /\ Kept(session[t], session'[t])
    /\ Grew(s)
    /\ Quiet

(* A quarantined session is vouched for with what it was vouched for.      *)
LEMMA QuarantinedSeal ==
    ASSUME NEW db, Whole(db), NEW affected, NEW s \in Sessions, Sealed(db[s])
    PROVE  Sealed(Quarantined(db, affected)[s])
<1> DEFINE new == Quarantined(db, affected)[s]
<1>1. db[s] \in Rows /\ RowWhole(s, db[s])
  BY DEF Whole
<1>2. /\ new \in Rows /\ new.events = db[s].events /\ new.receipts = db[s].receipts
      /\ s \notin affected => new = db[s]
      /\ s \in affected =>
           /\ new.degraded
           /\ new.ledgered = IF db[s].state = "absent" THEN IsBridge(s)
                             ELSE db[s].ledgered
  BY QuarantinedRow
<1> HIDE DEF new
<1>3. CASE s \notin affected
  BY <1>2, <1>3 DEF new
<1>4. CASE s \in affected /\ db[s].state # "absent"
  <2>1. Sealed(new)
    BY <1>1, <1>2, <1>4, SameSeal
  <2>2. QED
    BY <2>1 DEF new
<1>5. CASE s \in affected /\ db[s].state = "absent"
  <2>1. new.events = <<>> /\ new.receipts = <<>>
    BY <1>1, <1>2, <1>5, NewRows DEF RowWhole
  <2>2. Len(new.events) = 0 /\ DOMAIN new.events = {} /\ DOMAIN new.receipts = {}
    BY <2>1
  <2>3. ChainVerifies(new, FALSE)
    BY <2>1, <2>2 DEF ChainVerifies, ReceiptsOrdered, LastPost
  <2>4. Sealed(new)
    BY <2>2, <2>3 DEF Sealed
  <2>5. QED
    BY <2>4 DEF new
<1>6. QED
  BY <1>3, <1>4, <1>5

\* What a transaction that quarantines reads: the sessions as they are, but for
\* the ledger that the first chunk gave to a legacy one.
Read(db, s) ==
    /\ Whole(db)
    /\ \A t \in Sessions :
          /\ db[t].events = session[t].events /\ db[t].receipts = session[t].receipts
          /\ db[t].state = session[t].state
          /\ session[t].degraded => db[t].degraded
          /\ t # s => db[t] = session[t]
    /\ \/ db[s] = session[s]
       \/ /\ db[s].degraded /\ ~ session[s].ledgered /\ session[s].state = "open"
          /\ IsBridge(s)

(* The sessions as they are are such a db, and so is what an upgrade makes *)
(* of them.                                                                *)
LEMMA Reads ==
    ASSUME Inv, NEW s \in Sessions
    PROVE  Read(session, s) /\ (IsBridge(s) => Read(Upgraded(session, s), s))
<1>1. Whole(session)
  BY DEF Inv
<1>2. Read(session, s)
  BY <1>1 DEF Read
<1>3. ASSUME IsBridge(s) PROVE Read(Upgraded(session, s), s)
  <2> DEFINE db == Upgraded(session, s)
  <2>1. /\ Whole(db)
        /\ \A t \in Sessions :
              /\ db[t].events = session[t].events
              /\ db[t].receipts = session[t].receipts
              /\ db[t].state = session[t].state
              /\ session[t].degraded => db[t].degraded
              /\ t # s => db[t] = session[t]
        /\ \/ db[s] = session[s]
           \/ db[s].degraded /\ ~ session[s].ledgered /\ session[s].state = "open"
    BY <1>1, <1>3, UpgradedWhole
  <2> HIDE DEF db
  <2>2. Read(db, s)
    BY <1>3, <2>1 DEF Read
  <2>3. QED
    BY <2>2 DEF db
<1>4. QED
  BY <1>2, <1>3

(* A quarantine that is committed, of sessions that are not barred.        *)
LEMMA QuarantineAdmits ==
    ASSUME Inv, NEW s \in Sessions, NEW affected, NEW db, Read(db, s),
           \A t \in affected : ~ Barred(session, t),
           db[s] # session[s] => ChainVerifies(Quarantined(db, affected)[s], FALSE),
           UNCHANGED <<connection, tombstones, deletion, alarm>>,
           session' = Quarantined(db, affected)
    PROVE  Admitted(s)
<1> DEFINE new == Quarantined(db, affected)
<1>1. Whole(db) /\ Whole(session) /\ \A t \in Sessions : Sealed(session[t])
  BY DEF Inv, Read
<1>2. Whole(new)
  BY <1>1, QuarantinedWhole
<1>3. \A t \in Sessions :
        /\ new[t].events = db[t].events /\ new[t].receipts = db[t].receipts
        /\ t \notin affected => new[t] = db[t]
        /\ t \in affected =>
             /\ new[t].state = "quarantined" /\ new[t].degraded
             /\ new[t].ledgered = IF db[t].state = "absent" THEN IsBridge(t)
                                  ELSE db[t].ledgered
  BY <1>1, QuarantinedRow
<1>4. \A t \in Sessions : db[t] = session[t] => Sealed(new[t])
  BY <1>1, QuarantinedSeal
<1>5. session' = new
  OBVIOUS
<1> HIDE DEF new
<1>6. ASSUME NEW t \in Sessions
      PROVE  Sealed(new[t])
  <2>1. CASE db[t] = session[t]
    BY <1>4, <2>1
  <2>2. CASE db[t] # session[t]
    <3>1. t = s /\ db[s].degraded
      BY <2>2 DEF Read
    <3>2. ChainVerifies(new[s], FALSE)
      BY <2>2, <3>1 DEF new
    <3>3. new[s].degraded
      BY <1>3, <3>1
    <3>4. QED
      BY <3>1, <3>2, <3>3 DEF Sealed
  <2>3. QED
    BY <2>1, <2>2
<1>7. ASSUME NEW t \in Sessions
      PROVE  Kept(session[t], new[t])
  <2>1. CASE t \in affected
    <3>1. session[t].state # "deleting"
      BY <2>1 DEF Barred
    <3>2. QED
      BY <1>3, <2>1, <3>1 DEF Kept
  <2>2. CASE t \notin affected
    <3>1. new[t] = db[t] /\ db[t].state = session[t].state
          /\ (session[t].degraded => db[t].degraded)
      BY <1>3, <2>2 DEF Read
    <3>2. QED
      BY <3>1 DEF Kept
  <2>3. QED
    BY <2>1, <2>2
<1>8. \A t \in Sessions : session'[t].events = session[t].events
  BY <1>3, <1>5 DEF Read
<1>9. Grew(s)
  BY <1>8 DEF Grew
<1>10. ASSUME NoLegacyRows, NEW t \in Sessions, new[t].state # "absent"
       PROVE  new[t].ledgered = IsBridge(t)
  <2>1. db[t] = session[t]
    BY <1>10 DEF NoLegacyRows, Read
  <2>2. QED
    BY <1>3, <1>10, <2>1 DEF NoLegacyRows
<1>11. Quiet
  BY <1>5, <1>10 DEF Quiet
<1>12. alarm' \in BOOLEAN
  BY DEF Inv, Vars
<1>13. QED
  BY <1>2, <1>5, <1>6, <1>7, <1>9, <1>11, <1>12 DEF Admitted

(* A step that changes no session, and raises no alarm that NothingTampered *)
(* would forbid.                                                            *)
LEMMA SessionsStay ==
    ASSUME Inv, NEW s \in Sessions, UNCHANGED <<connection, tombstones, deletion, session>>,
           alarm' \in BOOLEAN, NoLegacyRows => alarm' = alarm
    PROVE  Admitted(s)
<1>1. Whole(session) /\ \A t \in Sessions : Sealed(session[t])
  BY DEF Inv
<1>2. \A t \in Sessions : Kept(session[t], session[t])
  BY DEF Kept
<1>3. Grew(s)
  BY DEF Grew
<1>4. Quiet
  BY DEF Quiet, NoLegacyRows
<1>5. QED
  BY <1>1, <1>2, <1>3, <1>4 DEF Admitted

(* A quarantine by append_transport_chunk, which verifies what it leaves:  *)
(* only the events of a legacy session, which no receipt covers, fail it.  *)
LEMMA SettleAdmits ==
    ASSUME Inv, NEW s \in Sessions, NEW affected, NEW db, Read(db, s),
           \A t \in Sessions : Barred(db, t) = Barred(session, t),
           affected \subseteq Sessions, Settle(db, affected, s),
           UNCHANGED <<connection, tombstones, deletion>>
    PROVE  Admitted(s)
<1> DEFINE new == Quarantined(db, affected)
<1>1. \A t \in affected : ~ Barred(session, t)
  BY DEF Settle
<1>2. CASE ChainVerifies(new[s], FALSE)
  <2>1. session' = new /\ alarm' = alarm
    BY <1>2 DEF Settle, CommitVerified, Commit
  <2>2. QED
    BY <1>1, <1>2, <2>1, QuarantineAdmits
<1>3. CASE ~ ChainVerifies(new[s], FALSE)
  <2>1. session' = session /\ alarm' = TRUE
    BY <1>3 DEF Settle, CommitVerified, Fail
  <2>2. ~ NoLegacyRows
    <3>1. SUFFICES ASSUME NoLegacyRows PROVE FALSE
      OBVIOUS
    <3>2. db[s] = session[s]
      BY <3>1 DEF Read, NoLegacyRows
    <3>3. Sealed(new[s])
      BY <3>2, QuarantinedSeal DEF Inv, Read
    <3>4. QED
      BY <1>3, <3>3 DEF Sealed
  <2>3. QED
    BY <2>1, <2>2, SessionsStay
<1>4. QED
  BY <1>2, <1>3

(* The event of a hook, or of a drain: a bridge session gets one only from *)
(* a drain, and is degraded by it.                                         *)
LEMMA ExtendedSeal ==
    ASSUME NEW db, Whole(db), NEW e \in Intakes, NEW source \in Sources,
           Answer(db, e, source, FALSE) = "admitted", Sealed(db[e.session])
    PROVE  Sealed(Extended(db, e, source, FALSE)[e.session])
<1> DEFINE s == e.session
           new == Extended(db, e, source, FALSE)[s]
           old == db[s].events
           x == [intake |-> e, source |-> source]
<1>1. s \in Sessions /\ x \in Stored /\ x.source = source
  BY IntakesAssumption DEF Stored
<1>2. db[s] \in Rows /\ RowWhole(s, db[s]) /\ old \in Seq(Stored)
  BY <1>1 DEF Whole, Rows
<1>3. /\ new.events = Append(old, x) /\ new.receipts = db[s].receipts
      /\ new.ledgered = IF db[s].state = "absent" THEN IsBridge(s) ELSE db[s].ledgered
      /\ new.degraded <=> \/ db[s].degraded \/ ~ e.captured
                          \/ IsFallback(e, source, FALSE)
  <2>1. Longer(db, e, source, FALSE)
    BY ExtendedRow
  <2>2. QED
    BY <2>1 DEF Longer
<1>4. RowWhole(s, new) /\ new \in Rows
  BY <1>1, ExtendedWhole DEF Whole
<1>5. /\ Len(old) \in Nat /\ Len(new.events) = Len(old) + 1
      /\ DOMAIN old = 1..Len(old) /\ DOMAIN new.events = 1..(Len(old) + 1)
      /\ \A i \in DOMAIN old : new.events[i] = old[i]
      /\ new.events[Len(old) + 1] = x
      /\ \A i \in DOMAIN new.events : i \in DOMAIN old \/ i = Len(old) + 1
  <2> HIDE DEF x, old, new
  <2>1. QED
    BY <1>1, <1>2, <1>3, OneMore
<1>6. IsBridge(s) => source = "spool_drain"
  <2>1. IsBridge(s) /\ source = "direct" => FALSE
    BY AnswerFacts
  <2>2. QED
    BY <2>1 DEF Sources
<1> HIDE DEF new, x, old, s
<1>7. CASE ~ new.ledgered
  <2>1. Sealed(new)
    BY <1>4, <1>7 DEF RowWhole, Sealed, ChainVerifies
  <2>2. QED
    BY <2>1 DEF new, s
<1>8. CASE new.ledgered
  <2>1. source = "spool_drain"
    BY <1>4, <1>6, <1>8 DEF RowWhole
  <2>2. new.degraded
    <3>1. IsBridge(s)
      BY <1>4, <1>8 DEF RowWhole
    <3>2. IsFallback(e, source, FALSE)
      BY <2>1, <3>1 DEF IsFallback, s
    <3>3. QED
      BY <1>3, <3>2
  <2>3. ReceiptsOrdered(new)
    BY <1>4 DEF RowWhole
  <2>4. LastPost(new) = LastPost(db[s])
    BY <1>3 DEF LastPost
  <2>5. \/ LastPost(db[s]) = Len(old)
        \/ \A i \in (LastPost(db[s]) + 1)..Len(old) : old[i].source = "spool_drain"
    <3>1. CASE db[s].state = "absent"
      <4>1. old = <<>> /\ db[s].receipts = <<>>
        BY <1>1, <1>2, <3>1, NewRows DEF RowWhole, old
      <4>2. LastPost(db[s]) = 0 /\ Len(old) = 0
        BY <4>1 DEF LastPost
      <4>3. QED
        BY <4>2
    <3>2. CASE db[s].state # "absent"
      <4>1. db[s].ledgered
        BY <1>3, <1>8, <3>2
      <4>2. ChainVerifies(db[s], FALSE)
        BY DEF Sealed, s
      <4>3. QED
        BY <4>1, <4>2 DEF ChainVerifies, old
    <3>3. QED
      BY <3>1, <3>2
  <2>6. LastPost(db[s]) \in Nat
    <3>1. db[s].receipts \in Seq(Receipts)
      BY <1>2 DEF Rows
    <3>2. CASE db[s].receipts = <<>>
      BY <3>2 DEF LastPost
    <3>3. CASE db[s].receipts # <<>>
      <4>1. Len(db[s].receipts) \in DOMAIN db[s].receipts
        BY <3>1, <3>3
      <4>2. db[s].receipts[Len(db[s].receipts)] \in Receipts
        BY <3>1, <4>1
      <4>3. QED
        BY <3>3, <4>2, BoundsAssumption DEF LastPost, Receipts
    <3>4. QED
      BY <3>2, <3>3
  <2>7. ASSUME NEW i \in (LastPost(new) + 1)..Len(new.events)
        PROVE  new.events[i].source = "spool_drain"
    <3>1. CASE i = Len(old) + 1
      BY <1>1, <1>5, <2>1, <3>1
    <3>2. CASE i # Len(old) + 1
      <4>1. i \in (LastPost(db[s]) + 1)..Len(old) /\ i \in DOMAIN old
        BY <1>5, <2>4, <2>6, <3>2
      <4>2. LastPost(db[s]) # Len(old)
        BY <1>5, <2>6, <4>1
      <4>3. QED
        BY <1>5, <2>5, <4>1, <4>2
    <3>3. QED
      BY <3>1, <3>2
  <2>8. ChainVerifies(new, FALSE)
    BY <1>8, <2>2, <2>3, <2>7 DEF ChainVerifies
  <2>9. QED
    BY <2>2, <2>8 DEF Sealed, new, s
<1>9. QED
  BY <1>7, <1>8 DEF Sealed, new, s

(* append, whatever it answers.                                            *)
LEMMA AppendAdmits ==
    ASSUME Inv, NEW e \in Intakes, NEW source \in Sources, AppendIntake(e, source)
    PROVE  Admitted(e.session)
<1> DEFINE s == e.session
           answer == Answer(session, e, source, FALSE)
           affected == Affected(session, e, answer)
           out == Appended(session, e, source, FALSE)
<1>1. s \in Sessions
  BY IntakesAssumption
<1>2. Whole(session) /\ \A t \in Sessions : Sealed(session[t])
  BY DEF Inv
<1>3. /\ out.answer = answer
      /\ out.db = IF answer = "admitted" THEN Extended(session, e, source, FALSE)
                  ELSE Quarantined(session, affected)
  BY DEF Appended
<1>4. answer # "unverified"
  <2>1. \A t \in TwinSessions(session, e) \cup {e.session} : t \in Sessions
    BY <1>1 DEF TwinSessions, Siblings, SessionsOf
  <2>2. \A t \in Sessions : ChainVerifies(session[t], FALSE)
    BY <1>2 DEF Sealed
  <2>3. QED
    BY <2>1, <2>2, AnswerFacts
<1>5. /\ session' = out.db /\ alarm' = alarm
      /\ UNCHANGED <<connection, tombstones, deletion>>
  BY <1>3, <1>4 DEF AppendIntake, Commit
<1>6. CASE answer # "admitted"
  <2>1. affected \subseteq TwinSessions(session, e) \cup {s}
    BY DEF Affected
  <2>2. affected # {} => answer # "refused"
    BY DEF Affected
  <2>3. \A t \in affected : ~ Barred(session, t)
    BY <2>1, <2>2, AnswerFacts
  <2>4. session' = Quarantined(session, affected)
    BY <1>3, <1>5, <1>6
  <2>5. Read(session, s)
    BY <1>1, Reads
  <2> HIDE DEF affected, s
  <2>6. Admitted(s)
    BY <1>1, <1>5, <2>3, <2>4, <2>5, QuarantineAdmits
  <2>7. QED
    BY <2>6 DEF s
<1>7. CASE answer = "admitted"
  <2> DEFINE db == Extended(session, e, source, FALSE)
             new == db[s]
             old == session[s].events
             x == [intake |-> e, source |-> source]
  <2>1. session' = db
    BY <1>3, <1>5, <1>7
  <2>2. /\ \A t \in Sessions \ {s} : db[t] = session[t]
        /\ new.events = Append(old, x)
        /\ new.state = IF e.kind = "session_finished" THEN "closed" ELSE "open"
        /\ new.ledgered = IF session[s].state = "absent" THEN IsBridge(s)
                          ELSE session[s].ledgered
        /\ new.degraded <=> \/ session[s].degraded \/ ~ e.captured
                            \/ IsFallback(e, source, FALSE)
    <3>1. Longer(session, e, source, FALSE)
      BY <1>2, ExtendedRow
    <3>2. QED
      BY <3>1 DEF Longer
  <2>3. Whole(db) /\ Sealed(new)
    BY <1>1, <1>2, <1>7, ExtendedWhole, ExtendedSeal
  <2>4. old \in Seq(Stored) /\ x \in Stored
    BY <1>1, <1>2 DEF Whole, Rows, Stored
  <2>5. /\ connection[ConnectionOf[s]] \notin {"absent", "deleting"}
        /\ ~ Barred(session, s) /\ ~ Ended(session[s])
    BY <1>7, AnswerFacts
  <2> HIDE DEF db, new, x, old, s
  <2>6. /\ Len(old) \in Nat /\ Len(new.events) = Len(old) + 1
        /\ \A i \in DOMAIN old : new.events[i] = old[i]
    BY <2>2, <2>4, OneMore
  <2>7. Kept(session[s], new)
    BY <2>2, <2>5 DEF Kept, Barred, Ended
  <2>8. \A t \in Sessions : Sealed(db[t]) /\ Kept(session[t], db[t])
    <3>1. \A t \in Sessions \ {s} : Kept(session[t], db[t])
      BY <2>2 DEF Kept
    <3>2. QED
      BY <1>2, <2>2, <2>3, <2>7, <3>1 DEF new
  <2>9. Grew(s)
    <3>1. Len(old) < Len(new.events)
      BY <2>6
    <3>2. \A t \in Sessions : t # s => db[t].events = session[t].events
      BY <2>2
    <3>3. QED
      BY <2>1, <2>5, <2>6, <3>1, <3>2 DEF Grew, new, old
  <2>10. Quiet
    <3>1. ASSUME NoLegacyRows, NEW t \in Sessions, db[t].state # "absent"
          PROVE  db[t].ledgered = IsBridge(t)
      BY <2>2, <3>1 DEF NoLegacyRows, new
    <3>2. QED
      BY <1>5, <2>1, <3>1 DEF Quiet
  <2>11. alarm' \in BOOLEAN
    BY <1>5 DEF Inv, Vars
  <2>12. Admitted(s)
    BY <1>5, <2>1, <2>3, <2>8, <2>9, <2>10, <2>11 DEF Admitted
  <2>13. QED
    BY <2>12 DEF s
<1>8. QED
  BY <1>6, <1>7

(* mark_session_health: a new session is quarantined, another degraded.    *)
LEMMA MarkHealthAdmits ==
    ASSUME Inv, NEW s \in Sessions, MarkHealth(s)
    PROVE  Admitted(s)
<1>1. Whole(session) /\ \A t \in Sessions : Sealed(session[t])
  BY DEF Inv
<1>2. /\ UNCHANGED <<connection, tombstones, deletion>> /\ ~ Barred(session, s)
      /\ ChainVerifies(session[s], FALSE)
  BY <1>1 DEF MarkHealth, Sealed
<1>3. CASE session[s].state = "absent"
  <2> DEFINE affected == {s}
  <2>1. session' = Quarantined(session, affected) /\ alarm' = alarm
    BY <1>3 DEF MarkHealth, Commit
  <2>2. Read(session, s)
    BY Reads
  <2>3. \A t \in affected : ~ Barred(session, t)
    BY <1>2
  <2> HIDE DEF affected
  <2>4. QED
    BY <1>2, <2>1, <2>2, <2>3, QuarantineAdmits
<1>4. CASE session[s].state # "absent"
  <2> DEFINE row == [session[s] EXCEPT !.degraded = TRUE]
             db == [session EXCEPT ![s] = row]
  <2>1. session' = db /\ alarm' = alarm
    BY <1>2, <1>4 DEF MarkHealth, Commit
  <2>2. session \in [Sessions -> Rows] /\ session[s] \in Rows /\ RowWhole(s, session[s])
    BY <1>1 DEF Whole
  <2>3. /\ row \in Rows /\ row.state = session[s].state /\ row.degraded
        /\ row.ledgered = session[s].ledgered
        /\ row.events = session[s].events /\ row.receipts = session[s].receipts
    BY <2>2 DEF Rows
  <2> HIDE DEF row
  <2>4. /\ db \in [Sessions -> Rows] /\ db[s] = row
        /\ \A t \in Sessions : t # s => db[t] = session[t]
    BY <2>2, <2>3
  <2> HIDE DEF db
  <2>5. Sealed(row)
    BY <1>1, <2>2, <2>3, SameSeal
  <2>6. RowWhole(s, row)
    <3>1. row.ledgered => IsBridge(s)
      BY <2>2, <2>3 DEF RowWhole
    <3>2. QED
      BY <1>4, <2>2, <2>3, <3>1, SameEvidence
  <2>7. \A t \in Sessions : db[t].events = session[t].events
    BY <2>3, <2>4
  <2>8. Distinct(db)
    BY <1>1, <2>7 DEF Whole, Distinct
  <2>9. Whole(db) /\ \A t \in Sessions : Sealed(db[t])
    BY <1>1, <2>4, <2>5, <2>6, <2>8 DEF Whole
  <2>10. \A t \in Sessions : Kept(session[t], db[t])
    BY <2>3, <2>4 DEF Kept
  <2>11. Grew(s)
    BY <2>1, <2>7 DEF Grew
  <2>12. Quiet
    BY <2>1, <2>3, <2>4 DEF Quiet, NoLegacyRows
  <2>13. alarm' \in BOOLEAN
    BY <2>1 DEF Inv, Vars
  <2>14. QED
    BY <1>2, <2>1, <2>9, <2>10, <2>11, <2>12, <2>13 DEF Admitted
<1>5. QED
  BY <1>3, <1>4

(* A chunk that is there already: all its intakes are there too.           *)
LEMMA ChunkReplayedAdmits ==
    ASSUME Inv, NEW c \in Chunks, ChunkReplayed(c)
    PROVE  Admitted(c.session)
<1> DEFINE s == c.session
<1>1. Whole(session) /\ \A t \in Sessions : Sealed(session[t])
  BY DEF Inv
<1>2. s \in Sessions
  BY ChunkFacts
<1>3. UNCHANGED <<connection, tombstones, deletion>> /\ c \in BatchMates(session, c)
  BY DEF ChunkReplayed
<1>4. PICK t \in Siblings(s) : c \in ReceiptChunks(session, t)
  BY <1>3 DEF BatchMates
<1>5. PICK i \in DOMAIN session[t].receipts : session[t].receipts[i].chunk = c
  BY <1>4 DEF ReceiptChunks
<1>6. /\ t \in Sessions /\ session[t] \in Rows /\ RowWhole(t, session[t])
      /\ session[t].receipts \in Seq(Receipts) /\ session[t].events \in Seq(Stored)
  BY <1>1, <1>4 DEF Siblings, SessionsOf, Whole, Rows
<1>7. t = s
  BY <1>5, <1>6 DEF RowWhole, Backed
<1>8. ASSUME NEW k \in DOMAIN c.intakes
      PROVE  IsReplay(session, c.intakes[k])
  <2>1. PICK j \in 1..session[t].receipts[i].post :
            session[t].events[j].intake = c.intakes[k]
    BY <1>5, <1>6, <1>8 DEF RowWhole, Backed
  <2>2. session[t].receipts[i] \in Receipts
    BY <1>5, <1>6
  <2>3. session[t].receipts[i].post \in Nat
        /\ session[t].receipts[i].post <= Len(session[t].events)
    BY <1>5, <1>6, <2>2, BoundsAssumption DEF Receipts, RowWhole, ReceiptsOrdered
  <2>4. j \in DOMAIN session[t].events
    BY <1>6, <2>3
  <2>5. c.intakes[k].session = s
    BY <1>8, ChunkFacts
  <2>6. QED
    BY <1>7, <2>1, <2>4, <2>5 DEF IsReplay
<1>9. ChainVerifies(session[s], FALSE)
  BY <1>1, <1>2 DEF Sealed
<1>10. session' = session /\ alarm' = alarm
  BY <1>8, <1>9 DEF ChunkReplayed, Commit
<1>11. alarm' \in BOOLEAN
  BY <1>10 DEF Inv, Vars
<1>12. QED
  BY <1>2, <1>3, <1>10, <1>11, SessionsStay

(* The chunks that end in a quarantine, or in nothing.                     *)
LEMMA ChunkContradictsAdmits ==
    ASSUME Inv, NEW c \in Chunks, ChunkContradicts(c)
    PROVE  Admitted(c.session)
<1> DEFINE s == c.session
           affected == {s} \cup {d.session : d \in Contradicted(session, c)}
<1>1. s \in Sessions /\ Whole(session)
  BY ChunkFacts DEF Inv
<1>2. Settle(session, affected, s) /\ UNCHANGED <<connection, tombstones, deletion>>
  BY DEF ChunkContradicts
<1>3. affected \subseteq Sessions
  <2>1. Contradicted(session, c) \subseteq BatchMates(session, c)
    BY DEF Contradicted, SamePlace
  <2>2. ASSUME NEW d \in BatchMates(session, c)
        PROVE  d.session \in Sessions
    <3>1. PICK t \in Siblings(s) : d \in ReceiptChunks(session, t)
      BY <2>2 DEF BatchMates
    <3>2. PICK i \in DOMAIN session[t].receipts : session[t].receipts[i].chunk = d
      BY <3>1 DEF ReceiptChunks
    <3>3. t \in Sessions /\ RowWhole(t, session[t])
      BY <1>1, <3>1 DEF Siblings, SessionsOf, Whole
    <3>4. QED
      BY <3>2, <3>3 DEF RowWhole, Backed
  <2>3. QED
    BY <1>1, <2>1, <2>2
<1>4. Read(session, s)
  BY <1>1, Reads
<1> HIDE DEF affected, s
<1>5. Admitted(s)
  BY <1>1, <1>2, <1>3, <1>4, SettleAdmits
<1>6. QED
  BY <1>5 DEF s

(* A chunk for a closed session quarantines it.                            *)
LEMMA ChunkAfterCloseAdmits ==
    ASSUME Inv, NEW c \in Chunks, ChunkAfterClose(c)
    PROVE  Admitted(c.session)
<1> DEFINE s == c.session
           affected == {s}
<1>1. s \in Sessions
  BY ChunkFacts
<1>2. Settle(session, affected, s) /\ UNCHANGED <<connection, tombstones, deletion>>
  BY DEF ChunkAfterClose
<1>3. affected \subseteq Sessions /\ Read(session, s)
  BY <1>1, Reads
<1> HIDE DEF affected, s
<1>4. Admitted(s)
  BY <1>1, <1>2, <1>3, SettleAdmits
<1>5. QED
  BY <1>4 DEF s

(* A chunk that finds no room for its receipt quarantines its session, with*)
(* the ledger it may have got just before.                                 *)
LEMMA ChunkOverflowsAdmits ==
    ASSUME Inv, NEW c \in Chunks, IsBridge(c.session), ChunkOverflows(c)
    PROVE  Admitted(c.session)
<1> DEFINE s == c.session
           affected == {s}
           db == Upgraded(session, s)
<1>1. s \in Sessions
  BY ChunkFacts
<1>2. Settle(db, affected, s) /\ UNCHANGED <<connection, tombstones, deletion>>
  BY DEF ChunkOverflows
<1>3. affected \subseteq Sessions /\ Read(db, s)
  BY <1>1, Reads
<1> HIDE DEF affected, s, db
<1>4. \A t \in Sessions : Barred(db, t) = Barred(session, t)
  BY <1>3 DEF Read, Barred
<1>5. Admitted(s)
  BY <1>1, <1>2, <1>3, <1>4, SettleAdmits
<1>6. QED
  BY <1>5 DEF s

\* What the chunks of a batch say of this one depends on the receipts only.
LEMMA SameMates ==
    ASSUME NEW c, NEW db, \A t \in Sessions : db[t].receipts = session[t].receipts
    PROVE  /\ BatchMates(db, c) = BatchMates(session, c)
           /\ Contradicted(db, c) = Contradicted(session, c)
<1>1. \A t \in Sessions : ReceiptChunks(db, t) = ReceiptChunks(session, t)
  BY DEF ReceiptChunks
<1>2. BatchMates(db, c) = BatchMates(session, c)
  <2>1. \A t \in Siblings(c.session) : ReceiptChunks(db, t) = ReceiptChunks(session, t)
    BY <1>1 DEF Siblings, SessionsOf
  <2>2. {ReceiptChunks(db, t) : t \in Siblings(c.session)}
        = {ReceiptChunks(session, t) : t \in Siblings(c.session)}
    BY <2>1
  <2>3. QED
    BY <2>2 DEF BatchMates
<1>3. QED
  BY <1>2 DEF Contradicted, SamePlace

(* append_transport_chunk of new intakes: all of them with a receipt, or a *)
(* quarantine without any.                                                 *)
LEMMA ChunkAppendedAdmits ==
    ASSUME Inv, NEW c \in Chunks, IsBridge(c.session), ChunkAppended(c)
    PROVE  Admitted(c.session)
<1> DEFINE s == c.session
           found == Upgraded(session, s)
           run == AppendedAll(found, c)
<1>1. s \in Sessions /\ Whole(session) /\ \A t \in Sessions : Sealed(session[t])
  BY ChunkFacts DEF Inv
<1>2. /\ UNCHANGED <<connection, tombstones, deletion>>
      /\ NewChunk(c) /\ session[s].state \in {"absent", "open"}
      /\ ~ ReceiptsFull(session[s])
      /\ IF run.answer \in {"admitted", "replayed"}
         THEN CommitVerified(Receipted(run.db, c), s)
         ELSE IF run.answer \in {"collision", "overflow"}
         THEN Settle(found, run.affected, s)
         ELSE run.answer = "unverified" /\ Fail
  BY DEF ChunkAppended
<1>3. Read(found, s) /\ (session[s].ledgered => found = session)
      /\ (found[s].state = "open" => found[s].ledgered)
  BY <1>1, Reads, UpgradedWhole
<1>4. Found(found, c)
  <2>1. Whole(found) /\ found[s].state = session[s].state
    BY <1>1, <1>3 DEF Read
  <2>2. QED
    BY <1>2, <1>3, <2>1 DEF Found
<1>5. Ran(found, c, Len(c.intakes), run)
  BY <1>4, ChunkRuns
<1> HIDE DEF found, run
<1>6. CASE run.answer \in {"admitted", "replayed"}
  <2> DEFINE db == Receipted(run.db, c)
             old == session[s].events
             new == db[s].events
  <2>1. Grown(found, c, Len(c.intakes), run.db)
    BY <1>5, <1>6 DEF Ran
  <2>2. c \notin BatchMates(found, c) /\ Contradicted(found, c) = {}
    <3>1. \A t \in Sessions : found[t].receipts = session[t].receipts
      BY <1>3 DEF Read
    <3>2. QED
      BY <1>2, <3>1, SameMates DEF NewChunk
  <2>3. ~ ReceiptsFull(found[s])
    BY <1>1, <1>2, <1>3 DEF ReceiptsFull, Read
  <2>4. /\ Whole(db)
        /\ \A t \in Sessions : t # s => db[t] = found[t]
        /\ db[s].events = run.db[s].events /\ db[s].state = run.db[s].state
        /\ db[s].degraded = run.db[s].degraded
        /\ db[s].ledgered
        /\ ChainVerifies(db[s], FALSE)
        /\ (~ found[s].degraded =>
               \A i \in DOMAIN found[s].events : Covered(found[s], i))
           => (~ db[s].degraded =>
                 \A i \in DOMAIN db[s].events : Covered(db[s], i))
    BY <1>4, <2>1, <2>2, <2>3, ReceiptedWhole
  <2> HIDE DEF db
  <2>5. session' = db /\ alarm' = alarm
    BY <1>2, <1>6, <2>4 DEF CommitVerified, Commit, db
  <2>6. ~ found[s].degraded =>
           \A i \in DOMAIN found[s].events : Covered(found[s], i)
    <3>1. ASSUME ~ found[s].degraded, NEW i \in DOMAIN found[s].events
          PROVE  Covered(found[s], i)
      <4>1. found[s] = session[s] /\ found[s] \in Rows /\ RowWhole(s, found[s])
        BY <1>1, <1>3, <3>1 DEF Read, Whole
      <4>2. session[s].state # "absent"
        <5>1. found[s].events # <<>>
          BY <3>1
        <5>2. QED
          BY <1>1, <4>1, <5>1, NewRows DEF RowWhole
      <4>3. session[s].ledgered
        BY <1>2, <1>3, <4>1, <4>2
      <4>4. QED
        BY <1>1, <3>1, <4>1, <4>3 DEF Sealed
    <3>2. QED
      BY <3>1
  <2>7. \A t \in Sessions : t # s => db[t] = session[t]
    BY <1>3, <2>4 DEF Read
  <2>8. \A t \in Sessions : Sealed(db[t])
    <3>1. Sealed(db[s])
      BY <2>4, <2>6 DEF Sealed
    <3>2. QED
      BY <1>1, <2>7, <3>1
  <2>9. /\ db[s].state \in {"absent", "open", "closed"}
        /\ db[s].state # "absent"
        /\ session[s].degraded => db[s].degraded
        /\ Len(old) <= Len(new)
        /\ \A i \in DOMAIN old : new[i] = old[i]
    <3>1. /\ run.db[s].state \in {"absent", "open", "closed"}
          /\ found[s].degraded => run.db[s].degraded
          /\ Len(found[s].events) <= Len(run.db[s].events)
          /\ \A i \in DOMAIN found[s].events :
                run.db[s].events[i] = found[s].events[i]
      BY <2>1 DEF Grown
    <3>2. found[s].events = old /\ (session[s].degraded => found[s].degraded)
      BY <1>1, <1>3 DEF Read
    <3>3. db[s].state # "absent"
      <4>1. RowWhole(s, db[s])
        BY <1>1, <2>4 DEF Whole
      <4>2. QED
        BY <1>1, <2>4, <4>1, NewRows DEF RowWhole
    <3>4. QED
      BY <2>4, <3>1, <3>2, <3>3
  <2>10. \A t \in Sessions : Kept(session[t], db[t])
    <3>1. Kept(session[s], db[s])
      BY <1>2, <2>9 DEF Kept
    <3>2. QED
      BY <2>7, <3>1 DEF Kept
  <2>11. Grew(s)
    <3>1. old \in Seq(Stored) /\ new \in Seq(Stored)
      BY <1>1, <2>4 DEF Whole, Rows
    <3>2. Len(old) = Len(new) => new = old
      BY <2>9, <3>1
    <3>3. Len(old) < Len(new) \/ Len(old) = Len(new)
      BY <2>9, <3>1
    <3>4. ~ Barred(session, s) /\ connection[ConnectionOf[s]] # "deleting"
      BY <1>2 DEF NewChunk
    <3>5. \A t \in Sessions : t # s => db[t].events = session[t].events
      BY <2>7
    <3>6. new = old \/ (Len(old) < Len(new) /\ \A i \in DOMAIN old : new[i] = old[i])
      BY <2>9, <3>2, <3>3
    <3>7. QED
      BY <2>5, <3>4, <3>5, <3>6 DEF Grew
  <2>12. Quiet
    <3>1. db[s].ledgered = IsBridge(s)
      <4>1. db[s] \in Rows /\ IsBridge(s) \in BOOLEAN /\ IsBridge(s)
        BY <1>1, <2>4 DEF Whole, IsBridge
      <4>2. db[s].ledgered \in BOOLEAN
        BY <4>1 DEF Rows
      <4>3. QED
        BY <2>4, <4>1, <4>2
    <3>2. QED
      BY <2>5, <2>7, <3>1 DEF Quiet, NoLegacyRows
  <2>13. alarm' \in BOOLEAN
    BY <2>5 DEF Inv, Vars
  <2>14. QED
    BY <1>2, <2>4, <2>5, <2>8, <2>10, <2>11, <2>12, <2>13 DEF Admitted
<1>7. CASE run.answer \in {"collision", "overflow"}
  <2>1. Settle(found, run.affected, s)
    BY <1>2, <1>7
  <2>2. \A t \in Sessions : Barred(found, t) = Barred(session, t)
    BY <1>3 DEF Read, Barred
  <2>3. run.affected \subseteq Sessions
    BY <1>5, <1>7 DEF Ran
  <2>4. QED
    BY <1>1, <1>2, <1>3, <2>1, <2>2, <2>3, SettleAdmits
<1>8. QED
  BY <1>2, <1>5, <1>6, <1>7 DEF Ran

(* Every admission is one of these.                                        *)
LEMMA AdmissionAdmits ==
    ASSUME Inv, Admission
    PROVE  \E s \in Sessions : Admitted(s)
<1>1. ASSUME NEW e \in Intakes, NEW source \in Sources, AppendIntake(e, source)
      PROVE  \E s \in Sessions : Admitted(s)
  BY <1>1, AppendAdmits, IntakesAssumption
<1>2. ASSUME NEW s \in Sessions, MarkHealth(s)
      PROVE  \E t \in Sessions : Admitted(t)
  BY <1>2, MarkHealthAdmits
<1>3. ASSUME NEW c \in Chunks, IsBridge(c.session),
             \/ ChunkReplayed(c) \/ ChunkContradicts(c) \/ ChunkAfterClose(c)
             \/ ChunkOverflows(c) \/ ChunkAppended(c)
      PROVE  \E s \in Sessions : Admitted(s)
  BY <1>3, ChunkFacts, ChunkReplayedAdmits, ChunkContradictsAdmits,
     ChunkAfterCloseAdmits, ChunkOverflowsAdmits, ChunkAppendedAdmits
<1>4. Hooked \subseteq Intakes /\ Drained \subseteq Intakes /\ Fallbacks \subseteq Intakes
      /\ "direct" \in Sources /\ "spool_drain" \in Sources
  BY IntakesAssumption DEF Sources
<1>5. QED
  BY <1>1, <1>2, <1>3, <1>4 DEF Admission

(* --------------------------- the whole program ------------------------- *)

\* LossKept, of one step.
LossStep ==
    \A s \in Sessions : session'[s].state # "absent" =>
        /\ session[s].degraded => session'[s].degraded
        /\ session[s].state = "quarantined" =>
              session'[s].state \in {"quarantined", "deleting"}
        /\ session[s].state = "closed" => session'[s].state # "open"
        /\ session[s].state = "deleting" => session'[s].state = "deleting"

(* The invariant after a step, part by part.                               *)
LEMMA InvAfter ==
    ASSUME bridges' = bridges, Vars', MarkedFirst', Whole(session'),
           \A s \in Sessions : Sealed(session'[s])
    PROVE  Inv'
<1>1. \A s : IsBridge(s)' <=> IsBridge(s)
  BY DEF IsBridge
<1>2. \A s \in Sessions : RowWhole(s, session'[s])
  BY DEF Whole
<1>3. \A s \in Sessions : RowWhole(s, session[s])'
  BY <1>1, <1>2 DEF RowWhole
<1>4. Whole(session)'
  BY <1>3 DEF Whole
<1>5. QED
  BY <1>4 DEF Inv

\* What every step does.
Stepped == Inv' /\ LossStep /\ Quiet

(* An admission keeps the invariant, and what was lost.                    *)
LEMMA AdmissionStep ==
    ASSUME Inv, Admission, bridges' = bridges
    PROVE  Stepped
<1>1. PICK s \in Sessions : Admitted(s)
  BY AdmissionAdmits
<1>2. Vars'
  BY <1>1 DEF Inv, Vars, Admitted
<1>3. MarkedFirst'
  BY <1>1 DEF Inv, MarkedFirst, Admitted, Kept
<1>4. Inv'
  BY <1>1, <1>2, <1>3, InvAfter DEF Admitted
<1>5. LossStep
  BY <1>1 DEF Admitted, Kept, LossStep
<1>6. QED
  BY <1>1, <1>4, <1>5 DEF Admitted, Stepped

(* A step that leaves the sessions alone.                                  *)
LEMMA StayStep ==
    ASSUME Inv, bridges' = bridges, session' = session, alarm' = alarm, Vars', MarkedFirst'
    PROVE  Stepped
<1>1. Whole(session') /\ \A s \in Sessions : Sealed(session'[s])
  BY DEF Inv
<1>2. LossStep
  BY DEF LossStep
<1>3. Quiet
  BY DEF Quiet, NoLegacyRows
<1>4. QED
  BY <1>1, <1>2, <1>3, InvAfter DEF Stepped

(* Connecting and disconnecting touch no session.                          *)
LEMMA LifecycleStep ==
    ASSUME Inv, Lifecycle, bridges' = bridges
    PROVE  Stepped
<1>1. session' = session /\ alarm' = alarm /\ UNCHANGED <<tombstones, deletion>>
  BY DEF Lifecycle, Register, Transition
<1>2. connection' \in [Connections -> ConnectionStates]
  <2>1. connection \in [Connections -> ConnectionStates]
    BY DEF Inv, Vars
  <2>2. ASSUME NEW c \in Connections, Register(c)
        PROVE  connection' \in [Connections -> ConnectionStates]
    BY <2>1, <2>2 DEF Register, ConnectionStates
  <2>3. ASSUME NEW c \in Connections, NEW t \in ConnectionStates, Transition(c, t)
        PROVE  connection' \in [Connections -> ConnectionStates]
    BY <2>1, <2>3 DEF Transition
  <2>4. QED
    BY <2>2, <2>3 DEF Lifecycle
<1>3. Vars'
  BY <1>1, <1>2 DEF Inv, Vars
<1>4. MarkedFirst'
  BY <1>1 DEF Inv, MarkedFirst
<1>5. QED
  BY <1>1, <1>3, <1>4, StayStep

(* The value of a deletion that has its type.                              *)
LEMMA DeletionTyped ==
    ASSUME NEW of \in Sessions \cup {Project, None},
           NEW phase \in {"none", "checked", "marked"}, NEW ids \in SUBSET Connections,
           Deleting(of, phase, ids) \/ (deletion' = NoDeletion /\ of = None /\ phase = "none")
    PROVE  /\ deletion' \in [of : Sessions \cup {Project, None},
                             phase : {"none", "checked", "marked"},
                             ids : SUBSET Connections]
           /\ deletion'.of = of /\ deletion'.phase = phase
BY DEF Deleting, NoDeletion

(* The first transaction of a session's deletion.                          *)
LEMMA MarkSessionStep ==
    ASSUME Inv, NEW s \in Sessions, MarkSession(s), bridges' = bridges
    PROVE  Stepped
<1> DEFINE row == [session[s] EXCEPT !.state = "deleting"]
           db == [session EXCEPT ![s] = row]
<1>1. Whole(session) /\ \A t \in Sessions : Sealed(session[t])
  BY DEF Inv
<1>2. session \in [Sessions -> Rows] /\ session[s] \in Rows /\ RowWhole(s, session[s])
  BY <1>1 DEF Whole
<1>3. /\ session' = db /\ alarm' = alarm /\ Deleting(s, "marked", {})
      /\ UNCHANGED <<connection, tombstones>>
  BY <1>1 DEF MarkSession, Sealed, Commit
<1>4. /\ row \in Rows /\ row.state = "deleting" /\ row.degraded = session[s].degraded
      /\ row.ledgered = session[s].ledgered
      /\ row.events = session[s].events /\ row.receipts = session[s].receipts
  BY <1>2 DEF Rows, SessionStates
<1> HIDE DEF row
<1>5. /\ db \in [Sessions -> Rows] /\ db[s] = row
      /\ \A t \in Sessions : t # s => db[t] = session[t]
  BY <1>2, <1>4
<1> HIDE DEF db
<1>6. Sealed(row)
  BY <1>1, <1>2, <1>4, SameSeal
<1>7. RowWhole(s, row)
  <2>1. row.ledgered => IsBridge(s)
    BY <1>2, <1>4 DEF RowWhole
  <2>2. row.state \notin {"absent", "open"}
    BY <1>4
  <2>3. QED
    BY <1>2, <1>4, <2>1, <2>2, SameEvidence
<1>8. Distinct(db)
  <2>1. \A t \in Sessions : db[t].events = session[t].events
    BY <1>4, <1>5
  <2>2. QED
    BY <1>1, <2>1 DEF Whole, Distinct
<1>9. Whole(db) /\ \A t \in Sessions : Sealed(db[t])
  BY <1>1, <1>5, <1>6, <1>7, <1>8 DEF Whole
<1>10. /\ deletion' \in [of : Sessions \cup {Project, None},
                         phase : {"none", "checked", "marked"},
                         ids : SUBSET Connections]
       /\ deletion'.of = s
  BY <1>3, DeletionTyped
<1>11. Vars'
  BY <1>3, <1>10 DEF Inv, Vars
<1>12. MarkedFirst'
  BY <1>3, <1>4, <1>5, <1>10 DEF MarkedFirst
<1>13. LossStep
  BY <1>3, <1>4, <1>5 DEF LossStep
<1>14. Quiet
  <2>1. session[s].state # "absent"
    BY DEF MarkSession
  <2>2. QED
    BY <1>3, <1>4, <1>5, <2>1 DEF Quiet, NoLegacyRows
<1>15. QED
  BY <1>3, <1>9, <1>11, <1>12, <1>13, <1>14, InvAfter DEF Stepped

(* The second one finds the mark, since nothing else takes it away.        *)
LEMMA PurgeSessionStep ==
    ASSUME Inv, NEW s \in Sessions, PurgeSession(s), bridges' = bridges
    PROVE  Stepped
<1> DEFINE db == [session EXCEPT ![s] = Absent]
<1>1. Whole(session) /\ \A t \in Sessions : Sealed(session[t])
  BY DEF Inv
<1>2. session[s].state = "deleting"
  <2>1. deletion.of = s /\ deletion.phase = "marked"
    BY DEF PurgeSession, InDeletion
  <2>2. QED
    BY <2>1 DEF Inv, MarkedFirst
<1>3. /\ session' = db /\ alarm' = alarm /\ tombstones' = tombstones \cup {s}
      /\ connection' = connection /\ deletion' = NoDeletion
  BY <1>1, <1>2 DEF PurgeSession, Sealed, Commit
<1>4. /\ db \in [Sessions -> Rows] /\ db[s] = Absent
      /\ \A t \in Sessions : t # s => db[t] = session[t]
  BY <1>1, NewRows DEF Whole
<1> HIDE DEF db
<1>5. RowWhole(s, Absent) /\ Sealed(Absent) /\ DOMAIN Absent.events = {}
      /\ Absent.state = "absent"
  BY NewRows
<1>6. Distinct(db)
  <2>1. \A t \in Sessions : \A i \in DOMAIN db[t].events :
           t # s /\ i \in DOMAIN session[t].events /\ db[t].events = session[t].events
    BY <1>4, <1>5
  <2>2. QED
    BY <1>1, <2>1 DEF Whole, Distinct
<1>7. Whole(db) /\ \A t \in Sessions : Sealed(db[t])
  BY <1>1, <1>4, <1>5, <1>6 DEF Whole
<1>8. /\ deletion' \in [of : Sessions \cup {Project, None},
                        phase : {"none", "checked", "marked"},
                        ids : SUBSET Connections]
      /\ deletion'.phase = "none"
  BY <1>3 DEF NoDeletion
<1>9. Vars'
  BY <1>3, <1>8 DEF Inv, Vars
<1>10. MarkedFirst'
  BY <1>8 DEF MarkedFirst
<1>11. LossStep
  BY <1>3, <1>4, <1>5 DEF LossStep
<1>12. Quiet
  BY <1>3, <1>4, <1>5 DEF Quiet, NoLegacyRows
<1>13. QED
  BY <1>3, <1>7, <1>9, <1>10, <1>11, <1>12, InvAfter DEF Stepped

\* The sessions of a project that is gone.
Nothing == [s \in Sessions |-> Absent]

(* They are as they should be.                                             *)
LEMMA NothingWhole ==
    Whole(Nothing) /\ \A s \in Sessions : Nothing[s] = Absent /\ Sealed(Nothing[s])
<1>1. \A s \in Sessions : /\ Nothing[s] = Absent /\ Absent \in Rows
                          /\ RowWhole(s, Nothing[s]) /\ Sealed(Nothing[s])
                          /\ DOMAIN Nothing[s].events = {}
  BY NewRows DEF Nothing
<1>2. Nothing \in [Sessions -> Rows]
  BY <1>1 DEF Nothing
<1>3. Distinct(Nothing)
  BY <1>1 DEF Distinct
<1>4. QED
  BY <1>1, <1>2, <1>3 DEF Whole

(* The transactions of a project's deletion, and a crash between two of any*)
(* deletion.                                                               *)
LEMMA ProjectStep ==
    ASSUME Inv, CheckProject \/ MarkProject \/ PurgeProject \/ Crash, bridges' = bridges
    PROVE  Stepped
<1>1. Whole(session) /\ \A t \in Sessions : Sealed(session[t])
  BY DEF Inv
<1>2. /\ deletion' \in [of : Sessions \cup {Project, None},
                        phase : {"none", "checked", "marked"},
                        ids : SUBSET Connections]
      /\ deletion'.of \notin Sessions
  <2>1. Project \notin Sessions /\ None \notin Sessions
    BY NamesAssumption
  <2>2. CASE deletion' = NoDeletion
    BY <2>1, <2>2 DEF NoDeletion
  <2>3. CASE Deleting(Project, "checked", {})
    BY <2>1, <2>3 DEF Deleting
  <2>4. CASE Deleting(Project, "marked", Present)
    <3>1. Present \in SUBSET Connections
      BY DEF Present
    <3>2. QED
      BY <2>1, <2>4, <3>1 DEF Deleting
  <2>5. QED
    BY <2>2, <2>3, <2>4 DEF CheckProject, MarkProject, PurgeProject, Crash
<1>3. MarkedFirst'
  BY <1>2 DEF MarkedFirst
<1>4. CASE UNCHANGED <<session, tombstones, alarm>>
           /\ connection' \in [Connections -> ConnectionStates]
  <2>1. Vars'
    BY <1>2, <1>4 DEF Inv, Vars
  <2>2. QED
    BY <1>3, <1>4, <2>1, StayStep
<1>5. CASE CheckProject \/ Crash
  BY <1>4, <1>5 DEF CheckProject, Crash, rows, Inv, Vars
<1>6. CASE MarkProject
  <2>1. connection \in [Connections -> ConnectionStates]
    BY DEF Inv, Vars
  <2>2. connection' \in [Connections -> ConnectionStates]
    BY <1>6, <2>1 DEF MarkProject, ConnectionStates
  <2>3. QED
    BY <1>4, <1>6, <2>2 DEF MarkProject
<1>7. CASE PurgeProject
  <2>1. CASE Present # deletion.ids
    BY <1>4, <1>7, <2>1 DEF PurgeProject, rows, Inv, Vars
  <2>2. CASE Present = deletion.ids
    <3>1. \A s \in Sessions : ChainVerifies(session[s], FALSE)
      BY <1>1 DEF Sealed
    <3>2. /\ session' = Nothing /\ alarm' = alarm /\ tombstones' = {}
          /\ connection' = [c \in Connections |-> "absent"]
      BY <1>7, <2>2, <3>1 DEF PurgeProject, Commit, Nothing
    <3>3. Vars'
      BY <1>2, <3>2 DEF Inv, Vars, ConnectionStates
    <3>4. \A s \in Sessions : session'[s].state = "absent"
      BY <3>2, NothingWhole, NewRows
    <3>5. LossStep /\ Quiet
      BY <3>2, <3>4 DEF LossStep, Quiet
    <3>6. Whole(session') /\ \A s \in Sessions : Sealed(session'[s])
      BY <3>2, NothingWhole
    <3>7. QED
      BY <1>3, <3>3, <3>5, <3>6, InvAfter DEF Stepped
  <2>3. QED
    BY <2>1, <2>2
<1>8. QED
  BY <1>5, <1>6, <1>7

(* Every step keeps the invariant, and what was lost.                      *)
LEMMA NextStep ==
    ASSUME Inv, [Next]_vars
    PROVE  Stepped
<1>1. CASE Next
  <2>1. bridges' = bridges
    BY <1>1 DEF Next
  <2>2. CASE Lifecycle
    BY <2>1, <2>2, LifecycleStep
  <2>3. CASE Admission
    BY <2>1, <2>3, AdmissionStep
  <2>4. CASE Deletion
    BY <2>1, <2>4, MarkSessionStep, PurgeSessionStep, ProjectStep DEF Deletion
  <2>5. CASE Crash
    BY <2>1, <2>5, ProjectStep
  <2>6. QED
    BY <1>1, <2>2, <2>3, <2>4, <2>5 DEF Next
<1>2. CASE UNCHANGED vars
  <2>1. /\ bridges' = bridges /\ session' = session /\ alarm' = alarm
        /\ UNCHANGED <<connection, tombstones, deletion>>
    BY <1>2 DEF vars, changing
  <2>2. Vars' /\ MarkedFirst'
    BY <2>1 DEF Inv, Vars, MarkedFirst
  <2>3. QED
    BY <2>1, <2>2, StayStep
<1>3. QED
  BY <1>1, <1>2

\* The row of a session of a version-one store.
Legacy(s) ==
    [Absent EXCEPT !.state = "open",
        !.degraded = \E i \in DOMAIN LegacyEvents[s] : ~ LegacyEvents[s][i].captured,
        !.events = [i \in DOMAIN LegacyEvents[s] |->
            [intake |-> LegacyEvents[s][i], source |-> "direct"]]]

(* It passed the checks of its version, and none of this one refuses it.   *)
LEMMA LegacyRow ==
    ASSUME NEW s \in Sessions, LegacyEvents[s] # <<>>
    PROVE  /\ Legacy(s) \in Rows /\ RowWhole(s, Legacy(s)) /\ Sealed(Legacy(s))
           /\ DOMAIN Legacy(s).events = DOMAIN LegacyEvents[s]
           /\ \A i \in DOMAIN LegacyEvents[s] :
                 Legacy(s).events[i].intake = LegacyEvents[s][i]
<1> DEFINE legacy == LegacyEvents[s]
           degraded == \E i \in DOMAIN legacy : ~ legacy[i].captured
           events == [i \in DOMAIN legacy |-> [intake |-> legacy[i], source |-> "direct"]]
           row == Legacy(s)
<1>1. /\ legacy \in Seq(Intakes) /\ legacy # <<>> /\ Len(legacy) <= MaxEvents
      /\ \A i \in DOMAIN legacy :
            /\ legacy[i].session = s /\ legacy[i].kind # "session_finished"
            /\ legacy[i].kind = "session_started" <=> i = 1
  BY LegacyAssumption
<1>2. row = [Absent EXCEPT !.state = "open", !.degraded = degraded, !.events = events]
  BY DEF Legacy
<1>3. degraded \in BOOLEAN
  OBVIOUS
<1>4. \A i \in DOMAIN legacy : [intake |-> legacy[i], source |-> "direct"] \in Stored
  BY <1>1 DEF Stored, Sources
<1>5. /\ DOMAIN events = DOMAIN legacy
      /\ \A i \in DOMAIN legacy : events[i].intake = legacy[i]
  OBVIOUS
<1>6. /\ events \in Seq(Stored) /\ Len(events) = Len(legacy) /\ events # <<>>
  <2>1. DOMAIN legacy = 1..Len(legacy) /\ Len(legacy) \in Nat /\ Len(legacy) # 0
    BY <1>1
  <2>2. events \in Seq(Stored)
    BY <1>4, <2>1
  <2> HIDE DEF events, legacy
  <2>3. QED
    BY <1>5, <2>1, <2>2
<1>7. (degraded = FALSE) => \A i \in DOMAIN legacy : legacy[i].captured
  BY DEF degraded
<1> HIDE DEF events, degraded, legacy
<1>8. /\ row \in Rows /\ row.state = "open" /\ row.degraded = degraded
      /\ row.events = events /\ row.receipts = <<>> /\ ~ row.ledgered
  BY <1>2, <1>3, <1>6, NewRows DEF Rows, SessionStates
<1> HIDE DEF row
<1>9. DOMAIN row.receipts = {} /\ Len(row.receipts) = 0
  BY <1>8
<1>10. Formed(s, row)
  BY <1>1, <1>5, <1>6, <1>8 DEF Formed
<1>11. ~ row.degraded => \A i \in DOMAIN row.events : row.events[i].intake.captured
  BY <1>3, <1>5, <1>7, <1>8
<1>12. RowWhole(s, row)
  BY <1>1, <1>6, <1>8, <1>9, <1>10, <1>11, BoundsAssumption
     DEF RowWhole, ReceiptsOrdered, Backed
<1>13. Sealed(row)
  BY <1>8 DEF Sealed, ChainVerifies
<1>14. QED
  BY <1>5, <1>8, <1>12, <1>13 DEF row, legacy

(* The invariant holds in a new store, and in one of version one.          *)
LEMMA InitHolds ==
    ASSUME Init
    PROVE  Inv /\ ((\A s \in Sessions : LegacyEvents[s] = <<>>) => NoLegacyRows)
<1>1. session = [s \in Sessions |->
                   IF LegacyEvents[s] = <<>> THEN Absent ELSE Legacy(s)]
  BY DEF Init, Legacy
<1>2. \A s \in Sessions :
        session[s] = IF LegacyEvents[s] = <<>> THEN Absent ELSE Legacy(s)
  BY <1>1
<1>3. \A s \in Sessions :
        /\ session[s] \in Rows /\ RowWhole(s, session[s]) /\ Sealed(session[s])
        /\ DOMAIN session[s].events = DOMAIN LegacyEvents[s]
        /\ \A i \in DOMAIN LegacyEvents[s] :
              session[s].events[i].intake = LegacyEvents[s][i]
  BY <1>2, LegacyRow, NewRows
<1>4. session \in [Sessions -> Rows]
  BY <1>1, <1>3
<1>5. Distinct(session)
  BY <1>3, LegacyAssumption DEF Distinct
<1>6. Vars
  BY DEF Init, Vars, ConnectionStates, NoDeletion
<1>7. MarkedFirst
  BY DEF Init, MarkedFirst, NoDeletion
<1>8. (\A s \in Sessions : LegacyEvents[s] = <<>>) => NoLegacyRows
  BY <1>2, NewRows DEF NoLegacyRows
<1>9. QED
  BY <1>3, <1>4, <1>5, <1>6, <1>7, <1>8 DEF Inv, Whole

(* The inductive invariant: the connections, the mark of a deletion, what  *)
(* every session's rows agree on, and what vouches for them.               *)
THEOREM StoreInvariant == Spec => []Inv
<1>1. Init => Inv
  BY InitHolds
<1>2. Inv /\ [Next]_vars => Inv'
  BY NextStep DEF Stepped
<1>3. QED
  BY <1>1, <1>2, PTL DEF Spec

(* Every row keeps its type and its limits (MAX_CAPTURE_EVENTS_PER_SESSION *)
(* and MAX_CAPTURE_TRANSPORT_CHUNKS_PER_SESSION), whatever was admitted.   *)
THEOREM StoreTypes == Spec => []TypeOK
<1>1. Inv => TypeOK
  <2>1. SUFFICES ASSUME Inv PROVE TypeOK
    OBVIOUS
  <2>2. session \in [Sessions -> Rows] /\ \A s \in Sessions : RowWhole(s, session[s])
    BY <2>1 DEF Inv, Whole
  <2>3. ASSUME NEW s \in Sessions
        PROVE  /\ session[s].state \in SessionStates
               /\ session[s].degraded \in BOOLEAN /\ session[s].ledgered \in BOOLEAN
               /\ session[s].events \in Seq([intake : Intakes, source : Sources])
               /\ session[s].receipts \in Seq([chunk : Chunks, post : 0..MaxEvents])
               /\ Len(session[s].events) <= MaxEvents
               /\ Len(session[s].receipts) <= MaxReceipts
    <3>1. session[s] \in Rows /\ RowWhole(s, session[s])
      BY <2>2
    <3>2. QED
      BY <3>1 DEF Rows, Stored, Receipts, RowWhole
  <2>4. QED
    BY <2>1, <2>2, <2>3 DEF Inv, Vars, TypeOK
<1>2. QED
  BY <1>1, StoreInvariant, PTL

(* A receipt of append_transport_chunk stands for a whole chunk: all its   *)
(* intakes are among the events that it counts.                            *)
THEOREM StoreReceiptsBacked == Spec => []ReceiptsBacked
<1>1. Inv => ReceiptsBacked
  BY DEF Inv, Whole, RowWhole, Backed, ReceiptsBacked
<1>2. QED
  BY <1>1, StoreInvariant, PTL

(* A session that reports whole coverage has it: each event was captured,  *)
(* and a receipt is for the chunk that brought it to a bridge session.     *)
THEOREM StoreCoverageHonest == Spec => []CoverageHonest
<1>1. Inv => CoverageHonest
  <2>1. SUFFICES ASSUME Inv, NEW s \in Sessions, ~ session[s].degraded,
                        NEW i \in DOMAIN session[s].events
                 PROVE  /\ session[s].events[i].intake.captured
                        /\ session[s].ledgered =>
                              \E c \in ReceiptChunks(session, s) :
                                  \E k \in DOMAIN c.intakes :
                                      c.intakes[k] = session[s].events[i].intake
    BY DEF CoverageHonest
  <2>2. session[s].events[i].intake.captured
    BY <2>1 DEF Inv, Whole, RowWhole
  <2>3. session[s].ledgered => Covered(session[s], i)
    BY <2>1 DEF Inv, Sealed
  <2>4. QED
    BY <2>2, <2>3 DEF Covered, ReceiptChunks
<1>2. QED
  BY <1>1, StoreInvariant, PTL

(* What a session lost stays lost until it is deleted: degraded coverage,  *)
(* quarantine, its end, and the mark of its deletion.                      *)
THEOREM StoreLossKept == Spec => LossKept
<1>1. Inv /\ [Next]_vars => LossStep
  BY NextStep DEF Stepped
<1>2. LossStep => [\A s \in Sessions : session'[s].state # "absent" =>
          /\ session[s].degraded => session'[s].degraded
          /\ session[s].state = "quarantined" =>
                session'[s].state \in {"quarantined", "deleting"}
          /\ session[s].state = "closed" => session'[s].state # "open"
          /\ session[s].state = "deleting" => session'[s].state = "deleting"]_vars
  BY DEF LossStep
<1>3. QED
  BY <1>1, <1>2, StoreInvariant, PTL DEF Spec, LossKept

(* No operation makes a store that a later one refuses as tampered with,   *)
(* unless it began with sessions of a version-one store: these a run shows *)
(* to fail (store_legacy).                                                 *)
THEOREM StoreNothingTampered ==
    ASSUME \A s \in Sessions : LegacyEvents[s] = <<>>
    PROVE  Spec => []NothingTampered
<1> DEFINE Sound == Inv /\ NoLegacyRows /\ NothingTampered
<1>1. Init => Sound
  BY InitHolds DEF Init, NothingTampered
<1>2. Sound /\ [Next]_vars => Sound'
  <2>1. SUFFICES ASSUME Sound, [Next]_vars PROVE Sound'
    OBVIOUS
  <2>2. Inv' /\ Quiet
    BY <2>1, NextStep DEF Stepped
  <2>3. bridges' = bridges
    BY <2>1 DEF Next, vars
  <2>4. NothingTampered'
    BY <2>1, <2>2 DEF Quiet, NothingTampered
  <2>5. \A s \in Sessions : session'[s].state # "absent" =>
           session'[s].ledgered = IsBridge(s)
    BY <2>1, <2>2 DEF Quiet
  <2>6. NoLegacyRows'
    BY <2>3, <2>5 DEF NoLegacyRows, IsBridge
  <2>7. QED
    BY <2>2, <2>4, <2>6
<1>3. QED
  BY <1>1, <1>2, PTL DEF Spec

(* ------------------------------ the ledger ----------------------------- *)

\* What CaptureLedger sees of the store.
Evidence(s) ==
    IF Hidden(s) THEN <<>>
    ELSE [i \in DOMAIN session[s].events |-> session[s].events[i].intake]
Evidences == [s \in Sessions |-> Evidence(s)]
Gone ==
    {s \in Sessions :
        /\ connection[ConnectionOf[s]] # "deleting"
        /\ s \in tombstones \/ session[s].state = "deleting"}

(* The steps of the ledger, about these.                                   *)
LEMMA LedgerSteps ==
    /\ Ledger!Init <=> /\ \A s \in Sessions : Ledger!WellFormed(Evidences[s])
                       /\ Gone = {}
    /\ \A s \in Sessions : Ledger!Extend(s) <=>
          /\ s \notin Gone
          /\ Len(Evidences'[s]) > Len(Evidences[s])
          /\ SubSeq(Evidences'[s], 1, Len(Evidences[s])) = Evidences[s]
          /\ \A i \in DOMAIN Evidences'[s] : Evidences'[s][i].session = s
          /\ Ledger!WellFormed(Evidences'[s])
          /\ Ledger!HeldOnce(Evidences'[s],
                [t \in {u \in Sessions \ {s} : ConnectionOf[u] = ConnectionOf[s]} |->
                    Evidences[t]])
          /\ Evidences' = [Evidences EXCEPT ![s] = Evidences'[s]]
          /\ UNCHANGED Gone
    /\ \A s \in Sessions : Ledger!Delete(s) <=>
          /\ Evidences' = [Evidences EXCEPT ![s] = <<>>]
          /\ Gone' = Gone \cup {s}
BY DEF Ledger!Init, Ledger!Extend, Ledger!Delete, Evidences, Evidence, Gone

\* A wipe of some connections.
Wipes == \E cs \in SUBSET {ConnectionOf[s] : s \in Sessions} : Ledger!Wipe(cs)

(* What makes a step a wipe.                                               *)
LEMMA WipeStep ==
    ASSUME NEW cs, \A c \in cs : \E s \in Sessions : c = ConnectionOf[s],
           Evidences' = [s \in Sessions |->
               IF ConnectionOf[s] \in cs THEN <<>> ELSE Evidences[s]],
           Gone' = {s \in Gone : ConnectionOf[s] \notin cs}
    PROVE  Wipes
<1>1. cs \in SUBSET {ConnectionOf[s] : s \in Sessions}
  OBVIOUS
<1>2. Ledger!Wipe(cs)
  BY DEF Ledger!Wipe, Evidences, Evidence, Gone
<1>3. QED
  BY <1>1, <1>2 DEF Wipes

(* The ledger of a session that is not hidden is its events' intakes.      *)
LEMMA EvidenceFacts ==
    ASSUME NEW s \in Sessions, NEW row \in Rows, NEW evidence,
           evidence = [i \in DOMAIN row.events |-> row.events[i].intake]
    PROVE  /\ evidence \in Seq(Intakes) /\ Len(evidence) = Len(row.events)
           /\ Len(evidence) \in Nat /\ DOMAIN evidence = 1..Len(evidence)
           /\ DOMAIN evidence = DOMAIN row.events
           /\ \A i \in DOMAIN evidence : evidence[i] = row.events[i].intake
           /\ RowWhole(s, row) => /\ Ledger!WellFormed(evidence)
                                  /\ \A i \in DOMAIN evidence : evidence[i].session = s
           /\ row.events = <<>> => evidence = <<>>
<1>1. /\ row.events \in Seq(Stored) /\ Len(row.events) \in Nat
      /\ DOMAIN row.events = 1..Len(row.events)
      /\ \A i \in DOMAIN row.events : row.events[i].intake \in Intakes
  <2>1. row.events \in Seq(Stored)
    BY DEF Rows
  <2>2. \A i \in DOMAIN row.events : row.events[i] \in Stored
    BY <2>1
  <2>3. QED
    BY <2>1, <2>2 DEF Stored
<1>2. /\ DOMAIN evidence = DOMAIN row.events
      /\ \A i \in DOMAIN evidence : evidence[i] = row.events[i].intake
  OBVIOUS
<1>3. evidence \in Seq(Intakes)
  BY <1>1
<1>4. Len(evidence) = Len(row.events)
  BY <1>1, <1>2, <1>3
<1>5. RowWhole(s, row) => /\ Ledger!WellFormed(evidence)
                          /\ \A i \in DOMAIN evidence : evidence[i].session = s
  BY <1>1, <1>2, <1>4
     DEF RowWhole, Formed, Ledger!WellFormed, Ledger!Starts, Ledger!Ends
<1>6. row.events = <<>> => evidence = <<>>
  BY <1>3, <1>4
<1>7. QED
  BY <1>1, <1>2, <1>3, <1>4, <1>5, <1>6

(* The same for every session: hidden ones have no evidence.               *)
LEMMA EvidenceOf ==
    ASSUME NEW s \in Sessions, session[s] \in Rows
    PROVE  /\ Evidences[s] = Evidence(s) /\ Evidence(s) \in Seq(Intakes)
           /\ Hidden(s) \/ session[s].events = <<>> => Evidence(s) = <<>>
           /\ ~ Hidden(s) =>
                /\ Len(Evidence(s)) = Len(session[s].events)
                /\ DOMAIN Evidence(s) = DOMAIN session[s].events
                /\ \A i \in DOMAIN Evidence(s) :
                      Evidence(s)[i] = session[s].events[i].intake
           /\ RowWhole(s, session[s]) =>
                /\ Ledger!WellFormed(Evidence(s))
                /\ \A i \in DOMAIN Evidence(s) : Evidence(s)[i].session = s
<1>1. Evidences[s] = Evidence(s)
  BY DEF Evidences
<1>2. CASE Hidden(s)
  <2>1. Evidence(s) = <<>>
    BY <1>2 DEF Evidence
  <2>2. Ledger!WellFormed(<<>>)
    BY DEF Ledger!WellFormed
  <2>3. QED
    BY <1>1, <1>2, <2>1, <2>2
<1>3. CASE ~ Hidden(s)
  <2>1. Evidence(s) = [i \in DOMAIN session[s].events |-> session[s].events[i].intake]
    BY <1>3 DEF Evidence
  <2>2. QED
    BY <1>1, <1>3, <2>1, EvidenceFacts
<1>4. QED
  BY <1>2, <1>3

\* A step that the ledger does not see.
Stutters == Evidences' = Evidences /\ Gone' = Gone

(* Evidence stays with the same events, hidden or not as before.           *)
LEMMA EvidenceStays ==
    ASSUME NEW s \in Sessions, Hidden(s)' <=> Hidden(s),
           session'[s].events = session[s].events
    PROVE  Evidences'[s] = Evidences[s]
BY DEF Evidences, Evidence

(* The ledger is the same when that of every session is.                   *)
LEMMA EvidencesEqual ==
    ASSUME \A s \in Sessions : Evidences'[s] = Evidences[s]
    PROVE  Evidences' = Evidences
BY DEF Evidences

(* An admission is an extension of one ledger, or changes none.            *)
LEMMA AdmissionLedger ==
    ASSUME Inv, NEW s \in Sessions, Admitted(s)
    PROVE  Ledger!Extend(s) \/ Stutters
<1>1. Whole(session) /\ Whole(session') /\ Grew(s)
      /\ \A t \in Sessions : Kept(session[t], session'[t])
      /\ UNCHANGED <<connection, tombstones>>
  BY DEF Inv, Admitted
<1>2. \A t \in Sessions : Hidden(t)' <=> Hidden(t)
  BY <1>1 DEF Hidden, Kept
<1>3. Gone' = Gone
  BY <1>1 DEF Gone, Kept
<1>4. \A t \in Sessions : t # s => Evidences'[t] = Evidences[t]
  BY <1>1, <1>2, EvidenceStays DEF Grew
<1>5. CASE session'[s].events = session[s].events
  <2>1. Evidences'[s] = Evidences[s]
    BY <1>2, <1>5, EvidenceStays
  <2>2. QED
    BY <1>3, <1>4, <2>1, EvidencesEqual DEF Stutters
<1>6. CASE /\ ~ Barred(session, s) /\ connection[ConnectionOf[s]] # "deleting"
           /\ Len(session[s].events) < Len(session'[s].events)
           /\ \A i \in DOMAIN session[s].events :
                 session'[s].events[i] = session[s].events[i]
  <2> DEFINE old == Evidences[s]
             new == Evidences'[s]
  <2>1. ~ Hidden(s) /\ ~ Hidden(s)' /\ s \notin Gone
    BY <1>2, <1>6 DEF Barred, Hidden, Gone
  <2>2. /\ session[s] \in Rows /\ session'[s] \in Rows
        /\ RowWhole(s, session'[s])
    BY <1>1 DEF Whole
  <2>3. /\ old \in Seq(Intakes) /\ Len(old) = Len(session[s].events)
        /\ DOMAIN old = DOMAIN session[s].events
        /\ \A i \in DOMAIN old : old[i] = session[s].events[i].intake
    BY <2>1, <2>2, EvidenceOf
  <2>4. new = [i \in DOMAIN session'[s].events |-> session'[s].events[i].intake]
    BY <2>1 DEF Evidences, Evidence
  <2> HIDE DEF old, new
  <2>5. /\ new \in Seq(Intakes) /\ Len(new) = Len(session'[s].events)
        /\ DOMAIN new = DOMAIN session'[s].events
        /\ \A i \in DOMAIN new : new[i] = session'[s].events[i].intake
        /\ Ledger!WellFormed(new) /\ \A i \in DOMAIN new : new[i].session = s
    BY <2>2, <2>4, EvidenceFacts
  <2>6. SubSeq(new, 1, Len(old)) = old
    <3>1. Len(old) \in Nat /\ Len(new) \in Nat /\ Len(old) < Len(new)
      BY <1>6, <2>3, <2>5
    <3>2. DOMAIN old = 1..Len(old) /\ DOMAIN new = 1..Len(new)
      BY <2>3, <2>5
    <3>3. \A i \in 1..Len(old) : new[i] = old[i]
      BY <1>6, <2>3, <2>5, <3>1, <3>2
    <3>4. \A i \in 1..Len(old) : new[i] \in Intakes
      BY <2>3, <3>3
    <3> DEFINE sub == SubSeq(new, 1, Len(old))
    <3>5. /\ sub \in Seq(Intakes)
          /\ Len(sub) = IF 1 <= Len(old) THEN Len(old) - 1 + 1 ELSE 0
          /\ \A i \in 1..(Len(old) - 1 + 1) : sub[i] = new[1 + i - 1]
      BY <3>1, <3>4, SubSeqProperties
    <3>6. Len(sub) = Len(old) /\ \A i \in 1..Len(old) : sub[i] = new[i]
      BY <3>1, <3>5
    <3> HIDE DEF sub
    <3>7. sub = old
      BY <2>3, <3>2, <3>3, <3>5, <3>6
    <3>8. QED
      BY <3>7 DEF sub
  <2>7. Len(new) > Len(old)
    BY <1>6, <2>3, <2>5
  <2> DEFINE others == [t \in {u \in Sessions \ {s} : ConnectionOf[u] = ConnectionOf[s]} |->
                           Evidences[t]]
  <2>8. Ledger!HeldOnce(new, others)
    <3>1. Distinct(session')
      BY <1>1 DEF Whole
    <3>2. ASSUME NEW i \in DOMAIN new, NEW j \in 1..(i - 1)
          PROVE  new[j].digest # new[i].digest
      <4>1. DOMAIN new = 1..Len(new) /\ Len(new) \in Nat
        BY <2>5
      <4>2. j \in DOMAIN new /\ i # j
        BY <3>2, <4>1
      <4>3. QED
        BY <2>5, <3>1, <3>2, <4>2 DEF Distinct
    <3>3. ASSUME NEW i \in DOMAIN new, NEW t \in DOMAIN others, NEW j \in DOMAIN others[t]
          PROVE  others[t][j].digest # new[i].digest
      <4>1. /\ t \in Sessions /\ t # s /\ ConnectionOf[t] = ConnectionOf[s]
            /\ others[t] = Evidences[t]
        OBVIOUS
      <4>2. session[t] \in Rows /\ session'[t].events = session[t].events
        BY <1>1, <4>1 DEF Whole, Grew
      <4>3. /\ j \in DOMAIN session[t].events
            /\ others[t][j] = session[t].events[j].intake
        <5>1. Evidences[t] = Evidence(t) /\ j \in DOMAIN Evidence(t)
          BY <3>3, <4>1, <4>2, EvidenceOf
        <5>2. ~ Hidden(t)
          BY <4>1, <4>2, <5>1, EvidenceOf
        <5>3. QED
          BY <4>1, <4>2, <5>1, <5>2, EvidenceOf
      <4>4. i \in DOMAIN session'[s].events /\ new[i] = session'[s].events[i].intake
        BY <2>5, <3>3
      <4> HIDE DEF others
      <4>5. QED
        BY <3>1, <4>1, <4>2, <4>3, <4>4 DEF Distinct
    <3> HIDE DEF others
    <3>4. QED
      BY <3>2, <3>3 DEF Ledger!HeldOnce
  <2>9. Evidences' = [Evidences EXCEPT ![s] = new]
    <3>1. /\ Evidences' = [t \in Sessions |-> Evidences'[t]]
          /\ Evidences = [t \in Sessions |-> Evidences[t]]
      BY DEF Evidences
    <3>2. QED
      BY <1>4, <3>1 DEF new
  <2>10. Ledger!Extend(s)
    BY <1>3, <2>1, <2>5, <2>6, <2>7, <2>8, <2>9, LedgerSteps DEF old, new
  <2>11. QED
    BY <2>10
<1>7. QED
  BY <1>1, <1>5, <1>6 DEF Grew

(* Steps after which the same sessions are hidden, with the same events.   *)
LEMMA SameEvidences ==
    ASSUME session' = session, tombstones' = tombstones,
           \A s \in Sessions : connection'[ConnectionOf[s]] = "deleting"
                               <=> connection[ConnectionOf[s]] = "deleting"
    PROVE  Stutters
<1>1. \A s \in Sessions : Hidden(s)' <=> Hidden(s)
  BY DEF Hidden
<1>2. \A s \in Sessions : Evidences'[s] = Evidences[s]
  BY <1>1, EvidenceStays
<1>3. Gone' = Gone
  BY DEF Gone
<1>4. QED
  BY <1>2, <1>3, EvidencesEqual DEF Stutters

(* No reader sees a connection being made or retired.                      *)
LEMMA LifecycleLedger ==
    ASSUME Inv, Lifecycle
    PROVE  Stutters
<1>1. connection \in [Connections -> ConnectionStates]
  BY DEF Inv, Vars
<1>2. session' = session /\ tombstones' = tombstones
  BY DEF Lifecycle, Register, Transition
<1>3. \A c \in Connections : connection'[c] = "deleting" <=> connection[c] = "deleting"
  <2>1. ASSUME NEW c \in Connections, Register(c), NEW d \in Connections
        PROVE  connection'[d] = "deleting" <=> connection[d] = "deleting"
    BY <1>1, <2>1 DEF Register
  <2>2. ASSUME NEW c \in Connections, NEW t \in ConnectionStates, Transition(c, t),
               NEW d \in Connections
        PROVE  connection'[d] = "deleting" <=> connection[d] = "deleting"
    BY <1>1, <2>2 DEF Transition, Transitions
  <2>3. QED
    BY <2>1, <2>2 DEF Lifecycle
<1>4. QED
  BY <1>2, <1>3, SameEvidences, NamesAssumption

\* From the mark on, the session is gone.
LEMMA MarkSessionLedger ==
    ASSUME Inv, NEW s \in Sessions, MarkSession(s)
    PROVE  Ledger!Delete(s) \/ Stutters
<1>1. Whole(session) /\ \A t \in Sessions : Sealed(session[t])
  BY DEF Inv
<1>2. /\ session' = [session EXCEPT ![s].state = "deleting"]
      /\ UNCHANGED <<connection, tombstones>>
  BY <1>1 DEF MarkSession, Sealed, Commit
<1>3. session \in [Sessions -> Rows] /\ session[s] \in Rows
  BY <1>1 DEF Whole
<1>4. /\ session'[s].state = "deleting" /\ session'[s].events = session[s].events
      /\ \A t \in Sessions : t # s => session'[t] = session[t]
  BY <1>2, <1>3 DEF Rows
<1>5. \A t \in Sessions : t # s => Evidences'[t] = Evidences[t]
  BY <1>2, <1>4, EvidenceStays DEF Hidden
<1>6. Evidences'[s] = <<>>
  BY <1>4 DEF Evidences, Evidence, Hidden
<1>7. CASE connection[ConnectionOf[s]] = "deleting"
  <2>1. Evidences[s] = <<>>
    BY <1>7 DEF Evidences, Evidence, Hidden
  <2>2. Gone' = Gone
    BY <1>2, <1>4, <1>7 DEF Gone
  <2>3. QED
    BY <1>5, <1>6, <2>1, <2>2, EvidencesEqual DEF Stutters
<1>8. CASE connection[ConnectionOf[s]] # "deleting"
  <2>1. Gone' = Gone \cup {s}
    BY <1>2, <1>4, <1>8 DEF Gone
  <2>2. Evidences' = [Evidences EXCEPT ![s] = <<>>]
    <3>1. /\ Evidences' = [t \in Sessions |-> Evidences'[t]]
          /\ Evidences = [t \in Sessions |-> Evidences[t]]
      BY DEF Evidences
    <3>2. QED
      BY <1>5, <1>6, <3>1
  <2>3. QED
    BY <2>1, <2>2, LedgerSteps
<1>9. QED
  BY <1>7, <1>8

\* The purge changes nothing for a reader.
LEMMA PurgeSessionLedger ==
    ASSUME Inv, NEW s \in Sessions, PurgeSession(s)
    PROVE  Stutters
<1>1. Whole(session) /\ \A t \in Sessions : Sealed(session[t])
  BY DEF Inv
<1>2. session[s].state = "deleting"
  <2>1. deletion.of = s /\ deletion.phase = "marked"
    BY DEF PurgeSession, InDeletion
  <2>2. QED
    BY <2>1 DEF Inv, MarkedFirst
<1>3. /\ session' = [session EXCEPT ![s] = Absent]
      /\ tombstones' = tombstones \cup {s} /\ connection' = connection
  BY <1>1, <1>2 DEF PurgeSession, Sealed, Commit
<1>4. session'[s] = Absent /\ \A t \in Sessions : t # s => session'[t] = session[t]
  BY <1>1, <1>3 DEF Whole
<1>5. \A t \in Sessions : t # s => Evidences'[t] = Evidences[t]
  BY <1>3, <1>4, EvidenceStays DEF Hidden
<1>6. Evidences[s] = <<>>
  BY <1>2 DEF Evidences, Evidence, Hidden
<1>7. Evidences'[s] = <<>>
  <2>1. Absent \in Rows /\ Absent.events = <<>>
    BY NewRows
  <2>2. [i \in DOMAIN Absent.events |-> Absent.events[i].intake] = <<>>
    BY <2>1, EvidenceFacts
  <2>3. QED
    BY <1>4, <2>2 DEF Evidences, Evidence
<1>8. Gone' = Gone
  BY <1>2, <1>3, <1>4, NewRows DEF Gone
<1>9. QED
  BY <1>5, <1>6, <1>7, <1>8, EvidencesEqual DEF Stutters

(* Marking the project wipes its connections; the purge of what is left    *)
(* then wipes all of them.                                                 *)
LEMMA MarkProjectLedger ==
    ASSUME Inv, MarkProject
    PROVE  Wipes \/ Stutters
<1> DEFINE cs == {c \in {ConnectionOf[s] : s \in Sessions} : c \in Present}
<1>1. session' = session /\ tombstones' = tombstones
  BY DEF MarkProject
<1>2. CASE connection' = connection
  BY <1>1, <1>2, SameEvidences
<1>3. CASE connection' = [c \in Connections |->
                            IF c \in Present THEN "deleting" ELSE "absent"]
  <2>1. \A s \in Sessions : ConnectionOf[s] \in Connections
    BY NamesAssumption
  <2>2. \A s \in Sessions :
          /\ ConnectionOf[s] \in cs <=> ConnectionOf[s] \in Present
          /\ connection'[ConnectionOf[s]] = "deleting" <=> ConnectionOf[s] \in cs
          /\ ConnectionOf[s] \notin cs => connection[ConnectionOf[s]] = "absent"
    BY <1>3, <2>1 DEF Present
  <2>3. \A c \in cs : \E s \in Sessions : c = ConnectionOf[s]
    OBVIOUS
  <2> HIDE DEF cs
  <2>4. \A s \in Sessions :
          Evidences'[s] = IF ConnectionOf[s] \in cs THEN <<>> ELSE Evidences[s]
    <3>1. ASSUME NEW s \in Sessions, ConnectionOf[s] \in cs
          PROVE  Evidences'[s] = <<>>
      BY <2>2, <3>1 DEF Evidences, Evidence, Hidden
    <3>2. ASSUME NEW s \in Sessions, ConnectionOf[s] \notin cs
          PROVE  Evidences'[s] = Evidences[s]
      <4>1. Hidden(s)' <=> Hidden(s)
        BY <1>1, <2>2, <3>2 DEF Hidden
      <4>2. QED
        BY <1>1, <4>1, EvidenceStays
    <3>3. QED
      BY <3>1, <3>2
  <2>5. Evidences' = [s \in Sessions |->
                        IF ConnectionOf[s] \in cs THEN <<>> ELSE Evidences[s]]
    <3>1. Evidences' = [s \in Sessions |-> Evidences'[s]]
      BY DEF Evidences
    <3>2. QED
      BY <2>4, <3>1
  <2>6. Gone' = {s \in Gone : ConnectionOf[s] \notin cs}
    BY <1>1, <2>2 DEF Gone
  <2>7. QED
    BY <2>3, <2>5, <2>6, WipeStep
<1>4. QED
  BY <1>2, <1>3 DEF MarkProject

(* The purge of a project, or of nothing when its connections changed.     *)
LEMMA PurgeProjectLedger ==
    ASSUME Inv, PurgeProject
    PROVE  Wipes \/ Stutters
<1> DEFINE cs == {ConnectionOf[s] : s \in Sessions}
<1>1. CASE Present # deletion.ids
  BY <1>1, SameEvidences DEF PurgeProject, rows
<1>2. CASE Present = deletion.ids
  <2>1. \A s \in Sessions : ChainVerifies(session[s], FALSE)
    BY DEF Inv, Sealed
  <2>2. session' = Nothing /\ tombstones' = {}
    BY <1>2, <2>1 DEF PurgeProject, Commit, Nothing
  <2>3. \A s \in Sessions : session'[s] = Absent
    BY <2>2, NothingWhole
  <2>4. \A s \in Sessions : Evidences'[s] = <<>>
    <3>1. ASSUME NEW s \in Sessions
          PROVE  Evidences'[s] = <<>>
      <4>1. Absent \in Rows /\ Absent.events = <<>>
        BY NewRows
      <4>2. [i \in DOMAIN Absent.events |-> Absent.events[i].intake] = <<>>
        BY <4>1, EvidenceFacts
      <4>3. QED
        BY <2>3, <4>2 DEF Evidences, Evidence
    <3>2. QED
      BY <3>1
  <2>5. Gone' = {}
    BY <2>2, <2>3, NewRows DEF Gone
  <2>6. /\ \A c \in cs : \E s \in Sessions : c = ConnectionOf[s]
        /\ \A s \in Sessions : ConnectionOf[s] \in cs
    OBVIOUS
  <2> HIDE DEF cs
  <2>7. Evidences' = [s \in Sessions |->
                        IF ConnectionOf[s] \in cs THEN <<>> ELSE Evidences[s]]
    <3>1. Evidences' = [s \in Sessions |-> Evidences'[s]]
      BY DEF Evidences
    <3>2. QED
      BY <2>4, <2>6, <3>1
  <2>8. Gone' = {s \in Gone : ConnectionOf[s] \notin cs}
    BY <2>5, <2>6 DEF Gone
  <2>9. QED
    BY <2>6, <2>7, <2>8, WipeStep
<1>3. QED
  BY <1>1, <1>2

(* The store implements the ledger: evidence is only added at its end, no  *)
(* digest twice, and a deleted session does not come back, though a        *)
(* deletion takes several transactions and may stop after any of them.     *)
THEOREM StoreImplementsLedger == Spec => ImplementsLedger
<1>1. Init => Ledger!Init
  <2>1. SUFFICES ASSUME Init PROVE Ledger!Init
    OBVIOUS
  <2>2. Inv
    BY <2>1, InitHolds
  <2>3. \A s \in Sessions : Ledger!WellFormed(Evidences[s])
    BY <2>2, EvidenceOf DEF Inv, Whole
  <2>4. Gone = {}
    <3>1. session = [s \in Sessions |->
                       IF LegacyEvents[s] = <<>> THEN Absent ELSE Legacy(s)]
      BY <2>1 DEF Init, Legacy
    <3>2. ASSUME NEW s \in Sessions
          PROVE  session[s].state # "deleting"
      <4>1. Legacy(s).state = "open"
        BY NewRows DEF Legacy, Rows
      <4>2. QED
        BY <3>1, <4>1, NewRows
    <3>3. QED
      BY <2>1, <3>2 DEF Init, Gone
  <2>5. QED
    BY <2>3, <2>4, LedgerSteps
<1>2. Inv /\ [Next]_vars => Ledger!Next \/ Stutters
  <2>1. SUFFICES ASSUME Inv, [Next]_vars PROVE Ledger!Next \/ Stutters
    OBVIOUS
  <2>2. CASE Admission
    BY <2>1, <2>2, AdmissionAdmits, AdmissionLedger DEF Ledger!Next
  <2>3. CASE Lifecycle
    BY <2>1, <2>3, LifecycleLedger
  <2>4. CASE \E s \in Sessions : MarkSession(s) \/ PurgeSession(s)
    BY <2>1, <2>4, MarkSessionLedger, PurgeSessionLedger DEF Ledger!Next
  <2>5. CASE MarkProject
    BY <2>1, <2>5, MarkProjectLedger DEF Ledger!Next, Wipes
  <2>6. CASE PurgeProject
    BY <2>1, <2>6, PurgeProjectLedger DEF Ledger!Next, Wipes
  <2>7. CASE CheckProject \/ Crash \/ UNCHANGED vars
    <3>1. session' = session /\ tombstones' = tombstones /\ connection' = connection
      BY <2>7 DEF CheckProject, Crash, vars, changing, rows
    <3>2. QED
      BY <3>1, SameEvidences
  <2>8. QED
    BY <2>1, <2>2, <2>3, <2>4, <2>5, <2>6, <2>7 DEF Next, Deletion
<1>3. Inv /\ [Next]_vars => [Ledger!Next]_<<Evidences, Gone>>
  BY <1>2 DEF Stutters
<1>4. QED
  BY <1>1, <1>3, StoreInvariant, PTL
  DEF Spec, ImplementsLedger, Ledger!Spec, Evidences, Evidence, Gone
=============================================================================
