------------------------ MODULE OpenCodePluginProofs ------------------------
(***************************************************************************)
(* Theorems about OpenCodePlugin, for any sessions, limits, callbacks and  *)
(* orders of a JavaScript map.  The synchronous methods map a state of the *)
(* plugin to another: Sound is about such a state alone, and every method  *)
(* keeps it, whoever calls it.  The rest of the invariant relates the      *)
(* state to the launchers, to dispose and to what the sessions have sent.  *)
(***************************************************************************)
EXTENDS OpenCodePlugin, SumTheorems, SequenceTheorems

(* ------------------------------ invariants ----------------------------- *)

Plugins ==
    [buffer : [Sessions -> Records], flush : [Sessions -> {None} \cup Flushes],
     gap : [Sessions -> {"none", "seen", "marked"}],
     checks : SUBSET Sessions, deferred : SUBSET Sessions, retained : Int]

States ==
    [p : Plugins, loss : [Sessions -> {"none", "old", "new"}],
     overflow : SUBSET Sessions]

\* The other records of each session, those that are not its terminal.
Others(p) == [s \in Sessions |->
    p.buffer[s].others + IF p.flush[s] = None THEN 0 ELSE p.flush[s].records.others]

Account(p) ==
    /\ p.retained = SumFunctionOnSet(Kept(p), Sessions)
    /\ p.retained <= MaxRetained + Reserve
    /\ SumFunctionOnSet(Others(p), Sessions) <= MaxRetained

Tables(m) ==
    /\ Cardinality(Flushing(m)) <= MaxFlushes
    /\ Cardinality(Gaps(m)) <= MaxGaps
    /\ Cardinality(m.p.checks) <= MaxGapChecks /\ m.p.checks \subseteq Flushing(m)
    /\ Cardinality(m.p.deferred) <= MaxDeferred

\* The chunks of a flush: how many were begun and delivered of those it has.
Chunked(f) ==
    /\ f.delivered <= f.started
    /\ f.stage = "queued" => f.started = 0
    /\ f.started + f.left <= f.chunks
    /\ f.stage \in {"next", "writing", "end"} => f.chunks > 0
    /\ f.stage \in {"next", "writing"} => f.left > 0
    /\ f.stage = "finally" =>
         IF f.result = "not_started" THEN f.started = 0
         ELSE f.records.terminal => f.started > 0

\* LossReported, and for a flush that has begun: what was lost since is marked,
\* what was lost before goes with it.
Told(m, s) == m.p.gap[s] = "marked" \/ s \in m.overflow

Reported(m, s) ==
    /\ m.loss[s] # "none" => m.p.gap[s] # "none" \/ s \in m.overflow
    /\ m.p.flush[s] # None /\ m.p.flush[s].stage \in {"next", "writing", "end"} =>
         /\ m.loss[s] = "new" => Told(m, s)
         /\ m.loss[s] = "old" => m.p.flush[s].marker \/ Told(m, s)

Sound(m) ==
    /\ m \in States /\ Account(m.p) /\ Tables(m)
    /\ \A s \in Sessions : /\ Size(m.p.buffer[s]) <= MaxBuffer
                           /\ m.p.flush[s] # None => Chunked(m.p.flush[s])
                           /\ Reported(m, s)

\* The terminals of a session that no launcher has got any of.
Unsent(m, s) ==
    LET f == m.p.flush[s] IN
    (IF m.p.buffer[s].terminal THEN 1 ELSE 0)
        + (IF f # None /\ f.records.terminal /\ f.started = 0 /\ f.stage # "writing"
           THEN 1 ELSE 0)

\* TerminalOnce of one session, in a state in which it had tries attempts.
Once(m, s, tries, over) ==
    /\ tries + Unsent(m, s) <= IF over THEN 1 ELSE 0
    /\ over /\ Cardinality(Sessions) <= Reserve => tries + Unsent(m, s) = 1
    /\ m.p.flush[s] # None /\ m.p.flush[s].records.terminal
         /\ (m.p.flush[s].started > 0 \/ m.p.flush[s].stage = "writing") => tries >= 1

Vars ==
    /\ active = Cardinality({s \in Sessions : At(s, "writing")}) /\ active <= MaxWrites
    /\ closing \in [phase : {"open", "tails", "chain", "done"}, pass : 0..MaxPasses,
                    chain : SUBSET Sessions, tails : SUBSET Sessions]
    /\ closing.chain \cup closing.tails \subseteq Flushing(State)
    /\ finished \subseteq Sessions /\ attempted \in [Sessions -> Nat]
    /\ events \in 0..MaxEvents /\ failed \in BOOLEAN

\* A batch of which no launcher got any part, for want of a launcher.
Starved(m, s) ==
    LET f == m.p.flush[s] IN
    /\ f # None /\ f.started = 0
    /\ f.stage \in {"next", "end"} \/ (f.stage = "finally" /\ f.result = "not_started")

\* A batch that has a launcher, or has lost a chunk that one of them got.
Working(m, t) ==
    LET f == m.p.flush[t] IN
    /\ f # None
    /\ f.stage = "writing" \/ (f.stage \in {"next", "end"} /\ f.delivered < f.started)

\* A launcher was missing because another batch had it, and no batch that has
\* one is delivered before those that have none end.
Blame(m) ==
    /\ \A s \in Sessions : m.p.flush[s] # None /\ m.p.flush[s].stage = "finally"
         /\ m.p.flush[s].result = "attempted_failure" => failed
    /\ \A s \in Sessions : Starved(m, s) /\ ~ failed =>
         \E t \in Sessions \ {s} : Working(m, t)

Inv ==
    /\ Sound(State) /\ Vars /\ Blame(State)
    /\ \A s \in Sessions : Once(State, s, attempted[s], s \in finished)
    /\ TerminalsScheduled

(* ------------------------- tables and the account ----------------------- *)

(* The constants as numbers.                                               *)
LEMMA Limits ==
    /\ IsFiniteSet(Sessions) /\ None \notin Sessions /\ None \notin Flushes
    /\ MaxRetained \in Nat /\ Reserve \in Nat /\ MaxGapChecks \in Nat
    /\ MaxDeferred \in Nat /\ MaxGaps \in Nat /\ MaxEvents \in Nat
    /\ MaxBuffer \in Nat /\ MaxBuffer > 0 /\ MaxFlushes \in Nat /\ MaxFlushes > 0
    /\ MaxWrites \in Nat /\ MaxWrites > 0 /\ MaxPasses \in Nat /\ MaxChunks \in Nat
BY PluginAssumption

(* A table of sessions has a number of entries.                            *)
LEMMA TableCounts ==
    ASSUME NEW X \in SUBSET Sessions
    PROVE  IsFiniteSet(X) /\ Cardinality(X) \in Nat
BY Limits, FS_Subset, FS_CardinalityType

(* A part of a table is within the table's bound.                          *)
LEMMA TablePart ==
    ASSUME NEW X \in SUBSET Sessions, NEW Y \in SUBSET X
    PROVE  Cardinality(Y) \in Nat /\ Cardinality(Y) <= Cardinality(X)
BY TableCounts, FS_Subset

(* A table with room for one takes one.                                    *)
LEMMA TableTakes ==
    ASSUME NEW X \in SUBSET Sessions, NEW s \in Sessions, NEW Y \in SUBSET (X \cup {s}),
           NEW K \in Nat, Cardinality(X) <= K, s \in X \/ Cardinality(X) < K
    PROVE  Cardinality(Y) <= K
<1>1. IsFiniteSet(X) /\ Cardinality(X) \in Nat
  BY TableCounts
<1>2. Cardinality(X \cup {s}) = IF s \in X THEN Cardinality(X) ELSE Cardinality(X) + 1
  BY <1>1, FS_AddElement
<1>3. X \cup {s} \in SUBSET Sessions
  OBVIOUS
<1>4. Cardinality(Y) \in Nat /\ Cardinality(Y) <= Cardinality(X \cup {s})
  BY <1>3, TablePart
<1>5. QED
  BY <1>1, <1>2, <1>4

(* What the plugin has of a session, as numbers.                           *)
LEMMA KeptNumbers ==
    ASSUME NEW m \in States, NEW s \in Sessions
    PROVE  /\ m.p.buffer[s] \in Records /\ Size(m.p.buffer[s]) \in Nat
           /\ m.p.flush[s] # None =>
                /\ m.p.flush[s] \in Flushes /\ m.p.flush[s].records \in Records
                /\ Size(m.p.flush[s].records) \in Nat
           /\ Kept(m.p)[s] \in Nat /\ Others(m.p)[s] \in Nat
           /\ Others(m.p)[s] <= Kept(m.p)[s]
           /\ Kept(m.p)[s] = Size(m.p.buffer[s])
                + IF m.p.flush[s] = None THEN 0 ELSE Size(m.p.flush[s].records)
           /\ Others(m.p)[s] = m.p.buffer[s].others
                + IF m.p.flush[s] = None THEN 0 ELSE m.p.flush[s].records.others
<1>1. m.p.buffer[s] \in Records /\ (m.p.flush[s] # None => m.p.flush[s] \in Flushes)
  BY DEF States, Plugins
<1>2. m.p.flush[s] # None => m.p.flush[s].records \in Records
  BY <1>1 DEF Flushes
<1>3. \A r \in Records : Size(r) \in Nat /\ r.others \in Nat /\ r.others <= Size(r)
  BY Limits DEF Records, Size
<1>4. Kept(m.p)[s] = Size(m.p.buffer[s])
                + IF m.p.flush[s] = None THEN 0 ELSE Size(m.p.flush[s].records)
  BY DEF Kept
<1>5. Others(m.p)[s] = m.p.buffer[s].others
                + IF m.p.flush[s] = None THEN 0 ELSE m.p.flush[s].records.others
  BY DEF Others
<1>6. QED
  BY <1>1, <1>2, <1>3, <1>4, <1>5

(* The sums of the account.                                                *)
LEMMA AccountNumbers ==
    ASSUME NEW m \in States
    PROVE  /\ SumFunctionOnSet(Kept(m.p), Sessions) \in Nat
           /\ SumFunctionOnSet(Others(m.p), Sessions) \in Nat
           /\ SumFunctionOnSet(Others(m.p), Sessions)
                <= SumFunctionOnSet(Kept(m.p), Sessions)
<1>1. \A s \in Sessions : /\ Kept(m.p)[s] \in Nat /\ Others(m.p)[s] \in Nat
                          /\ Others(m.p)[s] <= Kept(m.p)[s]
  BY KeptNumbers
<1>2. SumFunctionOnSet(Kept(m.p), Sessions) \in Nat
  BY <1>1, Limits, SumNat
<1>3. SumFunctionOnSet(Others(m.p), Sessions) \in Nat
  BY <1>1, Limits, SumNat
<1>4. \A s \in Sessions : /\ Others(m.p)[s] \in Int /\ Kept(m.p)[s] \in Int
                          /\ Others(m.p)[s] <= Kept(m.p)[s] + 0
  BY <1>1
<1>5. SumFunctionOnSet(Others(m.p), Sessions)
         <= SumFunctionOnSet(Kept(m.p), Sessions) + 0
  BY <1>4, Limits, SumBounded
<1>6. QED
  BY <1>2, <1>3, <1>5

(* A step that touches one session: what the others have stays.            *)
Elsewhere(m, n, s) ==
    /\ \A t \in Sessions \ {s} :
         /\ n.p.buffer[t] = m.p.buffer[t] /\ n.p.flush[t] = m.p.flush[t]
         /\ n.p.gap[t] = m.p.gap[t] /\ n.loss[t] = m.loss[t]
    /\ m.overflow \subseteq n.overflow

(* Such a step moves the sums by what it does to that session.             *)
LEMMA AccountMoves ==
    ASSUME NEW m \in States, NEW n \in States, NEW s \in Sessions, Elsewhere(m, n, s)
    PROVE  /\ SumFunctionOnSet(Kept(n.p), Sessions)
                = SumFunctionOnSet(Kept(m.p), Sessions) - Kept(m.p)[s] + Kept(n.p)[s]
           /\ SumFunctionOnSet(Others(n.p), Sessions)
                = SumFunctionOnSet(Others(m.p), Sessions) - Others(m.p)[s] + Others(n.p)[s]
<1>1. \A t \in Sessions : /\ Kept(m.p)[t] \in Int /\ Kept(n.p)[t] \in Int
                          /\ Others(m.p)[t] \in Int /\ Others(n.p)[t] \in Int
  BY KeptNumbers
<1>2. \A t \in Sessions \ {s} :
        Kept(m.p)[t] = Kept(n.p)[t] /\ Others(m.p)[t] = Others(n.p)[t]
  BY KeptNumbers DEF Elsewhere
<1>3. SumFunctionOnSet(Kept(n.p), Sessions)
        = SumFunctionOnSet(Kept(m.p), Sessions) - Kept(m.p)[s] + Kept(n.p)[s]
  BY <1>1, <1>2, Limits, SumChange
<1>4. SumFunctionOnSet(Others(n.p), Sessions)
        = SumFunctionOnSet(Others(m.p), Sessions) - Others(m.p)[s] + Others(n.p)[s]
  BY <1>1, <1>2, Limits, SumChange
<1>5. QED
  BY <1>3, <1>4

(* What a step that touches one session must show of it to keep Sound.     *)
Locally(n, s) ==
    /\ Size(n.p.buffer[s]) <= MaxBuffer
    /\ n.p.flush[s] # None => Chunked(n.p.flush[s])
    /\ Reported(n, s)

(* It keeps Sound if it counts what it changes and stays within the bounds.*)
LEMMA SoundLocally ==
    ASSUME NEW m, NEW n \in States, NEW s \in Sessions, Sound(m), Elsewhere(m, n, s),
           Tables(n), Locally(n, s),
           n.p.retained = m.p.retained - Kept(m.p)[s] + Kept(n.p)[s],
           n.p.retained <= MaxRetained + Reserve,
           SumFunctionOnSet(Others(m.p), Sessions) - Others(m.p)[s] + Others(n.p)[s]
             <= MaxRetained
    PROVE  Sound(n)
<1>0. m \in States
  BY DEF Sound
<1>1. Account(n.p)
  BY <1>0, AccountMoves DEF Sound, Account
<1>2. ASSUME NEW t \in Sessions
      PROVE  /\ Size(n.p.buffer[t]) <= MaxBuffer
             /\ n.p.flush[t] # None => Chunked(n.p.flush[t])
             /\ Reported(n, t)
  <2>1. CASE t = s
    BY <2>1 DEF Locally
  <2>2. CASE t # s
    <3>1. /\ n.p.buffer[t] = m.p.buffer[t] /\ n.p.flush[t] = m.p.flush[t]
          /\ n.p.gap[t] = m.p.gap[t] /\ n.loss[t] = m.loss[t]
          /\ m.overflow \subseteq n.overflow
      BY <2>2 DEF Elsewhere
    <3>2. /\ Size(m.p.buffer[t]) <= MaxBuffer
          /\ m.p.flush[t] # None => Chunked(m.p.flush[t])
          /\ Reported(m, t)
      BY DEF Sound
    <3>3. Reported(n, t)
      BY <3>1, <3>2 DEF Reported, Told
    <3>4. QED
      BY <3>1, <3>2, <3>3
  <2>3. QED
    BY <2>1, <2>2
<1>3. QED
  BY <1>1, <1>2 DEF Sound

(* The same for a step that keeps less than there was.                     *)
LEMMA SoundLess ==
    ASSUME NEW m, NEW n \in States, NEW s \in Sessions, Sound(m), Elsewhere(m, n, s),
           Tables(n), Locally(n, s),
           n.p.retained = m.p.retained - Kept(m.p)[s] + Kept(n.p)[s],
           Kept(n.p)[s] <= Kept(m.p)[s], Others(n.p)[s] <= Others(m.p)[s]
    PROVE  Sound(n)
<1>0. m \in States /\ m.p.retained \in Int
  BY DEF Sound, States, Plugins
<1>1. /\ Kept(m.p)[s] \in Nat /\ Kept(n.p)[s] \in Nat
      /\ Others(m.p)[s] \in Nat /\ Others(n.p)[s] \in Nat
      /\ SumFunctionOnSet(Others(m.p), Sessions) \in Nat
  BY <1>0, KeptNumbers, AccountNumbers
<1>2. /\ m.p.retained <= MaxRetained + Reserve
      /\ SumFunctionOnSet(Others(m.p), Sessions) <= MaxRetained
  BY DEF Sound, Account
<1>3. /\ n.p.retained <= MaxRetained + Reserve
      /\ SumFunctionOnSet(Others(m.p), Sessions) - Others(m.p)[s] + Others(n.p)[s]
           <= MaxRetained
  BY <1>0, <1>1, <1>2, Limits
<1>4. QED
  BY <1>3, SoundLocally

(* ------------------------ the synchronous methods ----------------------- *)

(* A method that marks a gap, loses records or defers leaves the buffers,  *)
(* the flushes and the count of what is retained.                          *)
Same(m, n) ==
    /\ n.p.buffer = m.p.buffer /\ n.p.flush = m.p.flush
    /\ n.p.checks = m.p.checks /\ n.p.retained = m.p.retained

(* Then it keeps Sound if it keeps the tables and what is reported.        *)
LEMMA SoundSame ==
    ASSUME NEW m, NEW n \in States, NEW s \in Sessions, Sound(m), Same(m, n),
           Elsewhere(m, n, s), Reported(n, s),
           Cardinality(Gaps(n)) <= MaxGaps, Cardinality(n.p.deferred) <= MaxDeferred
    PROVE  Sound(n)
<1>0. m \in States /\ m.p.retained \in Int /\ n.p.retained = m.p.retained
  BY DEF Sound, States, Plugins, Same
<1>1. Tables(n)
  BY DEF Sound, Tables, Same, Flushing
<1>2. Locally(n, s)
  BY DEF Sound, Locally, Same
<1>3. Kept(n.p)[s] = Kept(m.p)[s] /\ Others(n.p)[s] = Others(m.p)[s]
  BY DEF Kept, Others, Same
<1>4. Kept(m.p)[s] \in Nat /\ Others(m.p)[s] \in Nat
  BY <1>0, KeptNumbers
<1>5. n.p.retained = m.p.retained - Kept(m.p)[s] + Kept(n.p)[s]
  BY <1>0, <1>3, <1>4
<1>6. Kept(n.p)[s] <= Kept(m.p)[s] /\ Others(n.p)[s] <= Others(m.p)[s]
  BY <1>3, <1>4
<1>7. QED
  BY <1>1, <1>2, <1>5, <1>6, SoundLess

(* A gap that is marked is in the table, or is known not to have fitted.   *)
LEMMA MarkGapKeeps ==
    ASSUME NEW m, NEW s \in Sessions, Sound(m)
    PROVE  /\ Sound(MarkGap(m, s)) /\ Same(m, MarkGap(m, s))
           /\ MarkGap(m, s).p.deferred = m.p.deferred
           /\ MarkGap(m, s).loss = m.loss /\ Told(MarkGap(m, s), s)
<1>0. m \in States
  BY DEF Sound
<1>1. CASE s \in Gaps(m) \/ Cardinality(Gaps(m)) < MaxGaps
  <2> DEFINE n == [m EXCEPT !.p.gap[s] = "marked"]
  <2>1. MarkGap(m, s) = n
    BY <1>1 DEF MarkGap
  <2>2. /\ n \in States /\ Same(m, n) /\ n.p.deferred = m.p.deferred
        /\ n.loss = m.loss /\ n.overflow = m.overflow
        /\ n.p.gap = [m.p.gap EXCEPT ![s] = "marked"]
    BY <1>0 DEF States, Plugins, Same
  <2>3. Elsewhere(m, n, s) /\ Told(n, s) /\ n.p.gap[s] = "marked"
    BY <1>0, <2>2 DEF Elsewhere, Told, Same, States, Plugins
  <2>4. Reported(n, s)
    BY <2>2, <2>3 DEF Reported
  <2>5. Cardinality(Gaps(n)) <= MaxGaps
    <3>1. Gaps(m) \in SUBSET Sessions /\ Gaps(n) \in SUBSET (Gaps(m) \cup {s})
      BY <1>0, <2>2 DEF Gaps, States, Plugins
    <3>2. Cardinality(Gaps(m)) <= MaxGaps
      BY DEF Sound, Tables
    <3>3. QED
      BY <1>1, <3>1, <3>2, Limits, TableTakes
  <2>6. Cardinality(n.p.deferred) <= MaxDeferred
    BY <2>2 DEF Sound, Tables
  <2> HIDE DEF n
  <2>7. Sound(n)
    BY <2>2, <2>3, <2>4, <2>5, <2>6, SoundSame
  <2>8. QED
    BY <2>1, <2>2, <2>3, <2>7
<1>2. CASE ~ (s \in Gaps(m) \/ Cardinality(Gaps(m)) < MaxGaps)
  <2> DEFINE n == [m EXCEPT !.overflow = @ \cup {s}]
  <2>1. MarkGap(m, s) = n
    BY <1>2 DEF MarkGap
  <2>2. /\ n \in States /\ Same(m, n) /\ n.p.deferred = m.p.deferred
        /\ n.loss = m.loss /\ n.overflow = m.overflow \cup {s}
        /\ n.p.gap = m.p.gap
    BY <1>0 DEF States, Plugins, Same
  <2>3. Elsewhere(m, n, s) /\ Told(n, s) /\ s \in n.overflow
    BY <1>0, <2>2 DEF Elsewhere, Told, Same, States, Plugins
  <2>4. Reported(n, s)
    BY <2>2, <2>3 DEF Reported
  <2>5. Cardinality(Gaps(n)) <= MaxGaps
    BY <2>2 DEF Sound, Tables, Gaps
  <2>6. Cardinality(n.p.deferred) <= MaxDeferred
    BY <2>2 DEF Sound, Tables
  <2> HIDE DEF n
  <2>7. Sound(n)
    BY <2>2, <2>3, <2>4, <2>5, <2>6, SoundSame
  <2>8. QED
    BY <2>1, <2>2, <2>3, <2>7
<1>3. QED
  BY <1>1, <1>2

(* A loss is marked with it.                                               *)
LEMMA LostKeeps ==
    ASSUME NEW m, NEW s \in Sessions, Sound(m)
    PROVE  /\ Sound(Lost(m, s)) /\ Same(m, Lost(m, s))
           /\ Lost(m, s).p.deferred = m.p.deferred
           /\ Told(Lost(m, s), s)
<1> DEFINE k == MarkGap(m, s)
           n == [k EXCEPT !.loss[s] = "new"]
<1>0. Sound(k) /\ Same(m, k) /\ k.p.deferred = m.p.deferred /\ Told(k, s)
  BY MarkGapKeeps
<1>1. Lost(m, s) = n
  BY DEF Lost
<1> HIDE DEF k
<1>2. k \in States
  BY <1>0 DEF Sound
<1>3. n \in States /\ n.p = k.p /\ n.overflow = k.overflow
  BY <1>2 DEF States
<1>4. Elsewhere(k, n, s) /\ Told(n, s)
  BY <1>0, <1>2, <1>3 DEF Elsewhere, Told, States
<1>5. Reported(n, s)
  BY <1>4 DEF Reported, Told
<1> HIDE DEF n
<1>6. Same(k, n) /\ Gaps(n) = Gaps(k)
  BY <1>3 DEF Same, Gaps
<1>7. Cardinality(Gaps(n)) <= MaxGaps /\ Cardinality(n.p.deferred) <= MaxDeferred
  BY <1>0, <1>3, <1>6 DEF Sound, Tables
<1>8. Sound(n)
  BY <1>0, <1>3, <1>4, <1>5, <1>6, <1>7, SoundSame
<1>9. QED
  BY <1>0, <1>1, <1>3, <1>4, <1>6, <1>8 DEF Same

(* A deferral that fits is in the table, another leaves it as it was.      *)
LEMMA DeferTerminalKeeps ==
    ASSUME NEW m, NEW s \in Sessions, Sound(m)
    PROVE  Sound(DeferTerminal(m, s)) /\ Same(m, DeferTerminal(m, s))
<1>0. m \in States
  BY DEF Sound
<1>1. CASE Cardinality(m.p.deferred) < MaxDeferred
  <2> DEFINE n == [m EXCEPT !.p.deferred = @ \cup {s}]
  <2>1. DeferTerminal(m, s) = n
    BY <1>1 DEF DeferTerminal
  <2>2. /\ n \in States /\ Same(m, n) /\ n.p.deferred = m.p.deferred \cup {s}
        /\ n.loss = m.loss /\ n.overflow = m.overflow /\ n.p.gap = m.p.gap
    BY <1>0 DEF States, Plugins, Same
  <2>3. Elsewhere(m, n, s) /\ Reported(n, s) /\ Gaps(n) = Gaps(m)
    BY <2>2 DEF Elsewhere, Same, Sound, Reported, Told, Gaps
  <2>4. Cardinality(n.p.deferred) <= MaxDeferred
    <3>1. m.p.deferred \in SUBSET Sessions /\ Cardinality(m.p.deferred) <= MaxDeferred
      BY <1>0 DEF States, Plugins, Sound, Tables
    <3>2. QED
      BY <1>1, <2>2, <3>1, Limits, TableTakes
  <2>5. Cardinality(Gaps(n)) <= MaxGaps
    BY <2>3 DEF Sound, Tables
  <2> HIDE DEF n
  <2>6. Sound(n)
    BY <2>2, <2>3, <2>4, <2>5, SoundSame
  <2>7. QED
    BY <2>1, <2>2, <2>6
<1>2. CASE ~ Cardinality(m.p.deferred) < MaxDeferred
  BY <1>2 DEF DeferTerminal, Same
<1>3. QED
  BY <1>1, <1>2

(* A session that is no longer deferred.                                   *)
LEMMA UndeferredKeeps ==
    ASSUME NEW m, NEW s \in Sessions, Sound(m)
    PROVE  LET n == [m EXCEPT !.p.deferred = @ \ {s}] IN Sound(n) /\ Same(m, n)
<1> DEFINE n == [m EXCEPT !.p.deferred = @ \ {s}]
<1>0. m \in States
  BY DEF Sound
<1>2. /\ n \in States /\ Same(m, n) /\ n.p.deferred = m.p.deferred \ {s}
      /\ n.loss = m.loss /\ n.overflow = m.overflow /\ n.p.gap = m.p.gap
  BY <1>0 DEF States, Plugins, Same
<1>3. Elsewhere(m, n, s) /\ Reported(n, s) /\ Gaps(n) = Gaps(m)
  BY <1>2 DEF Elsewhere, Same, Sound, Reported, Told, Gaps
<1>4. Cardinality(n.p.deferred) <= MaxDeferred
  <2>1. m.p.deferred \in SUBSET Sessions /\ Cardinality(m.p.deferred) <= MaxDeferred
    BY <1>0 DEF States, Plugins, Sound, Tables
  <2>2. Cardinality(n.p.deferred) \in Nat /\ Cardinality(m.p.deferred) \in Nat
        /\ Cardinality(n.p.deferred) <= Cardinality(m.p.deferred)
    BY <1>2, <2>1, TablePart, TableCounts
  <2>3. QED
    BY <2>1, <2>2, Limits
<1>5. Cardinality(Gaps(n)) <= MaxGaps
  BY <1>3 DEF Sound, Tables
<1>6. Sound(n)
  BY <1>2, <1>3, <1>4, <1>5, SoundSame
<1>7. QED
  BY <1>2, <1>6

(* A buffer that is replaced by a smaller one, and counted.                *)
LEMMA ShrinkKeeps ==
    ASSUME NEW m, NEW s \in Sessions, Sound(m), NEW b \in Records,
           b.others <= m.p.buffer[s].others, Size(b) <= Size(m.p.buffer[s]),
           NEW n \in States, n.p.buffer = [m.p.buffer EXCEPT ![s] = b],
           n.p.flush = m.p.flush, n.p.checks = m.p.checks, n.p.deferred = m.p.deferred,
           n.p.gap = m.p.gap, n.loss = m.loss, n.overflow = m.overflow,
           n.p.retained = m.p.retained - Size(m.p.buffer[s]) + Size(b)
    PROVE  Sound(n)
<1>0. m \in States
  BY DEF Sound
<1>1. n.p.retained = m.p.retained - Size(m.p.buffer[s]) + Size(b)
  OBVIOUS
<1>2. n.p.buffer[s] = b /\ m.p.retained \in Int
  BY <1>0, <1>1 DEF States, Plugins
<1>3. Elsewhere(m, n, s)
  BY <1>0, <1>1 DEF Elsewhere, States, Plugins
<1>4. Tables(n)
  BY <1>1 DEF Sound, Tables, Flushing, Gaps
<1>5. /\ Size(m.p.buffer[s]) \in Nat /\ m.p.buffer[s].others \in Nat
      /\ Size(b) \in Nat /\ b.others \in Nat
  <2>1. m.p.buffer[s] \in Records
    BY <1>0, KeptNumbers
  <2>2. QED
    BY <2>1, Limits DEF Records, Size
<1>6. Locally(n, s)
  <2>1. Size(m.p.buffer[s]) <= MaxBuffer /\ (m.p.flush[s] # None => Chunked(m.p.flush[s]))
        /\ Reported(m, s)
    BY DEF Sound
  <2>2. Size(n.p.buffer[s]) <= MaxBuffer
    BY <1>2, <1>5, <2>1, Limits
  <2>3. Reported(n, s)
    BY <1>1, <2>1 DEF Reported, Told
  <2>4. QED
    BY <1>1, <2>1, <2>2, <2>3 DEF Locally
<1>7. /\ Kept(m.p)[s] \in Nat /\ Kept(n.p)[s] \in Nat
      /\ Kept(n.p)[s] = Kept(m.p)[s] - Size(m.p.buffer[s]) + Size(b)
  <2>1. Kept(m.p)[s] = Size(m.p.buffer[s])
                + IF m.p.flush[s] = None THEN 0 ELSE Size(m.p.flush[s].records)
    BY <1>0, KeptNumbers
  <2>2. Kept(n.p)[s] = Size(n.p.buffer[s])
                + IF n.p.flush[s] = None THEN 0 ELSE Size(n.p.flush[s].records)
    BY KeptNumbers
  <2>3. Kept(n.p)[s] = Size(b)
                + IF m.p.flush[s] = None THEN 0 ELSE Size(m.p.flush[s].records)
    BY <1>2, <2>2
  <2>4. Kept(m.p)[s] \in Nat /\ Kept(n.p)[s] \in Nat
        /\ (m.p.flush[s] # None => Size(m.p.flush[s].records) \in Nat)
    BY <1>0, <1>1, KeptNumbers
  <2>5. QED
    BY <1>5, <2>1, <2>3, <2>4
<1>8. Others(n.p)[s] <= Others(m.p)[s]
  <2>1. Others(m.p)[s] = m.p.buffer[s].others
                + IF m.p.flush[s] = None THEN 0 ELSE m.p.flush[s].records.others
    BY <1>0, KeptNumbers
  <2>2. Others(n.p)[s] = n.p.buffer[s].others
                + IF n.p.flush[s] = None THEN 0 ELSE n.p.flush[s].records.others
    BY KeptNumbers
  <2>3. Others(n.p)[s] = b.others
                + IF m.p.flush[s] = None THEN 0 ELSE m.p.flush[s].records.others
    BY <1>2, <2>2
  <2>4. m.p.flush[s] # None => m.p.flush[s].records.others \in Nat
    BY <1>0, KeptNumbers DEF Records
  <2>5. QED
    BY <1>5, <2>1, <2>3, <2>4
<1>9. n.p.retained = m.p.retained - Kept(m.p)[s] + Kept(n.p)[s]
  BY <1>1, <1>2, <1>5, <1>7
<1>10. Kept(n.p)[s] <= Kept(m.p)[s]
  BY <1>5, <1>7
<1>11. Sound(n)
  BY <1>3, <1>4, <1>6, <1>8, <1>9, <1>10, SoundLess
<1>12. QED
  BY <1>11

(* The terminal of a session's records, kept or not, and their sizes.      *)
LEMMA OnlyTerminalSizes ==
    ASSUME NEW r \in Records
    PROVE  /\ OnlyTerminal(r) \in Records /\ (OnlyTerminal(r).terminal <=> r.terminal)
           /\ OnlyTerminal(r).others <= r.others
           /\ Size(r) \in Nat /\ Size(OnlyTerminal(r)) \in Nat
           /\ Size(OnlyTerminal(r)) <= Size(r)
           /\ ~ r.terminal => OnlyTerminal(r) = NoRecords
           /\ r = NoRecords => OnlyTerminal(r) = NoRecords
           /\ Size(NoRecords) = 0 /\ NoRecords \in Records
<1>1. r.others \in Nat /\ r.terminal \in BOOLEAN
  BY Limits DEF Records
<1>2. Size(NoRecords) = 0 /\ NoRecords \in Records /\ NoRecords.others = 0
      /\ ~ NoRecords.terminal
  BY Limits DEF Size, NoRecords, Records
<1>3. Size(Terminal) = 1 /\ Terminal \in Records /\ Terminal.others = 0
      /\ Terminal.terminal
  BY Limits DEF Size, Terminal, Records
<1>4. CASE r.terminal
  <2>1. OnlyTerminal(r) = Terminal /\ r # NoRecords
    BY <1>2, <1>4 DEF OnlyTerminal
  <2>2. Size(r) \in Nat /\ Size(r) >= 1
    BY <1>1, <1>4 DEF Size
  <2>3. QED
    BY <1>1, <1>2, <1>3, <1>4, <2>1, <2>2
<1>5. CASE ~ r.terminal
  <2>1. OnlyTerminal(r) = NoRecords
    BY <1>5 DEF OnlyTerminal
  <2>2. Size(r) \in Nat
    BY <1>1, <1>5 DEF Size
  <2>3. QED
    BY <1>1, <1>2, <1>5, <2>1, <2>2
<1>6. QED
  BY <1>4, <1>5

(* A session whose buffer is full keeps its terminal.                      *)
LEMMA KeepTerminalKeeps ==
    ASSUME NEW m, NEW s \in Sessions, Sound(m)
    PROVE  LET n == KeepTerminal(m, s) IN
           /\ Sound(n) /\ n.p.flush = m.p.flush /\ n.p.checks = m.p.checks
           /\ n.p.buffer = [m.p.buffer EXCEPT ![s] = OnlyTerminal(m.p.buffer[s])]
<1> DEFINE kept == OnlyTerminal(m.p.buffer[s])
           dropped == Size(m.p.buffer[s]) - Size(kept)
           left == m.p.retained - dropped
           shrunk == [m EXCEPT !.p.buffer[s] = kept, !.p.retained = left]
<1>0. m \in States
  BY DEF Sound
<1>1. m.p.retained \in Int /\ m.p.buffer[s] \in Records
  BY <1>0 DEF States, Plugins
<1>2. /\ kept \in Records /\ kept.others <= m.p.buffer[s].others
      /\ Size(kept) \in Nat /\ Size(m.p.buffer[s]) \in Nat
      /\ Size(kept) <= Size(m.p.buffer[s])
  BY <1>1, OnlyTerminalSizes
<1>3. [m EXCEPT !.p.buffer[s] = kept, !.p.retained = @ - dropped] = shrunk
  BY <1>0 DEF States, Plugins
<1>4. KeepTerminal(m, s) = IF dropped = 0 THEN MarkGap(shrunk, s) ELSE Lost(shrunk, s)
  BY <1>3 DEF KeepTerminal
<1>5. /\ Sound(shrunk) /\ shrunk.p.buffer = [m.p.buffer EXCEPT ![s] = kept]
      /\ shrunk.p.flush = m.p.flush /\ shrunk.p.checks = m.p.checks
  <2> HIDE DEF kept
  <2>1. left \in Int
        /\ left = m.p.retained - Size(m.p.buffer[s]) + Size(kept)
    BY <1>1, <1>2
  <2> HIDE DEF left
  <2>2. /\ shrunk \in States /\ shrunk.p.buffer = [m.p.buffer EXCEPT ![s] = kept]
        /\ shrunk.p.flush = m.p.flush /\ shrunk.p.checks = m.p.checks
        /\ shrunk.p.deferred = m.p.deferred /\ shrunk.p.gap = m.p.gap
        /\ shrunk.loss = m.loss /\ shrunk.overflow = m.overflow
        /\ shrunk.p.retained = left
    BY <1>0, <1>2, <2>1 DEF States, Plugins
  <2> HIDE DEF shrunk
  <2>3. Sound(shrunk)
    BY <1>2, <2>1, <2>2, ShrinkKeeps
  <2>4. QED
    BY <2>2, <2>3
<1> HIDE DEF shrunk, dropped
<1>6. Sound(MarkGap(shrunk, s)) /\ Same(shrunk, MarkGap(shrunk, s))
  BY <1>5, MarkGapKeeps
<1>7. Sound(Lost(shrunk, s)) /\ Same(shrunk, Lost(shrunk, s))
  BY <1>5, LostKeeps
<1>8. QED
  BY <1>4, <1>5, <1>6, <1>7 DEF Same

(* A check after a flush that runs.                                        *)
LEMMA CheckKeeps ==
    ASSUME NEW m, NEW s \in Sessions, Sound(m), s \in Flushing(m),
           s \in m.p.checks \/ Cardinality(m.p.checks) < MaxGapChecks
    PROVE  LET n == [m EXCEPT !.p.checks = @ \cup {s}] IN
           Sound(n) /\ n.p.buffer = m.p.buffer /\ n.p.flush = m.p.flush
<1> DEFINE n == [m EXCEPT !.p.checks = @ \cup {s}]
<1>0. m \in States
  BY DEF Sound
<1>1. /\ n \in States /\ n.p.buffer = m.p.buffer
      /\ n.p.flush = m.p.flush /\ n.p.checks = m.p.checks \cup {s}
      /\ n.p.deferred = m.p.deferred
      /\ n.p.retained = m.p.retained /\ n.p.gap = m.p.gap
      /\ n.loss = m.loss /\ n.overflow = m.overflow
  BY <1>0 DEF States, Plugins
<1> HIDE DEF n
<1>2. Elsewhere(m, n, s)
  BY <1>1 DEF Elsewhere
<1>3. Tables(n)
  <2>1. m.p.checks \in SUBSET Sessions /\ Cardinality(m.p.checks) <= MaxGapChecks
        /\ m.p.checks \subseteq Flushing(m)
    BY <1>0 DEF States, Plugins, Sound, Tables
  <2>2. Cardinality(n.p.checks) <= MaxGapChecks
    BY <1>1, <2>1, Limits, TableTakes
  <2>3. Flushing(n) = Flushing(m) /\ Gaps(n) = Gaps(m)
    BY <1>1 DEF Flushing, Gaps
  <2>4. QED
    BY <1>1, <2>1, <2>2, <2>3 DEF Sound, Tables
<1>4. Locally(n, s)
  BY <1>1 DEF Sound, Locally, Reported, Told
<1>5. Kept(n.p)[s] = Kept(m.p)[s] /\ Others(n.p)[s] = Others(m.p)[s]
  BY <1>1 DEF Kept, Others
<1>6. Kept(m.p)[s] \in Nat /\ Others(m.p)[s] \in Nat /\ m.p.retained \in Int
  BY <1>0, KeptNumbers DEF States, Plugins
<1>7. /\ n.p.retained = m.p.retained - Kept(m.p)[s] + Kept(n.p)[s]
      /\ Kept(n.p)[s] <= Kept(m.p)[s] /\ Others(n.p)[s] <= Others(m.p)[s]
  BY <1>1, <1>5, <1>6
<1>8. Sound(n)
  BY <1>1, <1>2, <1>3, <1>4, <1>7, SoundLess
<1>9. QED
  BY <1>1, <1>8 DEF n

(* What a method may do to the flushes: begin one where there is none.     *)
Grown(m, n) ==
    \A t \in Sessions :
        \/ n.p.flush[t] = m.p.flush[t]
        \/ /\ m.p.flush[t] = None /\ n.p.flush[t] # None
           /\ n.p.flush[t].stage = "queued"

(* A method that moves terminals to flushes and drops none.                *)
Keeps(m, n) ==
    /\ Grown(m, n)
    /\ \A t \in Sessions : Unsent(n, t) = Unsent(m, t)

(* The same, one after another.                                            *)
LEMMA KeepsBoth ==
    ASSUME NEW m, NEW k, NEW n, Keeps(m, k), Keeps(k, n)
    PROVE  Keeps(m, n)
<1>1. Grown(m, n)
  BY DEF Keeps, Grown
<1>2. QED
  BY <1>1 DEF Keeps

(* One that leaves the flushes and every session's terminal.               *)
LEMMA KeepsTerminals ==
    ASSUME NEW m, NEW n, n.p.flush = m.p.flush,
           \A t \in Sessions : n.p.buffer[t].terminal <=> m.p.buffer[t].terminal
    PROVE  Keeps(m, n)
<1>1. Grown(m, n)
  BY DEF Grown
<1>2. ASSUME NEW t \in Sessions
      PROVE  Unsent(n, t) = Unsent(m, t)
  <2>1. n.p.buffer[t].terminal <=> m.p.buffer[t].terminal
    OBVIOUS
  <2>2. QED
    BY <2>1 DEF Unsent
<1>3. QED
  BY <1>1, <1>2 DEF Keeps

(* A buffer becomes a flush.                                               *)
LEMMA FreshKeeps ==
    ASSUME NEW m, NEW s \in Sessions, Sound(m), s \notin Flushing(m),
           Cardinality(Flushing(m)) < MaxFlushes
    PROVE  LET n == [m EXCEPT !.p.buffer[s] = NoRecords,
                              !.p.flush[s] = [stage |-> "queued", records |-> m.p.buffer[s],
                                              marker |-> FALSE, chunks |-> 0, left |-> 0,
                                              started |-> 0, delivered |-> 0,
                                              result |-> "attempted_failure"]]
           IN  /\ Sound(n) /\ Keeps(m, n) /\ s \in Flushing(n)
               /\ n.p.buffer[s] = NoRecords
<1> DEFINE f == [stage |-> "queued", records |-> m.p.buffer[s],
                 marker |-> FALSE, chunks |-> 0, left |-> 0,
                 started |-> 0, delivered |-> 0, result |-> "attempted_failure"]
           n == [m EXCEPT !.p.buffer[s] = NoRecords, !.p.flush[s] = f]
<1>0. m \in States
  BY DEF Sound
<1>1. m.p.buffer[s] \in Records /\ m.p.flush[s] = None
  BY <1>0, KeptNumbers DEF Flushing
<1>2. /\ f \in Flushes /\ f.stage = "queued" /\ f.records = m.p.buffer[s]
      /\ f.started = 0 /\ f.delivered = 0 /\ f.left = 0 /\ f.chunks = 0
  BY <1>1, Limits DEF Flushes
<1> HIDE DEF f
<1>3. NoRecords \in Records /\ Size(NoRecords) = 0 /\ NoRecords.others = 0
      /\ ~ NoRecords.terminal
  BY Limits DEF Size, NoRecords, Records
<1>4. /\ n \in States /\ n.p.buffer = [m.p.buffer EXCEPT ![s] = NoRecords]
      /\ n.p.flush = [m.p.flush EXCEPT ![s] = f] /\ n.p.checks = m.p.checks
      /\ n.p.deferred = m.p.deferred
      /\ n.p.retained = m.p.retained /\ n.p.gap = m.p.gap
      /\ n.loss = m.loss /\ n.overflow = m.overflow
  BY <1>0, <1>2, <1>3 DEF States, Plugins
<1> HIDE DEF n
<1>5. /\ n.p.buffer[s] = NoRecords /\ n.p.flush[s] = f /\ f # None
      /\ \A t \in Sessions \ {s} :
           n.p.buffer[t] = m.p.buffer[t] /\ n.p.flush[t] = m.p.flush[t]
  BY <1>0, <1>2, <1>4, Limits DEF States, Plugins
<1>6. Elsewhere(m, n, s)
  BY <1>4, <1>5 DEF Elsewhere
<1>7. Tables(n)
  <2>1. Flushing(m) \in SUBSET Sessions /\ Flushing(n) \in SUBSET (Flushing(m) \cup {s})
        /\ Flushing(m) \subseteq Flushing(n)
    BY <1>1, <1>5 DEF Flushing
  <2>2. Cardinality(Flushing(n)) <= MaxFlushes
    <3>1. Cardinality(Flushing(m)) <= MaxFlushes
      BY DEF Sound, Tables
    <3>2. QED
      BY <2>1, <3>1, Limits, TableTakes
  <2>3. Gaps(n) = Gaps(m)
    BY <1>4 DEF Gaps
  <2>4. QED
    BY <1>4, <2>1, <2>2, <2>3 DEF Sound, Tables
<1>8. Locally(n, s)
  <2>1. Size(n.p.buffer[s]) <= MaxBuffer
    BY <1>3, <1>5, Limits
  <2>2. Chunked(n.p.flush[s])
    BY <1>2, <1>5 DEF Chunked
  <2>3. Reported(n, s)
    BY <1>2, <1>4, <1>5 DEF Sound, Reported
  <2>4. QED
    BY <2>1, <2>2, <2>3 DEF Locally
<1>9. Kept(n.p)[s] = Kept(m.p)[s] /\ Others(n.p)[s] = Others(m.p)[s]
  <2>1. Kept(m.p)[s] = Size(m.p.buffer[s]) + 0
        /\ Others(m.p)[s] = m.p.buffer[s].others + 0
    BY <1>0, <1>1, KeptNumbers
  <2>2. Kept(n.p)[s] = 0 + Size(m.p.buffer[s])
        /\ Others(n.p)[s] = 0 + m.p.buffer[s].others
    <3>1. n.p.flush[s] # None /\ n.p.flush[s].records = m.p.buffer[s]
          /\ n.p.buffer[s] = NoRecords
      BY <1>2, <1>5
    <3>2. Kept(n.p)[s] = Size(NoRecords) + Size(m.p.buffer[s])
          /\ Others(n.p)[s] = NoRecords.others + m.p.buffer[s].others
      <4>1. n \in States
        BY <1>4
      <4>2. Kept(n.p)[s] = Size(n.p.buffer[s]) + Size(n.p.flush[s].records)
        BY <3>1, <4>1, KeptNumbers
      <4>3. Others(n.p)[s] = n.p.buffer[s].others + n.p.flush[s].records.others
        BY <3>1, <4>1, KeptNumbers
      <4>4. QED
        BY <3>1, <4>2, <4>3
    <3>3. QED
      BY <1>3, <3>2
  <2>3. Size(m.p.buffer[s]) \in Nat /\ m.p.buffer[s].others \in Nat
    BY <1>0, <1>1, KeptNumbers DEF Records
  <2>4. QED
    BY <2>1, <2>2, <2>3
<1>10. Kept(m.p)[s] \in Nat /\ Others(m.p)[s] \in Nat /\ m.p.retained \in Int
  BY <1>0, KeptNumbers DEF States, Plugins
<1>11. /\ n.p.retained = m.p.retained - Kept(m.p)[s] + Kept(n.p)[s]
       /\ Kept(n.p)[s] <= Kept(m.p)[s] /\ Others(n.p)[s] <= Others(m.p)[s]
  BY <1>4, <1>9, <1>10
<1>12. Sound(n)
  BY <1>4, <1>6, <1>7, <1>8, <1>11, SoundLess
<1>13. Keeps(m, n)
  <2>1. Grown(m, n)
    BY <1>1, <1>2, <1>5 DEF Grown
  <2>2. ASSUME NEW t \in Sessions
        PROVE  Unsent(n, t) = Unsent(m, t)
    <3>1. CASE t = s
      <4>1. Unsent(m, s) = IF m.p.buffer[s].terminal THEN 1 ELSE 0
        BY <1>1 DEF Unsent
      <4>2. Unsent(n, s) = IF f.records.terminal THEN 1 ELSE 0
        BY <1>2, <1>3, <1>5 DEF Unsent
      <4>3. QED
        BY <1>2, <3>1, <4>1, <4>2
    <3>2. CASE t # s
      <4>1. n.p.buffer[t] = m.p.buffer[t] /\ n.p.flush[t] = m.p.flush[t]
        BY <1>5, <3>2
      <4>2. QED
        BY <4>1 DEF Unsent
    <3>3. QED
      BY <3>1, <3>2
  <2>3. QED
    BY <2>1, <2>2 DEF Keeps
<1>14. QED
  BY <1>5, <1>12, <1>13 DEF n, f, Flushing

(* #scheduleFlush: whatever it does with the buffer of the session, a      *)
(* forced call, and one that finds records, leaves a flush that runs; and  *)
(* without the terminal nothing of the buffer stays.                       *)
LEMMA ScheduleKeeps ==
    ASSUME NEW m, NEW s \in Sessions, NEW force \in BOOLEAN, Sound(m)
    PROVE  LET n == Schedule(m, s, force) IN
           /\ Sound(n) /\ Keeps(m, n)
           /\ force \/ m.p.buffer[s] # NoRecords => Flushing(n) # {}
           /\ m.p.buffer[s] # NoRecords /\ ~ m.p.buffer[s].terminal
                => n.p.buffer[s] = NoRecords
<1> DEFINE records == m.p.buffer[s]
           some == records # NoRecords
           n == Schedule(m, s, force)
           kept == KeepTerminal(m, s)
           fresh == [m EXCEPT !.p.buffer[s] = NoRecords,
                              !.p.flush[s] = [stage |-> "queued", records |-> m.p.buffer[s],
                                              marker |-> FALSE, chunks |-> 0, left |-> 0,
                                              started |-> 0, delivered |-> 0,
                                              result |-> "attempted_failure"]]
           Goal == /\ Sound(n) /\ Keeps(m, n)
                   /\ force \/ some => Flushing(n) # {}
                   /\ some /\ ~ records.terminal => n.p.buffer[s] = NoRecords
<1>0. m \in States /\ records \in Records /\ ~ NoRecords.terminal
      /\ m.p.buffer = [m.p.buffer EXCEPT ![s] = records]
  BY DEF Sound, States, Plugins, NoRecords
<1>1. Keeps(m, m)
  BY KeepsTerminals
<1>2. /\ Sound(kept) /\ kept.p.flush = m.p.flush /\ kept.p.checks = m.p.checks
      /\ kept.p.buffer = [m.p.buffer EXCEPT ![s] = OnlyTerminal(records)]
      /\ Flushing(kept) = Flushing(m)
  BY KeepTerminalKeeps DEF Flushing
<1>3. Keeps(m, kept) /\ (some /\ ~ records.terminal => kept.p.buffer[s] = NoRecords)
  <2>1. OnlyTerminal(records).terminal <=> records.terminal
    BY <1>0, OnlyTerminalSizes
  <2>2. \A t \in Sessions : kept.p.buffer[t].terminal <=> m.p.buffer[t].terminal
    BY <1>0, <1>2, <2>1 DEF States, Plugins
  <2>3. ~ records.terminal => OnlyTerminal(records) = NoRecords
    BY <1>0, OnlyTerminalSizes
  <2>4. QED
    BY <1>0, <1>2, <2>2, <2>3, KeepsTerminals DEF States, Plugins
<1>4. /\ Sound(DeferTerminal(kept, s)) /\ Keeps(m, DeferTerminal(kept, s))
      /\ Flushing(DeferTerminal(kept, s)) = Flushing(m)
      /\ DeferTerminal(kept, s).p.buffer = kept.p.buffer
  <2>1. Sound(DeferTerminal(kept, s)) /\ Same(kept, DeferTerminal(kept, s))
    BY <1>2, DeferTerminalKeeps
  <2> DEFINE d == DeferTerminal(kept, s)
  <2> HIDE DEF d, kept
  <2>2. Keeps(kept, d)
    BY <2>1, KeepsTerminals DEF Same, d
  <2>3. Keeps(m, d)
    BY <1>3, <2>2, KeepsBoth
  <2>4. QED
    BY <1>2, <2>1, <2>3 DEF d, Same, Flushing
<1> HIDE DEF kept, records
<1>5. CASE ~ some /\ ~ force
  <2>1. n = m
    BY <1>5 DEF Schedule, records
  <2> HIDE DEF n
  <2>2. QED
    BY <1>1, <1>5, <2>1 DEF records, n
<1>6. CASE (some \/ force) /\ s \notin Flushing(m) /\ Cardinality(Flushing(m)) >= MaxFlushes
  <2>1. Flushing(m) # {}
    BY <1>6, Limits, FS_EmptySet
  <2>2. n = IF ~ some THEN m
            ELSE IF records.terminal THEN DeferTerminal(kept, s) ELSE kept
    BY <1>6 DEF Schedule, records, kept
  <2> HIDE DEF n
  <2>3. CASE ~ some
    BY <1>1, <2>1, <2>2, <2>3 DEF n, records
  <2>4. CASE some /\ records.terminal
    <3>1. n = DeferTerminal(kept, s)
      BY <2>2, <2>4
    <3>2. QED
      BY <1>4, <2>1, <2>4, <3>1 DEF n, records
  <2>5. CASE some /\ ~ records.terminal
    <3>1. n = kept
      BY <2>2, <2>5
    <3>2. QED
      BY <1>2, <1>3, <2>1, <2>5, <3>1 DEF n, records
  <2>6. QED
    BY <2>3, <2>4, <2>5
<1>7. CASE (some \/ force) /\ s \in Flushing(m)
  <2> DEFINE k == IF some THEN kept ELSE m
  <2>1. n = IF some /\ ~ records.terminal THEN k
            ELSE IF s \in m.p.checks \/ Cardinality(m.p.checks) < MaxGapChecks
                 THEN [k EXCEPT !.p.checks = @ \cup {s}]
                 ELSE IF records.terminal THEN DeferTerminal(k, s) ELSE k
    BY <1>7 DEF Schedule, records, kept
  <2>2. /\ Sound(k) /\ Keeps(m, k) /\ k.p.checks = m.p.checks
        /\ Flushing(k) = Flushing(m)
        /\ some /\ ~ records.terminal => k.p.buffer[s] = NoRecords
    BY <1>1, <1>2, <1>3
  <2>3. records.terminal => some
    BY <1>0
  <2> HIDE DEF n, k
  <2>4. CASE some /\ ~ records.terminal
    <3>1. n = k
      BY <2>1, <2>4
    <3>2. QED
      BY <1>7, <2>2, <2>4, <3>1 DEF n, records
  <2>5. CASE /\ ~ (some /\ ~ records.terminal)
             /\ s \in m.p.checks \/ Cardinality(m.p.checks) < MaxGapChecks
    <3> DEFINE c == [k EXCEPT !.p.checks = @ \cup {s}]
    <3>1. n = c
      BY <2>1, <2>5
    <3>2. Sound(c) /\ c.p.buffer = k.p.buffer /\ c.p.flush = k.p.flush
      BY <1>7, <2>2, <2>5, CheckKeeps
    <3> HIDE DEF c
    <3>3. Keeps(k, c) /\ Flushing(c) = Flushing(k)
      BY <3>2, KeepsTerminals DEF Flushing
    <3>4. Keeps(m, c)
      BY <2>2, <3>3, KeepsBoth
    <3>5. QED
      BY <1>7, <2>2, <2>5, <3>1, <3>2, <3>3, <3>4 DEF n, records
  <2>6. CASE /\ ~ (some /\ ~ records.terminal)
             /\ ~ (s \in m.p.checks \/ Cardinality(m.p.checks) < MaxGapChecks)
    <3>1. CASE records.terminal
      <4>1. n = DeferTerminal(kept, s)
        BY <2>1, <2>3, <2>6, <3>1 DEF k
      <4>2. QED
        BY <1>4, <1>7, <3>1, <4>1 DEF n, records
    <3>2. CASE ~ records.terminal
      <4>1. n = k
        BY <2>1, <2>6, <3>2
      <4>2. QED
        BY <1>7, <2>2, <2>6, <3>2, <4>1 DEF n, records
    <3>3. QED
      BY <3>1, <3>2
  <2>7. QED
    BY <2>4, <2>5, <2>6
<1>8. CASE /\ (some \/ force) /\ s \notin Flushing(m)
           /\ ~ (Cardinality(Flushing(m)) >= MaxFlushes)
  <2>1. n = fresh
    BY <1>8 DEF Schedule, records
  <2>2. Cardinality(Flushing(m)) < MaxFlushes
    <3>1. Flushing(m) \in SUBSET Sessions
      BY DEF Flushing
    <3>2. Cardinality(Flushing(m)) \in Nat
      BY <3>1, TableCounts
    <3>3. QED
      BY <1>8, <3>2, Limits
  <2>3. Sound(fresh) /\ Keeps(m, fresh) /\ s \in Flushing(fresh)
        /\ fresh.p.buffer[s] = NoRecords
    BY <1>8, <2>2, FreshKeeps
  <2> HIDE DEF n, fresh
  <2>4. QED
    BY <2>1, <2>3 DEF n
<1>9. QED
  BY <1>5, <1>6, <1>7, <1>8

(* A buffer takes one record more, and counts it: its terminal within the  *)
(* reserve, another within what may be retained without it.                *)
LEMMA GrowKeeps ==
    ASSUME NEW m, NEW s \in Sessions, Sound(m), NEW b \in Records, NEW terminal \in BOOLEAN,
           ~ m.p.buffer[s].terminal, Size(m.p.buffer[s]) + 1 <= MaxBuffer,
           b.terminal <=> terminal,
           b.others = m.p.buffer[s].others + (IF terminal THEN 0 ELSE 1),
           m.p.retained + 1 <= MaxRetained + (IF terminal THEN Reserve ELSE 0),
           NEW n \in States, n.p.buffer = [m.p.buffer EXCEPT ![s] = b],
           n.p.flush = m.p.flush, n.p.checks = m.p.checks, n.p.deferred = m.p.deferred,
           n.p.gap = m.p.gap, n.loss = m.loss, n.overflow = m.overflow,
           n.p.retained = m.p.retained + 1
    PROVE  Sound(n)
<1>0. m \in States /\ m.p.retained \in Int
  BY DEF Sound, States, Plugins
<1>1. n.p.buffer[s] = b
  BY <1>0 DEF States, Plugins
<1>2. Elsewhere(m, n, s)
  BY <1>0 DEF Elsewhere, States, Plugins
<1>3. Tables(n)
  BY DEF Sound, Tables, Flushing, Gaps
<1>4. /\ Size(m.p.buffer[s]) = m.p.buffer[s].others /\ m.p.buffer[s].others \in Nat
      /\ Size(b) = m.p.buffer[s].others + 1
  <2>1. m.p.buffer[s] \in Records
    BY <1>0, KeptNumbers
  <2>2. QED
    BY <2>1, Limits DEF Records, Size
<1>5. Locally(n, s)
  <2>1. (m.p.flush[s] # None => Chunked(m.p.flush[s])) /\ Reported(m, s)
    BY DEF Sound
  <2>2. Size(n.p.buffer[s]) <= MaxBuffer
    BY <1>1, <1>4, Limits
  <2>3. Reported(n, s)
    BY <2>1 DEF Reported, Told
  <2>4. QED
    BY <2>1, <2>2, <2>3 DEF Locally
<1>6. Kept(m.p)[s] \in Nat /\ Kept(n.p)[s] = Kept(m.p)[s] + 1
  <2>1. Kept(m.p)[s] = m.p.buffer[s].others
                + IF m.p.flush[s] = None THEN 0 ELSE Size(m.p.flush[s].records)
    BY <1>0, <1>4, KeptNumbers
  <2>2. Kept(n.p)[s] = m.p.buffer[s].others + 1
                + IF m.p.flush[s] = None THEN 0 ELSE Size(m.p.flush[s].records)
    BY <1>1, <1>4, KeptNumbers
  <2>3. Kept(m.p)[s] \in Nat
        /\ (m.p.flush[s] # None => Size(m.p.flush[s].records) \in Nat)
    BY <1>0, KeptNumbers
  <2>4. QED
    BY <1>4, <2>1, <2>2, <2>3
<1>7. Others(m.p)[s] \in Nat
      /\ Others(n.p)[s] = Others(m.p)[s] + (IF terminal THEN 0 ELSE 1)
  <2>1. Others(m.p)[s] = m.p.buffer[s].others
                + IF m.p.flush[s] = None THEN 0 ELSE m.p.flush[s].records.others
    BY <1>0, KeptNumbers
  <2>2. Others(n.p)[s] = m.p.buffer[s].others + (IF terminal THEN 0 ELSE 1)
                + IF m.p.flush[s] = None THEN 0 ELSE m.p.flush[s].records.others
    <3>1. Others(n.p)[s] = n.p.buffer[s].others
                + IF n.p.flush[s] = None THEN 0 ELSE n.p.flush[s].records.others
      BY KeptNumbers
    <3>2. n.p.buffer[s].others = m.p.buffer[s].others + (IF terminal THEN 0 ELSE 1)
          /\ n.p.flush = m.p.flush
      BY <1>1
    <3>3. QED
      BY <3>1, <3>2
  <2>3. Others(m.p)[s] \in Nat
        /\ (m.p.flush[s] # None => m.p.flush[s].records.others \in Nat)
    <3>1. /\ Others(m.p)[s] \in Nat
          /\ m.p.flush[s] # None => m.p.flush[s].records \in Records
      BY <1>0, KeptNumbers
    <3>2. QED
      BY <3>1 DEF Records
  <2>4. QED
    BY <1>4, <2>1, <2>2, <2>3
<1>8. n.p.retained = m.p.retained - Kept(m.p)[s] + Kept(n.p)[s]
  BY <1>0, <1>6
<1>9. n.p.retained <= MaxRetained + Reserve
  BY <1>0, Limits
<1>10. SumFunctionOnSet(Others(m.p), Sessions) - Others(m.p)[s] + Others(n.p)[s]
         <= MaxRetained
  <2> DEFINE o == SumFunctionOnSet(Others(m.p), Sessions)
             k == SumFunctionOnSet(Kept(m.p), Sessions)
  <2>1. o \in Nat /\ k \in Nat /\ o <= k
    BY <1>0, AccountNumbers
  <2>2. k = m.p.retained /\ o <= MaxRetained
    BY DEF Sound, Account
  <2> HIDE DEF o, k
  <2>3. o - Others(m.p)[s] + Others(n.p)[s] <= MaxRetained
    BY <1>0, <1>7, <2>1, <2>2, Limits
  <2>4. QED
    BY <2>3 DEF o
<1>11. QED
  BY <1>2, <1>3, <1>5, <1>8, <1>9, <1>10, SoundLocally

(* The terminals of a session: at most one, or none.                       *)
Single(m, t) ==
    ~ (m.p.buffer[t].terminal /\ m.p.flush[t] # None /\ m.p.flush[t].records.terminal)

NoTerminal(m, t) ==
    ~ m.p.buffer[t].terminal /\ (m.p.flush[t] # None => ~ m.p.flush[t].records.terminal)

(* A method that keeps the terminals keeps that there is one, or none.     *)
LEMMA KeepsSingle ==
    ASSUME NEW m, NEW n, Keeps(m, n), Sound(n), NEW t \in Sessions
    PROVE  (Single(m, t) => Single(n, t)) /\ (NoTerminal(m, t) => NoTerminal(n, t))
<1>1. Unsent(n, t) = Unsent(m, t)
  BY DEF Keeps
<1>2. CASE n.p.flush[t] = m.p.flush[t]
  <2>1. n.p.buffer[t].terminal <=> m.p.buffer[t].terminal
    <3> DEFINE rest == IF m.p.flush[t] # None /\ m.p.flush[t].records.terminal
                          /\ m.p.flush[t].started = 0 /\ m.p.flush[t].stage # "writing"
                       THEN 1 ELSE 0
    <3>1. /\ Unsent(m, t) = (IF m.p.buffer[t].terminal THEN 1 ELSE 0) + rest
          /\ Unsent(n, t) = (IF n.p.buffer[t].terminal THEN 1 ELSE 0) + rest
      BY <1>2 DEF Unsent
    <3>2. rest \in {0, 1}
      OBVIOUS
    <3> HIDE DEF rest
    <3>3. QED
      BY <1>1, <3>1, <3>2
  <2>2. QED
    BY <1>2, <2>1 DEF Single, NoTerminal
<1>3. CASE n.p.flush[t] # m.p.flush[t]
  <2>1. m.p.flush[t] = None /\ n.p.flush[t] # None /\ n.p.flush[t].stage = "queued"
    BY <1>3 DEF Keeps, Grown
  <2>2. n.p.flush[t].started = 0
    BY <2>1 DEF Sound, Chunked
  <2>3. Unsent(m, t) = IF m.p.buffer[t].terminal THEN 1 ELSE 0
    BY <2>1 DEF Unsent
  <2>4. Unsent(n, t) = (IF n.p.buffer[t].terminal THEN 1 ELSE 0)
                         + (IF n.p.flush[t].records.terminal THEN 1 ELSE 0)
    BY <2>1, <2>2 DEF Unsent
  <2>5. QED
    BY <1>1, <2>1, <2>3, <2>4 DEF Single, NoTerminal
<1>4. QED
  BY <1>2, <1>3

(* While every session has one terminal at most and the reserve has room   *)
(* for all of them, it has room for that of a session that has none.       *)
LEMMA ReserveHasRoom ==
    ASSUME NEW m, NEW s \in Sessions, Sound(m), \A t \in Sessions : Single(m, t),
           NoTerminal(m, s), Cardinality(Sessions) <= Reserve
    PROVE  m.p.retained + 1 <= MaxRetained + Reserve
<1> DEFINE rest == Sessions \ {s}
           kept(S) == SumFunctionOnSet(Kept(m.p), S)
           others(S) == SumFunctionOnSet(Others(m.p), S)
<1>0. m \in States
  BY DEF Sound
<1>1. ASSUME NEW t \in Sessions
      PROVE  /\ Kept(m.p)[t] \in Int /\ Others(m.p)[t] \in Int
             /\ Kept(m.p)[t] <= Others(m.p)[t] + 1
             /\ NoTerminal(m, t) => Kept(m.p)[t] <= Others(m.p)[t]
  <2>1. Single(m, t)
    OBVIOUS
  <2>2. m.p.buffer[t] \in Records /\ (m.p.flush[t] # None => m.p.flush[t].records \in Records)
    BY <1>0, KeptNumbers
  <2>3. ASSUME NEW r \in Records
        PROVE  /\ r.others \in Nat /\ Size(r) \in Nat
               /\ Size(r) <= r.others + 1 /\ (~ r.terminal => Size(r) = r.others)
    BY Limits DEF Records, Size
  <2>4. Kept(m.p)[t] = Size(m.p.buffer[t])
                + IF m.p.flush[t] = None THEN 0 ELSE Size(m.p.flush[t].records)
    BY <1>0, KeptNumbers
  <2>5. Others(m.p)[t] = m.p.buffer[t].others
                + IF m.p.flush[t] = None THEN 0 ELSE m.p.flush[t].records.others
    BY <1>0, KeptNumbers
  <2>6. CASE m.p.flush[t] = None
    BY <2>2, <2>3, <2>4, <2>5, <2>6 DEF NoTerminal
  <2>7. CASE m.p.flush[t] # None
    <3> DEFINE b == m.p.buffer[t]
               g == m.p.flush[t].records
    <3>1. b \in Records /\ g \in Records
      BY <2>2, <2>7
    <3>2. ~ b.terminal \/ ~ g.terminal
      BY <2>1, <2>7 DEF Single
    <3>3. NoTerminal(m, t) => ~ b.terminal /\ ~ g.terminal
      BY <2>7 DEF NoTerminal
    <3>4. Kept(m.p)[t] = Size(b) + Size(g) /\ Others(m.p)[t] = b.others + g.others
      BY <2>4, <2>5, <2>7
    <3> HIDE DEF b, g
    <3>5. QED
      BY <2>3, <3>1, <3>2, <3>3, <3>4
  <2>8. QED
    BY <2>6, <2>7
<1>2. IsFiniteSet(rest) /\ Cardinality(rest) = Cardinality(Sessions) - 1
      /\ Cardinality(Sessions) \in Nat
  BY Limits, FS_RemoveElement, FS_CardinalityType
<1>3. kept(Sessions) = Kept(m.p)[s] + kept(rest)
  BY <1>1, Limits, SumRemove
<1>4. others(Sessions) = Others(m.p)[s] + others(rest)
  BY <1>1, Limits, SumRemove
<1>5. kept(rest) \in Int /\ others(rest) \in Int
  BY <1>1, <1>2, SumInt
<1>6. kept(rest) <= others(rest) + Cardinality(rest)
  <2>1. \A t \in rest : /\ Kept(m.p)[t] \in Int /\ Others(m.p)[t] \in Int
                        /\ Kept(m.p)[t] <= Others(m.p)[t] + 1
    BY <1>1
  <2>2. kept(rest) <= others(rest) + IF 1 = 0 THEN 0 ELSE Cardinality(rest)
    BY <1>2, <2>1, SumBounded
  <2>3. QED
    BY <2>2
<1>7. kept(Sessions) = m.p.retained /\ others(Sessions) <= MaxRetained
  BY DEF Sound, Account
<1>8. Kept(m.p)[s] \in Int /\ Others(m.p)[s] \in Int /\ Kept(m.p)[s] <= Others(m.p)[s]
  BY <1>1
<1> DEFINE c == Cardinality(Sessions)
           d == Cardinality(rest)
<1>9. c <= Reserve /\ d = c - 1 /\ c \in Nat
  BY <1>2
<1> HIDE DEF rest, kept, others, c, d
<1>10. kept(rest) <= others(rest) + d
  BY <1>6 DEF d
<1>11. QED
  BY <1>3, <1>4, <1>5, <1>7, <1>8, <1>9, <1>10, Limits

(* The flush that makes room in a full buffer which has no terminal.       *)
LEMMA RoomKeeps ==
    ASSUME NEW m, NEW s \in Sessions, Sound(m), ~ m.p.buffer[s].terminal
    PROVE  LET n == IF Size(m.p.buffer[s]) + 1 > MaxBuffer
                    THEN Schedule(m, s, FALSE) ELSE m
           IN  /\ Sound(n) /\ Keeps(m, n) /\ Size(n.p.buffer[s]) + 1 <= MaxBuffer
               /\ ~ n.p.buffer[s].terminal
<1>0. m.p.buffer[s] \in Records /\ Size(m.p.buffer[s]) \in Nat
  BY KeptNumbers DEF Sound
<1>1. NoRecords \in Records /\ Size(NoRecords) = 0 /\ ~ NoRecords.terminal
  BY Limits DEF Size, NoRecords, Records
<1>2. CASE Size(m.p.buffer[s]) + 1 > MaxBuffer
  <2> DEFINE n == Schedule(m, s, FALSE)
  <2>1. m.p.buffer[s] # NoRecords
    BY <1>0, <1>1, <1>2, Limits
  <2>2. Sound(n) /\ Keeps(m, n) /\ n.p.buffer[s] = NoRecords
    BY <2>1, ScheduleKeeps
  <2> HIDE DEF n
  <2>3. Size(n.p.buffer[s]) + 1 <= MaxBuffer /\ ~ n.p.buffer[s].terminal
    BY <1>1, <2>2, Limits
  <2>4. QED
    BY <1>2, <2>2, <2>3 DEF n
<1>3. CASE ~ (Size(m.p.buffer[s]) + 1 > MaxBuffer)
  <2>1. Keeps(m, m)
    BY KeepsTerminals
  <2>2. Size(m.p.buffer[s]) + 1 <= MaxBuffer
    BY <1>0, <1>3, Limits
  <2>3. QED
    BY <1>3, <2>1, <2>2
<1>4. QED
  BY <1>2, <1>3

(* What a method that may give a session its terminal does to the others:  *)
(* it keeps theirs, and the flushes that run.                              *)
KeepsOthers(m, n, s) ==
    /\ Grown(m, n)
    /\ \A t \in Sessions \ {s} : Unsent(n, t) = Unsent(m, t)

(* #appendRecords: a record is kept or its loss is marked, and the         *)
(* terminal is kept while the reserve has room for those of all sessions.  *)
LEMMA AppendKeeps ==
    ASSUME NEW m, NEW s \in Sessions, NEW terminal \in BOOLEAN, Sound(m),
           \A t \in Sessions : Single(m, t), NoTerminal(m, s)
    PROVE  LET n == Append1(m, s, terminal) IN
           /\ Sound(n) /\ KeepsOthers(m, n, s)
           /\ ~ terminal => Keeps(m, n)
           /\ terminal => /\ Unsent(n, s) \in {0, 1}
                          /\ Cardinality(Sessions) <= Reserve => Unsent(n, s) = 1
<1> DEFINE k == IF Size(m.p.buffer[s]) + 1 > MaxBuffer THEN Schedule(m, s, FALSE) ELSE m
           n == Append1(m, s, terminal)
           over == k.p.retained + 1 > MaxRetained
           full == k.p.retained + 1 > MaxRetained + (IF terminal THEN Reserve ELSE 0)
           base == IF terminal /\ over THEN MarkGap(k, s) ELSE k
           b == [others |-> base.p.buffer[s].others + (IF terminal THEN 0 ELSE 1),
                 terminal |-> terminal]
           more == base.p.retained + 1
           grown == [base EXCEPT !.p.buffer[s] = b, !.p.retained = more]
<1>1. /\ Sound(k) /\ Keeps(m, k) /\ Size(k.p.buffer[s]) + 1 <= MaxBuffer
      /\ ~ k.p.buffer[s].terminal
  BY RoomKeeps DEF NoTerminal
<1>2. n = IF full THEN Lost(k, s)
          ELSE [base EXCEPT
                 !.p.buffer[s] = [others |-> @.others + (IF terminal THEN 0 ELSE 1),
                                  terminal |-> terminal],
                 !.p.retained = @ + 1]
  BY DEF Append1
<1> HIDE DEF k, n
<1>3. (\A t \in Sessions : Single(k, t)) /\ NoTerminal(k, s)
  BY <1>1, KeepsSingle
<1>4. k \in States /\ k.p.retained \in Int
  BY <1>1 DEF Sound, States, Plugins
<1>5. CASE full
  <2>1. Sound(Lost(k, s)) /\ Same(k, Lost(k, s)) /\ n = Lost(k, s)
    BY <1>1, <1>2, <1>5, LostKeeps
  <2>2. Keeps(k, n)
    BY <2>1, KeepsTerminals DEF Same
  <2>3. Keeps(m, n)
    BY <1>1, <2>2, KeepsBoth
  <2>4. ~ (terminal /\ Cardinality(Sessions) <= Reserve)
    <3>1. ASSUME Cardinality(Sessions) <= Reserve, terminal
          PROVE  FALSE
      <4>1. k.p.retained + 1 <= MaxRetained + Reserve
        BY <1>1, <1>3, <3>1, ReserveHasRoom
      <4>2. QED
        BY <1>4, <1>5, <3>1, <4>1, Limits
    <3>2. QED
      BY <3>1
  <2>5. Unsent(n, s) = 0
    <3>1. NoTerminal(n, s)
      BY <1>3, <2>1, <2>2, KeepsSingle
    <3>2. QED
      BY <3>1 DEF NoTerminal, Unsent
  <2>6. KeepsOthers(m, n, s)
    BY <2>3 DEF Keeps, KeepsOthers
  <2>7. QED
    BY <2>1, <2>3, <2>4, <2>5, <2>6 DEF n
<1>6. CASE ~ full
  <2>1. Sound(base) /\ Same(k, base)
    <3>1. Sound(MarkGap(k, s)) /\ Same(k, MarkGap(k, s))
      BY <1>1, MarkGapKeeps
    <3>2. QED
      BY <1>1, <3>1 DEF Same
  <2>2. base.p.buffer = k.p.buffer /\ base.p.flush = k.p.flush
        /\ base.p.retained = k.p.retained
    BY <2>1 DEF Same
  <2> HIDE DEF base
  <2>3. base \in States /\ base.p.retained \in Int /\ base.p.buffer[s] \in Records
    BY <2>1 DEF Sound, States, Plugins
  <2>4. n = grown
    BY <1>2, <1>6, <2>3 DEF States, Plugins
  <2>5. b \in Records /\ (b.terminal <=> terminal)
        /\ b.others = base.p.buffer[s].others + (IF terminal THEN 0 ELSE 1)
    <3>1. k.p.buffer[s] \in Records
      BY <1>4, KeptNumbers
    <3>2. k.p.buffer[s].others \in Nat /\ Size(k.p.buffer[s]) = k.p.buffer[s].others
      BY <1>1, <3>1, Limits DEF Records, Size
    <3>3. base.p.buffer[s].others + (IF terminal THEN 0 ELSE 1) \in 0..MaxBuffer
      BY <1>1, <2>2, <3>2, Limits
    <3>4. QED
      BY <3>3 DEF Records
  <2>5a. b \in Records /\ more \in Int /\ base \in States
    BY <2>3, <2>5
  <2> HIDE DEF b, more
  <2>6. /\ grown \in States /\ grown.p.buffer = [base.p.buffer EXCEPT ![s] = b]
        /\ grown.p.flush = base.p.flush /\ grown.p.checks = base.p.checks
        /\ grown.p.deferred = base.p.deferred /\ grown.p.gap = base.p.gap
        /\ grown.loss = base.loss /\ grown.overflow = base.overflow
        /\ grown.p.retained = more
    BY <2>5a DEF States, Plugins
  <2> HIDE DEF grown
  <2>7. base.p.retained + 1 <= MaxRetained + (IF terminal THEN Reserve ELSE 0)
    BY <1>4, <1>6, <2>2, Limits
  <2>8. Sound(n)
    <3>1. grown.p.retained = base.p.retained + 1
      BY <2>6 DEF more
    <3>2. ~ base.p.buffer[s].terminal /\ Size(base.p.buffer[s]) + 1 <= MaxBuffer
      BY <1>1, <2>2
    <3>3. Sound(grown)
      BY <2>1, <2>5, <2>6, <2>7, <3>1, <3>2, GrowKeeps
    <3>4. QED
      BY <2>4, <3>3
  <2>9. n.p.flush = k.p.flush /\ (n.p.buffer[s].terminal <=> terminal)
        /\ \A t \in Sessions \ {s} : n.p.buffer[t] = k.p.buffer[t]
    BY <1>4, <2>2, <2>4, <2>5, <2>6 DEF States, Plugins
  <2>10. Grown(m, n)
    BY <1>1, <2>9 DEF Keeps, Grown
  <2>11. ASSUME NEW t \in Sessions \ {s}
         PROVE  Unsent(n, t) = Unsent(m, t)
    <3>1. Unsent(n, t) = Unsent(k, t)
      BY <2>9 DEF Unsent
    <3>2. QED
      BY <1>1, <3>1 DEF Keeps
  <2>12. Unsent(n, s) = (IF terminal THEN 1 ELSE 0) /\ Unsent(k, s) = 0
    <3>1. Unsent(k, s) = 0
      BY <1>3 DEF NoTerminal, Unsent
    <3>2. ~ (n.p.flush[s] # None /\ n.p.flush[s].records.terminal)
      BY <1>3, <2>9 DEF NoTerminal
    <3>3. Unsent(n, s) = IF n.p.buffer[s].terminal THEN 1 ELSE 0
      BY <3>2 DEF Unsent
    <3>4. QED
      BY <2>9, <3>1, <3>3
  <2>13. KeepsOthers(m, n, s)
    BY <2>10, <2>11 DEF KeepsOthers
  <2>14. ~ terminal => Keeps(m, n)
    <3>1. Unsent(m, s) = Unsent(k, s)
      BY <1>1 DEF Keeps
    <3>2. QED
      BY <2>10, <2>11, <2>12, <3>1 DEF Keeps
  <2>15. QED
    BY <2>8, <2>12, <2>13, <2>14 DEF n
<1>7. QED
  BY <1>5, <1>6

(* Two states that have the same in every field are the same.              *)
LEMMA SameState ==
    ASSUME NEW m \in States, NEW n \in States,
           n.p.buffer = m.p.buffer, n.p.flush = m.p.flush, n.p.gap = m.p.gap,
           n.p.checks = m.p.checks, n.p.deferred = m.p.deferred,
           n.p.retained = m.p.retained, n.loss = m.loss, n.overflow = m.overflow
    PROVE  n = m
<1>1. n.p = m.p
  BY DEF States, Plugins
<1>2. QED
  BY <1>1 DEF States

(* A session whose flush has ended.                                        *)
Released(m, s) == [m EXCEPT !.p.flush[s] = None, !.p.checks = @ \ {s}]

(* What that leaves alone.                                                 *)
LEMMA ReleasedFields ==
    ASSUME NEW m \in States, NEW s \in Sessions
    PROVE  LET n == Released(m, s) IN
           /\ n \in States /\ n.p.flush = [m.p.flush EXCEPT ![s] = None]
           /\ n.p.checks = m.p.checks \ {s} /\ n.p.buffer = m.p.buffer
           /\ n.p.gap = m.p.gap /\ n.p.deferred = m.p.deferred
           /\ n.p.retained = m.p.retained /\ n.loss = m.loss /\ n.overflow = m.overflow
BY DEF Released, States, Plugins

(* It does not matter to the methods of #restoreTerminal whether that is   *)
(* noted before or after them.                                             *)
LEMMA ReleasedMarkGap ==
    ASSUME NEW m \in States, NEW s \in Sessions
    PROVE  /\ MarkGap(m, s) \in States
           /\ Released(MarkGap(m, s), s) = MarkGap(Released(m, s), s)
<1> DEFINE r == Released(m, s)
           n == MarkGap(m, s)
<1>1. /\ r \in States /\ r.p.flush = [m.p.flush EXCEPT ![s] = None]
      /\ r.p.checks = m.p.checks \ {s} /\ r.p.buffer = m.p.buffer
      /\ r.p.gap = m.p.gap /\ r.p.deferred = m.p.deferred
      /\ r.p.retained = m.p.retained /\ r.loss = m.loss /\ r.overflow = m.overflow
  BY ReleasedFields
<1> HIDE DEF r
<1>2. Gaps(r) = Gaps(m)
  BY <1>1 DEF Gaps
<1>3. CASE s \in Gaps(m) \/ Cardinality(Gaps(m)) < MaxGaps
  <2>1. n = [m EXCEPT !.p.gap[s] = "marked"]
    BY <1>3 DEF MarkGap
  <2>2. MarkGap(r, s) = [r EXCEPT !.p.gap[s] = "marked"]
    BY <1>2, <1>3 DEF MarkGap
  <2> DEFINE x == [r EXCEPT !.p.gap[s] = "marked"]
  <2> HIDE DEF n
  <2>3. /\ n \in States /\ n.p.gap = [m.p.gap EXCEPT ![s] = "marked"]
        /\ n.p.flush = m.p.flush
        /\ n.p.checks = m.p.checks /\ n.p.buffer = m.p.buffer
        /\ n.p.deferred = m.p.deferred /\ n.p.retained = m.p.retained
        /\ n.loss = m.loss /\ n.overflow = m.overflow
    BY <2>1 DEF States, Plugins
  <2>4. /\ x \in States /\ x.p.gap = [r.p.gap EXCEPT ![s] = "marked"]
        /\ x.p.flush = r.p.flush
        /\ x.p.checks = r.p.checks /\ x.p.buffer = r.p.buffer
        /\ x.p.deferred = r.p.deferred /\ x.p.retained = r.p.retained
        /\ x.loss = r.loss /\ x.overflow = r.overflow
    BY <1>1 DEF States, Plugins
  <2> HIDE DEF x
  <2> DEFINE y == Released(n, s)
  <2>5. /\ y \in States /\ y.p.flush = [n.p.flush EXCEPT ![s] = None]
        /\ y.p.checks = n.p.checks \ {s} /\ y.p.buffer = n.p.buffer
        /\ y.p.gap = n.p.gap /\ y.p.deferred = n.p.deferred
        /\ y.p.retained = n.p.retained /\ y.loss = n.loss /\ y.overflow = n.overflow
    BY <2>3, ReleasedFields
  <2> HIDE DEF y
  <2>6. y = x
    <3>1. /\ y.p.buffer = x.p.buffer /\ y.p.flush = x.p.flush /\ y.p.gap = x.p.gap
          /\ y.p.checks = x.p.checks /\ y.p.deferred = x.p.deferred
          /\ y.p.retained = x.p.retained /\ y.loss = x.loss /\ y.overflow = x.overflow
      BY <1>1, <2>3, <2>4, <2>5
    <3>2. y \in States /\ x \in States
      BY <2>4, <2>5
    <3>3. QED
      BY <3>1, <3>2, SameState
  <2>7. QED
    BY <2>2, <2>3, <2>6 DEF x, y, n, r
<1>4. CASE ~ (s \in Gaps(m) \/ Cardinality(Gaps(m)) < MaxGaps)
  <2>1. n = [m EXCEPT !.overflow = @ \cup {s}]
    BY <1>4 DEF MarkGap
  <2>2. MarkGap(r, s) = [r EXCEPT !.overflow = @ \cup {s}]
    BY <1>2, <1>4 DEF MarkGap
  <2> DEFINE x == [r EXCEPT !.overflow = @ \cup {s}]
  <2> HIDE DEF n
  <2>3. /\ n \in States /\ n.p = m.p
        /\ n.loss = m.loss /\ n.overflow = m.overflow \cup {s}
    BY <2>1 DEF States
  <2>4. /\ x \in States /\ x.p = r.p
        /\ x.loss = r.loss /\ x.overflow = r.overflow \cup {s}
    BY <1>1 DEF States
  <2> HIDE DEF x
  <2> DEFINE y == Released(n, s)
  <2>5. /\ y \in States /\ y.p.flush = [n.p.flush EXCEPT ![s] = None]
        /\ y.p.checks = n.p.checks \ {s} /\ y.p.buffer = n.p.buffer
        /\ y.p.gap = n.p.gap /\ y.p.deferred = n.p.deferred
        /\ y.p.retained = n.p.retained /\ y.loss = n.loss /\ y.overflow = n.overflow
    BY <2>3, ReleasedFields
  <2> HIDE DEF y
  <2>6. y = x
    <3>1. /\ y.p.buffer = x.p.buffer /\ y.p.flush = x.p.flush /\ y.p.gap = x.p.gap
          /\ y.p.checks = x.p.checks /\ y.p.deferred = x.p.deferred
          /\ y.p.retained = x.p.retained /\ y.loss = x.loss /\ y.overflow = x.overflow
      BY <1>1, <2>3, <2>4, <2>5
    <3>2. y \in States /\ x \in States
      BY <2>4, <2>5
    <3>3. QED
      BY <3>1, <3>2, SameState
  <2>7. QED
    BY <2>2, <2>3, <2>6 DEF x, y, n, r
<1>5. QED
  BY <1>3, <1>4

(* A step that does not look at what Released changes commutes with it.    *)
LEMMA ReleasedCommutes ==
    ASSUME NEW m \in States, NEW n \in States, NEW x \in States, NEW s \in Sessions,
           n.p.flush = m.p.flush, n.p.checks = m.p.checks,
           x.p.flush = Released(m, s).p.flush, x.p.checks = Released(m, s).p.checks,
           x.p.buffer = n.p.buffer, x.p.gap = n.p.gap, x.p.deferred = n.p.deferred,
           x.p.retained = n.p.retained, x.loss = n.loss, x.overflow = n.overflow
    PROVE  Released(n, s) = x
<1> DEFINE r == Released(m, s)
           y == Released(n, s)
<1>1. r.p.flush = [m.p.flush EXCEPT ![s] = None] /\ r.p.checks = m.p.checks \ {s}
  BY ReleasedFields
<1>2. /\ y \in States /\ y.p.flush = [n.p.flush EXCEPT ![s] = None]
      /\ y.p.checks = n.p.checks \ {s} /\ y.p.buffer = n.p.buffer
      /\ y.p.gap = n.p.gap /\ y.p.deferred = n.p.deferred
      /\ y.p.retained = n.p.retained /\ y.loss = n.loss /\ y.overflow = n.overflow
  BY ReleasedFields
<1> HIDE DEF r, y
<1>3. /\ y.p.buffer = x.p.buffer /\ y.p.flush = x.p.flush /\ y.p.gap = x.p.gap
      /\ y.p.checks = x.p.checks /\ y.p.deferred = x.p.deferred
      /\ y.p.retained = x.p.retained /\ y.loss = x.loss /\ y.overflow = x.overflow
  BY <1>1, <1>2 DEF r
<1>4. y \in States
  BY <1>2
<1>5. y = x
  BY <1>3, <1>4, SameState
<1>6. QED
  BY <1>5 DEF y

(* So does the loss of a record ...                                        *)
LEMMA ReleasedLost ==
    ASSUME NEW m \in States, NEW s \in Sessions
    PROVE  /\ Lost(m, s) \in States
           /\ Released(Lost(m, s), s) = Lost(Released(m, s), s)
<1> DEFINE k == MarkGap(m, s)
           r == Released(k, s)
           n == [k EXCEPT !.loss[s] = "new"]
           x == [r EXCEPT !.loss[s] = "new"]
<1>1. k \in States /\ Lost(m, s) = n /\ Lost(Released(m, s), s) = x
  BY ReleasedMarkGap DEF Lost
<1>2. r \in States
  BY <1>1, ReleasedFields
<1>3. r.p.buffer = k.p.buffer /\ r.p.gap = k.p.gap /\ r.p.deferred = k.p.deferred
      /\ r.p.retained = k.p.retained /\ r.loss = k.loss /\ r.overflow = k.overflow
  BY <1>1, ReleasedFields
<1> HIDE DEF k, r
<1>4. n \in States /\ n.p = k.p /\ n.overflow = k.overflow
      /\ n.loss = [k.loss EXCEPT ![s] = "new"]
  BY <1>1 DEF States
<1>5. x \in States /\ x.p = r.p /\ x.overflow = r.overflow
      /\ x.loss = [r.loss EXCEPT ![s] = "new"]
  BY <1>2 DEF States
<1> HIDE DEF n, x
<1>6. Released(n, s) = x
  <2>1. /\ x.p.flush = Released(k, s).p.flush /\ x.p.checks = Released(k, s).p.checks
        /\ x.p.buffer = n.p.buffer /\ x.p.gap = n.p.gap /\ x.p.deferred = n.p.deferred
        /\ x.p.retained = n.p.retained /\ x.loss = n.loss /\ x.overflow = n.overflow
    BY <1>3, <1>4, <1>5 DEF r
  <2>2. n.p.flush = k.p.flush /\ n.p.checks = k.p.checks
    BY <1>4
  <2>3. n \in States /\ x \in States /\ k \in States
    BY <1>1, <1>4, <1>5
  <2>4. QED
    BY <2>1, <2>2, <2>3, ReleasedCommutes
<1>7. QED
  BY <1>1, <1>4, <1>6 DEF n, x

(* ... and the deferral of a terminal.                                     *)
LEMMA ReleasedDeferTerminal ==
    ASSUME NEW m \in States, NEW s \in Sessions
    PROVE  Released(DeferTerminal(m, s), s) = DeferTerminal(Released(m, s), s)
<1> DEFINE r == Released(m, s)
           n == [m EXCEPT !.p.deferred = @ \cup {s}]
           x == [r EXCEPT !.p.deferred = @ \cup {s}]
<1>1. r \in States /\ r.p.buffer = m.p.buffer /\ r.p.gap = m.p.gap
      /\ r.p.deferred = m.p.deferred
      /\ r.p.retained = m.p.retained /\ r.loss = m.loss /\ r.overflow = m.overflow
  BY ReleasedFields
<1> HIDE DEF r
<1>2. CASE Cardinality(m.p.deferred) < MaxDeferred
  <2>1. DeferTerminal(m, s) = n /\ DeferTerminal(r, s) = x
    BY <1>1, <1>2 DEF DeferTerminal
  <2>2. /\ n \in States /\ n.p.deferred = m.p.deferred \cup {s}
        /\ n.p.flush = m.p.flush /\ n.p.checks = m.p.checks
        /\ n.p.buffer = m.p.buffer /\ n.p.gap = m.p.gap
        /\ n.p.retained = m.p.retained /\ n.loss = m.loss /\ n.overflow = m.overflow
    BY DEF States, Plugins
  <2>3. /\ x \in States /\ x.p.deferred = r.p.deferred \cup {s}
        /\ x.p.flush = r.p.flush /\ x.p.checks = r.p.checks
        /\ x.p.buffer = r.p.buffer /\ x.p.gap = r.p.gap
        /\ x.p.retained = r.p.retained /\ x.loss = r.loss /\ x.overflow = r.overflow
    BY <1>1 DEF States, Plugins
  <2> HIDE DEF n, x
  <2>4. Released(n, s) = x
    <3>1. /\ x.p.flush = Released(m, s).p.flush /\ x.p.checks = Released(m, s).p.checks
          /\ x.p.buffer = n.p.buffer /\ x.p.gap = n.p.gap /\ x.p.deferred = n.p.deferred
          /\ x.p.retained = n.p.retained /\ x.loss = n.loss /\ x.overflow = n.overflow
      BY <1>1, <2>2, <2>3 DEF r
    <3>2. n \in States /\ x \in States /\ n.p.flush = m.p.flush /\ n.p.checks = m.p.checks
      BY <2>2, <2>3
    <3>3. QED
      BY <3>1, <3>2, ReleasedCommutes
  <2>5. QED
    BY <2>1, <2>4 DEF r
<1>3. CASE ~ (Cardinality(m.p.deferred) < MaxDeferred)
  BY <1>1, <1>3 DEF DeferTerminal, r
<1>4. QED
  BY <1>2, <1>3

(* The two states of #restoreTerminal: what is buffered makes room, and    *)
(* the terminal takes it.                                                  *)
Cleared(m, s) ==
    [m EXCEPT !.p.buffer[s] = NoRecords, !.p.retained = @ - Size(m.p.buffer[s])]

Filled(m, s) == [m EXCEPT !.p.buffer[s].terminal = TRUE, !.p.retained = @ + 1]

(* What a buffer that is dropped changes.                                  *)
LEMMA ClearedFields ==
    ASSUME NEW m \in States, NEW s \in Sessions
    PROVE  LET n == Cleared(m, s) IN
           /\ n \in States /\ n.p.buffer = [m.p.buffer EXCEPT ![s] = NoRecords]
           /\ n.p.retained = m.p.retained - Size(m.p.buffer[s])
           /\ n.p.flush = m.p.flush /\ n.p.checks = m.p.checks
           /\ n.p.gap = m.p.gap /\ n.p.deferred = m.p.deferred
           /\ n.loss = m.loss /\ n.overflow = m.overflow
<1> DEFINE left == m.p.retained - Size(m.p.buffer[s])
           n == [m EXCEPT !.p.buffer[s] = NoRecords, !.p.retained = left]
<1>1. m.p.retained \in Int /\ Size(m.p.buffer[s]) \in Nat
  BY KeptNumbers DEF States, Plugins
<1>2. left \in Int /\ NoRecords \in Records
  BY <1>1, Limits DEF Records, NoRecords
<1>3. Cleared(m, s) = n
  BY DEF Cleared, States, Plugins
<1> HIDE DEF left
<1>4. /\ n \in States /\ n.p.buffer = [m.p.buffer EXCEPT ![s] = NoRecords]
      /\ n.p.retained = left
      /\ n.p.flush = m.p.flush /\ n.p.checks = m.p.checks
      /\ n.p.gap = m.p.gap /\ n.p.deferred = m.p.deferred
      /\ n.loss = m.loss /\ n.overflow = m.overflow
  BY <1>2 DEF States, Plugins
<1> HIDE DEF n
<1>5. QED
  BY <1>3, <1>4 DEF left

(* What a terminal that is put back changes.                               *)
LEMMA FilledFields ==
    ASSUME NEW m \in States, NEW s \in Sessions
    PROVE  LET n == Filled(m, s)
               b == [m.p.buffer[s] EXCEPT !.terminal = TRUE]
           IN
           /\ n \in States /\ n.p.buffer = [m.p.buffer EXCEPT ![s] = b]
           /\ b \in Records /\ b.terminal /\ b.others = m.p.buffer[s].others
           /\ n.p.retained = m.p.retained + 1
           /\ n.p.flush = m.p.flush /\ n.p.checks = m.p.checks
           /\ n.p.gap = m.p.gap /\ n.p.deferred = m.p.deferred
           /\ n.loss = m.loss /\ n.overflow = m.overflow
<1> DEFINE b == [m.p.buffer[s] EXCEPT !.terminal = TRUE]
           more == m.p.retained + 1
           n == [m EXCEPT !.p.buffer[s] = b, !.p.retained = more]
<1>1. m.p.retained \in Int /\ m.p.buffer[s] \in Records
  BY KeptNumbers DEF States, Plugins
<1>2. more \in Int /\ b \in Records /\ b.terminal /\ b.others = m.p.buffer[s].others
  <2>1. ASSUME NEW r \in Records
        PROVE  LET q == [r EXCEPT !.terminal = TRUE] IN
               q \in Records /\ q.terminal /\ q.others = r.others
    <3>1. [r EXCEPT !.terminal = TRUE] \in Records
      BY DEF Records
    <3>2. [r EXCEPT !.terminal = TRUE].terminal
      BY DEF Records
    <3>3. [r EXCEPT !.terminal = TRUE].others = r.others
      BY DEF Records
    <3>4. QED
      BY <3>1, <3>2, <3>3
  <2>2. QED
    BY <1>1, <2>1
<1>3. Filled(m, s) = n
  BY DEF Filled, States, Plugins
<1> HIDE DEF b, more
<1>4. /\ n \in States /\ n.p.buffer = [m.p.buffer EXCEPT ![s] = b]
      /\ n.p.retained = more
      /\ n.p.flush = m.p.flush /\ n.p.checks = m.p.checks
      /\ n.p.gap = m.p.gap /\ n.p.deferred = m.p.deferred
      /\ n.loss = m.loss /\ n.overflow = m.overflow
  BY <1>2 DEF States, Plugins
<1> HIDE DEF n
<1>5. QED
  BY <1>2, <1>3, <1>4 DEF b, more

(* Released commutes with both: with the first ...                         *)
LEMMA ReleasedCleared ==
    ASSUME NEW m \in States, NEW s \in Sessions
    PROVE  Released(Cleared(m, s), s) = Cleared(Released(m, s), s)
<1> DEFINE r == Released(m, s)
           n == Cleared(m, s)
           x == Cleared(r, s)
<1>1. r \in States /\ r.p.buffer = m.p.buffer /\ r.p.gap = m.p.gap
      /\ r.p.deferred = m.p.deferred
      /\ r.p.retained = m.p.retained /\ r.loss = m.loss /\ r.overflow = m.overflow
  BY ReleasedFields
<1>2. /\ n \in States /\ n.p.buffer = [m.p.buffer EXCEPT ![s] = NoRecords]
      /\ n.p.retained = m.p.retained - Size(m.p.buffer[s])
      /\ n.p.flush = m.p.flush /\ n.p.checks = m.p.checks
      /\ n.p.gap = m.p.gap /\ n.p.deferred = m.p.deferred
      /\ n.loss = m.loss /\ n.overflow = m.overflow
  BY ClearedFields
<1> HIDE DEF r
<1>3. /\ x \in States /\ x.p.buffer = [r.p.buffer EXCEPT ![s] = NoRecords]
      /\ x.p.retained = r.p.retained - Size(r.p.buffer[s])
      /\ x.p.flush = r.p.flush /\ x.p.checks = r.p.checks
      /\ x.p.gap = r.p.gap /\ x.p.deferred = r.p.deferred
      /\ x.loss = r.loss /\ x.overflow = r.overflow
  BY <1>1, ClearedFields
<1> HIDE DEF n, x
<1>4. /\ x.p.flush = Released(m, s).p.flush /\ x.p.checks = Released(m, s).p.checks
      /\ x.p.buffer = n.p.buffer /\ x.p.gap = n.p.gap /\ x.p.deferred = n.p.deferred
      /\ x.p.retained = n.p.retained /\ x.loss = n.loss /\ x.overflow = n.overflow
  BY <1>1, <1>2, <1>3 DEF r
<1>5. n \in States /\ x \in States /\ n.p.flush = m.p.flush /\ n.p.checks = m.p.checks
  BY <1>2, <1>3
<1>6. Released(n, s) = x
  BY <1>4, <1>5, ReleasedCommutes
<1>7. QED
  BY <1>6 DEF n, x, r

(* ... and with the second.                                                *)
LEMMA ReleasedFilled ==
    ASSUME NEW m \in States, NEW s \in Sessions
    PROVE  Released(Filled(m, s), s) = Filled(Released(m, s), s)
<1> DEFINE r == Released(m, s)
           n == Filled(m, s)
           x == Filled(r, s)
<1>1. r \in States /\ r.p.buffer = m.p.buffer /\ r.p.gap = m.p.gap
      /\ r.p.deferred = m.p.deferred
      /\ r.p.retained = m.p.retained /\ r.loss = m.loss /\ r.overflow = m.overflow
  BY ReleasedFields
<1>2. /\ n \in States
      /\ n.p.buffer = [m.p.buffer EXCEPT ![s] = [m.p.buffer[s] EXCEPT !.terminal = TRUE]]
      /\ n.p.retained = m.p.retained + 1
      /\ n.p.flush = m.p.flush /\ n.p.checks = m.p.checks
      /\ n.p.gap = m.p.gap /\ n.p.deferred = m.p.deferred
      /\ n.loss = m.loss /\ n.overflow = m.overflow
  BY FilledFields
<1> HIDE DEF r
<1>3. /\ x \in States
      /\ x.p.buffer = [r.p.buffer EXCEPT ![s] = [r.p.buffer[s] EXCEPT !.terminal = TRUE]]
      /\ x.p.retained = r.p.retained + 1
      /\ x.p.flush = r.p.flush /\ x.p.checks = r.p.checks
      /\ x.p.gap = r.p.gap /\ x.p.deferred = r.p.deferred
      /\ x.loss = r.loss /\ x.overflow = r.overflow
  BY <1>1, FilledFields
<1> HIDE DEF n, x
<1>4. /\ x.p.flush = Released(m, s).p.flush /\ x.p.checks = Released(m, s).p.checks
      /\ x.p.buffer = n.p.buffer /\ x.p.gap = n.p.gap /\ x.p.deferred = n.p.deferred
      /\ x.p.retained = n.p.retained /\ x.loss = n.loss /\ x.overflow = n.overflow
  BY <1>1, <1>2, <1>3 DEF r
<1>5. n \in States /\ x \in States /\ n.p.flush = m.p.flush /\ n.p.checks = m.p.checks
  BY <1>2, <1>3
<1>6. Released(n, s) = x
  BY <1>4, <1>5, ReleasedCommutes
<1>7. QED
  BY <1>6 DEF n, x, r

\* Restore in terms of its two states.
Roomy(m, s) ==
    IF m.p.buffer[s] # NoRecords /\ Size(m.p.buffer[s]) + 1 > MaxBuffer
    THEN Lost(Cleared(m, s), s) ELSE m

(* #restoreTerminal in terms of these.                                     *)
LEMMA RestoreIs ==
    ASSUME NEW m, NEW s
    PROVE  Restore(m, s) =
             IF m.p.buffer[s].terminal THEN DeferTerminal(m, s)
             ELSE IF Roomy(m, s).p.retained + 1 > MaxRetained + Reserve
                  THEN Lost(Roomy(m, s), s)
                  ELSE DeferTerminal(Filled(Roomy(m, s), s), s)
BY DEF Restore, Roomy, Cleared, Filled

(* The code restores the terminal and then gives up the place of the       *)
(* flush: it might as well have given that up first.                       *)
LEMMA ReleasedRestore ==
    ASSUME NEW m \in States, NEW s \in Sessions
    PROVE  Released(Restore(m, s), s) = Restore(Released(m, s), s)
<1> DEFINE r == Released(m, s)
           k == Roomy(m, s)
<1>1. r \in States /\ r.p.buffer = m.p.buffer
  BY ReleasedFields
<1>2. k \in States /\ Released(k, s) = Roomy(r, s)
  <2>1. Cleared(m, s) \in States /\ Released(Cleared(m, s), s) = Cleared(r, s)
    BY ClearedFields, ReleasedCleared
  <2>2. Lost(Cleared(m, s), s) \in States
        /\ Released(Lost(Cleared(m, s), s), s) = Lost(Cleared(r, s), s)
    BY <2>1, ReleasedLost
  <2> HIDE DEF r
  <2>3. CASE m.p.buffer[s] # NoRecords /\ Size(m.p.buffer[s]) + 1 > MaxBuffer
    BY <1>1, <2>2, <2>3 DEF Roomy
  <2>4. CASE ~ (m.p.buffer[s] # NoRecords /\ Size(m.p.buffer[s]) + 1 > MaxBuffer)
    <3>1. k = m /\ Roomy(r, s) = r
      BY <1>1, <2>4 DEF Roomy
    <3>2. QED
      BY <3>1 DEF r
  <2>5. QED
    BY <2>3, <2>4
<1> HIDE DEF k
<1>3. Roomy(r, s).p.retained = k.p.retained
  <2>1. Released(k, s).p.retained = k.p.retained
    BY <1>2, ReleasedFields
  <2>2. QED
    BY <1>2, <2>1
<1>4. Released(DeferTerminal(m, s), s) = DeferTerminal(r, s)
  BY ReleasedDeferTerminal
<1>5. Released(Lost(k, s), s) = Lost(Roomy(r, s), s)
  BY <1>2, ReleasedLost
<1>6. Released(DeferTerminal(Filled(k, s), s), s) = DeferTerminal(Filled(Roomy(r, s), s), s)
  <2>1. Filled(k, s) \in States
    BY <1>2, FilledFields
  <2>2. Released(DeferTerminal(Filled(k, s), s), s)
          = DeferTerminal(Released(Filled(k, s), s), s)
    BY <2>1, ReleasedDeferTerminal
  <2>3. Released(Filled(k, s), s) = Filled(Released(k, s), s)
    BY <1>2, ReleasedFilled
  <2>4. QED
    BY <1>2, <2>2, <2>3
<1>7. Restore(m, s) = IF m.p.buffer[s].terminal THEN DeferTerminal(m, s)
                      ELSE IF k.p.retained + 1 > MaxRetained + Reserve
                           THEN Lost(k, s) ELSE DeferTerminal(Filled(k, s), s)
  BY RestoreIs DEF k
<1> HIDE DEF r
<1>8. Restore(r, s) = IF m.p.buffer[s].terminal THEN DeferTerminal(r, s)
                      ELSE IF k.p.retained + 1 > MaxRetained + Reserve
                           THEN Lost(Roomy(r, s), s)
                           ELSE DeferTerminal(Filled(Roomy(r, s), s), s)
  BY <1>1, <1>3, RestoreIs
<1>9. Released(Restore(m, s), s) = Restore(r, s)
  BY <1>4, <1>5, <1>6, <1>7, <1>8
<1>10. QED
  BY <1>9 DEF r

(* #restoreTerminal, for a session of which nothing else is flushed and no *)
(* other terminal is buffered: its terminal is kept while the reserve has  *)
(* room for those of all sessions.                                         *)
LEMMA RestoreKeeps ==
    ASSUME NEW m, NEW s \in Sessions, Sound(m),
           \A t \in Sessions : Single(m, t), NoTerminal(m, s)
    PROVE  LET n == Restore(m, s) IN
           /\ Sound(n) /\ KeepsOthers(m, n, s) /\ n.p.flush = m.p.flush
           /\ Unsent(n, s) \in {0, 1}
           /\ Cardinality(Sessions) <= Reserve => Unsent(n, s) = 1
<1> DEFINE k == Roomy(m, s)
           n == Restore(m, s)
<1>0. m \in States
  BY DEF Sound
<1>1. /\ m.p.buffer[s] \in Records /\ Size(m.p.buffer[s]) \in Nat /\ ~ m.p.buffer[s].terminal
      /\ NoRecords \in Records /\ Size(NoRecords) = 0 /\ ~ NoRecords.terminal
      /\ NoRecords.others = 0 /\ m.p.buffer[s].others \in Nat
  BY <1>0, KeptNumbers, Limits DEF NoTerminal, Records, NoRecords, Size
<1>2. /\ Sound(k) /\ k.p.flush = m.p.flush /\ Size(k.p.buffer[s]) + 1 <= MaxBuffer
      /\ \A t \in Sessions : k.p.buffer[t].terminal <=> m.p.buffer[t].terminal
  <2>1. CASE m.p.buffer[s] # NoRecords /\ Size(m.p.buffer[s]) + 1 > MaxBuffer
    <3> DEFINE c == Cleared(m, s)
    <3>1. k = Lost(c, s)
      BY <2>1 DEF Roomy
    <3>2. /\ c \in States /\ c.p.buffer = [m.p.buffer EXCEPT ![s] = NoRecords]
          /\ c.p.retained = m.p.retained - Size(m.p.buffer[s])
          /\ c.p.flush = m.p.flush /\ c.p.checks = m.p.checks
          /\ c.p.gap = m.p.gap /\ c.p.deferred = m.p.deferred
          /\ c.loss = m.loss /\ c.overflow = m.overflow
      BY <1>0, ClearedFields
    <3> HIDE DEF c, k
    <3>3. c.p.retained = m.p.retained - Size(m.p.buffer[s]) + Size(NoRecords)
      BY <1>0, <1>1, <3>2 DEF States, Plugins
    <3>4. NoRecords.others <= m.p.buffer[s].others /\ Size(NoRecords) <= Size(m.p.buffer[s])
      BY <1>1
    <3>5. Sound(c)
      BY <1>1, <3>2, <3>3, <3>4, ShrinkKeeps
    <3>6. Sound(k) /\ Same(c, k)
      BY <3>1, <3>5, LostKeeps
    <3>7. k.p.buffer = [m.p.buffer EXCEPT ![s] = NoRecords] /\ k.p.flush = m.p.flush
      BY <3>2, <3>6 DEF Same
    <3>8. \A t \in Sessions : k.p.buffer[t].terminal <=> m.p.buffer[t].terminal
      BY <1>0, <1>1, <3>7 DEF States, Plugins
    <3>9. Size(k.p.buffer[s]) + 1 <= MaxBuffer
      <4>1. k.p.buffer[s] = NoRecords
        BY <1>0, <3>7 DEF States, Plugins
      <4>2. QED
        BY <1>1, <4>1, Limits
    <3>10. QED
      BY <3>6, <3>7, <3>8, <3>9
  <2>2. CASE ~ (m.p.buffer[s] # NoRecords /\ Size(m.p.buffer[s]) + 1 > MaxBuffer)
    <3>1. k = m
      BY <2>2 DEF Roomy
    <3>2. Size(m.p.buffer[s]) + 1 <= MaxBuffer
      BY <1>1, <2>2, Limits
    <3> HIDE DEF k
    <3>3. QED
      BY <3>1, <3>2
  <2>3. QED
    BY <2>1, <2>2
<1>3. n = IF k.p.retained + 1 > MaxRetained + Reserve
          THEN Lost(k, s) ELSE DeferTerminal(Filled(k, s), s)
  BY <1>1, RestoreIs
<1> HIDE DEF k, n
<1>4. Keeps(m, k)
  BY <1>2, KeepsTerminals
<1>5. (\A t \in Sessions : Single(k, t)) /\ NoTerminal(k, s)
  BY <1>2, <1>4, KeepsSingle
<1>6. k \in States /\ k.p.retained \in Int
  BY <1>2 DEF Sound, States, Plugins
<1>7. CASE k.p.retained + 1 > MaxRetained + Reserve
  <2>1. Sound(n) /\ Same(k, n)
    BY <1>2, <1>3, <1>7, LostKeeps
  <2>2. Keeps(k, n)
    BY <2>1, KeepsTerminals DEF Same
  <2>3. Keeps(m, n)
    BY <1>4, <2>2, KeepsBoth
  <2>4. ~ (Cardinality(Sessions) <= Reserve)
    <3>1. ASSUME Cardinality(Sessions) <= Reserve
          PROVE  FALSE
      <4>1. k.p.retained + 1 <= MaxRetained + Reserve
        BY <1>2, <1>5, <3>1, ReserveHasRoom
      <4>2. QED
        BY <1>6, <1>7, <4>1, Limits
    <3>2. QED
      BY <3>1
  <2>5. Unsent(n, s) = 0
    <3>1. NoTerminal(n, s)
      BY <1>5, <2>1, <2>2, KeepsSingle
    <3>2. QED
      BY <3>1 DEF NoTerminal, Unsent
  <2>6. KeepsOthers(m, n, s) /\ n.p.flush = m.p.flush
    BY <1>2, <2>1, <2>3 DEF Keeps, KeepsOthers, Same
  <2>7. QED
    BY <2>1, <2>4, <2>5, <2>6 DEF n
<1>8. CASE ~ (k.p.retained + 1 > MaxRetained + Reserve)
  <2> DEFINE g == Filled(k, s)
             b == [k.p.buffer[s] EXCEPT !.terminal = TRUE]
  <2>1. /\ g \in States /\ g.p.buffer = [k.p.buffer EXCEPT ![s] = b]
        /\ b \in Records /\ b.terminal /\ b.others = k.p.buffer[s].others
        /\ g.p.retained = k.p.retained + 1
        /\ g.p.flush = k.p.flush /\ g.p.checks = k.p.checks
        /\ g.p.gap = k.p.gap /\ g.p.deferred = k.p.deferred
        /\ g.loss = k.loss /\ g.overflow = k.overflow
    BY <1>6, FilledFields
  <2>2. n = DeferTerminal(g, s)
    BY <1>3, <1>8
  <2> HIDE DEF g, b
  <2>3. Sound(g)
    <3>1. k.p.buffer[s].others \in Nat
      BY <1>6, KeptNumbers DEF Records
    <3>2. b.others = k.p.buffer[s].others + (IF TRUE THEN 0 ELSE 1)
      BY <2>1, <3>1
    <3>3. k.p.retained + 1 <= MaxRetained + (IF TRUE THEN Reserve ELSE 0)
      BY <1>6, <1>8, Limits
    <3>4. ~ k.p.buffer[s].terminal /\ Size(k.p.buffer[s]) + 1 <= MaxBuffer
          /\ (b.terminal <=> TRUE) /\ TRUE \in BOOLEAN
      BY <1>2, <1>1, <2>1
    <3>5. QED
      BY <1>2, <2>1, <3>2, <3>3, <3>4, GrowKeeps
  <2>4. Sound(n) /\ Same(g, n)
    BY <2>2, <2>3, DeferTerminalKeeps
  <2>5. /\ n.p.flush = m.p.flush /\ n.p.buffer[s].terminal
        /\ \A t \in Sessions \ {s} : n.p.buffer[t].terminal <=> m.p.buffer[t].terminal
    BY <1>2, <1>6, <2>1, <2>4 DEF Same, States, Plugins
  <2>6. KeepsOthers(m, n, s)
    <3>1. ASSUME NEW t \in Sessions \ {s}
          PROVE  Unsent(n, t) = Unsent(m, t)
      <4>1. n.p.buffer[t].terminal <=> m.p.buffer[t].terminal
        BY <2>5
      <4>2. QED
        BY <2>5, <4>1 DEF Unsent
    <3>2. QED
      BY <2>5, <3>1 DEF KeepsOthers, Grown
  <2>7. Unsent(n, s) = 1
    <3>1. ~ (n.p.flush[s] # None /\ n.p.flush[s].records.terminal)
      BY <2>5 DEF NoTerminal
    <3>2. Unsent(n, s) = IF n.p.buffer[s].terminal THEN 1 ELSE 0
      BY <3>1 DEF Unsent
    <3>3. QED
      BY <2>5, <3>2
  <2>8. QED
    BY <2>4, <2>5, <2>6, <2>7 DEF n
<1>9. QED
  BY <1>7, <1>8

(* ------------------------------- the steps ------------------------------ *)

(* What a step makes of the state is the state that follows.               *)
LEMMA BecomeIs ==
    ASSUME NEW m \in States, Become(m)
    PROVE  State' = m /\ plugin' = m.p
BY DEF Become, State, States

(* What dispose awaits are flushes that run.                               *)
Awaited ==
    /\ closing \in [phase : {"open", "tails", "chain", "done"}, pass : 0..MaxPasses,
                    chain : SUBSET Sessions, tails : SUBSET Sessions]
    /\ closing.chain \cup closing.tails \subseteq Flushing(State)

(* What a session has sent, and how often it may.                          *)
Sent == \A s \in Sessions : Once(State, s, attempted[s], s \in finished)

(* A session has one terminal at most, and none before its reducer has     *)
(* given it.                                                               *)
LEMMA OnceSingle ==
    ASSUME NEW m, NEW s \in Sessions, NEW tries \in Nat, NEW over \in BOOLEAN,
           Sound(m), Once(m, s, tries, over)
    PROVE  Single(m, s) /\ (~ over => NoTerminal(m, s) /\ tries = 0)
<1> DEFINE f == m.p.flush[s]
           bit == IF m.p.buffer[s].terminal THEN 1 ELSE 0
           rest == IF f # None /\ f.records.terminal /\ f.started = 0 /\ f.stage # "writing"
                   THEN 1 ELSE 0
<1>1. Unsent(m, s) = bit + rest /\ bit \in {0, 1} /\ rest \in {0, 1}
  BY DEF Unsent
<1>2. tries + Unsent(m, s) <= IF over THEN 1 ELSE 0
  BY DEF Once
<1>3. f # None => f.started \in Nat
  BY KeptNumbers DEF Sound, Flushes
<1>4. f # None /\ f.records.terminal => rest = 1 \/ tries >= 1
  BY <1>3 DEF Once
<1>5. m.p.buffer[s].terminal => bit = 1
  OBVIOUS
<1> HIDE DEF f, bit, rest
<1>6. ~ (m.p.buffer[s].terminal /\ f # None /\ f.records.terminal)
  BY <1>1, <1>2, <1>4, <1>5
<1>7. ~ over => /\ ~ m.p.buffer[s].terminal /\ ~ (f # None /\ f.records.terminal)
                /\ tries = 0
  BY <1>1, <1>2, <1>4, <1>5
<1>8. QED
  BY <1>6, <1>7 DEF Single, NoTerminal, f

(* A method that keeps the session's terminal, where there is one.         *)
LEMMA OnceKept ==
    ASSUME NEW m, NEW n, NEW s \in Sessions, NEW tries \in Nat, NEW over \in BOOLEAN,
           Once(m, s, tries, over), Sound(n), Grown(m, n), Unsent(n, s) = Unsent(m, s)
    PROVE  Once(n, s, tries, over)
<1>1. \/ n.p.flush[s] = m.p.flush[s]
      \/ n.p.flush[s] # None /\ n.p.flush[s].stage = "queued" /\ n.p.flush[s].started = 0
  BY DEF Grown, Sound, Chunked
<1>2. n.p.flush[s] # None /\ n.p.flush[s].records.terminal
        /\ (n.p.flush[s].started > 0 \/ n.p.flush[s].stage = "writing") => tries >= 1
  BY <1>1 DEF Once
<1>3. QED
  BY <1>2 DEF Once

(* The invariant in its parts.                                             *)
Launched == active = Cardinality({s \in Sessions : At(s, "writing")}) /\ active <= MaxWrites

Counted ==
    /\ finished \subseteq Sessions /\ attempted \in [Sessions -> Nat]
    /\ events \in 0..MaxEvents /\ failed \in BOOLEAN

(* They are all of it, ...                                                 *)
LEMMA InvParts ==
    Inv <=> /\ Sound(State) /\ Launched /\ Awaited /\ Counted /\ Blame(State)
            /\ Sent /\ TerminalsScheduled
BY DEF Inv, Vars, Launched, Awaited, Counted, Sent

(* ... and so they are after a step.                                       *)
LEMMA InvPartsAfter ==
    ASSUME Sound(State)', Launched', Awaited', Counted', Blame(State)', Sent',
           TerminalsScheduled'
    PROVE  Inv'
BY DEF Inv, Vars, Launched, Awaited, Counted, Sent

(* What a step keeps that begins flushes and ends none: the launchers are  *)
(* those there were, and so is the batch one of them is missing for.       *)
LEMMA GrownKeeps ==
    ASSUME Sound(State), Launched, Awaited, Blame(State),
           NEW m, Sound(m), Grown(State, m), Become(m),
           active' = active, failed' = failed
    PROVE  /\ Sound(State)' /\ Launched' /\ Blame(State)'
           /\ Flushing(State) \subseteq Flushing(m) /\ State' = m
<1>0. State' = m /\ plugin' = m.p
  BY BecomeIs DEF Sound
<1>1. Sound(State)'
  BY <1>0
<1>2. plugin = State.p
  BY DEF State
<1>3. ASSUME NEW t \in Sessions
      PROVE  \/ m.p.flush[t] = plugin.flush[t]
             \/ /\ plugin.flush[t] = None /\ m.p.flush[t] # None
                /\ m.p.flush[t].stage = "queued"
  BY <1>2 DEF Grown
<1>4. Flushing(State) \subseteq Flushing(m)
  BY <1>2, <1>3 DEF Flushing
<1>5. Launched'
  <2>1. \A t \in Sessions : At(t, "writing")' <=> At(t, "writing")
    BY <1>0, <1>3 DEF At
  <2>2. {t \in Sessions : At(t, "writing")}' = {t \in Sessions : At(t, "writing")}
    BY <2>1
  <2>3. QED
    BY <2>2 DEF Launched
<1>6. Blame(State)'
  <2>1. ASSUME NEW t \in Sessions, m.p.flush[t] # None, m.p.flush[t].stage = "finally",
               m.p.flush[t].result = "attempted_failure"
        PROVE  failed'
    <3>1. m.p.flush[t] = State.p.flush[t]
      BY <1>2, <1>3, <2>1
    <3>2. QED
      BY <2>1, <3>1 DEF Blame
  <2>2. ASSUME NEW t \in Sessions, Starved(m, t), ~ failed'
        PROVE  \E u \in Sessions \ {t} : Working(m, u)
    <3>1. m.p.flush[t] = State.p.flush[t]
      BY <1>2, <1>3, <2>2 DEF Starved
    <3>2. Starved(State, t)
      BY <2>2, <3>1 DEF Starved
    <3>3. PICK u \in Sessions \ {t} : Working(State, u)
      BY <2>2, <3>2 DEF Blame
    <3>4. m.p.flush[u] = State.p.flush[u]
      BY <1>2, <1>3, <3>3 DEF Working
    <3>5. Working(m, u)
      BY <3>3, <3>4 DEF Working
    <3>6. QED
      BY <3>5
  <2>3. QED
    BY <1>0, <2>1, <2>2 DEF Blame
<1>7. QED
  BY <1>0, <1>1, <1>4, <1>5, <1>6

(* A step that keeps every terminal keeps the invariant.                   *)
LEMMA KeepsInv ==
    ASSUME Inv, NEW m, Sound(m), Keeps(State, m), Become(m),
           active' = active, failed' = failed, attempted' = attempted,
           finished' = finished, events' \in 0..MaxEvents, Awaited'
    PROVE  Inv'
<1>0. /\ Sound(State) /\ Launched /\ Awaited /\ Counted /\ Blame(State)
      /\ Sent /\ TerminalsScheduled
  BY InvParts
<1>1. Grown(State, m) /\ \A t \in Sessions : Unsent(m, t) = Unsent(State, t)
  BY DEF Keeps
<1>2. /\ Sound(State)' /\ Launched' /\ Blame(State)'
      /\ Flushing(State) \subseteq Flushing(m) /\ State' = m
  BY <1>0, <1>1, GrownKeeps
<1>3. Counted'
  BY <1>0 DEF Counted
<1>4. Sent'
  <2>1. ASSUME NEW s \in Sessions
        PROVE  Once(m, s, attempted[s], s \in finished)
    <3>1. Once(State, s, attempted[s], s \in finished) /\ attempted[s] \in Nat
          /\ (s \in finished) \in BOOLEAN
      BY <1>0 DEF Sent, Counted
    <3>2. QED
      BY <1>1, <3>1, OnceKept
  <2>2. QED
    BY <1>2, <2>1 DEF Sent
<1>5. TerminalsScheduled'
  <2>1. ASSUME Flushing(m) = {}, ~ failed, NEW s \in Sessions
        PROVE  ~ m.p.buffer[s].terminal
    <3>1. State.p.flush[s] = None /\ m.p.flush[s] = None
      BY <1>2, <2>1 DEF Flushing
    <3>2. ~ State.p.buffer[s].terminal
      BY <1>0, <1>2, <2>1 DEF TerminalsScheduled, State
    <3>3. Unsent(State, s) = 0 /\ Unsent(m, s) = IF m.p.buffer[s].terminal THEN 1 ELSE 0
      BY <3>1, <3>2 DEF Unsent
    <3>4. QED
      BY <1>1, <3>3
  <2>2. plugin' = m.p
    BY <1>2 DEF State
  <2>3. QED
    BY <1>2, <2>1, <2>2 DEF TerminalsScheduled
<1>6. QED
  BY <1>2, <1>3, <1>4, <1>5, InvPartsAfter

(* What dispose awaits still runs after a step that ends no flush.         *)
LEMMA AwaitedKept ==
    ASSUME Awaited, NEW m, Sound(m), Grown(State, m), Become(m), closing' = closing
    PROVE  Awaited'
<1>1. State' = m
  BY BecomeIs DEF Sound
<1>2. Flushing(State) \subseteq Flushing(m)
  BY DEF Grown, Flushing
<1>3. Flushing(State)' = Flushing(m)
  BY <1>1
<1>4. QED
  BY <1>2, <1>3 DEF Awaited

(* What the invariant says of every session that has not ended.            *)
LEMMA InvTerminals ==
    ASSUME Inv
    PROVE  /\ Sound(State)
           /\ \A t \in Sessions : Single(State, t)
           /\ \A t \in Sessions \ finished : NoTerminal(State, t) /\ attempted[t] = 0
<1>1. Sound(State) /\ Sent /\ Counted
  BY InvParts
<1>2. ASSUME NEW t \in Sessions
      PROVE  /\ Single(State, t)
             /\ t \notin finished => NoTerminal(State, t) /\ attempted[t] = 0
  <2>1. attempted[t] \in Nat /\ (t \in finished) \in BOOLEAN
        /\ Once(State, t, attempted[t], t \in finished)
    BY <1>1 DEF Sent, Counted
  <2>2. QED
    BY <1>1, <2>1, OnceSingle
<1>3. QED
  BY <1>1, <1>2

(* A tool event adds a record of a session that has not ended.             *)
LEMMA ToolEventStep ==
    ASSUME Inv, NEW s \in Sessions, ToolEvent(s)
    PROVE  Inv'
<1> DEFINE m == Append1(State, s, FALSE)
<1>1. Sound(State) /\ (\A t \in Sessions : Single(State, t)) /\ NoTerminal(State, s)
  BY InvTerminals DEF ToolEvent
<1>2. Sound(m) /\ Keeps(State, m)
  BY <1>1, AppendKeeps
<1>3. Become(m)
  BY DEF ToolEvent
<1> HIDE DEF m
<1>4. Awaited'
  <2>1. Awaited /\ Grown(State, m) /\ closing' = closing
    BY <1>2, InvParts DEF ToolEvent, Event, Keeps
  <2>2. QED
    BY <1>2, <1>3, <2>1, AwaitedKept
<1>5. /\ active' = active /\ failed' = failed /\ attempted' = attempted
      /\ finished' = finished /\ events' \in 0..MaxEvents
  BY Limits DEF ToolEvent, Event, Inv, Vars
<1>6. QED
  BY <1>2, <1>3, <1>4, <1>5, KeepsInv

(* A boundary event may add one, and flushes what there is.                *)
LEMMA BoundaryStep ==
    ASSUME Inv, NEW s \in Sessions, NEW record \in BOOLEAN, Boundary(s, record)
    PROVE  Inv'
<1> DEFINE k == IF record THEN Append1(State, s, FALSE) ELSE State
           m == IF Flushable(k, s, record) THEN Schedule(k, s, TRUE) ELSE k
<1>1. Sound(State) /\ (\A t \in Sessions : Single(State, t)) /\ NoTerminal(State, s)
  BY InvTerminals DEF Boundary
<1>2. Sound(k) /\ Keeps(State, k)
  <2>1. Keeps(State, State)
    BY KeepsTerminals
  <2>2. QED
    BY <1>1, <2>1, AppendKeeps
<1>3. Become(m)
  BY DEF Boundary
<1> HIDE DEF k
<1>4. Sound(m) /\ Keeps(State, m)
  <2>1. Sound(Schedule(k, s, TRUE)) /\ Keeps(k, Schedule(k, s, TRUE))
    BY <1>2, ScheduleKeeps
  <2>2. Keeps(State, Schedule(k, s, TRUE))
    BY <1>2, <2>1, KeepsBoth
  <2>3. QED
    BY <1>2, <2>1, <2>2
<1> HIDE DEF m
<1>5. Awaited'
  <2>1. Awaited /\ Grown(State, m) /\ closing' = closing
    BY <1>4, InvParts DEF Boundary, Event, Keeps
  <2>2. QED
    BY <1>3, <1>4, <2>1, AwaitedKept
<1>6. /\ active' = active /\ failed' = failed /\ attempted' = attempted
      /\ finished' = finished /\ events' \in 0..MaxEvents
  BY Limits DEF Boundary, Event, Inv, Vars
<1>7. QED
  BY <1>3, <1>4, <1>5, <1>6, KeepsInv

(* The terminal of a session is given once, and it is there after: in its  *)
(* buffer or in the flush that this begins.                                *)
LEMMA DeletedStep ==
    ASSUME Inv, NEW s \in Sessions, Deleted(s)
    PROVE  Inv'
<1> DEFINE k == Append1(State, s, TRUE)
           m == Schedule(k, s, TRUE)
<1>0. /\ Sound(State) /\ Launched /\ Awaited /\ Counted /\ Blame(State)
      /\ Sent /\ TerminalsScheduled
  BY InvParts
<1>1. /\ \A t \in Sessions : Single(State, t)
      /\ NoTerminal(State, s) /\ attempted[s] = 0
  BY InvTerminals DEF Deleted
<1>2. /\ Sound(k) /\ KeepsOthers(State, k, s) /\ Unsent(k, s) \in {0, 1}
      /\ Cardinality(Sessions) <= Reserve => Unsent(k, s) = 1
  BY <1>0, <1>1, AppendKeeps
<1> HIDE DEF k
<1>3. Sound(m) /\ Keeps(k, m) /\ Flushing(m) # {}
  BY <1>2, ScheduleKeeps
<1>4. Become(m)
  BY DEF Deleted, k
<1> HIDE DEF m
<1>5. Grown(State, m)
  BY <1>2, <1>3 DEF KeepsOthers, Keeps, Grown
<1>6. /\ active' = active /\ failed' = failed /\ attempted' = attempted
      /\ finished' = finished \cup {s} /\ events' \in 0..MaxEvents /\ closing' = closing
  BY <1>0, Limits DEF Deleted, Event, Counted
<1>7. Sound(State)' /\ Launched' /\ Blame(State)' /\ State' = m
  BY <1>0, <1>3, <1>4, <1>5, <1>6, GrownKeeps
<1>8. Awaited'
  BY <1>0, <1>3, <1>4, <1>5, <1>6, AwaitedKept
<1>9. Counted'
  BY <1>0, <1>6 DEF Counted
<1>10. Sent'
  <2>1. ASSUME NEW t \in Sessions \ {s}
        PROVE  Once(m, t, attempted[t], t \in finished)
    <3>1. Once(State, t, attempted[t], t \in finished) /\ attempted[t] \in Nat
          /\ (t \in finished) \in BOOLEAN
      BY <1>0 DEF Sent, Counted
    <3>2. Unsent(m, t) = Unsent(State, t)
      BY <1>2, <1>3 DEF KeepsOthers, Keeps
    <3>3. QED
      BY <1>3, <1>5, <3>1, <3>2, OnceKept
  <2>2. Once(m, s, 0, TRUE)
    <3>1. Unsent(m, s) \in {0, 1}
          /\ (Cardinality(Sessions) <= Reserve => Unsent(m, s) = 1)
      BY <1>2, <1>3 DEF Keeps
    <3>2. \/ m.p.flush[s] = State.p.flush[s]
          \/ /\ m.p.flush[s] # None /\ m.p.flush[s].stage = "queued"
             /\ m.p.flush[s].started = 0
      BY <1>3, <1>5 DEF Grown, Sound, Chunked
    <3>3. ~ (m.p.flush[s] # None /\ m.p.flush[s].records.terminal
             /\ (m.p.flush[s].started > 0 \/ m.p.flush[s].stage = "writing"))
      BY <1>1, <3>2 DEF NoTerminal
    <3>4. QED
      BY <3>1, <3>3 DEF Once
  <2>3. ASSUME NEW t \in Sessions
        PROVE  Once(m, t, attempted'[t], t \in finished')
    <3>1. CASE t = s
      BY <1>1, <1>6, <2>2, <3>1
    <3>2. CASE t # s
      <4>1. (t \in finished') <=> (t \in finished)
        BY <1>6, <3>2
      <4>2. Once(m, t, attempted[t], t \in finished)
        BY <2>1, <3>2
      <4>3. QED
        BY <1>6, <4>1, <4>2 DEF Once
    <3>3. QED
      BY <3>1, <3>2
  <2>4. QED
    BY <1>7, <2>3 DEF Sent
<1>11. TerminalsScheduled'
  BY <1>3, <1>7 DEF TerminalsScheduled
<1>12. QED
  BY <1>7, <1>8, <1>9, <1>10, <1>11, InvPartsAfter

(* -------------------------- the steps of a flush ------------------------ *)

(* A step of the flush of a session keeps its records, and all buffers.    *)
FlushOnly(m, n, s, g) ==
    /\ n.p.buffer = m.p.buffer /\ n.p.flush = [m.p.flush EXCEPT ![s] = g]
    /\ n.p.checks = m.p.checks /\ n.p.deferred = m.p.deferred
    /\ n.p.retained = m.p.retained /\ m.overflow \subseteq n.overflow
    /\ \A t \in Sessions \ {s} : n.p.gap[t] = m.p.gap[t] /\ n.loss[t] = m.loss[t]

(* So the other flushes and the set of those that run stay.                *)
LEMMA FlushFields ==
    ASSUME NEW m \in States, NEW n \in States, NEW s \in Sessions, m.p.flush[s] # None,
           NEW g \in Flushes, FlushOnly(m, n, s, g)
    PROVE  /\ n.p.flush[s] = g /\ g # None
           /\ \A t \in Sessions \ {s} : n.p.flush[t] = m.p.flush[t]
           /\ Elsewhere(m, n, s) /\ Flushing(n) = Flushing(m)
<1>1. n.p.flush[s] = g /\ g # None /\ \A t \in Sessions \ {s} : n.p.flush[t] = m.p.flush[t]
  BY Limits DEF FlushOnly, States, Plugins
<1>2. Elsewhere(m, n, s)
  BY <1>1 DEF Elsewhere, FlushOnly
<1>3. Flushing(n) = Flushing(m)
  BY <1>1 DEF Flushing
<1>4. QED
  BY <1>1, <1>2, <1>3

(* It keeps Sound if it keeps the chunks, the table of gaps and what is    *)
(* reported of the session.                                                *)
LEMMA SoundFlush ==
    ASSUME NEW m, NEW n \in States, NEW s \in Sessions, Sound(m), m.p.flush[s] # None,
           NEW g \in Flushes, FlushOnly(m, n, s, g), g.records = m.p.flush[s].records,
           Chunked(g), Reported(n, s), Gaps(n) \subseteq Gaps(m)
    PROVE  Sound(n)
<1>0. m \in States /\ m.p.retained \in Int
  BY DEF Sound, States, Plugins
<1>1. /\ n.p.flush[s] = g /\ g # None /\ Elsewhere(m, n, s) /\ Flushing(n) = Flushing(m)
      /\ n.p.buffer = m.p.buffer /\ n.p.retained = m.p.retained
      /\ n.p.checks = m.p.checks /\ n.p.deferred = m.p.deferred
  <2>1. n.p.flush[s] = g /\ g # None /\ Elsewhere(m, n, s) /\ Flushing(n) = Flushing(m)
    BY <1>0, FlushFields
  <2>2. /\ n.p.buffer = m.p.buffer /\ n.p.retained = m.p.retained
        /\ n.p.checks = m.p.checks /\ n.p.deferred = m.p.deferred
    BY DEF FlushOnly
  <2>3. QED
    BY <2>1, <2>2
<1>2. Tables(n)
  <2>1. Gaps(m) \in SUBSET Sessions /\ Cardinality(Gaps(m)) <= MaxGaps
    BY DEF Gaps, Sound, Tables
  <2>2. Cardinality(Gaps(n)) \in Nat /\ Cardinality(Gaps(n)) <= Cardinality(Gaps(m))
        /\ Cardinality(Gaps(m)) \in Nat
    BY <2>1, TablePart, TableCounts
  <2>3. Cardinality(Gaps(n)) <= MaxGaps
    BY <2>1, <2>2, Limits
  <2>4. QED
    BY <1>1, <2>3 DEF Sound, Tables
<1>3. Locally(n, s)
  BY <1>1 DEF Sound, Locally
<1>4. Kept(n.p)[s] = Kept(m.p)[s] /\ Others(n.p)[s] = Others(m.p)[s]
  BY <1>1 DEF Kept, Others
<1>5. Kept(m.p)[s] \in Nat /\ Others(m.p)[s] \in Nat
  BY <1>0, KeptNumbers
<1>6. /\ n.p.retained = m.p.retained - Kept(m.p)[s] + Kept(n.p)[s]
      /\ Kept(n.p)[s] <= Kept(m.p)[s] /\ Others(n.p)[s] <= Others(m.p)[s]
  BY <1>0, <1>1, <1>4, <1>5
<1>7. QED
  BY <1>1, <1>2, <1>3, <1>6, SoundLess

(* The launchers after a step of one flush.                                *)
LEMMA LaunchedAfter ==
    ASSUME Launched, NEW s \in Sessions, active \in Nat,
           \A t \in Sessions \ {s} : plugin'.flush[t] = plugin.flush[t],
           \/ /\ At(s, "writing")' <=> At(s, "writing")
              /\ active' = active
           \/ /\ ~ At(s, "writing") /\ At(s, "writing")'
              /\ active' = active + 1 /\ active < MaxWrites
           \/ /\ At(s, "writing") /\ ~ At(s, "writing")'
              /\ active' = active - 1
    PROVE  Launched'
<1> DEFINE W == {t \in Sessions : At(t, "writing")}
           X == {t \in Sessions : At(t, "writing")'}
<1>0. \A t \in Sessions \ {s} : At(t, "writing")' <=> At(t, "writing")
  BY DEF At
<1>1. IsFiniteSet(W) /\ Cardinality(W) = active /\ active <= MaxWrites
  BY TableCounts DEF Launched
<1>2. CASE (At(s, "writing")' <=> At(s, "writing")) /\ active' = active
  <2>1. X = W
    BY <1>0, <1>2
  <2>2. QED
    BY <1>1, <1>2, <2>1 DEF Launched
<1>3. CASE /\ ~ At(s, "writing") /\ At(s, "writing")'
           /\ active' = active + 1 /\ active < MaxWrites
  <2>1. X = W \cup {s} /\ s \notin W
    BY <1>0, <1>3
  <2>2. Cardinality(X) = active + 1
    BY <1>1, <2>1, FS_AddElement
  <2>3. QED
    BY <1>1, <1>3, <2>2, Limits DEF Launched
<1>4. CASE At(s, "writing") /\ ~ At(s, "writing")' /\ active' = active - 1
  <2>1. X = W \ {s} /\ s \in W
    BY <1>0, <1>4
  <2>2. Cardinality(X) = active - 1
    BY <1>1, <2>1, FS_RemoveElement
  <2>3. QED
    BY <1>1, <1>4, <2>2, Limits DEF Launched
<1>5. QED
  BY <1>2, <1>3, <1>4

(* Who is to blame after a step of one flush: what is asked of it is that  *)
(* it names another if it is short of a launcher now, and that it does not *)
(* excuse itself while another is short of one.                            *)
LEMMA BlameAfter ==
    ASSUME Blame(State), NEW n, State' = n, NEW s \in Sessions, NEW g,
           n.p.flush[s] = g,
           \A t \in Sessions \ {s} : n.p.flush[t] = State.p.flush[t],
           failed => failed',
           g # None /\ g.stage = "finally" /\ g.result = "attempted_failure" => failed',
           Starved(n, s) /\ ~ failed' => \E t \in Sessions \ {s} : Working(State, t),
           \A t \in Sessions \ {s} :
              Starved(State, t) /\ ~ failed' /\ Working(State, s) => Working(n, s)
    PROVE  Blame(State)'
<1>1. ASSUME NEW t \in Sessions, n.p.flush[t] # None, n.p.flush[t].stage = "finally",
             n.p.flush[t].result = "attempted_failure"
      PROVE  failed'
  <2>1. CASE t = s
    BY <1>1, <2>1
  <2>2. CASE t # s
    BY <1>1, <2>2 DEF Blame
  <2>3. QED
    BY <2>1, <2>2
<1>2. ASSUME NEW t \in Sessions, Starved(n, t), ~ failed'
      PROVE  \E u \in Sessions \ {t} : Working(n, u)
  <2>1. ASSUME NEW u \in Sessions \ {s}, Working(State, u)
        PROVE  Working(n, u)
    BY <2>1 DEF Working
  <2>2. CASE t = s
    BY <1>2, <2>1, <2>2
  <2>3. CASE t # s
    <3>1. Starved(State, t)
      BY <1>2, <2>3 DEF Starved
    <3>2. PICK u \in Sessions \ {t} : Working(State, u)
      BY <1>2, <3>1 DEF Blame
    <3>3. CASE u = s
      BY <1>2, <2>3, <3>1, <3>2, <3>3
    <3>4. CASE u # s
      BY <2>1, <3>2, <3>4
    <3>5. QED
      BY <3>3, <3>4
  <2>4. QED
    BY <2>2, <2>3
<1>3. QED
  BY <1>1, <1>2 DEF Blame

(* The invariant after a step of one flush, from what is asked of it.      *)
LEMMA FlushInv ==
    ASSUME Inv, NEW s \in Sessions, plugin.flush[s] # None, NEW g \in Flushes,
           Sound(State)', plugin'.buffer = plugin.buffer,
           plugin'.flush = [plugin.flush EXCEPT ![s] = g],
           closing' = closing, finished' = finished, events' = events,
           failed' \in BOOLEAN, attempted' \in [Sessions -> Nat],
           \A t \in Sessions \ {s} : attempted'[t] = attempted[t],
           Once(State', s, attempted'[s], s \in finished),
           Launched', Blame(State)'
    PROVE  Inv'
<1> DEFINE n == State'
<1>0. /\ Sound(State) /\ Awaited /\ Counted /\ Sent /\ Sound(n)
      /\ State \in States /\ n \in States /\ State.p.flush[s] # None
  BY InvParts DEF Sound, State
<1>1. /\ n.p.flush[s] = g /\ g # None /\ Flushing(n) = Flushing(State)
      /\ \A t \in Sessions \ {s} : n.p.flush[t] = State.p.flush[t]
      /\ n.p.buffer = State.p.buffer
  <2>1. n.p.buffer = State.p.buffer /\ n.p.flush = [State.p.flush EXCEPT ![s] = g]
    BY DEF State
  <2> HIDE DEF n
  <2>2. n.p.flush[s] = g /\ g # None /\ \A t \in Sessions \ {s} : n.p.flush[t] = State.p.flush[t]
    BY <1>0, <2>1, Limits DEF States, Plugins
  <2>3. Flushing(n) = Flushing(State)
    BY <1>0, <2>2 DEF Flushing
  <2>4. QED
    BY <2>1, <2>2, <2>3
<1>2. Awaited'
  BY <1>0, <1>1 DEF Awaited
<1>3. Counted'
  BY <1>0 DEF Counted
<1>4. Sent'
  <2>1. ASSUME NEW t \in Sessions \ {s}
        PROVE  Once(n, t, attempted'[t], t \in finished)
    <3>1. Once(State, t, attempted[t], t \in finished)
      BY <1>0 DEF Sent
    <3>2. Unsent(n, t) = Unsent(State, t)
      BY <1>1 DEF Unsent
    <3>3. QED
      BY <1>1, <3>1, <3>2 DEF Once
  <2>2. QED
    BY <2>1 DEF Sent
<1>5. TerminalsScheduled'
  <2>1. s \in Flushing(n)
    BY <1>1 DEF Flushing
  <2>2. QED
    BY <2>1 DEF TerminalsScheduled
<1>6. QED
  BY <1>2, <1>3, <1>4, <1>5, InvPartsAfter

(* A chunk that is done with: the next one, or the end.                    *)
LEMMA WrittenFields ==
    ASSUME NEW f \in Flushes, f.left > 0
    PROVE  LET h == Written(f) IN
           /\ h \in Flushes /\ h.records = f.records /\ h.chunks = f.chunks
           /\ h.started = f.started /\ h.delivered = f.delivered
           /\ h.left = f.left - 1 /\ h.result = f.result
           /\ h.marker <=> f.marker
           /\ h.stage = IF f.left = 1 THEN "end" ELSE "next"
<1> DEFINE l == f.left - 1
           st == IF f.left = 1 THEN "end" ELSE "next"
           h == [f EXCEPT !.left = l, !.stage = st]
<1>1. l \in 0..MaxChunks /\ st \in {"end", "next"}
  BY Limits DEF Flushes
<1>2. Written(f) = h
  BY DEF Written, Flushes
<1> HIDE DEF l, st
<1>3. h \in Flushes
  BY <1>1 DEF Flushes
<1>4. /\ h.records = f.records /\ h.chunks = f.chunks
      /\ h.started = f.started /\ h.delivered = f.delivered
      /\ h.left = l /\ h.result = f.result /\ h.stage = st
  BY DEF Flushes
<1>5. h.marker = f.marker
  BY DEF Flushes
<1> HIDE DEF h
<1>6. QED
  BY <1>2, <1>3, <1>4, <1>5 DEF l, st

(* A chunk begins: with a launcher, or without one that it could have.     *)
LEMMA LaunchKeeps ==
    ASSUME Inv, NEW s \in Sessions, plugin.flush[s] # None, NEW g \in Flushes,
           g.stage \in {"queued", "next"}, g.stage = plugin.flush[s].stage,
           g.records = plugin.flush[s].records, g.started = plugin.flush[s].started,
           g.delivered = plugin.flush[s].delivered,
           g.left > 0, g.started + g.left <= g.chunks,
           g.stage = "queued" => (g.marker <=> plugin.gap[s] # "none"),
           g.stage = "next" => (g.marker <=> plugin.flush[s].marker),
           Launch(s, g), overflow' = overflow, failed' = failed, UnchangedInFlush,
           loss' = IF g.stage = "queued"
                   THEN [loss EXCEPT ![s] = IF @ = "none" THEN @ ELSE "old"] ELSE loss
    PROVE  Inv'
<1> DEFINE f == plugin.flush[s]
           h == IF active < MaxWrites THEN [g EXCEPT !.stage = "writing"] ELSE Written(g)
           gap == IF plugin.gap[s] = "none" THEN plugin.gap[s]
                  ELSE IF g.stage = "queued" THEN "seen" ELSE plugin.gap[s]
           n == State'
<1>0. /\ Sound(State) /\ Launched /\ Counted /\ Blame(State) /\ Sent /\ State \in States
      /\ plugin \in Plugins /\ State.p = plugin /\ State.p.flush[s] # None
      /\ f \in Flushes /\ Chunked(f) /\ Reported(State, s)
      /\ Once(State, s, attempted[s], s \in finished)
  <2>1. Sound(State) /\ Launched /\ Counted /\ Blame(State) /\ Sent
    BY InvParts
  <2>2. State \in States /\ State.p = plugin
    BY <2>1 DEF Sound, State
  <2>3. plugin \in Plugins /\ f \in Flushes
    BY <2>2 DEF States, Plugins
  <2>4. Chunked(f) /\ Reported(State, s)
    BY <2>1, <2>2 DEF Sound
  <2>5. Once(State, s, attempted[s], s \in finished)
    BY <2>1 DEF Sent
  <2>6. QED
    BY <2>1, <2>2, <2>3, <2>4, <2>5
<1>1. /\ h \in Flushes /\ h.records = f.records /\ h.chunks = g.chunks
      /\ h.started = f.started /\ h.delivered = f.delivered
      /\ h.marker <=> g.marker
      /\ active < MaxWrites => h.stage = "writing" /\ h.left = g.left
      /\ ~ (active < MaxWrites) =>
           /\ h.left = g.left - 1
           /\ h.stage = IF g.left = 1 THEN "end" ELSE "next"
  <2>1. CASE active < MaxWrites
    <3> DEFINE w == [g EXCEPT !.stage = "writing"]
    <3>1. /\ w \in Flushes /\ w.records = g.records /\ w.chunks = g.chunks
          /\ w.started = g.started /\ w.delivered = g.delivered
          /\ w.left = g.left /\ w.stage = "writing"
      BY DEF Flushes
    <3>2. w.marker = g.marker
      BY DEF Flushes
    <3>3. h = w
      BY <2>1
    <3> HIDE DEF w, h
    <3>4. QED
      BY <2>1, <3>1, <3>2, <3>3
  <2>2. CASE ~ (active < MaxWrites)
    <3>1. h = Written(g)
      BY <2>2
    <3> HIDE DEF h
    <3>2. QED
      BY <2>2, <3>1, WrittenFields
  <2>3. QED
    BY <2>1, <2>2
<1>2. plugin' = [plugin EXCEPT !.gap[s] = gap, !.flush[s] = h]
      /\ (active < MaxWrites => active' = active + 1)
      /\ (~ (active < MaxWrites) => active' = active)
      /\ attempted' = IF active < MaxWrites /\ g.records.terminal /\ g.started = 0
                      THEN [attempted EXCEPT ![s] = @ + 1] ELSE attempted
  <2>1. CASE active < MaxWrites
    <3>1. /\ active' = active + 1
          /\ plugin' = [plugin EXCEPT !.gap[s] = IF @ = "none" THEN @ ELSE
                           IF g.stage = "queued" THEN "seen" ELSE @,
                                      !.flush[s] = [g EXCEPT !.stage = "writing"]]
          /\ attempted' = [attempted EXCEPT ![s] =
                IF g.records.terminal /\ g.started = 0 THEN @ + 1 ELSE @]
      BY <2>1 DEF Launch
    <3>2. plugin' = [plugin EXCEPT !.gap[s] = gap, !.flush[s] = h]
      BY <1>0, <2>1, <3>1 DEF Plugins
    <3>3. attempted' = IF active < MaxWrites /\ g.records.terminal /\ g.started = 0
                       THEN [attempted EXCEPT ![s] = @ + 1] ELSE attempted
      BY <1>0, <2>1, <3>1 DEF Counted
    <3>4. QED
      BY <2>1, <3>1, <3>2, <3>3
  <2>2. CASE ~ (active < MaxWrites)
    BY <1>0, <2>2 DEF Launch, Plugins
  <2>3. QED
    BY <2>1, <2>2
<1>3. gap \in {"none", "seen", "marked"} /\ (gap = "none" <=> plugin.gap[s] = "none")
      /\ (g.stage = "next" => gap = plugin.gap[s])
  BY <1>0 DEF Plugins
<1> HIDE DEF h, gap
<1>4. /\ plugin' \in Plugins /\ plugin'.buffer = plugin.buffer
      /\ plugin'.flush = [plugin.flush EXCEPT ![s] = h]
      /\ plugin'.gap = [plugin.gap EXCEPT ![s] = gap]
      /\ plugin'.checks = plugin.checks /\ plugin'.deferred = plugin.deferred
      /\ plugin'.retained = plugin.retained
  BY <1>0, <1>1, <1>2, <1>3 DEF Plugins
<1>5. /\ loss' \in [Sessions -> {"none", "old", "new"}]
      /\ \A t \in Sessions \ {s} : loss'[t] = loss[t]
      /\ g.stage = "queued" => loss'[s] = IF loss[s] = "none" THEN "none" ELSE "old"
      /\ g.stage = "next" => loss'[s] = loss[s]
  BY <1>0 DEF States, State
<1>6. /\ n \in States /\ n.p = plugin' /\ n.loss = loss' /\ n.overflow = overflow
      /\ State.loss = loss /\ State.overflow = overflow
  BY <1>0, <1>4, <1>5 DEF States, State
<1> HIDE DEF n
<1>7. FlushOnly(State, n, s, h)
  BY <1>0, <1>4, <1>5, <1>6 DEF FlushOnly, Plugins
<1>8. /\ n.p.flush[s] = h /\ h # None
      /\ \A t \in Sessions \ {s} : n.p.flush[t] = State.p.flush[t]
  BY <1>0, <1>1, <1>6, <1>7, FlushFields
<1>9. Gaps(n) \subseteq Gaps(State)
  BY <1>0, <1>3, <1>4, <1>6 DEF Gaps, Plugins
<1>10. Chunked(h)
  <2>1. f.delivered <= f.started
    BY <1>0 DEF Chunked
  <2>2. h.stage \in {"writing", "end", "next"} /\ h.stage # "queued" /\ h.stage # "finally"
    BY <1>1
  <2>3. h.started + h.left <= h.chunks /\ h.chunks > 0
        /\ (h.stage \in {"next", "writing"} => h.left > 0)
    BY <1>1, Limits DEF Flushes
  <2>4. QED
    BY <1>1, <2>1, <2>2, <2>3 DEF Chunked
<1>11. Reported(n, s)
  <2>1. n.p.gap[s] = gap
    BY <1>0, <1>4, <1>6 DEF Plugins
  <2>2. CASE g.stage = "queued"
    <3>1. n.loss[s] = IF loss[s] = "none" THEN "none" ELSE "old"
      BY <1>5, <1>6, <2>2
    <3>2. loss[s] # "none" => plugin.gap[s] # "none" \/ s \in overflow
      BY <1>0, <1>6 DEF Reported
    <3>3. h.marker <=> plugin.gap[s] # "none"
      BY <1>1, <2>2
    <3>4. n.loss[s] # "none" => n.p.gap[s] # "none" \/ s \in n.overflow
      BY <1>3, <1>6, <2>1, <3>1, <3>2
    <3>5. n.loss[s] # "new" /\ (n.loss[s] = "old" => h.marker \/ Told(n, s))
      BY <1>6, <3>1, <3>2, <3>3 DEF Told
    <3>6. QED
      BY <1>8, <3>4, <3>5 DEF Reported
  <2>3. CASE g.stage = "next"
    <3>1. n.loss[s] = loss[s] /\ n.p.gap[s] = plugin.gap[s] /\ n.overflow = overflow
      BY <1>3, <1>5, <1>6, <2>1, <2>3
    <3>2. h.marker <=> f.marker
      BY <1>1, <2>3
    <3>3. /\ loss[s] # "none" => plugin.gap[s] # "none" \/ s \in overflow
          /\ loss[s] = "new" => Told(State, s)
          /\ loss[s] = "old" => f.marker \/ Told(State, s)
      BY <1>0, <1>6, <2>3 DEF Reported
    <3>4. Told(n, s) <=> Told(State, s)
      BY <1>0, <1>6, <3>1 DEF Told
    <3>5. QED
      BY <1>8, <3>1, <3>2, <3>3, <3>4 DEF Reported
  <2>4. QED
    BY <2>2, <2>3
<1>12. Sound(n)
  BY <1>0, <1>1, <1>6, <1>7, <1>9, <1>10, <1>11, SoundFlush
<1>13. Launched'
  <2>1. active \in Nat
    <3>1. {t \in Sessions : At(t, "writing")} \in SUBSET Sessions
      OBVIOUS
    <3>2. QED
      BY <1>0, <3>1, TableCounts DEF Launched
  <2>2. ~ At(s, "writing") /\ (At(s, "writing")' <=> h.stage = "writing")
    BY <1>6, <1>8 DEF At
  <2>3. \A t \in Sessions \ {s} : plugin'.flush[t] = plugin.flush[t]
    BY <1>0, <1>6, <1>8
  <2>4. CASE active < MaxWrites
    BY <1>0, <1>1, <1>2, <2>1, <2>2, <2>3, <2>4, LaunchedAfter
  <2>5. CASE ~ (active < MaxWrites)
    <3>1. ~ At(s, "writing")' /\ active' = active
      BY <1>1, <1>2, <2>2, <2>5
    <3>2. QED
      BY <1>0, <2>1, <2>2, <2>3, <3>1, LaunchedAfter
  <2>6. QED
    BY <2>4, <2>5
<1>14. Blame(State)'
  <2>1. Starved(n, s) => \E t \in Sessions \ {s} : Working(State, t)
    <3>1. ASSUME Starved(n, s)
          PROVE  \E t \in Sessions \ {s} : Working(State, t)
      <4>1. h.stage # "writing"
        BY <1>8, <3>1 DEF Starved
      <4>2. ~ (active < MaxWrites)
        BY <1>1, <4>1
      <4> DEFINE W == {t \in Sessions : At(t, "writing")}
      <4>3. IsFiniteSet(W) /\ Cardinality(W) \in Nat
        BY TableCounts
      <4>4. Cardinality(W) > 0
        BY <1>0, <4>2, <4>3, Limits DEF Launched
      <4>5. W # {}
        BY <4>3, <4>4, FS_EmptySet
      <4>6. PICK t \in Sessions : At(t, "writing")
        BY <4>5
      <4>7. t # s
        BY <4>6 DEF At
      <4>8. Working(State, t)
        BY <1>0, <4>6 DEF At, Working
      <4>9. QED
        BY <4>7, <4>8
    <3>2. QED
      BY <3>1
  <2>2. Working(State, s) => Working(n, s)
    <3>1. ASSUME Working(State, s)
          PROVE  Working(n, s)
      <4>1. f.delivered < f.started
        BY <1>0, <3>1 DEF Working
      <4>2. QED
        BY <1>1, <1>8, <4>1 DEF Working
    <3>2. QED
      BY <3>1
  <2>3. h.stage # "finally"
    BY <1>1
  <2>4. State' = n
    BY DEF n
  <2>5. QED
    BY <1>0, <1>8, <2>1, <2>2, <2>3, <2>4, BlameAfter
<1>15. /\ attempted' \in [Sessions -> Nat]
       /\ \A t \in Sessions \ {s} : attempted'[t] = attempted[t]
       /\ Once(n, s, attempted'[s], s \in finished)
  <2>0. attempted \in [Sessions -> Nat] /\ attempted[s] \in Nat
    BY <1>0 DEF Counted
  <2> DEFINE bit == IF plugin.buffer[s].terminal THEN 1 ELSE 0
  <2>1. Unsent(State, s)
          = bit + (IF f.records.terminal /\ f.started = 0 THEN 1 ELSE 0)
    <3>1. f.stage # "writing"
      OBVIOUS
    <3>2. QED
      BY <1>0, <3>1 DEF Unsent
  <2>2. Unsent(n, s)
          = bit + (IF f.records.terminal /\ f.started = 0 /\ h.stage # "writing" THEN 1 ELSE 0)
    BY <1>1, <1>4, <1>6, <1>8 DEF Unsent
  <2>3. f.started \in Nat
    BY <1>0 DEF Flushes
  <2>4. bit \in {0, 1}
    OBVIOUS
  <2> HIDE DEF bit
  <2>5. CASE active < MaxWrites /\ f.records.terminal /\ f.started = 0
    <3>1. attempted' = [attempted EXCEPT ![s] = attempted[s] + 1]
      BY <1>2, <2>0, <2>5
    <3>2. attempted'[s] = attempted[s] + 1 /\ attempted' \in [Sessions -> Nat]
          /\ \A t \in Sessions \ {s} : attempted'[t] = attempted[t]
      BY <2>0, <3>1
    <3>3. Unsent(State, s) = bit + 1 /\ Unsent(n, s) = bit
      <4>1. h.stage = "writing"
        BY <1>1, <2>5
      <4>2. Unsent(State, s) = bit + 1
        BY <2>1, <2>5
      <4>3. Unsent(n, s) = bit + 0
        BY <2>2, <4>1
      <4>4. QED
        BY <2>4, <4>2, <4>3
    <3>4. attempted'[s] + Unsent(n, s) = attempted[s] + Unsent(State, s)
          /\ attempted'[s] >= 1
      BY <2>0, <2>4, <3>2, <3>3
    <3>5. Once(n, s, attempted'[s], s \in finished)
      BY <1>0, <3>4 DEF Once
    <3>6. QED
      BY <3>2, <3>5
  <2>6. CASE ~ (active < MaxWrites /\ f.records.terminal /\ f.started = 0)
    <3>1. attempted' = attempted
      BY <1>2, <2>6
    <3>2. Unsent(n, s) = Unsent(State, s)
      BY <1>1, <2>1, <2>2, <2>6
    <3>3. f.records.terminal /\ (h.started > 0 \/ h.stage = "writing") => attempted[s] >= 1
      <4>1. f.records.terminal /\ f.started > 0 => attempted[s] >= 1
        BY <1>0 DEF Once
      <4>2. f.records.terminal /\ h.stage = "writing" => f.started > 0
        BY <1>1, <2>3, <2>6
      <4>3. QED
        BY <1>1, <4>1, <4>2
    <3>4. Once(n, s, attempted[s], s \in finished)
      BY <1>0, <1>1, <1>8, <3>2, <3>3 DEF Once
    <3>5. QED
      BY <2>0, <3>1, <3>4
  <2>7. QED
    BY <2>5, <2>6
<1>16. QED
  BY <1>0, <1>1, <1>4, <1>12, <1>13, <1>14, <1>15, FlushInv DEF n, UnchangedInFlush, Counted

(* A flush begins: with nothing to send it has delivered it, else its      *)
(* first chunk begins.                                                     *)
LEMMA BeginStep ==
    ASSUME Inv, NEW s \in Sessions, Begin(s)
    PROVE  Inv'
<1> DEFINE f == plugin.flush[s]
           marker == plugin.gap[s] # "none"
           size == Size(f.records) + IF marker THEN 1 ELSE 0
           h == [f EXCEPT !.stage = "finally", !.result = "delivered"]
           n == State'
<1>0. /\ Sound(State) /\ Launched /\ Counted /\ Blame(State) /\ Sent /\ State \in States
      /\ plugin \in Plugins /\ State.p = plugin /\ State.p.flush[s] # None
      /\ f \in Flushes /\ Chunked(f) /\ Reported(State, s) /\ f.stage = "queued"
      /\ Once(State, s, attempted[s], s \in finished)
  <2>1. Sound(State) /\ Launched /\ Counted /\ Blame(State) /\ Sent
    BY InvParts
  <2>2. State \in States /\ State.p = plugin /\ plugin.flush[s] # None /\ f.stage = "queued"
    BY <2>1 DEF Sound, State, Begin, At
  <2>3. plugin \in Plugins /\ f \in Flushes
    BY <2>2 DEF States, Plugins
  <2>4. Chunked(f) /\ Reported(State, s)
    BY <2>1, <2>2 DEF Sound
  <2>5. Once(State, s, attempted[s], s \in finished)
    BY <2>1 DEF Sent
  <2>6. QED
    BY <2>1, <2>2, <2>3, <2>4, <2>5
<1>1. /\ loss' = [loss EXCEPT ![s] = IF @ = "none" THEN @ ELSE "old"]
      /\ overflow' = overflow /\ failed' = failed /\ UnchangedInFlush
      /\ \/ /\ size = 0
            /\ plugin' = [plugin EXCEPT !.flush[s].stage = "finally",
                                        !.flush[s].result = "delivered"]
            /\ UNCHANGED <<active, attempted>>
         \/ \E k \in 1..size : k <= MaxChunks
              /\ Launch(s, [f EXCEPT !.marker = marker, !.chunks = k, !.left = k])
  BY DEF Begin
<1>2. ASSUME NEW k \in 1..size, k <= MaxChunks,
             Launch(s, [f EXCEPT !.marker = marker, !.chunks = k, !.left = k])
      PROVE  Inv'
  <2> DEFINE g == [f EXCEPT !.marker = marker, !.chunks = k, !.left = k]
  <2>1. k \in 1..MaxChunks /\ k \in 0..MaxChunks
    <3>1. Size(f.records) \in Nat
      BY <1>0, KeptNumbers
    <3>2. QED
      BY <1>2, <3>1, Limits
  <2>2. f.started = 0 /\ f.started \in Nat
    BY <1>0 DEF Chunked
  <2>3. marker \in BOOLEAN
    OBVIOUS
  <2> HIDE DEF marker, size
  <2>4. /\ g \in Flushes /\ g.stage = f.stage /\ g.records = f.records
        /\ g.started = f.started /\ g.delivered = f.delivered
        /\ g.left = k /\ g.chunks = k
    BY <1>0, <2>1, <2>3 DEF Flushes
  <2>5. g.marker = marker
    BY <1>0 DEF Flushes
  <2>6. Launch(s, g)
    BY <1>2
  <2> HIDE DEF g
  <2>7. /\ g.stage \in {"queued", "next"} /\ g.stage = plugin.flush[s].stage
        /\ g.records = plugin.flush[s].records /\ g.started = plugin.flush[s].started
        /\ g.delivered = plugin.flush[s].delivered
        /\ g.stage = "queued"
    BY <1>0, <2>4
  <2>8. g.left > 0 /\ g.started + g.left <= g.chunks
    BY <2>1, <2>2, <2>4
  <2>9. g.marker <=> plugin.gap[s] # "none"
    BY <2>5 DEF marker
  <2>10. plugin.flush[s] # None
    BY <1>0
  <2>11. loss' = IF g.stage = "queued"
                 THEN [loss EXCEPT ![s] = IF @ = "none" THEN @ ELSE "old"] ELSE loss
    BY <1>1, <2>7
  <2>12. g.stage # "next" /\ overflow' = overflow /\ failed' = failed /\ UnchangedInFlush
    BY <1>1, <2>7
  <2>13. g \in Flushes
    BY <2>4
  <2>14. QED
    BY <2>6, <2>7, <2>8, <2>9, <2>10, <2>11, <2>12, <2>13, LaunchKeeps
<1>3. ASSUME size = 0,
             plugin' = [plugin EXCEPT !.flush[s].stage = "finally",
                                      !.flush[s].result = "delivered"],
             UNCHANGED <<active, attempted>>
      PROVE  Inv'
  <2>1. ~ f.records.terminal /\ ~ marker
    <3>1. f.records \in Records /\ Size(f.records) \in Nat
      BY <1>0, KeptNumbers
    <3>2. Size(f.records) = 0 /\ ~ marker
      BY <1>3, <3>1
    <3>3. f.records.terminal => Size(f.records) > 0
      BY <3>1, Limits DEF Records, Size
    <3>4. QED
      BY <3>2, <3>3
  <2>2. plugin' = [plugin EXCEPT !.flush[s] = h]
    BY <1>0, <1>3 DEF Plugins
  <2>3. /\ h \in Flushes /\ h.records = f.records /\ h.stage = "finally"
        /\ h.result = "delivered" /\ h.started = f.started
        /\ h.delivered = f.delivered /\ h.left = f.left /\ h.chunks = f.chunks
    BY <1>0 DEF Flushes
  <2> HIDE DEF h, size
  <2>4. /\ plugin' \in Plugins /\ plugin'.buffer = plugin.buffer
        /\ plugin'.flush = [plugin.flush EXCEPT ![s] = h]
        /\ plugin'.gap = plugin.gap
        /\ plugin'.checks = plugin.checks /\ plugin'.deferred = plugin.deferred
        /\ plugin'.retained = plugin.retained
    BY <1>0, <2>2, <2>3 DEF Plugins
  <2>5. /\ loss' \in [Sessions -> {"none", "old", "new"}]
        /\ \A t \in Sessions \ {s} : loss'[t] = loss[t]
        /\ loss[s] = "none" => loss'[s] = "none"
    BY <1>0, <1>1 DEF States, State
  <2>6. /\ n \in States /\ n.p = plugin' /\ n.loss = loss' /\ n.overflow = overflow
        /\ State.loss = loss /\ State.overflow = overflow
    BY <1>0, <1>1, <2>4, <2>5 DEF States, State
  <2> HIDE DEF n
  <2>7. FlushOnly(State, n, s, h)
    BY <1>0, <2>4, <2>5, <2>6 DEF FlushOnly, Plugins
  <2>8. /\ n.p.flush[s] = h /\ h # None
        /\ \A t \in Sessions \ {s} : n.p.flush[t] = State.p.flush[t]
    BY <1>0, <2>3, <2>6, <2>7, FlushFields
  <2>9. Gaps(n) \subseteq Gaps(State)
    BY <1>0, <2>4, <2>6 DEF Gaps
  <2>10. Chunked(h)
    <3>1. f.delivered <= f.started /\ f.started + f.left <= f.chunks
      BY <1>0 DEF Chunked
    <3>2. QED
      BY <2>1, <2>3, <3>1 DEF Chunked
  <2>11. Reported(n, s)
    <3>1. n.p.gap[s] = plugin.gap[s] /\ n.overflow = overflow
          /\ (n.loss[s] # "none" => loss[s] # "none")
      BY <2>4, <2>5, <2>6
    <3>2. loss[s] # "none" => plugin.gap[s] # "none" \/ s \in overflow
      BY <1>0, <2>6 DEF Reported
    <3>3. QED
      BY <2>3, <2>8, <3>1, <3>2 DEF Reported
  <2>12. Sound(n)
    BY <1>0, <2>3, <2>6, <2>7, <2>9, <2>10, <2>11, SoundFlush
  <2>13. Launched'
    <3>1. active \in Nat
      <4>1. {t \in Sessions : At(t, "writing")} \in SUBSET Sessions
        OBVIOUS
      <4>2. QED
        BY <1>0, <4>1, TableCounts DEF Launched
    <3>2. ~ At(s, "writing") /\ ~ At(s, "writing")' /\ active' = active
      BY <1>0, <1>3, <2>3, <2>6, <2>8 DEF At
    <3>3. \A t \in Sessions \ {s} : plugin'.flush[t] = plugin.flush[t]
      BY <1>0, <2>6, <2>8
    <3>4. QED
      BY <1>0, <3>1, <3>2, <3>3, LaunchedAfter
  <2>14. Blame(State)'
    <3>1. ~ Starved(n, s) /\ ~ Working(State, s)
      BY <1>0, <2>3, <2>8 DEF Starved, Working
    <3>2. ~ (h # None /\ h.stage = "finally" /\ h.result = "attempted_failure")
      BY <2>3
    <3>3. State' = n /\ failed' = failed
      BY <1>1 DEF n
    <3>4. QED
      BY <1>0, <2>8, <3>1, <3>2, <3>3, BlameAfter
  <2>15. Once(n, s, attempted[s], s \in finished)
    <3>1. Unsent(n, s) = Unsent(State, s)
      BY <1>0, <2>1, <2>3, <2>4, <2>6, <2>8 DEF Unsent
    <3>2. QED
      BY <1>0, <2>1, <2>3, <2>8, <3>1 DEF Once
  <2>16. /\ attempted' = attempted /\ attempted \in [Sessions -> Nat]
         /\ closing' = closing /\ finished' = finished /\ events' = events
         /\ failed' \in BOOLEAN
    BY <1>0, <1>1, <1>3 DEF UnchangedInFlush, Counted
  <2>17. QED
    BY <1>0, <2>3, <2>4, <2>12, <2>13, <2>14, <2>15, <2>16, FlushInv DEF n
<1>4. QED
  BY <1>1, <1>2, <1>3

(* What the invariant says of a session whose flush runs.                  *)
LEMMA FlushFacts ==
    ASSUME Inv, NEW s \in Sessions, plugin.flush[s] # None
    PROVE  /\ Sound(State) /\ Launched /\ Counted /\ Blame(State) /\ Sent
           /\ State \in States /\ plugin \in Plugins /\ State.p = plugin
           /\ State.loss = loss /\ State.overflow = overflow
           /\ plugin.flush[s] \in Flushes /\ Chunked(plugin.flush[s]) /\ Reported(State, s)
           /\ Once(State, s, attempted[s], s \in finished)
           /\ attempted \in [Sessions -> Nat] /\ attempted[s] \in Nat /\ active \in Nat
<1>1. Sound(State) /\ Launched /\ Counted /\ Blame(State) /\ Sent
  BY InvParts
<1>2. State \in States /\ State.p = plugin /\ State.loss = loss /\ State.overflow = overflow
  BY <1>1 DEF Sound, State
<1>3. plugin \in Plugins /\ plugin.flush[s] \in Flushes
  BY <1>2 DEF States, Plugins
<1>4. Chunked(plugin.flush[s]) /\ Reported(State, s)
  BY <1>1, <1>2 DEF Sound
<1>5. Once(State, s, attempted[s], s \in finished)
  BY <1>1 DEF Sent
<1>6. attempted \in [Sessions -> Nat] /\ attempted[s] \in Nat
  BY <1>1 DEF Counted
<1>7. active \in Nat
  <2>1. {t \in Sessions : At(t, "writing")} \in SUBSET Sessions
    OBVIOUS
  <2>2. QED
    BY <1>1, <2>1, TableCounts DEF Launched
<1>8. QED
  BY <1>1, <1>2, <1>3, <1>4, <1>5, <1>6, <1>7

(* The next chunk begins.                                                  *)
LEMMA Next1Step ==
    ASSUME Inv, NEW s \in Sessions, Next1(s)
    PROVE  Inv'
<1> DEFINE f == plugin.flush[s]
<1>1. f # None /\ f.stage = "next" /\ Launch(s, f) /\ UNCHANGED <<loss, overflow, failed>>
      /\ UnchangedInFlush
  BY DEF Next1, At
<1>2. f \in Flushes /\ Chunked(f)
  BY <1>1, FlushFacts
<1>3. f.left > 0 /\ f.started + f.left <= f.chunks
  BY <1>1, <1>2 DEF Chunked
<1>4. f.stage \in {"queued", "next"} /\ f.stage # "queued"
  BY <1>1
<1>5. loss' = IF f.stage = "queued"
              THEN [loss EXCEPT ![s] = IF @ = "none" THEN @ ELSE "old"] ELSE loss
  BY <1>1, <1>4
<1>6. QED
  BY <1>1, <1>2, <1>3, <1>4, <1>5, LaunchKeeps

(* A launcher ends.  While one that is delivered ends no other is missing  *)
(* for want of it; one that is not makes its own batch fail.               *)
LEMMA WriteEndsStep ==
    ASSUME Inv, NEW s \in Sessions, NEW ok \in BOOLEAN, WriteEnds(s, ok)
    PROVE  Inv'
<1> DEFINE f == plugin.flush[s]
           more == f.started + 1
           sent == f.delivered + IF ok THEN 1 ELSE 0
           g == [f EXCEPT !.started = more, !.delivered = sent]
           h == Written(g)
           n == State'
<1>1. /\ f # None /\ f.stage = "writing" /\ active' = active - 1
      /\ ok => (\A t \in Flushing(State) : At(t, "writing"))
      /\ attempted' = attempted /\ loss' = loss /\ overflow' = overflow
      /\ failed' = failed
      /\ closing' = closing /\ events' = events /\ finished' = finished
  BY DEF WriteEnds, At, UnchangedInFlush
<1>0. /\ Sound(State) /\ Launched /\ Counted /\ Blame(State) /\ Sent
      /\ State \in States /\ plugin \in Plugins /\ State.p = plugin
      /\ State.loss = loss /\ State.overflow = overflow
      /\ f \in Flushes /\ Chunked(f) /\ Reported(State, s)
      /\ Once(State, s, attempted[s], s \in finished)
      /\ attempted \in [Sessions -> Nat] /\ attempted[s] \in Nat /\ active \in Nat
  BY <1>1, FlushFacts
<1>2. /\ f.left > 0 /\ f.started + f.left <= f.chunks /\ f.delivered <= f.started
      /\ f.left \in Nat /\ f.started \in Nat /\ f.delivered \in Nat /\ f.chunks \in Nat
      /\ f.chunks <= MaxChunks /\ f.chunks > 0
  BY <1>0, <1>1 DEF Chunked, Flushes
<1>3. more \in 0..MaxChunks /\ sent \in 0..MaxChunks /\ sent <= more
      /\ more + f.left - 1 <= f.chunks /\ more > 0 /\ (~ ok => sent < more)
  BY <1>2, Limits
<1>4. plugin' = [plugin EXCEPT !.flush[s] = h]
  BY <1>0, <1>1 DEF WriteEnds, Plugins, Flushes
<1> HIDE DEF more, sent
<1>5. /\ g \in Flushes /\ g.records = f.records /\ g.chunks = f.chunks
      /\ g.started = more /\ g.delivered = sent /\ g.left = f.left
  BY <1>0, <1>3 DEF Flushes
<1>6. g.marker = f.marker
  BY <1>0 DEF Flushes
<1> HIDE DEF g
<1>7. /\ h \in Flushes /\ h.records = f.records /\ h.chunks = f.chunks
      /\ h.started = more /\ h.delivered = sent /\ h.left = f.left - 1
      /\ h.marker <=> f.marker
      /\ h.stage = IF f.left = 1 THEN "end" ELSE "next"
  BY <1>2, <1>5, <1>6, WrittenFields
<1> HIDE DEF h
<1>8. /\ plugin' \in Plugins /\ plugin'.buffer = plugin.buffer
      /\ plugin'.flush = [plugin.flush EXCEPT ![s] = h]
      /\ plugin'.gap = plugin.gap
      /\ plugin'.checks = plugin.checks /\ plugin'.deferred = plugin.deferred
      /\ plugin'.retained = plugin.retained
  BY <1>0, <1>4, <1>7 DEF Plugins
<1>9. /\ n \in States /\ n.p = plugin' /\ n.loss = loss /\ n.overflow = overflow
  BY <1>0, <1>1, <1>8 DEF States, State
<1> HIDE DEF n
<1>10. FlushOnly(State, n, s, h)
  BY <1>0, <1>8, <1>9 DEF FlushOnly
<1>11. /\ n.p.flush[s] = h /\ h # None
       /\ \A t \in Sessions \ {s} : n.p.flush[t] = State.p.flush[t]
  BY <1>0, <1>1, <1>7, <1>9, <1>10, FlushFields
<1>12. Gaps(n) \subseteq Gaps(State)
  BY <1>0, <1>8, <1>9 DEF Gaps
<1>13. h.stage \in {"next", "end"} /\ (h.stage = "next" => h.left > 0)
  BY <1>2, <1>7
<1>14. Chunked(h)
  <2>1. h.started + h.left <= h.chunks /\ h.delivered <= h.started /\ h.chunks > 0
    BY <1>2, <1>3, <1>7, Limits
  <2>2. QED
    BY <1>13, <2>1 DEF Chunked
<1>15. Reported(n, s)
  <2>1. n.loss[s] = loss[s] /\ n.p.gap[s] = plugin.gap[s] /\ n.overflow = overflow
    BY <1>8, <1>9
  <2>2. /\ loss[s] # "none" => plugin.gap[s] # "none" \/ s \in overflow
        /\ loss[s] = "new" => Told(State, s)
        /\ loss[s] = "old" => f.marker \/ Told(State, s)
    BY <1>0, <1>1 DEF Reported
  <2>3. Told(n, s) <=> Told(State, s)
    BY <1>0, <2>1 DEF Told
  <2>4. QED
    BY <1>7, <1>11, <2>1, <2>2, <2>3 DEF Reported
<1>16. Sound(n)
  BY <1>0, <1>1, <1>7, <1>9, <1>10, <1>12, <1>14, <1>15, SoundFlush
<1>17. Launched'
  <2>1. At(s, "writing") /\ ~ At(s, "writing")'
    BY <1>1, <1>9, <1>11, <1>13 DEF At
  <2>2. \A t \in Sessions \ {s} : plugin'.flush[t] = plugin.flush[t]
    BY <1>0, <1>9, <1>11
  <2>3. QED
    BY <1>0, <1>1, <2>1, <2>2, LaunchedAfter
<1>18. Blame(State)'
  <2>1. ~ Starved(n, s)
    BY <1>3, <1>7, <1>11 DEF Starved
  <2>2. ASSUME NEW t \in Sessions \ {s}, Starved(State, t)
        PROVE  Working(n, s)
    <3>1. t \in Flushing(State) /\ ~ At(t, "writing")
      BY <1>0, <2>2 DEF Starved, Flushing, At
    <3>2. ~ ok
      BY <1>1, <3>1
    <3>3. h.delivered < h.started
      BY <1>3, <1>7, <3>2
    <3>4. QED
      BY <1>11, <1>13, <3>3 DEF Working
  <2>3. h.stage # "finally"
    BY <1>13
  <2>4. State' = n
    BY DEF n
  <2>5. QED
    BY <1>0, <1>1, <1>11, <2>1, <2>2, <2>3, <2>4, BlameAfter
<1>19. Once(n, s, attempted[s], s \in finished)
  <2>1. Unsent(State, s) = (IF plugin.buffer[s].terminal THEN 1 ELSE 0) + 0
    BY <1>0, <1>1 DEF Unsent
  <2>2. Unsent(n, s) = (IF plugin.buffer[s].terminal THEN 1 ELSE 0) + 0
    <3>1. h.started # 0
      BY <1>3, <1>7
    <3>2. QED
      BY <1>8, <1>9, <1>11, <3>1 DEF Unsent
  <2>3. Unsent(n, s) = Unsent(State, s)
    BY <2>1, <2>2
  <2>4. f.records.terminal => attempted[s] >= 1
    BY <1>0, <1>1 DEF Once
  <2>5. QED
    BY <1>0, <1>7, <1>11, <2>3, <2>4 DEF Once
<1>20. QED
  BY <1>0, <1>1, <1>7, <1>8, <1>16, <1>17, <1>18, <1>19, FlushInv DEF n, Counted

Done(m, s, r) == [m EXCEPT !.p.flush[s].stage = "finally", !.p.flush[s].result = r]
DoneFlush(f, r) == [f EXCEPT !.stage = "finally", !.result = r]

(* How a flush ends is written into it.                                    *)
LEMMA DoneIs ==
    ASSUME NEW m \in States, NEW s \in Sessions, m.p.flush[s] \in Flushes,
           NEW r \in {"attempted_failure", "delivered", "not_started"}
    PROVE  Done(m, s, r) = [m EXCEPT !.p.flush[s] = DoneFlush(m.p.flush[s], r)]
<1> DEFINE h == [m.p.flush[s] EXCEPT !.stage = "finally", !.result = r]
           a == [m EXCEPT !.p.flush[s].stage = "finally", !.p.flush[s].result = r]
           b == [m EXCEPT !.p.flush[s] = h]
<1>1. a.p.flush = b.p.flush
  <2> DEFINE g == m.p.flush
             c == [[g EXCEPT ![s].stage = "finally"] EXCEPT ![s].result = r]
  <2>1. m.p.flush \in [Sessions -> Flushes \cup {None}]
    BY DEF States, Plugins
  <2>2. a.p.flush = c
    BY DEF States, Plugins
  <2>3. b.p.flush = [g EXCEPT ![s] = h]
    <3> HIDE DEF h
    <3>1. QED
      BY DEF States, Plugins
  <2>4. c = [g EXCEPT ![s] = h]
    BY <2>1 DEF Flushes
  <2>5. QED
    BY <2>2, <2>3, <2>4
<1>2. h \in Flushes
  BY DEF Flushes
<1>3. b \in States
  <2> HIDE DEF h
  <2>1. QED
    BY <1>2 DEF States, Plugins
<1>4. /\ a.p.buffer = m.p.buffer /\ a.p.gap = m.p.gap /\ a.p.checks = m.p.checks
      /\ a.p.deferred = m.p.deferred /\ a.p.retained = m.p.retained
      /\ a.loss = m.loss /\ a.overflow = m.overflow
  BY DEF States, Plugins
<1>5. /\ b.p.buffer = m.p.buffer /\ b.p.gap = m.p.gap /\ b.p.checks = m.p.checks
      /\ b.p.deferred = m.p.deferred /\ b.p.retained = m.p.retained
      /\ b.loss = m.loss /\ b.overflow = m.overflow
  BY DEF States, Plugins
<1>6. a \in [p : [buffer : {a.p.buffer}, flush : {a.p.flush}, gap : {a.p.gap},
                 checks : {a.p.checks}, deferred : {a.p.deferred},
                 retained : {a.p.retained}],
            loss : {a.loss}, overflow : {a.overflow}]
  BY DEF States, Plugins
<1>7. a \in States
  <2> HIDE DEF a, b, h
  <2>1. QED
    BY <1>1, <1>3, <1>4, <1>6 DEF States, Plugins
<1> HIDE DEF a, b, h
<1>8. a = b
  BY <1>1, <1>3, <1>4, <1>5, <1>7, SameState
<1>9. QED
  BY <1>8 DEF a, b, h, Done, DoneFlush

(* A flush ends: delivered whole, its gap goes unless it was marked since; *)
(* else the loss is marked.                                                *)
LEMMA EndStep ==
    ASSUME Inv, NEW s \in Sessions, End(s)
    PROVE  Inv'
<1> DEFINE f == plugin.flush[s]
           result == IF f.delivered = f.chunks THEN "delivered"
                     ELSE IF f.started = 0 THEN "not_started" ELSE "attempted_failure"
           h == [f EXCEPT !.stage = "finally", !.result = result]
           d == [State EXCEPT !.p.flush[s] = h]
           n == State'
<1>1. /\ f # None /\ f.stage = "end" /\ active' = active /\ attempted' = attempted
      /\ closing' = closing /\ events' = events /\ finished' = finished
      /\ failed' = (failed \/ (f.started > 0 /\ f.delivered < f.chunks))
  BY DEF End, At, UnchangedInFlush
<1>0. /\ Sound(State) /\ Launched /\ Counted /\ Blame(State) /\ Sent
      /\ State \in States /\ plugin \in Plugins /\ State.p = plugin
      /\ State.loss = loss /\ State.overflow = overflow
      /\ f \in Flushes /\ Chunked(f) /\ Reported(State, s)
      /\ Once(State, s, attempted[s], s \in finished)
      /\ attempted \in [Sessions -> Nat] /\ attempted[s] \in Nat /\ active \in Nat
  BY <1>1, FlushFacts
<1>2. /\ f.started + f.left <= f.chunks /\ f.delivered <= f.started
      /\ f.left \in Nat /\ f.started \in Nat /\ f.delivered \in Nat /\ f.chunks \in Nat
      /\ f.chunks > 0
  BY <1>0, <1>1 DEF Chunked, Flushes
<1>3. /\ result \in {"attempted_failure", "delivered", "not_started"}
      /\ result = "not_started" <=> f.delivered # f.chunks /\ f.started = 0
      /\ result = "attempted_failure" => f.started > 0 /\ f.delivered < f.chunks
      /\ result = "delivered" => f.started > 0 /\ ~ (f.delivered < f.started)
  BY <1>2
<1>4. Become(IF f.delivered = f.chunks
             THEN [d EXCEPT !.p.gap[s] = IF @ = "marked" THEN @ ELSE "none",
                            !.loss[s] = IF f.marker /\ @ = "old" THEN "none" ELSE @]
             ELSE Lost(d, s))
  <2>1. Done(State, s, result) = d
    <3> HIDE DEF result
    <3>1. State \in States /\ State.p.flush[s] = f /\ f \in Flushes
          /\ result \in {"attempted_failure", "delivered", "not_started"}
      BY <1>0, <1>3
    <3>2. Done(State, s, result) = [State EXCEPT !.p.flush[s] = DoneFlush(f, result)]
      <4> HIDE DEF f
      <4>1. QED
        BY <3>1, DoneIs
    <3>3. DoneFlush(f, result) = h
      BY DEF DoneFlush
    <3>4. QED
      BY <3>2, <3>3
  <2>2. CASE f.delivered = f.chunks
    <3>1. Become([Done(State, s, "delivered") EXCEPT
                    !.p.gap[s] = IF @ = "marked" THEN @ ELSE "none",
                    !.loss[s] = IF f.marker /\ @ = "old" THEN "none" ELSE @])
      BY <2>2 DEF End, Done
    <3>2. Done(State, s, "delivered") = d
      BY <2>1, <2>2
    <3> HIDE DEF d, result
    <3>3. QED
      BY <2>2, <3>1, <3>2
  <2>3. CASE f.delivered # f.chunks
    <3>1. Become(Lost(Done(State, s, IF f.started = 0 THEN "not_started"
                                     ELSE "attempted_failure"), s))
      BY <2>3 DEF End, Done
    <3>2. Done(State, s, IF f.started = 0 THEN "not_started" ELSE "attempted_failure") = d
      BY <2>1, <2>3
    <3> HIDE DEF d, result
    <3>3. QED
      BY <2>3, <3>1, <3>2
  <2>4. QED
    BY <2>2, <2>3
<1> HIDE DEF result
<1>5. /\ h \in Flushes /\ h.records = f.records /\ h.stage = "finally"
      /\ h.result = result /\ h.started = f.started
      /\ h.delivered = f.delivered /\ h.left = f.left /\ h.chunks = f.chunks
  BY <1>0, <1>3 DEF Flushes
<1> HIDE DEF h
<1>6. /\ d \in States /\ d.p.buffer = plugin.buffer
      /\ d.p.flush = [plugin.flush EXCEPT ![s] = h] /\ d.p.gap = plugin.gap
      /\ d.p.checks = plugin.checks /\ d.p.deferred = plugin.deferred
      /\ d.p.retained = plugin.retained /\ d.loss = loss /\ d.overflow = overflow
  BY <1>0, <1>5 DEF States, Plugins
<1>7. Chunked(h)
  BY <1>2, <1>3, <1>5 DEF Chunked
<1> HIDE DEF d
<1>8. Sound(n) /\ plugin' = n.p /\ n.p.buffer = plugin.buffer
      /\ n.p.flush = [plugin.flush EXCEPT ![s] = h]
  <2>1. CASE f.delivered = f.chunks
    <3> DEFINE gap == IF plugin.gap[s] = "marked" THEN "marked" ELSE "none"
               lost == IF f.marker /\ loss[s] = "old" THEN "none" ELSE loss[s]
               x == [d EXCEPT !.p.gap[s] = gap, !.loss[s] = lost]
    <3>1. [d EXCEPT !.p.gap[s] = IF @ = "marked" THEN @ ELSE "none",
                    !.loss[s] = IF f.marker /\ @ = "old" THEN "none" ELSE @] = x
      BY <1>6 DEF States, Plugins
    <3>2. Become(x)
      BY <1>4, <2>1, <3>1
    <3>3. gap \in {"none", "seen", "marked"} /\ lost \in {"none", "old", "new"}
      BY <1>0 DEF States
    <3>4. lost # "none" => gap # "none" \/ s \in overflow
      <4>1. /\ loss[s] = "new" => Told(State, s)
            /\ loss[s] = "old" => f.marker \/ Told(State, s)
        BY <1>0, <1>1 DEF Reported
      <4>2. loss[s] \in {"none", "old", "new"}
        BY <1>0 DEF States
      <4>3. Told(State, s) => gap # "none" \/ s \in overflow
        BY <1>0 DEF Told
      <4>4. QED
        BY <4>1, <4>2, <4>3
    <3>5. gap # "none" => plugin.gap[s] # "none"
      OBVIOUS
    <3> HIDE DEF gap, lost
    <3>6. /\ x \in States /\ x.p.buffer = plugin.buffer
          /\ x.p.flush = [plugin.flush EXCEPT ![s] = h]
          /\ x.p.gap = [plugin.gap EXCEPT ![s] = gap]
          /\ x.p.checks = plugin.checks /\ x.p.deferred = plugin.deferred
          /\ x.p.retained = plugin.retained
          /\ x.loss = [loss EXCEPT ![s] = lost] /\ x.overflow = overflow
      BY <1>6, <3>3 DEF States, Plugins
    <3> HIDE DEF x
    <3>7. FlushOnly(State, x, s, h)
      BY <1>0, <3>6 DEF FlushOnly, States, Plugins
    <3>8. x.p.gap[s] = gap /\ x.loss[s] = lost /\ x.p.flush[s] = h
      BY <1>0, <3>6 DEF States, Plugins
    <3>9. Reported(x, s)
      BY <1>5, <3>4, <3>6, <3>8 DEF Reported
    <3>10. Gaps(x) \subseteq Gaps(State)
      BY <1>0, <3>5, <3>6, <3>8 DEF Gaps, Plugins
    <3>11. Sound(x)
      BY <1>0, <1>1, <1>5, <1>7, <3>6, <3>7, <3>9, <3>10, SoundFlush
    <3>12. n = x /\ plugin' = x.p
      BY <3>2, <3>6, BecomeIs
    <3>13. QED
      BY <3>6, <3>11, <3>12
  <2>2. CASE f.delivered # f.chunks
    <3>1. FlushOnly(State, d, s, h) /\ Gaps(d) = Gaps(State)
      BY <1>0, <1>6 DEF FlushOnly, Gaps
    <3>2. Reported(d, s)
      <4>1. d.p.flush[s] = h /\ d.p.gap[s] = plugin.gap[s]
        BY <1>0, <1>6 DEF Plugins
      <4>2. QED
        BY <1>0, <1>5, <1>6, <4>1 DEF Reported
    <3>3. Sound(d)
      BY <1>0, <1>1, <1>5, <1>6, <1>7, <3>1, <3>2, SoundFlush
    <3>4. Sound(Lost(d, s)) /\ Same(d, Lost(d, s))
      BY <3>3, LostKeeps
    <3>5. Become(Lost(d, s))
      BY <1>4, <2>2
    <3> DEFINE x == Lost(d, s)
    <3> HIDE DEF x
    <3>6. n = x /\ plugin' = x.p
      BY <3>4, <3>5, BecomeIs DEF x, Sound
    <3>7. x.p.buffer = plugin.buffer /\ x.p.flush = [plugin.flush EXCEPT ![s] = h]
      BY <1>6, <3>4 DEF Same, x
    <3>8. Sound(n)
      BY <3>4, <3>6 DEF x
    <3>9. QED
      BY <3>6, <3>7, <3>8
  <2>3. QED
    BY <2>1, <2>2
<1> HIDE DEF n
<1>9. /\ n.p.flush[s] = h /\ h # None
      /\ \A t \in Sessions \ {s} : n.p.flush[t] = State.p.flush[t]
  BY <1>0, <1>5, <1>8, Limits DEF Plugins
<1>10. Launched'
  <2>1. ~ At(s, "writing") /\ ~ At(s, "writing")'
    BY <1>1, <1>5, <1>8, <1>9 DEF At
  <2>2. \A t \in Sessions \ {s} : plugin'.flush[t] = plugin.flush[t]
    BY <1>0, <1>8, <1>9
  <2>3. QED
    BY <1>0, <1>1, <2>1, <2>2, LaunchedAfter
<1>11. Blame(State)'
  <2>1. Starved(n, s) => Starved(State, s)
    BY <1>0, <1>1, <1>3, <1>5, <1>9 DEF Starved
  <2>2. Starved(n, s) /\ ~ failed' => \E t \in Sessions \ {s} : Working(State, t)
    BY <1>0, <1>1, <2>1 DEF Blame
  <2>3. h.result = "attempted_failure" => failed'
    BY <1>1, <1>3, <1>5
  <2>4. Working(State, s) => failed'
    <3>1. Working(State, s) => f.delivered < f.started
      BY <1>0, <1>1 DEF Working
    <3>2. f.delivered < f.started => f.started > 0 /\ f.delivered < f.chunks
      BY <1>2
    <3>3. QED
      BY <1>1, <3>1, <3>2
  <2>5. State' = n
    BY DEF n
  <2>6. \A t \in Sessions \ {s} :
           Starved(State, t) /\ ~ failed' /\ Working(State, s) => Working(n, s)
    BY <2>4
  <2>7. /\ h # None /\ h.stage = "finally" /\ h.result = "attempted_failure" => failed'
        /\ failed => failed'
        /\ \A t \in Sessions \ {s} : n.p.flush[t] = State.p.flush[t]
        /\ n.p.flush[s] = h /\ Blame(State)
    BY <1>0, <1>1, <1>9, <2>3
  <2>8. QED
    BY <2>2, <2>5, <2>6, <2>7, BlameAfter
<1>12. Once(n, s, attempted[s], s \in finished)
  <2>1. Unsent(n, s) = Unsent(State, s)
    BY <1>0, <1>1, <1>5, <1>8, <1>9 DEF Unsent
  <2>2. n.p.flush[s].records = f.records /\ n.p.flush[s].started = f.started
        /\ n.p.flush[s].stage = "finally"
    BY <1>5, <1>9
  <2>3. f.records.terminal /\ f.started > 0 => attempted[s] >= 1
    BY <1>0, <1>1 DEF Once
  <2>4. n.p.flush[s] # None /\ n.p.flush[s].records.terminal
          /\ (n.p.flush[s].started > 0 \/ n.p.flush[s].stage = "writing")
            => attempted[s] >= 1
    BY <2>2, <2>3
  <2>5. QED
    BY <1>0, <2>1, <2>4 DEF Once
<1>13. failed' \in BOOLEAN
  BY <1>1
<1>14. plugin'.buffer = plugin.buffer /\ plugin'.flush = [plugin.flush EXCEPT ![s] = h]
  BY <1>8
<1>15. h \in Flushes
  BY <1>5
<1>16. QED
  BY <1>0, <1>1, <1>8, <1>10, <1>11, <1>12, <1>13, <1>14, <1>15, FlushInv DEF n

\* A flush gives back the bytes of its records.
Freed(m, r) == [m EXCEPT !.p.retained = @ - Size(r)]

(* Without the flush and its bytes the account is what the others have.    *)
LEMMA FreedKeeps ==
    ASSUME NEW m, NEW s \in Sessions, Sound(m), m.p.flush[s] # None
    PROVE  LET k == Freed(m, m.p.flush[s].records)
               n == Released(k, s)
           IN  /\ k \in States /\ Sound(n) /\ n.p.buffer = m.p.buffer
               /\ n.p.flush = [m.p.flush EXCEPT ![s] = None]
<1> DEFINE r == m.p.flush[s].records
           k == Freed(m, r)
           n == Released(k, s)
<1>0. m \in States /\ m.p.retained \in Int /\ r \in Records /\ Size(r) \in Nat
      /\ Size(m.p.buffer[s]) \in Nat
  BY KeptNumbers DEF Sound, States, Plugins
<1> HIDE DEF r
<1>1. /\ k \in States /\ k.p.retained = m.p.retained - Size(r)
      /\ k.p.buffer = m.p.buffer /\ k.p.flush = m.p.flush /\ k.p.gap = m.p.gap
      /\ k.p.checks = m.p.checks /\ k.p.deferred = m.p.deferred
      /\ k.loss = m.loss /\ k.overflow = m.overflow
  BY <1>0 DEF Freed, States, Plugins
<1> HIDE DEF k
<1>2. /\ n \in States /\ n.p.retained = m.p.retained - Size(r)
      /\ n.p.buffer = m.p.buffer /\ n.p.flush = [m.p.flush EXCEPT ![s] = None]
      /\ n.p.gap = m.p.gap /\ n.p.checks = m.p.checks \ {s}
      /\ n.p.deferred = m.p.deferred /\ n.loss = m.loss /\ n.overflow = m.overflow
  <2>1. k \in States
    BY <1>1
  <2>2. /\ n \in States /\ n.p.flush = [k.p.flush EXCEPT ![s] = None]
        /\ n.p.checks = k.p.checks \ {s} /\ n.p.buffer = k.p.buffer
        /\ n.p.gap = k.p.gap /\ n.p.deferred = k.p.deferred
        /\ n.p.retained = k.p.retained /\ n.loss = k.loss /\ n.overflow = k.overflow
    BY <2>1, ReleasedFields
  <2> HIDE DEF n
  <2>3. QED
    BY <1>1, <2>2
<1> HIDE DEF n
<1>3. /\ n.p.flush[s] = None
      /\ \A t \in Sessions \ {s} : n.p.flush[t] = m.p.flush[t]
  BY <1>0, <1>2 DEF States, Plugins
<1>4. Elsewhere(m, n, s)
  BY <1>2, <1>3 DEF Elsewhere
<1>5. Tables(n)
  <2>1. Flushing(n) = Flushing(m) \ {s} /\ Gaps(n) = Gaps(m)
    BY <1>2, <1>3 DEF Flushing, Gaps
  <2>2. Flushing(m) \in SUBSET Sessions /\ m.p.checks \in SUBSET Sessions
    BY <1>0 DEF Flushing, States, Plugins
  <2>3. /\ Cardinality(Flushing(m)) <= MaxFlushes /\ Cardinality(m.p.checks) <= MaxGapChecks
        /\ m.p.checks \subseteq Flushing(m) /\ Cardinality(Gaps(m)) <= MaxGaps
        /\ Cardinality(m.p.deferred) <= MaxDeferred
    BY DEF Sound, Tables
  <2>4. /\ Cardinality(Flushing(m)) \in Nat /\ Cardinality(m.p.checks) \in Nat
        /\ Cardinality(Flushing(m) \ {s}) \in Nat /\ Cardinality(m.p.checks \ {s}) \in Nat
        /\ Cardinality(Flushing(m) \ {s}) <= Cardinality(Flushing(m))
        /\ Cardinality(m.p.checks \ {s}) <= Cardinality(m.p.checks)
    BY <2>2, TableCounts, TablePart
  <2>5. Cardinality(Flushing(n)) <= MaxFlushes /\ Cardinality(n.p.checks) <= MaxGapChecks
    BY <1>2, <2>1, <2>3, <2>4, Limits
  <2>6. n.p.checks \subseteq Flushing(n)
    BY <1>2, <2>1, <2>3
  <2>7. QED
    BY <1>2, <2>1, <2>3, <2>5, <2>6 DEF Tables
<1>6. Locally(n, s)
  <2>1. Reported(m, s) /\ Size(m.p.buffer[s]) <= MaxBuffer
    BY DEF Sound
  <2>2. Reported(n, s)
    BY <1>2, <1>3, <2>1 DEF Reported
  <2>3. QED
    BY <1>2, <1>3, <2>1, <2>2 DEF Locally
<1>7. /\ Kept(m.p)[s] = Size(m.p.buffer[s]) + Size(r)
      /\ Kept(n.p)[s] = Size(m.p.buffer[s]) + 0
  BY <1>2, <1>3 DEF Kept, r
<1>8. /\ n.p.retained = m.p.retained - Kept(m.p)[s] + Kept(n.p)[s]
      /\ Kept(n.p)[s] <= Kept(m.p)[s]
  BY <1>0, <1>2, <1>7
<1>9. Others(n.p)[s] <= Others(m.p)[s]
  <2>1. /\ Others(m.p)[s] = m.p.buffer[s].others + r.others
        /\ Others(n.p)[s] = m.p.buffer[s].others + 0
    BY <1>2, <1>3 DEF Others, r
  <2>2. m.p.buffer[s].others \in Nat /\ r.others \in Nat
    BY <1>0, KeptNumbers DEF Records
  <2>3. QED
    BY <2>1, <2>2
<1>10. Sound(n)
  BY <1>2, <1>4, <1>5, <1>6, <1>8, <1>9, SoundLess
<1>11. /\ k = Freed(m, m.p.flush[s].records)
       /\ n = Released(Freed(m, m.p.flush[s].records), s)
  BY DEF r, k, n
<1>12. QED
  BY <1>1, <1>2, <1>10, <1>11

\* The state after the end of a flush, before another is scheduled.
EndedState(s) ==
    LET f == plugin.flush[s]
        freed == Freed(State, f.records)
    IN  Released(IF f.records.terminal /\ f.result = "not_started"
                 THEN Restore(freed, s) ELSE freed, s)

(* It has the terminal of the flush if no launcher got any part of it, and *)
(* then the session had no other.                                          *)
LEMMA EndedKeeps ==
    ASSUME Inv, NEW s \in Sessions, At(s, "finally")
    PROVE  LET n == EndedState(s) IN
           /\ Sound(n) /\ n.p.flush = [plugin.flush EXCEPT ![s] = None]
           /\ \A t \in Sessions \ {s} : Unsent(n, t) = Unsent(State, t)
           /\ Once(n, s, attempted[s], s \in finished)
<1> DEFINE f == plugin.flush[s]
           k == Freed(State, f.records)
           r == Released(k, s)
           n == EndedState(s)
           again == f.records.terminal /\ f.result = "not_started"
           bit == IF plugin.buffer[s].terminal THEN 1 ELSE 0
<1>1. f # None /\ f.stage = "finally"
  BY DEF At
<1>0. /\ Sound(State) /\ State \in States /\ plugin \in Plugins /\ State.p = plugin
      /\ f \in Flushes /\ Chunked(f)
      /\ Once(State, s, attempted[s], s \in finished) /\ attempted[s] \in Nat
  BY <1>1, FlushFacts
<1>2. /\ k \in States /\ Sound(r) /\ r.p.buffer = plugin.buffer
      /\ r.p.flush = [plugin.flush EXCEPT ![s] = None]
  BY <1>0, <1>1, FreedKeeps
<1>3. n = IF again THEN Restore(r, s) ELSE r
  <2>1. Released(Restore(k, s), s) = Restore(r, s)
    BY <1>2, ReleasedRestore
  <2>2. n = Released(IF again THEN Restore(k, s) ELSE k, s)
    BY DEF EndedState
  <2> HIDE DEF n, k
  <2>3. QED
    BY <2>1, <2>2
<1> HIDE DEF n, r, k
<1>4. r.p.flush[s] = None /\ \A t \in Sessions \ {s} : r.p.flush[t] = plugin.flush[t]
  BY <1>0, <1>2 DEF Plugins
<1>5. \A t \in Sessions \ {s} : Unsent(r, t) = Unsent(State, t)
  BY <1>0, <1>2, <1>4 DEF Unsent
<1>6. Unsent(r, s) = bit
  BY <1>2, <1>4 DEF Unsent
<1>7. f.started \in Nat /\ (f.result = "not_started" => f.started = 0)
      /\ (f.result # "not_started" /\ f.records.terminal => f.started > 0)
  BY <1>0, <1>1 DEF Chunked, Flushes
<1>8. attempted[s] + Unsent(State, s) <= (IF s \in finished THEN 1 ELSE 0)
      /\ (s \in finished /\ Cardinality(Sessions) <= Reserve
            => attempted[s] + Unsent(State, s) = 1)
  BY <1>0 DEF Once
<1>9. CASE again
  <2>1. Unsent(State, s) = bit + 1 /\ bit \in {0, 1}
    BY <1>0, <1>1, <1>7, <1>9 DEF Unsent
  <2>2. ~ plugin.buffer[s].terminal /\ bit = 0
    <3>1. bit = 0
      <4> HIDE DEF bit
      <4>1. QED
        BY <1>0, <1>8, <2>1
    <3>2. QED
      BY <3>1
  <2>3. NoTerminal(r, s)
    BY <1>2, <1>4, <2>2 DEF NoTerminal
  <2>4. \A t \in Sessions : Single(r, t)
    <3>1. \A t \in Sessions : Single(State, t)
      BY InvTerminals
    <3>2. ASSUME NEW t \in Sessions
          PROVE  Single(r, t)
      <4>1. CASE t = s
        BY <2>3, <4>1 DEF NoTerminal, Single
      <4>2. CASE t # s
        BY <1>0, <1>2, <1>4, <3>1, <4>2 DEF Single
      <4>3. QED
        BY <4>1, <4>2
    <3>3. QED
      BY <3>2
  <2>5. /\ Sound(n) /\ KeepsOthers(r, n, s) /\ n.p.flush = r.p.flush
        /\ Unsent(n, s) \in {0, 1}
        /\ Cardinality(Sessions) <= Reserve => Unsent(n, s) = 1
    BY <1>2, <1>3, <1>9, <2>3, <2>4, RestoreKeeps
  <2>6. \A t \in Sessions \ {s} : Unsent(n, t) = Unsent(State, t)
    BY <1>5, <2>5 DEF KeepsOthers
  <2>7. Once(n, s, attempted[s], s \in finished)
    <3>1. Unsent(State, s) = 1 /\ n.p.flush[s] = None
      BY <1>4, <2>1, <2>2, <2>5
    <3>2. attempted[s] + Unsent(n, s) <= (IF s \in finished THEN 1 ELSE 0)
      BY <1>0, <1>8, <2>5, <3>1
    <3>3. s \in finished /\ Cardinality(Sessions) <= Reserve
            => attempted[s] + Unsent(n, s) = 1
      BY <1>8, <2>5, <3>1
    <3>4. QED
      BY <3>1, <3>2, <3>3 DEF Once
  <2>8. QED
    BY <1>2, <2>5, <2>6, <2>7 DEF n
<1>10. CASE ~ again
  <2>1. n = r
    BY <1>3, <1>10
  <2>2. Unsent(State, s) = bit
    <3>1. ~ (f # None /\ f.records.terminal /\ f.started = 0 /\ f.stage # "writing")
      BY <1>7, <1>10
    <3>2. Unsent(State, s) = bit + 0
      BY <1>0, <3>1 DEF Unsent
    <3>3. QED
      BY <3>2
  <2>3. Once(n, s, attempted[s], s \in finished)
    BY <1>4, <1>6, <1>8, <2>1, <2>2 DEF Once
  <2>4. QED
    BY <1>2, <1>5, <2>1, <2>3 DEF n
<1>11. QED
  BY <1>9, <1>10

\* What is scheduled next: the session's own records, or a waiting terminal.
NextStates(s, ended) ==
    IF s \in plugin.checks THEN {Schedule(ended, s, TRUE)}
    ELSE IF plugin.flush[s].result = "delivered" THEN DeferredNext(ended) ELSE {ended}

(* A waiting terminal is scheduled if there is one.                        *)
LEMMA DeferredKeeps ==
    ASSUME NEW k, Sound(k), NEW m \in DeferredNext(k)
    PROVE  /\ Sound(m) /\ Keeps(k, m)
           /\ Flushing(m) = {} => \A t \in Sessions : ~ m.p.buffer[t].terminal
<1> DEFINE deferred == k.p.deferred \ Flushing(k)
           buffered == {t \in Buffered(k) \ Flushing(k) : k.p.buffer[t].terminal}
           dropped(t) == [k EXCEPT !.p.deferred = @ \ {t}]
<1>0. deferred \subseteq Sessions /\ buffered \subseteq Sessions
  BY DEF Sound, States, Plugins, Buffered
<1>1. CASE deferred # {}
  <2>1. PICK t \in deferred : m = Schedule(dropped(t), t, TRUE)
    BY <1>1 DEF DeferredNext
  <2>2. t \in Sessions
    BY <1>0
  <2>3. Sound(dropped(t)) /\ Same(k, dropped(t))
    BY <2>2, UndeferredKeeps
  <2>4. Keeps(k, dropped(t))
    <3>1. dropped(t).p.flush = k.p.flush /\ dropped(t).p.buffer = k.p.buffer
      BY <2>3 DEF Same
    <3> HIDE DEF dropped
    <3>2. QED
      BY <3>1, KeepsTerminals
  <2> HIDE DEF dropped
  <2>5. Sound(m) /\ Keeps(dropped(t), m) /\ Flushing(m) # {}
    BY <2>1, <2>2, <2>3, ScheduleKeeps
  <2>6. QED
    BY <2>4, <2>5, KeepsBoth
<1>2. CASE deferred = {} /\ buffered # {}
  <2>1. PICK t \in buffered : m = Schedule(k, t, TRUE)
    BY <1>2 DEF DeferredNext
  <2>2. t \in Sessions
    BY <1>0
  <2>3. QED
    BY <2>1, <2>2, ScheduleKeeps
<1>3. CASE deferred = {} /\ buffered = {}
  <2>1. m = k
    BY <1>3 DEF DeferredNext
  <2>2. ASSUME Flushing(m) = {}, NEW t \in Sessions
        PROVE  ~ m.p.buffer[t].terminal
    <3>1. t \notin buffered
      BY <1>3
    <3>2. k.p.buffer[t] = NoRecords \/ ~ k.p.buffer[t].terminal
      BY <2>1, <2>2, <3>1 DEF Buffered
    <3>3. QED
      BY <2>1, <3>2 DEF NoRecords
  <2>3. QED
    BY <2>1, <2>2, KeepsTerminals
<1>4. QED
  BY <1>1, <1>2, <1>3

(* The end of a flush schedules what waits, unless another flush runs that *)
(* will, or one has failed.                                                *)
LEMMA NextKeeps ==
    ASSUME Inv, NEW s \in Sessions, At(s, "finally"), NEW k, Sound(k),
           k.p.flush = [plugin.flush EXCEPT ![s] = None], NEW m \in NextStates(s, k)
    PROVE  /\ Sound(m) /\ Keeps(k, m)
           /\ Flushing(m) = {} /\ ~ failed => \A t \in Sessions : ~ m.p.buffer[t].terminal
<1> DEFINE f == plugin.flush[s]
<1>1. f # None /\ f.stage = "finally"
  BY DEF At
<1>0. /\ plugin \in Plugins /\ State.p = plugin /\ Blame(State)
      /\ f \in Flushes /\ Chunked(f)
  BY <1>1, FlushFacts
<1>2. CASE s \in plugin.checks
  <2>1. m = Schedule(k, s, TRUE)
    BY <1>2 DEF NextStates
  <2>2. QED
    BY <2>1, ScheduleKeeps
<1>3. CASE s \notin plugin.checks /\ f.result = "delivered"
  <2>1. m \in DeferredNext(k)
    BY <1>3 DEF NextStates
  <2>2. QED
    BY <2>1, DeferredKeeps
<1>4. CASE s \notin plugin.checks /\ f.result # "delivered"
  <2>1. m = k
    BY <1>4 DEF NextStates
  <2>2. Keeps(k, m)
    BY <2>1, KeepsTerminals
  <2>3. ~ failed => Flushing(m) # {}
    <3>1. SUFFICES ASSUME ~ failed
                   PROVE  Flushing(m) # {}
      OBVIOUS
    <3>2. f.result = "not_started"
      <4>1. f.result \in {"attempted_failure", "delivered", "not_started"}
        BY <1>0 DEF Flushes
      <4>2. f.result # "attempted_failure"
        BY <1>0, <1>1, <3>1 DEF Blame
      <4>3. QED
        BY <1>4, <4>1, <4>2
    <3>3. f.started = 0
      BY <1>0, <1>1, <3>2 DEF Chunked
    <3>4. Starved(State, s)
      BY <1>0, <1>1, <3>2, <3>3 DEF Starved
    <3>5. PICK t \in Sessions \ {s} : Working(State, t)
      BY <1>0, <3>1, <3>4 DEF Blame
    <3>6. k.p.flush[t] = plugin.flush[t]
      BY <1>0, <3>5 DEF Plugins
    <3>7. plugin.flush[t] # None
      BY <1>0, <3>5 DEF Working
    <3>8. t \in Flushing(m)
      BY <2>1, <3>5, <3>6, <3>7 DEF Flushing
    <3>9. QED
      BY <3>8
  <2>4. QED
    BY <2>1, <2>2, <2>3
<1>5. QED
  BY <1>2, <1>3, <1>4

(* A flush is over: its bytes and its place are given back, its terminal   *)
(* if no launcher got any of it, and the next flush is scheduled.          *)
LEMMA FinallyStep ==
    ASSUME Inv, NEW s \in Sessions, Finally(s)
    PROVE  Inv'
<1> DEFINE f == plugin.flush[s]
           k == EndedState(s)
<1>1. /\ At(s, "finally") /\ active' = active /\ attempted' = attempted
      /\ events' = events /\ finished' = finished /\ failed' = failed
  BY DEF Finally
<1>2. \E m \in NextStates(s, k) : Become(m) /\ Ended(s, Flushing(m) \ Flushing(k))
  BY DEF Finally, NextStates, EndedState, Freed, Released
<1>3. /\ Sound(k) /\ k.p.flush = [plugin.flush EXCEPT ![s] = None]
      /\ \A t \in Sessions \ {s} : Unsent(k, t) = Unsent(State, t)
      /\ Once(k, s, attempted[s], s \in finished)
  BY <1>1, EndedKeeps
<1> HIDE DEF k
<1>4. PICK m \in NextStates(s, k) : Become(m) /\ Ended(s, Flushing(m) \ Flushing(k))
  BY <1>2
<1>5. /\ Sound(m) /\ Keeps(k, m)
      /\ Flushing(m) = {} /\ ~ failed => \A t \in Sessions : ~ m.p.buffer[t].terminal
  BY <1>1, <1>3, NextKeeps
<1>0. /\ Sound(State) /\ Launched /\ Awaited /\ Counted /\ Blame(State) /\ Sent
      /\ plugin \in Plugins /\ State.p = plugin
  <2>1. Sound(State) /\ Launched /\ Awaited /\ Counted /\ Blame(State) /\ Sent
    BY InvParts
  <2>2. State \in States /\ State.p = plugin
    BY <2>1 DEF Sound, State
  <2>3. QED
    BY <2>1, <2>2 DEF States
<1>6. State' = m /\ plugin' = m.p
  BY <1>4, <1>5, BecomeIs DEF Sound
<1>7. f # None /\ f.stage = "finally"
  BY <1>1 DEF At
<1>8. k.p.flush[s] = None /\ \A t \in Sessions \ {s} : k.p.flush[t] = plugin.flush[t]
  BY <1>0, <1>3 DEF Plugins
<1>9. ASSUME NEW t \in Sessions
      PROVE  \/ m.p.flush[t] = k.p.flush[t]
             \/ /\ k.p.flush[t] = None /\ m.p.flush[t] # None
                /\ m.p.flush[t].stage = "queued"
  BY <1>5 DEF Keeps, Grown
<1>10. Launched'
  <2>1. ASSUME NEW t \in Sessions
        PROVE  At(t, "writing")' <=> At(t, "writing")
    <3>1. CASE t = s
      BY <1>6, <1>7, <1>8, <1>9, <3>1 DEF At
    <3>2. CASE t # s
      BY <1>6, <1>8, <1>9, <3>2 DEF At
    <3>3. QED
      BY <3>1, <3>2
  <2>2. {t \in Sessions : At(t, "writing")}' = {t \in Sessions : At(t, "writing")}
    BY <2>1
  <2>3. QED
    BY <1>0, <1>1, <2>2 DEF Launched
<1>11. Blame(State)'
  <2>1. ASSUME NEW t \in Sessions, m.p.flush[t] # None, m.p.flush[t].stage = "finally",
               m.p.flush[t].result = "attempted_failure"
        PROVE  failed'
    <3>1. m.p.flush[t] = State.p.flush[t]
      BY <1>0, <1>8, <1>9, <2>1
    <3>2. QED
      BY <1>0, <1>1, <2>1, <3>1 DEF Blame
  <2>2. ASSUME NEW t \in Sessions, Starved(m, t), ~ failed'
        PROVE  \E u \in Sessions \ {t} : Working(m, u)
    <3>1. m.p.flush[t] = State.p.flush[t]
      BY <1>0, <1>8, <1>9, <2>2 DEF Starved
    <3>2. Starved(State, t)
      BY <2>2, <3>1 DEF Starved
    <3>3. PICK u \in Sessions \ {t} : Working(State, u)
      BY <1>0, <1>1, <2>2, <3>2 DEF Blame
    <3>4. u # s
      BY <1>0, <1>7, <3>3 DEF Working
    <3>5. m.p.flush[u] = State.p.flush[u]
      BY <1>0, <1>8, <1>9, <3>3, <3>4 DEF Working
    <3>6. Working(m, u)
      BY <3>3, <3>5 DEF Working
    <3>7. QED
      BY <3>6
  <2>3. QED
    BY <1>6, <2>1, <2>2 DEF Blame
<1>12. Counted'
  BY <1>0, <1>1 DEF Counted
<1>13. Sent'
  <2>1. ASSUME NEW t \in Sessions
        PROVE  Once(m, t, attempted[t], t \in finished)
    <3>1. attempted[t] \in Nat /\ (t \in finished) \in BOOLEAN
      BY <1>0 DEF Counted
    <3>2. Once(k, t, attempted[t], t \in finished)
      <4>1. CASE t = s
        BY <1>3, <4>1
      <4>2. CASE t # s
        <5>1. Once(State, t, attempted[t], t \in finished)
          BY <1>0 DEF Sent
        <5>2. Unsent(k, t) = Unsent(State, t) /\ k.p.flush[t] = State.p.flush[t]
          BY <1>0, <1>3, <1>8, <4>2
        <5>3. QED
          BY <5>1, <5>2 DEF Once
      <4>3. QED
        BY <4>1, <4>2
    <3>3. Grown(k, m) /\ Unsent(m, t) = Unsent(k, t)
      BY <1>5 DEF Keeps
    <3>4. QED
      BY <1>5, <3>1, <3>2, <3>3, OnceKept
  <2>2. QED
    BY <1>1, <1>6, <2>1 DEF Sent
<1>14. Awaited'
  <2>1. Flushing(State) \ {s} \subseteq Flushing(k) /\ Flushing(k) \subseteq Flushing(m)
    BY <1>0, <1>8, <1>9 DEF Flushing
  <2>2. closing' = [closing EXCEPT
            !.chain = IF s \in @ THEN (@ \ {s}) \cup (Flushing(m) \ Flushing(k)) ELSE @,
            !.tails = @ \ {s}]
    BY <1>4 DEF Ended
  <2>3. closing \in [phase : {"open", "tails", "chain", "done"}, pass : 0..MaxPasses,
                     chain : SUBSET Sessions, tails : SUBSET Sessions]
        /\ closing.chain \subseteq Flushing(State) /\ closing.tails \subseteq Flushing(State)
    BY <1>0 DEF Awaited
  <2> DEFINE chain == IF s \in closing.chain
                      THEN (closing.chain \ {s}) \cup (Flushing(m) \ Flushing(k))
                      ELSE closing.chain
             tails == closing.tails \ {s}
  <2>4. chain \in SUBSET Sessions /\ tails \in SUBSET Sessions
    BY <2>3 DEF Flushing
  <2>5. chain \subseteq Flushing(m) /\ tails \subseteq Flushing(m)
    BY <2>1, <2>3
  <2>6. closing' = [closing EXCEPT !.chain = chain, !.tails = tails]
    BY <2>2
  <2> HIDE DEF chain, tails
  <2>7. /\ closing'.chain = chain /\ closing'.tails = tails
        /\ closing' \in [phase : {"open", "tails", "chain", "done"}, pass : 0..MaxPasses,
                         chain : SUBSET Sessions, tails : SUBSET Sessions]
    BY <2>3, <2>4, <2>6
  <2>8. QED
    BY <1>6, <2>5, <2>7 DEF Awaited
<1>15. TerminalsScheduled'
  BY <1>1, <1>5, <1>6 DEF TerminalsScheduled
<1>16. Sound(State)'
  BY <1>5, <1>6
<1>17. QED
  BY <1>10, <1>11, <1>12, <1>13, <1>14, <1>15, <1>16, InvPartsAfter

(* -------------------------------- dispose ------------------------------- *)

\* The states of a pass over the first n sessions of an order.
IsPass(it, m, order, n) ==
    it = [i \in 0..n |-> IF i = 0 THEN m ELSE Schedule(it[i - 1], order[i], TRUE)]

(* A pass has such states, however many sessions it visits.                *)
LEMMA PassExists ==
    ASSUME NEW m, NEW order, NEW N \in Nat
    PROVE  \E it : IsPass(it, m, order, N)
<1> DEFINE Good == {n \in Nat : \E it : IsPass(it, m, order, n)}
<1>1. 0 \in Good
  <2> DEFINE it == [i \in 0..0 |-> m]
  <2>1. it = [i \in 0..0 |-> IF i = 0 THEN m ELSE Schedule(it[i - 1], order[i], TRUE)]
    OBVIOUS
  <2> HIDE DEF it
  <2>2. IsPass(it, m, order, 0)
    BY <2>1 DEF IsPass
  <2>3. QED
    BY <2>2
<1>2. ASSUME NEW n \in Nat, n \in Good
      PROVE  n + 1 \in Good
  <2>1. PICK it : IsPass(it, m, order, n)
    BY <1>2
  <2> DEFINE next == [i \in 0..(n + 1) |->
                        IF i = 0 THEN m ELSE Schedule(it[i - 1], order[i], TRUE)]
  <2>2. \A i \in 0..n : next[i] = it[i]
    <3>1. ASSUME NEW i \in 0..n
          PROVE  next[i] = it[i]
      <4>1. i \in 0..(n + 1)
        OBVIOUS
      <4>2. QED
        BY <2>1, <4>1 DEF IsPass
    <3>2. QED
      BY <3>1
  <2>3. ASSUME NEW i \in 0..(n + 1), i # 0
        PROVE  it[i - 1] = next[i - 1]
    <3>1. i - 1 \in 0..n
      BY <2>3
    <3>2. QED
      BY <2>2, <3>1
  <2>4. next = [i \in 0..(n + 1) |->
                  IF i = 0 THEN m ELSE Schedule(next[i - 1], order[i], TRUE)]
    BY <2>3
  <2> HIDE DEF next
  <2>5. IsPass(next, m, order, n + 1)
    BY <2>4 DEF IsPass
  <2>6. QED
    BY <2>5
<1> HIDE DEF Good
<1>3. N \in Good
  BY <1>1, <1>2, SetInduction
<1>4. QED
  BY <1>3 DEF Good

(* A pass keeps what each call that it makes keeps.                        *)
LEMMA PassKeeps ==
    ASSUME NEW m, Sound(m), NEW order, NEW N \in Nat, NEW it, IsPass(it, m, order, N),
           \A i \in 1..N : order[i] \in Sessions
    PROVE  Sound(it[N]) /\ Keeps(m, it[N])
<1> DEFINE Good == {n \in Nat : n <= N => Sound(it[n]) /\ Keeps(m, it[n])}
<1>1. 0 \in Good
  <2>1. it[0] = m
    BY DEF IsPass
  <2>2. QED
    BY <2>1, KeepsTerminals
<1>2. ASSUME NEW n \in Nat, n \in Good
      PROVE  n + 1 \in Good
  <2>1. SUFFICES ASSUME n + 1 <= N
                 PROVE  Sound(it[n + 1]) /\ Keeps(m, it[n + 1])
    OBVIOUS
  <2>2. n + 1 \in 0..N /\ n + 1 \in 1..N /\ n + 1 # 0 /\ (n + 1) - 1 = n
    BY <2>1
  <2>3. it[n + 1] = Schedule(it[n], order[n + 1], TRUE)
    BY <2>2 DEF IsPass
  <2>4. Sound(it[n]) /\ Keeps(m, it[n])
    BY <1>2, <2>1
  <2>5. order[n + 1] \in Sessions
    BY <2>2
  <2>6. Sound(it[n + 1]) /\ Keeps(it[n], it[n + 1])
    BY <2>3, <2>4, <2>5, ScheduleKeeps
  <2>7. QED
    BY <2>4, <2>6, KeepsBoth
<1> HIDE DEF Good
<1>3. N \in Good
  BY <1>1, <1>2, SetInduction
<1>4. QED
  BY <1>3 DEF Good

(* And so does the pass that a dispose makes, over any order of sessions.  *)
LEMMA ScheduleAllKeeps ==
    ASSUME NEW m, Sound(m), NEW S \in SUBSET Sessions, NEW order \in SetToSeqs(S)
    PROVE  Sound(ScheduleAll(m, order)) /\ Keeps(m, ScheduleAll(m, order))
<1> DEFINE N == Cardinality(S)
           it == CHOOSE x : IsPass(x, m, order, N)
<1>1. N \in Nat
  BY TableCounts
<1>2. order \in [1..N -> S]
  BY DEF SetToSeqs
<1> HIDE DEF N
<1>3. Len(order) = N /\ \A i \in 1..N : order[i] \in Sessions
  BY <1>1, <1>2
<1>4. IsPass(it, m, order, N)
  BY <1>1, PassExists
<1>5. ScheduleAll(m, order) = it[N]
  BY <1>3 DEF ScheduleAll, IsPass
<1> HIDE DEF it
<1>6. QED
  BY <1>1, <1>3, <1>4, <1>5, PassKeeps

(* A pass awaits the flushes that it began.                                *)
LEMMA PassStep ==
    ASSUME Inv, Pass
    PROVE  Inv'
<1>1. Sound(State) /\ Awaited /\ Counted
  BY InvParts
<1>2. KnownSessions \in SUBSET Sessions
  <2>1. plugin.checks \subseteq Sessions /\ plugin.deferred \subseteq Sessions
    BY <1>1 DEF Sound, States, Plugins, State
  <2>2. QED
    BY <2>1 DEF KnownSessions, Buffered, Flushing, Gaps
<1>3. PICK order \in SetToSeqs(KnownSessions) :
        /\ Become(ScheduleAll(State, order))
        /\ closing' = [closing EXCEPT !.phase = "chain", !.pass = @ + 1,
             !.chain = Flushing(ScheduleAll(State, order)) \ Flushing(State)]
  BY DEF Pass
<1> DEFINE m == ScheduleAll(State, order)
<1>4. Sound(m) /\ Keeps(State, m)
  BY <1>1, <1>2, ScheduleAllKeeps
<1> HIDE DEF m
<1>5. State' = m
  BY <1>3, <1>4, BecomeIs DEF Sound, m
<1>6. Awaited'
  <2> DEFINE chain == Flushing(m) \ Flushing(State)
             pass == closing.pass + 1
  <2>1. closing' = [closing EXCEPT !.phase = "chain", !.pass = pass, !.chain = chain]
    BY <1>3 DEF m
  <2>2. closing \in [phase : {"open", "tails", "chain", "done"}, pass : 0..MaxPasses,
                     chain : SUBSET Sessions, tails : SUBSET Sessions]
    BY <1>1 DEF Awaited
  <2>3. pass \in 0..MaxPasses
    BY <2>2, Limits DEF Pass
  <2>4. chain \in SUBSET Sessions /\ chain \subseteq Flushing(m)
    BY DEF Flushing
  <2>5. closing.tails = {}
    BY DEF Pass
  <2> HIDE DEF chain, pass
  <2>6. /\ closing'.chain = chain /\ closing'.tails = {}
        /\ closing' \in [phase : {"open", "tails", "chain", "done"}, pass : 0..MaxPasses,
                         chain : SUBSET Sessions, tails : SUBSET Sessions]
    BY <2>1, <2>2, <2>3, <2>4, <2>5
  <2>7. QED
    BY <1>5, <2>4, <2>6 DEF Awaited
<1>7. /\ active' = active /\ failed' = failed /\ attempted' = attempted
      /\ finished' = finished /\ events' \in 0..MaxEvents
  BY <1>1 DEF Pass, Counted
<1>8. Become(m)
  BY <1>3 DEF m
<1>9. QED
  BY <1>4, <1>6, <1>7, <1>8, KeepsInv

(* The other steps of dispose only choose what it awaits.                  *)
LEMMA AwaitStep ==
    ASSUME Inv, Dispose \/ PassAwaited \/ Disposed
    PROVE  Inv'
<1>1. Sound(State) /\ Awaited /\ Counted
  BY InvParts
<1>2. /\ plugin' = plugin /\ active' = active /\ events' = events /\ loss' = loss
      /\ finished' = finished /\ attempted' = attempted /\ overflow' = overflow
      /\ failed' = failed
  BY DEF Dispose, PassAwaited, Disposed
<1>3. Become(State)
  BY <1>2 DEF Become, State
<1>4. State' = State
  BY <1>2 DEF State
<1>5. Keeps(State, State)
  BY KeepsTerminals
<1>6. Awaited'
  <2>1. closing \in [phase : {"open", "tails", "chain", "done"}, pass : 0..MaxPasses,
                     chain : SUBSET Sessions, tails : SUBSET Sessions]
        /\ closing.chain \cup closing.tails \subseteq Flushing(State)
    BY <1>1 DEF Awaited
  <2>2. \/ closing' = [closing EXCEPT !.phase = "tails", !.tails = Flushing(State)]
        \/ closing' = [closing EXCEPT !.phase = "done"]
    BY DEF Dispose, PassAwaited, Disposed
  <2>3. Flushing(State) \in SUBSET Sessions
    BY DEF Flushing
  <2>4. /\ closing'.chain = closing.chain
        /\ closing'.tails = closing.tails \/ closing'.tails = Flushing(State)
        /\ closing' \in [phase : {"open", "tails", "chain", "done"}, pass : 0..MaxPasses,
                         chain : SUBSET Sessions, tails : SUBSET Sessions]
    BY <2>1, <2>2, <2>3
  <2>5. closing'.chain \cup closing'.tails \subseteq Flushing(State)
    BY <2>1, <2>4
  <2>6. QED
    BY <1>4, <2>4, <2>5 DEF Awaited
<1>7. events' \in 0..MaxEvents
  BY <1>1, <1>2 DEF Counted
<1>8. QED
  BY <1>1, <1>2, <1>3, <1>5, <1>6, <1>7, KeepsInv

(* A plugin that has just been loaded.                                     *)
LEMMA InitInv ==
    ASSUME Init
    PROVE  Inv
<1>0. /\ NoRecords \in Records /\ Size(NoRecords) = 0 /\ ~ NoRecords.terminal
      /\ NoRecords.others = 0
  BY Limits DEF NoRecords, Records, Size
<1>1. /\ State.p = plugin /\ State.loss = loss /\ State.overflow = overflow
      /\ plugin.buffer = [t \in Sessions |-> NoRecords]
      /\ plugin.flush = [t \in Sessions |-> None]
      /\ plugin.gap = [t \in Sessions |-> "none"]
      /\ plugin.checks = {} /\ plugin.deferred = {} /\ plugin.retained = 0
      /\ loss = [t \in Sessions |-> "none"] /\ overflow = {}
      /\ active = 0 /\ failed = FALSE /\ events = 0 /\ finished = {}
      /\ attempted = [t \in Sessions |-> 0]
      /\ closing = [phase |-> "open", pass |-> 0, chain |-> {}, tails |-> {}]
  BY DEF Init, State
<1>2. plugin \in Plugins /\ State \in States
  <2>1. plugin \in Plugins
    BY <1>0 DEF Init, Plugins
  <2>2. loss \in [Sessions -> {"none", "old", "new"}] /\ overflow \subseteq Sessions
    BY <1>1
  <2>3. QED
    BY <2>1, <2>2 DEF State, States
<1>3. \A t \in Sessions : /\ State.p.buffer[t] = NoRecords /\ State.p.flush[t] = None
                          /\ State.p.gap[t] = "none" /\ State.loss[t] = "none"
  BY <1>1
<1>4. Flushing(State) = {} /\ Gaps(State) = {}
  BY <1>3 DEF Flushing, Gaps
<1>5. Cardinality({}) = 0
  BY FS_EmptySet
<1>6. Tables(State)
  <2>1. State.p.checks = {} /\ State.p.deferred = {}
    BY <1>1
  <2>2. QED
    BY <1>4, <1>5, <2>1, Limits DEF Tables
<1>7. Account(State.p)
  <2>1. \A t \in Sessions : Kept(State.p)[t] = 0 /\ Others(State.p)[t] = 0
    <3>1. ASSUME NEW t \in Sessions
          PROVE  Kept(State.p)[t] = 0 /\ Others(State.p)[t] = 0
      <4>1. Kept(State.p)[t] = 0 + 0 /\ Others(State.p)[t] = 0 + 0
        BY <1>0, <1>3 DEF Kept, Others
      <4>2. QED
        BY <4>1
    <3>2. QED
      BY <3>1
  <2>2. /\ SumFunctionOnSet(Kept(State.p), Sessions) = 0
        /\ SumFunctionOnSet(Others(State.p), Sessions) = 0
    BY <2>1, Limits, SumZero
  <2>3. State.p.retained = 0
    BY <1>1
  <2>4. QED
    BY <2>2, <2>3, Limits DEF Account
<1>8. Sound(State)
  <2>1. ASSUME NEW t \in Sessions
        PROVE  /\ Size(State.p.buffer[t]) <= MaxBuffer
               /\ State.p.flush[t] # None => Chunked(State.p.flush[t])
               /\ Reported(State, t)
    BY <1>0, <1>3, Limits DEF Reported
  <2>2. QED
    BY <1>2, <1>6, <1>7, <2>1 DEF Sound
<1>9. Launched
  <2>1. {t \in Sessions : At(t, "writing")} = {}
    BY <1>1 DEF At
  <2>2. QED
    BY <1>1, <1>5, <2>1, Limits DEF Launched
<1>10. Awaited
  <2>1. 0 \in 0..MaxPasses
    BY Limits
  <2>2. QED
    BY <1>1, <2>1 DEF Awaited
<1>11. Counted
  <2>1. finished \subseteq Sessions /\ failed \in BOOLEAN
        /\ attempted \in [Sessions -> Nat]
    BY <1>1
  <2>2. events \in 0..MaxEvents
    BY <1>1, Limits
  <2>3. QED
    BY <2>1, <2>2 DEF Counted
<1>12. Blame(State)
  BY <1>3 DEF Blame, Starved
<1>13. Sent
  <2>1. ASSUME NEW t \in Sessions
        PROVE  Once(State, t, attempted[t], t \in finished)
    <3>1. Unsent(State, t) = 0 + 0
      BY <1>0, <1>3 DEF Unsent
    <3>2. attempted[t] = 0 /\ t \notin finished
      BY <1>1
    <3>3. attempted[t] + Unsent(State, t) = 0
      BY <3>1, <3>2
    <3>4. QED
      BY <1>3, <3>2, <3>3 DEF Once
  <2>2. QED
    BY <2>1 DEF Sent
<1>14. TerminalsScheduled
  BY <1>0, <1>1 DEF TerminalsScheduled
<1>15. QED
  BY <1>8, <1>9, <1>10, <1>11, <1>12, <1>13, <1>14, InvParts

(* ------------------------------ the theorems ---------------------------- *)

(* The invariant holds of every run of the plugin: for any sessions, any   *)
(* limits, any callbacks between any two awaits, any launcher that fails.  *)
THEOREM PluginInvariant == Spec => []Inv
<1>1. Inv /\ [Next]_vars => Inv'
  <2> SUFFICES ASSUME Inv, [Next]_vars
               PROVE  Inv'
    OBVIOUS
  <2>1. CASE Provider
    <3>1. CASE \E s \in Sessions : ToolEvent(s) \/ Deleted(s)
      BY <3>1, ToolEventStep, DeletedStep
    <3>2. CASE \E s \in Sessions, record \in BOOLEAN : Boundary(s, record)
      BY <3>2, BoundaryStep
    <3>3. CASE Dispose
      BY <3>3, AwaitStep
    <3>4. QED
      BY <2>1, <3>1, <3>2, <3>3 DEF Provider
  <2>2. CASE Closing
    BY <2>2, PassStep, AwaitStep DEF Closing
  <2>3. CASE \E s \in Sessions : FlushStep(s)
    BY <2>3, BeginStep, Next1Step, WriteEndsStep, EndStep, FinallyStep DEF FlushStep
  <2>4. CASE UNCHANGED vars
    <3>1. /\ State' = State /\ plugin' = plugin /\ active' = active /\ closing' = closing
          /\ events' = events /\ finished' = finished /\ attempted' = attempted
          /\ failed' = failed
      BY <2>4 DEF vars, State
    <3>2. /\ Sound(State) /\ Launched /\ Awaited /\ Counted /\ Blame(State)
          /\ Sent /\ TerminalsScheduled
      BY InvParts
    <3>3. Sound(State)' /\ Blame(State)'
      BY <3>1, <3>2 DEF Blame
    <3>4. Launched' /\ Awaited' /\ Counted' /\ Sent' /\ TerminalsScheduled'
      BY <3>1, <3>2 DEF Launched, Awaited, Counted, Sent, TerminalsScheduled, At
    <3>5. QED
      BY <3>3, <3>4, InvPartsAfter
  <2>5. QED
    BY <2>1, <2>2, <2>3, <2>4 DEF Next
<1>2. Init => Inv
  BY InitInv
<1>3. QED
  BY <1>1, <1>2, PTL DEF Spec

(* The bounds of the plugin and of its transport: no order of callbacks    *)
(* and awaits puts more into a table, a buffer or the launchers.           *)
THEOREM PluginTyped == Spec => []TypeOK
<1>1. Inv => TypeOK
  <2> SUFFICES ASSUME Inv
               PROVE  TypeOK
    OBVIOUS
  <2>1. Sound(State) /\ Launched /\ Awaited /\ Counted
    BY InvParts
  <2>2. State \in States /\ State.p = plugin /\ State.loss = loss
        /\ State.overflow = overflow
    BY <2>1 DEF Sound, State
  <2>3. plugin \in Plugins /\ loss \in [Sessions -> {"none", "old", "new"}]
        /\ overflow \subseteq Sessions
    BY <2>2 DEF States
  <2>4. plugin.retained \in 0..(MaxRetained + Reserve)
    <3>1. SumFunctionOnSet(Kept(State.p), Sessions) \in Nat
      BY <2>2, AccountNumbers
    <3>2. plugin.retained = SumFunctionOnSet(Kept(State.p), Sessions)
          /\ plugin.retained <= MaxRetained + Reserve
      BY <2>1, <2>2 DEF Sound, Account
    <3>3. QED
      BY <3>1, <3>2, Limits
  <2>5. plugin \in [buffer : [Sessions -> Records],
                    flush : [Sessions -> {None} \cup Flushes],
                    gap : [Sessions -> {"none", "seen", "marked"}],
                    checks : SUBSET Sessions, deferred : SUBSET Sessions,
                    retained : 0..(MaxRetained + Reserve)]
    BY <2>3, <2>4 DEF Plugins
  <2>6. /\ \A s \in Sessions : Size(plugin.buffer[s]) <= MaxBuffer
        /\ Cardinality(Flushing(State)) <= MaxFlushes
        /\ Cardinality(Gaps(State)) <= MaxGaps
        /\ Cardinality(plugin.checks) <= MaxGapChecks
        /\ plugin.checks \subseteq Flushing(State)
        /\ Cardinality(plugin.deferred) <= MaxDeferred
    BY <2>1, <2>2 DEF Sound, Tables
  <2>7. QED
    BY <2>1, <2>3, <2>5, <2>6 DEF TypeOK, Launched, Awaited, Counted
<1>2. QED
  BY <1>1, PluginInvariant, PTL

(* No path that drops, restores or replaces records leaks a byte of the    *)
(* count, or counts one twice.                                             *)
THEOREM PluginRetainedExact == Spec => []RetainedExact
<1>1. Inv => RetainedExact
  BY DEF Inv, Sound, Account, RetainedExact, State
<1>2. QED
  BY <1>1, PluginInvariant, PTL

(* A loss leaves a gap until a batch that begins with it is delivered.     *)
THEOREM PluginLossReported == Spec => []LossReported
<1>1. Inv => LossReported
  <2> SUFFICES ASSUME Inv, NEW s \in Sessions, loss[s] # "none"
               PROVE  s \in Gaps(State) \cup overflow
    BY DEF LossReported
  <2>1. Reported(State, s)
    BY DEF Inv, Sound
  <2>2. QED
    BY <2>1 DEF Reported, Gaps, State
<1>2. QED
  BY <1>1, PluginInvariant, PTL

(* A session's terminal is attempted at most once, and while the reserve   *)
(* has room for all sessions it is never dropped.                          *)
THEOREM PluginTerminalOnce == Spec => []TerminalOnce
<1>1. Inv => TerminalOnce
  <2> SUFFICES ASSUME Inv, NEW s \in Sessions
               PROVE  /\ TerminalsOf(s) <= IF s \in finished THEN 1 ELSE 0
                      /\ s \in finished /\ Cardinality(Sessions) <= Reserve
                           => TerminalsOf(s) = 1
    BY DEF TerminalOnce
  <2>1. Sent /\ Counted
    BY InvParts
  <2>2. attempted[s] \in Nat /\ Once(State, s, attempted[s], s \in finished)
    BY <2>1 DEF Sent, Counted
  <2>3. TerminalsOf(s) = attempted[s] + Unsent(State, s)
    <3> DEFINE bit == IF plugin.buffer[s].terminal THEN 1 ELSE 0
               rest == IF plugin.flush[s] # None /\ plugin.flush[s].records.terminal
                          /\ plugin.flush[s].started = 0
                          /\ plugin.flush[s].stage # "writing"
                       THEN 1 ELSE 0
    <3>1. TerminalsOf(s) = attempted[s] + bit + rest
      BY DEF TerminalsOf
    <3>2. Unsent(State, s) = bit + rest
      BY DEF Unsent, State
    <3>3. bit \in Nat /\ rest \in Nat
      OBVIOUS
    <3> HIDE DEF bit, rest
    <3>4. QED
      BY <2>2, <3>1, <3>2, <3>3
  <2>4. QED
    BY <2>2, <2>3 DEF Once
<1>2. QED
  BY <1>1, PluginInvariant, PTL

(* An idle plugin of which no batch has failed in part holds no terminal.  *)
THEOREM PluginTerminalsScheduled == Spec => []TerminalsScheduled
<1>1. Inv => TerminalsScheduled
  BY DEF Inv
<1>2. QED
  BY <1>1, PluginInvariant, PTL
=============================================================================
