-------------------------- MODULE RunCyclesProofs --------------------------
(***************************************************************************)
(* Theorems about RunCycles, for every trace, limit, reservation and model *)
(* usage, and for any number of faults, cancellations, recoveries and      *)
(* crashes.  The invariant has two halves.  LedgerInv is about the ledger  *)
(* alone: every operation keeps it, whoever calls it, so it is proved once *)
(* per operation.  RunnerInv relates the ledger to where the runner is:    *)
(* what its next operation may assume of the cycle it works on.            *)
(***************************************************************************)
EXTENDS RunCycles, SumTheorems, SequenceTheorems

(* ------------------------------ invariants ----------------------------- *)

\* The states a revision may be in, what is held in each, and that only the
\* last one is final.
Shaped(h) ==
    /\ Len(h) <= 4
    /\ \A i \in 1..Len(h) :
         /\ i < Len(h) => h[i].state \in Unsettled
         /\ i = 1 => h[i].state = "pending" /\ h[i].held = 0
         /\ i = 2 => \/ h[i].state = "reserved" /\ h[i].held = Reservation
                     \/ h[i].state = "failed" /\ h[i].held = 0
         /\ i = 3 => /\ h[i].state \in {"running", "failed"}
                     /\ h[i].held = Reservation
         /\ i = 4 => h[i].state \in Settled /\ h[i].held = Reservation
         /\ h[i].charged <= h[i].held

LedgerShape(l) ==
    /\ l \in Ledgers
    /\ \A e \in Boundaries : Shaped(l.history[e])
    /\ \A e \in Boundaries : l.history[e] # <<>> =>
         l.decisions[e] = "invoke" /\ l.first[e] \in 1..e

OneOpen(l) == \A e, f \in Open(l) : e = f
WithinLimit(l) == Reserved(l) + Consumed(l) <= Limit

IsCommitted(l, e) == State(l, e) = "committed"

\* RangesTile, element by element.
Tiled(l) ==
    /\ \A e \in Boundaries : IsCommitted(l, e) => e <= l.cursor
    /\ \A x \in 1..l.cursor :
         \E e \in Boundaries : IsCommitted(l, e) /\ x \in l.first[e]..e
    /\ \A e, f \in Boundaries :
         IsCommitted(l, e) /\ IsCommitted(l, f) /\ e < f => e < l.first[f]

LedgerInv(l) == LedgerShape(l) /\ OneOpen(l) /\ WithinLimit(l) /\ Tiled(l)

Vars ==
    /\ mode \in Modes /\ pc \in Places /\ at \in Boundaries
    /\ guard \in 0..3 /\ expected \in 0..ledger.entries /\ usage \in 0..MaxUsage
    /\ cancelled \in BOOLEAN /\ shielded \in BOOLEAN /\ broken \in BOOLEAN
    /\ spent \in [Boundaries -> 0..MaxUsage]
    /\ faults \in 0..MaxFaults /\ cancels \in 0..MaxCancels
    /\ recoveries \in 0..MaxRecoveries /\ crashes \in 0..MaxCrashes

\* The cycle of boundary e has been started: its model may have been called.
HasRun(l, e) == Len(l.history[e]) >= 3 /\ l.history[e][3].state = "running"

\* The boundaries behind the runner are settled, those before it untouched.
Frontier ==
    /\ \A e \in Boundaries : e < at => e \notin Open(ledger)
    /\ \A e \in Boundaries : e > at => ledger.history[e] = <<>>
    /\ pc \in {"append", "decide", "begin"} => ledger.history[at] = <<>>

\* What the model used is known of cycles that have run only; before the call
\* a settled cycle is one that a recovery settled.
Usage ==
    /\ \A e \in Boundaries : spent[e] > 0 => HasRun(ledger, e)
    /\ pc \in {"reserve", "batch", "start", "check", "model"}
       /\ Len(ledger.history[at]) = 4 => ledger.history[at][4].charged = Reservation
    /\ pc \in {"check", "model"} => HasRun(ledger, at)
    /\ pc \in {"settle", "commit", "fail", "interrupted", "conflict", "unanswered"}
         => usage = spent[at]

\* What the cleanup needs: it knows the revision of a cycle that is open.
Known ==
    /\ mode = "fixed" =>
         /\ pc \in {"decide", "begin"} => guard = 0
         /\ pc = "reserve" => guard = 1
         /\ pc = "start" => guard = 2
         /\ pc \in {"check", "model", "settle", "fail", "commit",
                    "interrupted", "conflict", "unanswered"} => guard = 3
         /\ pc \in {"reserve", "start", "check", "model", "settle", "fail",
                    "commit", "interrupted", "conflict", "unanswered", "clean"}
            /\ ~ broken /\ at \in Open(ledger) => guard = Len(ledger.history[at])
    /\ pc = "close" => guard > 0 /\ (at \in Open(ledger) => guard = Len(ledger.history[at]))
    /\ pc = "outcome" => at \notin Open(ledger)

Inv ==
    /\ LedgerInv(ledger)
    /\ Vars /\ Frontier /\ Usage /\ Known
    /\ ChargedInFull /\ EndsSettled

(* -------------------------- ledger operations -------------------------- *)

(* A record appended to a cycle leaves the rest of the ledger alone.       *)
LEMMA AddFacts ==
    ASSUME NEW l \in Ledgers, NEW e \in Boundaries, NEW r \in Records
    PROVE  /\ Add(l, e, r) \in Ledgers
           /\ Add(l, e, r).history = [l.history EXCEPT ![e] = Append(@, r)]
           /\ Add(l, e, r).entries = l.entries + 1
           /\ Add(l, e, r).events = l.events
           /\ Add(l, e, r).cursor = l.cursor
           /\ Add(l, e, r).decisions = l.decisions
           /\ Add(l, e, r).first = l.first
<1> DEFINE h == Append(l.history[e], r)
<1>1. h \in Seq(Records)
  BY DEF Ledgers
<1> HIDE DEF h
<1>2. Add(l, e, r) = [l EXCEPT !.history[e] = h, !.entries = @ + 1]
  BY DEF Add, h
<1>3. /\ Add(l, e, r).history = [l.history EXCEPT ![e] = h]
      /\ Add(l, e, r).entries = l.entries + 1
      /\ Add(l, e, r).events = l.events
      /\ Add(l, e, r).cursor = l.cursor
      /\ Add(l, e, r).decisions = l.decisions
      /\ Add(l, e, r).first = l.first
  BY <1>2 DEF Ledgers
<1>4. Add(l, e, r) \in Ledgers
  <2>1. [l.history EXCEPT ![e] = h] \in [Boundaries -> Seq(Records)]
    BY <1>1 DEF Ledgers
  <2>2. l.entries + 1 \in Nat
    BY DEF Ledgers
  <2>3. Add(l, e, r) = [l EXCEPT !.history = [l.history EXCEPT ![e] = h],
                                 !.entries = l.entries + 1]
    BY <1>2 DEF Ledgers
  <2>4. QED
    BY <2>1, <2>2, <2>3 DEF Ledgers
<1>5. QED
  BY <1>3, <1>4 DEF h

\* The state of a cycle, and what it takes of the budget, by its history.
Ends(h) == IF h = <<>> THEN "none" ELSE h[Len(h)].state

Load(h) ==
    IF Ends(h) \in {"reserved", "running"} THEN h[Len(h)].held
    ELSE IF Ends(h) \in Settled THEN h[Len(h)].charged ELSE 0

(* The state of a cycle is that of its last revision.                      *)
LEMMA StateIsEnds ==
    ASSUME NEW l, NEW e
    PROVE  State(l, e) = Ends(l.history[e])
BY DEF State, Latest, Ends

(* The budget's account of a well-formed ledger: both sums are naturals,   *)
(* and rewriting one cycle changes their total by that cycle's difference. *)
LEMMA TotalNat ==
    ASSUME NEW l, LedgerShape(l)
    PROVE  /\ \A e \in Boundaries : Holds(l)[e] \in Nat /\ Charges(l)[e] \in Nat
           /\ \A e \in Boundaries : Holds(l)[e] + Charges(l)[e] = Load(l.history[e])
           /\ Reserved(l) \in Nat /\ Consumed(l) \in Nat
<1>1. IsFiniteSet(Boundaries)
  BY FS_Interval, BudgetAssumption DEF Boundaries
<1>2. ASSUME NEW e \in Boundaries
      PROVE  /\ Holds(l)[e] \in Nat /\ Charges(l)[e] \in Nat
             /\ Holds(l)[e] + Charges(l)[e] = Load(l.history[e])
  <2>1. l.history[e] \in Seq(Records)
    BY DEF LedgerShape, Ledgers
  <2>2. CASE l.history[e] = <<>>
    BY <2>2 DEF Holds, Charges, State, Latest, Load, Ends, Settled
  <2>3. CASE l.history[e] # <<>>
    <3>1. Latest(l, e) \in Records /\ Latest(l, e) = l.history[e][Len(l.history[e])]
      <4> DEFINE h == l.history[e]
      <4>1. h \in Seq(Records) /\ h # <<>>
        BY <2>1, <2>3
      <4>2. Latest(l, e) = h[Len(h)]
        BY DEF Latest
      <4> HIDE DEF h
      <4>3. h[Len(h)] \in Records
        BY <4>1
      <4>4. QED
        BY <4>2, <4>3 DEF h
    <3>2. Latest(l, e).held \in Nat /\ Latest(l, e).charged \in Nat
      <4>1. \A r \in Records : r.held \in Nat /\ r.charged \in Nat
        BY BudgetAssumption DEF Records
      <4>2. QED
        BY <3>1, <4>1
    <3>3. Ends(l.history[e]) = Latest(l, e).state /\ State(l, e) = Latest(l, e).state
      BY <2>3, <3>1 DEF State, Ends
    <3>4. QED
      BY <3>1, <3>2, <3>3 DEF Holds, Charges, Load, Settled
  <2>4. QED
    BY <2>2, <2>3
<1>3. QED
  BY <1>1, <1>2, SumNat DEF Reserved, Consumed

(* Rewriting one cycle changes the total by that cycle's difference.       *)
LEMMA TotalChange ==
    ASSUME NEW l, LedgerShape(l), NEW m, LedgerShape(m), NEW e \in Boundaries,
           \A f \in Boundaries \ {e} : m.history[f] = l.history[f]
    PROVE  Reserved(m) + Consumed(m) =
             Reserved(l) + Consumed(l) + Load(m.history[e]) - Load(l.history[e])
<1>1. IsFiniteSet(Boundaries)
  BY FS_Interval, BudgetAssumption DEF Boundaries
<1>2. ASSUME NEW f \in Boundaries \ {e}
      PROVE  Holds(l)[f] = Holds(m)[f] /\ Charges(l)[f] = Charges(m)[f]
  BY DEF Holds, Charges, State, Latest
<1>3. \A f \in Boundaries : /\ Holds(l)[f] \in Int /\ Holds(m)[f] \in Int
                            /\ Charges(l)[f] \in Int /\ Charges(m)[f] \in Int
  BY TotalNat
<1>4. Reserved(m) = Reserved(l) - Holds(l)[e] + Holds(m)[e]
  BY <1>1, <1>2, <1>3, SumChange DEF Reserved
<1>5. Consumed(m) = Consumed(l) - Charges(l)[e] + Charges(m)[e]
  BY <1>1, <1>2, <1>3, SumChange DEF Consumed
<1>6. /\ Reserved(l) \in Int /\ Consumed(l) \in Int
      /\ Holds(l)[e] + Charges(l)[e] = Load(l.history[e])
      /\ Holds(m)[e] + Charges(m)[e] = Load(m.history[e])
  BY TotalNat
<1>7. QED
  BY <1>3, <1>4, <1>5, <1>6

Grows(l, m, e, r) == m.history = [l.history EXCEPT ![e] = Append(@, r)]

\* What a record takes of the budget when it is the last one.
Takes(r) ==
    IF r.state \in {"reserved", "running"} THEN r.held
    ELSE IF r.state \in Settled THEN r.charged ELSE 0

(* One more revision of a cycle: what the histories look like.             *)
LEMMA GrownHistory ==
    ASSUME NEW l, LedgerShape(l), NEW m, LedgerShape(m),
           NEW e \in Boundaries, NEW r \in Records, Grows(l, m, e, r)
    PROVE  /\ \A f \in Boundaries \ {e} : m.history[f] = l.history[f]
           /\ \A f \in Boundaries \ {e} : State(m, f) = State(l, f)
           /\ Len(m.history[e]) = Len(l.history[e]) + 1
           /\ \A i \in 1..Len(l.history[e]) : m.history[e][i] = l.history[e][i]
           /\ m.history[e][Len(l.history[e]) + 1] = r
           /\ State(m, e) = r.state
           /\ Load(m.history[e]) = Takes(r)
           /\ l.history[e] # <<>> => State(l, e) \in Unsettled
<1>1. /\ l.history \in [Boundaries -> Seq(Records)]
      /\ l.history[e] \in Seq(Records)
  BY DEF LedgerShape, Ledgers
<1>2. m.history[e] = Append(l.history[e], r)
  BY <1>1 DEF Grows
<1>3. \A f \in Boundaries \ {e} : m.history[f] = l.history[f]
  BY <1>1 DEF Grows
<1>4. /\ Len(m.history[e]) = Len(l.history[e]) + 1
      /\ \A i \in 1..Len(l.history[e]) : m.history[e][i] = l.history[e][i]
      /\ m.history[e][Len(l.history[e]) + 1] = r
      /\ m.history[e] # <<>>
  BY <1>1, <1>2
<1>5. Ends(m.history[e]) = r.state
  BY <1>4 DEF Ends
<1>6. l.history[e] # <<>> => Ends(l.history[e]) \in Unsettled
  <2>1. Shaped(m.history[e])
    BY DEF LedgerShape
  <2>2. QED
    BY <1>1, <1>4, <2>1 DEF Ends, Shaped
<1>7. \A f \in Boundaries \ {e} : State(m, f) = State(l, f)
  BY <1>3, StateIsEnds
<1>8. Load(m.history[e]) = Takes(r)
  BY <1>4, <1>5 DEF Load, Takes
<1>9. QED
  BY <1>3, <1>4, <1>5, <1>6, <1>7, <1>8, StateIsEnds

(* A revision keeps the budget and the single open cycle if it takes no    *)
(* more than the one before it, or what it takes more is available, and a  *)
(* first revision is written when nothing is open.                         *)
LEMMA GrownBudget ==
    ASSUME NEW l, LedgerInv(l), NEW m, LedgerShape(m),
           NEW e \in Boundaries, NEW r \in Records, Grows(l, m, e, r),
           l.history[e] = <<>> => Open(l) = {},
           \/ Takes(r) <= Load(l.history[e])
           \/ Takes(r) <= Available(l)
    PROVE  OneOpen(m) /\ WithinLimit(m)
<1>1. LedgerShape(l)
  BY DEF LedgerInv
<1>2. /\ \A f \in Boundaries \ {e} : m.history[f] = l.history[f]
      /\ \A f \in Boundaries \ {e} : State(m, f) = State(l, f)
      /\ Load(m.history[e]) = Takes(r)
      /\ l.history[e] # <<>> => State(l, e) \in Unsettled
  BY <1>1, GrownHistory
<1>3. OneOpen(m)
  <2>1. \A f \in Open(l) : f = e
    BY <1>2 DEF LedgerInv, OneOpen, Open
  <2>2. \A f \in Open(m) : f = e
    BY <1>2, <2>1 DEF Open
  <2>3. QED
    BY <2>2 DEF OneOpen
<1>4. WithinLimit(m)
  <2>1. Reserved(m) + Consumed(m) =
          Reserved(l) + Consumed(l) + Load(m.history[e]) - Load(l.history[e])
    BY <1>1, <1>2, TotalChange
  <2>2. /\ Reserved(l) \in Nat /\ Consumed(l) \in Nat
        /\ Load(l.history[e]) \in Nat /\ Load(m.history[e]) \in Nat
    BY <1>1, TotalNat
  <2>3. Reserved(l) + Consumed(l) <= Limit
    BY DEF LedgerInv, WithinLimit
  <2>4. Limit \in Nat
    BY BudgetAssumption
  <2>5. Takes(r) <= Load(l.history[e]) \/ Takes(r) <= Limit - Reserved(l) - Consumed(l)
    BY DEF Available
  <2>6. QED
    BY <1>2, <2>1, <2>2, <2>3, <2>4, <2>5 DEF WithinLimit
<1>5. QED
  BY <1>3, <1>4

(* A revision that is not a commit moves no range.                         *)
LEMMA GrownTiles ==
    ASSUME NEW l, LedgerInv(l), NEW m, LedgerShape(m),
           NEW e \in Boundaries, NEW r \in Records, Grows(l, m, e, r),
           r.state # "committed", m.cursor = l.cursor,
           \A f \in Boundaries \ {e} : m.first[f] = l.first[f]
    PROVE  Tiled(m)
<1>1. LedgerShape(l)
  BY DEF LedgerInv
<1>2. /\ \A f \in Boundaries \ {e} : State(m, f) = State(l, f)
      /\ State(m, e) = r.state
      /\ l.history[e] # <<>> => State(l, e) \in Unsettled
  BY <1>1, GrownHistory
<1>3. ~ IsCommitted(l, e) /\ ~ IsCommitted(m, e)
  BY <1>2 DEF IsCommitted, Unsettled, State
<1>4. \A f \in Boundaries : /\ IsCommitted(m, f) <=> IsCommitted(l, f)
                            /\ IsCommitted(m, f) => m.first[f] = l.first[f]
  BY <1>2, <1>3 DEF IsCommitted
<1>5. QED
  BY <1>4 DEF LedgerInv, Tiled

(* A change that leaves the histories alone.                               *)
LEMMA SameHistory ==
    ASSUME NEW l, LedgerInv(l), NEW m \in Ledgers,
           m.history = l.history, m.first = l.first, m.cursor = l.cursor,
           \A e \in Boundaries : l.history[e] # <<>> => m.decisions[e] = l.decisions[e]
    PROVE  LedgerInv(m)
<1>1. LedgerShape(l)
  BY DEF LedgerInv
<1>2. LedgerShape(m)
  BY <1>1 DEF LedgerShape
<1>3. \A e : State(m, e) = State(l, e)
  BY DEF State, Latest
<1>4. OneOpen(m)
  BY <1>3 DEF LedgerInv, OneOpen, Open
<1>5. Tiled(m)
  BY <1>3 DEF LedgerInv, Tiled, IsCommitted
<1>6. WithinLimit(m)
  <2>1. 1 \in Boundaries
    BY BudgetAssumption DEF Boundaries
  <2>2. Reserved(m) + Consumed(m) =
          Reserved(l) + Consumed(l) + Load(m.history[1]) - Load(l.history[1])
    BY <1>1, <1>2, <2>1, TotalChange
  <2>3. /\ Reserved(l) \in Nat /\ Consumed(l) \in Nat
        /\ Load(l.history[1]) \in Nat
    BY <1>1, <2>1, TotalNat
  <2>4. QED
    BY <2>2, <2>3 DEF LedgerInv, WithinLimit
<1>7. QED
  BY <1>2, <1>4, <1>5, <1>6 DEF LedgerInv

(* An event is appended: the cycles stay as they are.                      *)
LEMMA AppendedKeeps ==
    ASSUME NEW l, LedgerInv(l), NEW e \in Boundaries, NEW m \in Appended(l, e)
    PROVE  LedgerInv(m) /\ m.history = l.history /\ m.entries = l.entries + 1
<1>1. l \in Ledgers
  BY DEF LedgerInv, LedgerShape
<1>2. m = [l EXCEPT !.events = e, !.entries = @ + 1]
  BY DEF Appended
<1>3. /\ m.history = l.history /\ m.first = l.first /\ m.cursor = l.cursor
      /\ m.decisions = l.decisions /\ m.entries = l.entries + 1
  BY <1>1, <1>2 DEF Ledgers
<1>4. m \in Ledgers
  <2>1. e \in 0..Length /\ l.entries + 1 \in Nat
    BY <1>1, BudgetAssumption DEF Ledgers, Boundaries
  <2>2. m = [l EXCEPT !.events = e, !.entries = l.entries + 1]
    BY <1>1, <1>2 DEF Ledgers
  <2>3. QED
    BY <1>1, <2>1, <2>2 DEF Ledgers
<1>5. QED
  BY <1>3, <1>4, SameHistory

(* An event is decided on once, so no cycle loses its decision.            *)
LEMMA DecidedKeeps ==
    ASSUME NEW l, LedgerInv(l), NEW e \in Boundaries, NEW invoke \in BOOLEAN,
           NEW m \in Decided(l, e, invoke)
    PROVE  /\ LedgerInv(m) /\ m.history = l.history /\ m.entries = l.entries + 1
<1>1. l \in Ledgers
  BY DEF LedgerInv, LedgerShape
<1> DEFINE d == IF invoke THEN "invoke" ELSE "silent"
<1>2. m = [l EXCEPT !.decisions[e] = d, !.entries = @ + 1] /\ l.decisions[e] = "none"
  BY DEF Decided
<1>3. d \in {"silent", "invoke"}
  OBVIOUS
<1> HIDE DEF d
<1>4. /\ m.history = l.history /\ m.first = l.first /\ m.cursor = l.cursor
      /\ m.events = l.events /\ m.entries = l.entries + 1
      /\ m.decisions = [l.decisions EXCEPT ![e] = d]
      /\ DOMAIN m = DOMAIN l
  BY <1>1, <1>2 DEF Ledgers
<1>5. m \in Ledgers
  <2>1. [l.decisions EXCEPT ![e] = d] \in [Boundaries -> {"none", "silent", "invoke"}]
    BY <1>1, <1>3 DEF Ledgers
  <2>2. m = [l EXCEPT !.decisions = [l.decisions EXCEPT ![e] = d],
                      !.entries = l.entries + 1]
    BY <1>1, <1>2 DEF Ledgers
  <2>3. l.entries + 1 \in Nat
    BY <1>1 DEF Ledgers
  <2>4. QED
    BY <1>1, <2>1, <2>2, <2>3 DEF Ledgers
<1>6. \A f \in Boundaries : l.history[f] # <<>> => m.decisions[f] = l.decisions[f]
  BY <1>1, <1>2, <1>4 DEF LedgerInv, LedgerShape, Ledgers
<1>7. QED
  BY <1>4, <1>5, <1>6, SameHistory

(* An outcome takes a place in the ledger and nothing else.                *)
LEMMA OutcomeKeeps ==
    ASSUME NEW l, LedgerInv(l), NEW m \in Outcome(l)
    PROVE  LedgerInv(m) /\ m.history = l.history /\ m.entries = l.entries + 1
<1>1. l \in Ledgers
  BY DEF LedgerInv, LedgerShape
<1>2. m = [l EXCEPT !.entries = @ + 1]
  BY DEF Outcome
<1>3. /\ m.history = l.history /\ m.first = l.first /\ m.cursor = l.cursor
      /\ m.decisions = l.decisions /\ m.entries = l.entries + 1
  BY <1>1, <1>2 DEF Ledgers
<1>4. m \in Ledgers
  <2>1. l.entries + 1 \in Nat
    BY <1>1 DEF Ledgers
  <2>2. m = [l EXCEPT !.entries = l.entries + 1]
    BY <1>1, <1>2 DEF Ledgers
  <2>3. QED
    BY <1>1, <2>1, <2>2 DEF Ledgers
<1>5. QED
  BY <1>3, <1>4, SameHistory

\* The records that may follow a history of n revisions.
Follows(n, r) ==
    /\ n = 1 => \/ r.state = "reserved" /\ r.held = Reservation
                \/ r.state = "failed" /\ r.held = 0
    /\ n = 2 => r.state \in {"running", "failed"} /\ r.held = Reservation
    /\ n = 3 => r.state \in Settled /\ r.held = Reservation
    /\ n \in 1..3 /\ r.charged <= r.held

(* A record that may follow the last one leaves a well-formed history.     *)
LEMMA ShapedAppend ==
    ASSUME NEW h \in Seq(Records), Shaped(h), h # <<>>,
           h[Len(h)].state \in Unsettled,
           NEW r \in Records, Follows(Len(h), r)
    PROVE  Shaped(Append(h, r))
<1> DEFINE g == Append(h, r)
           n == Len(h)
<1>1. n \in 1..3 /\ Len(g) = n + 1
  BY DEF Follows
<1>2. (\A i \in 1..n : g[i] = h[i]) /\ g[n + 1] = r
  OBVIOUS
<1>3. h[n].state \in Unsettled /\ Follows(n, r)
  OBVIOUS
<1>4. \A i \in 1..n :
        /\ i < n => h[i].state \in Unsettled
        /\ i = 1 => h[i].state = "pending" /\ h[i].held = 0
        /\ i = 2 => \/ h[i].state = "reserved" /\ h[i].held = Reservation
                    \/ h[i].state = "failed" /\ h[i].held = 0
        /\ i = 3 => h[i].state \in {"running", "failed"} /\ h[i].held = Reservation
        /\ h[i].charged <= h[i].held
  BY DEF Shaped
<1> HIDE DEF g, n
<1>5. ASSUME NEW i \in 1..n
      PROVE  /\ g[i].state \in Unsettled
             /\ i = 1 => g[i].state = "pending" /\ g[i].held = 0
             /\ i = 2 => \/ g[i].state = "reserved" /\ g[i].held = Reservation
                         \/ g[i].state = "failed" /\ g[i].held = 0
             /\ i = 3 => g[i].state \in {"running", "failed"} /\ g[i].held = Reservation
             /\ g[i].charged <= g[i].held
  BY <1>1, <1>2, <1>3, <1>4
<1>6. /\ n + 1 = 2 => \/ g[n + 1].state = "reserved" /\ g[n + 1].held = Reservation
                      \/ g[n + 1].state = "failed" /\ g[n + 1].held = 0
      /\ n + 1 = 3 => g[n + 1].state \in {"running", "failed"} /\ g[n + 1].held = Reservation
      /\ n + 1 = 4 => g[n + 1].state \in Settled /\ g[n + 1].held = Reservation
      /\ g[n + 1].charged <= g[n + 1].held
  BY <1>1, <1>2, <1>3 DEF Follows
<1>7. Shaped(g)
  BY <1>1, <1>5, <1>6 DEF Shaped
<1>8. QED
  BY <1>7 DEF g

(* A ledger stays well formed when an open cycle gets such a record.       *)
LEMMA GrownShape ==
    ASSUME NEW l, LedgerShape(l), NEW m \in Ledgers,
           NEW e \in Boundaries, NEW r \in Records, Grows(l, m, e, r),
           State(l, e) \in Unsettled, Follows(Len(l.history[e]), r),
           m.decisions = l.decisions, m.first = l.first
    PROVE  LedgerShape(m)
<1>1. /\ l.history \in [Boundaries -> Seq(Records)]
      /\ l.history[e] \in Seq(Records)
      /\ m.history[e] = Append(l.history[e], r)
      /\ \A f \in Boundaries \ {e} : m.history[f] = l.history[f]
  BY DEF LedgerShape, Ledgers, Grows
<1>2. Shaped(l.history[e]) /\ Ends(l.history[e]) \in Unsettled
  BY StateIsEnds DEF LedgerShape
<1>3. l.history[e] # <<>> /\ l.history[e][Len(l.history[e])].state \in Unsettled
  BY <1>2 DEF Ends, Unsettled
<1>4. Shaped(m.history[e])
  BY <1>1, <1>2, <1>3, ShapedAppend
<1>5. QED
  BY <1>1, <1>3, <1>4 DEF LedgerShape

\* The effect of a command on revision n that records r: it is applied to the
\* last revision, or it has been and is answered again.
Recorded(l, m, e, n, r) ==
    /\ n \in 1..Len(l.history[e])
    /\ \/ m = l /\ n < Len(l.history[e]) /\ l.history[e][n + 1] = r
       \/ /\ n = Len(l.history[e])
          /\ Grows(l, m, e, r)
          /\ m.entries = l.entries + 1

(* What Record leaves: the revision is appended, or was answered before.   *)
LEMMA RecordKeeps ==
    ASSUME NEW l, LedgerInv(l), NEW e \in Boundaries, NEW n \in 1..Len(l.history[e]),
           NEW r \in Records, NEW m \in Record(l, e, n + 1, r)
    PROVE  /\ Recorded(l, m, e, n, r)
           /\ n = Len(l.history[e]) => m = Add(l, e, r) /\ m # l
<1>1. l \in Ledgers /\ l.history[e] \in Seq(Records) /\ l.entries \in Nat
  BY DEF LedgerInv, LedgerShape, Ledgers
<1>2. CASE n + 1 > Len(l.history[e])
  <2>1. m = Add(l, e, r) /\ n = Len(l.history[e])
    BY <1>1, <1>2 DEF Record
  <2>2. Grows(l, m, e, r) /\ m.entries = l.entries + 1
    BY <1>1, <2>1, AddFacts DEF Grows
  <2>3. QED
    BY <1>1, <2>1, <2>2 DEF Recorded
<1>3. CASE n + 1 <= Len(l.history[e])
  BY <1>1, <1>3 DEF Record, Recorded
<1>4. QED
  BY <1>1, <1>2, <1>3

(* A command that records anything but a commit keeps the ledger, if its   *)
(* record may follow and what it takes was held or is available.           *)
LEMMA CommandKeeps ==
    ASSUME NEW l, LedgerInv(l), NEW e \in Boundaries, NEW n \in 1..Len(l.history[e]),
           NEW r \in Records, NEW m \in Record(l, e, n + 1, r),
           l.history[e][n].state \in Unsettled, Follows(n, r), r.state # "committed",
           n = Len(l.history[e]) =>
             Takes(r) <= Load(l.history[e]) \/ Takes(r) <= Available(l)
    PROVE  LedgerInv(m) /\ Recorded(l, m, e, n, r)
<1>1. Recorded(l, m, e, n, r)
  BY RecordKeeps
<1>2. CASE n < Len(l.history[e])
  BY <1>1, <1>2 DEF Recorded
<1>3. CASE n = Len(l.history[e])
  <2>1. m = Add(l, e, r)
    BY <1>3, RecordKeeps
  <2>2. LedgerShape(l) /\ l \in Ledgers
    BY DEF LedgerInv, LedgerShape
  <2>3. /\ m \in Ledgers /\ Grows(l, m, e, r)
        /\ m.cursor = l.cursor /\ m.first = l.first /\ m.decisions = l.decisions
    BY <2>1, <2>2, AddFacts DEF Grows
  <2>4. l.history[e] # <<>> /\ State(l, e) \in Unsettled
    <3>1. l.history[e] # <<>>
      BY <1>3
    <3>2. QED
      BY <1>3, <3>1, StateIsEnds DEF Ends
  <2>5. LedgerShape(m)
    BY <1>3, <2>2, <2>3, <2>4, GrownShape
  <2>6. OneOpen(m) /\ WithinLimit(m)
    BY <1>3, <2>3, <2>4, <2>5, GrownBudget
  <2>7. Tiled(m)
    BY <2>3, <2>5, GrownTiles
  <2>8. QED
    BY <1>1, <2>5, <2>6, <2>7 DEF LedgerInv
<1>4. n <= Len(l.history[e])
  OBVIOUS
<1>5. QED
  BY <1>2, <1>3, <1>4

(* What is known of the revision a command is based on.                    *)
LEMMA BaseFacts ==
    ASSUME NEW l, LedgerInv(l), NEW e \in Boundaries, NEW n, NEW states,
           NEW b \in Base(l, e, n, states)
    PROVE  /\ n \in 1..Len(l.history[e]) /\ n \in 1..4
           /\ b = l.history[e][n] /\ b.state \in states /\ b \in Records
           /\ n = 1 => b.state = "pending" /\ b.held = 0
           /\ n = 2 => \/ b.state = "reserved" /\ b.held = Reservation
                       \/ b.state = "failed" /\ b.held = 0
           /\ n = 3 => b.state \in {"running", "failed"} /\ b.held = Reservation
           /\ n = 4 => b.state \in Settled
           /\ n = Len(l.history[e]) => Load(l.history[e]) = Takes(b)
<1>1. l.history[e] \in Seq(Records) /\ Shaped(l.history[e])
  BY DEF LedgerInv, LedgerShape, Ledgers
<1>2. n \in 1..Len(l.history[e]) /\ b = l.history[e][n] /\ b.state \in states
  BY DEF Base
<1>3. b \in Records /\ n \in 1..4
  BY <1>1, <1>2 DEF Shaped
<1>4. n = Len(l.history[e]) => Load(l.history[e]) = Takes(b)
  BY <1>1, <1>2 DEF Load, Takes, Ends
<1>5. /\ n = 1 => b.state = "pending" /\ b.held = 0
      /\ n = 2 => \/ b.state = "reserved" /\ b.held = Reservation
                  \/ b.state = "failed" /\ b.held = 0
      /\ n = 3 => b.state \in {"running", "failed"} /\ b.held = Reservation
      /\ n = 4 => b.state \in Settled
  BY <1>1, <1>2 DEF Shaped
<1>6. QED
  BY <1>2, <1>3, <1>4, <1>5

(* A reservation is the second revision and takes what is available.       *)
LEMMA HeldKeeps ==
    ASSUME NEW l, LedgerInv(l), NEW e \in Boundaries, NEW n, NEW m \in Held(l, e, n)
    PROVE  /\ LedgerInv(m) /\ n = 1
           /\ Recorded(l, m, e, n, Cycle("reserved", Reservation, 0, "none"))
<1> DEFINE r == Cycle("reserved", Reservation, 0, "none")
<1>1. PICK b \in Base(l, e, n, {"pending"}) :
        /\ m \in Record(l, e, n + 1, r)
        /\ n = Len(l.history[e]) => Reservation <= Available(l)
  <2>1. PICK b \in Base(l, e, n, {"pending"}) :
          m \in IF Len(l.history[e]) = n /\ Reservation > Available(l) THEN {}
                ELSE Record(l, e, n + 1, r)
    BY DEF Held
  <2>2. Reservation \in Int /\ Available(l) \in Int
    BY BudgetAssumption, TotalNat DEF Available, LedgerInv
  <2>3. QED
    BY <2>1, <2>2
<1>2. /\ n \in 1..Len(l.history[e]) /\ n = 1
      /\ l.history[e][n].state \in Unsettled
  BY BaseFacts DEF Unsettled, Settled
<1>3. r \in Records /\ r.state = "reserved" /\ r.held = Reservation /\ r.charged = 0
  BY BudgetAssumption DEF Cycle, Records, Unsettled
<1> HIDE DEF r
<1>4. Follows(n, r) /\ Takes(r) = Reservation
  BY <1>2, <1>3, BudgetAssumption DEF Follows, Takes
<1>5. LedgerInv(m) /\ Recorded(l, m, e, n, r)
  BY <1>1, <1>2, <1>3, <1>4, CommandKeeps
<1>6. QED
  BY <1>2, <1>5 DEF r

(* A start is the third revision and holds what was reserved.              *)
LEMMA StartedKeeps ==
    ASSUME NEW l, LedgerInv(l), NEW e \in Boundaries, NEW n, NEW m \in Started(l, e, n)
    PROVE  /\ LedgerInv(m) /\ n = 2
           /\ \E r \in Records : r.state = "running" /\ Recorded(l, m, e, n, r)
<1>1. PICK b \in Base(l, e, n, {"reserved"}) :
        m \in Record(l, e, n + 1, [b EXCEPT !.state = "running"])
  BY DEF Started
<1> DEFINE r == [b EXCEPT !.state = "running"]
<1>2. /\ n \in 1..Len(l.history[e]) /\ n = 2
      /\ l.history[e][n].state \in Unsettled
      /\ b \in Records /\ b.held = Reservation /\ b.state = "reserved"
      /\ b = l.history[e][n]
      /\ n = Len(l.history[e]) => Load(l.history[e]) = Takes(b)
  BY BaseFacts DEF Unsettled, Settled
<1>3. r \in Records /\ r.state = "running" /\ r.held = Reservation /\ r.charged = b.charged
  BY <1>2 DEF Records, Unsettled
<1>4. b.charged <= b.held
  BY <1>2 DEF LedgerInv, LedgerShape, Shaped
<1> HIDE DEF r
<1>5. Follows(n, r) /\ Takes(r) = Reservation /\ Takes(b) = Reservation
  BY <1>2, <1>3, <1>4 DEF Follows, Takes
<1>6. m \in Record(l, e, n + 1, r)
  BY <1>1 DEF r
<1>7. n = Len(l.history[e]) => Takes(r) <= Load(l.history[e])
  BY <1>2, <1>5, BudgetAssumption
<1>8. LedgerInv(m) /\ Recorded(l, m, e, n, r)
  BY <1>2, <1>3, <1>5, <1>6, <1>7, CommandKeeps
<1>9. QED
  BY <1>2, <1>3, <1>8

(* A failure ends an open cycle and charges no more than it held.          *)
LEMMA FailedKeeps ==
    ASSUME NEW l, LedgerInv(l), NEW e \in Boundaries, NEW n, NEW charge \in Nat,
           NEW cause \in {"known", "unknown"}, NEW m \in Failed(l, e, n, charge, cause)
    PROVE  /\ LedgerInv(m) /\ n \in 1..3
           /\ l.history[e][n].state = "running" <=> charge > 0
           /\ \E r \in Records : /\ r.state = "failed" /\ r.charged = charge
                                 /\ Recorded(l, m, e, n, r)
<1>1. PICK b \in Base(l, e, n, Unsettled) :
        /\ Chargeable(b, charge, cause)
        /\ m \in Record(l, e, n + 1, Cycle("failed", b.held, charge, cause))
  BY DEF Failed
<1> DEFINE r == Cycle("failed", b.held, charge, cause)
<1>2. /\ n \in 1..Len(l.history[e]) /\ n \in 1..4
      /\ b \in Records /\ b = l.history[e][n] /\ b.state \in Unsettled
      /\ n = 1 => b.state = "pending" /\ b.held = 0
      /\ n = 2 => \/ b.state = "reserved" /\ b.held = Reservation
                  \/ b.state = "failed" /\ b.held = 0
      /\ n = 3 => b.state \in {"running", "failed"} /\ b.held = Reservation
      /\ n = 4 => b.state \in Settled
      /\ n = Len(l.history[e]) => Load(l.history[e]) = Takes(b)
  BY BaseFacts
<1>3. charge <= b.held /\ (b.state = "running" <=> charge > 0)
  BY <1>1 DEF Chargeable
<1>4. /\ n \in 1..3
      /\ n = 1 => b.state = "pending" /\ b.held = 0
      /\ n = 2 => b.state = "reserved" /\ b.held = Reservation /\ charge = 0
      /\ n = 3 => b.state = "running" /\ b.held = Reservation
  BY <1>2, <1>3 DEF Unsettled, Settled
<1>5. r \in Records /\ r.state = "failed" /\ r.held = b.held /\ r.charged = charge
  BY <1>2, <1>3, BudgetAssumption DEF Cycle, Records, Settled
<1>6. m \in Record(l, e, n + 1, r)
  BY <1>1
<1> HIDE DEF r
<1>7. Takes(r) = charge /\ Takes(b) \in Nat /\ charge <= Takes(b)
  BY <1>3, <1>4, <1>5, BudgetAssumption DEF Takes, Settled
<1>8. Follows(n, r)
  BY <1>3, <1>4, <1>5 DEF Follows, Settled
<1>9. n = Len(l.history[e]) => Takes(r) <= Load(l.history[e])
  BY <1>2, <1>7
<1>10. LedgerInv(m) /\ Recorded(l, m, e, n, r)
  BY <1>2, <1>5, <1>6, <1>8, <1>9, CommandKeeps
<1>11. QED
  BY <1>2, <1>3, <1>4, <1>5, <1>10

(* A commit ends a range at its boundary, right behind the cursor.         *)
LEMMA CommittedKeeps ==
    ASSUME NEW l, LedgerInv(l), NEW e \in Boundaries, NEW n, NEW charge \in Nat,
           NEW m \in Committed(l, e, n, charge)
    PROVE  /\ LedgerInv(m) /\ n = 3
           /\ \E r \in Records : /\ r.state = "committed"
                                 /\ n = Len(l.history[e]) => r.charged = charge
                                 /\ Recorded(l, m, e, n, r)
<1>1. PICK b \in Base(l, e, n, {"running"}) :
        /\ n = Len(l.history[e]) =>
             Chargeable(b, charge, "known") /\ l.first[e] = l.cursor + 1
        /\ \E k \in Record(l, e, n + 1, Cycle("committed", b.held, charge, "known")) :
             m = IF k = l THEN l ELSE [k EXCEPT !.cursor = e]
  BY DEF Committed
<1> DEFINE r == Cycle("committed", b.held, charge, "known")
<1>2. PICK k \in Record(l, e, n + 1, r) : m = IF k = l THEN l ELSE [k EXCEPT !.cursor = e]
  BY <1>1
<1>3. /\ n \in 1..Len(l.history[e]) /\ n = 3
      /\ b \in Records /\ b = l.history[e][n] /\ b.state = "running"
      /\ b.held = Reservation
      /\ n = Len(l.history[e]) => Load(l.history[e]) = Takes(b)
  BY BaseFacts DEF Settled
<1>4. l \in Ledgers /\ l.history[e] \in Seq(Records) /\ LedgerShape(l)
  BY DEF LedgerInv, LedgerShape, Ledgers
<1>5. r.state = "committed" /\ r.held = Reservation /\ r.charged = charge
  BY <1>3 DEF Cycle
<1> HIDE DEF r
<1>6. CASE n < Len(l.history[e])
  <2>1. k = l /\ l.history[e][n + 1] = r
    BY <1>2, <1>3, <1>4, <1>6 DEF Record
  <2>2. m = l
    BY <1>2, <2>1
  <2>3. r \in Records
    <3>1. n + 1 \in 1..Len(l.history[e])
      BY <1>3, <1>4, <1>6
    <3>2. QED
      BY <1>4, <2>1, <3>1
  <2>4. Recorded(l, m, e, n, r)
    BY <1>3, <1>6, <2>1, <2>2 DEF Recorded
  <2>5. QED
    BY <1>3, <1>5, <1>6, <2>2, <2>3, <2>4
<1>7. CASE n = Len(l.history[e])
  <2>1. charge <= Reservation /\ l.first[e] = l.cursor + 1
    BY <1>1, <1>3, <1>7 DEF Chargeable
  <2>2. r \in Records
    BY <1>5, <2>1, BudgetAssumption DEF r, Cycle, Records, Settled
  <2>3. k = Add(l, e, r) /\ k # l
    BY <1>2, <1>3, <1>7, <2>2, RecordKeeps
  <2>4. m = [k EXCEPT !.cursor = e]
    BY <1>2, <2>3
  <2>5. /\ k \in Ledgers /\ k.history = [l.history EXCEPT ![e] = Append(@, r)]
        /\ k.entries = l.entries + 1 /\ k.first = l.first
        /\ k.decisions = l.decisions
    BY <1>4, <2>2, <2>3, AddFacts
  <2>6. e \in 0..Length
    BY BudgetAssumption DEF Boundaries
  <2>7. /\ m \in Ledgers /\ Grows(l, m, e, r)
        /\ m.entries = l.entries + 1 /\ m.cursor = e
        /\ m.first = l.first /\ m.decisions = l.decisions
    BY <2>4, <2>5, <2>6 DEF Ledgers, Grows
  <2>8. l.history[e] # <<>> /\ State(l, e) \in Unsettled
    <3>1. l.history[e] # <<>> /\ l.history[e][Len(l.history[e])].state = "running"
      BY <1>3, <1>7
    <3>2. QED
      BY <3>1, StateIsEnds DEF Ends, Unsettled
  <2>9. Follows(n, r)
    BY <1>3, <1>5, <2>1 DEF Follows, Settled
  <2>10. LedgerShape(m)
    BY <1>4, <1>7, <2>2, <2>7, <2>8, <2>9, GrownShape
  <2>11. Takes(r) <= Load(l.history[e])
    BY <1>3, <1>5, <1>7, <2>1 DEF Takes, Settled
  <2>12. OneOpen(m) /\ WithinLimit(m)
    BY <2>2, <2>7, <2>8, <2>10, <2>11, GrownBudget
  <2>13. Tiled(m)
    <3>1. /\ \A f \in Boundaries \ {e} : State(m, f) = State(l, f)
          /\ State(m, e) = "committed"
      BY <1>4, <1>5, <2>2, <2>7, <2>10, GrownHistory
    <3>2. l.first[e] \in 1..e /\ l.cursor \in Nat /\ e \in Nat
      BY <1>4, <2>6, <2>8 DEF LedgerShape, Ledgers
    <3>3. Tiled(l)
      BY DEF LedgerInv
    <3>4. ~ IsCommitted(l, e)
      BY <2>8 DEF IsCommitted, Unsettled
    <3>5. \A f \in Boundaries : IsCommitted(m, f) <=> f = e \/ IsCommitted(l, f)
      BY <3>1 DEF IsCommitted
    <3>6. \A f \in Boundaries : IsCommitted(m, f) => f <= m.cursor
      BY <2>1, <2>7, <3>2, <3>3, <3>5 DEF Tiled, Boundaries
    <3>7. ASSUME NEW x \in 1..m.cursor
          PROVE  \E f \in Boundaries : IsCommitted(m, f) /\ x \in m.first[f]..f
      <4>1. CASE x <= l.cursor
        <5>1. PICK f \in Boundaries : IsCommitted(l, f) /\ x \in l.first[f]..f
          BY <3>2, <3>3, <4>1 DEF Tiled
        <5>2. QED
          BY <2>7, <3>5, <5>1
      <4>2. CASE x > l.cursor
        <5>1. x \in m.first[e]..e /\ IsCommitted(m, e)
          BY <2>1, <2>7, <3>2, <3>5, <4>2
        <5>2. QED
          BY <5>1
      <4>3. QED
        BY <3>2, <4>1, <4>2
    <3>8. ASSUME NEW f \in Boundaries, NEW g \in Boundaries,
                 IsCommitted(m, f), IsCommitted(m, g), f < g
          PROVE  f < m.first[g]
      <4>1. f # e
        BY <2>1, <3>2, <3>3, <3>5, <3>8 DEF Tiled, Boundaries
      <4>2. IsCommitted(l, f) /\ f <= l.cursor
        BY <3>3, <3>5, <3>8, <4>1 DEF Tiled
      <4>3. CASE g = e
        BY <2>1, <2>7, <3>2, <4>2, <4>3 DEF Boundaries
      <4>4. CASE g # e
        BY <2>7, <3>3, <3>5, <3>8, <4>2, <4>4 DEF Tiled
      <4>5. QED
        BY <4>3, <4>4
    <3>9. QED
      BY <3>6, <3>7, <3>8 DEF Tiled
  <2>14. Recorded(l, m, e, n, r)
    BY <1>3, <1>7, <2>7 DEF Recorded
  <2>15. QED
    BY <1>3, <1>5, <2>2, <2>10, <2>12, <2>13, <2>14 DEF LedgerInv
<1>8. n < Len(l.history[e]) \/ n = Len(l.history[e])
  <2>1. Len(l.history[e]) \in Nat
    BY <1>4
  <2>2. n \in 1..Len(l.history[e])
    BY <1>3
  <2>3. QED
    BY <2>1, <2>2
<1>9. QED
  BY <1>6, <1>7, <1>8

(* A cycle begins behind the cursor when no other is open, and again if it *)
(* has begun.                                                              *)
LEMMA BegunKeeps ==
    ASSUME NEW l, LedgerInv(l), NEW e \in Boundaries, NEW m \in Begun(l, e)
    PROVE  /\ LedgerInv(m)
           /\ \/ m = l /\ l.history[e] # <<>>
              \/ /\ l.history[e] = <<>> /\ m.entries = l.entries + 1
                 /\ \E r \in Records : r.state = "pending" /\ Grows(l, m, e, r)
<1>1. CASE l.history[e] # <<>>
  BY <1>1 DEF Begun
<1>2. CASE l.history[e] = <<>>
  <2> DEFINE r == Cycle("pending", 0, 0, "none")
  <2>1. /\ l.decisions[e] = "invoke" /\ Open(l) = {} /\ e > l.cursor
        /\ m = [Add(l, e, r) EXCEPT !.first[e] = l.cursor + 1]
    BY <1>2 DEF Begun
  <2>2. /\ r \in Records /\ r.state = "pending" /\ r.held = 0 /\ r.charged = 0
    BY BudgetAssumption DEF Cycle, Records, Unsettled
  <2> HIDE DEF r
  <2>3. LedgerShape(l) /\ l \in Ledgers
    BY DEF LedgerInv, LedgerShape
  <2> DEFINE k == Add(l, e, r)
  <2>4. /\ k \in Ledgers /\ k.history = [l.history EXCEPT ![e] = Append(@, r)]
        /\ k.entries = l.entries + 1 /\ k.cursor = l.cursor
        /\ k.first = l.first /\ k.decisions = l.decisions
    BY <2>2, <2>3, AddFacts
  <2>5. m = [k EXCEPT !.first = [k.first EXCEPT ![e] = l.cursor + 1]]
    <3>1. m = [k EXCEPT !.first[e] = l.cursor + 1]
      BY <2>1
    <3> HIDE DEF k
    <3>2. QED
      BY <2>4, <3>1 DEF Ledgers
  <2> HIDE DEF k
  <2>6. l.cursor + 1 \in 1..e /\ l.cursor + 1 \in 0..Length
    BY <2>1, <2>3, BudgetAssumption DEF Ledgers, Boundaries
  <2>7. /\ Grows(l, m, e, r) /\ m.entries = l.entries + 1
        /\ m.cursor = l.cursor /\ m.decisions = l.decisions
        /\ m.first = [l.first EXCEPT ![e] = l.cursor + 1]
    BY <2>4, <2>5 DEF Ledgers, Grows
  <2>8. m \in Ledgers
    <3>1. [k.first EXCEPT ![e] = l.cursor + 1] \in [Boundaries -> 0..Length]
      BY <2>4, <2>6 DEF Ledgers
    <3>2. QED
      BY <2>4, <2>5, <3>1 DEF Ledgers
  <2>9. LedgerShape(m)
    <3>1. /\ m.history[e] = <<r>>
          /\ \A f \in Boundaries \ {e} : m.history[f] = l.history[f]
      BY <1>2, <2>3, <2>7 DEF Grows, Ledgers
    <3>2. Shaped(m.history[e])
      BY <2>2, <3>1 DEF Shaped
    <3>3. m.decisions[e] = "invoke" /\ m.first[e] \in 1..e
      BY <2>1, <2>3, <2>6, <2>7 DEF Ledgers
    <3>4. \A f \in Boundaries \ {e} : m.first[f] = l.first[f]
      BY <2>3, <2>7 DEF Ledgers
    <3>5. QED
      BY <2>3, <2>7, <2>8, <3>1, <3>2, <3>3, <3>4 DEF LedgerShape
  <2>10. Takes(r) = 0 /\ Load(l.history[e]) = 0
    BY <1>2, <2>2 DEF Takes, Load, Ends, Settled
  <2>11. OneOpen(m) /\ WithinLimit(m)
    BY <2>1, <2>2, <2>7, <2>9, <2>10, GrownBudget
  <2>12. \A f \in Boundaries \ {e} : m.first[f] = l.first[f]
    BY <2>3, <2>7 DEF Ledgers
  <2>13. Tiled(m)
    BY <2>2, <2>7, <2>9, <2>12, GrownTiles
  <2>14. QED
    BY <1>2, <2>2, <2>7, <2>9, <2>11, <2>13 DEF LedgerInv
<1>3. QED
  BY <1>1, <1>2

(* A recovery settles the running cycle and charges all it holds.          *)
LEMMA RecoveredKeeps ==
    ASSUME NEW l, LedgerInv(l), NEW e \in Boundaries, State(l, e) = "running",
           NEW r, r = Cycle("failed", Latest(l, e).held, Latest(l, e).held, "recovered"),
           NEW m, m = Add(l, e, r)
    PROVE  /\ LedgerInv(m) /\ m.entries = l.entries + 1
           /\ Len(l.history[e]) = 3
           /\ r \in Records /\ r.state = "failed" /\ r.charged = Reservation
           /\ Grows(l, m, e, r)
<1>1. l \in Ledgers /\ LedgerShape(l) /\ l.history[e] \in Seq(Records)
  BY DEF LedgerInv, LedgerShape, Ledgers
<1>2. l.history[e] # <<>> /\ Ends(l.history[e]) = "running"
  BY StateIsEnds DEF Ends
<1> DEFINE n == Len(l.history[e])
<1>3. n \in 1..4 /\ l.history[e][n].state = "running"
  <2>1. n \in Nat /\ n # 0
    BY <1>1, <1>2
  <2>2. n <= 4
    BY <1>1 DEF LedgerShape, Shaped
  <2>3. l.history[e][n].state = "running"
    BY <1>2 DEF Ends
  <2> HIDE DEF n
  <2>4. QED
    BY <2>1, <2>2, <2>3
<1>4. n = 3 /\ l.history[e][n].held = Reservation
  <2>1. /\ n = 1 => l.history[e][n].state = "pending"
        /\ n = 2 => l.history[e][n].state \in {"reserved", "failed"}
        /\ n = 3 => l.history[e][n].held = Reservation
        /\ n = 4 => l.history[e][n].state \in Settled
    <3>1. Shaped(l.history[e])
      BY <1>1 DEF LedgerShape
    <3>2. n \in 1..Len(l.history[e])
      BY <1>1, <1>3
    <3> HIDE DEF n
    <3>3. QED
      BY <3>1, <3>2 DEF Shaped
  <2> HIDE DEF n
  <2>2. QED
    BY <1>3, <2>1 DEF Settled
<1> HIDE DEF n
<1>5. /\ r \in Records /\ r.state = "failed" /\ r.held = Reservation
      /\ r.charged = Reservation
  BY <1>4, BudgetAssumption DEF Latest, Cycle, Records, Settled, n
<1>6. /\ m \in Ledgers /\ m.history = [l.history EXCEPT ![e] = Append(@, r)]
      /\ m.entries = l.entries + 1
      /\ m.cursor = l.cursor /\ m.first = l.first /\ m.decisions = l.decisions
  <2>1. l \in Ledgers /\ r \in Records
    BY <1>1, <1>5
  <2> DEFINE a == Add(l, e, r)
  <2>2. /\ a \in Ledgers /\ a.history = [l.history EXCEPT ![e] = Append(@, r)]
        /\ a.entries = l.entries + 1
        /\ a.cursor = l.cursor /\ a.first = l.first /\ a.decisions = l.decisions
    BY <2>1, AddFacts
  <2>3. m = a
    OBVIOUS
  <2> HIDE DEF a
  <2>4. QED
    BY <2>2, <2>3
<1>7. /\ m \in Ledgers /\ Grows(l, m, e, r) /\ m.entries = l.entries + 1
      /\ m.cursor = l.cursor /\ m.first = l.first /\ m.decisions = l.decisions
  BY <1>6 DEF Grows
<1>8. State(l, e) \in Unsettled /\ Follows(n, r)
  BY <1>4, <1>5, BudgetAssumption DEF Unsettled, Follows, Settled
<1>9. LedgerShape(m)
  BY <1>1, <1>5, <1>7, <1>8, GrownShape DEF n
<1>10. Takes(r) = Reservation /\ Load(l.history[e]) = Reservation
  BY <1>2, <1>4, <1>5 DEF Takes, Load, Settled, n
<1>11. OneOpen(m) /\ WithinLimit(m)
  BY <1>2, <1>5, <1>7, <1>9, <1>10, BudgetAssumption, GrownBudget
<1>12. Tiled(m)
  BY <1>5, <1>7, <1>9, GrownTiles
<1>13. QED
  BY <1>4, <1>5, <1>7, <1>9, <1>11, <1>12 DEF LedgerInv, n

(* -------------------------- steps of the runner ------------------------ *)

\* The ledger after an operation on the cycle of boundary e: revisions are
\* only added, and to that cycle alone.
Advances(l, m, e) ==
    /\ LedgerInv(m) /\ m.entries >= l.entries
    /\ \A f \in Boundaries \ {e} : m.history[f] = l.history[f]
    /\ Len(m.history[e]) >= Len(l.history[e])
    /\ \A i \in 1..Len(l.history[e]) : m.history[e][i] = l.history[e][i]

\* ChargedInFull of one cycle.
Charged(h, used) == Ends(h) \in Settled => h[Len(h)].charged >= Min({used, Reservation})

(* The smaller of two numbers, as the module FiniteSetsExt defines it.     *)
LEMMA MinOfTwo ==
    ASSUME NEW a \in Nat, NEW b \in Nat
    PROVE  Min({a, b}) = IF a <= b THEN a ELSE b
<1> DEFINE m == IF a <= b THEN a ELSE b
<1>1. m \in {a, b} /\ \A y \in {a, b} : m <= y
  OBVIOUS
<1>2. \A x \in {a, b} : (\A y \in {a, b} : x <= y) => x = m
  OBVIOUS
<1> HIDE DEF m
<1>3. (CHOOSE x \in {a, b} : \A y \in {a, b} : x <= y) = m
  BY <1>1, <1>2
<1>4. QED
  BY <1>3 DEF Min, m

(* ChargedInFull, cycle by cycle.                                          *)
LEMMA ChargedByCycle ==
    ASSUME LedgerInv(ledger)
    PROVE  ChargedInFull <=>
             \A e \in Boundaries : Charged(ledger.history[e], spent[e])
BY StateIsEnds DEF ChargedInFull, Charged, Latest, Ends, Settled

(* A command's effect on its cycle.                                        *)
LEMMA RecordedAdvances ==
    ASSUME NEW l, LedgerInv(l), NEW m, LedgerInv(m), NEW e \in Boundaries,
           NEW n, NEW r \in Records, Recorded(l, m, e, n, r)
    PROVE  /\ Advances(l, m, e)
           /\ Len(m.history[e]) > n /\ m.history[e][n + 1] = r
           /\ \/ m = l /\ n < Len(l.history[e])
              \/ /\ Len(m.history[e]) = n + 1 /\ Len(l.history[e]) = n
                 /\ Ends(m.history[e]) = r.state
           /\ r.state \in Settled =>
                /\ Len(m.history[e]) = n + 1 /\ Ends(m.history[e]) = r.state
                /\ e \notin Open(m)
<1>1. /\ l.history[e] \in Seq(Records) /\ m.history[e] \in Seq(Records)
      /\ l.entries \in Nat /\ LedgerShape(l) /\ LedgerShape(m)
  BY DEF LedgerInv, LedgerShape, Ledgers
<1>2. n \in Nat /\ n # 0 /\ n <= Len(l.history[e])
  BY <1>1 DEF Recorded
<1>3. CASE m = l /\ n < Len(l.history[e]) /\ l.history[e][n + 1] = r
  <2>1. Advances(l, m, e) /\ Len(m.history[e]) > n /\ m.history[e][n + 1] = r
    BY <1>1, <1>3 DEF Advances
  <2>2. ASSUME r.state \in Settled
        PROVE  Len(m.history[e]) = n + 1 /\ Ends(m.history[e]) = r.state
    <3>1. n + 1 \in 1..Len(l.history[e])
      BY <1>1, <1>2, <1>3
    <3>2. Shaped(l.history[e]) /\ r.state \notin Unsettled
      BY <1>1, <2>2 DEF LedgerShape, Settled, Unsettled
    <3>3. ~ (n + 1 < Len(l.history[e]))
      BY <1>3, <3>1, <3>2 DEF Shaped
    <3>4. Len(l.history[e]) = n + 1
      BY <1>1, <3>1, <3>3
    <3>5. QED
      BY <1>2, <1>3, <3>4 DEF Ends
  <2>3. QED
    BY <1>3, <2>1, <2>2, StateIsEnds DEF Open, Settled, Unsettled
<1>4. CASE n = Len(l.history[e]) /\ Grows(l, m, e, r) /\ m.entries = l.entries + 1
  <2>1. /\ \A f \in Boundaries \ {e} : m.history[f] = l.history[f]
        /\ Len(m.history[e]) = Len(l.history[e]) + 1
        /\ \A i \in 1..Len(l.history[e]) : m.history[e][i] = l.history[e][i]
        /\ m.history[e][Len(l.history[e]) + 1] = r
        /\ State(m, e) = r.state
    BY <1>1, <1>4, GrownHistory
  <2>2. Advances(l, m, e)
    BY <1>1, <1>2, <1>4, <2>1 DEF Advances
  <2>3. Ends(m.history[e]) = r.state
    BY <2>1, StateIsEnds
  <2>4. Len(l.history[e]) = n /\ Len(m.history[e]) = n + 1
    BY <1>4, <2>1
  <2>5. r.state \in Settled => e \notin Open(m)
    BY <2>1 DEF Open, Settled, Unsettled
  <2>6. QED
    BY <1>2, <2>1, <2>2, <2>3, <2>4, <2>5
<1>5. QED
  BY <1>3, <1>4 DEF Recorded

(* The operations as the runner makes them, on the cycle it is at.         *)
LEMMA UsedNat ==
    ASSUME Inv, NEW e \in Boundaries
    PROVE  /\ spent[e] \in Nat /\ Reservation \in Nat /\ Reservation > 0
           /\ Min({spent[e], Reservation}) =
                IF spent[e] <= Reservation THEN spent[e] ELSE Reservation
<1>1. spent[e] \in Nat /\ Reservation \in Nat /\ Reservation > 0
  BY BudgetAssumption DEF Inv, Vars
<1>2. QED
  BY <1>1, MinOfTwo

(* The model has used nothing in a cycle that was never started.           *)
LEMMA NotRun ==
    ASSUME Inv, NEW e \in Boundaries, ~ HasRun(ledger, e)
    PROVE  spent[e] = 0
<1>1. spent[e] \in Nat
  BY UsedNat
<1>2. spent[e] > 0 => HasRun(ledger, e)
  BY DEF Inv, Usage
<1>3. QED
  BY <1>1, <1>2

(* A failure the runner writes, with the usage it knows of, with none or   *)
(* with the whole reservation, settles its cycle and charges it in full.   *)
LEMMA FailStep ==
    ASSUME Inv, NEW n, NEW charge \in Nat, NEW cause \in {"known", "unknown"},
           charge \in {0, spent[at], Reservation},
           NEW m \in Failed(ledger, at, n, charge, cause)
    PROVE  /\ Advances(ledger, m, at) /\ n \in 1..3
           /\ at \notin Open(m) /\ Charged(m.history[at], spent[at])
           /\ n = Len(ledger.history[at]) => m # ledger
<1>1. LedgerInv(ledger) /\ at \in Boundaries
  BY DEF Inv, Vars
<1>2. PICK r \in Records :
        /\ LedgerInv(m) /\ n \in 1..3
        /\ ledger.history[at][n].state = "running" <=> charge > 0
        /\ r.state = "failed" /\ r.charged = charge
        /\ Recorded(ledger, m, at, n, r)
  BY <1>1, FailedKeeps
<1>3. r.state \in Settled
  BY <1>2 DEF Settled
<1>4. /\ Advances(ledger, m, at)
      /\ Len(m.history[at]) = n + 1 /\ m.history[at][n + 1] = r
      /\ Ends(m.history[at]) = r.state /\ at \notin Open(m)
      /\ \/ m = ledger /\ n < Len(ledger.history[at])
         \/ Len(m.history[at]) = n + 1 /\ Len(ledger.history[at]) = n
  BY <1>1, <1>2, <1>3, RecordedAdvances
<1>5. n = Len(ledger.history[at]) => m # ledger
  BY <1>2, <1>4
<1>6. Charged(m.history[at], spent[at])
  <2>1. charge > 0 => charge >= Min({spent[at], Reservation})
    BY <1>1, UsedNat
  <2>2. ASSUME charge = 0
        PROVE  spent[at] = 0
    <3>1. ledger.history[at][n].state # "running" /\ n \in 1..3
      BY <1>2, <2>2
    <3>2. CASE Len(ledger.history[at]) = n
      <4>1. ~ HasRun(ledger, at)
        BY <3>1, <3>2 DEF HasRun
      <4>2. QED
        BY <1>1, <4>1, NotRun
    <3>3. CASE m = ledger
      <4>1. Len(ledger.history[at]) = n + 1 /\ ledger.history[at][n + 1].state = "failed"
        BY <1>2, <1>4, <3>3
      <4>2. ~ HasRun(ledger, at)
        BY <3>1, <4>1 DEF HasRun
      <4>3. QED
        BY <1>1, <4>2, NotRun
    <3>4. QED
      BY <1>4, <3>2, <3>3
  <2>3. charge >= Min({spent[at], Reservation})
    BY <1>1, <2>1, <2>2, UsedNat
  <2>4. m.history[at][Len(m.history[at])].charged = charge
    BY <1>2, <1>4
  <2>5. QED
    BY <2>3, <2>4 DEF Charged
<1>7. QED
  BY <1>2, <1>4, <1>5, <1>6

(* A commit with the answer's usage settles the cycle and charges it in    *)
(* full.                                                                   *)
LEMMA CommitStep ==
    ASSUME Inv, NEW n, usage = spent[at], NEW m \in Committed(ledger, at, n, usage)
    PROVE  /\ Advances(ledger, m, at) /\ n = 3
           /\ at \notin Open(m) /\ Charged(m.history[at], spent[at])
           /\ State(m, at) = "committed"
<1>1. LedgerInv(ledger) /\ at \in Boundaries /\ usage \in Nat
  BY BudgetAssumption DEF Inv, Vars
<1>2. PICK r \in Records :
        /\ LedgerInv(m) /\ n = 3
        /\ r.state = "committed"
        /\ n = Len(ledger.history[at]) => r.charged = usage
        /\ Recorded(ledger, m, at, n, r)
  BY <1>1, CommittedKeeps
<1>3. r.state \in Settled
  BY <1>2 DEF Settled
<1>4. /\ Advances(ledger, m, at)
      /\ Len(m.history[at]) = n + 1 /\ m.history[at][n + 1] = r
      /\ Ends(m.history[at]) = r.state /\ at \notin Open(m)
      /\ \/ m = ledger /\ n < Len(ledger.history[at])
         \/ Len(m.history[at]) = n + 1 /\ Len(ledger.history[at]) = n
  <2>1. Recorded(ledger, m, at, n, r) /\ LedgerInv(m)
    BY <1>2
  <2>2. QED
    BY <1>1, <1>3, <2>1, RecordedAdvances
<1>5. State(m, at) = "committed"
  BY <1>2, <1>4, StateIsEnds
<1>6. CASE m = ledger
  <2>1. Charged(ledger.history[at], spent[at])
    BY <1>1, ChargedByCycle DEF Inv
  <2>2. QED
    BY <1>2, <1>4, <1>5, <1>6, <2>1
<1>7. CASE n = Len(ledger.history[at])
  <2>1. m.history[at][Len(m.history[at])].charged = spent[at]
    BY <1>2, <1>4, <1>7
  <2>2. Charged(m.history[at], spent[at])
    BY <1>1, <2>1, UsedNat DEF Charged
  <2>3. QED
    BY <1>2, <1>4, <1>5, <2>2
<1>8. QED
  BY <1>4, <1>6, <1>7

(* An operation that leaves the histories alone.                           *)
LEMMA SameAdvances ==
    ASSUME NEW l, NEW m, LedgerInv(m), m.history = l.history,
           m.entries >= l.entries, NEW e \in Boundaries
    PROVE  Advances(l, m, e)
<1>1. m.history[e] \in Seq(Records)
  BY DEF LedgerInv, LedgerShape, Ledgers
<1>2. QED
  BY <1>1 DEF Advances

(* What an operation on the runner's cycle leaves of the other cycles.     *)
LEMMA AdvancesFacts ==
    ASSUME Inv, NEW m, Advances(ledger, m, at)
    PROVE  /\ \A e \in Boundaries : e < at => e \notin Open(m)
           /\ \A e \in Boundaries : e > at => m.history[e] = <<>>
           /\ \A e \in Boundaries : HasRun(ledger, e) => HasRun(m, e)
           /\ \A e \in Boundaries \ {at} : Charged(m.history[e], spent[e])
           /\ Open(m) \subseteq {at}
<1>1. LedgerInv(ledger) /\ at \in Boundaries
  BY DEF Inv, Vars
<1>2. /\ \A f \in Boundaries \ {at} : m.history[f] = ledger.history[f]
      /\ \A f \in Boundaries \ {at} : State(m, f) = State(ledger, f)
  BY StateIsEnds DEF Advances
<1>3. \A e \in Boundaries : e # at => (e \in Open(m) <=> e \in Open(ledger))
  BY <1>2 DEF Open
<1>4. \A e \in Boundaries : e < at => e \notin Open(m)
  BY <1>3, BudgetAssumption DEF Inv, Frontier, Boundaries
<1>5. \A e \in Boundaries : e > at => m.history[e] = <<>>
  BY <1>2, BudgetAssumption DEF Inv, Frontier, Boundaries
<1>6. ASSUME NEW e \in Boundaries, HasRun(ledger, e)
      PROVE  HasRun(m, e)
  <2>1. CASE e = at
    <3>1. /\ ledger.history[at] \in Seq(Records) /\ m.history[at] \in Seq(Records)
      BY <1>1 DEF Advances, LedgerInv, LedgerShape, Ledgers
    <3>2. QED
      BY <1>6, <2>1, <3>1 DEF HasRun, Advances
  <2>2. CASE e # at
    BY <1>2, <1>6, <2>2 DEF HasRun
  <2>3. QED
    BY <2>1, <2>2
<1>7. \A e \in Boundaries \ {at} : Charged(m.history[e], spent[e])
  BY <1>1, <1>2, ChargedByCycle DEF Inv
<1>8. Open(m) \subseteq {at}
  <2>1. ASSUME NEW e \in Open(m), e # at
        PROVE  FALSE
    <3>1. e \in Boundaries /\ State(m, e) \in Unsettled
      BY DEF Open
    <3>2. e < at \/ e > at
      BY <1>1, <2>1, <3>1 DEF Boundaries
    <3>3. m.history[e] = <<>>
      BY <1>4, <1>5, <3>1, <3>2
    <3>4. QED
      BY <3>1, <3>3 DEF State, Unsettled
  <2>2. QED
    BY <2>1
<1>9. QED
  BY <1>4, <1>5, <1>6, <1>7, <1>8

(* What is left to show of a step that works on the cycle it is at, or that *)
(* leaves it for the next boundary.                                         *)
LEMMA StepKeeps ==
    ASSUME Inv, Advances(ledger, ledger', at), Vars',
           Charged(ledger'.history[at], spent'[at]),
           \A e \in Boundaries \ {at} : spent'[e] = spent[e],
           spent'[at] > 0 => HasRun(ledger', at),
           at' = at \/ (at' = at + 1 /\ at \notin Open(ledger') /\ pc' = "append"),
           pc' \in {"append", "decide", "begin"} => ledger'.history[at'] = <<>>,
           pc' \in {"reserve", "batch", "start", "check", "model"}
             /\ Len(ledger'.history[at]) = 4 => ledger'.history[at][4].charged = Reservation,
           pc' \in {"check", "model"} => HasRun(ledger', at),
           pc' \in {"settle", "commit", "fail", "interrupted", "conflict", "unanswered"}
             => usage' = spent'[at],
           Known',
           pc' = "ended" /\ ~ broken' => at \notin Open(ledger')
    PROVE  Inv'
<1>1. LedgerInv(ledger) /\ at \in Boundaries /\ at' \in Boundaries /\ LedgerInv(ledger')
  BY DEF Inv, Vars, Advances
<1>2. /\ \A e \in Boundaries : e < at => e \notin Open(ledger')
      /\ \A e \in Boundaries : e > at => ledger'.history[e] = <<>>
      /\ \A e \in Boundaries : HasRun(ledger, e) => HasRun(ledger', e)
      /\ \A e \in Boundaries \ {at} : Charged(ledger'.history[e], spent[e])
      /\ Open(ledger') \subseteq {at}
  BY AdvancesFacts
<1>3. Frontier'
  <2>1. \A e \in Boundaries : e < at' => e \notin Open(ledger')
    BY <1>1, <1>2 DEF Boundaries
  <2>2. \A e \in Boundaries : e > at' => ledger'.history[e] = <<>>
    BY <1>1, <1>2 DEF Boundaries
  <2>3. QED
    BY <2>1, <2>2 DEF Frontier
<1>4. Usage'
  <2>1. ASSUME NEW e \in Boundaries, spent'[e] > 0
        PROVE  HasRun(ledger', e)
    <3>1. CASE e = at
      BY <2>1, <3>1
    <3>2. CASE e # at
      BY <1>2, <2>1, <3>2 DEF Inv, Usage
    <3>3. QED
      BY <3>1, <3>2
  <2>2. pc' # "append" => at' = at
    OBVIOUS
  <2>3. QED
    BY <2>1, <2>2 DEF Usage
<1>5. ChargedInFull'
  <2>1. \A e \in Boundaries : Charged(ledger'.history[e], spent'[e])
    BY <1>2
  <2>2. ChargedInFull' <=> \A e \in Boundaries : Charged(ledger'.history[e], spent'[e])
    BY <1>1, StateIsEnds DEF ChargedInFull, Charged, Latest, Ends, Settled
  <2>3. QED
    BY <2>1, <2>2
<1>6. EndsSettled'
  BY <1>2 DEF EndsSettled
<1>7. QED
  BY <1>1, <1>3, <1>4, <1>5, <1>6 DEF Inv

(* --------------------------- FixedStepRunner --------------------------- *)

Counters ==
    /\ faults \in 0..MaxFaults /\ cancels \in 0..MaxCancels
    /\ recoveries \in 0..MaxRecoveries /\ crashes \in 0..MaxCrashes

(* What every awaited operation of the runner does.                        *)
LEMMA BoundaryFacts ==
    ASSUME Inv, NEW place, NEW op, NEW answered \in BOOLEAN, NEW cut \in BOOLEAN,
           Boundary(place, op, answered, cut)
    PROVE  /\ mode = "fixed" /\ pc = place /\ mode' = mode
           /\ shielded' = shielded /\ spent' = spent /\ Counters'
           /\ ledger' = ledger \/ ledger' \in op
           /\ answered => ledger' \in op
           /\ ~ answered /\ faults' = faults => op = {} /\ ledger' = ledger
<1>1. Counters /\ {MaxFaults, MaxCancels} \subseteq Nat
  BY BudgetAssumption DEF Inv, Vars, Counters
<1>2. Counters'
  BY <1>1 DEF Boundary, Await, Fault, Cancel, Counters
<1>3. ~ answered /\ faults' = faults => op = {} /\ ledger' = ledger
  BY <1>1 DEF Boundary, Await, Fault, Counters
<1>4. QED
  BY <1>2, <1>3 DEF Boundary, Await

(* The next event is appended, or found to have been.                      *)
LEMMA FixedAppendKeeps == Inv /\ FixedAppend => Inv'
<1> SUFFICES ASSUME Inv, FixedAppend PROVE Inv'
  OBVIOUS
<1>1. PICK answered \in BOOLEAN, cut \in BOOLEAN :
        /\ Boundary("append", Appended(ledger, at), answered, cut)
        /\ \/ ledger'.events >= at /\ Goto("decide") /\ cancelled' = (cancelled \/ cut)
           \/ ~ answered /\ Goto("ended") /\ UNCHANGED cancelled
        /\ guard' = 0
        /\ UNCHANGED <<at, expected, usage, broken>>
  BY DEF FixedAppend
<1>2. /\ mode = "fixed" /\ pc = "append" /\ mode' = mode
      /\ shielded' = shielded /\ spent' = spent /\ Counters'
      /\ ledger' = ledger \/ ledger' \in Appended(ledger, at)
  BY <1>1, BoundaryFacts
<1>3. LedgerInv(ledger) /\ at \in Boundaries /\ ledger.entries \in Nat
  BY DEF Inv, Vars, LedgerInv, LedgerShape, Ledgers
<1>4. LedgerInv(ledger') /\ ledger'.history = ledger.history /\ ledger'.entries >= ledger.entries
  BY <1>2, <1>3, AppendedKeeps
<1>5. Advances(ledger, ledger', at)
  BY <1>3, <1>4, SameAdvances
<1>6. Vars'
  <2>1. ledger'.entries \in Nat
    BY <1>4 DEF LedgerInv, LedgerShape, Ledgers
  <2>2. QED
    BY <1>1, <1>2, <1>3, <1>4, <2>1 DEF Inv, Vars, Counters, Goto, Places
<1>7. ledger'.history[at] = <<>>
  BY <1>2, <1>4 DEF Inv, Frontier
<1>8. Known'
  BY <1>1, <1>2 DEF Known, Goto
<1>9. /\ at \notin Open(ledger') /\ Charged(ledger'.history[at], spent[at])
      /\ spent[at] = 0
  <2>1. Ends(ledger'.history[at]) = "none" /\ ~ HasRun(ledger, at)
    BY <1>4, <1>7 DEF Ends, HasRun
  <2>2. QED
    BY <1>3, <2>1, NotRun, StateIsEnds DEF Open, Charged, Settled, Unsettled
<1>10. QED
  BY <1>1, <1>2, <1>5, <1>6, <1>7, <1>8, <1>9, StepKeeps DEF Goto

(* Leaving a boundary: for the next one, or for good.                      *)
LEMMA Leaving ==
    ASSUME Inv, NextBoundary \/ Leave, NEW m, Advances(ledger, m, at)
    PROVE  /\ at' \in Boundaries
           /\ \/ at' = at /\ pc' = "ended"
              \/ at' = at + 1 /\ pc' = "append" /\ m.history[at'] = <<>>
<1>1. at \in Boundaries
  BY DEF Inv, Vars
<1>2. \/ at' = at /\ pc' = "ended"
      \/ at' = at + 1 /\ pc' = "append" /\ at # Length
  BY DEF NextBoundary, Leave
<1>3. at' \in Boundaries
  BY <1>1, <1>2, BudgetAssumption DEF Boundaries
<1>4. at' = at + 1 => m.history[at'] = <<>>
  BY <1>1, <1>3, AdvancesFacts DEF Boundaries
<1>5. QED
  BY <1>2, <1>3, <1>4

(* What the invariant says of the cycle the runner is at.                  *)
LEMMA LedgerNat == Inv => /\ LedgerInv(ledger) /\ at \in Boundaries
                          /\ ledger.entries \in Nat /\ ledger.history[at] \in Seq(Records)
                          /\ Charged(ledger.history[at], spent[at])
                          /\ spent[at] > 0 => HasRun(ledger, at)
BY ChargedByCycle DEF Inv, Vars, LedgerInv, LedgerShape, Ledgers, Usage

(* The ledger's position never goes back.                                  *)
LEMMA AdvancesEntries ==
    ASSUME Inv, NEW m, Advances(ledger, m, at)
    PROVE  m.entries \in Nat /\ m.entries >= ledger.entries
BY DEF Advances, LedgerInv, LedgerShape, Ledgers

(* The event is decided on: its cycle begins, or the boundary is done.     *)
LEMMA FixedDecideKeeps == Inv /\ FixedDecide => Inv'
<1> SUFFICES ASSUME Inv, FixedDecide PROVE Inv'
  OBVIOUS
<1>1. PICK answered \in BOOLEAN, cut \in BOOLEAN, scheduled \in BOOLEAN,
           invoke \in BOOLEAN :
        /\ Boundary("decide", Decided(ledger, at, invoke), answered, cut)
        /\ \/ /\ cancelled' = (cancelled \/ cut)
              /\ \/ Goto("begin") /\ UNCHANGED at
                 \/ BoundaryDone(cut)
           \/ Leave /\ UNCHANGED cancelled
        /\ UNCHANGED <<guard, expected, usage, broken>>
  BY DEF FixedDecide
<1>2. /\ mode = "fixed" /\ pc = "decide" /\ mode' = mode
      /\ shielded' = shielded /\ spent' = spent /\ Counters'
      /\ ledger' = ledger \/ ledger' \in Decided(ledger, at, invoke)
  BY <1>1, BoundaryFacts
<1>3. LedgerInv(ledger) /\ at \in Boundaries /\ ledger.entries \in Nat
  BY LedgerNat
<1>4. LedgerInv(ledger') /\ ledger'.history = ledger.history /\ ledger'.entries >= ledger.entries
  BY <1>2, <1>3, DecidedKeeps
<1>5. Advances(ledger, ledger', at)
  BY <1>3, <1>4, SameAdvances
<1>6. /\ at' \in Boundaries
      /\ \/ at' = at /\ pc' = "ended"
         \/ at' = at /\ pc' = "begin"
         \/ at' = at + 1 /\ pc' = "append" /\ ledger'.history[at'] = <<>>
  BY <1>1, <1>3, <1>5, Leaving DEF BoundaryDone, Goto
<1>7. Vars'
  <2>1. ledger'.entries \in Nat
    BY <1>5, AdvancesEntries
  <2>2. QED
    BY <1>1, <1>2, <1>3, <1>4, <1>6, <2>1 DEF Inv, Vars, Counters, Places
<1>8. ledger'.history[at] = <<>>
  BY <1>2, <1>4 DEF Inv, Frontier
<1>9. Known'
  BY <1>1, <1>2, <1>6 DEF Known, Inv
<1>10. /\ at \notin Open(ledger') /\ Charged(ledger'.history[at], spent[at])
       /\ spent[at] = 0
  <2>1. Ends(ledger'.history[at]) = "none" /\ ~ HasRun(ledger, at)
    BY <1>4, <1>8 DEF Ends, HasRun
  <2>2. QED
    BY <1>3, <2>1, NotRun, StateIsEnds DEF Open, Charged, Settled, Unsettled
<1>11. QED
  BY <1>2, <1>5, <1>6, <1>7, <1>8, <1>9, <1>10, StepKeeps

\* What an operation of the guard may leave of the cycle: the next revision,
\* or a ledger that has it already.
Advanced(m) ==
    /\ Advances(ledger, m, at)
    /\ \/ m = ledger /\ Len(ledger.history[at]) > guard
       \/ /\ Len(ledger.history[at]) = guard /\ Len(m.history[at]) = guard + 1
          /\ Ends(m.history[at]) \notin Settled

(* The runner takes its cycle one revision further.  An answer that is     *)
(* lost is remembered as broken; otherwise the guard is the last revision. *)
LEMMA FixedAdvanceKeeps ==
    ASSUME Inv, NEW place, NEW op, NEW next, FixedAdvance(place, op, next),
           \/ place = "begin" /\ next = "reserve"
           \/ place = "reserve" /\ next = "start"
           \/ place = "start" /\ next = "check" /\ \A m \in op : HasRun(m, at),
           \A m \in op : Advanced(m)
    PROVE  Inv'
<1>1. PICK answered \in BOOLEAN, cut \in BOOLEAN :
        /\ Boundary(place, op, answered, cut)
        /\ IF answered
           THEN /\ guard' = guard + 1 /\ expected' = ledger'.entries
                /\ Goto(IF cut THEN "clean" ELSE next)
                /\ UNCHANGED broken
           ELSE /\ Goto("clean") /\ UNCHANGED <<guard, expected>>
                /\ broken' = (broken \/ ledger' # ledger)
        /\ UNCHANGED <<at, usage, cancelled>>
  BY DEF FixedAdvance
<1>2. /\ mode = "fixed" /\ pc = place /\ mode' = mode
      /\ shielded' = shielded /\ spent' = spent /\ Counters'
      /\ ledger' = ledger \/ ledger' \in op
      /\ answered => ledger' \in op
  BY <1>1, BoundaryFacts
<1>3. /\ LedgerInv(ledger) /\ at \in Boundaries /\ ledger.entries \in Nat
      /\ ledger.history[at] \in Seq(Records)
      /\ Charged(ledger.history[at], spent[at])
      /\ spent[at] > 0 => HasRun(ledger, at)
  BY LedgerNat
<1>4. Advances(ledger, ledger', at)
  BY <1>2, <1>3, SameAdvances DEF Advanced
<1>5. /\ \A e \in Boundaries : HasRun(ledger, e) => HasRun(ledger', e)
      /\ ledger'.entries \in Nat /\ ledger'.entries >= ledger.entries
  BY <1>4, AdvancesFacts, AdvancesEntries
<1>6. Charged(ledger'.history[at], spent[at])
  <2>1. CASE ledger' = ledger
    BY <1>3, <2>1
  <2>2. CASE ledger' # ledger
    BY <1>2, <2>2 DEF Advanced, Charged
  <2>3. QED
    BY <2>1, <2>2
<1>7. /\ guard \in 0..2
      /\ place = "begin" => guard = 0 /\ Len(ledger.history[at]) = 0
      /\ place = "reserve" => guard = 1
      /\ place = "start" => guard = 2
  BY <1>2 DEF Inv, Known, Frontier
<1>8. Vars'
  <2>1. pc' \in Places
    BY <1>1 DEF Goto, Places
  <2>2. guard' \in 0..3 /\ expected' \in 0..ledger'.entries
    <3>1. guard \in 0..3 /\ expected \in 0..ledger.entries
      BY DEF Inv, Vars
    <3>2. \/ guard' = guard + 1 /\ expected' = ledger'.entries
          \/ guard' = guard /\ expected' = expected
      BY <1>1
    <3>3. QED
      BY <1>3, <1>5, <1>7, <3>1, <3>2
  <2>3. broken' \in BOOLEAN
    BY <1>1 DEF Inv, Vars
  <2>4. QED
    BY <1>1, <1>2, <1>3, <2>1, <2>2, <2>3 DEF Inv, Vars, Counters
<1>9. pc' \in {"reserve", "start", "check", "clean"}
  BY <1>1 DEF Goto
<1>10. ~ broken' /\ at \in Open(ledger') => guard' = Len(ledger'.history[at])
  <2> SUFFICES ASSUME ~ broken', at \in Open(ledger')
               PROVE  guard' = Len(ledger'.history[at])
    OBVIOUS
  <2>1. ~ broken
    BY <1>1
  <2>2. at \in Open(ledger) => guard = Len(ledger.history[at])
    BY <1>2, <1>7, <2>1 DEF Inv, Known
  <2>3. CASE answered
    <3>1. guard' = guard + 1 /\ Advanced(ledger')
      BY <1>1, <1>2, <2>3
    <3>2. CASE ledger' = ledger
      BY <2>2, <3>1, <3>2, <1>3, <1>7 DEF Advanced
    <3>3. CASE ledger' # ledger
      BY <3>1, <3>3 DEF Advanced
    <3>4. QED
      BY <3>2, <3>3
  <2>4. CASE ~ answered
    <3>1. ledger' = ledger /\ guard' = guard
      BY <1>1, <2>4
    <3>2. QED
      BY <2>2, <3>1
  <2>5. QED
    BY <2>3, <2>4
<1>11. Known'
  <2>1. /\ pc' = "reserve" => guard' = 1
        /\ pc' = "start" => guard' = 2
        /\ pc' = "check" => guard' = 3
    BY <1>1, <1>2, <1>7 DEF Goto
  <2>2. QED
    BY <1>9, <1>10, <2>1, <1>1, <1>2 DEF Known
<1>12. Len(ledger'.history[at]) = 4 => ledger'.history[at][4].charged = Reservation
  <2>1. CASE ledger' = ledger
    BY <1>2, <1>7, <2>1 DEF Inv, Usage
  <2>2. CASE ledger' # ledger
    BY <1>2, <1>7, <2>2 DEF Advanced
  <2>3. QED
    BY <2>1, <2>2
<1>13. pc' = "check" => HasRun(ledger', at)
  BY <1>1, <1>2 DEF Goto
<1>14. at' = at /\ spent' = spent
  BY <1>1, <1>2
<1>15. spent'[at] > 0 => HasRun(ledger', at)
  BY <1>3, <1>5, <1>14
<1>16. /\ Charged(ledger'.history[at], spent'[at])
       /\ \A e \in Boundaries \ {at} : spent'[e] = spent[e]
  BY <1>6, <1>14
<1>17. QED
  BY <1>4, <1>8, <1>9, <1>11, <1>12, <1>13, <1>14, <1>15, <1>16, StepKeeps

(* A command on the guard's revision, as the runner sees its answer.       *)
LEMMA RecordedAdvanced ==
    ASSUME Inv, NEW m, LedgerInv(m), NEW r \in Records,
           Recorded(ledger, m, at, guard, r), r.state \notin Settled
    PROVE  Advanced(m) /\ Len(m.history[at]) > guard /\ m.history[at][guard + 1] = r
<1>1. LedgerInv(ledger) /\ at \in Boundaries
  BY LedgerNat
<1>2. /\ Advances(ledger, m, at)
      /\ Len(m.history[at]) > guard /\ m.history[at][guard + 1] = r
      /\ \/ m = ledger /\ guard < Len(ledger.history[at])
         \/ /\ Len(m.history[at]) = guard + 1 /\ Len(ledger.history[at]) = guard
            /\ Ends(m.history[at]) = r.state
  BY <1>1, RecordedAdvances
<1>3. guard \in Nat /\ Len(ledger.history[at]) \in Nat
  BY LedgerNat DEF Inv, Vars
<1>4. QED
  BY <1>2, <1>3 DEF Advanced

(* A cycle begins: its first revision is written, or has been.             *)
LEMMA FixedBeginKeeps == Inv /\ FixedBegin => Inv'
<1> SUFFICES ASSUME Inv, FixedBegin PROVE Inv'
  OBVIOUS
<1>1. FixedAdvance("begin", Begun(ledger, at), "reserve")
  BY DEF FixedBegin
<1>2. /\ LedgerInv(ledger) /\ at \in Boundaries /\ ledger.entries \in Nat
      /\ LedgerShape(ledger)
  BY LedgerNat DEF LedgerInv
<1>3. guard = 0 /\ ledger.history[at] = <<>>
  BY <1>1 DEF FixedAdvance, Boundary, Inv, Known, Frontier
<1>4. ASSUME NEW m \in Begun(ledger, at)
      PROVE  Advanced(m)
  <2>1. PICK r \in Records : /\ LedgerInv(m) /\ m.entries = ledger.entries + 1
                             /\ r.state = "pending" /\ Grows(ledger, m, at, r)
    BY <1>2, <1>3, BegunKeeps
  <2>2. LedgerShape(m)
    BY <2>1 DEF LedgerInv
  <2>3. /\ \A f \in Boundaries \ {at} : m.history[f] = ledger.history[f]
        /\ Len(m.history[at]) = Len(ledger.history[at]) + 1
        /\ \A i \in 1..Len(ledger.history[at]) : m.history[at][i] = ledger.history[at][i]
        /\ State(m, at) = r.state
    BY <1>2, <2>1, <2>2, GrownHistory
  <2>4. Len(ledger.history[at]) = 0 /\ Len(m.history[at]) = 1
    BY <1>3, <2>3
  <2>5. Ends(m.history[at]) \notin Settled
    BY <2>1, <2>3, StateIsEnds DEF Settled
  <2>6. Advances(ledger, m, at)
    BY <1>2, <2>1, <2>3, <2>4 DEF Advances
  <2>7. QED
    BY <1>3, <2>4, <2>5, <2>6 DEF Advanced
<1>5. QED
  BY <1>1, <1>4, FixedAdvanceKeeps

(* Budget is held for the cycle.                                           *)
LEMMA FixedReserveKeeps == Inv /\ FixedReserve => Inv'
<1> SUFFICES ASSUME Inv, FixedReserve PROVE Inv'
  OBVIOUS
<1>1. FixedAdvance("reserve", Held(ledger, at, guard), "start")
  BY DEF FixedReserve
<1>2. LedgerInv(ledger) /\ at \in Boundaries
  BY LedgerNat
<1>3. ASSUME NEW m \in Held(ledger, at, guard)
      PROVE  Advanced(m)
  <2>1. PICK r : /\ r = Cycle("reserved", Reservation, 0, "none")
                 /\ LedgerInv(m) /\ Recorded(ledger, m, at, guard, r)
    BY <1>2, HeldKeeps
  <2>2. r \in Records /\ r.state \notin Settled
    BY <2>1, BudgetAssumption DEF Cycle, Records, Unsettled, Settled
  <2>3. QED
    BY <2>1, <2>2, RecordedAdvanced
<1>4. QED
  BY <1>1, <1>3, FixedAdvanceKeeps

(* The cycle is started: from here on its model may be called.             *)
LEMMA FixedStartKeeps == Inv /\ FixedStart => Inv'
<1> SUFFICES ASSUME Inv, FixedStart PROVE Inv'
  OBVIOUS
<1>1. FixedAdvance("start", Started(ledger, at, guard), "check")
  BY DEF FixedStart
<1>2. LedgerInv(ledger) /\ at \in Boundaries
  BY LedgerNat
<1>3. ASSUME NEW m \in Started(ledger, at, guard)
      PROVE  Advanced(m) /\ HasRun(m, at)
  <2>1. PICK r \in Records : /\ LedgerInv(m) /\ guard = 2 /\ r.state = "running"
                             /\ Recorded(ledger, m, at, guard, r)
    BY <1>2, StartedKeeps
  <2>2. r.state \notin Settled
    BY <2>1 DEF Settled
  <2>3. Advanced(m) /\ Len(m.history[at]) > guard /\ m.history[at][guard + 1] = r
    BY <2>1, <2>2, RecordedAdvanced
  <2>4. m.history[at] \in Seq(Records)
    BY <1>2, <2>1 DEF LedgerInv, LedgerShape, Ledgers
  <2>5. QED
    BY <2>1, <2>3, <2>4 DEF HasRun
<1>4. QED
  BY <1>1, <1>3, FixedAdvanceKeeps

(* A step of the runner that does not write: it goes on within its cycle,  *)
(* and the model's call, the one that spends, is made of a cycle that has  *)
(* been started and that a recovery alone can have settled.                *)
LEMMA ReadKeeps ==
    ASSUME Inv, UNCHANGED <<ledger, mode, at, guard, expected, cancelled, broken>>,
           shielded' \in BOOLEAN, Counters', usage' \in 0..MaxUsage,
           pc' \in {"start", "overflow", "model", "settle", "unknown", "fail",
                    "commit", "clean"},
           \/ spent' = spent
           \/ pc = "model" /\ \E used \in 1..MaxUsage : spent' = [spent EXCEPT ![at] = used],
           pc' \in {"settle", "fail", "commit"} => usage' = spent'[at],
           pc' \in {"start", "model"} => pc \in {"batch", "check"},
           pc' = "model" => HasRun(ledger, at),
           mode = "fixed" => /\ pc \in {"check", "model", "settle"}
                             /\ pc' \in {"model", "settle", "fail", "commit", "clean"}
    PROVE  Inv'
<1>1. /\ LedgerInv(ledger) /\ at \in Boundaries
      /\ ledger.entries \in Nat /\ ledger.history[at] \in Seq(Records)
      /\ Charged(ledger.history[at], spent[at])
      /\ spent[at] > 0 => HasRun(ledger, at)
  BY LedgerNat
<1>2. Advances(ledger, ledger', at)
  BY <1>1, SameAdvances
<1>3. spent' \in [Boundaries -> 0..MaxUsage] /\ \A e \in Boundaries \ {at} : spent'[e] = spent[e]
  <2>1. spent \in [Boundaries -> 0..MaxUsage]
    BY DEF Inv, Vars
  <2>2. CASE spent' = spent
    BY <2>1, <2>2
  <2>3. CASE \E used \in 1..MaxUsage : spent' = [spent EXCEPT ![at] = used]
    <3>1. PICK used \in 1..MaxUsage : spent' = [spent EXCEPT ![at] = used]
      BY <2>3
    <3>2. used \in 0..MaxUsage
      OBVIOUS
    <3>3. QED
      BY <2>1, <3>1, <3>2
  <2>4. QED
    BY <2>2, <2>3
<1>4. Vars'
  <2>1. pc' \in Places
    BY DEF Places
  <2>2. QED
    BY <1>1, <1>3, <2>1 DEF Inv, Vars, Counters
<1>5. spent'[at] > 0 => HasRun(ledger', at)
  BY <1>1 DEF Inv, Usage
<1>6. Charged(ledger'.history[at], spent'[at])
  <2>1. CASE spent' = spent
    BY <1>1, <2>1
  <2>2. CASE pc = "model"
    <3>1. HasRun(ledger, at)
      BY <2>2 DEF Inv, Usage
    <3>2. ASSUME Ends(ledger.history[at]) \in Settled
          PROVE  ledger.history[at][Len(ledger.history[at])].charged = Reservation
      <4> DEFINE n == Len(ledger.history[at])
      <4>1. n \in Nat /\ n <= 4
        BY <1>1 DEF LedgerInv, LedgerShape, Shaped
      <4>2. n # 3
        BY <3>1, <3>2 DEF HasRun, Ends, Settled
      <4>3. n >= 3
        BY <3>1 DEF HasRun
      <4> HIDE DEF n
      <4>4. n = 4
        BY <4>1, <4>2, <4>3
      <4>5. QED
        BY <2>2, <4>4 DEF Inv, Usage, n
    <3>3. Min({spent'[at], Reservation}) <= Reservation
      <4>1. spent'[at] \in Nat /\ Reservation \in Nat
        BY <1>1, <1>3, BudgetAssumption
      <4>2. QED
        BY <4>1, MinOfTwo
    <3>4. Min({spent'[at], Reservation}) \in Nat /\ Reservation \in Nat
      BY <1>1, <1>3, BudgetAssumption, MinOfTwo
    <3>5. QED
      BY <3>2, <3>3, <3>4 DEF Charged
  <2>3. QED
    BY <2>1, <2>2
<1>7. pc' \in {"start", "model"} /\ Len(ledger'.history[at]) = 4
        => ledger'.history[at][4].charged = Reservation
  BY DEF Inv, Usage
<1>8. Known'
  BY DEF Inv, Known
<1>9. QED
  BY <1>2, <1>3, <1>4, <1>5, <1>6, <1>7, <1>8, StepKeeps

(* What may go wrong in a step that does not write.                        *)
LEMMA UnreadFacts == Inv /\ Unread /\ UNCHANGED <<recoveries, crashes>> => Counters'
BY BudgetAssumption DEF Inv, Vars, Counters, Unread, Fault, Cancel

(* The types the steps below need.                                         *)
LEMMA CountersHold == Inv => Counters /\ usage \in 0..MaxUsage /\ shielded \in BOOLEAN
BY DEF Inv, Vars, Counters

(* The check that nothing else has written to the run.                     *)
LEMMA FixedCheckKeeps == Inv /\ FixedCheck => Inv'
<1> SUFFICES ASSUME Inv, FixedCheck PROVE Inv'
  OBVIOUS
<1>1. /\ mode = "fixed" /\ pc = "check" /\ UNCHANGED <<recoveries, crashes>>
      /\ UNCHANGED <<ledger, mode, at, guard, expected, cancelled, broken>>
      /\ UNCHANGED <<usage, shielded, spent>>
      /\ pc' \in {"model", "clean"}
      /\ UNCHANGED <<faults, cancels>> \/ Unread
  BY DEF FixedCheck, Reads, Goto
<1>2. Counters' /\ usage' \in 0..MaxUsage /\ shielded' \in BOOLEAN
  BY <1>1, UnreadFacts, CountersHold DEF Counters
<1>3. HasRun(ledger, at)
  BY <1>1 DEF Inv, Usage
<1>4. QED
  BY <1>1, <1>2, <1>3, ReadKeeps

(* The model's call.                                                       *)
LEMMA FixedModelKeeps == Inv /\ FixedModel => Inv'
<1> SUFFICES ASSUME Inv, FixedModel PROVE Inv'
  OBVIOUS
<1>1. PICK used \in 1..MaxUsage :
        /\ spent' = [spent EXCEPT ![at] = used]
        /\ \/ pc' = "settle" /\ usage' = used
           \/ pc' = "clean" /\ usage' = usage
  BY DEF FixedModel, Goto
<1>2. /\ mode = "fixed" /\ pc = "model" /\ UNCHANGED <<recoveries, crashes>>
      /\ UNCHANGED <<ledger, mode, at, guard, expected, cancelled, broken>>
      /\ UNCHANGED <<faults, cancels, shielded>>
  BY DEF FixedModel, Reads
<1>3. Counters' /\ usage' \in 0..MaxUsage /\ shielded' \in BOOLEAN
  BY <1>1, <1>2, CountersHold, BudgetAssumption DEF Counters
<1>4. pc' = "settle" => usage' = spent'[at]
  BY <1>1, LedgerNat DEF Inv, Vars
<1>5. QED
  BY <1>1, <1>2, <1>3, <1>4, ReadKeeps

(* The answer is settled against the reservation.                          *)
LEMMA FixedSettleKeeps == Inv /\ FixedSettle => Inv'
<1> SUFFICES ASSUME Inv, FixedSettle PROVE Inv'
  OBVIOUS
<1>1. /\ mode = "fixed" /\ pc = "settle" /\ UNCHANGED <<recoveries, crashes>>
      /\ UNCHANGED <<ledger, mode, at, guard, expected, cancelled, broken>>
      /\ UNCHANGED <<usage, shielded, spent>>
      /\ pc' \in {"commit", "fail", "clean"}
      /\ UNCHANGED <<faults, cancels>> \/ Unread
  BY DEF FixedSettle, Reads, Goto
<1>2. Counters' /\ usage' \in 0..MaxUsage /\ shielded' \in BOOLEAN
  BY <1>1, UnreadFacts, CountersHold DEF Counters
<1>3. usage' = spent'[at]
  BY <1>1 DEF Inv, Usage
<1>4. QED
  BY <1>1, <1>2, <1>3, ReadKeeps

(* StepKeeps for a step that spends nothing.                               *)
LEMMA WriteKeeps ==
    ASSUME Inv, Advances(ledger, ledger', at), Charged(ledger'.history[at], spent[at]),
           UNCHANGED <<mode, spent, usage>>, Counters',
           shielded' \in BOOLEAN, cancelled' \in BOOLEAN, broken' \in BOOLEAN,
           guard' \in 0..3, expected' \in 0..ledger'.entries, pc' \in Places,
           \/ at' = at
           \/ /\ at' = at + 1 /\ at' \in Boundaries /\ at \notin Open(ledger')
              /\ pc' = "append" /\ ledger'.history[at'] = <<>>,
           at' = at /\ pc' \in {"append", "decide", "begin"} => ledger'.history[at] = <<>>,
           pc' \in {"reserve", "batch", "start", "check", "model"}
             /\ Len(ledger'.history[at]) = 4 => ledger'.history[at][4].charged = Reservation,
           pc' \in {"check", "model"} => HasRun(ledger', at),
           pc' \in {"settle", "commit", "fail", "interrupted", "conflict", "unanswered"}
             => usage = spent[at],
           Known',
           pc' = "ended" /\ ~ broken' => at \notin Open(ledger')
    PROVE  Inv'
<1>1. LedgerInv(ledger) /\ at \in Boundaries /\ (spent[at] > 0 => HasRun(ledger, at))
  BY LedgerNat
<1>2. Vars'
  BY <1>1 DEF Inv, Vars, Counters
<1>3. spent'[at] > 0 => HasRun(ledger', at)
  BY <1>1, AdvancesFacts
<1>4. at' = at \/ (at' = at + 1 /\ at \notin Open(ledger') /\ pc' = "append")
  OBVIOUS
<1>5. pc' \in {"append", "decide", "begin"} => ledger'.history[at'] = <<>>
  OBVIOUS
<1>6. pc' \in {"settle", "commit", "fail", "interrupted", "conflict", "unanswered"}
        => usage' = spent'[at]
  OBVIOUS
<1>7. /\ Charged(ledger'.history[at], spent'[at])
      /\ \A e \in Boundaries \ {at} : spent'[e] = spent[e]
  OBVIOUS
<1>8. QED
  BY <1>2, <1>3, <1>4, <1>5, <1>6, <1>7, StepKeeps

(* A cycle that is open has one to three revisions, each in its state.     *)
LEMMA OpenShape ==
    ASSUME NEW h \in Seq(Records), Shaped(h), Ends(h) \in Unsettled
    PROVE  /\ Len(h) \in 1..3 /\ h[Len(h)] \in Records /\ h[Len(h)].state \in Unsettled
           /\ Len(h) = 1 => h[Len(h)].state = "pending" /\ h[Len(h)].held = 0
           /\ Len(h) = 2 => h[Len(h)].state = "reserved" /\ h[Len(h)].held = Reservation
           /\ Len(h) = 3 => h[Len(h)].state = "running" /\ h[Len(h)].held = Reservation
<1>1. h # <<>> /\ h[Len(h)].state \in Unsettled
  BY DEF Ends, Unsettled
<1>2. Len(h) \in Nat /\ Len(h) <= 4 /\ Len(h) # 0
  BY <1>1 DEF Shaped
<1> DEFINE n == Len(h)
<1>3. /\ n = 1 => h[n].state = "pending" /\ h[n].held = 0
      /\ n = 2 => \/ h[n].state = "reserved" /\ h[n].held = Reservation
                  \/ h[n].state = "failed" /\ h[n].held = 0
      /\ n = 3 => h[n].state \in {"running", "failed"} /\ h[n].held = Reservation
      /\ n = 4 => h[n].state \in Settled
  <2>1. n \in 1..Len(h)
    BY <1>2
  <2> HIDE DEF n
  <2>2. QED
    BY <2>1 DEF Shaped
<1>4. h[n] \in Records
  BY <1>2
<1> HIDE DEF n
<1>5. h[n].state \in Unsettled /\ n \in Nat /\ n <= 4 /\ n # 0
  BY <1>1, <1>2 DEF n
<1>6. n # 4
  BY <1>3, <1>5 DEF Settled, Unsettled
<1>7. /\ n \in 1..3
      /\ n = 2 => h[n].state = "reserved" /\ h[n].held = Reservation
      /\ n = 3 => h[n].state = "running" /\ h[n].held = Reservation
  BY <1>3, <1>5, <1>6 DEF Unsettled
<1>8. QED
  BY <1>3, <1>4, <1>5, <1>7 DEF n

(* The cleanup knows how to fail an open cycle of the guard's revision.    *)
LEMMA CleanupApplies ==
    ASSUME Inv, at \in Open(ledger)
    PROVE  /\ Len(ledger.history[at]) \in 1..3
           /\ Cleanup(Len(ledger.history[at])) # {}
<1> DEFINE h == ledger.history[at]
           n == Len(h)
           b == h[n]
<1>1. h \in Seq(Records) /\ Shaped(h) /\ Ends(h) \in Unsettled
  BY LedgerNat, StateIsEnds DEF LedgerInv, LedgerShape, Open
<1>2. /\ n \in 1..3 /\ b \in Records /\ b.state \in Unsettled
      /\ n = 1 => b.state = "pending" /\ b.held = 0
      /\ n = 2 => b.state = "reserved" /\ b.held = Reservation
      /\ n = 3 => b.state = "running" /\ b.held = Reservation
  <2> HIDE DEF h
  <2>1. QED
    BY <1>1, OpenShape
<1>3. b \in Base(ledger, at, n, Unsettled)
  <2>1. b = ledger.history[at][n] /\ Len(ledger.history[at]) = n
    OBVIOUS
  <2> HIDE DEF b, n, h
  <2>2. n \in 1..Len(ledger.history[at]) /\ ledger.history[at][n].state \in Unsettled
    BY <1>2, <2>1
  <2>3. QED
    BY <2>1, <2>2 DEF Base
<1>4. ASSUME NEW charge, NEW cause, Chargeable(b, charge, cause)
      PROVE  Failed(ledger, at, n, charge, cause) # {}
  <2> DEFINE r == Cycle("failed", b.held, charge, cause)
  <2>1. n + 1 > Len(h)
    BY <1>2
  <2>2. Add(ledger, at, r) \in Record(ledger, at, n + 1, r)
    BY <2>1 DEF Record
  <2> HIDE DEF r
  <2>3. Add(ledger, at, r) \in Failed(ledger, at, n, charge, cause)
    BY <1>3, <1>4, <2>2 DEF Failed, r
  <2>4. QED
    BY <2>3
<1> HIDE DEF b, n, h
<1>5. CASE n = 3
  <2>1. Chargeable(b, Reservation, "unknown")
    BY <1>2, <1>5, BudgetAssumption DEF Chargeable
  <2>2. QED
    BY <1>2, <1>4, <1>5, <2>1 DEF Cleanup, n, h
<1>6. CASE n # 3
  <2>1. Chargeable(b, 0, "known")
    BY <1>2, <1>6, BudgetAssumption DEF Chargeable
  <2>2. QED
    BY <1>2, <1>4, <1>6, <2>1 DEF Cleanup, n, h
<1>7. QED
  BY <1>5, <1>6

(* A cleanup settles the cycle.                                            *)
LEMMA CleanupStep ==
    ASSUME Inv, NEW n, NEW m \in Cleanup(n)
    PROVE  /\ Advances(ledger, m, at) /\ at \notin Open(m)
           /\ Charged(m.history[at], spent[at])
<1>1. CASE n = 3
  BY <1>1, FailStep, BudgetAssumption DEF Cleanup
<1>2. CASE n # 3
  BY <1>2, FailStep DEF Cleanup
<1>3. QED
  BY <1>1, <1>2

(* The cycle fails with what its answer says was used.                     *)
LEMMA FixedFailKeeps == Inv /\ FixedFail => Inv'
<1> SUFFICES ASSUME Inv, FixedFail PROVE Inv'
  OBVIOUS
<1>1. PICK answered \in BOOLEAN, cut \in BOOLEAN :
        /\ Boundary("fail", Failed(ledger, at, guard, usage, "known"), answered, cut)
        /\ IF answered THEN BoundaryDone(cut) ELSE Goto("clean") /\ UNCHANGED at
        /\ UNCHANGED <<guard, expected, usage, cancelled, broken>>
  BY DEF FixedFail
<1>2. /\ mode = "fixed" /\ pc = "fail" /\ mode' = mode
      /\ shielded' = shielded /\ spent' = spent /\ Counters'
      /\ ledger' = ledger \/ ledger' \in Failed(ledger, at, guard, usage, "known")
      /\ answered => ledger' \in Failed(ledger, at, guard, usage, "known")
  BY <1>1, BoundaryFacts
<1>3. /\ LedgerInv(ledger) /\ at \in Boundaries /\ ledger.entries \in Nat
      /\ Charged(ledger.history[at], spent[at])
      /\ usage = spent[at] /\ usage \in Nat
  BY <1>2, LedgerNat, BudgetAssumption DEF Inv, Usage, Vars
<1>4. ASSUME NEW m \in Failed(ledger, at, guard, usage, "known")
      PROVE  /\ Advances(ledger, m, at) /\ at \notin Open(m)
             /\ Charged(m.history[at], spent[at])
  BY <1>3, FailStep
<1>5. Advances(ledger, ledger', at) /\ Charged(ledger'.history[at], spent[at])
  BY <1>2, <1>3, <1>4, SameAdvances
<1>6. at \in Open(ledger') => ledger' = ledger /\ ~ answered
  BY <1>2, <1>4
<1>7. \/ ~ answered /\ at' = at /\ pc' = "clean"
      \/ /\ answered /\ at' \in Boundaries
         /\ \/ at' = at /\ pc' = "ended"
            \/ at' = at + 1 /\ pc' = "append" /\ ledger'.history[at'] = <<>>
  BY <1>1, <1>5, Leaving DEF BoundaryDone, Goto
<1>8. /\ shielded' \in BOOLEAN /\ cancelled' \in BOOLEAN /\ broken' \in BOOLEAN
      /\ guard' \in 0..3 /\ expected' \in 0..ledger'.entries /\ pc' \in Places
  <2>1. ledger'.entries \in Nat /\ ledger'.entries >= ledger.entries
    BY <1>5, AdvancesEntries
  <2>2. QED
    BY <1>1, <1>2, <1>3, <1>7, <2>1 DEF Inv, Vars, Places
<1>9. Known'
  BY <1>1, <1>2, <1>6, <1>7 DEF Inv, Known
<1>10. QED
  BY <1>1, <1>2, <1>5, <1>6, <1>7, <1>8, <1>9, WriteKeeps

(* The cycle is committed, or what became of it is looked up next.         *)
LEMMA FixedCommitKeeps == Inv /\ FixedCommit => Inv'
<1> SUFFICES ASSUME Inv, FixedCommit PROVE Inv'
  OBVIOUS
<1>1. PICK answered \in BOOLEAN, cut \in BOOLEAN :
        /\ Boundary("commit", Committed(ledger, at, guard, usage), answered, cut)
        /\ \/ answered /\ Goto(IF cut THEN "ended" ELSE "outcome")
           \/ ~ answered /\ cut /\ Goto("interrupted")
           \/ ~ answered /\ ~ cut /\ (Goto("conflict") \/ Goto("unanswered"))
        /\ UNCHANGED <<at, guard, expected, usage, cancelled, broken>>
  BY DEF FixedCommit
<1>2. /\ mode = "fixed" /\ pc = "commit" /\ mode' = mode
      /\ shielded' = shielded /\ spent' = spent /\ Counters'
      /\ ledger' = ledger \/ ledger' \in Committed(ledger, at, guard, usage)
      /\ answered => ledger' \in Committed(ledger, at, guard, usage)
  BY <1>1, BoundaryFacts
<1>3. /\ LedgerInv(ledger) /\ at \in Boundaries /\ ledger.entries \in Nat
      /\ Charged(ledger.history[at], spent[at])
      /\ usage = spent[at]
  BY <1>2, LedgerNat DEF Inv, Usage
<1>4. ASSUME NEW m \in Committed(ledger, at, guard, usage)
      PROVE  /\ Advances(ledger, m, at) /\ at \notin Open(m)
             /\ Charged(m.history[at], spent[at]) /\ State(m, at) = "committed"
  BY <1>3, CommitStep
<1>5. Advances(ledger, ledger', at) /\ Charged(ledger'.history[at], spent[at])
  BY <1>2, <1>3, <1>4, SameAdvances
<1>6. at \in Open(ledger') => ledger' = ledger
  BY <1>2, <1>4
<1>7. \/ pc' \in {"ended", "outcome"} /\ at \notin Open(ledger')
      \/ pc' \in {"interrupted", "conflict", "unanswered"}
  <2>1. answered => at \notin Open(ledger')
    BY <1>2, <1>4
  <2>2. QED
    BY <1>1, <2>1 DEF Goto
<1>8. /\ shielded' \in BOOLEAN /\ cancelled' \in BOOLEAN /\ broken' \in BOOLEAN
      /\ guard' \in 0..3 /\ expected' \in 0..ledger'.entries /\ pc' \in Places
  <2>1. ledger'.entries \in Nat /\ ledger'.entries >= ledger.entries
    BY <1>5, AdvancesEntries
  <2>2. QED
    BY <1>1, <1>2, <1>3, <1>7, <2>1 DEF Inv, Vars, Places, Raised
<1>9. Known'
  BY <1>1, <1>2, <1>6, <1>7 DEF Inv, Known
<1>10. QED
  BY <1>1, <1>2, <1>3, <1>5, <1>6, <1>7, <1>8, <1>9, WriteKeeps

(* The look-up of a commit that raised: it writes nothing, and the runner  *)
(* ends with the cycle open only if the look-up itself did not finish.     *)
LEMMA FixedReconcileKeeps == Inv /\ FixedReconcile => Inv'
<1> SUFFICES ASSUME Inv, FixedReconcile PROVE Inv'
  OBVIOUS
<1>1. PICK cause \in Raised :
        /\ mode = "fixed" /\ Reads(cause)
        /\ \/ Reconciled(cause) \/ Unreconciled(cause)
           \/ cause = "conflict" /\ State(ledger, at) = "running"
              /\ Unread /\ Goto("clean") /\ UNCHANGED broken
        /\ UNCHANGED <<usage, shielded, spent>>
  BY DEF FixedReconcile
<1>2. /\ pc \in {"interrupted", "conflict", "unanswered"}
      /\ UNCHANGED <<ledger, mode, at, guard, expected, cancelled, usage, shielded,
                     spent, recoveries, crashes>>
  BY <1>1 DEF Reads, Raised
<1>3. /\ LedgerInv(ledger) /\ at \in Boundaries /\ ledger.entries \in Nat
      /\ Charged(ledger.history[at], spent[at]) /\ usage = spent[at]
  BY <1>2, LedgerNat DEF Inv, Usage
<1>4. Advances(ledger, ledger', at) /\ Charged(ledger'.history[at], spent[at])
  BY <1>2, <1>3, SameAdvances
<1>5. Counters'
  <2>1. Counters /\ {MaxFaults, MaxCancels} \subseteq Nat
    BY CountersHold, BudgetAssumption
  <2>2. \/ UNCHANGED <<faults, cancels>>
        \/ Fault /\ UNCHANGED cancels
        \/ Cancel(TRUE) /\ UNCHANGED faults
    BY <1>1 DEF Reconciled, Unreconciled, Unread
  <2>3. QED
    BY <1>2, <2>1, <2>2 DEF Counters, Fault, Cancel
<1>6. /\ broken' \in BOOLEAN
      /\ \/ pc' \in {"clean", "fail"} /\ broken' = broken
         \/ pc' \in {"ended", "outcome"} /\ at \notin Open(ledger) /\ broken' = broken
         \/ pc' = "ended" /\ broken'
  <2>1. CASE Reconciled(cause)
    <3>1. State(ledger, at) \in {"committed", "failed"} => at \notin Open(ledger)
      BY DEF Open, Unsettled
    <3>2. QED
      BY <2>1, <3>1 DEF Reconciled, Goto, Inv, Vars
  <2>2. CASE Unreconciled(cause)
    BY <2>2 DEF Unreconciled, Goto, Inv, Vars
  <2>3. QED
    BY <1>1, <2>1, <2>2 DEF Goto, Inv, Vars
<1>7. /\ shielded' \in BOOLEAN /\ cancelled' \in BOOLEAN
      /\ guard' \in 0..3 /\ expected' \in 0..ledger'.entries /\ pc' \in Places
  BY <1>2, <1>6 DEF Inv, Vars, Places
<1>8. Known'
  BY <1>1, <1>2, <1>6 DEF Inv, Known
<1>9. pc' = "ended" /\ ~ broken' => at \notin Open(ledger')
  BY <1>2, <1>6
<1>10. QED
  BY <1>2, <1>3, <1>4, <1>5, <1>6, <1>7, <1>8, <1>9, WriteKeeps

(* The outcome of a committed cycle is recorded.                           *)
LEMMA FixedOutcomeKeeps == Inv /\ FixedOutcome => Inv'
<1> SUFFICES ASSUME Inv, FixedOutcome PROVE Inv'
  OBVIOUS
<1>1. PICK answered \in BOOLEAN, cut \in BOOLEAN :
        /\ Boundary("outcome", Outcome(ledger), answered, cut)
        /\ \/ ledger' # ledger /\ BoundaryDone(cut)
           \/ ~ answered /\ Leave
        /\ UNCHANGED <<guard, expected, usage, cancelled, broken>>
  BY DEF FixedOutcome
<1>2. /\ mode = "fixed" /\ pc = "outcome" /\ mode' = mode
      /\ shielded' = shielded /\ spent' = spent /\ Counters'
      /\ ledger' = ledger \/ ledger' \in Outcome(ledger)
  BY <1>1, BoundaryFacts
<1>3. /\ LedgerInv(ledger) /\ at \in Boundaries /\ ledger.entries \in Nat
      /\ Charged(ledger.history[at], spent[at]) /\ at \notin Open(ledger)
  BY <1>2, LedgerNat DEF Inv, Known
<1>4. LedgerInv(ledger') /\ ledger'.history = ledger.history /\ ledger'.entries >= ledger.entries
  BY <1>2, <1>3, OutcomeKeeps
<1>5. Advances(ledger, ledger', at)
  BY <1>3, <1>4, SameAdvances
<1>6. at \notin Open(ledger')
  BY <1>3, <1>4, StateIsEnds DEF Open
<1>7. /\ at' \in Boundaries
      /\ \/ at' = at /\ pc' = "ended"
         \/ at' = at + 1 /\ pc' = "append" /\ ledger'.history[at'] = <<>>
  BY <1>1, <1>5, Leaving DEF BoundaryDone
<1>8. /\ shielded' \in BOOLEAN /\ cancelled' \in BOOLEAN /\ broken' \in BOOLEAN
      /\ guard' \in 0..3 /\ expected' \in 0..ledger'.entries /\ pc' \in Places
  <2>1. ledger'.entries \in Nat /\ ledger'.entries >= ledger.entries
    BY <1>5, AdvancesEntries
  <2>2. QED
    BY <1>1, <1>2, <1>3, <1>7, <2>1 DEF Inv, Vars, Places
<1>9. Known'
  BY <1>1, <1>2, <1>7 DEF Known
<1>10. QED
  BY <1>1, <1>2, <1>3, <1>4, <1>5, <1>6, <1>7, <1>8, <1>9, WriteKeeps

(* The cleanup, which only a fault or a lost answer keeps from settling.   *)
LEMMA FixedCleanKeeps == Inv /\ FixedClean => Inv'
<1> SUFFICES ASSUME Inv, FixedClean PROVE Inv'
  OBVIOUS
<1>1. /\ LedgerInv(ledger) /\ at \in Boundaries /\ ledger.entries \in Nat
      /\ Charged(ledger.history[at], spent[at])
      /\ mode = "fixed" /\ pc = "clean" /\ pc' = "ended" /\ usage' = usage
  BY LedgerNat DEF FixedClean, Boundary, Reads, Goto
<1>2. ~ broken /\ at \in Open(ledger) => guard \in 1..3 /\ Cleanup(guard) # {}
  BY <1>1, CleanupApplies DEF Inv, Known
<1>3. /\ Advances(ledger, ledger', at) /\ Charged(ledger'.history[at], spent[at])
      /\ Counters' /\ broken' \in BOOLEAN
      /\ UNCHANGED <<mode, at, guard, expected, cancelled, shielded, spent>>
      /\ ~ broken' => at \notin Open(ledger')
  <2>1. CASE guard = 0
    <3>1. /\ UNCHANGED <<ledger, mode, at, guard, expected, cancelled, recoveries,
                         crashes, faults, cancels, shielded, spent, broken>>
      BY <2>1 DEF FixedClean, Reads
    <3>2. Advances(ledger, ledger', at)
      BY <1>1, <3>1, SameAdvances
    <3>3. ~ broken => at \notin Open(ledger)
      BY <1>2, <2>1
    <3>4. Open(ledger') = Open(ledger)
      BY <3>1
    <3>5. QED
      BY <1>1, <3>1, <3>2, <3>3, <3>4, CountersHold DEF Counters, Inv, Vars
  <2>2. CASE guard # 0
    <3>1. PICK answered \in BOOLEAN :
            /\ Boundary("clean", Cleanup(guard), answered, FALSE)
            /\ broken' = (broken \/ faults' # faults)
            /\ UNCHANGED <<at, guard, expected, cancelled>>
      BY <2>2 DEF FixedClean
    <3>2. /\ mode' = mode /\ shielded' = shielded /\ spent' = spent /\ Counters'
          /\ ledger' = ledger \/ ledger' \in Cleanup(guard)
          /\ answered => ledger' \in Cleanup(guard)
          /\ ~ answered /\ faults' = faults => Cleanup(guard) = {} /\ ledger' = ledger
      BY <3>1, BoundaryFacts
    <3>3. Advances(ledger, ledger', at) /\ Charged(ledger'.history[at], spent[at])
      BY <1>1, <3>2, SameAdvances, CleanupStep
    <3>4. broken' \in BOOLEAN
      BY <3>1 DEF Inv, Vars
    <3>5. ~ broken' => at \notin Open(ledger')
      BY <1>2, <3>1, <3>2, CleanupStep
    <3>6. QED
      BY <3>1, <3>2, <3>3, <3>4, <3>5
  <2>3. QED
    BY <2>1, <2>2
<1>4. /\ shielded' \in BOOLEAN /\ cancelled' \in BOOLEAN
      /\ guard' \in 0..3 /\ expected' \in 0..ledger'.entries /\ pc' \in Places
  <2>1. ledger'.entries \in Nat /\ ledger'.entries >= ledger.entries
    BY <1>3, AdvancesEntries
  <2>2. QED
    BY <1>1, <1>3, <2>1 DEF Inv, Vars, Places
<1>5. Known'
  BY <1>1 DEF Known
<1>6. QED
  BY <1>1, <1>3, <1>4, <1>5, WriteKeeps

(* ----------------------------- ReplayEngine ---------------------------- *)

(* What awaiting an operation may leave.                                   *)
LEMMA AwaitFacts ==
    ASSUME Inv, NEW op, NEW answered \in BOOLEAN, Await(op, answered)
    PROVE  /\ faults' \in 0..MaxFaults
           /\ ledger' = ledger \/ ledger' \in op
           /\ answered => ledger' \in op
           /\ ~ answered /\ faults' = faults => op = {} /\ ledger' = ledger
<1>1. faults \in 0..MaxFaults /\ MaxFaults \in Nat
  BY BudgetAssumption DEF Inv, Vars
<1>2. QED
  BY <1>1 DEF Await, Fault

(* An operation of the engine keeps the invariant if the ledgers it may    *)
(* leave have what the place it goes on to relies on.                      *)
LEMMA ReplayWriteKeeps ==
    ASSUME Inv, NEW place, NEW op, NEW next, NEW raised,
           ReplayWrite(place, op, next, raised),
           \A m \in op : Advances(ledger, m, at) /\ Charged(m.history[at], spent[at]),
           next \in {"done", "decide", "begin", "reserve", "batch", "model",
                     "outcome", "clean"},
           next \in {"done", "outcome"} => \A m \in op : at \notin Open(m),
           next \in {"decide", "begin"} => \A m \in op : m.history[at] = <<>>,
           next \in {"reserve", "batch", "model"} =>
             \A m \in op : Len(m.history[at]) = 4 => m.history[at][4].charged = Reservation,
           next = "model" => \A m \in op : HasRun(m, at),
           raised \in {"clean", "fail"},
           raised = "fail" => usage = spent[at]
    PROVE  Inv'
<1>1. /\ mode = "replay" /\ pc = place
      /\ UNCHANGED <<mode, guard, usage, cancelled, spent, broken, recoveries, crashes>>
  BY DEF ReplayWrite
<1>2. /\ LedgerInv(ledger) /\ at \in Boundaries /\ ledger.entries \in Nat
      /\ Charged(ledger.history[at], spent[at])
  BY LedgerNat
<1>3. /\ Counters' /\ shielded' \in BOOLEAN
      /\ ledger' = ledger \/ ledger' \in op
      /\ \/ ledger' \in op /\ Owned /\ Proceed(next) /\ expected' = expected + 1
         \/ Goto(raised) /\ UNCHANGED <<at, expected>>
         \/ Goto("clean") /\ UNCHANGED <<at, expected>>
  <2>1. CASE \E answered \in BOOLEAN :
               /\ Await(op, answered) /\ UNCHANGED <<cancels, shielded>>
               /\ IF answered /\ Owned
                  THEN Proceed(next) /\ expected' = expected + 1
                  ELSE Goto(raised) /\ UNCHANGED <<at, expected>>
    <3>1. PICK answered \in BOOLEAN :
               /\ Await(op, answered) /\ UNCHANGED <<cancels, shielded>>
               /\ IF answered /\ Owned
                  THEN Proceed(next) /\ expected' = expected + 1
                  ELSE Goto(raised) /\ UNCHANGED <<at, expected>>
      BY <2>1
    <3>2. /\ faults' \in 0..MaxFaults
          /\ ledger' = ledger \/ ledger' \in op
          /\ answered => ledger' \in op
      BY <3>1, AwaitFacts
    <3>3. Counters' /\ shielded' \in BOOLEAN
      BY <1>1, <3>1, <3>2, CountersHold DEF Counters
    <3>4. QED
      BY <3>1, <3>2, <3>3
  <2>2. CASE /\ Cancel(TRUE) /\ ledger' \in op \cup {ledger} /\ UNCHANGED faults
             /\ Goto("clean") /\ shielded' = TRUE /\ UNCHANGED <<at, expected>>
    <3>1. Counters'
      BY <1>1, <2>2, CountersHold, BudgetAssumption DEF Counters, Cancel
    <3>2. QED
      BY <2>2, <3>1
  <2>3. QED
    BY <2>1, <2>2 DEF ReplayWrite
<1>4. Advances(ledger, ledger', at) /\ Charged(ledger'.history[at], spent[at])
  BY <1>2, <1>3, SameAdvances
<1>5. \/ /\ ledger' \in op /\ at' = at /\ pc' = next
         /\ next # "done" /\ expected' = ledger'.entries
      \/ /\ at' \in Boundaries /\ at \notin Open(ledger') /\ expected' = ledger'.entries
         /\ \/ at' = at /\ pc' = "ended"
            \/ at' = at + 1 /\ pc' = "append" /\ ledger'.history[at'] = <<>>
      \/ at' = at /\ expected' = expected /\ pc' = "clean"
      \/ at' = at /\ expected' = expected /\ pc' = "fail" /\ usage = spent[at]
  <2>1. CASE ledger' \in op /\ Owned /\ Proceed(next) /\ expected' = expected + 1
    <3>1. expected' = ledger'.entries
      BY <2>1 DEF Owned
    <3>2. CASE next = "done"
      <4>1. at \notin Open(ledger') /\ NextBoundary
        BY <2>1, <3>2 DEF Proceed
      <4>2. QED
        BY <1>4, <3>1, <4>1, Leaving
    <3>3. CASE next # "done"
      BY <2>1, <3>1, <3>3 DEF Proceed, Goto
    <3>4. QED
      BY <3>2, <3>3
  <2>2. CASE Goto(raised) /\ UNCHANGED <<at, expected>>
    BY <2>2 DEF Goto
  <2>3. CASE Goto("clean") /\ UNCHANGED <<at, expected>>
    BY <2>3 DEF Goto
  <2>4. QED
    BY <1>3, <2>1, <2>2, <2>3
<1>6. /\ cancelled' \in BOOLEAN /\ broken' \in BOOLEAN
      /\ guard' \in 0..3 /\ expected' \in 0..ledger'.entries /\ pc' \in Places
  <2>1. ledger'.entries \in Nat /\ ledger'.entries >= ledger.entries
    BY <1>4, AdvancesEntries
  <2>2. cancelled' \in BOOLEAN /\ broken' \in BOOLEAN /\ guard' \in 0..3
    BY <1>1 DEF Inv, Vars
  <2>3. expected \in 0..ledger.entries
    BY DEF Inv, Vars
  <2>4. expected' \in 0..ledger'.entries
    BY <1>2, <1>5, <2>1, <2>3
  <2>5. pc' \in Places
    BY <1>5 DEF Places
  <2>6. QED
    BY <2>2, <2>4, <2>5
<1>7. Known'
  BY <1>1, <1>5 DEF Known
<1>8. /\ pc' = "ended" /\ ~ broken' => at \notin Open(ledger')
      /\ at' = at /\ pc' \in {"append", "decide", "begin"} => ledger'.history[at] = <<>>
      /\ pc' \in {"reserve", "batch", "start", "check", "model"}
           /\ Len(ledger'.history[at]) = 4 => ledger'.history[at][4].charged = Reservation
      /\ pc' \in {"check", "model"} => HasRun(ledger', at)
      /\ pc' \in {"settle", "commit", "fail", "interrupted", "conflict", "unanswered"}
           => usage = spent[at]
  BY <1>2, <1>5 DEF Boundaries
<1>9. \/ at' = at
      \/ /\ at' = at + 1 /\ at' \in Boundaries /\ at \notin Open(ledger')
         /\ pc' = "append" /\ ledger'.history[at'] = <<>>
  BY <1>5
<1>10. QED
  BY <1>1, <1>3, <1>4, <1>6, <1>7, <1>8, <1>9, WriteKeeps

(* An operation that leaves the histories alone, as the steps use it.      *)
LEMMA SameStep ==
    ASSUME Inv, NEW m, LedgerInv(m), m.history = ledger.history,
           m.entries = ledger.entries + 1
    PROVE  /\ Advances(ledger, m, at) /\ Charged(m.history[at], spent[at])
           /\ at \in Open(m) <=> at \in Open(ledger)
BY LedgerNat, SameAdvances, StateIsEnds DEF Open

(* The events that are appended, and the decisions on them.                *)
LEMMA ReplayAppendKeeps == Inv /\ ReplayAppend => Inv'
<1> SUFFICES ASSUME Inv, ReplayAppend PROVE Inv'
  OBVIOUS
<1>1. ReplayWrite("append", Appended(ledger, at), "decide", "clean")
  BY DEF ReplayAppend
<1>2. ledger.history[at] = <<>>
  BY <1>1 DEF ReplayWrite, Inv, Frontier
<1>3. ASSUME NEW m \in Appended(ledger, at)
      PROVE  /\ Advances(ledger, m, at) /\ Charged(m.history[at], spent[at])
             /\ m.history[at] = <<>>
  BY <1>2, LedgerNat, AppendedKeeps, SameStep
<1>4. QED
  BY <1>1, <1>3, ReplayWriteKeeps

(* The decision of the policy.                                             *)
LEMMA ReplayDecideKeeps == Inv /\ ReplayDecide => Inv'
<1> SUFFICES ASSUME Inv, ReplayDecide PROVE Inv'
  OBVIOUS
<1>1. PICK invoke \in BOOLEAN, next \in {"done", "begin", "clean"} :
        ReplayWrite("decide", Decided(ledger, at, invoke), next, "clean")
  <2>1. PICK invoke \in BOOLEAN :
          ReplayWrite("decide", Decided(ledger, at, invoke),
            CASE ~ invoke -> "done"
              [] invoke /\ Reservation <= Available(ledger) -> "begin"
              [] OTHER -> "clean",
            "clean")
    BY DEF ReplayDecide
  <2> DEFINE next == CASE ~ invoke -> "done"
                       [] invoke /\ Reservation <= Available(ledger) -> "begin"
                       [] OTHER -> "clean"
  <2>2. next \in {"done", "begin", "clean"}
    OBVIOUS
  <2>3. ReplayWrite("decide", Decided(ledger, at, invoke), next, "clean")
    BY <2>1
  <2> HIDE DEF next
  <2>4. QED
    BY <2>2, <2>3
<1>2. ledger.history[at] = <<>>
  BY <1>1 DEF ReplayWrite, Inv, Frontier
<1>3. at \notin Open(ledger)
  BY <1>2 DEF Open, State, Unsettled
<1>4. ASSUME NEW m \in Decided(ledger, at, invoke)
      PROVE  /\ Advances(ledger, m, at) /\ Charged(m.history[at], spent[at])
             /\ m.history[at] = <<>> /\ at \notin Open(m)
  BY <1>2, <1>3, LedgerNat, DecidedKeeps, SameStep
<1>5. QED
  BY <1>1, <1>4, ReplayWriteKeeps

(* A cycle begins, holds budget and starts.                                *)
LEMMA ReplayBeginKeeps == Inv /\ ReplayBegin => Inv'
<1> SUFFICES ASSUME Inv, ReplayBegin PROVE Inv'
  OBVIOUS
<1>1. ReplayWrite("begin", Begun(ledger, at), "reserve", "clean")
  BY DEF ReplayBegin
<1>2. /\ LedgerInv(ledger) /\ at \in Boundaries /\ ledger.entries \in Nat
      /\ LedgerShape(ledger)
  BY LedgerNat DEF LedgerInv
<1>3. ledger.history[at] = <<>>
  BY <1>1 DEF ReplayWrite, Inv, Frontier
<1>4. ASSUME NEW m \in Begun(ledger, at)
      PROVE  /\ Advances(ledger, m, at) /\ Charged(m.history[at], spent[at])
             /\ Len(m.history[at]) = 1
  <2>1. PICK r \in Records : /\ LedgerInv(m) /\ m.entries = ledger.entries + 1
                             /\ r.state = "pending" /\ Grows(ledger, m, at, r)
    BY <1>2, <1>3, BegunKeeps
  <2>2. LedgerShape(m)
    BY <2>1 DEF LedgerInv
  <2>3. /\ \A f \in Boundaries \ {at} : m.history[f] = ledger.history[f]
        /\ Len(m.history[at]) = Len(ledger.history[at]) + 1
        /\ \A i \in 1..Len(ledger.history[at]) : m.history[at][i] = ledger.history[at][i]
        /\ State(m, at) = r.state
    BY <1>2, <2>1, <2>2, GrownHistory
  <2>4. Len(ledger.history[at]) = 0 /\ Len(m.history[at]) = 1
    BY <1>3, <2>3
  <2>5. Ends(m.history[at]) \notin Settled
    BY <2>1, <2>3, StateIsEnds DEF Settled
  <2>6. Advances(ledger, m, at)
    BY <1>2, <2>1, <2>3, <2>4 DEF Advances
  <2>7. QED
    BY <2>4, <2>5, <2>6 DEF Charged
<1>5. QED
  BY <1>1, <1>4, ReplayWriteKeeps

(* A command on a revision the engine knows of, before the model's call.   *)
LEMMA RecordedStep ==
    ASSUME Inv, pc \in {"reserve", "batch", "start"}, NEW n \in {1, 2},
           NEW m, LedgerInv(m), NEW r \in Records,
           Recorded(ledger, m, at, n, r), r.state \notin Settled
    PROVE  /\ Advances(ledger, m, at) /\ Charged(m.history[at], spent[at])
           /\ Len(m.history[at]) = 4 => m.history[at][4].charged = Reservation
           /\ Len(m.history[at]) > n /\ m.history[at][n + 1] = r
<1>1. LedgerInv(ledger) /\ at \in Boundaries /\ Charged(ledger.history[at], spent[at])
  BY LedgerNat
<1>2. /\ Advances(ledger, m, at)
      /\ Len(m.history[at]) > n /\ m.history[at][n + 1] = r
      /\ \/ m = ledger /\ n < Len(ledger.history[at])
         \/ /\ Len(m.history[at]) = n + 1 /\ Len(ledger.history[at]) = n
            /\ Ends(m.history[at]) = r.state
  BY <1>1, RecordedAdvances
<1>3. CASE m = ledger
  BY <1>1, <1>2, <1>3 DEF Inv, Usage
<1>4. CASE Len(m.history[at]) = n + 1 /\ Ends(m.history[at]) = r.state
  BY <1>2, <1>4 DEF Charged
<1>5. QED
  BY <1>2, <1>3, <1>4

(* Budget is held for the cycle.                                           *)
LEMMA ReplayReserveKeeps == Inv /\ ReplayReserve => Inv'
<1> SUFFICES ASSUME Inv, ReplayReserve PROVE Inv'
  OBVIOUS
<1>1. ReplayWrite("reserve", Held(ledger, at, 1), "batch", "clean")
  BY DEF ReplayReserve
<1>2. LedgerInv(ledger) /\ at \in Boundaries /\ pc = "reserve"
  BY <1>1, LedgerNat DEF ReplayWrite
<1>3. ASSUME NEW m \in Held(ledger, at, 1)
      PROVE  /\ Advances(ledger, m, at) /\ Charged(m.history[at], spent[at])
             /\ Len(m.history[at]) = 4 => m.history[at][4].charged = Reservation
  <2>1. PICK r : /\ r = Cycle("reserved", Reservation, 0, "none")
                 /\ LedgerInv(m) /\ Recorded(ledger, m, at, 1, r)
    BY <1>2, HeldKeeps
  <2>2. r \in Records /\ r.state \notin Settled
    BY <2>1, BudgetAssumption DEF Cycle, Records, Unsettled, Settled
  <2>3. QED
    BY <1>2, <2>1, <2>2, RecordedStep
<1>4. QED
  BY <1>1, <1>3, ReplayWriteKeeps

(* The cycle is started: from here on its model may be called.             *)
LEMMA ReplayStartKeeps == Inv /\ ReplayStart => Inv'
<1> SUFFICES ASSUME Inv, ReplayStart PROVE Inv'
  OBVIOUS
<1>1. ReplayWrite("start", Started(ledger, at, 2), "model", "clean")
  BY DEF ReplayStart
<1>2. LedgerInv(ledger) /\ at \in Boundaries /\ pc = "start"
  BY <1>1, LedgerNat DEF ReplayWrite
<1>3. ASSUME NEW m \in Started(ledger, at, 2)
      PROVE  /\ Advances(ledger, m, at) /\ Charged(m.history[at], spent[at])
             /\ Len(m.history[at]) = 4 => m.history[at][4].charged = Reservation
             /\ HasRun(m, at)
  <2>1. PICK r \in Records : /\ LedgerInv(m) /\ r.state = "running"
                             /\ Recorded(ledger, m, at, 2, r)
    BY <1>2, StartedKeeps
  <2>2. r.state \notin Settled
    BY <2>1 DEF Settled
  <2>3. /\ Advances(ledger, m, at) /\ Charged(m.history[at], spent[at])
        /\ Len(m.history[at]) = 4 => m.history[at][4].charged = Reservation
        /\ Len(m.history[at]) > 2 /\ m.history[at][3] = r
    BY <1>2, <2>1, <2>2, RecordedStep
  <2>4. m.history[at] \in Seq(Records)
    BY <1>2, <2>1 DEF LedgerInv, LedgerShape, Ledgers
  <2>5. HasRun(m, at)
    BY <2>1, <2>3, <2>4 DEF HasRun
  <2>6. QED
    BY <2>3, <2>5
<1>4. QED
  BY <1>1, <1>3, ReplayWriteKeeps

(* A cycle fails: with nothing used before it is started, with a cost      *)
(* that is unknown, or with what its answer says.                          *)
LEMMA ReplayOverflowKeeps == Inv /\ ReplayOverflow => Inv'
<1> SUFFICES ASSUME Inv, ReplayOverflow PROVE Inv'
  OBVIOUS
<1>1. ReplayWrite("overflow", Failed(ledger, at, 2, 0, "known"), "done", "clean")
  BY DEF ReplayOverflow
<1>2. ASSUME NEW m \in Failed(ledger, at, 2, 0, "known")
      PROVE  /\ Advances(ledger, m, at) /\ Charged(m.history[at], spent[at])
             /\ at \notin Open(m)
  BY FailStep
<1>3. QED
  BY <1>1, <1>2, ReplayWriteKeeps

(* What was used is unknown: the whole reservation is charged.             *)
LEMMA ReplayUnknownKeeps == Inv /\ ReplayUnknown => Inv'
<1> SUFFICES ASSUME Inv, ReplayUnknown PROVE Inv'
  OBVIOUS
<1>1. ReplayWrite("unknown", Failed(ledger, at, 3, Reservation, "unknown"), "clean", "clean")
  BY DEF ReplayUnknown
<1>2. ASSUME NEW m \in Failed(ledger, at, 3, Reservation, "unknown")
      PROVE  /\ Advances(ledger, m, at) /\ Charged(m.history[at], spent[at])
             /\ at \notin Open(m)
  BY FailStep, BudgetAssumption
<1>3. QED
  BY <1>1, <1>2, ReplayWriteKeeps

(* The answer could not be used, but says what was.                        *)
LEMMA ReplayFailKeeps == Inv /\ ReplayFail => Inv'
<1> SUFFICES ASSUME Inv, ReplayFail PROVE Inv'
  OBVIOUS
<1>1. ReplayWrite("fail", Failed(ledger, at, 3, usage, "known"), "done", "clean")
  BY DEF ReplayFail
<1>2. usage = spent[at] /\ usage \in Nat
  BY <1>1, BudgetAssumption DEF ReplayWrite, Inv, Usage, Vars
<1>3. ASSUME NEW m \in Failed(ledger, at, 3, usage, "known")
      PROVE  /\ Advances(ledger, m, at) /\ Charged(m.history[at], spent[at])
             /\ at \notin Open(m)
  BY <1>2, FailStep
<1>4. QED
  BY <1>1, <1>3, ReplayWriteKeeps

(* The cycle is committed; a commit that raises is failed next.            *)
LEMMA ReplayCommitKeeps == Inv /\ ReplayCommit => Inv'
<1> SUFFICES ASSUME Inv, ReplayCommit PROVE Inv'
  OBVIOUS
<1>1. ReplayWrite("commit", Committed(ledger, at, 3, usage), "outcome", "fail")
  BY DEF ReplayCommit
<1>2. usage = spent[at]
  BY <1>1 DEF ReplayWrite, Inv, Usage
<1>3. ASSUME NEW m \in Committed(ledger, at, 3, usage)
      PROVE  /\ Advances(ledger, m, at) /\ Charged(m.history[at], spent[at])
             /\ at \notin Open(m)
  BY <1>2, CommitStep
<1>4. QED
  BY <1>1, <1>2, <1>3, ReplayWriteKeeps

(* The outcome of a committed cycle is recorded.                           *)
LEMMA ReplayOutcomeKeeps == Inv /\ ReplayOutcome => Inv'
<1> SUFFICES ASSUME Inv, ReplayOutcome PROVE Inv'
  OBVIOUS
<1>1. ReplayWrite("outcome", Outcome(ledger), "done", "clean")
  BY DEF ReplayOutcome
<1>2. at \notin Open(ledger)
  BY <1>1 DEF ReplayWrite, Inv, Known
<1>3. ASSUME NEW m \in Outcome(ledger)
      PROVE  /\ Advances(ledger, m, at) /\ Charged(m.history[at], spent[at])
             /\ at \notin Open(m)
  BY <1>2, LedgerNat, OutcomeKeeps, SameStep
<1>4. QED
  BY <1>1, <1>3, ReplayWriteKeeps

(* The engine's steps that do not write, when they raise or are cancelled. *)
LEMMA StopsFacts ==
    Inv /\ ReplayStops /\ UNCHANGED <<recoveries, crashes>>
      => Counters' /\ shielded' \in BOOLEAN /\ pc' = "clean"
<1> SUFFICES ASSUME Inv, ReplayStops, UNCHANGED <<recoveries, crashes>>
             PROVE  Counters' /\ shielded' \in BOOLEAN /\ pc' = "clean"
  OBVIOUS
<1>1. Counters /\ shielded \in BOOLEAN /\ MaxFaults \in Nat /\ MaxCancels \in Nat
  BY CountersHold, BudgetAssumption
<1>2. \/ /\ faults < MaxFaults /\ faults' = faults + 1
         /\ cancels' = cancels /\ shielded' = shielded
      \/ /\ cancels < MaxCancels /\ cancels' = cancels + 1
         /\ faults' = faults /\ shielded' = TRUE
  BY DEF ReplayStops, Fault, Cancel
<1>3. shielded' \in BOOLEAN
  BY <1>1, <1>2
<1>4. Counters'
  BY <1>1, <1>2 DEF Counters
<1>5. QED
  BY <1>3, <1>4 DEF ReplayStops, Goto

(* The batch of a cycle is built.                                          *)
LEMMA ReplayBatchKeeps == Inv /\ ReplayBatch => Inv'
<1> SUFFICES ASSUME Inv, ReplayBatch PROVE Inv'
  OBVIOUS
<1>1. /\ mode = "replay" /\ pc = "batch" /\ UNCHANGED <<recoveries, crashes>>
      /\ UNCHANGED <<ledger, mode, at, guard, expected, cancelled, broken>>
      /\ UNCHANGED <<usage, spent>>
      /\ \/ pc' \in {"start", "overflow", "clean"} /\ UNCHANGED <<faults, cancels, shielded>>
         \/ ReplayStops
  BY DEF ReplayBatch, ReplayReads, Reads, Goto
<1>2. Counters' /\ usage' \in 0..MaxUsage /\ shielded' \in BOOLEAN
  BY <1>1, StopsFacts, CountersHold DEF Counters
<1>3. pc' \in {"start", "overflow", "clean"}
  BY <1>1, StopsFacts
<1>4. QED
  BY <1>1, <1>2, <1>3, ReadKeeps

(* The model's call.                                                       *)
LEMMA ReplayModelKeeps == Inv /\ ReplayModel => Inv'
<1> SUFFICES ASSUME Inv, ReplayModel PROVE Inv'
  OBVIOUS
<1>1. PICK used \in 1..MaxUsage :
        /\ spent' = [spent EXCEPT ![at] = used]
        /\ \/ /\ pc' = "settle" /\ usage' = used
              /\ UNCHANGED <<faults, cancels, shielded>>
           \/ pc' = "unknown" /\ UNCHANGED <<usage, faults, cancels, shielded>>
           \/ /\ Cancel(TRUE) /\ pc' = "clean" /\ shielded' = TRUE
              /\ UNCHANGED <<usage, faults>>
  BY DEF ReplayModel, Goto
<1>2. /\ mode = "replay" /\ pc = "model" /\ UNCHANGED <<recoveries, crashes>>
      /\ UNCHANGED <<ledger, mode, at, guard, expected, cancelled, broken>>
  BY DEF ReplayModel, ReplayReads, Reads
<1>3. Counters'
  BY <1>1, <1>2, CountersHold, BudgetAssumption DEF Counters, Cancel
<1>4. usage' \in 0..MaxUsage /\ shielded' \in BOOLEAN
  <2>1. usage' = used \/ usage' = usage
    BY <1>1
  <2>2. shielded' = shielded \/ shielded' = TRUE
    BY <1>1
  <2>3. used \in 0..MaxUsage
    OBVIOUS
  <2>4. QED
    BY <2>1, <2>2, <2>3, CountersHold
<1>5. pc' = "settle" => usage' = spent'[at]
  BY <1>1, LedgerNat DEF Inv, Vars
<1>6. QED
  BY <1>1, <1>2, <1>3, <1>4, <1>5, ReadKeeps

(* The answer is settled against the reservation.                          *)
LEMMA ReplaySettleKeeps == Inv /\ ReplaySettle => Inv'
<1> SUFFICES ASSUME Inv, ReplaySettle PROVE Inv'
  OBVIOUS
<1>1. /\ mode = "replay" /\ pc = "settle" /\ UNCHANGED <<recoveries, crashes>>
      /\ UNCHANGED <<ledger, mode, at, guard, expected, cancelled, broken>>
      /\ UNCHANGED <<usage, spent>>
      /\ \/ /\ pc' \in {"unknown", "fail", "clean", "commit"}
            /\ UNCHANGED <<faults, cancels, shielded>>
         \/ ReplayStops
  BY DEF ReplaySettle, ReplayReads, Reads, Goto
<1>2. Counters' /\ usage' \in 0..MaxUsage /\ shielded' \in BOOLEAN
  BY <1>1, StopsFacts, CountersHold DEF Counters
<1>3. pc' \in {"unknown", "fail", "clean", "commit"}
  BY <1>1, StopsFacts
<1>4. usage' = spent'[at]
  BY <1>1 DEF Inv, Usage
<1>5. QED
  BY <1>1, <1>2, <1>3, <1>4, ReadKeeps

(* The cleanup itself raises, or is cancelled.                             *)
LEMMA CleanupStopsFacts ==
    ASSUME Inv, CleanupStops, UNCHANGED <<recoveries, crashes>>
    PROVE  Counters' /\ pc' = "ended" /\ broken' = TRUE /\ guard' = guard
<1>1. Counters /\ MaxFaults \in Nat /\ MaxCancels \in Nat
  BY CountersHold, BudgetAssumption
<1>2. \/ faults < MaxFaults /\ faults' = faults + 1 /\ cancels' = cancels
      \/ cancels < MaxCancels /\ cancels' = cancels + 1 /\ faults' = faults
  BY DEF CleanupStops, Fault, Cancel
<1>3. Counters'
  BY <1>1, <1>2 DEF Counters
<1>4. QED
  BY <1>3 DEF CleanupStops, Goto

(* The cleanup reads the cycle as the ledger has it.                       *)
LEMMA ReplayCleanKeeps == Inv /\ ReplayClean => Inv'
<1> SUFFICES ASSUME Inv, ReplayClean PROVE Inv'
  OBVIOUS
<1>1. /\ mode = "replay" /\ pc = "clean"
      /\ UNCHANGED <<ledger, mode, at, expected, usage, cancelled, shielded, spent,
                     recoveries, crashes>>
  BY DEF ReplayClean
<1>2. /\ LedgerInv(ledger) /\ at \in Boundaries /\ ledger.entries \in Nat
      /\ Charged(ledger.history[at], spent[at])
  BY LedgerNat
<1>3. /\ Counters' /\ broken' \in BOOLEAN /\ guard' \in 0..3 /\ pc' \in {"close", "ended"}
      /\ pc' = "close" => guard' > 0 /\ guard' = Len(ledger.history[at])
      /\ pc' = "ended" /\ ~ broken' => at \notin Open(ledger)
  <2>1. guard \in 0..3 /\ broken \in BOOLEAN
    BY DEF Inv, Vars
  <2>2. CASE /\ at \in Open(ledger) /\ pc' = "close" /\ guard' = Len(ledger.history[at])
             /\ UNCHANGED <<faults, cancels, broken>>
    <3>1. Len(ledger.history[at]) \in 1..3
      BY <2>2, CleanupApplies
    <3>2. guard' > 0 /\ guard' \in 0..3
      <4> DEFINE k == Len(ledger.history[at])
      <4>1. k \in 1..3 /\ guard' = k
        BY <2>2, <3>1
      <4> HIDE DEF k
      <4>2. QED
        BY <4>1
    <3>3. Counters'
      BY <1>1, <2>2, CountersHold DEF Counters
    <3>4. QED
      BY <2>1, <2>2, <3>2, <3>3
  <2>3. CASE /\ at \notin Open(ledger) /\ pc' = "ended" /\ UNCHANGED guard
             /\ UNCHANGED <<faults, cancels, broken>>
    BY <1>1, <2>1, <2>3, CountersHold DEF Counters
  <2>4. CASE CleanupStops
    BY <1>1, <2>1, <2>4, CleanupStopsFacts
  <2>5. QED
    BY <2>2, <2>3, <2>4 DEF ReplayClean, Goto
<1>4. Advances(ledger, ledger', at)
  BY <1>1, <1>2, SameAdvances
<1>5. /\ shielded' \in BOOLEAN /\ cancelled' \in BOOLEAN
      /\ expected' \in 0..ledger'.entries /\ pc' \in Places
  BY <1>1, <1>3 DEF Inv, Vars, Places
<1>6. Known'
  BY <1>1, <1>3 DEF Known
<1>7. Open(ledger') = Open(ledger) /\ Charged(ledger'.history[at], spent[at])
  BY <1>1, <1>2
<1>8. QED
  BY <1>1, <1>3, <1>4, <1>5, <1>6, <1>7, WriteKeeps

(* The cleanup fails the cycle it has read.                                *)
LEMMA ReplayCloseKeeps == Inv /\ ReplayClose => Inv'
<1> SUFFICES ASSUME Inv, ReplayClose PROVE Inv'
  OBVIOUS
<1>1. /\ mode = "replay" /\ pc = "close"
      /\ UNCHANGED <<mode, at, expected, usage, cancelled, shielded, spent,
                     recoveries, crashes>>
  BY DEF ReplayClose
<1>2. /\ LedgerInv(ledger) /\ at \in Boundaries /\ ledger.entries \in Nat
      /\ Charged(ledger.history[at], spent[at])
  BY LedgerNat
<1>3. at \in Open(ledger) => Cleanup(guard) # {}
  BY <1>1, CleanupApplies DEF Inv, Known
<1>4. /\ Counters' /\ broken' \in BOOLEAN /\ guard' = guard /\ pc' = "ended"
      /\ ledger' = ledger \/ ledger' \in Cleanup(guard)
      /\ ~ broken' => at \notin Open(ledger')
  <2>1. CASE /\ \E answered \in BOOLEAN : Await(Cleanup(guard), answered)
             /\ pc' = "ended" /\ broken' = (broken \/ faults' # faults)
             /\ UNCHANGED <<guard, cancels>>
    <3>1. PICK answered \in BOOLEAN : Await(Cleanup(guard), answered)
      BY <2>1
    <3>2. /\ faults' \in 0..MaxFaults
          /\ ledger' = ledger \/ ledger' \in Cleanup(guard)
          /\ answered => ledger' \in Cleanup(guard)
          /\ ~ answered /\ faults' = faults => Cleanup(guard) = {} /\ ledger' = ledger
      BY <3>1, AwaitFacts
    <3>3. Counters' /\ broken' \in BOOLEAN
      BY <1>1, <2>1, <3>2, CountersHold DEF Counters, Inv, Vars
    <3>4. ~ broken' => at \notin Open(ledger')
      BY <1>3, <2>1, <3>2, CleanupStep
    <3>5. QED
      BY <2>1, <3>2, <3>3, <3>4
  <2>2. CASE ledger' \in Cleanup(guard) \cup {ledger} /\ CleanupStops
    BY <1>1, <2>2, CleanupStopsFacts
  <2>3. QED
    BY <2>1, <2>2 DEF ReplayClose, Goto
<1>5. Advances(ledger, ledger', at) /\ Charged(ledger'.history[at], spent[at])
  BY <1>2, <1>4, SameAdvances, CleanupStep
<1>6. /\ shielded' \in BOOLEAN /\ cancelled' \in BOOLEAN /\ guard' \in 0..3
      /\ expected' \in 0..ledger'.entries /\ pc' \in Places
  <2>1. ledger'.entries \in Nat /\ ledger'.entries >= ledger.entries
    BY <1>5, AdvancesEntries
  <2>2. QED
    BY <1>1, <1>2, <1>4, <2>1 DEF Inv, Vars, Places
<1>7. Known'
  BY <1>1, <1>4 DEF Known
<1>8. QED
  BY <1>1, <1>4, <1>5, <1>6, <1>7, WriteKeeps

(* ------------------------ recovery and crashes ------------------------- *)

(* A recovery settles the cycle the runner is at, if it is running: the    *)
(* runner's next operation finds out.                                      *)
LEMMA RecoverKeeps == Inv /\ Recover => Inv'
<1> SUFFICES ASSUME Inv, Recover PROVE Inv'
  OBVIOUS
<1>1. /\ recoveries < MaxRecoveries /\ recoveries' = recoveries + 1
      /\ UNCHANGED <<mode, pc, at, guard, expected, usage, cancelled, shielded,
                     spent, broken, faults, cancels, crashes>>
  BY DEF Recover, runner
<1>2. /\ LedgerInv(ledger) /\ at \in Boundaries /\ ledger.entries \in Nat
      /\ ledger.history[at] \in Seq(Records)
      /\ Charged(ledger.history[at], spent[at])
      /\ spent[at] > 0 => HasRun(ledger, at)
  BY LedgerNat
<1>3. Counters'
  BY <1>1, CountersHold, BudgetAssumption DEF Counters
<1>4. \/ ledger' = ledger
      \/ /\ at \in Open(ledger) /\ at \notin Open(ledger')
         /\ Advances(ledger, ledger', at)
         /\ Len(ledger'.history[at]) = 4 /\ ledger'.history[at][4].charged = Reservation
         /\ Charged(ledger'.history[at], spent[at])
  <2>1. CASE \E e \in Boundaries : State(ledger, e) = "running"
    <3>1. PICK e \in Boundaries :
            /\ State(ledger, e) = "running"
            /\ ledger' = Add(ledger, e, Cycle("failed", Latest(ledger, e).held,
                                              Latest(ledger, e).held, "recovered"))
      BY <2>1 DEF Recover
    <3>2. at = e
      BY <1>2, <3>1, SameAdvances, AdvancesFacts DEF Open, Unsettled
    <3>3. PICK r \in Records :
            /\ LedgerInv(ledger') /\ ledger'.entries = ledger.entries + 1
            /\ Len(ledger.history[e]) = 3
            /\ r.state = "failed" /\ r.charged = Reservation
            /\ Grows(ledger, ledger', e, r)
      BY <1>2, <3>1, RecoveredKeeps
    <3>4. LedgerShape(ledger) /\ LedgerShape(ledger') /\ Grows(ledger, ledger', e, r)
      BY <1>2, <3>3 DEF LedgerInv
    <3>5. /\ \A f \in Boundaries \ {e} : ledger'.history[f] = ledger.history[f]
          /\ Len(ledger'.history[e]) = Len(ledger.history[e]) + 1
          /\ \A i \in 1..Len(ledger.history[e]) : ledger'.history[e][i] = ledger.history[e][i]
          /\ ledger'.history[e][Len(ledger.history[e]) + 1] = r
          /\ State(ledger', e) = r.state
      BY <3>4, GrownHistory
    <3>6. Len(ledger'.history[e]) = 4 /\ ledger'.history[e][4] = r
      BY <3>3, <3>5
    <3>7. Advances(ledger, ledger', at)
      BY <1>2, <3>2, <3>3, <3>5, <3>6 DEF Advances
    <3>8. at \in Open(ledger) /\ at \notin Open(ledger')
      BY <3>1, <3>2, <3>3, <3>5 DEF Open, Unsettled
    <3>9. Charged(ledger'.history[at], spent[at])
      BY <1>2, <3>2, <3>3, <3>6, UsedNat DEF Charged
    <3>10. QED
      BY <3>2, <3>3, <3>6, <3>7, <3>8, <3>9
  <2>2. CASE ~ \E e \in Boundaries : State(ledger, e) = "running"
    BY <2>2 DEF Recover
  <2>3. QED
    BY <2>1, <2>2
<1>5. Advances(ledger, ledger', at) /\ Charged(ledger'.history[at], spent[at])
  BY <1>2, <1>4, SameAdvances
<1>6. /\ shielded' \in BOOLEAN /\ cancelled' \in BOOLEAN /\ broken' \in BOOLEAN
      /\ guard' \in 0..3 /\ expected' \in 0..ledger'.entries /\ pc' \in Places
  <2>1. ledger'.entries \in Nat /\ ledger'.entries >= ledger.entries
    BY <1>5, AdvancesEntries
  <2>2. QED
    BY <1>1, <1>2, <2>1 DEF Inv, Vars
<1>7. at \in Open(ledger') => ledger' = ledger
  BY <1>4
<1>8. Known'
  <2>1. CASE ledger' = ledger
    BY <1>1, <2>1 DEF Inv, Known
  <2>2. CASE at \notin Open(ledger')
    BY <1>1, <2>2 DEF Inv, Known
  <2>3. QED
    BY <1>7, <2>1, <2>2
<1>9. at' = at /\ pc' \in {"append", "decide", "begin"} => ledger'.history[at] = <<>>
  <2>1. pc \in {"append", "decide", "begin"} => ledger.history[at] = <<>>
    BY DEF Inv, Frontier
  <2>2. ledger.history[at] = <<>> => at \notin Open(ledger)
    BY DEF Open, State, Unsettled
  <2>3. QED
    BY <1>1, <1>4, <2>1, <2>2
<1>10. pc' \in {"reserve", "batch", "start", "check", "model"}
         /\ Len(ledger'.history[at]) = 4 => ledger'.history[at][4].charged = Reservation
  BY <1>1, <1>4 DEF Inv, Usage
<1>11. pc' \in {"check", "model"} => HasRun(ledger', at)
  BY <1>1, <1>2, <1>5, AdvancesFacts DEF Inv, Usage
<1>12. pc' \in {"settle", "commit", "fail", "interrupted", "conflict", "unanswered"}
         => usage = spent[at]
  BY <1>1 DEF Inv, Usage
<1>13. pc' = "ended" /\ ~ broken' => at \notin Open(ledger')
  BY <1>1, <1>7 DEF Inv, EndsSettled
<1>14. QED
  BY <1>1, <1>3, <1>5, <1>6, <1>8, <1>9, <1>10, <1>11, <1>12, <1>13, WriteKeeps

(* The runner dies; nothing else changes.                                  *)
LEMMA CrashKeeps == Inv /\ Crash => Inv'
<1> SUFFICES ASSUME Inv, Crash PROVE Inv'
  OBVIOUS
<1>1. /\ pc' = "dead" /\ crashes < MaxCrashes /\ crashes' = crashes + 1
      /\ UNCHANGED <<ledger, mode, at, guard, expected, usage, cancelled, shielded,
                     spent, broken, faults, cancels, recoveries>>
  BY DEF Crash, Goto
<1>2. /\ LedgerInv(ledger) /\ at \in Boundaries /\ ledger.entries \in Nat
      /\ Charged(ledger.history[at], spent[at])
  BY LedgerNat
<1>3. Advances(ledger, ledger', at) /\ Charged(ledger'.history[at], spent[at])
  BY <1>1, <1>2, SameAdvances
<1>4. Counters'
  BY <1>1, CountersHold, BudgetAssumption DEF Counters
<1>5. /\ shielded' \in BOOLEAN /\ cancelled' \in BOOLEAN /\ broken' \in BOOLEAN
      /\ guard' \in 0..3 /\ expected' \in 0..ledger'.entries /\ pc' \in Places
  BY <1>1 DEF Inv, Vars, Places
<1>6. Known'
  BY <1>1 DEF Known
<1>7. QED
  BY <1>1, <1>3, <1>4, <1>5, <1>6, WriteKeeps

(* ------------------------------ theorems ------------------------------- *)

(* Nothing is reserved, consumed or committed when a run begins.           *)
LEMMA InitKeeps == Init => Inv
<1> SUFFICES ASSUME Init PROVE Inv
  OBVIOUS
<1>1. /\ ledger = [events |-> 0, cursor |-> 0, entries |-> 0,
                   decisions |-> [e \in Boundaries |-> "none"],
                   first |-> [e \in Boundaries |-> 0],
                   history |-> [e \in Boundaries |-> <<>>]]
      /\ \A e \in Boundaries : ledger.history[e] = <<>>
  BY DEF Init
<1>2. \A e \in Boundaries : /\ State(ledger, e) = "none" /\ e \notin Open(ledger)
                            /\ Load(ledger.history[e]) = 0
  BY <1>1 DEF State, Open, Unsettled, Load, Ends, Settled
<1>3. IsFiniteSet(Boundaries)
  BY FS_Interval, BudgetAssumption DEF Boundaries
<1>4. LedgerShape(ledger)
  <2>1. ledger \in Ledgers
    BY <1>1, BudgetAssumption DEF Ledgers
  <2>2. \A e \in Boundaries : Shaped(ledger.history[e])
    BY <1>1 DEF Shaped
  <2>3. QED
    BY <1>1, <2>1, <2>2 DEF LedgerShape
<1>5. WithinLimit(ledger)
  <2>1. \A e \in Boundaries : Holds(ledger)[e] = 0 /\ Charges(ledger)[e] = 0
    BY <1>2 DEF Holds, Charges, Settled
  <2>2. Reserved(ledger) = 0 /\ Consumed(ledger) = 0
    BY <1>3, <2>1, SumZero DEF Reserved, Consumed
  <2>3. QED
    BY <2>2, BudgetAssumption DEF WithinLimit
<1>6. OneOpen(ledger) /\ Tiled(ledger)
  BY <1>1, <1>2 DEF OneOpen, Open, Tiled, IsCommitted
<1>7. Vars
  <2>1. 1 \in Boundaries /\ 0 \in 0..MaxUsage /\ "append" \in Places
    BY BudgetAssumption DEF Boundaries, Places
  <2>2. ledger.entries = 0
    BY <1>1
  <2>3. spent \in [Boundaries -> 0..MaxUsage]
    BY <2>1 DEF Init
  <2>4. Counters
    BY BudgetAssumption DEF Init, Counters
  <2>5. /\ mode \in Modes /\ pc \in Places /\ at \in Boundaries
        /\ guard \in 0..3 /\ expected \in 0..ledger.entries /\ usage \in 0..MaxUsage
        /\ cancelled \in BOOLEAN /\ shielded \in BOOLEAN /\ broken \in BOOLEAN
    <3>1. guard \in 0..3 /\ expected \in 0..ledger.entries
      <4>1. guard = 0 /\ expected = 0
        BY DEF Init
      <4>2. QED
        BY <2>2, <4>1
    <3>2. usage \in 0..MaxUsage
      BY <2>1 DEF Init
    <3>3. mode \in Modes /\ pc \in Places /\ at \in Boundaries
      BY <2>1 DEF Init
    <3>4. cancelled \in BOOLEAN /\ shielded \in BOOLEAN /\ broken \in BOOLEAN
      BY DEF Init
    <3>5. QED
      BY <3>1, <3>2, <3>3, <3>4
  <2>6. QED
    BY <2>3, <2>4, <2>5 DEF Vars, Counters
<1>8. Frontier /\ Usage /\ Known
  BY <1>1, <1>2, BudgetAssumption DEF Init, Frontier, Usage, Known, HasRun, Boundaries
<1>9. ChargedInFull /\ EndsSettled
  BY <1>2 DEF ChargedInFull, EndsSettled, Init, Settled
<1>10. QED
  BY <1>4, <1>5, <1>6, <1>7, <1>8, <1>9 DEF Inv, LedgerInv

(* One step of the runner, or of anyone else, keeps the invariant.         *)
LEMMA NextKeeps == Inv /\ [Next]_vars => Inv'
<1> SUFFICES ASSUME Inv, [Next]_vars PROVE Inv'
  OBVIOUS
<1>1. CASE FixedStep
  BY <1>1, FixedAppendKeeps, FixedDecideKeeps, FixedBeginKeeps, FixedReserveKeeps,
     FixedStartKeeps, FixedCheckKeeps, FixedModelKeeps, FixedSettleKeeps,
     FixedFailKeeps, FixedCommitKeeps, FixedReconcileKeeps, FixedOutcomeKeeps,
     FixedCleanKeeps
  DEF FixedStep
<1>2. CASE ReplayStep
  BY <1>2, ReplayAppendKeeps, ReplayDecideKeeps, ReplayBeginKeeps, ReplayReserveKeeps,
     ReplayBatchKeeps, ReplayOverflowKeeps, ReplayStartKeeps, ReplayModelKeeps,
     ReplayUnknownKeeps, ReplaySettleKeeps, ReplayFailKeeps, ReplayCommitKeeps,
     ReplayOutcomeKeeps, ReplayCleanKeeps, ReplayCloseKeeps
  DEF ReplayStep
<1>3. CASE Recover \/ Crash
  BY <1>3, RecoverKeeps, CrashKeeps
<1>4. CASE UNCHANGED vars
  <2>1. UNCHANGED <<ledger, mode, pc, at, guard, expected, usage, cancelled, shielded,
                    spent, broken, faults, cancels, recoveries, crashes>>
    BY <1>4 DEF vars, runner, bounds
  <2>2. LedgerInv(ledger') /\ Vars'
    BY <2>1 DEF Inv, Vars
  <2>3. Frontier' /\ Usage' /\ Known'
    BY <2>1 DEF Inv, Frontier, Usage, Known
  <2>4. ChargedInFull' /\ EndsSettled'
    BY <2>1 DEF Inv, ChargedInFull, EndsSettled
  <2>5. QED
    BY <2>2, <2>3, <2>4 DEF Inv
<1>5. QED
  BY <1>1, <1>2, <1>3, <1>4 DEF Next

(* The inductive invariant.  BudgetHeld and RangesTile hold of whatever    *)
(* the ledger's operations do to it; ChargedInFull and EndsSettled need to *)
(* know where the runner is, hence Usage and Known.                        *)
THEOREM RunsInvariant == Spec => []Inv
<1>1. Init => Inv
  BY InitKeeps
<1>2. Inv /\ [Next]_vars => Inv'
  BY NextKeeps
<1>3. QED
  BY <1>1, <1>2, PTL DEF Spec

(* Every variable has its type, and a cycle at most four revisions.        *)
THEOREM RunsTyped == Spec => []TypeOK
<1>1. Inv => TypeOK
  BY DEF Inv, LedgerInv, LedgerShape, Shaped, Vars, TypeOK
<1>2. QED
  BY <1>1, RunsInvariant, PTL

(* What is reserved and consumed never exceeds the run's limit, and one    *)
(* cycle is open at a time, whatever is lost, cancelled or recovered.      *)
THEOREM RunsBudgetHeld == Spec => []BudgetHeld
<1>1. Inv => BudgetHeld
  BY DEF Inv, LedgerInv, OneOpen, WithinLimit, BudgetHeld
<1>2. QED
  BY <1>1, RunsInvariant, PTL

(* A settled cycle is charged what its model used, up to its reservation,  *)
(* whoever settled it.                                                     *)
THEOREM RunsChargedInFull == Spec => []ChargedInFull
<1>1. Inv => ChargedInFull
  BY DEF Inv
<1>2. QED
  BY <1>1, RunsInvariant, PTL

(* The committed cycles cover the events up to the cursor, each once.      *)
THEOREM RunsRangesTile == Spec => []RangesTile
<1>1. ASSUME Inv
      PROVE  RangesTile
  <2> DEFINE committed == {e \in Boundaries : State(ledger, e) = "committed"}
             range(e) == ledger.first[e]..e
  <2>1. Tiled(ledger) /\ LedgerShape(ledger) /\ ledger \in Ledgers
    BY <1>1 DEF Inv, LedgerInv, LedgerShape
  <2>2. \A e \in committed : /\ e \in Boundaries /\ IsCommitted(ledger, e)
                             /\ ledger.first[e] \in 1..e /\ e <= ledger.cursor
    BY <2>1 DEF IsCommitted, LedgerShape, Tiled, State
  <2>3. UNION {range(e) : e \in committed} = 1..ledger.cursor
    <3>1. ASSUME NEW x \in UNION {range(e) : e \in committed}
          PROVE  x \in 1..ledger.cursor
      <4>1. PICK e \in committed : x \in ledger.first[e]..e
        OBVIOUS
      <4>2. QED
        BY <2>1, <2>2, <4>1 DEF Ledgers, Boundaries
    <3>2. ASSUME NEW x \in 1..ledger.cursor
          PROVE  x \in UNION {range(e) : e \in committed}
      <4>1. PICK e \in Boundaries : IsCommitted(ledger, e) /\ x \in ledger.first[e]..e
        BY <2>1 DEF Tiled
      <4>2. e \in committed
        BY <4>1 DEF IsCommitted
      <4>3. QED
        BY <4>1, <4>2
    <3>3. QED
      BY <3>1, <3>2
  <2>4. ASSUME NEW e \in committed, NEW f \in committed, e # f
        PROVE  range(e) \cap range(f) = {}
    <3>1. e < f \/ f < e
      BY <2>2, <2>4 DEF Boundaries
    <3>2. e < f => e < ledger.first[f]
      BY <2>1, <2>2 DEF Tiled
    <3>3. f < e => f < ledger.first[e]
      BY <2>1, <2>2 DEF Tiled
    <3>4. QED
      BY <2>2, <3>1, <3>2, <3>3 DEF Boundaries
  <2>5. QED
    BY <2>3, <2>4 DEF RangesTile
<1>2. QED
  BY <1>1, RunsInvariant, PTL

(* A runner that returns or raises leaves no cycle open, unless an answer  *)
(* its guard needed was lost, or the look-up of a commit that raised or    *)
(* the cleanup itself did not finish.                                      *)
THEOREM RunsEndsSettled == Spec => []EndsSettled
<1>1. Inv => EndsSettled
  BY DEF Inv
<1>2. QED
  BY <1>1, RunsInvariant, PTL
=============================================================================
