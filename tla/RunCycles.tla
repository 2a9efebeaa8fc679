----------------------------- MODULE RunCycles -----------------------------
(***************************************************************************)
(* One run over a trace: the runner appends each event, records whether it *)
(* invokes the model, and takes the memory cycle of an invoking event      *)
(* through its states, holding budget for it and settling what was spent.  *)
(* Two runners do so, FixedStepRunner (runtime/fixed_step.py and           *)
(* fixed_step_core.py) and ReplayEngine (runtime/engine.py); Init picks    *)
(* one.  Every repository operation is one step of the ledger              *)
(* (repository/memory.py, projector.py); its answer may be lost, the       *)
(* runner may be cancelled at any await or die, and anyone may recover the *)
(* run's cycles meanwhile.                                                 *)
(*                                                                         *)
(* Abstracted: the contents of events, memory and interventions; the seven *)
(* budget fields are one amount; signals, and the delivery of a reminder   *)
(* (DeliveryOutbox), which neither hold nor settle budget.  The boundary   *)
(* of event e is e itself: it has at most one decision and one cycle.      *)
(***************************************************************************)
EXTENDS Integers, Sequences, FiniteSetsExt

CONSTANTS
    Length,         \* events of the trace
    Limit,          \* the run's budget
    Reservation,    \* what each cycle reserves
    MaxUsage,       \* what the model may use in a cycle, at most
    Modes,          \* the runners: "fixed", "replay"
    MaxFaults, MaxCancels, MaxRecoveries, MaxCrashes    \* bounds of the model

ASSUME BudgetAssumption ==
    /\ Length \in Nat \ {0} /\ Limit \in Nat /\ Reservation \in Nat \ {0}
    /\ MaxUsage \in Nat \ {0} /\ Modes \subseteq {"fixed", "replay"}
    /\ {MaxFaults, MaxCancels, MaxRecoveries, MaxCrashes} \subseteq Nat

Boundaries == 1..Length
Unsettled == {"pending", "reserved", "running"}
Settled == {"committed", "failed"}

VARIABLES
    ledger,     \* the run's authoritative records
    mode,       \* which runner it is
    pc, at,     \* the runner's next operation and its boundary
    guard,      \* the revision of the cycle it knows of, 0 for none
    expected,   \* the ledger position of its last receipt
    usage,      \* what the model's answer says was used
    cancelled,  \* fixed: a cancellation to raise when the boundary is done
    shielded,   \* replay: the cleanup runs in a task that cancellation spares
    spent,      \* what the model provider really used, by boundary
    broken,     \* an answer lost, a look-up or a cleanup that did not finish
    faults, cancels, recoveries, crashes

runner == <<mode, pc, at, guard, expected, usage, cancelled, shielded>>
bounds == <<faults, cancels, recoveries, crashes>>
vars == <<ledger, runner, spent, broken, bounds>>

(* -------------------------- the repository ---------------------------- *)

Latest(l, e) == l.history[e][Len(l.history[e])]
State(l, e) == IF l.history[e] = <<>> THEN "none" ELSE Latest(l, e).state
Open(l) == {e \in Boundaries : State(l, e) \in Unsettled}

Holds(l) == [e \in Boundaries |->
    IF State(l, e) \in {"reserved", "running"} THEN Latest(l, e).held ELSE 0]
Charges(l) == [e \in Boundaries |->
    IF State(l, e) \in Settled THEN Latest(l, e).charged ELSE 0]

Reserved(l) == SumFunctionOnSet(Holds(l), Boundaries)
Consumed(l) == SumFunctionOnSet(Charges(l), Boundaries)

\* mutant: what was consumed is forgotten
AvailableForgetful(l) == Limit - Reserved(l)

Available(l) == Limit - Reserved(l) - Consumed(l)

(* An operation is the set of ledgers it may leave: none when it is refused. *)

Cycle(state, held, charged, cause) ==
    [state |-> state, held |-> held, charged |-> charged, cause |-> cause]

Add(l, e, record) ==
    [l EXCEPT !.history[e] = Append(@, record), !.entries = @ + 1]

\* A revision that exists is answered again if it is the same, else refused.
Record(l, e, revision, record) ==
    IF revision > Len(l.history[e]) THEN {Add(l, e, record)}
    ELSE IF l.history[e][revision] = record THEN {l} ELSE {}

\* The record a command is based on, if that revision was in one of states.
Base(l, e, revision, states) ==
    {l.history[e][r] : r \in {r \in 1..Len(l.history[e]) :
                                /\ r = revision
                                /\ l.history[e][r].state \in states}}

Appended(l, e) ==
    IF l.events = e - 1
    THEN {[l EXCEPT !.events = e, !.entries = @ + 1]} ELSE {}

Decided(l, e, invoke) ==
    IF l.decisions[e] = "none"
    THEN {[l EXCEPT !.decisions[e] = IF invoke THEN "invoke" ELSE "silent",
                    !.entries = @ + 1]}
    ELSE {}

Begun(l, e) ==
    IF l.history[e] # <<>> THEN {l}
    ELSE IF l.decisions[e] = "invoke" /\ Open(l) = {} /\ e > l.cursor
    THEN {[Add(l, e, Cycle("pending", 0, 0, "none"))
             EXCEPT !.first[e] = l.cursor + 1]}
    ELSE {}

Held(l, e, revision) ==
    UNION {IF Len(l.history[e]) = revision /\ Reservation > Available(l) THEN {}
           ELSE Record(l, e, revision + 1, Cycle("reserved", Reservation, 0, "none")) :
             b \in Base(l, e, revision, {"pending"})}

Started(l, e, revision) ==
    UNION {Record(l, e, revision + 1, [b EXCEPT !.state = "running"]) :
             b \in Base(l, e, revision, {"reserved"})}

\* A cycle that runs is charged at least a call, one that does not run nothing,
\* and an unknown cost is the whole reservation.
Chargeable(base, charge, cause) ==
    /\ charge <= base.held
    /\ cause = "unknown" => base.state = "running" /\ charge = base.held
    /\ base.state = "running" <=> charge > 0

Failed(l, e, revision, charge, cause) ==
    UNION {IF Chargeable(b, charge, cause)
           THEN Record(l, e, revision + 1, Cycle("failed", b.held, charge, cause))
           ELSE {} :
             b \in Base(l, e, revision, Unsettled)}

\* mutant: the cursor moves to the first event of the cycle
CommittedFirst(l, e, revision, charge) ==
    UNION {IF /\ Len(l.history[e]) = revision
              /\ ~ (Chargeable(b, charge, "known") /\ l.first[e] = l.cursor + 1)
           THEN {}
           ELSE {IF m = l THEN l ELSE [m EXCEPT !.cursor = l.first[e]] :
                   m \in Record(l, e, revision + 1,
                                Cycle("committed", b.held, charge, "known"))} :
             b \in Base(l, e, revision, {"running"})}

Committed(l, e, revision, charge) ==
    UNION {IF /\ Len(l.history[e]) = revision
              /\ ~ (Chargeable(b, charge, "known") /\ l.first[e] = l.cursor + 1)
           THEN {}
           ELSE {IF m = l THEN l ELSE [m EXCEPT !.cursor = e] :
                   m \in Record(l, e, revision + 1,
                                Cycle("committed", b.held, charge, "known"))} :
             b \in Base(l, e, revision, {"running"})}

Outcome(l) == {[l EXCEPT !.entries = @ + 1]}

Init ==
    /\ ledger = [events |-> 0, cursor |-> 0, entries |-> 0,
                 decisions |-> [e \in Boundaries |-> "none"],
                 first |-> [e \in Boundaries |-> 0],
                 history |-> [e \in Boundaries |-> <<>>]]
    /\ mode \in Modes
    /\ pc = "append" /\ at = 1 /\ guard = 0 /\ expected = 0 /\ usage = 0
    /\ cancelled = FALSE /\ shielded = FALSE
    /\ spent = [e \in Boundaries |-> 0]
    /\ broken = FALSE
    /\ faults = 0 /\ cancels = 0 /\ recoveries = 0 /\ crashes = 0

(* ---------------------- awaiting the repository ----------------------- *)

Fault == faults < MaxFaults /\ faults' = faults + 1

Cancel(cut) ==
    IF cut THEN cancels < MaxCancels /\ cancels' = cancels + 1
           ELSE UNCHANGED cancels

\* The operation applies and answers, it is refused, or it raises although
\* nothing is wrong with it, applied or not.
Await(op, answered) ==
    \/ answered /\ ledger' \in op /\ UNCHANGED faults
    \/ ~ answered /\ op = {} /\ UNCHANGED <<ledger, faults>>
    \/ ~ answered /\ Fault /\ ledger' \in op \cup {ledger}

Goto(place) == pc' = place

Leave == pc' = "ended" /\ UNCHANGED at

NextBoundary ==
    IF at = Length THEN Leave ELSE pc' = "append" /\ at' = at + 1

(* --------------------------- FixedStepRunner --------------------------- *)

\* _complete_boundary finishes an operation its caller was cancelled in and
\* remembers the cancellation.
Boundary(place, op, answered, cut) ==
    /\ mode = "fixed" /\ pc = place
    /\ Await(op, answered) /\ Cancel(cut)
    /\ UNCHANGED <<mode, shielded, spent, recoveries, crashes>>

\* What raised is looked up in the ledger: found there, the run goes on.  (The
\* look-up may raise too.)
FixedAppend ==
    \E answered, cut \in BOOLEAN :
        /\ Boundary("append", Appended(ledger, at), answered, cut)
        /\ \/ ledger'.events >= at /\ Goto("decide") /\ cancelled' = (cancelled \/ cut)
           \/ ~ answered /\ Goto("ended") /\ UNCHANGED cancelled
        /\ guard' = 0
        /\ UNCHANGED <<at, expected, usage, broken>>

\* A boundary that is done raises the cancellation that was put off.
BoundaryDone(cut) == IF cancelled \/ cut THEN Leave ELSE NextBoundary

FixedDecide ==
    \E answered, cut, scheduled \in BOOLEAN :
        LET invoke == scheduled /\ Reservation <= Available(ledger) IN
        /\ Boundary("decide", Decided(ledger, at, invoke), answered, cut)
        /\ \/ /\ ledger'.decisions[at] # "none"
              /\ cancelled' = (cancelled \/ cut)
              /\ IF invoke THEN Goto("begin") /\ UNCHANGED at ELSE BoundaryDone(cut)
           \/ ~ answered /\ Leave /\ UNCHANGED cancelled
        /\ UNCHANGED <<guard, expected, usage, broken>>

\* mutant: a cancellation leaves the cycle as it is
FixedAdvanceLeaving(place, op, next) ==
    \E answered, cut \in BOOLEAN :
        /\ Boundary(place, op, answered, cut)
        /\ IF answered
           THEN /\ guard' = guard + 1 /\ expected' = ledger'.entries
                /\ Goto(IF cut THEN "ended" ELSE next)
                /\ UNCHANGED broken
           ELSE /\ Goto("clean") /\ UNCHANGED <<guard, expected>>
                /\ broken' = (broken \/ ledger' # ledger)
        /\ UNCHANGED <<at, usage, cancelled>>

\* The guard holds the last revision that was answered: an operation whose
\* answer is lost leaves it behind the ledger.
FixedAdvance(place, op, next) ==
    \E answered, cut \in BOOLEAN :
        /\ Boundary(place, op, answered, cut)
        /\ IF answered
           THEN /\ guard' = guard + 1 /\ expected' = ledger'.entries
                /\ Goto(IF cut THEN "clean" ELSE next)
                /\ UNCHANGED broken
           ELSE /\ Goto("clean") /\ UNCHANGED <<guard, expected>>
                /\ broken' = (broken \/ ledger' # ledger)
        /\ UNCHANGED <<at, usage, cancelled>>

FixedBegin == FixedAdvance("begin", Begun(ledger, at), "reserve")
FixedReserve == FixedAdvance("reserve", Held(ledger, at, guard), "start")
FixedStart == FixedAdvance("start", Started(ledger, at, guard), "check")

\* A step that does not write: it may raise, or be cancelled, like any other.
Reads(place) ==
    /\ pc = place
    /\ UNCHANGED <<ledger, mode, at, guard, expected, cancelled, recoveries, crashes>>

Unread == (Fault /\ UNCHANGED cancels) \/ (Cancel(TRUE) /\ UNCHANGED faults)

\* Something else has written to the run since the cycle was started.
FixedCheck ==
    /\ mode = "fixed" /\ Reads("check")
    /\ \/ Goto(IF ledger.entries = expected THEN "model" ELSE "clean")
          /\ UNCHANGED <<faults, cancels>>
       \/ Goto("clean") /\ Unread
    /\ UNCHANGED <<usage, shielded, spent, broken>>

\* The model is called.  Its executor returns a result or a failure with known
\* usage, or raises (what it returned is invalid, or the call is cancelled).
FixedModel ==
    /\ mode = "fixed" /\ Reads("model")
    /\ \E used \in 1..MaxUsage :
         /\ spent' = [spent EXCEPT ![at] = used]
         /\ \/ Goto("settle") /\ usage' = used
            \/ Goto("clean") /\ UNCHANGED usage
    /\ UNCHANGED <<faults, cancels, shielded, broken>>

\* BudgetGovernor.settle: the reservation is still held and covers the usage.
Settles == Reservation <= Reserved(ledger) /\ usage <= Reservation

\* A result may still fail: a reminder has no delivery to go by.
FixedSettle ==
    /\ mode = "fixed" /\ Reads("settle")
    /\ \/ /\ IF Settles THEN Goto("commit") \/ Goto("fail") ELSE Goto("clean")
          /\ UNCHANGED <<faults, cancels>>
       \/ Goto("clean") /\ Unread
    /\ UNCHANGED <<usage, shielded, spent, broken>>

FixedFail ==
    \E answered, cut \in BOOLEAN :
        /\ Boundary("fail", Failed(ledger, at, guard, usage, "known"), answered, cut)
        /\ IF answered THEN BoundaryDone(cut) ELSE Goto("clean") /\ UNCHANGED at
        /\ UNCHANGED <<guard, expected, usage, cancelled, broken>>

\* A commit that raised is looked up next: its caller was cancelled, memory had
\* moved under it, or it raised anything else.
Raised == {"interrupted", "conflict", "unanswered"}

FixedCommit ==
    \E answered, cut \in BOOLEAN :
        /\ Boundary("commit", Committed(ledger, at, guard, usage), answered, cut)
        /\ \/ answered /\ Goto(IF cut THEN "ended" ELSE "outcome")
           \/ ~ answered /\ cut /\ Goto("interrupted")
           \/ ~ answered /\ ~ cut /\ (Goto("conflict") \/ Goto("unanswered"))
        /\ UNCHANGED <<at, guard, expected, usage, cancelled, broken>>

\* The look-up finds the cycle running (it is failed, with its usage when memory
\* moved under it), committed, or ended by something else.
Reconciled(cause) ==
    /\ \/ State(ledger, at) = "running"
          /\ Goto(IF cause = "conflict" /\ Settles THEN "fail" ELSE "clean")
       \/ State(ledger, at) = "committed"
          /\ Goto(IF cause = "interrupted" THEN "ended" ELSE "outcome")
       \/ State(ledger, at) = "failed"
          /\ Goto(IF cause = "unanswered" THEN "clean" ELSE "ended")
    /\ UNCHANGED <<faults, cancels, broken>>

\* The look-up raises or is cancelled itself: only one that raises is cleaned up
\* after, and only if the commit was unanswered.  Else the cycle stays as it is.
Unreconciled(cause) ==
    \/ cause = "unanswered" /\ Fault /\ Goto("clean") /\ UNCHANGED <<cancels, broken>>
    \/ cause # "unanswered" /\ Fault /\ Goto("ended") /\ broken' = TRUE
       /\ UNCHANGED cancels
    \/ Cancel(TRUE) /\ Goto("ended") /\ broken' = TRUE /\ UNCHANGED faults

\* _reconcile_commit and what its caller makes of it.  The failure of a cycle in
\* conflict reads the budget first.
FixedReconcile ==
    \E cause \in Raised :
        /\ mode = "fixed" /\ Reads(cause)
        /\ \/ Reconciled(cause) \/ Unreconciled(cause)
           \/ cause = "conflict" /\ State(ledger, at) = "running"
              /\ Unread /\ Goto("clean") /\ UNCHANGED broken
        /\ UNCHANGED <<usage, shielded, spent>>

\* An outcome that raised is looked up too: if that raises, or the caller was
\* cancelled, the run ends although the outcome is there.
FixedOutcome ==
    \E answered, cut \in BOOLEAN :
        /\ Boundary("outcome", Outcome(ledger), answered, cut)
        /\ \/ ledger' # ledger /\ BoundaryDone(cut)
           \/ ~ answered /\ Leave
        /\ UNCHANGED <<guard, expected, usage, cancelled, broken>>

\* mutant: the cleanup charges a running cycle the one call it knows of
CleanupOneCall(revision) ==
    IF revision = 3 THEN Failed(ledger, at, revision, 1, "known")
    ELSE Failed(ledger, at, revision, 0, "known")

\* How a cleanup fails a cycle: the cost of one that ran is unknown.
Cleanup(revision) ==
    IF revision = 3 THEN Failed(ledger, at, revision, Reservation, "unknown")
    ELSE Failed(ledger, at, revision, 0, "known")

\* _terminalize_unknown fails the cycle as the guard knows it, in a task that
\* cancellation does not reach.
FixedClean ==
    /\ IF guard = 0
       THEN /\ mode = "fixed" /\ Reads("clean")
            /\ UNCHANGED <<faults, cancels, shielded, spent, broken>>
       ELSE \E answered \in BOOLEAN :
              /\ Boundary("clean", Cleanup(guard), answered, FALSE)
              /\ broken' = (broken \/ faults' # faults)
              /\ UNCHANGED <<at, guard, expected, cancelled>>
    /\ Goto("ended") /\ UNCHANGED usage

FixedStep ==
    \/ FixedAppend \/ FixedDecide \/ FixedBegin \/ FixedReserve \/ FixedStart
    \/ FixedCheck \/ FixedModel \/ FixedSettle \/ FixedFail \/ FixedCommit
    \/ FixedReconcile \/ FixedOutcome \/ FixedClean

(* ----------------------------- ReplayEngine ---------------------------- *)

\* An operation of the engine is cancelled before or after it applies.  Its
\* receipt must be the ledger's next position.
Owned == ledger'.entries = expected + 1

Proceed(place) ==
    IF place = "done" THEN NextBoundary ELSE Goto(place) /\ UNCHANGED at

\* Where the engine goes on, or where it goes when the operation raises.
ReplayWrite(place, op, next, raised) ==
    /\ mode = "replay" /\ pc = place
    /\ UNCHANGED <<mode, guard, usage, cancelled, spent, broken, recoveries, crashes>>
    /\ \/ \E answered \in BOOLEAN :
            /\ Await(op, answered) /\ UNCHANGED <<cancels, shielded>>
            /\ IF answered /\ Owned
               THEN Proceed(next) /\ expected' = expected + 1
               ELSE Goto(raised) /\ UNCHANGED <<at, expected>>
       \/ /\ Cancel(TRUE) /\ ledger' \in op \cup {ledger} /\ UNCHANGED faults
          /\ Goto("clean") /\ shielded' = TRUE /\ UNCHANGED <<at, expected>>

\* A step of the engine that does not write, when it raises or is cancelled.
ReplayStops ==
    \/ Goto("clean") /\ Fault /\ UNCHANGED <<cancels, shielded>>
    \/ Goto("clean") /\ Cancel(TRUE) /\ shielded' = TRUE /\ UNCHANGED faults

ReplayReads(place) == mode = "replay" /\ Reads(place)

ReplayAppend == ReplayWrite("append", Appended(ledger, at), "decide", "clean")

\* The policy may invoke although the budget is used up: the engine then stops.
ReplayDecide ==
    \E invoke \in BOOLEAN :
        ReplayWrite("decide", Decided(ledger, at, invoke),
            CASE ~ invoke -> "done"
              [] invoke /\ Reservation <= Available(ledger) -> "begin"
              [] OTHER -> "clean",
            "clean")

ReplayBegin == ReplayWrite("begin", Begun(ledger, at), "reserve", "clean")
ReplayReserve == ReplayWrite("reserve", Held(ledger, at, 1), "batch", "clean")

\* The batch is built from a fresh state, which must be the engine's own; what
\* is mandatory may not fit, and building it may raise.
ReplayBatch ==
    /\ ReplayReads("batch")
    /\ \/ /\ IF ledger.entries = expected
             THEN Goto("start") \/ Goto("overflow") \/ Goto("clean")
             ELSE Goto("clean")
          /\ UNCHANGED <<faults, cancels, shielded>>
       \/ ReplayStops
    /\ UNCHANGED <<usage, spent, broken>>

ReplayOverflow ==
    ReplayWrite("overflow", Failed(ledger, at, 2, 0, "known"), "done", "clean")

ReplayStart == ReplayWrite("start", Started(ledger, at, 2), "model", "clean")

\* The model is called: it answers, raises, or the call is cancelled.
ReplayModel ==
    /\ ReplayReads("model")
    /\ \E used \in 1..MaxUsage :
         /\ spent' = [spent EXCEPT ![at] = used]
         /\ \/ /\ Goto("settle") /\ usage' = used
               /\ UNCHANGED <<faults, cancels, shielded>>
            \/ Goto("unknown") /\ UNCHANGED <<usage, faults, cancels, shielded>>
            \/ /\ Cancel(TRUE) /\ Goto("clean") /\ shielded' = TRUE
               /\ UNCHANGED <<usage, faults>>
    /\ UNCHANGED broken

\* _fail_unknown_cost, after which the engine raises.
ReplayUnknown ==
    ReplayWrite("unknown", Failed(ledger, at, 3, Reservation, "unknown"), "clean", "clean")

\* An answer the reservation does not cover is of unknown cost; one that
\* cannot be used fails; nothing is committed to a run that others changed.
ReplaySettle ==
    /\ ReplayReads("settle")
    /\ \/ /\ IF ~ Settles THEN Goto("unknown")
             ELSE \/ Goto("fail") \/ Goto("clean")
                  \/ ledger.entries = expected /\ Goto("commit")
          /\ UNCHANGED <<faults, cancels, shielded>>
       \/ ReplayStops
    /\ UNCHANGED <<usage, spent, broken>>

ReplayFail ==
    ReplayWrite("fail", Failed(ledger, at, 3, usage, "known"), "done", "clean")

\* A commit that raises is followed by a failure with the same usage.
ReplayCommit ==
    ReplayWrite("commit", Committed(ledger, at, 3, usage), "outcome", "fail")

ReplayOutcome == ReplayWrite("outcome", Outcome(ledger), "done", "clean")

\* _terminalize_guard reads the cycle as the ledger has it.  After an error it
\* is awaited as it is, and a cancellation ends it.
CleanupStops ==
    /\ Goto("ended") /\ broken' = TRUE /\ UNCHANGED guard
    /\ \/ Fault /\ UNCHANGED cancels
       \/ ~ shielded /\ Cancel(TRUE) /\ UNCHANGED faults

ReplayClean ==
    /\ mode = "replay" /\ pc = "clean"
    /\ \/ /\ IF at \in Open(ledger)
             THEN Goto("close") /\ guard' = Len(ledger.history[at])
             ELSE Goto("ended") /\ UNCHANGED guard
          /\ UNCHANGED <<faults, cancels, broken>>
       \/ CleanupStops
    /\ UNCHANGED <<ledger, mode, at, expected, usage, cancelled, shielded, spent,
                    recoveries, crashes>>

ReplayClose ==
    /\ mode = "replay" /\ pc = "close"
    /\ \/ /\ \E answered \in BOOLEAN : Await(Cleanup(guard), answered)
          /\ Goto("ended") /\ broken' = (broken \/ faults' # faults)
          /\ UNCHANGED <<guard, cancels>>
       \/ ledger' \in Cleanup(guard) \cup {ledger} /\ CleanupStops
    /\ UNCHANGED <<mode, at, expected, usage, cancelled, shielded, spent,
                    recoveries, crashes>>

ReplayStep ==
    \/ ReplayAppend \/ ReplayDecide \/ ReplayBegin \/ ReplayReserve
    \/ ReplayBatch \/ ReplayOverflow \/ ReplayStart \/ ReplayModel
    \/ ReplayUnknown \/ ReplaySettle \/ ReplayFail \/ ReplayCommit
    \/ ReplayOutcome \/ ReplayClean \/ ReplayClose

(* ------------------------ recovery and crashes ------------------------- *)

\* recover_cycles fails the cycle that is running (a run has one open cycle at
\* most) and charges its whole reservation; it only lists a pending or
\* reserved one.
Recover ==
    /\ recoveries < MaxRecoveries
    /\ \E e \in Boundaries : ledger.decisions[e] # "none"
    /\ ledger' =
         IF \E e \in Boundaries : State(ledger, e) = "running"
         THEN LET e == CHOOSE e \in Boundaries : State(ledger, e) = "running" IN
              Add(ledger, e, Cycle("failed", Latest(ledger, e).held,
                                   Latest(ledger, e).held, "recovered"))
         ELSE ledger
    /\ recoveries' = recoveries + 1
    /\ UNCHANGED <<runner, spent, broken, faults, cancels, crashes>>

\* The runner's process dies; its ledger stays.
Crash ==
    /\ crashes < MaxCrashes /\ pc \notin {"ended", "dead"}
    /\ crashes' = crashes + 1 /\ Goto("dead")
    /\ UNCHANGED <<ledger, mode, at, guard, expected, usage, cancelled, shielded,
                    spent, broken, faults, cancels, recoveries>>

Next == FixedStep \/ ReplayStep \/ Recover \/ Crash

Spec == Init /\ [][Next]_vars

(* ----------------------------- properties ------------------------------ *)

Places == {"append", "decide", "begin", "reserve", "batch", "overflow", "start",
           "check", "model", "unknown", "settle", "fail", "commit", "outcome",
           "clean", "close", "ended", "dead"} \cup Raised

Records == [state : Unsettled \cup Settled, held : {0, Reservation},
            charged : 0..Reservation, cause : {"none", "known", "unknown", "recovered"}]

Ledgers == [events : 0..Length, cursor : 0..Length, entries : Nat,
            decisions : [Boundaries -> {"none", "silent", "invoke"}],
            first : [Boundaries -> 0..Length],
            history : [Boundaries -> Seq(Records)]]

\* Every variable has its type; a cycle has at most four revisions.
TypeOK ==
    /\ ledger \in Ledgers
    /\ \A e \in Boundaries : Len(ledger.history[e]) <= 4
    /\ mode \in Modes /\ pc \in Places /\ at \in Boundaries
    /\ guard \in 0..3 /\ expected \in 0..ledger.entries /\ usage \in 0..MaxUsage
    /\ cancelled \in BOOLEAN /\ shielded \in BOOLEAN /\ broken \in BOOLEAN
    /\ spent \in [Boundaries -> 0..MaxUsage]
    /\ faults \in 0..MaxFaults /\ cancels \in 0..MaxCancels
    /\ recoveries \in 0..MaxRecoveries /\ crashes \in 0..MaxCrashes

(* What is reserved and what is consumed stay within the run's limit       *)
(* through every lost answer, cancellation and recovery, and one cycle is  *)
(* open at a time (BudgetGovernor.reserve, _validate_cycle_budget).        *)
BudgetHeld ==
    /\ Reserved(ledger) + Consumed(ledger) <= Limit
    /\ \A e, f \in Open(ledger) : e = f

(* A settled cycle is charged what the model used in it, up to its         *)
(* reservation, whoever settled it: the runner with the answer, its        *)
(* cleanup, or a recovery while the answer was on its way.                 *)
ChargedInFull ==
    \A e \in Boundaries : State(ledger, e) \in Settled =>
        Latest(ledger, e).charged >= Min({spent[e], Reservation})

(* The committed cycles cover the events up to the memory cursor, each     *)
(* exactly once: the events of a failed cycle go to the next one.          *)
RangesTile ==
    LET committed == {e \in Boundaries : State(ledger, e) = "committed"}
        range(e) == ledger.first[e]..e IN
    /\ UNION {range(e) : e \in committed} = 1..ledger.cursor
    /\ \A e, f \in committed : e # f => range(e) \cap range(f) = {}

(* A runner that returns or raises leaves no cycle open.  The exceptions:  *)
(* of FixedStepRunner, the answer that told its guard of a new revision    *)
(* was lost, or the look-up of a commit that raised did not finish (it was *)
(* cancelled, or it raised where fixed_step.py:1184 and 1199 do not guard  *)
(* it); of both, the cleanup itself did not finish.                        *)
EndsSettled == pc = "ended" /\ ~ broken => Open(ledger) = {}

(* The replay engine is "an engine that settles every reserved cycle"      *)
(* (CHANGELOG.md:38-39).                                                   *)
EngineSettles ==
    mode = "replay" /\ pc = "ended" =>
        \A e \in Boundaries : State(ledger, e) \notin {"reserved", "running"}

=============================================================================
