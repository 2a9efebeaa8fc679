--------------------------- MODULE OpenCodePlugin ---------------------------
(***************************************************************************)
(* The OpenCode plugin inside its provider's JavaScript process            *)
(* (src/connectors/opencode/src/plugin.ts, transport.ts): it buffers the   *)
(* records of several sessions, flushes a session's buffer as a batch of   *)
(* chunks, each written by a launcher process, and keeps what it can when  *)
(* it is short of memory, of pending flushes or of launchers.  One action  *)
(* is the code between two awaits; callbacks of the provider come between. *)
(*                                                                         *)
(* Abstracted: the reducer (which provider events give which records),     *)
(* sizes (every record has size one), and the order of a JavaScript map:   *)
(* any of its entries may be the next.  How many chunks a batch takes is   *)
(* open, and so is whether a launcher succeeds.                            *)
(***************************************************************************)
EXTENDS Integers, SequencesExt

CONSTANTS
    Sessions,
    None,
    MaxBuffer,      \* MAX_SESSION_BUFFER_BYTES
    MaxRetained,    \* MAX_TOTAL_RETAINED_BYTES
    Reserve,        \* MAX_TERMINAL_RESERVE_BYTES
    MaxFlushes,     \* MAX_PENDING_FLUSH_SESSIONS
    MaxGapChecks,   \* MAX_POST_PENDING_GAP_CHECKS
    MaxDeferred,    \* MAX_DEFERRED_TERMINAL_SESSIONS
    MaxGaps,        \* MAX_PENDING_GAP_SESSIONS
    MaxWrites,      \* MAX_CONCURRENT_CAPTURE_LAUNCHERS
    MaxPasses,      \* MAX_DISPOSE_FLUSH_PASSES
    MaxChunks,      \* bound on the chunks of a batch
    MaxEvents       \* bound on the callbacks of the provider

\* The records of a session: how many, and the last one if it is the terminal.
Records == [others : 0..MaxBuffer, terminal : BOOLEAN]

Flushes ==
    [stage : {"queued", "next", "writing", "end", "finally"},
     records : Records, marker : BOOLEAN,
     chunks : 0..MaxChunks, left : 0..MaxChunks,
     started : 0..MaxChunks, delivered : 0..MaxChunks,
     result : {"attempted_failure", "delivered", "not_started"}]

ASSUME PluginAssumption ==
    /\ IsFiniteSet(Sessions) /\ None \notin Sessions \cup Flushes
    /\ {MaxRetained, Reserve, MaxGapChecks, MaxDeferred, MaxGaps, MaxEvents} \subseteq Nat
    /\ {MaxBuffer, MaxFlushes, MaxWrites, MaxPasses, MaxChunks} \subseteq Nat \ {0}

VARIABLES
    plugin,    \* what the plugin has in memory: see Init
    active,    \* #activeWrites: launchers that run
    closing,   \* dispose(): its phase, its pass, and the flushes it awaits
    events,    \* how many callbacks there were
    finished,  \* sessions whose session_finished record the reducer has given
    attempted, \* [Sessions -> batches with that record that a launcher got part of]
    loss,      \* [Sessions -> records lost: "none", "old": before the flush
               \* that runs now began, "new": since]
    overflow,  \* sessions whose gap did not fit into the table of gaps
    failed     \* a flush has ended in an attempted failure

vars == <<plugin, active, closing, events, finished, attempted, loss, overflow, failed>>

NoRecords == [others |-> 0, terminal |-> FALSE]
Size(r) == r.others + IF r.terminal THEN 1 ELSE 0
Terminal == [others |-> 0, terminal |-> TRUE]
OnlyTerminal(r) == IF r.terminal THEN Terminal ELSE NoRecords

\* A state of the synchronous code: the plugin and the two ghosts it feeds.
State == [p |-> plugin, loss |-> loss, overflow |-> overflow]
Become(m) == plugin' = m.p /\ loss' = m.loss /\ overflow' = m.overflow

Buffered(m) == {s \in Sessions : m.p.buffer[s] # NoRecords}
Flushing(m) == {s \in Sessions : m.p.flush[s] # None}
Gaps(m) == {s \in Sessions : m.p.gap[s] # "none"}

Init ==
    /\ plugin =
         [buffer |-> [s \in Sessions |-> NoRecords],
          flush |-> [s \in Sessions |-> None],   \* #pendingFlushes and its batch
          gap |-> [s \in Sessions |-> "none"],   \* "seen": by the running flush
          checks |-> {},                         \* #postPendingGapChecks
          deferred |-> {},                       \* #deferredTerminalSessions
          retained |-> 0]
    /\ active = 0
    /\ closing = [phase |-> "open", pass |-> 0, chain |-> {}, tails |-> {}]
    /\ events = 0
    /\ finished = {} /\ attempted = [s \in Sessions |-> 0]
    /\ loss = [s \in Sessions |-> "none"] /\ overflow = {} /\ failed = FALSE

-----------------------------------------------------------------------------
(* The synchronous methods: from a state to the state after them.          *)

\* markGap: a full table keeps nothing.
MarkGap(m, s) ==
    IF s \in Gaps(m) \/ Cardinality(Gaps(m)) < MaxGaps
    THEN [m EXCEPT !.p.gap[s] = "marked"]
    ELSE [m EXCEPT !.overflow = @ \cup {s}]

Lost(m, s) == [MarkGap(m, s) EXCEPT !.loss[s] = "new"]

KeepTerminalLeaking(m, s) ==   \* mutant: the terminal that is kept is not counted again
    LET kept == OnlyTerminal(m.p.buffer[s])
        dropped == Size(m.p.buffer[s]) - Size(kept)
        shrunk == [m EXCEPT !.p.buffer[s] = kept, !.p.retained = @ - Size(m.p.buffer[s])]
    IN  IF dropped = 0 THEN MarkGap(shrunk, s) ELSE Lost(shrunk, s)

\* #retainOnlyTerminal and the gap for the others.
KeepTerminal(m, s) ==
    LET kept == OnlyTerminal(m.p.buffer[s])
        dropped == Size(m.p.buffer[s]) - Size(kept)
        shrunk == [m EXCEPT !.p.buffer[s] = kept, !.p.retained = @ - dropped]
    IN  IF dropped = 0 THEN MarkGap(shrunk, s) ELSE Lost(shrunk, s)

DeferTerminalAlways(m, s) ==   \* mutant: the table has no bound
    [m EXCEPT !.p.deferred = @ \cup {s}]

DeferTerminal(m, s) ==
    IF Cardinality(m.p.deferred) < MaxDeferred
    THEN [m EXCEPT !.p.deferred = @ \cup {s}] ELSE m

\* #scheduleFlush
Schedule(m, s, force) ==
    LET records == m.p.buffer[s]
        some == records # NoRecords
    IN
    IF ~some /\ ~force THEN m
    ELSE IF s \notin Flushing(m) /\ Cardinality(Flushing(m)) >= MaxFlushes
    THEN IF ~some THEN m
         ELSE IF records.terminal THEN DeferTerminal(KeepTerminal(m, s), s)
         ELSE KeepTerminal(m, s)
    ELSE IF s \in Flushing(m)
    THEN LET kept == IF some THEN KeepTerminal(m, s) ELSE m IN
         IF some /\ ~records.terminal THEN kept
         ELSE IF s \in m.p.checks \/ Cardinality(m.p.checks) < MaxGapChecks
         THEN [kept EXCEPT !.p.checks = @ \cup {s}]
         ELSE IF records.terminal THEN DeferTerminal(kept, s) ELSE kept
    ELSE [m EXCEPT !.p.buffer[s] = NoRecords,
                   !.p.flush[s] = [stage |-> "queued", records |-> records,
                                   marker |-> FALSE, chunks |-> 0, left |-> 0,
                                   started |-> 0, delivered |-> 0,
                                   result |-> "attempted_failure"]]

\* #appendRecords of one record.
Append1(m, s, terminal) ==
    LET roomy == IF Size(m.p.buffer[s]) + 1 > MaxBuffer THEN Schedule(m, s, FALSE) ELSE m
        over == roomy.p.retained + 1 > MaxRetained
    IN  IF roomy.p.retained + 1 > MaxRetained + (IF terminal THEN Reserve ELSE 0)
        THEN Lost(roomy, s)
        ELSE [(IF terminal /\ over THEN MarkGap(roomy, s) ELSE roomy) EXCEPT
                 !.p.buffer[s] = [others |-> @.others + (IF terminal THEN 0 ELSE 1),
                                  terminal |-> terminal],
                 !.p.retained = @ + 1]

\* #restoreTerminal, of the flush that has just given its records back.
Restore(m, s) ==
    LET full == m.p.buffer[s] # NoRecords /\ Size(m.p.buffer[s]) + 1 > MaxBuffer
        roomy == IF full
                 THEN Lost([m EXCEPT !.p.buffer[s] = NoRecords,
                                     !.p.retained = @ - Size(m.p.buffer[s])], s)
                 ELSE m
    IN  IF m.p.buffer[s].terminal THEN DeferTerminal(m, s)
        ELSE IF roomy.p.retained + 1 > MaxRetained + Reserve THEN Lost(roomy, s)
        ELSE DeferTerminal([roomy EXCEPT !.p.buffer[s].terminal = TRUE,
                                         !.p.retained = @ + 1], s)

DeferredOnly(m) ==   \* mutant: terminals that could not be deferred are passed over
    LET deferred == m.p.deferred \ Flushing(m)
    IN  IF deferred # {}
        THEN {Schedule([m EXCEPT !.p.deferred = @ \ {s}], s, TRUE) : s \in deferred}
        ELSE {m}

\* #scheduleOneDeferredTerminal: the states it may lead to.
DeferredNext(m) ==
    LET deferred == m.p.deferred \ Flushing(m)
        buffered == {s \in Buffered(m) \ Flushing(m) : m.p.buffer[s].terminal}
    IN  IF deferred # {}
        THEN {Schedule([m EXCEPT !.p.deferred = @ \ {s}], s, TRUE) : s \in deferred}
        ELSE IF buffered # {} THEN {Schedule(m, s, TRUE) : s \in buffered}
        ELSE {m}

-----------------------------------------------------------------------------
(* Callbacks of the provider.                                              *)

Event ==
    /\ closing.phase = "open" /\ events < MaxEvents
    /\ events' = events + 1
    /\ UNCHANGED <<active, closing, attempted, failed>>

\* A tool event gives records and flushes nothing.
ToolEvent(s) ==
    /\ Event
    /\ s \notin finished
    /\ Become(Append1(State, s, FALSE))
    /\ UNCHANGED finished

Flushable(m, s, reduced) ==
    reduced \/ s \in Buffered(m) \cup Flushing(m) \cup Gaps(m)

\* session.idle, .error, .compacted; a repeated one gives no record.
Boundary(s, record) ==
    /\ Event
    /\ s \notin finished
    /\ LET m == IF record THEN Append1(State, s, FALSE) ELSE State IN
       Become(IF Flushable(m, s, record) THEN Schedule(m, s, TRUE) ELSE m)
    /\ UNCHANGED finished

\* session.deleted: the last event of a session.
Deleted(s) ==
    /\ Event
    /\ s \notin finished
    /\ finished' = finished \cup {s}
    /\ Become(Schedule(Append1(State, s, TRUE), s, TRUE))

-----------------------------------------------------------------------------
(* A flush: OpenCodeBatchTransport.flush in the session's queue.           *)

At(s, stage) == plugin.flush[s] # None /\ plugin.flush[s].stage = stage
UnchangedInFlush == UNCHANGED <<closing, events, finished>>

\* One chunk of a flush: a launcher if there is a permit, else it is skipped.
Written(f) == [f EXCEPT !.left = @ - 1, !.stage = IF f.left = 1 THEN "end" ELSE "next"]
Launch(s, f) ==
    IF active < MaxWrites
    THEN /\ active' = active + 1
         /\ plugin' = [plugin EXCEPT !.gap[s] = IF @ = "none" THEN @ ELSE
                           IF f.stage = "queued" THEN "seen" ELSE @,
                                     !.flush[s] = [f EXCEPT !.stage = "writing"]]
         /\ attempted' = [attempted EXCEPT ![s] =
                IF f.records.terminal /\ f.started = 0 THEN @ + 1 ELSE @]
    ELSE /\ plugin' = [plugin EXCEPT !.gap[s] = IF @ = "none" THEN @ ELSE
                           IF f.stage = "queued" THEN "seen" ELSE @,
                                     !.flush[s] = Written(f)]
         /\ UNCHANGED <<active, attempted>>

\* dispose() has nothing to do but to wait for a flush.
Waiting ==
    /\ closing.phase = "tails" => closing.tails # {}
    /\ closing.phase = "chain" => closing.chain # {}

Begin(s) ==
    LET f == plugin.flush[s]
        marker == plugin.gap[s] # "none"
        size == Size(f.records) + IF marker THEN 1 ELSE 0
    IN  /\ At(s, "queued")
        /\ loss' = [loss EXCEPT ![s] = IF @ = "none" THEN @ ELSE "old"]
        /\ \/ /\ size = 0
              /\ plugin' = [plugin EXCEPT !.flush[s].stage = "finally",
                                          !.flush[s].result = "delivered"]
              /\ UNCHANGED <<active, attempted>>
           \/ \E n \in 1..size :
                 /\ n <= MaxChunks
                 /\ Launch(s, [f EXCEPT !.marker = marker, !.chunks = n, !.left = n])
        /\ UNCHANGED <<overflow, failed>> /\ UnchangedInFlush

Next1(s) ==
    /\ At(s, "next")
    /\ Launch(s, plugin.flush[s])
    /\ UNCHANGED <<loss, overflow, failed>> /\ UnchangedInFlush

\* The launcher exits, fails, or is killed after two seconds.  The code of the
\* plugin runs as far as it can first, unless the launcher could not be started.
WriteEnds(s, ok) ==
    LET f == plugin.flush[s] IN
    /\ At(s, "writing")
    /\ ok => (\A t \in Flushing(State) : At(t, "writing")) /\ Waiting
    /\ active' = active - 1
    /\ plugin' = [plugin EXCEPT !.flush[s] =
           Written([f EXCEPT !.started = @ + 1, !.delivered = @ + IF ok THEN 1 ELSE 0])]
    /\ UNCHANGED <<attempted, loss, overflow, failed>> /\ UnchangedInFlush

EndForgetful(s) ==   \* mutant: a gap marked during the flush is forgotten
    LET f == plugin.flush[s]
        done(result) == [State EXCEPT !.p.flush[s].stage = "finally",
                                      !.p.flush[s].result = result]
    IN  /\ At(s, "end")
        /\ IF f.delivered = f.chunks
           THEN Become([done("delivered") EXCEPT
                    !.p.gap[s] = "none",
                    !.loss[s] = IF f.marker /\ @ = "old" THEN "none" ELSE @])
           ELSE Become(Lost(done(IF f.started = 0 THEN "not_started"
                                 ELSE "attempted_failure"), s))
        /\ failed' = (failed \/ (f.started > 0 /\ f.delivered < f.chunks))
        /\ UNCHANGED <<active, attempted>> /\ UnchangedInFlush

End(s) ==
    LET f == plugin.flush[s]
        done(result) == [State EXCEPT !.p.flush[s].stage = "finally",
                                      !.p.flush[s].result = result]
    IN  /\ At(s, "end")
        /\ IF f.delivered = f.chunks
           THEN Become([done("delivered") EXCEPT
                    !.p.gap[s] = IF @ = "marked" THEN @ ELSE "none",
                    !.loss[s] = IF f.marker /\ @ = "old" THEN "none" ELSE @])
           ELSE Become(Lost(done(IF f.started = 0 THEN "not_started"
                                 ELSE "attempted_failure"), s))
        /\ failed' = (failed \/ (f.started > 0 /\ f.delivered < f.chunks))
        /\ UNCHANGED <<active, attempted>> /\ UnchangedInFlush

\* What dispose awaits: the flush and those its end began, or the flush alone.
Ended(s, began) ==
    closing' = [closing EXCEPT
        !.chain = IF s \in @ THEN (@ \ {s}) \cup began ELSE @,
        !.tails = @ \ {s}]

FinallyRetrying(s) ==   \* mutant: an attempted terminal is restored too
    LET f == plugin.flush[s]
        freed == [State EXCEPT !.p.retained = @ - Size(f.records)]
        restored == IF f.records.terminal /\ f.result # "delivered"
                    THEN Restore(freed, s) ELSE freed
        ended == [restored EXCEPT !.p.flush[s] = None, !.p.checks = @ \ {s}]
    IN  /\ At(s, "finally")
        /\ \E m \in IF s \in plugin.checks THEN {Schedule(ended, s, TRUE)} ELSE {ended} :
              Become(m) /\ Ended(s, Flushing(m) \ Flushing(ended))
        /\ UNCHANGED <<active, attempted, events, finished, failed>>

\* The handler at the end of #scheduleFlush.
Finally(s) ==
    LET f == plugin.flush[s]
        freed == [State EXCEPT !.p.retained = @ - Size(f.records)]
        restored == IF f.records.terminal /\ f.result = "not_started"
                    THEN Restore(freed, s) ELSE freed
        ended == [restored EXCEPT !.p.flush[s] = None, !.p.checks = @ \ {s}]
        next == IF s \in plugin.checks THEN {Schedule(ended, s, TRUE)}
                ELSE IF f.result = "delivered" THEN DeferredNext(ended)
                ELSE {ended}
    IN  /\ At(s, "finally")
        /\ \E m \in next : Become(m) /\ Ended(s, Flushing(m) \ Flushing(ended))
        /\ UNCHANGED <<active, attempted, events, finished, failed>>

-----------------------------------------------------------------------------
(* dispose                                                                 *)

Dispose ==
    /\ closing.phase = "open"
    /\ closing' = [closing EXCEPT !.phase = "tails", !.tails = Flushing(State)]
    /\ UNCHANGED <<plugin, active, events, finished, attempted, loss, overflow, failed>>

KnownSessions ==
    Buffered(State) \cup Flushing(State) \cup Gaps(State)
        \cup plugin.checks \cup plugin.deferred

ScheduleAll(m, order) ==
    LET after[n \in 0..Len(order)] ==
            IF n = 0 THEN m ELSE Schedule(after[n - 1], order[n], TRUE)
    IN  after[Len(order)]

\* A pass flushes every session it knows, and awaits what it began ...
Pass ==
    /\ closing.phase = "tails" /\ closing.tails = {}
    /\ closing.pass < MaxPasses /\ KnownSessions # {}
    /\ \E order \in SetToSeqs(KnownSessions) :
          LET m == ScheduleAll(State, order) IN
          /\ Become(m)
          /\ closing' = [closing EXCEPT !.phase = "chain", !.pass = @ + 1,
                                        !.chain = Flushing(m) \ Flushing(State)]
    /\ UNCHANGED <<active, events, finished, attempted, failed>>

\* ... and then every flush that runs.
PassAwaited ==
    /\ closing.phase = "chain" /\ closing.chain = {}
    /\ closing' = [closing EXCEPT !.phase = "tails", !.tails = Flushing(State)]
    /\ UNCHANGED <<plugin, active, events, finished, attempted, loss, overflow, failed>>

Disposed ==
    /\ closing.phase = "tails" /\ closing.tails = {}
    /\ closing.pass = MaxPasses \/ KnownSessions = {}
    /\ closing' = [closing EXCEPT !.phase = "done"]
    /\ UNCHANGED <<plugin, active, events, finished, attempted, loss, overflow, failed>>

-----------------------------------------------------------------------------
Provider ==
    \/ \E s \in Sessions : ToolEvent(s) \/ Deleted(s)
    \/ \E s \in Sessions, record \in BOOLEAN : Boundary(s, record)
    \/ Dispose

FlushStep(s) ==
    Begin(s) \/ Next1(s) \/ (\E ok \in BOOLEAN : WriteEnds(s, ok)) \/ End(s) \/ Finally(s)

Closing == Pass \/ PassAwaited \/ Disposed

Next == Provider \/ Closing \/ \E s \in Sessions : FlushStep(s)

Spec == Init /\ [][Next]_vars

-----------------------------------------------------------------------------
(* The bounds of the plugin and of its transport hold: the tables of       *)
(* pending flushes, gap checks, deferred terminals and gaps, the launchers *)
(* and the bytes of a session's buffer.                                    *)
TypeOK ==
    /\ plugin \in [buffer : [Sessions -> Records],
                   flush : [Sessions -> {None} \cup Flushes],
                   gap : [Sessions -> {"none", "seen", "marked"}],
                   checks : SUBSET Sessions, deferred : SUBSET Sessions,
                   retained : 0..(MaxRetained + Reserve)]
    /\ active = Cardinality({s \in Sessions : At(s, "writing")}) /\ active <= MaxWrites
    /\ \A s \in Sessions : Size(plugin.buffer[s]) <= MaxBuffer
    /\ Cardinality(Flushing(State)) <= MaxFlushes
    /\ Cardinality(Gaps(State)) <= MaxGaps
    /\ Cardinality(plugin.checks) <= MaxGapChecks /\ plugin.checks \subseteq Flushing(State)
    /\ Cardinality(plugin.deferred) <= MaxDeferred
    /\ closing \in [phase : {"open", "tails", "chain", "done"}, pass : 0..MaxPasses,
                    chain : SUBSET Sessions, tails : SUBSET Sessions]
    /\ closing.chain \cup closing.tails \subseteq Flushing(State)
    /\ finished \subseteq Sessions /\ attempted \in [Sessions -> Nat]
    /\ loss \in [Sessions -> {"none", "old", "new"}] /\ overflow \subseteq Sessions
    /\ events \in 0..MaxEvents /\ failed \in BOOLEAN

\* What the plugin has of each session: what is buffered and what its flush has.
Kept(p) == [s \in Sessions |->
    Size(p.buffer[s]) + IF p.flush[s] = None THEN 0 ELSE Size(p.flush[s].records)]

(* #retainedBytes is the bytes of what is held, over every path that drops, *)
(* restores or replaces records: a leak would end the capture of every      *)
(* session of the process, a deficit would undo its memory bound.           *)
RetainedExact == plugin.retained = SumFunctionOnSet(Kept(plugin), Sessions)

(* "may replace middle records with a content-free transport gap": records *)
(* that were lost leave a gap that is still pending, until a batch that    *)
(* begins with it is delivered whole.  The exception is a gap that did not *)
(* fit into the table of gaps.                                             *)
LossReported ==
    \A s \in Sessions : loss[s] # "none" => s \in Gaps(State) \cup overflow

\* Where the terminal of a session is: buffered, in a batch that no launcher
\* has got any of, or attempted, as often as it was.
TerminalsOf(s) ==
    LET f == plugin.flush[s] IN
    attempted[s]
        + (IF plugin.buffer[s].terminal THEN 1 ELSE 0)
        + (IF f # None /\ f.records.terminal /\ f.started = 0 /\ f.stage # "writing"
           THEN 1 ELSE 0)

(* "reserves and schedules one terminal control per buffered session",     *)
(* "does not replay that terminal under a fresh batch identity": no        *)
(* pressure drops the terminal of a session the reserve has room for, and  *)
(* no retry sends it twice.                                                *)
TerminalOnce ==
    \A s \in Sessions :
        /\ TerminalsOf(s) <= IF s \in finished THEN 1 ELSE 0
        /\ s \in finished /\ Cardinality(Sessions) <= Reserve => TerminalsOf(s) = 1

(* No terminal waits in an idle plugin if no batch has failed in part,     *)
(* however short of launchers, of pending flushes and of deferrals it was: *)
(* a batch that is delivered schedules one that waits.                     *)
TerminalsScheduled ==
    Flushing(State) = {} /\ ~failed => \A s \in Sessions : ~plugin.buffer[s].terminal
=============================================================================
