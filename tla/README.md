# SalienceGate in TLA+

These modules specify the parts of SalienceGate where processes, crashes and
retries meet, model-check them with TLC, and prove theorems about them with
TLAPS. Paths below are relative to `src/saliencegate/` unless they start
otherwise; `PROJECT.json` maps every definition to the lines it stands for.

1. [The system](#1-the-system) · 2. [Modules](#2-modules) · 3. [Runs](#3-runs)
· 4. [Fairness](#4-fairness) · 5. [Proofs](#5-proofs) · 6. [Findings](#6-findings)
· 7. [What is left out](#7-what-is-left-out) · 8. [Plan](#8-plan)

## 1. The system

SalienceGate watches coding agents. *Universal Shadow Capture* takes events
from provider hooks and bridge plugins and keeps them as authenticated local
evidence. The *runtime* decides from such events whether an agent should be
reminded of something, and delivers the reminder through an adapter.

### Capture

```
 provider --hook process--> HookReceiver --admit-----------> spool --append--> store
 plugin  --chunk on stdin-> bridge        --admit_transport->  |                 ^
                                                               +----- drain -----+
 user    --commands: connect, disconnect, delete, status------> store, spool, installation
```

| Component | State | Operations | Interaction | What is hard | What makes it correct |
|---|---|---|---|---|---|
| **Spool** (`capture/spool.py`) | a directory: one file per queued intake, one marker per session, one health file | `admit`, `admit_transport`, `drain`, `health`, `observe_health`, `clear_drop_health_if_empty`, `maintenance` | calls the store, inside its lock, through a callback; used by short-lived hook processes and by commands | every operation is a sequence of file publications and removals under one cross-process lock; a process may die between any two of them or inside one; quota, backlog and barrier interact | a marker brackets its session's entries; a drop the caller was told of is counted once; nothing overtakes a queue; an entry goes only when the store has it |
| **Store** (`capture/store.py`) | SQLite: connections, sessions, chained events, chunk receipts, tombstones, feedback | register and transition a connection, `append`, `append_transport_chunk`, `mark_session_health`, `delete_session`, `delete_project` | called by hooks, by drains and by commands, each in a process of its own | the same intake comes directly, in a chunk and from the spool, in any order; a deletion is several transactions; limits; a store of an older version | a session's ledger only grows at its end, holds a producer event once and never comes back after deletion; reported coverage is true; no operation makes a store that a later one calls tampered with |
| **Hooks** (`integrations/hook.py`, one module per provider) | none of their own | check receipt and connection, translate a message into intakes, call the spool, mark health | spool, store, installation receipt | cut off by the provider's timeout at any point; the checks are stale when the intake is admitted | an intake is only admitted for a connection that may still be drained |
| **Installation** (`integrations/installation.py`, `config_files.py`) | journal, receipt, launcher, bundle and bootstrap, an owned span in the provider's configuration | install, upgrade, uninstall, recover | commands, provider's configuration file | dies between two files; the user edits the configuration meanwhile | without a journal everything or nothing is installed; the user's text changes by the user's hand only |
| **Commands** (`commands/capture/`) | none | connect, disconnect, delete, status | spool, store, installation: three locks, no transaction over them | two commands at once, hooks between any two steps, a command that dies | what was queued is stored before its connection retires; disconnect run again ends |
| **Global capture** (`commands/capture/global_*.py`) | parent connections with children and exclusions | connect, disconnect and exclude for every project of a user | the same store and installation | as for projects | – |
| **Feedback** (`capture/feedback.py`, the feedback part of `capture/store.py`) | per session a chain of label revisions and the anchor row behind it | `record_feedback`, `feedback_history`, `list_feedback`, and the deletions of the store | store, studies that freeze their labels at a time | the order of the rows is the order of their stamps, and the clock may be set back; two writers; a loss reported after the label; deletion in two transactions | what is written always verifies, a part of it never does; a label is not earlier than the session's closure; a freeze that has passed stays as it was |
| **Connectors** (`src/connectors/*`, TypeScript) | a record buffer per session, pending flushes, gap marks, deferred terminals, launchers that run, an account of retained bytes | provider events, flush, dispose | a launcher process per chunk, over its stdin | five bounded tables and a memory limit; callbacks between any two awaits of several flushes | every loss leaves a gap; the last record of a session is kept and sent once; the account is exact |

### Runtime

| Component | State | Operations | Interaction | What is hard | What makes it correct |
|---|---|---|---|---|---|
| **Delivery outbox** (`runtime/delivery.py`, ledger operations in `repository/memory.py`) | one record per delivery, revised by compare-and-set, with its claim and attempt identifiers | `deliver`, `recover`; claim, begin attempt, complete, mark unknown, reject, recover | adapter, repository | the adapter's answer may be lost; calls are cancelled at any `await`; recovery runs beside live calls; replays draw the same identifiers | a reminder is not sent twice to an adapter that cannot tell; a recorded outcome is true; an answer is not lost |
| **Engine** (`runtime/engine.py`, `fixed_step.py`, `fixed_step_core.py`) | none beside the ledger: a position, the revision of the open cycle | append, decide, begin, reserve, start, call the model, settle, commit, fail, clean up | repository, model, outbox | lost answers, and cancellation at any `await`, between reservation and settlement | each cycle is settled once and charged what was used; a runner that ends leaves none open |
| **Budget** (`runtime/budget.py`) | derived from the ledger: reserved and consumed amounts | reserve, settle | engine, repository | usage above a reservation; limits at the boundary | reserved and consumed stay within the limits |
| **Repository** (`repository/`) | event-sourced ledger and projection per run, in memory or SQLite | event and decision records, cycle, cursor and delivery operations, recovery | engine, outbox | a lost answer is retried with the same revision; recovery beside a live runner | one open cycle per run; committed cycles tile the trace; the projection is that of the ledger |
| **Memory, signals, policy, intervention** | none between cycles (the projection carries it) | pure functions of a cycle's inputs | engine | cooldowns and windows | deterministic |
| **Shadow analysis, experiments, benchmarks, artifacts, models, prompts** | files read and written once | sequential | – | – | – |

`PROJECT.json` lists every component with its status, and under `hazards` what
is hard to test, line by line, with the properties that would catch it.

## 2. Modules

| Module | Models |
|---|---|
| `CaptureAdmission` | abstract: what the spool promises |
| `CaptureSpool` | `capture/spool.py`, one action per file operation |
| `CaptureSpoolProofs` | its theorems |
| `CaptureLedger` | abstract: what the store promises of its evidence |
| `CaptureStore` | `capture/store.py`, one action per transaction |
| `CaptureStoreProofs` | its theorems |
| `ProviderInstallation` | `integrations/installation.py`, `config_files.py`, one action per file |
| `CaptureCommands` | `commands/capture/` connect, disconnect, delete, and `integrations/hook.py`: the composition of installation, connections and spool |
| `CaptureCommandsProofs` | the theorems of both |
| `FeedbackLog` | abstract: what the feedback promises a reader |
| `CaptureFeedback` | the feedback part of `capture/store.py`, one action per transaction |
| `CaptureFeedbackProofs` | its theorems |
| `OpenCodePlugin` | the OpenCode connector (`src/connectors/opencode/src`), one action per stretch of code between two awaits |
| `OpenCodePluginProofs` | its theorems |
| `DeliveryOutbox` | `runtime/delivery.py` and the delivery operations of the repository |
| `DeliveryOutboxProofs` | its theorems |
| `RunCycles` | `runtime/engine.py`, `fixed_step.py`, `fixed_step_core.py`, `budget.py` and the cycle operations of the repository |
| `RunCyclesProofs` | its theorems |
| `SumTheorems` | lemmas about `SumFunctionOnSet`, the sum of a function over a set, which the budget and the plugin's account of memory are |
| `MC…` | the instances TLC checks, one module for each of the above |

### CaptureSpool

Every public operation runs under one exclusive lock (`_locked`), so at most
one process is inside; `pc` is the place of the lock holder, `"idle"` when
there is none. One action is one file publication or removal, or one call of
the store; a step that only reads or branches moves `pc` alone. What the code
keeps in local variables is `kind` (which operation), `todo` (intakes still to
place) and `fresh` (`pending_quota_barrier`).

| State | Code |
|---|---|
| `entries` | the `*.capture-intake` files |
| `marker[s]` | the `*.capture-session` file of a session: none, pending, acknowledged |
| `health` | the health file: drops, `acknowledged_marker`, `bridge_barrier` |
| `debris` | a `.saliencegate-atomic-*` file of a killed publication |
| `store` | external: what the store holds (its `append` is idempotent, see CaptureStore) |
| `receipts`, `phantom`, `fenced` | history, for properties only |

| Actions | Code |
|---|---|
| `AdmitDirect`, `AdmitQueued` | `admit`, up to the decision between store and spool |
| `TransportDirect`, `TransportQueued`, `TransportFenced` | `admit_transport`, likewise, with the bridge barrier |
| `Reconcile*`, `Persist*` | `_reconcile_session_markers`, `_persist_orphan_degradation_locked`, which begin every enqueue, drain and clear |
| `EnsureMarker`, `MarkerFound`, `PublishEntry`, `CountQuotaDrop`, `SettleQuotaDrop` | `_enqueue_locked` |
| `CheckBacklog`, `Tally*`, `SealFallback`, `RequireBarrier*` | the fallback of a chunk under a backlog, and its barrier |
| `DrainStart`, `DrainAppend`, `UnlinkEntry`, `RemoveMarker`, `DrainFinished` | `drain` |
| `ClearStart`, `ClearDeclined`, `EraseHealth` | `clear_drop_health_if_empty` |
| `Crash` | the process ends between two file operations: the lock goes, the files stay |
| `Kill` | it ends inside a publication: the temporary file stays as well |

Two abstractions deserve a word. The kind of drop reason and the byte quota are
left out: `MaxEvents` is whichever limit is met first. And `store` never loses
intakes here, while CaptureStore's deletions do; a deletion drains under the
same lock, so the spool's promises do not depend on it.

`Promise!Spec` (`CaptureAdmission`) is the promise without files: an intake
passes a queue of its session only if there is none, what waits stays until it
is stored, drops only accumulate, a dropped chunk fences the later ones, and
both are forgotten only when nothing waits. The refinement maps `queued` to
`entries`, `dropped` to the count in the health file and `fence` to its
barrier; marker steps stutter.

### CaptureStore

One action is one write transaction. `session[s]` stands for the rows of a
session: its state, `degraded` (coverage), `ledgered` (it has a receipt
ledger), its events with their source, and the receipts with the event count
each one vouches for (`post`). `Answer` takes the checks of
`_append_authenticated_in_transaction` in their order; `Appended` is what the
transaction leaves. A chunk runs them over its intakes (`AppendedAll`), and
either everything and a receipt is committed, or the quarantine of the sessions
concerned. `ChainVerifies` is what `_verify_transport_chain` says of counts,
sources and order; where the code would raise `CaptureStoreIntegrityError`
the action rolls back and raises `alarm`.

A deletion has several transactions, and `deletion` tells where its process is;
`Crash` ends it. Commands hold the spool's maintenance lock during a deletion
(`commands/capture/delete.py`), so there is one at a time, and so a connection
is not set draining meanwhile, which needs that lock; connecting and the last
step of disconnecting need none and interleave. Hooks are allowed to append in
between although the lock would hold most of them off: the model has more
interleavings than the code. A connection is a hook's or a bridge's (`bridges`,
chosen by `Init` among `Profiles`), which decides whether its sessions take
single intakes or chunks; an intake of `Fallbacks` comes from the spool's
fallback of a dropped chunk.

`Ledger!Spec` (`CaptureLedger`) is the promise: a ledger grows at its end, is
well formed, holds a producer digest once per connection, and a deleted session
does not return until its whole connection is deleted. The refinement hides a
session from the moment it is marked for deletion, before its rows go.

`LegacyEvents` are sessions that a version-one store left open. They passed that
version's checks, which is what `LegacyAssumption` says of them: a start first,
no end yet, the event limit, and a producer digest once per connection
(`UNIQUE (connection_id, producer_event_digest)` and the `event_count` check of
`capture/migrations/0001_capture_store.sql`).

### DeliveryOutbox

One delivery and any number of calls of `DeliveryWorker.deliver`. `record` is
the latest revision, `seen[w]` the record a call read or wrote last; a
repository operation applies when both have one revision (`Current`,
`_delivery_base`) and is a conflict otherwise. `pc[w]` is the `await` a call
stands at. A call draws the identifiers `ClaimOf[w]` and `AttemptOf[w]`; two
calls may draw the same ones, as replays of a trace do.

| Actions | Code |
|---|---|
| `Read`, `Reject`, `Claim`, `Begin` | `deliver` up to the recorded attempt, with `reject_delivery`, `claim_delivery`, `begin_delivery_attempt` |
| `BeginCancelled`, `Verify` | a cancellation while the attempt is being recorded, and the check whether it was |
| `CallDelivered`, `CallFailed`, `CallUnclear`, `Land` | the adapter: a receipt, `AdapterDeliveryFailedError`, anything else, and a reminder taken later |
| `Complete`, `Reread`, `Recomplete`, `Interrupted` | `_complete` with its second try after a recovery |
| `Mark` | `_unknown` |
| `Stop` | the process ends, or a call is cancelled where nothing protects it |
| `RecoverDeliveries` | `recover_deliveries`, which nothing keeps from running beside live calls |

`DeliveryWorker.recover` is `RecoverDeliveries` followed by calls of `deliver`.

### ProviderInstallation

One provider in one project, a hook or a bridge (`kind`). Every variable of
`files` is a file: `journal` and `receipt` with what they say, `launcher` and
`bootstrap` with the generation they were made for, `bundle` there or not, and
`config` as the user's text with or without our span. `holder` has the
installation lock and `at` names its next file, so an install is
`PublishPending`, `PublishLauncher`, then the config (hook) or
`PublishBundle` and `PublishBootstrap` (bridge), `PublishEnabled`,
`DeleteJournal`; a removal is `PublishDraining` and the removals in the other
order. `InstallFresh`, `InstallUpgrade`, `InstallNoop`, `UninstallBegin` and
their refusals are the checks under the lock before the first write, and
`Recover` the roll-forward of an earlier journal, with what
`_recover_install` and `_recover_uninstall` require of the files they meet.
`EditConfig` is the user's editor, at any time.

The config is the user's file, and the editor takes no lock, so each look at it
and each write is a step: `KeepConfig` where there is nothing to write,
otherwise `CheckConfig` (the last look, `config_files.py:1243`, or 1309 for a
file that goes), `ReplaceConfig` (1256 and 1311) and `ConfirmConfig` (the file
is read back). `EditConfig` may come between any two. `os.replace` overwrites
whatever is there by then; only a file that is new or goes fails when the user
was first (`Replaceable`). Where a look finds something else than was planned
or written, `ConfigConflict` ends the call and leaves the journal to the next
one. Removing our span from an untouched file and from an edited one are two
code paths with one result in the model (`Replacement`): the user's text as it
was planned for. `UserTextKept` therefore excepts what the user saves between
`CheckConfig` and `ReplaceConfig`, and nothing else; section 6 has the
observation.

### CaptureCommands

`cmd[p]` is the command a process runs, its generation, its place, and the
connections it listed last (`seen`); `connection[g]` is the row of a
generation in the store. What CaptureSpool and CaptureStore model in full is
here what the commands see of it: `queue` is the set of generations with a
queued intake, `spoolHolder` the maintenance lock, and each store transaction
a compare-and-set of one connection.

| Actions | Code |
|---|---|
| `Preflight`, `Register`, `Connecting`, `ConnectAnswered`, `Reregister`, `Enable`, `Superseded` | connect, up to the point where earlier generations are to be retired |
| `LockSpool`, `Revive`, `Drain`, `Retire`, `Relist`, `Settle` | retiring connections, shared by connect and disconnect: enable what is pending, drain under the lock, set draining, and, after the lock, disabled |
| `List`, `Resolve`, `Inspect`, `Uninstalling`, `UninstallAnswered` | disconnect: what is installed, and at most two calls to remove it |
| `DeleteStart`, `DeleteDrain`, `DeleteMark`, `DeletePurge` | delete --all |
| `HookStart`, `HookAdmit` | a hook's checks, and its admission later |
| `InstallStep`, `Edit`, `Crash` | the installation's own steps; an editor; the end of a process, which gives its locks back |

Errors of the store and the file system end a command as `Crash` does. The dry
run of a connect changes nothing, and its checks are among those of the real
one. The store exists: a disconnect before any connect made one is left out.

### CaptureFeedback

`rows[s]` are the rows of `feedback_labels` of a session, as a set: the table
has no column for a revision number, for the order or for which row is the
anchor, so every operation sorts the rows by their stamps and takes the newest
for the anchor (`Anchor`, `Revisions`, `Latest`). A row's identifier is a keyed
digest over its domain and the chain of verdicts up to it; in the model it is
that data. `Verified` is `_verified_feedback_rows`, and `Stamp` the time a new
revision gets: the clock's, but not before the closure of the session and not
before the last anchor. `closedAt` of a session is kept as `_update_session`
keeps it.

| Actions | Code |
|---|---|
| `SetClock` | time passes or is set back |
| `Grow`, `Quarantine`, `MarkHealth` | what `append`, chunks and `mark_session_health` do to the row of a session (CaptureStore has the whole of it) |
| `Record` | `record_feedback`: a label in force is not written again, a full history is refused, otherwise the old anchor goes and a revision with its anchor comes |
| `MarkSession`, `PurgeSession`, `MarkProject`, `PurgeProject` | the transactions of a deletion that see feedback |

`feedback_history` and `list_feedback` change nothing: they are the operators
`History` and `Frozen`. A transaction that loses its answer is one whose command
asks again, and a command that dies before the commit did nothing, so neither
needs an action. The states of connections are reduced to `deleting`. Two
writers are two `Record` steps in either order; the write lock of SQLite makes
each one atomic.

`Log!Spec` (`FeedbackLog`) is the promise: a history only grows at its end,
each verdict differs from the one before and is later, there are at most so
many, and a deleted session has none and gets none until its project is
deleted. The refinement hides a session from its mark for deletion on, when the
store begins to refuse its readers.

### OpenCodePlugin

JavaScript runs one callback at a time, so an action is the code from one
`await` to the next. `plugin` is what `plugin.ts` keeps: per session a buffer,
a pending flush with its batch and a gap mark, the sessions with a check after
their flush, the deferred terminals, and the retained size. `active` counts
launchers. The synchronous methods (`MarkGap`, `KeepTerminal`,
`DeferTerminal`, `Schedule`, `Append1`, `Restore`, `DeferredNext`) are
operators from a state to the state after them, as they call one another
inside one action.

| Actions | Code |
|---|---|
| `ToolEvent`, `Boundary`, `Deleted` | the provider's callbacks: a record; a record or none and a flush; the terminal and a flush |
| `Begin`, `Next1`, `WriteEnds`, `End`, `Finally` | a flush in `transport.ts`: its first chunk, a further one, the exit of a launcher, the result, and the handler at the end of `#scheduleFlush` |
| `Dispose`, `Pass`, `PassAwaited`, `Disposed` | `dispose()`: bounded passes that flush every known session, and what they await |

Every record has size one, so limits in bytes are limits in records; a JavaScript
map is enumerated in any order; how many chunks a batch is cut into is open; a
launcher succeeds or not.

### RunCycles

`ledger` is what the repository holds of one run: how far its events go, the
decision of each boundary, each cycle's revisions (`history`), and the memory
cursor. A repository operation (`Appended`, `Decided`, `Begun`, `Held`,
`Started`, `Failed`, `Committed`, `Outcome`) is the set of ledgers it may
leave, empty when it refuses; a revision that is there already is answered
again. `Await` applies it and answers, refuses, or raises with or without
having applied. `mode` picks the runner:

| Actions | Code |
|---|---|
| `FixedAppend` … `FixedOutcome`, `FixedClean` | `FixedStepRunner`: operations are finished although the caller is cancelled (`_complete_boundary`), errors are looked up in the ledger, the cycle is closed at the revision the runner knows |
| `FixedReconcile` | `_reconcile_commit` after a commit that was cancelled, refused or unanswered (`Raised`), and what each of its callers does with its result (`Reconciled`) or when it raises or is cancelled (`Unreconciled`) |
| `ReplayAppend` … `ReplayOutcome`, `ReplayClean`, `ReplayClose` | `ReplayEngine`: a cancellation cuts an operation before or after it applies; the cleanup reads the cycle from the ledger, shielded after a cancellation only |
| `Recover`, `Crash` | `recover_cycles` by anyone at any time; the end of the runner's process |

The seven amounts of a budget are one amount. `spent` is what the model really
used, which the answer (`usage`) may not report: history, for properties only.

## 3. Runs

| Run | Question | Bounds |
|---|---|---|
| `spool` | Do markers bracket entries, is every drop counted once, do the files implement `CaptureAdmission`, does every operation end, and is what is queued stored in the end? | 3 sessions (one single, two of a bridge), 2 single intakes, 2 chunks, room for 2, backlog 0, 3 hooks, 2 crashes, 1 kill; drains and clears are unbounded |
| `store` | Does any order of intakes, chunks, retries, contradictions, collisions, fallbacks, overflows, connections and deletions lead to a store that is refused, a receipt without its events, coverage that is not there, a loss that is forgotten, or a deletion that does not end? | 2 providers of one project, of hooks or of bridges; 2 sessions, 6 chunks or 5 single intakes, 3 events and 2 receipts per session |
| `commands` | Is an installation all or nothing, the user's text kept, everything stored before a retirement, and does disconnect end? | 2 processes, 2 generations, 2 connects, and either 1 delete, 2 crashes and an edit one command after the other, or 1 crash and two commands at once; 1 hook |
| `connectors` | Is every loss reported, every terminal kept, scheduled and sent once, and the account of memory exact? | 3 sessions, 5 provider events, room for 2 records, 2 pending flushes, 1 launcher, 1 gap check, 1 deferral, 2 gaps, 2 chunks per batch, 2 disposal passes |
| `delivery_race` | Can racing, cancelled, stopped, replaying calls and recoveries send twice, record something false, or lose an answer? | 3 calls, 2 of them with the same identifiers; both kinds of adapter |
| `runs` | Is the budget held to, is what the model used charged, do committed cycles tile the trace, does a runner that ends leave nothing open? | both runners; 3 events, budget for 2 reservations, usage up to more than one; 2 lost answers, 2 cancellations, 2 recoveries, 1 crash |
| `feedback` | However the clock is set and whatever happens to the session between two labels: do the rows verify, and no part of them; is no label before the closure; does a passed freeze keep what it lists; is `FeedbackLog` implemented? | 2 sessions, 2 labels, 3 revisions, a clock that shows 0, 1 or 3 in any order, freezes at 0 to 5; symmetric in sessions and in labels |
| `spool_stale_ack`, `store_stuck`, `store_legacy`, `commands_stuck`, `runs_cleanup` | findings, section 6 | as small as the finding allows |

Why the bounds are enough. *Spool:* two crashes interrupt an
operation and the one that repairs what it left, which is where a drop could be
counted twice; room for two makes a session with
two entries, two sessions with one and the full spool all happen; the third
session is what a barrier of another session needs; a chunk with a fallback of
three intakes is dropped halfway.
*Store:* three events reach both the overflow of a session of two chunks and
its regular end; two receipts reach the receipt limit; two sessions suffice for
a collision, which has two sides. *Commands:* an upgrade needs two generations
and two connects; a recovery that dies needs two crashes; two commands that
overlap are every pair. A disconnect is unbounded. *Connectors:* with three
sessions each bounded table overflows while another session's flush runs; five
events fill one buffer and end all sessions; two passes are one that awaits what
another began. *Outbox:* two calls race and a third one overtakes both after
recovery; attempts per call are bounded by the code. The theorems of section 5 hold without bounds. *Run:* three events are a
cycle, one that takes over the range of a failed one, and one the budget has no
room for; two lost answers hit an operation and its cleanup. *Feedback:* in
three revisions a label comes back to an earlier one, so that two rows of a
history say the same; the gap between the times 1 and 3 lets the clock be before,
at, between and after the stamps of a history; rows of two sessions are
independent, and the second session is there for the project deletion.

The counters of hooks, crashes, kills, overlaps, edits, faults, cancellations
and recoveries count down environment events and bound nothing inside an
operation. Operations of the store are not bounded: the session limits are the
code's own, only smaller. `store_stuck`, `store_legacy`, `commands`, `feedback`
and the spool's runs check deadlock; the outbox's, connectors' and runs' models end (every
call returns, the plugin is disposed of, the trace is over), so there
`CHECK_DEADLOCK FALSE` is set.

### The properties

- Spool: `QueuedSessionsMarked`, `AcknowledgedCounted`, `DropsAccounted`,
  `DropsNotOvercounted`, `FenceKept`, `NoOvertaking`, `ImplementsAdmission`,
  `LockReleased`, `QueuedEventuallyStored`.
- Store: `NothingTampered`, `ReceiptsBacked`, `CoverageHonest`, `LossKept`,
  `ImplementsLedger`, `SessionDeletionEnds`.
- Installation and commands: `AllOrNothing`, `UserTextKept`, `RetiredDrained`,
  `QueueAccepted`, `DisconnectEnds`.
- Feedback: `FeedbackVerifies`, `TruncationDetected`, `LabelsFollowClosure`,
  `FreezeKept`, `ImplementsLog`.
- Connector: `RetainedExact`, `LossReported`, `TerminalOnce`,
  `TerminalsScheduled`.
- Outbox: `AtMostOnce`, `OutcomeTrue`, `OwnedAttempts`, `AnswerKept`,
  `OutcomeFinal`.
- Run: `BudgetHeld`, `ChargedInFull`, `RangesTile`, `EndsSettled`.
- One `TypeOK` per module. The store's and the connector's, which state the
  bounds of the tables, are checked by their runs; for the others type
  correctness is a theorem (section 5), and no run repeats it.

`DropsNotOvercounted` allows for each crash the drops that were in flight
(`phantom`): after a crash between a marker and its entry the code cannot tell
whether an intake was lost and counts one, by design. `LossReported` excepts a
gap for which the table of gaps had no room, which the code drops.
`TerminalOnce` promises that a terminal is kept only where the reserve has room
for one of each session. `QueueAccepted` ends with a project deletion, after
which the store refuses what is queued for it.

Each property has a mutant: a definition changed as a plausible mistake would
change it (marked `mutant` beside the definition it replaces), under which TLC
finds the property violated.

## 4. Fairness

- `FairSpec` (spool), `WF_vars(Step)`: the process that holds the lock runs. It
  waits for nothing there but the store, which answers or is busy within its
  timeout.
- `DrainFairSpec` adds `SF` for starting drains and for a drain's append
  finding the store able to answer. These two are assumptions about users
  (every maintenance command drains) and about the machine, not about the code.
  `QueuedEventuallyStored` names its exception: a health file the spool itself
  refuses (`HealthRefused`), which a finding and the first two observations of
  section 6 lead to.
- `FairSpec` (store), `SF` for resuming and purging a marked session, `WF` for
  the project deletion's steps: a command that failed is run again and not
  interrupted for ever. `docs/security.md` tells users to run it again.
- `FairSpec` (commands), `WF` for the installation's steps, for each process's
  steps, and for starting a disconnect: a command that runs goes on, and a user
  whose disconnect failed runs it again. Connect and delete need not be run.
  `DisconnectEnds` has a list of exceptions, `Blocked`: a removal that died
  late (`Stranded`, the finding `commands_stuck`), a config the user changed so
  that the span cannot be planned for (`Edited`), a queued intake the store
  refuses, a deletion that was begun, and a receipt whose connection a deletion
  took away.
- Feedback has no liveness property: its operations are one transaction each.
- The outbox, the connector and the run have none either: after `Stop`
  or `Crash` they wait for a recovery that only a user starts, and the plugin's
  disposal is bounded by its passes.

## 5. Proofs

Theorems hold for all values of the constants under the modules' assumptions:
any sessions, intakes, chunks, limits and numbers of failures in the spool; any
connections, profiles, sessions, chunks of any length and limits in the store; any
calls and identifiers, shared or not, in the outbox; any processes, generations,
texts, crashes and overlapping commands in the installation; any trace, limit,
reservation, usage and numbers of lost answers in a run; any sessions and sizes
of the bounded tables in the connector; any sessions, labels, clock times,
freezes and numbers of revisions in the feedback.

**CaptureSpoolProofs.** `SpoolInvariant` is `Spec => []SpoolInv`. None of the
safety properties is inductive alone. That a drop is counted
(`DropsAccounted`) needs to know, at the step that returns the receipt, that
the health file was written two steps earlier (`CountedFirst`); that an
acknowledged marker is counted needs that a clear reaches the health file only
when no marker is left (`ClearedIsEmpty`); that every queued session has its
marker needs that it is there when its entry is published and that its entries
are gone when it is removed (`MarkersBracketEntries`); and all of them need to
know which operation holds the lock at each place (`HolderHasItems`). There is
one lemma per group of actions. From it follow `SpoolTypes`,
`SpoolSessionsMarked`, `SpoolAcknowledgedCounted`, `SpoolDropsAccounted` and
`SpoolFenceKept`, the action property `SpoolNoOvertaking`, and
`SpoolImplementsAdmission`: initial states map to initial states, and each file
operation maps to a step of `CaptureAdmission` or to a stutter.

`SpoolDropsNotOvercounted` takes a second invariant, `CountedOnce`, inductive
relative to the first. The health report adds to the recorded drops the pending
orphans that no record accounts for (`Uncounted`), and idle, that is no more
than the receipts and what interrupted operations had in flight (`Told`).
While an operation runs, the same holds with an allowance at each place: one
drop that is recorded and not yet returned (`settle`), a fallback that is
(`seal`), or a marker whose session has lost its last entry and is neither
queued nor counted (`unmark`, `tally`: `ToldBut`). What makes a reconciliation
count an orphan once is that the orphan recorded last, if it is still pending,
is the next one in key order: a run that starts over acknowledges it instead of
counting it again. `ExposedCovers` says that a crash at any place leaves no
more than the drops in flight there.

**CaptureStoreProofs.** A transaction computes the sessions it leaves from those
it reads, so the core of the invariant, `Whole`, is about such a set of
sessions: each row is well formed, its receipts in order and backed by the
events they count (`RowWhole`), and a connection has a digest once (`Distinct`).
The operators keep it one by one: a quarantine, an append, the ledger of a
legacy session, a receipt. In the middle of a chunk `Whole` is all there is, and
it is enough for the chain check to pass there. A committed row is also `Sealed`:
the chain verifies without anything pending, and whole coverage is covered by
receipts. The intakes of a chunk run through a recursive function; `RunGrows`
is an induction on how far it went (`Grown`: what was found is a prefix, and
each intake so far is among the events), and shows on the way that neither a
gap nor an unverified row is ever the answer inside a chunk. `Inv` adds that the session of a deletion that goes on is
marked (`MarkedFirst`), without which a purge could fail. From it follow
`StoreTypes`, `StoreReceiptsBacked`, `StoreCoverageHonest` and the action
property `StoreLossKept`. `StoreNothingTampered` has a hypothesis, that there
was no version-one session: with one the property is false, which is the
finding `store_legacy`; without, every bridge session has its ledger from its
first row on (`NoLegacyRows`). `StoreImplementsLedger` maps the initial states
and every step: an admission extends one ledger or stutters, the mark of a
session is its deletion and its purge a stutter, the mark of a project and its
purge are wipes.

**DeliveryOutboxProofs.** `OutboxInvariant` is `Spec => []OutboxInv`. The core
is `SeenPast`: what a call has seen is the record itself or an older revision,
so that a compare-and-set that succeeds knows the state it starts from
(`SeenPlaces`). `History` keeps identifiers that were used, from which `Alone`
follows: no two calls own one attempt, and without deduplication no two calls
begin. `Recorded` ties a recorded outcome to the call that saw it. From this
follow `OutboxTypes`, `OutboxAtMostOnce`, `OutboxOutcomeTrue`,
`OutboxOwnedAttempts` and the action property `OutboxOutcomeFinal`; a second
invariant, `Kept`, inductive relative to the first, gives `OutboxAnswerKept`.
The only assumption is `IdentifiersAssumption`: calls draw claims and attempts
that are not the null value. Nothing says that they differ.

**CaptureCommandsProofs.** `InstallInv` is inductive
over the files: the holder of the installation lock has a journal (`Placed`),
each place of an install knows which files are written (`Written`) and each
place of a removal which are gone (`Removed`), and a call that did not have to
recover still has the config it planned for (`Planned`). A crash forgets the
place and keeps the journal, and `AllOrNothing` says nothing while there is one,
so a recovery may start from any files; that is why the roll-forward rewrites
every one of them. `CommandsInvariant` carries it through the commands, whose
places (`Fits`) know who holds the spool's lock and that the queue is empty at
the retirement. From it follow `CommandsTypes`, `CommandsAllOrNothing` and the
action properties `CommandsUserTextKept` and `CommandsRetiredDrained`. The first
rests on `Planned` at the place `"replace"`: there the replacement has the text
that was read at the last look, so the write changes the user's text only where
the file is no longer what was read, which is the exception the property names.
`CommandsQueueAccepted` needs a second invariant, `Undeleted`: before a project
deletion no step takes a connection out of the states the store accepts, so what
a hook read when it started is good enough when it is admitted. The assumptions
are that generations and texts are numbers and that the null value is none of
the records.

**CaptureFeedbackProofs.** `FeedbackInv` is `TypeOK`, `FeedbackVerifies` and
`LabelsFollowClosure` together, and inductive (`FeedbackInvariant`): the stamp
of the first label needs the time of closure to be a time, and the stamp of a
later one needs the rows it comes behind to be those of a chain. The argument
is about the rows and not about the steps. The rows of a sound chain are sorted
back into it, whatever the stamps are (`RowsSorted`), so what `Verified` accepts
is the rows of exactly one chain (`VerifiedIsSound`, `SoundVerifies`); a chain
with one more verdict at the time `Stamp` gives is sound, and its rows are what
`Record` leaves (`RevisionExtends`). `PartIsWhole` is the reason why a
truncation is seen: the newest row that is left must be an anchor, there is one
anchor only, and its chain names every row. From these follow
`FeedbackTypeCorrect`, `FeedbackAlwaysVerifies`, `LabelsAfterClosure`,
`TruncationAlwaysDetected` and the action property `FreezesKept`.
`FeedbackImplementsLog` needs `Buried` beside the invariant, that a session with
a tombstone has no row. The assumptions: times are natural numbers, no time of
closure is none of them, and a session may have at least one revision.

**RunCyclesProofs.** The invariant has a half that is about the ledger alone and
one about the runner. `LedgerInv` says what a cycle's revisions may be
(`Shaped`: pending, reserved, running, settled, each with what it holds and what
it is charged), that one cycle is open at most, that what is held and charged is
within the limit, and that committed ranges tile the trace up to the cursor
(`Tiled`). Every repository operation keeps it, whoever calls it and however
often, so it needs nothing of the runners; `BudgetHeld` and `RangesTile` follow.
What a runner knows is the other half: which boundaries are settled behind it
(`Frontier`), what the model used and the settlement will be charged (`Usage`),
and that at each place it holds the revision an open cycle has (`Known`), unless
it is `broken`. The three places of a look-up (`Raised`) are among them: there
the cycle is at the revision the runner started it at, or was committed, or was
failed by somebody else. From it follow `ChargedInFull` and `EndsSettled`, for
both runners, with lost answers, cancellations and recoveries between any two
operations. The assumptions say that the bounds are numbers, and the trace, the
reservation and the usage not zero.

**OpenCodePluginProofs.** The synchronous methods of the plugin are operators on
its state, so the core of the invariant, `Sound`, is about such a state: the
account of retained bytes is the sum of what the sessions keep and within its
limits (`Account`), the tables are bounded (`Tables`), the counters of a flush
agree with its stage (`Chunked`), and each loss is a gap that is kept, or goes
with the batch (`Reported`). Each method keeps it, and the handlers compose the
methods. `Once` counts the terminals of a session nothing was sent of, with the
attempts it had; `Blame` says who has the launcher that a starved batch misses,
which is what `TerminalsScheduled` rests on: nobody waits for a flush that does
not come. A pass of `dispose()` runs through the sessions in any order; it is
proved by induction over the set of sessions it has met. From this follow
`PluginTyped`, `PluginRetainedExact`, `PluginLossReported`,
`PluginTerminalOnce` and `PluginTerminalsScheduled`. The assumptions: finitely
many sessions, limits that are numbers, and buffers, flushes, launchers, passes
and chunks that are at least one.

**SumTheorems.** What the last two use: a sum changes by what one element does
(`SumRemove`), and is bounded by the sums of larger terms. The community module
defines the sum by a fold over a chosen order; the lemmas first show that the
order does not matter, by a least counterexample over cardinalities, since an
induction theorem with an operator as its parameter cannot be instantiated here.

**Model-checked only.** The liveness properties (`LockReleased`,
`QueuedEventuallyStored`, `SessionDeletionEnds`, `DisconnectEnds`), which the
prover does not reach. Every safety invariant, action property and refinement
that a passing run checks has its theorem.

## 6. Findings

Each is a run with `expect: violation`; the counterexample is what TLC prints.

- **`spool_stale_ack`** (`capture/spool.py:1288`). The health file keeps an
  `acknowledged_marker` after a drain removed that marker. When the session is
  queued again its new marker is pending, and `health()` reports an integrity
  failure nobody caused. Where a bridge barrier is up its marker is an orphan,
  and every later enqueue and drain is refused as well (line 1393); without one
  it takes a crash that leaves an orphan.
- **`store_stuck`** (`capture/store.py:4305`). A provider connected between the
  two transactions of a project deletion leaves connections of which some are
  deleting and some disabled; the project can then never be deleted.
- **`store_legacy`** (`capture/store.py:5824`). The first chunk that overflows a
  session of a version-one store is answered with an integrity error, because
  the events of before have no receipts.
- **`commands_stuck`** (`commands/capture/disconnect.py:189`). A disconnect that
  dies after it removed the launcher (or a bridge's bundle) leaves a journal
  that no later disconnect completes: what is needed to resolve the
  installation is what it removed. `docs/security.md:175-176` says that running
  the command again completes it.
- **`runs_cleanup`** (`runtime/engine.py:1610`). After an error the replay
  engine awaits its cleanup as it is; a cancellation that arrives there ends it
  and leaves the cycle open with its budget held. After a cancellation the same
  cleanup is shielded. `CHANGELOG.md:38-39` speaks of an engine that settles
  every reserved cycle.

They limit the runs that pass as far as the properties say: `HealthRefused` in
`QueuedEventuallyStored`, `Stranded` in `DisconnectEnds`, `broken` in
`EndsSettled`; `NothingTampered` is checked with no session of an older store.

Observations that no run is about, most of which contradict no statement of the
repository:

- Clearing the spool's health removes the bridge barrier's marker before the
  health file that names it (`capture/spool.py:1382`). A crash in between leaves
  a spool that drains and bridge admissions refuse for good, with the error of a
  failed authentication (the last disjunct of `HealthRefused`).
- A process killed inside a publication leaves a temporary file, and a spool
  directory with an unknown name is refused by every listing
  (`capture/spool.py:846`).
- A cancellation that reaches a call inside the outbox's `_unknown` itself
  (`Stop` at `"mark"`) leaves the attempt to the next recovery, while
  cancellations at the adapter and at the recording of the attempt do not.
- Two connects of different generations at once: the older one, delayed between
  its installation and its activation, retires the newer connection, while the
  launcher that is installed is the newer one's. A connect of an older
  generation after a newer installation is refused and leaves its connection
  pending until the next retirement.
- The plugin's disposal is best effort: after its last pass it may return with
  terminals buffered. A gap for which the table has no room leaves no trace.
- `publish_config_bytes` says of itself that it will "Atomically replace exactly
  the bytes observed by the caller" (`integrations/config_files.py:1189`). It
  looks at the file a last time (line 1243) and replaces it later (1256), and
  `delete_config_bytes` compares (1309) and unlinks (1311): what an editor saves
  in between is lost. `UserTextKept` excepts it.
- When a commit of `FixedStepRunner` was cancelled or met a conflict, the
  look-up that follows is not guarded (`runtime/fixed_step.py:1184`, 1199), and
  when it was unanswered, only against exceptions, not against a cancellation
  (1222). A look-up that fails there ends the runner without its cleanup: a
  cycle the commit did not settle stays running with its budget held, until
  `recover_cycles`. `EndsSettled` excepts it (`broken`).
- `FixedStepRunner` closes a cycle at the revision it was last told of, so a
  lost answer of begin, reserve or start leaves the cycle open;
  `recover_cycles` fails running cycles and only lists pending and reserved
  ones.

## 7. What is left out

- *Abstracted in the models:* digests, tags, keys and file identities (what is
  stored is authentic: tampering is another subject, and of the store's
  defences only the anchor of the feedback is modelled, against rows that are
  lost), times except in CaptureFeedback, wording and health codes, the Windows paths, the store's cache of verified heads (it only spares
  a check), the content of envelopes, receipts, events, memory and
  interventions, the syntax of configuration files. A conversion is modelled by
  its result: `DrainKey` is the order of the encoded keys, `Valid` what a
  record's validator accepts.
- *Not modelled yet:* global parents, children and exclusions, and
  the queries of the store; the global commands; bundles that move between
  generations; disconnect where no store was made; the windowed transport of the
  other connectors and the reducers (which provider event gives which record);
  batching, scheduling and the trigger policy; two runners on one run; the
  repository's integrity chains and rebuilding.
- *Not worth modelling:* offline evaluation, exports, prompts, the command
  line: sequential, with no state shared between processes.

## 8. Plan

In order of importance.

1. *Two runners on one run*: what `expected` and the one open cycle keep apart;
   an abstract module of a run's budget that both runners implement.
2. *The windowed transport* of the other connectors: windows, permits and gap
   generation, beside OpenCodePlugin.
3. *Global capture*: parents, children and exclusions, over CaptureCommands.
4. *The trigger policy's* cooldowns, as operators
   checked against a reference definition.
