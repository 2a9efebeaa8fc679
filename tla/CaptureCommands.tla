--------------------------- MODULE CaptureCommands ---------------------------
(***************************************************************************)
(* The commands connect, disconnect and delete --all for one provider of   *)
(* one project, run by several processes at once, with the hooks that the  *)
(* installed launchers start (src/saliencegate/commands/capture,           *)
(* integrations/hook.py).  They compose three pieces of state that no      *)
(* transaction spans: the files of ProviderInstallation under its own      *)
(* lock, the connections in the capture store, one per host generation,    *)
(* and the spool, whose lock the commands hold while they retire a         *)
(* connection.  One action is one store transaction, file or lock step.    *)
(*                                                                         *)
(* Abstracted: what CaptureSpool and CaptureStore model (here the spool is *)
(* the set of generations with a queued intake); errors of the store or    *)
(* the file system, which end a command as Crash does; and the dry run     *)
(* before a connect, whose unlocked checks are among those of the install. *)
(***************************************************************************)
EXTENDS ProviderInstallation

\* The bounds, one record for each kind of behaviour to check: how many connect
\* and delete --all commands, how many hooks, how many commands that end in the
\* middle, how many that start beside a running one, and how many edits.
CONSTANT Limits
Bounded == {"connects", "deletes", "hooks", "crashes", "overlaps", "edits"}

ASSUME CommandsAssumption ==
    /\ Processes \subseteq Nat
    /\ Limits \subseteq [Bounded -> Nat]

VARIABLES
    connection,  \* [Generations -> state in the store]
    queue,       \* generations with an intake in the spool
    hooks,       \* generations with a hook that has passed its checks
    spoolHolder, \* the process that has the spool lock
    cmd,         \* [Processes -> the command it runs, and where it is]
    limit,       \* the bounds of this behaviour
    spent        \* [Bounded -> what it has used of them]

vars == <<installVars, connection, queue, hooks, spoolHolder, cmd, limit, spent>>

Retirable == {"enabled", "draining", "disabled"}
States == Retirable \cup {"absent", "pending", "deleting"}
Idle == [op |-> "none", gen |-> 0, bytes |-> 0, at |-> "idle", seen |-> <<>>]

Present(seen) == {g \in Generations : seen[g] # "absent"}
Others(seen, g) == Present(seen) \ {g}

Init ==
    /\ InstallInit
    /\ connection = [g \in Generations |-> "absent"]
    /\ queue = {} /\ hooks = {} /\ spoolHolder = None
    /\ cmd = [p \in Processes |-> Idle]
    /\ limit \in Limits /\ spent = [b \in Bounded |-> 0]

At(p, op, label) == cmd[p].op = op /\ cmd[p].at = label
Goto(p, label) == cmd' = [cmd EXCEPT ![p].at = label]
Listed(p, label) == cmd' = [cmd EXCEPT ![p].at = label, ![p].seen = connection]
Leave(p, label) == cmd' = [cmd EXCEPT ![p].at = label, ![p].seen = <<>>]

\* The command returns or raises; a lock it holds is given back.
Finish(p) ==
    /\ cmd' = [cmd EXCEPT ![p] = Idle]
    /\ spoolHolder' = IF spoolHolder = p THEN None ELSE spoolHolder

Set(g, from, to) ==
    connection[g] = from /\ connection' = [connection EXCEPT ![g] = to]

OnlyCommand == UNCHANGED <<installVars, hooks, limit, spent>>

Spend(what) ==
    /\ \A b \in what : spent[b] < limit[b]
    /\ spent' = [b \in Bounded |-> IF b \in what THEN spent[b] + 1 ELSE spent[b]]
    /\ UNCHANGED limit

\* A command starts, beside others or not.  A process is only a name: it takes
\* the first that is free.
Start(p, what) ==
    /\ cmd[p] = Idle /\ \A q \in Processes : q < p => cmd[q] # Idle
    /\ Spend(what \cup IF \A q \in Processes : cmd[q] = Idle THEN {} ELSE {"overlaps"})

-----------------------------------------------------------------------------
(* connect                                                                 *)

ConnectStart(p, g) ==
    /\ Start(p, {"connects"})
    /\ Bridge => \A h \in Generations : g <= h
    /\ cmd' = [cmd EXCEPT ![p] = [Idle EXCEPT !.op = "connect", !.gen = g,
                                              !.at = "preflight"]]
    /\ UNCHANGED <<installVars, connection, queue, hooks, spoolHolder>>

\* _preflight_store_lifecycle
Preflight(p) ==
    /\ At(p, "connect", "preflight")
    /\ IF \/ \E g \in Generations : connection[g] = "deleting"
          \/ connection[cmd[p].gen] = "draining"
       THEN Finish(p)
       ELSE Goto(p, "register") /\ UNCHANGED spoolHolder
    /\ UNCHANGED <<connection, queue>> /\ OnlyCommand

Registered(g) ==
    connection' = IF connection[g] = "absent"
                  THEN [connection EXCEPT ![g] = "pending"] ELSE connection

Register(p) ==
    /\ At(p, "connect", "register")
    /\ Registered(cmd[p].gen)
    /\ Goto(p, "call")
    /\ UNCHANGED <<queue, spoolHolder>> /\ OnlyCommand

Connecting(p) ==
    /\ At(p, "connect", "call")
    /\ answer[p] = "none"
    /\ InstallCall(p, cmd[p].gen)
    /\ Goto(p, "answer")
    /\ UNCHANGED <<connection, queue, hooks, spoolHolder, limit, spent>>

Take(p) == /\ answer' = [answer EXCEPT ![p] = "none"]
           /\ UNCHANGED <<kind, files, holder, at, plan, recovering, edits>>

ConnectAnswered(p) ==
    /\ At(p, "connect", "answer") /\ answer[p] # "none"
    /\ Take(p)
    /\ IF answer[p] = "enabled"
       THEN Goto(p, "activate") /\ UNCHANGED spoolHolder
       ELSE Finish(p)
    /\ UNCHANGED <<connection, queue, hooks, limit, spent>>

\* _activate_store_connection: register again, and enable what was found.
Reregister(p) ==
    LET g == cmd[p].gen
        state == IF connection[g] = "absent" THEN "pending" ELSE connection[g] IN
    /\ At(p, "connect", "activate")
    /\ Registered(g)
    /\ CASE state = "enabled" -> Goto(p, "others") /\ UNCHANGED spoolHolder
         [] state \in {"pending", "disabled"} ->
               /\ cmd' = [cmd EXCEPT ![p].at = "enable",
                                     ![p].seen = [connection EXCEPT ![g] = state]]
               /\ UNCHANGED spoolHolder
         [] OTHER -> Finish(p)
    /\ UNCHANGED queue /\ OnlyCommand

Enable(p) ==
    LET g == cmd[p].gen IN
    /\ At(p, "connect", "enable")
    /\ \/ /\ Set(g, cmd[p].seen[g], "enabled")
          /\ Leave(p, "others") /\ UNCHANGED spoolHolder
       \/ connection[g] # cmd[p].seen[g] /\ Finish(p) /\ UNCHANGED connection
    /\ UNCHANGED queue /\ OnlyCommand

\* Earlier generations: nothing to retire, or the spool is needed.
Superseded(p) ==
    /\ At(p, "connect", "others")
    /\ LET states == {connection[g] : g \in Others(connection, cmd[p].gen)} IN
       IF "deleting" \in states \/ states \subseteq {"disabled"}
       THEN Finish(p)
       ELSE Goto(p, "lock") /\ UNCHANGED spoolHolder
    /\ UNCHANGED <<connection, queue>> /\ OnlyCommand

Keeps(p) == IF cmd[p].op = "connect" THEN {cmd[p].gen} ELSE {}

-----------------------------------------------------------------------------
(* disconnect                                                              *)

DisconnectStart(p) ==
    /\ Start(p, {})
    /\ cmd' = [cmd EXCEPT ![p] = [Idle EXCEPT !.op = "disconnect", !.at = "list"]]
    /\ UNCHANGED <<installVars, connection, queue, hooks, spoolHolder>>

ListEnabled(p) ==   \* mutant: with every connection disabled nothing is left to do
    /\ At(p, "disconnect", "list")
    /\ LET states == {connection[g] : g \in Present(connection)} IN
       IF states \subseteq {"disabled"} \/ "deleting" \in states
       THEN Finish(p) ELSE Goto(p, "lock") /\ UNCHANGED spoolHolder
    /\ UNCHANGED <<connection, queue>> /\ OnlyCommand

List(p) ==
    /\ At(p, "disconnect", "list")
    /\ LET states == {connection[g] : g \in Present(connection)} IN
       CASE states = {} \/ "deleting" \in states -> Finish(p)
         [] states = {"disabled"} -> Listed(p, "resolve") /\ UNCHANGED spoolHolder
         [] OTHER -> Goto(p, "lock") /\ UNCHANGED spoolHolder
    /\ UNCHANGED <<connection, queue>> /\ OnlyCommand

-----------------------------------------------------------------------------
(* Retiring connections under the spool lock: both commands.               *)

LockSpool(p) ==
    /\ cmd[p].op \in {"connect", "disconnect"} /\ cmd[p].at = "lock"
    /\ spoolHolder = None
    /\ IF \/ \E g \in Generations : connection[g] = "deleting"
          \/ \E g \in Keeps(p) : connection[g] # "enabled"
          \/ Present(connection) = {}
       THEN Finish(p)
       ELSE Listed(p, "revive") /\ spoolHolder' = p
    /\ UNCHANGED <<connection, queue>> /\ OnlyCommand

\* A pending connection is enabled, so that its queued intakes are accepted.
Pending(p) == {g \in Generations \ Keeps(p) : cmd[p].seen[g] = "pending"}

Revive(p) ==
    /\ cmd[p].at = "revive"
    /\ \/ \E g \in Pending(p) :
             \/ /\ Set(g, "pending", "enabled")
                /\ cmd' = [cmd EXCEPT ![p].seen[g] = "enabled"]
                /\ UNCHANGED spoolHolder
             \/ connection[g] # "pending" /\ Finish(p) /\ UNCHANGED connection
       \/ /\ Pending(p) = {}
          /\ Leave(p, "drain") /\ UNCHANGED <<connection, spoolHolder>>
    /\ UNCHANGED queue /\ OnlyCommand

Accepted == {g \in queue : connection[g] \in Retirable}

\* The spool is drained to the last entry, or the command ends: the store
\* refuses the entries of a connection that is not there, pending or deleting.
DrainUnchecked(p) ==   \* mutant: entries that remain do not matter
    /\ cmd[p].at = "drain" /\ cmd[p].op # "delete"
    /\ \E done \in SUBSET Accepted : queue' = queue \ done
    /\ Listed(p, "retire") /\ UNCHANGED spoolHolder
    /\ UNCHANGED connection /\ OnlyCommand

Drain(p) ==
    /\ cmd[p].at = "drain" /\ cmd[p].op # "delete"
    /\ \/ /\ queue = Accepted /\ queue' = {}
          /\ Listed(p, "retire") /\ UNCHANGED spoolHolder
       \/ /\ queue # Accepted
          /\ \E done \in SUBSET Accepted : queue' = queue \ done
          /\ Finish(p)
    /\ UNCHANGED connection /\ OnlyCommand

Enabled(p) == {g \in Generations \ Keeps(p) : cmd[p].seen[g] = "enabled"}
Unretirable(p) ==
    \/ Present(cmd[p].seen) = {}
    \/ \E g \in Present(cmd[p].seen) : cmd[p].seen[g] \notin Retirable
    \/ \E g \in Keeps(p) : cmd[p].seen[g] # "enabled"

Retire(p) ==
    /\ cmd[p].at = "retire"
    /\ \/ \E g \in Enabled(p) :
             \/ /\ Set(g, "enabled", "draining")
                /\ cmd' = [cmd EXCEPT ![p].seen[g] = "draining"]
                /\ UNCHANGED spoolHolder
             \/ connection[g] # "enabled" /\ Finish(p) /\ UNCHANGED connection
       \/ Unretirable(p) /\ Finish(p) /\ UNCHANGED connection
       \/ /\ Enabled(p) = {} /\ ~Unretirable(p)
          /\ spoolHolder' = None
          /\ IF cmd[p].op = "connect" THEN Leave(p, "relist") ELSE Goto(p, "resolve")
          /\ UNCHANGED connection
    /\ UNCHANGED queue /\ OnlyCommand

\* After the lock: every connection must be retired by now, the draining ones
\* become disabled.
Relist(p) ==
    /\ cmd[p].at = "relist"
    /\ Listed(p, "settle")
    /\ UNCHANGED <<connection, queue, spoolHolder>> /\ OnlyCommand

Draining(p) == {g \in Generations \ Keeps(p) : cmd[p].seen[g] = "draining"}
Unsettled(p) ==
    \/ Present(cmd[p].seen) = {}
    \/ \E g \in Others(cmd[p].seen, 0) \ Keeps(p) :
          cmd[p].seen[g] \notin {"draining", "disabled"}
    \/ \E g \in Keeps(p) : cmd[p].seen[g] # "enabled"

\* connect meets a connection that is not retired in the course of its loop,
\* disconnect before it.
Settle(p) ==
    /\ cmd[p].at = "settle"
    /\ \/ /\ cmd[p].op = "disconnect" => ~Unsettled(p)
          /\ \E g \in Draining(p) :
               \/ /\ Set(g, "draining", "disabled")
                  /\ cmd' = [cmd EXCEPT ![p].seen[g] = "disabled"]
                  /\ UNCHANGED spoolHolder
               \/ connection[g] # "draining" /\ Finish(p) /\ UNCHANGED connection
       \/ (Draining(p) = {} \/ Unsettled(p)) /\ Finish(p) /\ UNCHANGED connection
    /\ UNCHANGED queue /\ OnlyCommand

-----------------------------------------------------------------------------
(* disconnect, after the retirement: what is installed, and removing it.   *)

\* _resolve_installed_spec binds the call to the receipt, whose connection must
\* be one of those seen.  Unless the receipt is disabled, the launcher (and the
\* bundle) must be there to be read.
Unresolvable(seen) ==
    /\ receipt # None
    /\ \/ seen[receipt.gen] = "absent"
       \/ /\ receipt.state # "disabled"
          /\ launcher # receipt.gen \/ (Bridge /\ ~bundle)

Resolve(p) ==
    /\ At(p, "disconnect", "resolve")
    /\ IF Unresolvable(cmd[p].seen) THEN Finish(p)
       ELSE \E g \in IF receipt = None THEN Generations ELSE {receipt.gen} :
               /\ cmd' = [cmd EXCEPT ![p].at = "inspect", ![p].gen = g, ![p].seen = <<>>,
                             ![p].bytes = IF Uninstalled THEN 0 ELSE launcher]
               /\ UNCHANGED spoolHolder
    /\ UNCHANGED <<connection, queue>> /\ OnlyCommand

\* _uninstall_to_disabled: nothing to do, or at most two calls, the first of
\* which may complete an interrupted install.
Inspect(p) ==
    /\ At(p, "disconnect", "inspect")
    /\ IF journal = None /\ Uninstalled
       THEN IF NothingThere THEN Goto(p, "relist") /\ UNCHANGED spoolHolder
            ELSE Finish(p)
       ELSE Goto(p, "call") /\ UNCHANGED spoolHolder
    /\ UNCHANGED <<connection, queue>> /\ OnlyCommand

Uninstalling(p) ==
    /\ cmd[p].op = "disconnect" /\ cmd[p].at \in {"call", "again"}
    /\ answer[p] = "none"
    /\ UninstallCall(p, cmd[p].gen, cmd[p].bytes)
    /\ Goto(p, IF cmd[p].at = "call" THEN "answer" ELSE "last")
    /\ UNCHANGED <<connection, queue, hooks, spoolHolder, limit, spent>>

UninstallAnswered(p) ==
    /\ cmd[p].op = "disconnect" /\ cmd[p].at \in {"answer", "last"}
    /\ answer[p] # "none"
    /\ Take(p)
    /\ CASE answer[p] = "disabled" -> Goto(p, "relist") /\ UNCHANGED spoolHolder
         [] answer[p] = "enabled" /\ cmd[p].at = "answer" ->
               Goto(p, "again") /\ UNCHANGED spoolHolder
         [] OTHER -> Finish(p)
    /\ UNCHANGED <<connection, queue, hooks, limit, spent>>

-----------------------------------------------------------------------------
(* delete --all, all of it under the spool lock.                           *)

DeleteStart(p) ==
    /\ Start(p, {"deletes"})
    /\ spoolHolder = None
    /\ \E next \in IF \A g \in Present(connection) : connection[g] = "disabled"
                   THEN {"drain"}
                   ELSE IF \A g \in Present(connection) : connection[g] = "deleting"
                        THEN {"mark"} ELSE {} :
          /\ spoolHolder' = p
          /\ cmd' = [cmd EXCEPT ![p] = [Idle EXCEPT !.op = "delete", !.at = next]]
    /\ UNCHANGED <<installVars, connection, queue, hooks>>

\* A refused entry ends the command; what a busy store leaves does not.
DeleteDrain(p) ==
    /\ At(p, "delete", "drain")
    /\ \E done \in SUBSET Accepted : queue' = queue \ done
    /\ \/ Goto(p, "mark") /\ UNCHANGED spoolHolder
       \/ queue # Accepted /\ Finish(p)
    /\ UNCHANGED connection /\ OnlyCommand

DeleteMark(p) ==
    /\ At(p, "delete", "mark")
    /\ IF /\ Present(connection) # {}
          /\ \A g \in Present(connection) : connection[g] \in {"disabled", "deleting"}
       THEN /\ connection' = [g \in Generations |->
                   IF g \in Present(connection) THEN "deleting" ELSE "absent"]
            /\ Goto(p, "purge") /\ UNCHANGED spoolHolder
       ELSE Finish(p) /\ UNCHANGED connection
    /\ UNCHANGED queue /\ OnlyCommand

DeletePurge(p) ==
    /\ At(p, "delete", "purge")
    /\ connection' = [g \in Generations |-> "absent"]
    /\ Finish(p)
    /\ UNCHANGED queue /\ OnlyCommand

-----------------------------------------------------------------------------
(* Hooks: an installed launcher starts one.  It checks receipt and         *)
(* connection, and takes the spool lock only later.                        *)

HookStartUnchecked(g) ==   \* mutant: an installed launcher is enough
    /\ Spend({"hooks"}) /\ g \notin hooks
    /\ journal = None /\ ~Uninstalled /\ receipt.gen = g /\ Intact
    /\ hooks' = hooks \cup {g}
    /\ UNCHANGED <<installVars, connection, queue, spoolHolder, cmd>>

HookStart(g) ==
    /\ Spend({"hooks"}) /\ g \notin hooks
    /\ journal = None /\ ~Uninstalled /\ receipt.gen = g /\ Intact
    /\ connection[g] = "enabled"
    /\ hooks' = hooks \cup {g}
    /\ UNCHANGED <<installVars, connection, queue, spoolHolder, cmd>>

\* admit: behind queued intakes, or because the store is busy, into the
\* spool; otherwise into the store, if that finds the connection enabled.
HookAdmit(g) ==
    /\ g \in hooks /\ spoolHolder = None
    /\ hooks' = hooks \ {g}
    /\ \/ queue' = queue \cup {g}
       \/ g \notin queue /\ UNCHANGED queue
    /\ UNCHANGED <<installVars, connection, spoolHolder, cmd, limit, spent>>

-----------------------------------------------------------------------------
Crash(p) ==
    /\ cmd[p] # Idle /\ Spend({"crashes"})
    /\ Finish(p)
    /\ InstallCrash(p)
    /\ UNCHANGED <<connection, queue, hooks>>

InstallStep ==
    FileStep /\ UNCHANGED <<connection, queue, hooks, spoolHolder, cmd, limit, spent>>
Edit ==
    EditConfig /\ Spend({"edits"}) /\ UNCHANGED <<connection, queue, hooks, spoolHolder, cmd>>

Step(p) ==
    \/ Preflight(p) \/ Register(p) \/ Connecting(p) \/ ConnectAnswered(p)
    \/ Reregister(p) \/ Enable(p) \/ Superseded(p)
    \/ List(p) \/ LockSpool(p) \/ Revive(p) \/ Drain(p) \/ Retire(p)
    \/ Relist(p) \/ Settle(p)
    \/ Resolve(p) \/ Inspect(p) \/ Uninstalling(p) \/ UninstallAnswered(p)
    \/ DeleteDrain(p) \/ DeleteMark(p) \/ DeletePurge(p)

Next ==
    \/ \E p \in Processes :
          \/ \E g \in Generations : ConnectStart(p, g)
          \/ DisconnectStart(p) \/ DeleteStart(p)
          \/ Step(p) \/ Crash(p)
    \/ InstallStep \/ Edit
    \/ \E g \in Generations : HookStart(g) \/ HookAdmit(g)

Spec == Init /\ [][Next]_vars

\* A command that runs goes on, and a user whose disconnect failed runs it again.
FairSpec ==
    /\ Spec
    /\ WF_vars(InstallStep)
    /\ \A p \in Processes : WF_vars(Step(p))
    /\ WF_vars(\E p \in Processes : DisconnectStart(p))

-----------------------------------------------------------------------------
(* Properties.                                                             *)

TypeOK ==
    /\ InstallTypeOK
    /\ connection \in [Generations -> States]
    /\ queue \subseteq Generations /\ hooks \subseteq Generations
    /\ spoolHolder \in Processes \cup {None}
    /\ \A p \in Processes :
          /\ cmd[p].op \in {"none", "connect", "disconnect", "delete"}
          /\ cmd[p].gen \in Generations \cup {0}
          /\ cmd[p].bytes \in Generations \cup {0}
          /\ cmd[p].seen \in [Generations -> States] \cup {<<>>}
    /\ limit \in Limits
    /\ \A b \in Bounded : spent[b] \in 0..limit[b]

\* The user's own text of the config file changes by the user's hand only: not
\* by an install, an upgrade, a removal, or the recovery of one of them.  The
\* exception is what the user saves between the last look at the file and the
\* os.replace or os.unlink that follows it (config_files.py:1243 and 1256, 1309
\* and 1311): that is lost, and nothing saved before it is.
UserTextKept ==
    [][config'.user # config.user =>
          edits' # edits \/ (at = "replace" /\ config # plan)]_vars

\* A connection is retired only when nothing of it is queued: what a hook
\* handed over while it was enabled is in the store before.
RetiredDrained ==
    [][\A g \in Generations :
          connection[g] = "enabled" /\ connection'[g] = "draining"
              => g \notin queue]_vars

\* Until a project deletion, the store accepts every queued intake, so no
\* drain is stopped by one: the connection of a queued intake is never
\* pending or gone, whatever commands died or ran at the same time.
QueueAccepted == spent.deletes = 0 => queue = Accepted

\* A disconnect that is run again ends with every connection disabled and
\* nothing installed, unless it is one of the situations in Blocked.
Disconnected ==
    /\ \A g \in Generations : connection[g] \in {"absent", "disabled"}
    /\ journal = None /\ Uninstalled
Stranded ==
    /\ journal # None
    /\ Uninstalled \/ Unresolvable(connection) \/ receipt.gen # journal.gen
Edited ==
    /\ edits > 0
    /\ \/ journal # None /\ (journal.op = "install" \/ ~Removable(journal.edit))
       \/ receipt # None /\ ~Removable(receipt.edit)
Blocked ==
    \/ Stranded
    \/ Edited
    \/ queue # Accepted
    \/ \E g \in Generations : connection[g] = "deleting"
    \/ receipt # None /\ connection[receipt.gen] = "absent"
DisconnectEnds == []<>(Disconnected \/ Blocked)

\* A removal whose journal is written is completed when disconnect is run
\* again.
RemovalCompleted ==
    journal # None /\ journal.op = "uninstall" ~> journal = None
=============================================================================
