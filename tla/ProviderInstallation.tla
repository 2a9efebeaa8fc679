------------------------ MODULE ProviderInstallation ------------------------
(***************************************************************************)
(* The journaled installation of one provider in one project               *)
(* (src/saliencegate/integrations/installation.py, config_files.py).       *)
(* Its state is a set of files: the journal, the receipt, the launcher,    *)
(* for a bridge the bundle and its bootstrap, for a hook a span in a       *)
(* config file that belongs to the user.  Each is published or removed by  *)
(* a step of its own under the installation lock; the process may die      *)
(* between any two, and a later call rolls the journal forward.            *)
(*                                                                         *)
(* Abstracted: MACs, digests and paths (equal content stands for an equal  *)
(* digest; a file that is there is authentic), directories, the config     *)
(* syntax, and bundles that move between generations (every connector has  *)
(* one bundle path and one generation).                                    *)
(***************************************************************************)
EXTENDS Integers, FiniteSets

CONSTANTS
    Processes,     \* commands running at the same time
    Generations,   \* host generations of a hook; a bridge has only the first
    Texts,         \* what the user's part of the config may say; 0: no file
    None

Receipts == [state : {"pending", "enabled", "draining", "disabled"},
             gen : Generations, edit : Texts]
Journals == [op : {"install", "uninstall"}, gen : Generations, edit : Texts,
             prior : Receipts \cup {None}]

ASSUME InstallationAssumption ==
    /\ Generations \subseteq Nat \ {0}
    /\ Texts \subseteq Nat /\ 0 \in Texts
    /\ None \notin Processes /\ None \notin Receipts /\ None \notin Journals

VARIABLES
    kind,       \* "hook" or "bridge": fixed by the provider
    journal,    \* None or [op, gen, edit, prior]
    receipt,    \* None or [state, gen, edit]
    launcher,   \* the generation whose launcher is there, 0: none
    bundle,     \* the bridge bundle is there
    bootstrap,  \* the generation whose bootstrap is there, 0: none
    config,     \* [user, span]: the user's text, and whether our span is in it
    holder,     \* the process that has the installation lock
    at,         \* its next file operation
    plan,       \* the config it planned for
    recovering, \* it rolls an earlier journal forward
    answer,     \* what the last call of a process returned
    edits       \* how often the user edited the config

files == <<journal, receipt, launcher, bundle, bootstrap, config>>
installVars == <<kind, journal, receipt, launcher, bundle, bootstrap, config,
                 holder, at, plan, recovering, answer, edits>>

Hook == kind = "hook"
Bridge == kind = "bridge"
Uninstalled == receipt # None => receipt.state = "disabled"

\* A reverse edit is the user's text it was planned on; a bridge has none (0).
Installed(edit) == [user |-> edit, span |-> TRUE]
NoFile == [user |-> 0, span |-> FALSE]
Target(state) == [state |-> state, gen |-> journal.gen, edit |-> journal.edit]

\* The owned span can be taken out (the user may have taken it out already,
\* if that gave back the file as it was before).
Removable(edit) ==
    \/ Bridge
    \/ config.span
    \/ edit = 0
    \/ config.user = edit

InstallInit ==
    /\ kind \in {"hook", "bridge"}
    /\ journal = None /\ receipt = None
    /\ launcher = 0 /\ bundle = FALSE /\ bootstrap = 0
    /\ config \in [user : Texts, span : {FALSE}]
    /\ holder = None /\ at = "idle" /\ plan = None /\ recovering = FALSE
    /\ answer = [p \in Processes |-> "none"]
    /\ edits = 0

\* The user edits the text around the span, or removes span or file.
EditConfig ==
    /\ Hook
    /\ edits' = edits + 1
    /\ \E user \in Texts, span \in {FALSE, config.span} :
          /\ span => user # 0
          /\ config' = [user |-> user, span |-> span]
          /\ config' # config
    /\ UNCHANGED <<kind, journal, receipt, launcher, bundle, bootstrap,
                   holder, at, plan, recovering, answer>>

-----------------------------------------------------------------------------
(* Calls.  They read everything under the lock before the first write.     *)

Answer(p, value) ==
    /\ answer' = [answer EXCEPT ![p] = value]
    /\ holder' = None /\ at' = "idle" /\ plan' = None /\ recovering' = FALSE

Refused(p) == Answer(p, "error") /\ UNCHANGED <<kind, files, edits>>

Locked(p, step, again) ==
    /\ holder' = p /\ at' = step /\ plan' = config /\ recovering' = again
    /\ UNCHANGED <<kind, receipt, launcher, bundle, bootstrap, config,
                   answer, edits>>

Begin(p, op, step, gen, edit) ==
    /\ Locked(p, step, FALSE)
    /\ journal' = [op |-> op, gen |-> gen, edit |-> edit, prior |-> receipt]

NothingThere ==
    /\ launcher = 0
    /\ Bridge => ~bundle /\ bootstrap = 0
    /\ Hook => ~config.span

\* Every file of the receipt is there, and as the receipt has it.
Intact ==
    /\ launcher = receipt.gen
    /\ Bridge => bundle /\ bootstrap = receipt.gen
    /\ Hook => config = Installed(receipt.edit)

\* _install_locked without a journal: a fresh install, an upgrade that keeps
\* the span of the earlier generation, nothing to do, or an error.
InstallFresh(p, g) ==
    /\ holder = None /\ journal = None
    /\ Uninstalled /\ NothingThere
    /\ Begin(p, "install", "receipt", g, IF Hook THEN config.user ELSE 0)

InstallUpgrade(p, g) ==
    /\ holder = None /\ journal = None
    /\ ~Uninstalled /\ receipt.state = "enabled" /\ receipt.gen < g
    /\ Intact
    /\ Begin(p, "install", "receipt", g, receipt.edit)

InstallNoop(p, g) ==
    /\ holder = None /\ journal = None
    /\ ~Uninstalled /\ receipt.state = "enabled" /\ receipt.gen = g
    /\ Intact
    /\ Answer(p, "enabled") /\ UNCHANGED <<kind, files, edits>>

InstallRefused(p, g) ==
    /\ holder = None /\ journal = None
    /\ IF Uninstalled THEN ~NothingThere
       ELSE \/ receipt.state # "enabled" \/ receipt.gen > g
            \/ ~Intact
    /\ Refused(p)

\* _recover_locked, of the operation the journal names.  `bytes` is the
\* launcher the caller brings: 0 when it has only the placeholder.
Recoverable(g, bytes) ==
    /\ journal.gen = g /\ bytes = g
    /\ journal.op = "install" =>
          receipt \in {journal.prior, Target("pending"), Target("enabled")}
    /\ journal.op = "uninstall" =>
          /\ receipt \in {journal.prior, Target("draining"), Target("disabled")}
          /\ Removable(journal.edit)
          /\ bootstrap \in {0, journal.gen} /\ launcher \in {0, journal.gen}

Recover(p, g, bytes) ==
    /\ holder = None /\ journal # None
    /\ Recoverable(g, bytes)
    /\ Locked(p, IF journal.op = "install" THEN "receipt" ELSE "draining", TRUE)
    /\ UNCHANGED journal

RecoverRefused(p, g, bytes) ==
    /\ holder = None /\ journal # None
    /\ ~Recoverable(g, bytes)
    /\ Refused(p)

UninstallPlanned(g, bytes) ==
    /\ receipt # None /\ receipt.state = "enabled"
    /\ receipt.gen = g /\ bytes = g
    /\ Removable(receipt.edit)
    /\ launcher = g
    /\ Bridge => bundle /\ bootstrap = g

UninstallBegin(p, g, bytes) ==
    /\ holder = None /\ journal = None
    /\ UninstallPlanned(g, bytes)
    /\ Begin(p, "uninstall", "draining", g, receipt.edit)

UninstallRefused(p, g, bytes) ==
    /\ holder = None /\ journal = None
    /\ ~UninstallPlanned(g, bytes)
    /\ Refused(p)

-----------------------------------------------------------------------------
(* The files of an installation, one after the other.                      *)

Wrote(label) ==
    /\ at' = label
    /\ UNCHANGED <<kind, holder, plan, recovering, answer, edits>>

PublishPending ==
    /\ at = "receipt"
    /\ receipt' = IF receipt = Target("enabled") THEN receipt ELSE Target("pending")
    /\ Wrote("launcher")
    /\ UNCHANGED <<journal, launcher, bundle, bootstrap, config>>

PublishLauncher ==
    /\ at = "launcher"
    /\ launcher' = journal.gen
    /\ Wrote(IF Bridge THEN "bundle" ELSE "config")
    /\ UNCHANGED <<journal, receipt, bundle, bootstrap, config>>

PublishBundle ==
    /\ at = "bundle"
    /\ bundle' = TRUE
    /\ Wrote("bootstrap")
    /\ UNCHANGED <<journal, receipt, launcher, bootstrap, config>>

PublishBootstrap ==
    /\ at = "bootstrap"
    /\ bootstrap' = journal.gen
    /\ Wrote("enable")
    /\ UNCHANGED <<journal, receipt, launcher, bundle, config>>

Upgrading == journal.prior # None /\ journal.prior.state = "enabled"

-----------------------------------------------------------------------------
(* The config, of an installation and of a removal.  The user's editor     *)
(* takes no lock: it may save the file between any two of these steps.     *)

\* The config as the plan expects it: the upgrade does not look at it, a
\* recovery plans again and must come to the reverse edit of the journal.
ConfigKept ==
    IF recovering THEN config = Installed(journal.edit) ELSE Upgrading
ConfigAsPlanned ==
    IF recovering THEN ~config.span /\ config.user = journal.edit
    ELSE ~Upgrading /\ config = plan

ReplacementRestoring ==   \* mutant: a removal puts the file back as it was
    IF journal.op = "install" THEN Installed(journal.edit)
    ELSE [user |-> journal.edit, span |-> FALSE]

\* What the file is replaced by.  In a removal an untouched file is restored as
\* it was, of any other only the span goes: both leave the user's text.
Replacement ==
    IF journal.op = "install" THEN Installed(journal.edit)
    ELSE [plan EXCEPT !.span = FALSE]
AfterConfig == IF journal.op = "install" THEN "enable" ELSE "unlaunch"

KeepConfig ==
    /\ \/ at = "config" /\ ConfigKept
       \/ at = "unconfig" /\ config = plan /\ ~plan.span
    /\ Wrote(AfterConfig)
    /\ UNCHANGED files

\* publish_config_bytes and delete_config_bytes, up to the last look at the
\* file that is to be replaced.
CheckConfig ==
    /\ \/ at = "config" /\ ~ConfigKept /\ ConfigAsPlanned
       \/ at = "unconfig" /\ config = plan /\ plan.span
    /\ at' = "replace" /\ plan' = config
    /\ UNCHANGED <<kind, files, holder, recovering, answer, edits>>

\* A new file is linked and a file that goes is unlinked: both fail if the user
\* did it first.  os.replace overwrites whatever is there by now.
Replaceable ==
    /\ plan = NoFile => config = NoFile
    /\ Replacement = NoFile => config # NoFile

ReplaceConfig ==
    /\ at = "replace" /\ Replaceable
    /\ config' = Replacement
    /\ Wrote("confirm")
    /\ UNCHANGED <<journal, receipt, launcher, bundle, bootstrap>>

\* The file is read back.
ConfirmConfig ==
    /\ at = "confirm" /\ config = Replacement
    /\ Wrote(AfterConfig)
    /\ UNCHANGED files

ConfigConflict ==
    /\ \/ at = "config" /\ ~ConfigKept /\ ~ConfigAsPlanned
       \/ at = "unconfig" /\ config # plan
       \/ at = "replace" /\ ~Replaceable
       \/ at = "confirm" /\ config # Replacement
    /\ Refused(holder)

-----------------------------------------------------------------------------
PublishEnabled ==
    /\ at = "enable"
    /\ receipt' = Target("enabled")
    /\ Wrote("unjournal")
    /\ UNCHANGED <<journal, launcher, bundle, bootstrap, config>>

DeleteJournal ==
    /\ at = "unjournal"
    /\ journal' = None
    /\ Answer(holder, IF journal.op = "install" THEN "enabled" ELSE "disabled")
    /\ UNCHANGED <<kind, receipt, launcher, bundle, bootstrap, config, edits>>

-----------------------------------------------------------------------------
(* The files of a removal, in the other order.                             *)

PublishDraining ==
    /\ at = "draining"
    /\ receipt' = IF receipt = journal.prior THEN Target("draining") ELSE receipt
    /\ Wrote(IF Hook THEN "unconfig" ELSE "unbootstrap")
    /\ UNCHANGED <<journal, launcher, bundle, bootstrap, config>>

RemoveBootstrap ==
    /\ at = "unbootstrap"
    /\ bootstrap' = 0
    /\ Wrote("unbundle")
    /\ UNCHANGED <<journal, receipt, launcher, bundle, config>>

RemoveBundle ==
    /\ at = "unbundle"
    /\ bundle' = FALSE
    /\ Wrote("unlaunch")
    /\ UNCHANGED <<journal, receipt, launcher, bootstrap, config>>

RemoveLauncherOnce ==   \* mutant: a recovery takes it for removed
    /\ at = "unlaunch"
    /\ launcher' = IF recovering THEN launcher ELSE 0
    /\ Wrote("disable")
    /\ UNCHANGED <<journal, receipt, bundle, bootstrap, config>>

RemoveLauncher ==
    /\ at = "unlaunch"
    /\ launcher' = 0
    /\ Wrote("disable")
    /\ UNCHANGED <<journal, receipt, bundle, bootstrap, config>>

PublishDisabled ==
    /\ at = "disable"
    /\ receipt' = Target("disabled")
    /\ Wrote("unjournal")
    /\ UNCHANGED <<journal, launcher, bundle, bootstrap, config>>

-----------------------------------------------------------------------------
InstallCall(p, g) ==
    \/ InstallFresh(p, g) \/ InstallUpgrade(p, g) \/ InstallNoop(p, g)
    \/ InstallRefused(p, g)
    \/ Recover(p, g, g) \/ RecoverRefused(p, g, g)

UninstallCall(p, g, bytes) ==
    \/ UninstallBegin(p, g, bytes) \/ UninstallRefused(p, g, bytes)
    \/ Recover(p, g, bytes) \/ RecoverRefused(p, g, bytes)

FileStep ==
    \/ PublishPending \/ PublishLauncher \/ PublishBundle \/ PublishBootstrap
    \/ KeepConfig \/ CheckConfig \/ ReplaceConfig \/ ConfirmConfig
    \/ ConfigConflict \/ PublishEnabled \/ DeleteJournal
    \/ PublishDraining \/ RemoveBootstrap \/ RemoveBundle
    \/ RemoveLauncher \/ PublishDisabled

\* The process dies: its lock goes with it, its files stay.
InstallCrash(p) ==
    /\ answer' = [answer EXCEPT ![p] = "none"]
    /\ IF holder = p
       THEN holder' = None /\ at' = "idle" /\ plan' = None /\ recovering' = FALSE
       ELSE UNCHANGED <<holder, at, plan, recovering>>
    /\ UNCHANGED <<kind, files, edits>>

-----------------------------------------------------------------------------
InstallTypeOK ==
    /\ kind \in {"hook", "bridge"}
    /\ journal \in Journals \cup {None}
    /\ receipt \in Receipts \cup {None}
    /\ launcher \in Generations \cup {0}
    /\ bundle \in BOOLEAN
    /\ bootstrap \in Generations \cup {0}
    /\ config \in [user : Texts, span : BOOLEAN]
    /\ holder \in Processes \cup {None}
    /\ at \in {"idle", "receipt", "launcher", "bundle", "bootstrap", "config",
               "replace", "confirm", "enable", "unjournal", "draining",
               "unconfig", "unbootstrap", "unbundle", "unlaunch", "disable"}
    /\ (holder = None) = (at = "idle")
    /\ plan \in [user : Texts, span : BOOLEAN] \cup {None}
    /\ recovering \in BOOLEAN
    /\ answer \in [Processes -> {"none", "enabled", "disabled", "error"}]
    /\ edits \in Nat

\* All or nothing: without a journal either every file of the receipt is
\* there, of one generation, or none is, wherever earlier processes died and
\* whichever call rolled their journals forward.  (The span alone may be
\* missing: the user can take it out.)
AllOrNothing ==
    journal = None =>
        IF Uninstalled THEN NothingThere
        ELSE /\ receipt.state = "enabled"
             /\ launcher = receipt.gen
             /\ Bridge => bundle /\ bootstrap = receipt.gen
             /\ Hook /\ edits = 0 => config = Installed(receipt.edit)
=============================================================================
