----------------------- MODULE CaptureCommandsProofs -----------------------
(***************************************************************************)
(* Proofs about ProviderInstallation and CaptureCommands, for any number   *)
(* of processes, generations, texts, hooks and failures.  InstallInv is    *)
(* inductive: each place of an operation knows which files are written or  *)
(* gone, and a call that rolls a journal forward starts where nothing      *)
(* needs to be known.  CommandsInv adds what the place of a command says.  *)
(***************************************************************************)
EXTENDS CaptureCommands, TLAPS

-----------------------------------------------------------------------------
(* The installation.                                                       *)

Installing == {"receipt", "launcher", "bundle", "bootstrap", "config", "enable"}
Removing == {"draining", "unconfig", "unbootstrap", "unbundle", "unlaunch", "disable"}

\* The lock holder has a journal that says which operation it is in.
Placed ==
    /\ holder # None => journal # None
    /\ at \in Installing => journal.op = "install"
    /\ at \in Removing => journal.op = "uninstall"
    /\ at \in {"bundle", "bootstrap", "unbootstrap", "unbundle"} => Bridge
    /\ at \in {"config", "unconfig", "replace", "confirm"} => Hook

\* Every file of the journal's generation, the receipt apart.
Complete ==
    /\ launcher = journal.gen
    /\ Bridge => bundle /\ bootstrap = journal.gen
    /\ Hook /\ edits = 0 => config = Installed(journal.edit)

\* What an installation has written when it is at a place.
Written ==
    /\ at \in {"bundle", "bootstrap", "config", "enable"} => launcher = journal.gen
    /\ at = "bootstrap" => bundle
    /\ at = "enable" => Complete
    /\ at = "unjournal" /\ journal.op = "install" =>
           Complete /\ receipt = Target("enabled")

\* What a removal has removed.
Removed ==
    /\ at \in {"unbundle", "unlaunch"} /\ Bridge => bootstrap = 0
    /\ at = "unlaunch" => (Bridge => ~bundle) /\ (Hook => ~config.span)
    /\ at = "disable" => NothingThere
    /\ at = "unjournal" /\ journal.op = "uninstall" =>
           NothingThere /\ receipt = Target("disabled")

\* The config the journal was written for, and the one that was last seen before
\* it is replaced.
Planned ==
    /\ at \in {"receipt", "launcher", "config"} /\ Hook /\ ~recovering =>
           IF Upgrading THEN edits = 0 => config = Installed(journal.edit)
           ELSE journal.edit = plan.user
    /\ at \in {"replace", "confirm"} => plan \in [user : Texts, span : BOOLEAN]
    /\ at \in {"replace", "confirm"} /\ journal.op = "install" =>
           launcher = journal.gen /\ journal.edit = plan.user

InstallInv ==
    /\ InstallTypeOK /\ Placed /\ Written /\ Removed /\ Planned /\ AllOrNothing

LEMMA InstallInitial == InstallInit => InstallInv
BY InstallationAssumption
   DEF InstallInit, InstallInv, InstallTypeOK, Placed, Written, Removed, Planned,
       AllOrNothing, Installing, Removing, Uninstalled, NothingThere, Bridge, Hook

LEMMA PublishPendingKeeps ==
  ASSUME InstallInv, PublishPending PROVE InstallInv'
<1> USE InstallationAssumption DEF InstallInv, PublishPending, Wrote
<1>1. journal \in Journals /\ journal.op = "install"
  BY DEF InstallTypeOK, Placed, Installing
<1>2. InstallTypeOK'
  BY <1>1 DEF InstallTypeOK, Target, Journals, Receipts, Installed
<1>3. Placed' /\ AllOrNothing'
  BY <1>1 DEF InstallTypeOK, Placed, AllOrNothing, Installing, Removing, Bridge, Hook
<1>4. Written'
  BY <1>1 DEF InstallTypeOK, Placed, Written, Planned, Upgrading, Complete, Target, Installed,
       Installing, Bridge, Hook
<1>5. Removed'
  BY <1>1 DEF InstallTypeOK, Placed, Removed, NothingThere, Target, Removing, Bridge, Hook
<1>6. Planned'
  BY <1>1 DEF InstallTypeOK, Planned, Upgrading, Installed, Hook, Bridge
<1> QED BY <1>2, <1>3, <1>4, <1>5, <1>6

LEMMA PublishLauncherKeeps ==
  ASSUME InstallInv, PublishLauncher PROVE InstallInv'
<1> USE InstallationAssumption DEF InstallInv, PublishLauncher, Wrote
<1>1. journal \in Journals /\ journal.op = "install"
  BY DEF InstallTypeOK, Placed, Installing
<1>2. InstallTypeOK'
  BY <1>1 DEF InstallTypeOK, Target, Journals, Receipts, Installed
<1>3. Placed' /\ AllOrNothing'
  BY <1>1 DEF InstallTypeOK, Placed, AllOrNothing, Installing, Removing, Bridge, Hook
<1>4. Written'
  BY <1>1 DEF InstallTypeOK, Placed, Written, Planned, Upgrading, Complete, Target, Installed,
       Installing, Bridge, Hook
<1>5. Removed'
  BY <1>1 DEF InstallTypeOK, Placed, Removed, NothingThere, Target, Removing, Bridge, Hook
<1>6. Planned'
  BY <1>1 DEF InstallTypeOK, Planned, Upgrading, Installed, Hook, Bridge
<1> QED BY <1>2, <1>3, <1>4, <1>5, <1>6

LEMMA PublishBundleKeeps ==
  ASSUME InstallInv, PublishBundle PROVE InstallInv'
<1> USE InstallationAssumption DEF InstallInv, PublishBundle, Wrote
<1>1. journal \in Journals /\ journal.op = "install"
  BY DEF InstallTypeOK, Placed, Installing
<1>2. InstallTypeOK'
  BY <1>1 DEF InstallTypeOK, Target, Journals, Receipts, Installed
<1>3. Placed' /\ AllOrNothing'
  BY <1>1 DEF InstallTypeOK, Placed, AllOrNothing, Installing, Removing, Bridge, Hook
<1>4. Written'
  BY <1>1 DEF InstallTypeOK, Placed, Written, Planned, Upgrading, Complete, Target, Installed,
       Installing, Bridge, Hook
<1>5. Removed'
  BY <1>1 DEF InstallTypeOK, Placed, Removed, NothingThere, Target, Removing, Bridge, Hook
<1>6. Planned'
  BY <1>1 DEF InstallTypeOK, Planned, Upgrading, Installed, Hook, Bridge
<1> QED BY <1>2, <1>3, <1>4, <1>5, <1>6

LEMMA PublishBootstrapKeeps ==
  ASSUME InstallInv, PublishBootstrap PROVE InstallInv'
<1> USE InstallationAssumption DEF InstallInv, PublishBootstrap, Wrote
<1>1. journal \in Journals /\ journal.op = "install"
  BY DEF InstallTypeOK, Placed, Installing
<1>2. InstallTypeOK'
  BY <1>1 DEF InstallTypeOK, Target, Journals, Receipts, Installed
<1>3. Placed' /\ AllOrNothing'
  BY <1>1 DEF InstallTypeOK, Placed, AllOrNothing, Installing, Removing, Bridge, Hook
<1>4. Written'
  BY <1>1 DEF InstallTypeOK, Placed, Written, Planned, Upgrading, Complete, Target, Installed,
       Installing, Bridge, Hook
<1>5. Removed'
  BY <1>1 DEF InstallTypeOK, Placed, Removed, NothingThere, Target, Removing, Bridge, Hook
<1>6. Planned'
  BY <1>1 DEF InstallTypeOK, Planned, Upgrading, Installed, Hook, Bridge
<1> QED BY <1>2, <1>3, <1>4, <1>5, <1>6

-----------------------------------------------------------------------------
(* The config, of an installation and of a removal.                        *)

\* Nothing is to be written: the span is there already, or gone already.
LEMMA KeepConfigKeeps ==
  ASSUME InstallInv, KeepConfig PROVE InstallInv'
<1> USE InstallationAssumption DEF InstallInv, KeepConfig, Wrote, files, AfterConfig
<1>1. journal \in Journals /\ journal.op \in {"install", "uninstall"} /\ Hook
      /\ (at = "config" <=> journal.op = "install")
  BY DEF InstallTypeOK, Placed, Installing, Removing, Journals
<1>2. InstallTypeOK'
  BY <1>1 DEF InstallTypeOK
<1>3. Placed' /\ AllOrNothing' /\ Planned'
  BY <1>1 DEF Placed, AllOrNothing, Planned, Installing, Removing, Bridge, Hook
<1>4. Written'
  BY <1>1 DEF Placed, Written, Planned, Complete, ConfigKept, Bridge, Hook
<1>5. Removed'
  BY <1>1 DEF Removed, Bridge, Hook
<1> QED BY <1>2, <1>3, <1>4, <1>5

LEMMA CheckConfigKeeps ==
  ASSUME InstallInv, CheckConfig PROVE InstallInv'
<1> USE InstallationAssumption DEF InstallInv, CheckConfig, files
<1>1. journal \in Journals /\ Hook /\ (at = "config" <=> journal.op = "install")
  BY DEF InstallTypeOK, Placed, Installing, Removing, Journals
<1>2. config \in [user : Texts, span : BOOLEAN]
  BY <1>1 DEF InstallTypeOK, Journals
<1>3. InstallTypeOK'
  BY <1>2 DEF InstallTypeOK
<1>4. Placed' /\ AllOrNothing' /\ Written' /\ Removed'
  BY <1>1 DEF Placed, AllOrNothing, Written, Removed, Installing, Removing, Bridge, Hook
<1>5. Planned'
  BY <1>1, <1>2 DEF Planned, Written, ConfigAsPlanned, ConfigKept, Hook
<1> QED BY <1>3, <1>4, <1>5

\* What a config is replaced by is a config.
LEMMA ReplacementType ==
  ASSUME InstallInv, at \in {"replace", "confirm"}
  PROVE  Replacement \in [user : Texts, span : BOOLEAN]
<1>1. journal \in Journals /\ plan \in [user : Texts, span : BOOLEAN]
  BY DEF InstallInv, InstallTypeOK, Placed, Planned
<1> QED BY <1>1 DEF Replacement, Installed, Journals

LEMMA ReplaceConfigKeeps ==
  ASSUME InstallInv, ReplaceConfig PROVE InstallInv'
<1> USE InstallationAssumption DEF InstallInv, ReplaceConfig, Wrote
<1>1. journal # None /\ Hook
  BY DEF InstallTypeOK, Placed
<1>2. InstallTypeOK'
  <2>1. config' \in [user : Texts, span : BOOLEAN]
    BY ReplacementType
  <2>2. /\ at' = "confirm" /\ at = "replace"
        /\ UNCHANGED <<kind, journal, receipt, launcher, bundle, bootstrap, holder, plan,
                       recovering, answer, edits>>
    OBVIOUS
  <2> HIDE DEF ReplaceConfig, Wrote
  <2>3. QED
    BY <2>1, <2>2 DEF InstallTypeOK
<1>3. Placed' /\ AllOrNothing' /\ Planned' /\ Written' /\ Removed'
  BY <1>1 DEF Placed, AllOrNothing, Planned, Written, Removed, Installing, Removing, Hook
<1> QED BY <1>2, <1>3

LEMMA ConfirmConfigKeeps ==
  ASSUME InstallInv, ConfirmConfig PROVE InstallInv'
<1> USE InstallationAssumption DEF InstallInv, ConfirmConfig, Wrote, files, AfterConfig
<1>1. journal \in Journals /\ journal.op \in {"install", "uninstall"} /\ Hook
  BY DEF InstallTypeOK, Placed, Journals
<1>2. InstallTypeOK'
  BY <1>1 DEF InstallTypeOK
<1>3. Placed' /\ AllOrNothing' /\ Planned'
  BY <1>1 DEF Placed, AllOrNothing, Planned, Installing, Removing, Bridge, Hook
<1>4. Written'
  BY <1>1 DEF Written, Planned, Complete, Replacement, Bridge, Hook
<1>5. Removed'
  <2>1. plan \in [user : Texts, span : BOOLEAN]
    BY DEF InstallTypeOK, Planned
  <2>2. journal.op = "uninstall" => ~config.span
    BY <2>1 DEF Replacement
  <2> QED BY <1>1, <2>2 DEF Removed, Bridge, Hook
<1> QED BY <1>2, <1>3, <1>4, <1>5

-----------------------------------------------------------------------------
LEMMA PublishEnabledKeeps ==
  ASSUME InstallInv, PublishEnabled PROVE InstallInv'
<1> USE InstallationAssumption DEF InstallInv, PublishEnabled, Wrote
<1>1. journal \in Journals /\ journal.op = "install"
  BY DEF InstallTypeOK, Placed, Installing
<1>2. InstallTypeOK'
  BY <1>1 DEF InstallTypeOK, Target, Journals, Receipts, Installed
<1>3. Placed' /\ AllOrNothing'
  BY <1>1 DEF InstallTypeOK, Placed, AllOrNothing, Installing, Removing, Bridge, Hook
<1>4. Written'
  BY <1>1 DEF InstallTypeOK, Placed, Written, Planned, Upgrading, Complete, Target, Installed,
       Installing, Bridge, Hook
<1>5. Removed'
  BY <1>1 DEF InstallTypeOK, Placed, Removed, NothingThere, Target, Removing, Bridge, Hook
<1>6. Planned'
  BY <1>1 DEF InstallTypeOK, Planned, Upgrading, Installed, Hook, Bridge
<1> QED BY <1>2, <1>3, <1>4, <1>5, <1>6

LEMMA PublishDrainingKeeps ==
  ASSUME InstallInv, PublishDraining PROVE InstallInv'
<1> USE InstallationAssumption DEF InstallInv, PublishDraining, Wrote
<1>1. journal \in Journals /\ journal.op = "uninstall"
  BY DEF InstallTypeOK, Placed, Removing
<1>2. InstallTypeOK'
  BY <1>1 DEF InstallTypeOK, Target, Journals, Receipts, Installed
<1>3. Placed' /\ AllOrNothing'
  BY <1>1 DEF InstallTypeOK, Placed, AllOrNothing, Installing, Removing, Bridge, Hook
<1>4. Written'
  BY <1>1 DEF InstallTypeOK, Placed, Written, Planned, Upgrading, Complete, Target, Installed,
       Installing, Bridge, Hook
<1>5. Removed'
  BY <1>1 DEF InstallTypeOK, Placed, Removed, NothingThere, Target, Removing, Bridge, Hook
<1>6. Planned'
  BY <1>1 DEF InstallTypeOK, Planned, Upgrading, Installed, Hook, Bridge
<1> QED BY <1>2, <1>3, <1>4, <1>5, <1>6

LEMMA RemoveBootstrapKeeps ==
  ASSUME InstallInv, RemoveBootstrap PROVE InstallInv'
<1> USE InstallationAssumption DEF InstallInv, RemoveBootstrap, Wrote
<1>1. journal \in Journals /\ journal.op = "uninstall"
  BY DEF InstallTypeOK, Placed, Removing
<1>2. InstallTypeOK'
  BY <1>1 DEF InstallTypeOK, Target, Journals, Receipts, Installed
<1>3. Placed' /\ AllOrNothing'
  BY <1>1 DEF InstallTypeOK, Placed, AllOrNothing, Installing, Removing, Bridge, Hook
<1>4. Written'
  BY <1>1 DEF InstallTypeOK, Placed, Written, Planned, Upgrading, Complete, Target, Installed,
       Installing, Bridge, Hook
<1>5. Removed'
  BY <1>1 DEF InstallTypeOK, Placed, Removed, NothingThere, Target, Removing, Bridge, Hook
<1>6. Planned'
  BY <1>1 DEF InstallTypeOK, Planned, Upgrading, Installed, Hook, Bridge
<1> QED BY <1>2, <1>3, <1>4, <1>5, <1>6

LEMMA RemoveBundleKeeps ==
  ASSUME InstallInv, RemoveBundle PROVE InstallInv'
<1> USE InstallationAssumption DEF InstallInv, RemoveBundle, Wrote
<1>1. journal \in Journals /\ journal.op = "uninstall"
  BY DEF InstallTypeOK, Placed, Removing
<1>2. InstallTypeOK'
  <2>1. /\ bundle' = FALSE /\ at' = "unlaunch" /\ at = "unbundle"
        /\ UNCHANGED <<kind, journal, receipt, launcher, bootstrap, config, holder, plan,
                       recovering, answer, edits>>
    BY DEF InstallTypeOK
  <2> HIDE DEF RemoveBundle, Wrote
  <2>2. QED
    BY <2>1 DEF InstallTypeOK
<1>3. Placed' /\ AllOrNothing'
  BY <1>1 DEF InstallTypeOK, Placed, AllOrNothing, Installing, Removing, Bridge, Hook
<1>4. Written'
  BY <1>1 DEF InstallTypeOK, Placed, Written, Planned, Upgrading, Complete, Target, Installed,
       Installing, Bridge, Hook
<1>5. Removed'
  BY <1>1 DEF InstallTypeOK, Placed, Removed, NothingThere, Target, Removing, Bridge, Hook
<1>6. Planned'
  BY <1>1 DEF InstallTypeOK, Planned, Upgrading, Installed, Hook, Bridge
<1> QED BY <1>2, <1>3, <1>4, <1>5, <1>6

LEMMA RemoveLauncherKeeps ==
  ASSUME InstallInv, RemoveLauncher PROVE InstallInv'
<1> USE InstallationAssumption DEF InstallInv, RemoveLauncher, Wrote
<1>1. journal \in Journals /\ journal.op = "uninstall"
  BY DEF InstallTypeOK, Placed, Removing
<1>2. InstallTypeOK'
  BY <1>1 DEF InstallTypeOK, Target, Journals, Receipts, Installed
<1>3. Placed' /\ AllOrNothing'
  BY <1>1 DEF InstallTypeOK, Placed, AllOrNothing, Installing, Removing, Bridge, Hook
<1>4. Written'
  BY <1>1 DEF InstallTypeOK, Placed, Written, Planned, Upgrading, Complete, Target, Installed,
       Installing, Bridge, Hook
<1>5. Removed'
  BY <1>1 DEF InstallTypeOK, Placed, Removed, NothingThere, Target, Removing, Bridge, Hook
<1>6. Planned'
  BY <1>1 DEF InstallTypeOK, Planned, Upgrading, Installed, Hook, Bridge
<1> QED BY <1>2, <1>3, <1>4, <1>5, <1>6

LEMMA PublishDisabledKeeps ==
  ASSUME InstallInv, PublishDisabled PROVE InstallInv'
<1> USE InstallationAssumption DEF InstallInv, PublishDisabled, Wrote
<1>1. journal \in Journals /\ journal.op = "uninstall"
  BY DEF InstallTypeOK, Placed, Removing
<1>2. InstallTypeOK'
  BY <1>1 DEF InstallTypeOK, Target, Journals, Receipts, Installed
<1>3. Placed' /\ AllOrNothing'
  BY <1>1 DEF InstallTypeOK, Placed, AllOrNothing, Installing, Removing, Bridge, Hook
<1>4. Written'
  BY <1>1 DEF InstallTypeOK, Placed, Written, Planned, Upgrading, Complete, Target, Installed,
       Installing, Bridge, Hook
<1>5. Removed'
  BY <1>1 DEF InstallTypeOK, Placed, Removed, NothingThere, Target, Removing, Bridge, Hook
<1>6. Planned'
  BY <1>1 DEF InstallTypeOK, Planned, Upgrading, Installed, Hook, Bridge
<1> QED BY <1>2, <1>3, <1>4, <1>5, <1>6


\* The call ends: without a journal only after the last file.
LEMMA AnswerKeeps ==
  ASSUME InstallInv, NEW p \in Processes, NEW v \in {"enabled", "disabled", "error"},
         Answer(p, v), UNCHANGED <<kind, files, edits>>
  PROVE  InstallInv'
<1> USE InstallationAssumption DEF InstallInv, Answer, files
<1>1. InstallTypeOK'
  BY DEF InstallTypeOK
<1>2. Placed' /\ Written' /\ Removed' /\ Planned'
  BY DEF Placed, Written, Removed, Planned, Installing, Removing
<1>3. AllOrNothing'
  BY DEF AllOrNothing, Uninstalled, NothingThere, Bridge, Hook, Installed
<1> QED BY <1>1, <1>2, <1>3

LEMMA DeleteJournalKeeps ==
  ASSUME InstallInv, DeleteJournal PROVE InstallInv'
<1> USE InstallationAssumption DEF InstallInv, DeleteJournal, Answer
<1>1. journal \in Journals /\ holder \in Processes
  BY DEF InstallTypeOK, Placed
<1>2. InstallTypeOK'
  BY <1>1 DEF InstallTypeOK
<1>3. Placed' /\ Written' /\ Removed' /\ Planned'
  BY DEF Placed, Written, Removed, Planned, Installing, Removing
<1>4. CASE journal.op = "install"
  <2>1. Complete /\ receipt = Target("enabled")
    BY <1>4 DEF Written
  <2>2. receipt \in Receipts
    BY <1>1, <2>1 DEF Target, Journals, Receipts
  <2>3. AllOrNothing'
    BY <2>1, <2>2 DEF AllOrNothing, Uninstalled, Complete, Target, Installed, Bridge, Hook
  <2> QED BY <1>2, <1>3, <2>3
<1>5. CASE journal.op = "uninstall"
  <2>1. NothingThere /\ receipt = Target("disabled")
    BY <1>5 DEF Removed
  <2>2. AllOrNothing'
    BY <2>1 DEF AllOrNothing, Uninstalled, NothingThere, Target, Bridge, Hook
  <2> QED BY <1>2, <1>3, <2>2
<1> QED BY <1>1, <1>4, <1>5 DEF Journals

LEMMA FileStepKeeps ==
  ASSUME InstallInv, FileStep PROVE InstallInv'
<1>1. CASE ConfigConflict
  <2>1. holder \in Processes
    BY <1>1 DEF ConfigConflict, InstallInv, InstallTypeOK
  <2> QED BY <1>1, <2>1, AnswerKeeps DEF ConfigConflict, Refused
<1> QED BY <1>1, DeleteJournalKeeps, PublishPendingKeeps, PublishLauncherKeeps,
           PublishBundleKeeps, PublishBootstrapKeeps, KeepConfigKeeps, CheckConfigKeeps,
           ReplaceConfigKeeps, ConfirmConfigKeeps, PublishEnabledKeeps,
           PublishDrainingKeeps, RemoveBootstrapKeeps, RemoveBundleKeeps, RemoveLauncherKeeps,
           PublishDisabledKeeps DEF FileStep

\* A call that gets as far as its first file.
LEMMA LockedKeeps ==
  ASSUME InstallInv, NEW p \in Processes, NEW step \in {"receipt", "draining"},
         NEW again \in BOOLEAN, Locked(p, step, again),
         journal' \in Journals,
         journal'.op = IF step = "receipt" THEN "install" ELSE "uninstall",
         step = "receipt" /\ ~again /\ Hook =>
             IF Upgrading' THEN config = Installed(journal'.edit)
             ELSE journal'.edit = config.user
  PROVE  InstallInv'
<1> USE InstallationAssumption DEF InstallInv, Locked
<1>1. InstallTypeOK'
  BY DEF InstallTypeOK
<1>2. Placed' /\ Written' /\ Removed' /\ AllOrNothing'
  BY DEF Placed, Written, Removed, AllOrNothing, Installing, Removing, Bridge, Hook
<1>3. Planned'
  BY DEF Planned, Installed, Hook
<1> QED BY <1>1, <1>2, <1>3

LEMMA BeginKeeps ==
  ASSUME InstallInv, NEW p \in Processes, NEW g \in Generations, NEW edit \in Texts,
         NEW op \in {"install", "uninstall"},
         Begin(p, op, IF op = "install" THEN "receipt" ELSE "draining", g, edit),
         op = "install" /\ Hook =>
             IF receipt # None /\ receipt.state = "enabled" THEN config = Installed(edit)
             ELSE edit = config.user
  PROVE  InstallInv'
<1>1. journal' \in Journals /\ journal'.op = op /\ journal'.edit = edit /\ journal'.prior = receipt
  BY DEF Begin, Journals, InstallInv, InstallTypeOK
<1>2. Upgrading' <=> receipt # None /\ receipt.state = "enabled"
  BY <1>1 DEF Upgrading
<1> QED BY <1>1, <1>2, LockedKeeps DEF Begin

LEMMA RecoverKeeps ==
  ASSUME InstallInv, NEW p \in Processes, NEW g, NEW bytes, Recover(p, g, bytes)
  PROVE  InstallInv'
<1>1. journal' \in Journals /\ journal' = journal
  BY DEF Recover, InstallInv, InstallTypeOK
<1> QED BY <1>1, LockedKeeps DEF Recover, Journals

LEMMA InstallCallKeeps ==
  ASSUME InstallInv, NEW p \in Processes, NEW g \in Generations, InstallCall(p, g)
  PROVE  InstallInv'
<1>1. CASE InstallFresh(p, g)
  <2>1. (IF Hook THEN config.user ELSE 0) \in Texts
    BY InstallationAssumption DEF InstallInv, InstallTypeOK
  <2> QED BY <1>1, <2>1, BeginKeeps DEF InstallFresh, Uninstalled
<1>2. CASE InstallUpgrade(p, g)
  <2>1. receipt \in Receipts /\ receipt.edit \in Texts
    BY <1>2 DEF InstallUpgrade, Uninstalled, InstallInv, InstallTypeOK, Receipts
  <2> QED BY <1>2, <2>1, BeginKeeps DEF InstallUpgrade, Uninstalled, Intact
<1>3. CASE InstallNoop(p, g)
  BY <1>3, AnswerKeeps DEF InstallNoop
<1>4. CASE InstallRefused(p, g) \/ RecoverRefused(p, g, g)
  BY <1>4, AnswerKeeps DEF InstallRefused, RecoverRefused, Refused
<1>5. CASE Recover(p, g, g)
  BY <1>5, RecoverKeeps
<1> QED BY <1>1, <1>2, <1>3, <1>4, <1>5 DEF InstallCall

LEMMA UninstallCallKeeps ==
  ASSUME InstallInv, NEW p \in Processes, NEW g, NEW bytes, UninstallCall(p, g, bytes)
  PROVE  InstallInv'
<1>1. CASE UninstallBegin(p, g, bytes)
  <2>1. g \in Generations /\ receipt.edit \in Texts
    BY <1>1 DEF UninstallBegin, UninstallPlanned, InstallInv, InstallTypeOK, Receipts
  <2> QED BY <1>1, <2>1, BeginKeeps DEF UninstallBegin
<1>2. CASE UninstallRefused(p, g, bytes) \/ RecoverRefused(p, g, bytes)
  BY <1>2, AnswerKeeps DEF UninstallRefused, RecoverRefused, Refused
<1>3. CASE Recover(p, g, bytes)
  BY <1>3, RecoverKeeps
<1> QED BY <1>1, <1>2, <1>3 DEF UninstallCall

\* A process takes its answer, or nothing of the installation changes.
LEMMA OthersKeep ==
  ASSUME InstallInv, answer' \in [Processes -> {"none", "enabled", "disabled", "error"}],
         UNCHANGED <<kind, files, holder, at, plan, recovering, edits>>
  PROVE  InstallInv'
<1> USE DEF InstallInv, files
<1>1. InstallTypeOK'
  BY DEF InstallTypeOK
<1>2. Placed' /\ Written' /\ Removed' /\ Planned'
  BY DEF Placed, Written, Removed, Planned, Complete, Target, Upgrading, Installed,
         NothingThere, Installing, Removing, Bridge, Hook
<1>3. AllOrNothing'
  BY DEF AllOrNothing, Uninstalled, NothingThere, Bridge, Hook, Installed
<1> QED BY <1>1, <1>2, <1>3

LEMMA EditKeeps ==
  ASSUME InstallInv, EditConfig PROVE InstallInv'
<1> USE DEF InstallInv
<1>1. PICK user \in Texts, span \in {FALSE, config.span} :
          config' = [user |-> user, span |-> span]
  BY DEF EditConfig
<1>2. /\ config' \in [user : Texts, span : BOOLEAN] /\ (config'.span => config.span)
      /\ edits' \in Nat /\ edits' # 0
      /\ UNCHANGED <<kind, journal, receipt, launcher, bundle, bootstrap, holder, at, plan,
                     recovering, answer>>
  <2>1. config.span \in BOOLEAN
    BY DEF InstallTypeOK
  <2>2. edits \in Nat /\ edits' = edits + 1
    BY DEF InstallTypeOK, EditConfig
  <2>3. span \in BOOLEAN /\ (span => config.span)
    BY <2>1
  <2>4. config' \in [user : Texts, span : BOOLEAN] /\ (config'.span => config.span)
    BY <1>1, <2>3
  <2>5. edits' \in Nat /\ edits' # 0
    BY <2>2
  <2> QED BY <2>4, <2>5 DEF EditConfig
<1>3. InstallTypeOK'
  BY <1>2 DEF InstallTypeOK
<1>4. Placed' /\ Written' /\ Planned'
  BY <1>2 DEF Placed, Written, Planned, Complete, Target, Upgrading, Bridge, Hook
<1>5. Removed' /\ AllOrNothing'
  BY <1>2 DEF Removed, AllOrNothing, NothingThere, Uninstalled, Target, Bridge, Hook
<1> QED BY <1>3, <1>4, <1>5

LEMMA CrashKeeps ==
  ASSUME InstallInv, NEW p \in Processes, InstallCrash(p) PROVE InstallInv'
<1>1. answer' \in [Processes -> {"none", "enabled", "disabled", "error"}]
  BY DEF InstallInv, InstallTypeOK, InstallCrash
<1>2. CASE holder # p
  BY <1>1, <1>2, OthersKeep DEF InstallCrash
<1>3. CASE holder = p
  <2> USE <1>3 DEF InstallInv, InstallCrash, files
  <2>1. InstallTypeOK'
    BY <1>1 DEF InstallTypeOK
  <2>2. Placed' /\ Written' /\ Removed' /\ Planned'
    BY DEF Placed, Written, Removed, Planned, Installing, Removing
  <2>3. AllOrNothing'
    BY DEF AllOrNothing, Uninstalled, NothingThere, Bridge, Hook, Installed
  <2> QED BY <2>1, <2>2, <2>3
<1> QED BY <1>2, <1>3

-----------------------------------------------------------------------------
\* The installation writes the user's text as it last saw it.
LEMMA FileStepKeepsText ==
  ASSUME InstallInv, FileStep, config'.user # config.user
  PROVE  at = "replace" /\ config # plan
<1>1. CASE ReplaceConfig
  <2>1. plan \in [user : Texts, span : BOOLEAN]
    BY <1>1 DEF ReplaceConfig, InstallInv, InstallTypeOK, Planned
  <2>2. Replacement.user = plan.user
    BY <1>1, <2>1 DEF Replacement, Installed, ReplaceConfig, InstallInv, Planned
  <2> QED BY <1>1, <2>2 DEF ReplaceConfig
<1>2. CASE ~ReplaceConfig
  BY <1>2 DEF FileStep, PublishPending, PublishLauncher, PublishBundle, PublishBootstrap,
     KeepConfig, CheckConfig, ConfirmConfig, ConfigConflict, Refused, files, PublishEnabled,
     DeleteJournal, PublishDraining, RemoveBootstrap, RemoveBundle, RemoveLauncher,
     PublishDisabled
<1> QED BY <1>1, <1>2

LEMMA CallsKeepConfig ==
  ASSUME NEW p, NEW g, NEW bytes, InstallCall(p, g) \/ UninstallCall(p, g, bytes)
  PROVE  config' = config
BY DEF InstallCall, UninstallCall, InstallFresh, InstallUpgrade, InstallNoop, InstallRefused,
   Recover, RecoverRefused, UninstallBegin, UninstallRefused, Begin, Locked, Refused, files

-----------------------------------------------------------------------------
(* The commands.                                                           *)

Labels == {"idle", "preflight", "register", "call", "answer", "activate", "enable",
           "others", "lock", "list", "revive", "drain", "retire", "relist", "settle",
           "resolve", "inspect", "again", "last", "mark", "purge"}
Seen == [Generations -> States] \cup {<<>>}
Commands == [op : {"none", "connect", "disconnect", "delete"},
             gen : Generations \cup {0}, bytes : Generations \cup {0},
             at : Labels, seen : Seen]

\* What the place of a command says of the spool's lock and of its queue.
Fits(p) ==
    /\ cmd[p].op = "connect" => cmd[p].gen \in Generations
    /\ cmd[p].at \in {"enable", "revive", "retire", "settle"} =>
           cmd[p].seen \in [Generations -> States]
    /\ cmd[p].op = "delete" \/ cmd[p].at \in {"revive", "drain", "retire"} =>
           spoolHolder = p
    /\ cmd[p].at = "retire" => queue = {} /\ cmd[p].op # "delete"

SpentOK ==
    /\ limit \in Limits /\ spent \in [Bounded -> Nat]
    /\ \A b \in Bounded : spent[b] <= limit[b]
StoreOK ==
    /\ connection \in [Generations -> States]
    /\ queue \subseteq Generations /\ hooks \subseteq Generations

CommandsInv ==
    /\ InstallInv /\ StoreOK /\ SpentOK
    /\ spoolHolder \in Processes \cup {None}
    /\ cmd \in [Processes -> Commands]
    /\ \A p \in Processes : Fits(p)

LEMMA IdleCommand == Idle \in Commands
BY DEF Idle, Commands, Labels, Seen

LEMMA CommandsInitial == Init => CommandsInv
<1> SUFFICES ASSUME Init PROVE CommandsInv
  OBVIOUS
<1>1. InstallInv
  BY InstallInitial DEF Init
<1>2. StoreOK
  BY DEF Init, StoreOK, States
<1>3. SpentOK
  <2>1. \A b \in Bounded : limit[b] \in Nat
    BY CommandsAssumption DEF Init
  <2> QED BY <2>1 DEF Init, SpentOK
<1>4. cmd \in [Processes -> Commands]
  BY IdleCommand DEF Init
<1>5. \A p \in Processes : Fits(p)
  BY DEF Init, Idle, Fits
<1> QED BY <1>1, <1>2, <1>3, <1>4, <1>5 DEF CommandsInv, Init

-----------------------------------------------------------------------------
(* A process goes from one place to another.                               *)

Moved(p) ==
    /\ cmd' \in [Processes -> Commands]
    /\ \A q \in Processes : q # p => cmd'[q] = cmd[q]

LEMMA GotoMoves ==
  ASSUME CommandsInv, NEW p \in Processes, NEW label \in Labels, Goto(p, label)
  PROVE  /\ Moved(p)
         /\ cmd'[p] = [cmd[p] EXCEPT !.at = label]
BY DEF CommandsInv, Commands, Goto, Moved

LEMMA LeaveMoves ==
  ASSUME CommandsInv, NEW p \in Processes, NEW label \in Labels, Leave(p, label)
  PROVE  /\ Moved(p)
         /\ cmd'[p] = [cmd[p] EXCEPT !.at = label, !.seen = <<>>]
BY ZenonT(60) DEF CommandsInv, Commands, Leave, Moved, Seen

LEMMA ListedMoves ==
  ASSUME CommandsInv, NEW p \in Processes, NEW label \in Labels, Listed(p, label)
  PROVE  /\ Moved(p)
         /\ cmd'[p] = [cmd[p] EXCEPT !.at = label, !.seen = connection]
BY ZenonT(60) DEF CommandsInv, Commands, Listed, Moved, Seen, StoreOK

\* It gives back the lock if it has it.
LEMMA FinishMoves ==
  ASSUME CommandsInv, NEW p \in Processes, Finish(p)
  PROVE  /\ Moved(p) /\ Fits(p)'
         /\ \/ UNCHANGED spoolHolder
            \/ spoolHolder = p /\ spoolHolder' = None
<1>1. Moved(p) /\ cmd'[p] = Idle
  BY IdleCommand DEF CommandsInv, Finish, Moved
<1>2. Fits(p)'
  BY <1>1 DEF Fits, Idle
<1> QED BY <1>1, <1>2 DEF Finish

\* The places of the other processes hold as before: while one is between
\* locking and releasing the spool, no other is.
LEMMA MoveKeeps ==
  ASSUME CommandsInv, NEW p \in Processes, Moved(p), Fits(p)',
         InstallInv', StoreOK', SpentOK', queue' \subseteq queue,
         \/ UNCHANGED spoolHolder
         \/ spoolHolder \in {p, None} /\ spoolHolder' \in {p, None}
  PROVE  CommandsInv'
<1>1. spoolHolder' \in Processes \cup {None}
  BY DEF CommandsInv
<1>2. ASSUME NEW q \in Processes, q # p PROVE Fits(q)'
  <2>1. Fits(q) /\ cmd'[q] = cmd[q]
    BY <1>2 DEF CommandsInv, Moved
  <2>2. spoolHolder = q => spoolHolder' = q
    BY <1>2, InstallationAssumption
  <2> QED BY <2>1, <2>2 DEF Fits
<1>3. \A q \in Processes : Fits(q)'
  BY <1>2
<1> QED BY <1>1, <1>3 DEF CommandsInv, Moved

\* What a command changes alone leaves the installation and the bounds.
LEMMA OnlyCommandKeeps ==
  ASSUME CommandsInv, OnlyCommand PROVE InstallInv' /\ SpentOK' /\ hooks' \subseteq Generations
<1>1. InstallInv'
  BY OthersKeep DEF CommandsInv, OnlyCommand, installVars, files, InstallInv, InstallTypeOK
<1>2. SpentOK'
  BY DEF CommandsInv, OnlyCommand, SpentOK
<1> QED BY <1>1, <1>2 DEF CommandsInv, OnlyCommand, StoreOK

LEMMA SpendKeeps ==
  ASSUME SpentOK, NEW what \in SUBSET Bounded, Spend(what) PROVE SpentOK'
<1>1. \A b \in Bounded : limit[b] \in Nat
  BY CommandsAssumption DEF SpentOK
<1>2. spent' \in [Bounded -> Nat]
  BY DEF SpentOK, Spend
<1>3. \A b \in Bounded : spent'[b] <= limit[b]
  BY <1>1 DEF SpentOK, Spend
<1> QED BY <1>2, <1>3 DEF SpentOK, Spend

LEMMA CommandKeeps ==
  ASSUME CommandsInv, NEW p \in Processes, OnlyCommand, Moved(p), Fits(p)',
         connection' \in [Generations -> States], queue' \subseteq queue,
         \/ UNCHANGED spoolHolder
         \/ spoolHolder \in {p, None} /\ spoolHolder' \in {p, None}
  PROVE  CommandsInv'
<1>1. StoreOK'
  BY OnlyCommandKeeps DEF CommandsInv, StoreOK
<1> QED BY <1>1, OnlyCommandKeeps, MoveKeeps

LEMMA FinishKeeps ==
  ASSUME CommandsInv, NEW p \in Processes, OnlyCommand, Finish(p),
         connection' \in [Generations -> States], queue' \subseteq queue
  PROVE  CommandsInv'
BY FinishMoves, CommandKeeps

LEMMA GotoKeeps ==
  ASSUME CommandsInv, NEW p \in Processes, OnlyCommand,
         NEW label \in Labels \ {"enable", "revive", "drain", "retire", "settle"},
         Goto(p, label), UNCHANGED spoolHolder,
         connection' \in [Generations -> States], queue' \subseteq queue
  PROVE  CommandsInv'
<1>1. Moved(p) /\ cmd'[p] = [cmd[p] EXCEPT !.at = label]
  BY GotoMoves
<1>2. Fits(p)'
  BY <1>1 DEF CommandsInv, Commands, Fits
<1> QED BY <1>1, <1>2, CommandKeeps

LEMMA RegisteredTypes ==
  ASSUME CommandsInv, NEW g \in Generations, Registered(g)
  PROVE  connection' \in [Generations -> States]
BY DEF CommandsInv, StoreOK, Registered, States

LEMMA SetTypes ==
  ASSUME CommandsInv, NEW g \in Generations, NEW from, NEW to \in States, Set(g, from, to)
  PROVE  connection' \in [Generations -> States]
BY DEF CommandsInv, StoreOK, Set

LEMMA ConnectionTypes == CommandsInv => connection \in [Generations -> States]
BY DEF CommandsInv, StoreOK

-----------------------------------------------------------------------------
(* connect                                                                 *)

LEMMA PreflightKeeps ==
  ASSUME CommandsInv, NEW p \in Processes, Preflight(p) PROVE CommandsInv'
BY FinishKeeps, GotoKeeps, ConnectionTypes DEF Preflight, Labels

LEMMA RegisterKeeps ==
  ASSUME CommandsInv, NEW p \in Processes, Register(p) PROVE CommandsInv'
<1>1. connection' \in [Generations -> States]
  BY RegisteredTypes DEF Register, At, CommandsInv, Fits
<1> QED BY <1>1, GotoKeeps DEF Register, Labels

LEMMA ReregisterKeeps ==
  ASSUME CommandsInv, NEW p \in Processes, Reregister(p) PROVE CommandsInv'
<1> DEFINE g == cmd[p].gen
           state == IF connection[g] = "absent" THEN "pending" ELSE connection[g]
           c == [cmd[p] EXCEPT !.at = "enable", !.seen = [connection EXCEPT ![g] = state]]
<1>1. g \in Generations /\ OnlyCommand
  BY DEF Reregister, At, CommandsInv, Fits
<1>2. connection' \in [Generations -> States]
  BY <1>1, RegisteredTypes DEF Reregister
<1>3. CASE Goto(p, "others") /\ UNCHANGED spoolHolder
  BY <1>1, <1>2, <1>3, GotoKeeps DEF Reregister, Labels
<1>4. CASE Finish(p)
  BY <1>1, <1>2, <1>4, FinishKeeps DEF Reregister
<1>5. CASE cmd' = [cmd EXCEPT ![p] = c] /\ UNCHANGED spoolHolder
  <2>1. [connection EXCEPT ![g] = state] \in [Generations -> States]
    BY <1>1 DEF CommandsInv, StoreOK, States
  <2>2. c \in Commands
    BY ZenonT(60), <2>1 DEF CommandsInv, Commands, Labels, Seen
  <2>3. Moved(p) /\ cmd'[p] = c
    BY <1>5, <2>2 DEF CommandsInv, Moved
  <2>4. Fits(p)'
    BY <1>1, <2>1, <2>3 DEF CommandsInv, Commands, Fits, Reregister, At
  <2> QED BY <1>1, <1>2, <1>5, <2>3, <2>4, CommandKeeps DEF Reregister
<1> QED BY <1>3, <1>4, <1>5 DEF Reregister

LEMMA EnableKeeps ==
  ASSUME CommandsInv, NEW p \in Processes, Enable(p) PROVE CommandsInv'
<1>1. cmd[p].gen \in Generations
  BY DEF Enable, At, CommandsInv, Fits
<1>2. CASE Finish(p) /\ UNCHANGED connection
  BY <1>2, FinishKeeps, ConnectionTypes DEF Enable
<1>3. CASE /\ Set(cmd[p].gen, cmd[p].seen[cmd[p].gen], "enabled")
           /\ Leave(p, "others") /\ UNCHANGED spoolHolder
  <2>1. connection' \in [Generations -> States]
    BY <1>1, <1>3, SetTypes DEF States, Retirable
  <2>2. Moved(p) /\ cmd'[p] = [cmd[p] EXCEPT !.at = "others", !.seen = <<>>]
    BY <1>3, LeaveMoves DEF Labels
  <2>3. Fits(p)'
    BY <1>1, <1>3, <2>2 DEF CommandsInv, Commands, Fits
  <2> QED BY <1>3, <2>1, <2>2, <2>3, CommandKeeps DEF Enable
<1> QED BY <1>2, <1>3 DEF Enable

LEMMA SupersededKeeps ==
  ASSUME CommandsInv, NEW p \in Processes, Superseded(p) PROVE CommandsInv'
BY FinishKeeps, GotoKeeps, ConnectionTypes DEF Superseded, Labels

\* Calls of the installation and their answers.
LEMMA CallMoves ==
  ASSUME CommandsInv, NEW p \in Processes, InstallInv',
         NEW label \in {"answer", "last", "relist", "again", "activate"}, Goto(p, label),
         UNCHANGED <<connection, queue, hooks, spoolHolder, limit, spent>>
  PROVE  CommandsInv'
<1>1. Moved(p) /\ cmd'[p] = [cmd[p] EXCEPT !.at = label]
  BY ZenonT(60), GotoMoves DEF Labels
<1>2. Fits(p)'
  BY <1>1 DEF CommandsInv, Commands, Fits
<1>3. StoreOK' /\ SpentOK'
  BY DEF CommandsInv, StoreOK, SpentOK
<1> QED BY <1>1, <1>2, <1>3, MoveKeeps

LEMMA CallFinishes ==
  ASSUME CommandsInv, NEW p \in Processes, InstallInv', Finish(p),
         UNCHANGED <<connection, queue, hooks>>, SpentOK'
  PROVE  CommandsInv'
<1>1. StoreOK'
  BY DEF CommandsInv, StoreOK
<1> QED BY <1>1, FinishMoves, MoveKeeps

LEMMA TakeKeeps ==
  ASSUME CommandsInv, NEW p \in Processes, Take(p) PROVE InstallInv'
<1>1. answer' \in [Processes -> {"none", "enabled", "disabled", "error"}]
  BY DEF CommandsInv, InstallInv, InstallTypeOK, Take
<1> QED BY <1>1, OthersKeep DEF CommandsInv, Take

LEMMA ConnectingKeeps ==
  ASSUME CommandsInv, NEW p \in Processes, Connecting(p) PROVE CommandsInv'
<1>1. InstallInv'
  BY InstallCallKeeps DEF Connecting, At, CommandsInv, Fits
<1> QED BY <1>1, CallMoves DEF Connecting

LEMMA ConnectAnsweredKeeps ==
  ASSUME CommandsInv, NEW p \in Processes, ConnectAnswered(p) PROVE CommandsInv'
<1>1. InstallInv' /\ SpentOK'
  BY TakeKeeps DEF ConnectAnswered, CommandsInv, SpentOK
<1> QED BY <1>1, CallMoves, CallFinishes DEF ConnectAnswered

-----------------------------------------------------------------------------
(* Retiring connections.                                                   *)

LEMMA ListKeeps ==
  ASSUME CommandsInv, NEW p \in Processes, List(p) PROVE CommandsInv'
<1>1. OnlyCommand /\ connection' \in [Generations -> States] /\ queue' = queue
  BY ConnectionTypes DEF List
<1>2. CASE Finish(p)
  BY <1>1, <1>2, FinishKeeps
<1>3. CASE Goto(p, "lock") /\ UNCHANGED spoolHolder
  BY <1>1, <1>3, GotoKeeps DEF Labels
<1>4. CASE Listed(p, "resolve") /\ UNCHANGED spoolHolder
  <2>1. Moved(p) /\ cmd'[p] = [cmd[p] EXCEPT !.at = "resolve", !.seen = connection]
    BY <1>4, ListedMoves DEF Labels
  <2>2. Fits(p)'
    BY <1>4, <2>1 DEF CommandsInv, Commands, Fits
  <2> QED BY <1>1, <1>4, <2>1, <2>2, CommandKeeps
<1> QED BY <1>2, <1>3, <1>4 DEF List

LEMMA LockSpoolKeeps ==
  ASSUME CommandsInv, NEW p \in Processes, LockSpool(p) PROVE CommandsInv'
<1>1. OnlyCommand /\ connection' \in [Generations -> States] /\ queue' = queue
  BY ConnectionTypes DEF LockSpool
<1>2. CASE Finish(p)
  BY <1>1, <1>2, FinishKeeps
<1>3. CASE Listed(p, "revive") /\ spoolHolder' = p
  <2>1. Moved(p) /\ cmd'[p] = [cmd[p] EXCEPT !.at = "revive", !.seen = connection]
    BY <1>3, ListedMoves DEF Labels
  <2>2. Fits(p)'
    BY <1>3, <2>1 DEF CommandsInv, Commands, Fits, StoreOK
  <2> QED BY <1>1, <1>3, <2>1, <2>2, CommandKeeps DEF LockSpool
<1> QED BY <1>2, <1>3 DEF LockSpool

\* One connection goes on, in the store and in what the command has listed.
LEMMA AdvanceKeeps ==
  ASSUME CommandsInv, NEW p \in Processes, OnlyCommand,
         cmd[p].at \in {"revive", "retire", "settle"},
         NEW g \in Generations, NEW from, NEW to \in States, Set(g, from, to),
         cmd' = [cmd EXCEPT ![p].seen[g] = to], UNCHANGED <<spoolHolder, queue>>
  PROVE  CommandsInv'
<1> DEFINE c == [cmd[p] EXCEPT !.seen = [@ EXCEPT ![g] = to]]
<1>1. [cmd[p].seen EXCEPT ![g] = to] \in [Generations -> States]
  BY DEF CommandsInv, Fits
<1>2. c \in Commands /\ c.at = cmd[p].at /\ c.op = cmd[p].op /\ c.gen = cmd[p].gen
  BY <1>1 DEF CommandsInv, Commands, Seen
<1>3. Moved(p) /\ cmd'[p] = c
  BY <1>2 DEF CommandsInv, Moved
<1>4. c.seen \in [Generations -> States]
  BY <1>1 DEF CommandsInv, Commands
<1>5. Fits(p)'
  BY <1>2, <1>3, <1>4 DEF CommandsInv, Fits
<1>6. connection' \in [Generations -> States]
  BY SetTypes
<1> QED BY <1>3, <1>5, <1>6, CommandKeeps

LEMMA ReviveKeeps ==
  ASSUME CommandsInv, NEW p \in Processes, Revive(p) PROVE CommandsInv'
<1>1. OnlyCommand /\ cmd[p].at = "revive" /\ queue' = queue
  BY DEF Revive
<1>2. ASSUME NEW g \in Pending(p), Set(g, "pending", "enabled"),
             cmd' = [cmd EXCEPT ![p].seen[g] = "enabled"], UNCHANGED spoolHolder
      PROVE  CommandsInv'
  <2>1. g \in Generations /\ "enabled" \in States
    BY DEF Pending, States, Retirable
  <2> QED BY <1>1, <1>2, <2>1, AdvanceKeeps
<1>3. CASE Finish(p) /\ UNCHANGED connection
  BY <1>1, <1>3, FinishKeeps, ConnectionTypes
<1>4. CASE Leave(p, "drain") /\ UNCHANGED <<connection, spoolHolder>>
  <2>1. Moved(p) /\ cmd'[p] = [cmd[p] EXCEPT !.at = "drain", !.seen = <<>>]
    BY <1>4, LeaveMoves DEF Labels
  <2>2. Fits(p)'
    BY <1>1, <1>4, <2>1 DEF CommandsInv, Commands, Fits
  <2> QED BY <1>1, <1>4, <2>1, <2>2, CommandKeeps, ConnectionTypes
<1> QED BY <1>2, <1>3, <1>4 DEF Revive

LEMMA DrainKeeps ==
  ASSUME CommandsInv, NEW p \in Processes, Drain(p) PROVE CommandsInv'
<1>1. OnlyCommand /\ connection' \in [Generations -> States] /\ queue' \subseteq queue
  BY ConnectionTypes DEF Drain
<1>2. CASE Finish(p)
  BY <1>1, <1>2, FinishKeeps
<1>3. CASE queue' = {} /\ Listed(p, "retire") /\ UNCHANGED spoolHolder
  <2>1. Moved(p) /\ cmd'[p] = [cmd[p] EXCEPT !.at = "retire", !.seen = connection]
    BY <1>3, ListedMoves DEF Labels
  <2>2. spoolHolder = p /\ cmd[p].op # "delete"
    BY DEF Drain, CommandsInv, Fits
  <2>3. Fits(p)'
    <3>1. /\ cmd'[p].at = "retire" /\ cmd'[p].seen = connection
          /\ cmd'[p].op = cmd[p].op /\ cmd'[p].gen = cmd[p].gen
      BY <2>1 DEF CommandsInv, Commands
    <3> QED BY <1>3, <2>2, <3>1 DEF CommandsInv, Fits, StoreOK
  <2> QED BY <1>1, <1>3, <2>1, <2>3, CommandKeeps
<1> QED BY <1>2, <1>3 DEF Drain

LEMMA RetireKeeps ==
  ASSUME CommandsInv, NEW p \in Processes, Retire(p) PROVE CommandsInv'
<1>1. /\ OnlyCommand /\ cmd[p].at = "retire" /\ queue' = queue
      /\ spoolHolder = p /\ cmd[p].op # "delete"
  BY DEF Retire, CommandsInv, Fits
<1>2. ASSUME NEW g \in Enabled(p), Set(g, "enabled", "draining"),
             cmd' = [cmd EXCEPT ![p].seen[g] = "draining"], UNCHANGED spoolHolder
      PROVE  CommandsInv'
  <2>1. g \in Generations /\ "draining" \in States
    BY DEF Enabled, States, Retirable
  <2> QED BY <1>1, <1>2, <2>1, AdvanceKeeps
<1>3. CASE Finish(p) /\ UNCHANGED connection
  BY <1>1, <1>3, FinishKeeps, ConnectionTypes
<1>4. ASSUME spoolHolder' = None, UNCHANGED connection,
             Leave(p, "relist") \/ Goto(p, "resolve")
      PROVE  CommandsInv'
  <2>1. /\ Moved(p) /\ cmd'[p].at \in {"relist", "resolve"}
        /\ cmd'[p].op = cmd[p].op /\ cmd'[p].gen = cmd[p].gen
    <3>1. CASE Leave(p, "relist")
      <4>1. Moved(p) /\ cmd'[p] = [cmd[p] EXCEPT !.at = "relist", !.seen = <<>>]
        BY <3>1, LeaveMoves DEF Labels
      <4> QED BY <4>1 DEF CommandsInv, Commands
    <3>2. CASE Goto(p, "resolve")
      <4>1. Moved(p) /\ cmd'[p] = [cmd[p] EXCEPT !.at = "resolve"]
        BY <3>2, GotoMoves DEF Labels
      <4> QED BY <4>1 DEF CommandsInv, Commands
    <3> QED BY <1>4, <3>1, <3>2
  <2>2. Fits(p)'
    BY <1>1, <2>1 DEF CommandsInv, Fits
  <2> QED BY <1>1, <1>4, <2>1, <2>2, CommandKeeps, ConnectionTypes
<1>5. \/ \E g \in Enabled(p) :
            \/ /\ Set(g, "enabled", "draining")
               /\ cmd' = [cmd EXCEPT ![p].seen[g] = "draining"]
               /\ UNCHANGED spoolHolder
            \/ Finish(p) /\ UNCHANGED connection
      \/ Finish(p) /\ UNCHANGED connection
      \/ /\ spoolHolder' = None /\ UNCHANGED connection
         /\ Leave(p, "relist") \/ Goto(p, "resolve")
  BY DEF Retire
<1> QED BY <1>2, <1>3, <1>4, <1>5

LEMMA RelistKeeps ==
  ASSUME CommandsInv, NEW p \in Processes, Relist(p) PROVE CommandsInv'
<1>1. Moved(p) /\ cmd'[p] = [cmd[p] EXCEPT !.at = "settle", !.seen = connection]
  BY ListedMoves DEF Labels, Relist
<1>2. Fits(p)'
  BY <1>1 DEF CommandsInv, Commands, Fits, StoreOK, Relist
<1> QED BY <1>1, <1>2, CommandKeeps, ConnectionTypes DEF Relist

LEMMA SettleKeeps ==
  ASSUME CommandsInv, NEW p \in Processes, Settle(p) PROVE CommandsInv'
<1>1. OnlyCommand /\ cmd[p].at = "settle" /\ queue' = queue
  BY DEF Settle
<1>2. ASSUME NEW g \in Draining(p), Set(g, "draining", "disabled"),
             cmd' = [cmd EXCEPT ![p].seen[g] = "disabled"], UNCHANGED spoolHolder
      PROVE  CommandsInv'
  <2>1. g \in Generations /\ "disabled" \in States
    BY DEF Draining, States, Retirable
  <2> QED BY <1>1, <1>2, <2>1, AdvanceKeeps
<1>3. CASE Finish(p) /\ UNCHANGED connection
  BY <1>1, <1>3, FinishKeeps, ConnectionTypes
<1> QED BY <1>2, <1>3 DEF Settle

-----------------------------------------------------------------------------
(* disconnect and delete                                                   *)

LEMMA ResolveKeeps ==
  ASSUME CommandsInv, NEW p \in Processes, Resolve(p) PROVE CommandsInv'
<1>1. /\ OnlyCommand /\ cmd[p].op = "disconnect" /\ queue' = queue
      /\ connection' \in [Generations -> States]
  BY ConnectionTypes DEF Resolve, At
<1>2. CASE Finish(p)
  BY <1>1, <1>2, FinishKeeps
<1>3. ASSUME NEW g \in IF receipt = None THEN Generations ELSE {receipt.gen},
             cmd' = [cmd EXCEPT ![p].at = "inspect", ![p].gen = g, ![p].seen = <<>>,
                                ![p].bytes = IF Uninstalled THEN 0 ELSE launcher],
             UNCHANGED spoolHolder
      PROVE  CommandsInv'
  <2> DEFINE c == [cmd[p] EXCEPT !.at = "inspect", !.gen = g, !.seen = <<>>,
                                 !.bytes = IF Uninstalled THEN 0 ELSE launcher]
  <2>1. g \in Generations /\ (IF Uninstalled THEN 0 ELSE launcher) \in Generations \cup {0}
    BY DEF CommandsInv, InstallInv, InstallTypeOK, Receipts
  <2>2. c \in Commands /\ c.op = "disconnect" /\ c.at = "inspect"
    BY <1>1, <2>1 DEF CommandsInv, Commands, Labels, Seen
  <2>3. Moved(p) /\ cmd'[p] = c
    BY <1>3, <2>2 DEF CommandsInv, Moved
  <2>4. Fits(p)'
    BY <2>2, <2>3 DEF Fits
  <2> QED BY <1>1, <1>3, <2>3, <2>4, CommandKeeps
<1> QED BY <1>2, <1>3 DEF Resolve

LEMMA InspectKeeps ==
  ASSUME CommandsInv, NEW p \in Processes, Inspect(p) PROVE CommandsInv'
BY FinishKeeps, GotoKeeps, ConnectionTypes DEF Inspect, Labels

LEMMA UninstallingKeeps ==
  ASSUME CommandsInv, NEW p \in Processes, Uninstalling(p) PROVE CommandsInv'
<1>1. InstallInv'
  BY UninstallCallKeeps DEF Uninstalling, CommandsInv
<1> QED BY <1>1, CallMoves DEF Uninstalling

LEMMA UninstallAnsweredKeeps ==
  ASSUME CommandsInv, NEW p \in Processes, UninstallAnswered(p) PROVE CommandsInv'
<1>1. InstallInv' /\ SpentOK'
  BY TakeKeeps DEF UninstallAnswered, CommandsInv, SpentOK
<1> QED BY <1>1, CallMoves, CallFinishes DEF UninstallAnswered

LEMMA DeleteDrainKeeps ==
  ASSUME CommandsInv, NEW p \in Processes, DeleteDrain(p) PROVE CommandsInv'
<1>1. OnlyCommand /\ connection' \in [Generations -> States] /\ queue' \subseteq queue
  BY ConnectionTypes DEF DeleteDrain
<1> QED BY <1>1, FinishKeeps, GotoKeeps DEF DeleteDrain, Labels

LEMMA DeleteMarkKeeps ==
  ASSUME CommandsInv, NEW p \in Processes, DeleteMark(p) PROVE CommandsInv'
<1>1. OnlyCommand /\ connection' \in [Generations -> States] /\ queue' = queue
  BY ConnectionTypes DEF DeleteMark, States
<1> QED BY <1>1, FinishKeeps, GotoKeeps DEF DeleteMark, Labels

LEMMA DeletePurgeKeeps ==
  ASSUME CommandsInv, NEW p \in Processes, DeletePurge(p) PROVE CommandsInv'
<1>1. connection' \in [Generations -> States]
  BY DEF DeletePurge, States
<1> QED BY <1>1, FinishKeeps DEF DeletePurge

-----------------------------------------------------------------------------
(* Starts, hooks, edits and crashes.                                       *)

LEMMA StartKeeps ==
  ASSUME CommandsInv, NEW p \in Processes,
         NEW what \in SUBSET Bounded, "overlaps" \notin what, Start(p, what),
         NEW c \in Commands, cmd' = [cmd EXCEPT ![p] = c],
         c.at \notin {"enable", "revive", "retire", "settle"},
         c.op = "connect" => c.gen \in Generations,
         c.op = "delete" \/ c.at = "drain" => spoolHolder' = p,
         UNCHANGED <<installVars, connection, queue, hooks>>,
         \/ UNCHANGED spoolHolder
         \/ spoolHolder = None /\ spoolHolder' = p
  PROVE  CommandsInv'
<1>1. Moved(p) /\ cmd'[p] = c
  BY DEF CommandsInv, Moved
<1>2. Fits(p)'
  BY <1>1 DEF Fits
<1>3. InstallInv'
  BY OthersKeep DEF CommandsInv, installVars, files, InstallInv, InstallTypeOK
<1>4. SpentOK'
  <2>1. what \cup (IF \A q \in Processes : cmd[q] = Idle THEN {} ELSE {"overlaps"})
            \in SUBSET Bounded
    BY DEF Bounded
  <2> QED BY <2>1, SpendKeeps DEF Start, CommandsInv
<1>5. StoreOK'
  BY DEF CommandsInv, StoreOK
<1> QED BY <1>1, <1>2, <1>3, <1>4, <1>5, MoveKeeps

LEMMA ConnectStartKeeps ==
  ASSUME CommandsInv, NEW p \in Processes, NEW g \in Generations, ConnectStart(p, g)
  PROVE  CommandsInv'
<1> DEFINE c == [Idle EXCEPT !.op = "connect", !.gen = g, !.at = "preflight"]
<1>1. c \in Commands /\ c.op = "connect" /\ c.gen = g /\ c.at = "preflight"
  BY DEF Idle, Commands, Labels, Seen
<1>2. /\ Start(p, {"connects"}) /\ cmd' = [cmd EXCEPT ![p] = c]
      /\ UNCHANGED <<installVars, connection, queue, hooks>> /\ UNCHANGED spoolHolder
  BY DEF ConnectStart
<1>3. {"connects"} \in SUBSET Bounded /\ "overlaps" \notin {"connects"}
  BY DEF Bounded
<1> HIDE DEF c
<1> QED BY <1>1, <1>2, <1>3, StartKeeps

LEMMA DisconnectStartKeeps ==
  ASSUME CommandsInv, NEW p \in Processes, DisconnectStart(p) PROVE CommandsInv'
<1> DEFINE c == [Idle EXCEPT !.op = "disconnect", !.at = "list"]
<1>1. c \in Commands /\ c.op = "disconnect" /\ c.at = "list"
  BY DEF Idle, Commands, Labels, Seen
<1>2. /\ Start(p, {}) /\ cmd' = [cmd EXCEPT ![p] = c]
      /\ UNCHANGED <<installVars, connection, queue, hooks>> /\ UNCHANGED spoolHolder
  BY DEF DisconnectStart
<1>3. {} \in SUBSET Bounded /\ "overlaps" \notin {}
  BY DEF Bounded
<1> HIDE DEF c
<1> QED BY <1>1, <1>2, <1>3, StartKeeps

LEMMA DeleteStartKeeps ==
  ASSUME CommandsInv, NEW p \in Processes, DeleteStart(p) PROVE CommandsInv'
<1>1. PICK next \in {"drain", "mark"} :
          cmd' = [cmd EXCEPT ![p] = [Idle EXCEPT !.op = "delete", !.at = next]]
  BY DEF DeleteStart
<1> DEFINE c == [Idle EXCEPT !.op = "delete", !.at = next]
<1>2. c \in Commands /\ c.op = "delete" /\ c.at = next
  BY DEF Idle, Commands, Labels, Seen
<1>3. /\ Start(p, {"deletes"}) /\ spoolHolder = None /\ spoolHolder' = p
      /\ UNCHANGED <<installVars, connection, queue, hooks>>
  BY DEF DeleteStart
<1> QED BY <1>1, <1>2, <1>3, StartKeeps DEF Bounded

\* Nothing of the commands changes.
LEMMA OutsideKeeps ==
  ASSUME CommandsInv, InstallInv', SpentOK', UNCHANGED <<connection, spoolHolder, cmd>>,
         queue' \subseteq Generations, hooks' \subseteq Generations,
         queue' = queue \/ spoolHolder = None
  PROVE  CommandsInv'
<1>1. StoreOK'
  BY DEF CommandsInv, StoreOK
<1>2. ASSUME NEW p \in Processes PROVE Fits(p)'
  BY InstallationAssumption DEF CommandsInv, Fits
<1> QED BY <1>1, <1>2 DEF CommandsInv

LEMMA UnchangedInstall == InstallInv /\ UNCHANGED installVars => InstallInv'
BY OthersKeep DEF installVars, files, InstallInv, InstallTypeOK

LEMMA HooksKeep ==
  ASSUME CommandsInv, NEW g \in Generations, HookStart(g) \/ HookAdmit(g)
  PROVE  CommandsInv'
<1>1. InstallInv'
  BY UnchangedInstall DEF HookStart, HookAdmit, CommandsInv
<1>2. SpentOK'
  <2>1. CASE HookStart(g)
    BY <2>1, SpendKeeps DEF HookStart, CommandsInv, Bounded
  <2>2. CASE HookAdmit(g)
    BY <2>2 DEF HookAdmit, CommandsInv, SpentOK
  <2> QED BY <2>1, <2>2
<1>3. /\ UNCHANGED <<connection, spoolHolder, cmd>>
      /\ queue' \subseteq Generations /\ hooks' \subseteq Generations
      /\ queue' = queue \/ spoolHolder = None
  BY DEF HookStart, HookAdmit, CommandsInv, StoreOK
<1> QED BY <1>1, <1>2, <1>3, OutsideKeeps

LEMMA OutsideInstallKeeps ==
  ASSUME CommandsInv, InstallStep \/ Edit PROVE CommandsInv'
<1>1. InstallInv'
  BY FileStepKeeps, EditKeeps DEF InstallStep, Edit, CommandsInv
<1>2. SpentOK'
  <2>1. CASE InstallStep
    BY <2>1 DEF InstallStep, CommandsInv, SpentOK
  <2>2. CASE Edit
    BY <2>2, SpendKeeps DEF Edit, CommandsInv, Bounded
  <2> QED BY <2>1, <2>2
<1> QED BY <1>1, <1>2, OutsideKeeps DEF InstallStep, Edit, CommandsInv, StoreOK

LEMMA CommandCrashKeeps ==
  ASSUME CommandsInv, NEW p \in Processes, Crash(p) PROVE CommandsInv'
<1>1. InstallInv' /\ SpentOK'
  BY CrashKeeps, SpendKeeps DEF Crash, CommandsInv, Bounded
<1> QED BY <1>1, CallFinishes DEF Crash

LEMMA CommandsStep == CommandsInv /\ [Next]_vars => CommandsInv'
<1> SUFFICES ASSUME CommandsInv, [Next]_vars PROVE CommandsInv'
  OBVIOUS
<1>1. ASSUME NEW p \in Processes, Step(p) PROVE CommandsInv'
  BY <1>1, PreflightKeeps, RegisterKeeps, ConnectingKeeps, ConnectAnsweredKeeps,
     ReregisterKeeps, EnableKeeps, SupersededKeeps, ListKeeps, LockSpoolKeeps,
     ReviveKeeps, DrainKeeps, RetireKeeps, RelistKeeps, SettleKeeps, ResolveKeeps,
     InspectKeeps, UninstallingKeeps, UninstallAnsweredKeeps, DeleteDrainKeeps,
     DeleteMarkKeeps, DeletePurgeKeeps DEF Step
<1>2. CASE UNCHANGED vars
  BY <1>2, UnchangedInstall, OutsideKeeps DEF vars, CommandsInv, StoreOK, SpentOK
<1> QED BY <1>1, <1>2, ConnectStartKeeps, DisconnectStartKeeps, DeleteStartKeeps,
           CommandCrashKeeps, HooksKeep, OutsideInstallKeeps DEF Next

-----------------------------------------------------------------------------
(* Whatever processes die, overlap or edit: the invariant holds in every   *)
(* reachable state (run_connect, run_disconnect, install_provider).        *)
THEOREM CommandsInvariant == Spec => []CommandsInv
BY CommandsInitial, CommandsStep, PTL DEF Spec

(* Every variable has its type, and no bound is exceeded.                  *)
THEOREM CommandsTypes == Spec => []TypeOK
<1>1. CommandsInv => TypeOK
  <2> SUFFICES ASSUME CommandsInv PROVE TypeOK
    OBVIOUS
  <2>1. \A b \in Bounded : spent[b] \in 0..limit[b]
    BY CommandsAssumption DEF CommandsInv, SpentOK
  <2> QED BY <2>1 DEF CommandsInv, TypeOK, StoreOK, SpentOK, InstallInv, Commands, Seen
<1> QED BY <1>1, CommandsInvariant, PTL

(* Without a journal, an installation is all there or not at all, after    *)
(* any number of crashes and recoveries of any commands                    *)
(* (_install_locked, uninstall_provider, _recover_locked).                 *)
THEOREM CommandsAllOrNothing == Spec => []AllOrNothing
<1>1. CommandsInv => AllOrNothing
  BY DEF CommandsInv, InstallInv
<1> QED BY <1>1, CommandsInvariant, PTL

-----------------------------------------------------------------------------
(* The user's part of the config is never changed by a command, installed, *)
(* upgraded, removed or recovered, unless the user saves the file between  *)
(* a command's last look at it and the replacement (_install_locked,       *)
(* _apply_config_removal, publish_config_bytes, delete_config_bytes).      *)
THEOREM CommandsUserTextKept == Spec => UserTextKept
<1> DEFINE Kept == edits' # edits \/ (at = "replace" /\ config # plan)
<1>1. ASSUME CommandsInv, Next, config'.user # config.user PROVE Kept
  <2>1. CASE InstallStep
    BY <1>1, <2>1, FileStepKeepsText DEF CommandsInv, InstallStep
  <2>2. CASE Edit
    BY <2>2, <1>1 DEF Edit, EditConfig, CommandsInv, InstallInv, InstallTypeOK
  <2>3. ASSUME NEW p \in Processes, Step(p) PROVE config' = config
    BY <2>3, CallsKeepConfig DEF Step, OnlyCommand, installVars, files, Take, Preflight, Register,
       Connecting, ConnectAnswered, Reregister, Enable, Superseded, List, LockSpool,
       Revive, Drain, Retire, Relist, Settle, Resolve, Inspect, Uninstalling,
       UninstallAnswered, DeleteDrain, DeleteMark, DeletePurge
  <2>4. ASSUME NEW p \in Processes, DisconnectStart(p) \/ DeleteStart(p) \/ Crash(p)
        PROVE  config' = config
    BY <2>4 DEF DisconnectStart, DeleteStart, Crash, InstallCrash, installVars, files
  <2>5. ASSUME NEW p, NEW g, ConnectStart(p, g) \/ HookStart(g) \/ HookAdmit(g)
        PROVE  config' = config
    BY <2>5 DEF ConnectStart, HookStart, HookAdmit, installVars
  <2> QED BY <1>1, <2>1, <2>2, <2>3, <2>4, <2>5 DEF Next
<1>2. CommandsInv /\ [Next]_vars => [config'.user # config.user => Kept]_vars
  BY <1>1
<1> QED BY <1>2, CommandsInvariant, PTL DEF Spec, UserTextKept

-----------------------------------------------------------------------------
\* Only the retirement sets a connection draining, under the lock.
LEMMA OnlyRetireDrains ==
  ASSUME CommandsInv, NEW p \in Processes, Step(p), NEW g \in Generations,
         connection[g] = "enabled", connection'[g] = "draining"
  PROVE  queue = {}
<1> USE DEF CommandsInv, StoreOK
<1>1. CASE Retire(p)
  BY <1>1 DEF Retire, Fits
<1>2. CASE Register(p) \/ Reregister(p)
  BY <1>2 DEF Register, Reregister, Registered
<1>3. CASE Enable(p) \/ Revive(p) \/ Settle(p)
  BY <1>3 DEF Enable, Revive, Settle, Set
<1>4. CASE DeleteMark(p) \/ DeletePurge(p)
  BY <1>4 DEF DeleteMark, DeletePurge
<1>5. CASE \/ Preflight(p) \/ Connecting(p) \/ ConnectAnswered(p) \/ Superseded(p)
           \/ List(p) \/ LockSpool(p) \/ Drain(p) \/ Relist(p) \/ Resolve(p) \/ Inspect(p)
           \/ Uninstalling(p) \/ UninstallAnswered(p) \/ DeleteDrain(p)
  BY <1>5 DEF Preflight, Connecting, ConnectAnswered, Superseded, List, LockSpool, Drain,
     Relist, Resolve, Inspect, Uninstalling, UninstallAnswered, DeleteDrain
<1> QED BY <1>1, <1>2, <1>3, <1>4, <1>5 DEF Step

(* However connects, disconnects, deletions and hooks interleave, nothing  *)
(* of a connection is queued when it is retired (run_disconnect,           *)
(* _activate_store_connection).                                            *)
THEOREM CommandsRetiredDrained == Spec => RetiredDrained
<1> DEFINE Kept == \A g \in Generations :
               connection[g] = "enabled" /\ connection'[g] = "draining" => g \notin queue
<1>1. ASSUME CommandsInv, Next PROVE Kept
  <2>1. ASSUME NEW p \in Processes, Step(p) PROVE Kept
    BY <1>1, <2>1, OnlyRetireDrains
  <2>2. ASSUME UNCHANGED connection PROVE Kept
    BY <2>2
  <2> QED BY <1>1, <2>1, <2>2 DEF Next, ConnectStart, DisconnectStart, DeleteStart, Crash,
             InstallStep, Edit, HookStart, HookAdmit
<1>2. CommandsInv /\ [Next]_vars => [Kept]_vars
  BY <1>1
<1> QED BY <1>2, CommandsInvariant, PTL DEF Spec, RetiredDrained

-----------------------------------------------------------------------------
\* Before a project deletion: what hooks may queue, and what is queued, has a
\* connection the store takes intakes for.
Undeleted ==
    spent.deletes = 0 =>
        /\ \A p \in Processes : cmd[p].op # "delete"
        /\ \A g \in queue \cup hooks : connection[g] \in Retirable

LEMMA StepRetirable ==
  ASSUME CommandsInv, NEW p \in Processes, Step(p), cmd[p].op # "delete",
         NEW g \in Generations, connection[g] \in Retirable
  PROVE  connection'[g] \in Retirable
<1> USE DEF CommandsInv, StoreOK, Retirable
<1>1. CASE Register(p) \/ Reregister(p)
  BY <1>1 DEF Register, Reregister, Registered
<1>2. CASE Enable(p) \/ Revive(p) \/ Retire(p) \/ Settle(p)
  BY <1>2 DEF Enable, Revive, Retire, Settle, Set
<1>3. CASE \/ Preflight(p) \/ Connecting(p) \/ ConnectAnswered(p) \/ Superseded(p)
           \/ List(p) \/ LockSpool(p) \/ Drain(p) \/ Relist(p) \/ Resolve(p) \/ Inspect(p)
           \/ Uninstalling(p) \/ UninstallAnswered(p)
  BY <1>3 DEF Preflight, Connecting, ConnectAnswered, Superseded, List, LockSpool, Drain,
     Relist, Resolve, Inspect, Uninstalling, UninstallAnswered
<1>4. ~DeleteDrain(p) /\ ~DeleteMark(p) /\ ~DeletePurge(p)
  BY DEF DeleteDrain, DeleteMark, DeletePurge, At
<1> QED BY <1>1, <1>2, <1>3, <1>4 DEF Step

LEMMA StepKeepsOp ==
  ASSUME CommandsInv, NEW p \in Processes, Step(p), cmd[p].op # "delete"
  PROVE  /\ \A q \in Processes : cmd'[q].op \in {cmd[q].op, "none"}
         /\ queue' \subseteq queue
<1> USE DEF CommandsInv, Commands
<1>1. ASSUME NEW label, Goto(p, label) \/ Listed(p, label) \/ Leave(p, label) \/ Finish(p)
      PROVE  \A q \in Processes : cmd'[q].op \in {cmd[q].op, "none"}
  BY <1>1 DEF Goto, Listed, Leave, Finish, Idle
<1>2. CASE Preflight(p) \/ Register(p) \/ Superseded(p) \/ List(p) \/ LockSpool(p)
           \/ Drain(p) \/ Relist(p) \/ Inspect(p)
  BY <1>1, <1>2 DEF Preflight, Register, Superseded, List, LockSpool, Drain, Relist,
     Inspect, OnlyCommand
<1>3. CASE Connecting(p) \/ ConnectAnswered(p) \/ Uninstalling(p) \/ UninstallAnswered(p)
  BY <1>1, <1>3 DEF Connecting, ConnectAnswered, Uninstalling, UninstallAnswered
<1>4. CASE Reregister(p) \/ Enable(p)
  BY <1>1, <1>4 DEF Reregister, Enable, OnlyCommand
<1>5. CASE Revive(p) \/ Retire(p) \/ Settle(p)
  BY <1>1, <1>5 DEF Revive, Retire, Settle, OnlyCommand
<1>6. CASE Resolve(p)
  <2>1. ASSUME NEW g, NEW bytes,
               cmd' = [cmd EXCEPT ![p].at = "inspect", ![p].gen = g, ![p].seen = <<>>,
                                  ![p].bytes = bytes]
        PROVE  \A q \in Processes : cmd'[q].op \in {cmd[q].op, "none"}
    <3>1. cmd'[p].op = cmd[p].op /\ \A q \in Processes : q # p => cmd'[q] = cmd[q]
      BY <2>1
    <3> QED BY <3>1
  <2>2. \/ Finish(p)
        \/ \E g : cmd' = [cmd EXCEPT ![p].at = "inspect", ![p].gen = g, ![p].seen = <<>>,
                               ![p].bytes = IF Uninstalled THEN 0 ELSE launcher]
    BY <1>6 DEF Resolve
  <2>3. queue' = queue
    BY <1>6 DEF Resolve
  <2> QED BY <1>1, <2>1, <2>2, <2>3
<1>7. ~DeleteDrain(p) /\ ~DeleteMark(p) /\ ~DeletePurge(p)
  BY DEF DeleteDrain, DeleteMark, DeletePurge, At
<1> QED BY <1>2, <1>3, <1>4, <1>5, <1>6, <1>7 DEF Step

LEMMA StepKeepsSpent ==
  ASSUME NEW p \in Processes, Step(p) PROVE UNCHANGED <<hooks, spent>>
BY DEF Step, OnlyCommand, Preflight, Register, Connecting, ConnectAnswered, Reregister,
   Enable, Superseded, List, LockSpool, Revive, Drain, Retire, Relist, Settle, Resolve,
   Inspect, Uninstalling, UninstallAnswered, DeleteDrain, DeleteMark, DeletePurge

LEMMA UndeletedStep == CommandsInv /\ Undeleted /\ [Next]_vars => Undeleted'
<1> SUFFICES ASSUME CommandsInv, Undeleted, [Next]_vars PROVE Undeleted'
  OBVIOUS
<1>1. /\ spent \in [Bounded -> Nat] /\ queue \subseteq Generations /\ hooks \subseteq Generations
      /\ cmd \in [Processes -> Commands]
  BY DEF CommandsInv, SpentOK, StoreOK
<1>2. ASSUME NEW p \in Processes, Step(p) PROVE Undeleted'
  <2>1. CASE cmd[p].op # "delete"
    BY <1>1, <1>2, <2>1, StepRetirable, StepKeepsOp, StepKeepsSpent DEF Undeleted
  <2>2. CASE cmd[p].op = "delete"
    BY <1>2, <2>2, StepKeepsSpent DEF Undeleted
  <2> QED BY <2>1, <2>2
<1>3. ASSUME NEW what \in SUBSET Bounded, Spend(what)
      PROVE  spent'["deletes"] = 0 => spent["deletes"] = 0 /\ "deletes" \notin what
  BY <1>1, <1>3 DEF Spend, Bounded
<1>4. ASSUME NEW p \in Processes, NEW g \in Generations, ConnectStart(p, g) PROVE Undeleted'
  <2>1. spent.deletes = 0 \/ spent'.deletes # 0
    BY <1>3, <1>4 DEF ConnectStart, Start, Bounded
  <2>2. \A q \in Processes : cmd[q].op # "delete" => cmd'[q].op # "delete"
    BY <1>1, <1>4 DEF ConnectStart, Idle
  <2> QED BY <1>4, <2>1, <2>2 DEF ConnectStart, Undeleted
<1>5. ASSUME NEW p \in Processes, DisconnectStart(p) PROVE Undeleted'
  BY <1>1, <1>3, <1>5 DEF DisconnectStart, Start, Idle, Undeleted, Bounded
<1>6. ASSUME NEW p \in Processes, DeleteStart(p) PROVE Undeleted'
  BY <1>1, <1>3, <1>6 DEF DeleteStart, Start, Undeleted, Bounded
<1>7. ASSUME NEW p \in Processes, Crash(p) PROVE Undeleted'
  BY <1>1, <1>3, <1>7 DEF Crash, Finish, Idle, Undeleted, Bounded
<1>8. CASE InstallStep \/ UNCHANGED vars
  BY <1>8 DEF InstallStep, Undeleted, vars
<1>9. CASE Edit
  BY <1>1, <1>3, <1>9 DEF Edit, Undeleted, Bounded
<1>10. ASSUME NEW g \in Generations, HookStart(g) PROVE Undeleted'
  BY <1>1, <1>3, <1>10 DEF HookStart, Undeleted, Bounded, Retirable
<1>11. ASSUME NEW g \in Generations, HookAdmit(g) PROVE Undeleted'
  BY <1>11 DEF HookAdmit, Undeleted
<1> QED BY <1>2, <1>4, <1>5, <1>6, <1>7, <1>8, <1>9, <1>10, <1>11 DEF Next

(* Until a deletion of the project, the store takes every queued intake:   *)
(* no hook that read an enabled connection, however late it comes, and no  *)
(* command that ran meanwhile leaves one that stops the drains             *)
(* (build_capture_hook_dependencies, run_disconnect).                      *)
THEOREM CommandsQueueAccepted == Spec => []QueueAccepted
<1>1. Init => Undeleted
  BY DEF Init, Undeleted, Idle
<1>2. CommandsInv /\ Undeleted => QueueAccepted
  BY DEF CommandsInv, StoreOK, Undeleted, QueueAccepted, Accepted
<1> QED BY <1>1, <1>2, UndeletedStep, CommandsInvariant, PTL DEF Spec
=============================================================================
