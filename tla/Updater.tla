------------------------------ MODULE Updater ------------------------------
(* The transactional upgrade of updater.py: upgrade_from_wheel and the        *)
(* manual rollback_upgrade, one phase of a command per step, beside the       *)
(* managed user services and the hooks, which go on opening the database.     *)
(*                                                                            *)
(* Both commands have the same shape: stop the units that were active,        *)
(* replace the package, bring the database to the package's schema, verify,   *)
(* start the units again, record the result in the manifest. When a phase     *)
(* fails after the units were stopped, the same steps are taken backwards.    *)
(* "operation" says which command runs; what differs is which package is      *)
(* installed and where the database comes from. Every subprocess may be       *)
(* refused or may time out after it took effect, and the command itself may   *)
(* be killed.                                                                 *)
(* The order of MANAGED_SERVICES is abstracted: units are taken in any order. *)
EXTENDS Naturals

CONSTANTS Services,      \* MANAGED_SERVICES
          MaxFaults,     \* bound on failing subprocesses and writes
          MaxCommands    \* bound on the commands an operator runs

ASSUME UpdaterAssumption == MaxFaults \in Nat /\ MaxCommands \in Nat

VARIABLES installed,     \* the package in the dedicated environment
          code,          \* the package each unit has loaded, or "down"
          schema,        \* the package whose schema the database has
          manifest,      \* status in manifest.json, the last one written
          active,        \* active_services of the manifest
          kept,          \* schema in presence.db.before-manual-rollback
          phase,         \* the phase the running command is in
          operation,     \* the command: "upgrade" or "rollback"
          todo,          \* units the phase has still to visit
          moved,         \* stopped_services, and then started_services
          faults, commands

transaction == <<manifest, active, kept, operation>>
upgradeVars == <<installed, code, schema, manifest, active, kept, phase,
                 operation, todo, moved, faults, commands>>

Statuses == {"none", "prepared", "completed", "aborted_before_install",
             "service_restore_failed", "rolled_back_after_failure",
             "rollback_failed", "rollback_prepared", "manually_rolled_back",
             "rollback_reverted_after_failure", "rollback_recovery_failed",
             "rollback_service_restore_failed"}
Versions == {"old", "new", "broken"}
Forward  == {"installing", "migrating", "verifying", "starting"}
Backward == {"unstarting", "reverting", "reverifying", "restarting"}
Phases   == {"idle", "stopping", "restoring"} \cup Forward \cup Backward

Running    == {u \in Services : code[u] # "down"}
Target     == IF operation = "upgrade" THEN "new" ELSE "old"
Source     == IF operation = "upgrade" THEN "old" ELSE "new"

UpgradeInit ==
    /\ installed = "old" /\ schema = "old"
    /\ code = [u \in Services |-> "old"]
    /\ manifest = "none" /\ active = {} /\ kept = "new"
    /\ phase = "idle" /\ operation = "upgrade" /\ todo = {} /\ moved = {}
    /\ faults = 0 /\ commands = 0

-----------------------------------------------------------------------------
(* What the processes around the command do.                                  *)

\* A unit opens its store in every cycle. It migrates an older database to
\* its own schema; it refuses a newer one and exits, and systemd starts the
\* unit again from what is installed.
ServiceOpensStore(u) ==
    /\ code[u] # "down"
    /\ IF code[u] = "new" \/ (code[u] = "old" /\ schema = "old")
       THEN schema' = code[u] /\ code' = code
       ELSE code' = [code EXCEPT ![u] = installed] /\ schema' = schema
    /\ UNCHANGED <<installed, transaction, phase, todo, moved, faults, commands>>

\* A hook runs the installed package and opens the store once; it exits
\* when the schema is newer.
HookOpensStore ==
    /\ installed = "new"
    /\ schema' = "new"
    /\ UNCHANGED <<installed, code, transaction, phase, todo, moved, faults, commands>>

\* The command is killed, or the machine loses power.
CommandKilled ==
    /\ phase # "idle"
    /\ faults < MaxFaults
    /\ faults' = faults + 1
    /\ phase' = "idle"
    /\ UNCHANGED <<installed, code, schema, transaction, todo, moved, commands>>

-----------------------------------------------------------------------------
(* Steps of a command. Fault marks a subprocess or a write that fails.        *)

NoFault == faults' = faults
Fault   == faults < MaxFaults /\ faults' = faults + 1

Stop(u)  == code' = [code EXCEPT ![u] = "down"]
Start(u) == code' = [code EXCEPT ![u] = IF @ = "down" THEN installed ELSE @]

GoTo(p, units) == phase' = p /\ todo' = units

\* _validate_database_preflight, the versions of both wheels and the snapshot
\* of the database come before the first change; they leave no trace when
\* they fail. The snapshot presence.db.before-upgrade has the old schema.
StartUpgrade ==
    /\ phase = "idle" /\ commands < MaxCommands
    /\ installed = "old" /\ schema = "old"
    /\ manifest' = "prepared"
    /\ active' = Running
    /\ operation' = "upgrade"
    /\ GoTo("stopping", Running) /\ moved' = {}
    /\ commands' = commands + 1
    /\ UNCHANGED <<installed, code, schema, kept, faults>>

StartRollback ==
    /\ phase = "idle" /\ commands < MaxCommands
    /\ manifest = "completed" /\ installed = "new"
    /\ kept' = schema
    /\ operation' = "rollback"
    /\ GoTo("stopping", active) /\ moved' = {}
    /\ commands' = commands + 1
    /\ UNCHANGED <<installed, code, schema, manifest, active, faults>>

\* Faulty variant: a failed stop starts nothing again.
StopForgetsUnits(u) ==
    /\ phase = "stopping" /\ u \in todo
    /\ \/ /\ NoFault /\ Stop(u)
          /\ GoTo("stopping", todo \ {u}) /\ moved' = moved \cup {u}
       \/ /\ Fault /\ (Stop(u) \/ code' = code)
          /\ GoTo("restoring", {}) /\ moved' = moved
    /\ UNCHANGED <<installed, schema, transaction, commands>>

\* Faulty variant: the result of systemctl stop is not looked at.
StopUnchecked(u) ==
    /\ phase = "stopping" /\ u \in todo
    /\ \/ NoFault /\ Stop(u)
       \/ Fault /\ code' = code
    /\ GoTo("stopping", todo \ {u}) /\ moved' = moved \cup {u}
    /\ UNCHANGED <<installed, schema, transaction, commands>>

StopUnit(u) ==
    /\ phase = "stopping" /\ u \in todo
    /\ \/ /\ NoFault /\ Stop(u)
          /\ GoTo("stopping", todo \ {u}) /\ moved' = moved \cup {u}
       \/ /\ Fault /\ (Stop(u) \/ code' = code)
          /\ GoTo("restoring", moved) /\ moved' = moved
    /\ UNCHANGED <<installed, schema, transaction, commands>>

\* The rollback notes that it is about to change the package; the write is
\* outside every try.
AllStopped ==
    /\ phase = "stopping" /\ todo = {}
    /\ \/ /\ NoFault /\ GoTo("installing", {})
          /\ manifest' = IF operation = "upgrade" THEN manifest ELSE "rollback_prepared"
       \/ /\ operation = "rollback" /\ Fault /\ GoTo("idle", {})
          /\ manifest' = manifest
    /\ moved' = {}
    /\ UNCHANGED <<installed, code, schema, active, kept, operation, commands>>

\* An exception inside the handler of another: the status of the failed
\* handler is written, unless that write fails as well.
GiveUp(status) ==
    /\ manifest' \in {status, manifest}
    /\ GoTo("idle", {})

RestoreFailed == IF operation = "upgrade" THEN "service_restore_failed"
                 ELSE "rollback_service_restore_failed"

\* A stop failed: the units already stopped are started again, and only then
\* the failure is recorded.
RestoreUnit(u) ==
    /\ phase = "restoring" /\ u \in todo
    /\ \/ /\ NoFault /\ Start(u)
          /\ GoTo("restoring", todo \ {u}) /\ manifest' = manifest
       \/ /\ Fault /\ (Start(u) \/ code' = code)
          /\ GiveUp(RestoreFailed)
    /\ UNCHANGED <<installed, schema, active, kept, operation, moved, commands>>

Abort ==
    /\ phase = "restoring" /\ todo = {}
    /\ \/ /\ NoFault /\ GoTo("idle", {})
          /\ manifest' = IF operation = "upgrade" THEN "aborted_before_install"
                         ELSE manifest
       \/ Fault /\ GiveUp(RestoreFailed)
    /\ UNCHANGED <<installed, code, schema, active, kept, operation, moved, commands>>

\* pip replaces the package: a failed run may have done nothing, everything,
\* or left neither version.
Install(version, from, to, otherwise) ==
    /\ phase = from /\ todo = {}
    /\ \/ NoFault /\ installed' = version /\ GoTo(to, {}) /\ manifest' = manifest
       \/ Fault /\ installed' \in {installed, version, "broken"} /\ otherwise
    /\ UNCHANGED <<code, schema, active, kept, operation, moved, commands>>

\* An exception after the units were stopped: undo, units started first.
Undo == GoTo("unstarting", moved) /\ manifest' = manifest

UndoFailed == GiveUp(IF operation = "upgrade" THEN "rollback_failed"
                     ELSE "rollback_recovery_failed")

InstallPackage == Install(Target, "installing", "migrating", Undo)

\* "init" of the new package migrates the database; a rollback restores the
\* snapshot taken before the upgrade. SQLite's backup is one transaction.
MigrateDatabase ==
    /\ phase = "migrating"
    /\ \/ NoFault /\ schema' = Target /\ GoTo("verifying", {}) /\ manifest' = manifest
       \/ Fault /\ schema' \in {schema, Target} /\ Undo
    /\ UNCHANGED <<installed, code, active, kept, operation, moved, commands>>

\* The installed version, and after an upgrade the doctor's checks of the
\* database as well.
VerifyPackage ==
    /\ phase = "verifying"
    /\ \/ /\ NoFault
          /\ installed = Target
          /\ operation = "upgrade" => schema = "new"
          /\ GoTo("starting", active)
       \/ Fault /\ GoTo("unstarting", moved)
    /\ UNCHANGED <<installed, code, schema, transaction, moved, commands>>

StartUnit(u) ==
    /\ phase = "starting" /\ u \in todo
    /\ \/ /\ NoFault /\ Start(u)
          /\ GoTo("starting", todo \ {u}) /\ moved' = moved \cup {u}
       \/ /\ Fault /\ (Start(u) \/ code' = code)
          /\ GoTo("unstarting", moved) /\ moved' = moved
    /\ UNCHANGED <<installed, schema, transaction, commands>>

\* A manifest that cannot be written undoes an upgrade that had succeeded.
Complete ==
    /\ phase = "starting" /\ todo = {}
    /\ \/ /\ NoFault /\ GoTo("idle", {})
          /\ manifest' = IF operation = "upgrade" THEN "completed"
                         ELSE "manually_rolled_back"
       \/ Fault /\ Undo
    /\ UNCHANGED <<installed, code, schema, active, kept, operation, moved, commands>>

StopStarted(u) ==
    /\ phase = "unstarting" /\ u \in todo
    /\ \/ /\ NoFault /\ Stop(u)
          /\ GoTo("unstarting", todo \ {u}) /\ manifest' = manifest
       \/ /\ Fault /\ (Stop(u) \/ code' = code)
          /\ UndoFailed
    /\ UNCHANGED <<installed, schema, active, kept, operation, moved, commands>>

Reinstall == Install(Source, "unstarting", "reverting", UndoFailed)

\* Faulty variant: the snapshot is taken when it is needed.
SnapshotTakenLate == schema

\* The schema in the snapshot that undoing restores.
Snapshot == IF operation = "upgrade" THEN "old" ELSE kept

RestoreDatabase ==
    /\ phase = "reverting"
    /\ \/ NoFault /\ schema' = Snapshot /\ GoTo("reverifying", {}) /\ manifest' = manifest
       \/ Fault /\ schema' \in {schema, Snapshot} /\ UndoFailed
    /\ UNCHANGED <<installed, code, active, kept, operation, moved, commands>>

\* Only the version is looked at: the doctor does not run again.
ReverifyPackage ==
    /\ phase = "reverifying"
    /\ \/ /\ NoFault /\ installed = Source
          /\ GoTo("restarting", active) /\ manifest' = manifest
       \/ Fault /\ UndoFailed
    /\ UNCHANGED <<installed, code, schema, active, kept, operation, moved, commands>>

RestartUnit(u) ==
    /\ phase = "restarting" /\ u \in todo
    /\ \/ /\ NoFault /\ Start(u)
          /\ GoTo("restarting", todo \ {u}) /\ manifest' = manifest
       \/ /\ Fault /\ (Start(u) \/ code' = code)
          /\ UndoFailed
    /\ UNCHANGED <<installed, schema, active, kept, operation, moved, commands>>

Close ==
    /\ phase = "restarting" /\ todo = {}
    /\ \/ /\ NoFault /\ GoTo("idle", {})
          /\ manifest' = IF operation = "upgrade" THEN "rolled_back_after_failure"
                         ELSE "rollback_reverted_after_failure"
       \/ Fault /\ UndoFailed
    /\ UNCHANGED <<installed, code, schema, active, kept, operation, moved, commands>>

Command ==
    \/ StartUpgrade \/ StartRollback
    \/ AllStopped \/ Abort
    \/ InstallPackage \/ MigrateDatabase \/ VerifyPackage \/ Complete
    \/ Reinstall \/ RestoreDatabase \/ ReverifyPackage \/ Close
    \/ \E u \in Services :
          StopUnit(u) \/ RestoreUnit(u) \/ StartUnit(u) \/ StopStarted(u) \/ RestartUnit(u)

UpgradeNext ==
    \/ Command
    \/ HookOpensStore
    \/ CommandKilled
    \/ \E u \in Services : ServiceOpensStore(u)

UpgradeSpec == UpgradeInit /\ [][UpgradeNext]_upgradeVars

-----------------------------------------------------------------------------
UpgradeTypeOK ==
    /\ installed \in Versions /\ schema \in {"old", "new"} /\ kept \in {"old", "new"}
    /\ code \in [Services -> Versions \cup {"down"}]
    /\ manifest \in Statuses /\ phase \in Phases /\ operation \in {"upgrade", "rollback"}
    /\ active \subseteq Services /\ todo \subseteq Services /\ moved \subseteq Services
    /\ faults \in 0..MaxFaults /\ commands \in 0..MaxCommands

\* A package at rest: installed, with the database in its schema and the
\* units that were active running it.
AtRest(version) ==
    /\ installed = version
    /\ schema = version
    /\ \A u \in active : code[u] = version

\* What a recorded success means. "completed" and "manually_rolled_back" are
\* only written over a package, a schema and units that agree. An undone command
\* has put back its package and has every unit running again, and after a
\* rollback that was taken back the schema fits as well. After an upgrade that
\* was taken back the schema is the old one, or a unit of the new package runs
\* that has migrated it; that this happens is what OneUndoIsClean is about.
RecordedSuccessIsReal ==
    [][ manifest' # manifest =>
          /\ manifest' = "completed" => AtRest("new")
          /\ manifest' = "manually_rolled_back" => AtRest("old")
          /\ manifest' = "rolled_back_after_failure" =>
                /\ installed = "old" /\ active \subseteq Running
                /\ schema = "old" \/ \E u \in active : code[u] = "new"
          /\ manifest' = "rollback_reverted_after_failure" =>
                installed = "new" /\ active \subseteq Running /\ schema = "new"
      ]_upgradeVars

\* An upgrade and a rollback put their package in place of the other one only
\* when every unit that they manage is stopped, whatever failed before.
ReplacedUnderStoppedUnits ==
    [][ phase = "installing" /\ installed' # installed =>
          active \cap Running = {} ]_upgradeVars

\* An upgrade that gives up at a failed stop has started again every unit whose
\* stop had succeeded, on the package that it did not touch.
AbortReturnsUnits ==
    [][ manifest' = "aborted_before_install" /\ manifest' # manifest =>
          installed = "old" /\ moved \subseteq Running ]_upgradeVars

-----------------------------------------------------------------------------
(* What the documents say of a command that is undone. A unit whose start or  *)
(* stop is reported as failed is not among those that undoing visits, whether *)
(* or not the call took effect.                                               *)

\* "Partial service stops are reversed before installation": an upgrade that
\* was aborted has all its units running.
StopsAreReversed == manifest = "aborted_before_install" => active \subseteq Running

\* "partial postflight starts are stopped before package/database rollback": the
\* database is put back under stopped units.
StartsAreStopped == phase = "reverting" => active \cap Running = {}

\* "automatic rollback restored the old runtime".
RuntimeIsRestored == manifest = "rolled_back_after_failure" => AtRest("old")

\* No behaviour breaks all three promises: each of them would be enough, and
\* with two timeouts in two upgrades none is kept.
OneUndoIsClean == []StopsAreReversed \/ []StartsAreStopped \/ []RuntimeIsRestored
=============================================================================
