# Verification of ai-presence-monitor

TLA+ models of the parts of `ai_presence_monitor` where processes meet: several
short-lived commands and long-lived observers share one SQLite file and one
control file, talk to Discord, Telegram and the Codex queue, and may die at any
point. The models are checked on small instances with TLC, and the properties
that matter most are proved for every value of the constants with TLAPS. Paths
below are relative to `src/ai_presence_monitor/`; `PROJECT.json` maps every
definition to its lines.

## Inventory

The package has one shared state directory. Nothing in it coordinates
processes except SQLite's own transactions, a few `UNIQUE` constraints and
conditional updates, and the atomic replacement of the control file. Python's
`sqlite3` begins a transaction at the first write only, and every store method
opens a session of its own, so a `SELECT` and the `UPDATE` that relies on it
are separate steps of the world. That one fact is the source of most of what
is modelled here.

| Component | State | Operations | Interacts with |
|---|---|---|---|
| Presence store (`store.py`, `protocols.py`) | tables `workers`, `events`, `alerts` | `record_event` (start, heartbeat, touch, finish), `record_observation`, `record_alert`, `list_workers` | reporters (CLI, Codex hook, continue task) write it; monitor, tray, diagnosis and desktop notices read it |
| Alert monitor and notifier (`cli.py`, `notify.py`, `work_window.py`) | none of its own: the row's `last_alert_level`, `last_alert_at` | `_check_once`, `send_alert` | Discord webhook, Telegram, local alarm |
| Incidents (`diagnosis_engine.py`, `diagnostics.py`, `diagnostic_notifications.py`, `recovery_coordinator.py`) | tables of evidence, diagnoses, incidents, notifications and recoveries | diagnose, notify, recover | reads the worker's row; posts to Discord; injects into the Codex queue |
| Remote questions (`remote_questions.py`, `discord_questions.py`, `answer_dispatch.py`) | table `remote_questions`, the cursor in `observer_state` | ask-user, observe-replies, show-questions, dispatch-answer | Discord in both directions, the Codex queue, the hook's confirmation |
| Prompt rules (`prompt_rules.py`, `prompt_rule_observer.py`, `control.py`, `tray.py`) | `control.json` | the tray's timer, observe-prompt-rules, Preferences, the disabling commands | worker rows, hook events, limit evidence, the Codex queue or native input |
| Scheduled prompt (`scheduled_prompt.py`) | the same file | the single schedule of earlier versions: claim, transport, completion, conversion to a rule | the tray's timer, Preferences, every other writer of the file |
| Codex hook (`codex_hook.py`, `identity.py`) | none | turns a hook payload into an observation, a confirmation and evidence | every table above |
| Local alarm (`alarm*.py`) | `red-alarm.json`: pid and start token | start, stop, the reaping threads, the runner's own lifetime | started by red alerts, stopped by the user; the process table |
| Agent chat (`agent_chat.py`) | table `agent_messages`, with a row per projection | send, publish, mirror, project a question and its answer | the tray's one thread, commands, hooks, remote questions, Discord, the Codex queue |
| Desktop notices (`desktop_notifications.py`, `tray.py`) | a cursor per table and a status per question in `observer_state` | poll, show, acknowledge when switched on or off | presence store, remote questions, the control file |
| Upgrade (`updater.py`) | the installed package, the database's schema, `manifest.json` | upgrade, manual rollback, and the undoing of both | units and hooks, which open and migrate the database themselves |
| Evidence and diagnosis (`linux_evidence.py`, `codex_evidence.py`, `diagnosis_engine.py`) | tables of evidence and diagnoses | record, list, select, assess; allow a recovery | hooks, Linux observers, the limit reader, incidents |
| App Server client (`codex_app_server.py`) | one child process and its pipes | probe a thread, read it, read the limits | the Codex app-server |
| Continue task (`continue_task.py`) | none | one countdown and one dispatch | Codex, presence store |
| Tray menus, interactive menu, GUI input, services, platform | the operating system's | dialogs, unit files, window automation | - |

What makes each of them correct, and what makes it hard:

* **Presence.** Each silence is announced level by level, red once unless its
  message could not be recorded, and a report ends the silence and rearms it. Hard: the monitor lists rows, posts
  over the network for seconds, and then writes the level over whatever the
  row has become; a channel in the middle of the sequence may fail; the work
  window may be closed; two reporters read and write one row.
* **Incidents.** A worker has one open incident; its news is posted once and
  its recovery is injected once, whatever is lost or killed between the
  reservation, the network call and the result. Hard: three commands that read
  the incident at different times, and results nobody ever learns.
* **Remote questions.** A reply is matched to one open question, recorded
  once, dispatched once, and no reply is passed over. Hard: the list of open
  questions and the messages are read at different moments; two observers
  share a cursor; a dispatch may arrive and yet raise.
* **Prompt rules.** A rule is sent once for every time it was armed, a
  repeating one only after the session was seen alive since, and a disabled
  rule stays disabled. Hard: every writer saves the whole profile as it was
  when that writer read it.
* **Scheduled prompt.** Sent once for every time it was armed, also across its
  conversion to a rule. Hard: for a while the schedule and the rule made of it
  are both in one file, the timer goes on firing under the open dialog, and the
  commands that disable rules do not reach the schedule.
* **Evidence and diagnosis.** A diagnosis rests on what is current, of one
  session, and a recovery is allowed only for a session that was seen to end.
  Hard: evidence has a time to live, is recorded later than it was observed
  and out of order, and goes on being recorded while a diagnosis is made.
* **Local alarm.** `stop-alarm` ends the alarm and nothing else. Hard: the
  alarm ends by itself, its pid is reused, and the state file is loaded,
  compared and unlinked in separate steps by commands and threads.
* **Agent chat.** A message is confirmed only by a hook after its dispatch,
  stays confirmed, and is not shown in Discord when it was not sent. Hard: the
  column a hook selects by is moved by the mirror, and the refresh writes
  states it listed several sessions earlier.
* **Desktop notices.** What is recorded while they are on is told once, and
  what is recorded while they are off never, unless switching is interrupted.
  Hard: the cursor is saved before the notices are shown, any session may
  fail, and switching acknowledges table by table.
* **Upgrade.** A package is replaced under stopped units, and a completed
  command is what the machine runs. Hard: each subprocess may time out after it
  took effect, the undoing may fail in its turn, and a unit that is still up
  migrates a database that was restored.
* **App Server client.** No event of a probe is lost and nothing is left
  subscribed. Hard: events come before, between and after the answers.

The list of what can go wrong at which line, and which property would see it,
is `hazards` in `PROJECT.json`. A hazard without a property has a note.

## Modules

| Module | Models | Lines of code it stands for |
|---|---|---|
| `Presence`, `MCPresence`, `PresenceProofs` | workers table, reporters, monitor, notifier | `store.py`, `protocols.py`, `cli.py`, `notify.py`, `work_window.py`, `codex_hook.py` |
| `Incidents`, `MCIncidents`, `IncidentsProofs` | diagnose, notify and recover commands and their tables | `diagnosis_engine.py`, `diagnostics.py`, `diagnostic_notifications.py`, `recovery_coordinator.py` |
| `OneShot` | abstract: an effect that happens at most once per slot | refined twice by `Incidents` |
| `RemoteQuestions`, `MCRemoteQuestions`, `RemoteQuestionsProofs` | askers, reply observers, manual dispatch, confirmation | `remote_questions.py`, `discord_questions.py`, `answer_dispatch.py`, `store.py` |
| `PromptRules`, `MCPromptRules`, `PromptRulesProofs` | one worker's profile, its dispatchers and its editors | `prompt_rules.py`, `prompt_rule_observer.py`, `control.py`, `tray.py`, `cli.py` |
| `ScheduledPrompt`, `TrayProofs` | the schedule of earlier versions and the rule it becomes | `scheduled_prompt.py`, `control.py`, `tray.py`, `prompt_rules.py`, `cli.py` |
| `Diagnosis`, `CodexProofs` | evidence, its selection and assessment, the check before a recovery | `diagnosis_engine.py`, `diagnostics.py`, `linux_evidence.py`, `codex_evidence.py`, `recovery_coordinator.py` |
| `Updater`, `CommandProofs` | upgrade and manual rollback beside units and hooks | `updater.py`, `store.py`, `cli.py` |
| `Alarm`, `CommandProofs` | start, stop and reapers over a state file and a process table | `alarm.py`, `alarm_process.py`, `alarm_runner.py` |
| `AgentChat`, `TrayProofs` | one session's chat, its mirror and its projections | `agent_chat.py`, `store.py`, `codex_input.py`, `codex_hook.py` |
| `DesktopNotices`, `TrayProofs` | the observer and the part of the tray that polls it | `desktop_notifications.py`, `store.py`, `tray.py` |
| `AppServerProbe`, `CodexProofs` | the client and its child process | `codex_app_server.py`, `cli.py` |
| `MCInputs` | `Incidents`, `RemoteQuestions` and `PromptRules`, side by side | - |
| `MCStation`, `StationProofs` | the other seven, without `Presence`, side by side | - |

In each module a process is a record with a `phase`, and a step is what the
process does between two moments at which another process can run: one SQLite
session (or one statement, where the session starts with a `SELECT`), one
network call, one read or one replacement of the control file. A process may
die in any phase where it holds something. Definitions that sit just before the
one they imitate, such as `EscalatesOnEqual`, are faulty variants of it: each
property is known to fail when the code has that fault.

The components of `MCStation` share no state, so that their product would only
multiply states and show nothing. `focus` picks one of them at the start and
the others stay as they began: the states are the sum of the components', and
the faults and bounds of each are its own. `MCInputs` does the same for the
three components that put an input into a Codex session, and for more than one
instance of a component: `focus` is one of `incidents`, `questions`, `retried`,
`rules` and `pair`, where `retried` and `pair` are instances (`INSTANCE ... WITH`)
of `RemoteQuestions` and `PromptRules` with other processes and rules.

### Presence

| Model | Code |
|---|---|
| `row` | a row of `workers`: status, protocol, last signal, last activity, last alert |
| `Stamp`, `ReadForEvent`, `WriteEvent` | `record_event`: take the time, read the row, write row and event |
| `ReadForObservation`, `WriteObservation` | `record_observation`, which returns early for a worker that is not active and not auto-started |
| `StartCycle`, `ListWorkers` | `_check_once` up to `list_workers`, with the work window |
| `SkipWorker`, `BeginAlert` | the body of its loop: missing clock, level, `_should_send_alert` |
| `Post`, `PostFails` | `send_alert`: Discord, then Telegram, then the escalation of red, each only when configured for the level |
| `RecordAlert` | `record_alert`, after all of them succeeded |
| `MonitorCrashes` | the process dies, or an exception leaves `_check_once`; the unit restarts it |
| `reds` | history: red rows inserted into `alerts` since the worker's last report |
| `posted`, `missed` | history: red messages Discord has taken since then, and those of them that a failed post or a crash kept from being recorded |

`DueLevel`, `ClockValue`, `ShouldEscalate` and `ShouldSendAlert` are the pure
rules of `protocols.py` and `cli.py`. Start and heartbeat write the same row
and are one kind of report, `signal`. Channels that are not configured only
remove steps, so all of them are configured.

### Incidents

Each command of a worker runs step by step; the answers of the network are
what the code can tell apart: delivered, rejected or uncertain, with the message
having arrived or not when it is uncertain. `posts` and `inputs` count what
arrived outside and are read by no action. `Expire` lets a diagnosis's validity
run out under a command that has read it. A diagnosis carries its cause (kind
and confidence), severity and whether its evidence named an exact session;
which one is chosen is left open here and is the subject of `Diagnosis`.

`OneShot` states what both ledgers are for: a slot is reserved, then at most
one effect happens, then the slot is closed; a slot whose holder died stays
reserved. `NoticesAreOneShot` maps the slots to (incident, event key) pairs
with `notice` and `posts`, `RecoveriesAreOneShot` maps them to incidents with
the status in `recovery` and `inputs`; `Results` are the statuses that each
ledger's table allows for a closed row, so that a status the abstraction does
not know, or a row that changes once it is closed, is not hidden by the mapping.

### RemoteQuestions

`CreateQuestion`, `PostQuestion`, `PublishQuestion` and `FailQuestion` are
ask-user. `StartPoll`, `ReadCursor`, `ListPending`, `FetchMessages`, then
`PassOver`, `RecordAnswer`, `DispatchAnswer`, `MarkDispatched` for each message and
`SaveCursor` are one pass of `observe_discord_replies_once`; `PollEnds` is a
failed request, the error that leaves the loop, or a killed process.
`ReadAnswer`, `RetryDispatch` and `MarkRetried` are dispatch-answer.
`ConfirmDeliveries` is the hook. A message's identifier is its place in the
channel. `sent` counts dispatches observers began, and `arrived` holds what
reached the queue; no action reads them.

### PromptRules

`file` is the worker's profile in `control.json`. Every process keeps the
settings it read in `held`; `SaveRule`, `CompleteDispatch`, `SavePreferences`
and `SaveDisabled` replace the file by what their process held. A cycle is
`LoadSettings`, then for each rule of the process's turn one of `SkipRule`,
`AwaitConfirmation`, `AwaitRed`, `SetDue`, `NotYetDue`, `AwaitUsage`, `Claim`;
a change is saved at once, and a claim is followed by `Send` and
`CompleteDispatch`. Observers first find their targets and record limits
evidence (`FindTargets`, `RecordLimits`). `ObserveLimits` is their whole pass,
and `minute` the clock. `arms` and `attempts` count armings
and transports; `lost` holds the rules a save has put back from settings that
were out of date, which is how the properties say "unless the file was
overwritten".

### ScheduledPrompt

`profile` is the profile in `control.json` with two slots, the old schedule and
the rule of the dialog. One turn of the tray's timer is `LooksAt`,
`ClaimSchedule`, `SendScheduled`, `ReadClaim` and `CompleteClaim`, first for the
schedule and, when there was nothing to send, for the rule. `OpenEditor` and
`SavePreferences` are the dialog, which shows the schedule where there is no
rule (`Shown`) and on saving disables it and keeps, changes or removes the rule.
`WriterLoads` and `WriterSaves` are the commands that disable the automation or
the rules, and whoever saves another profile of the file. `Replace` notes in
`overwritten` when a save puts back a slot that has moved since it was read;
`reached` stands for the due time and the red condition.

### Diagnosis

`Catalogue` lists every state that a hook (`HookEvidence`), the Linux observers
and the limit reader can record, with its time to live; `Sightings` picks the
ones an instance uses. `RecordHook`, `RecordLimits` and `RecordLinux` insert
rows observed now or a moment ago. A diagnose command is `ReadWorker`,
`ListEvidence` and `RecordDiagnosis`: `Current` is
`select_current_evidence`, `Verdicts` are the cases of `assess_diagnosis` in
their order, and `Until` is the time the diagnosis stays valid. `AllowRecovery`
is the check of the recovery coordinator.

### Updater

`upgrade_from_wheel` and `rollback_upgrade` have one shape: `StopUnit` for every
active unit, `InstallPackage`, `MigrateDatabase`, `VerifyPackage`, `StartUnit`,
`Complete`. A failure before the package is replaced goes to `RestoreUnit` and
`Abort`; a later one to `StopStarted`, `Reinstall`, `RestoreDatabase`,
`ReverifyPackage`, `RestartUnit` and `Close`. `operation` says which package is
the target and which database is restored. Each subprocess may be refused or
time out after it took effect (`Fault`), the command may be killed in any phase
(`CommandKilled`), and `ServiceOpensStore` and `HookOpensStore` open the
database, which migrates it to the package they have loaded. `code[u]` is the
package unit `u` has in memory, which is what tells a success from a
coincidence.

### Alarm

`table` says which process has which pid; a process is known by the order of
its start, which stands for start token and command fingerprint. `LoadForStart`,
`CheckForStart`, `RemoveForStart`, `SpawnAlarm`, `WriteState` are `start`;
`LoadForStop`, `CheckForStop`, `Signal`, `SeeStopped`, `TimeOut`,
`RemoveForStop` are `stop`, with its second signal; `Reap` is the thread that
waits for the alarm and removes its state. `since` remembers how many processes
had been started when a call last looked at its alarm.

### AgentChat

A message of the tray is `SendMessage`, `LaunchQueue`, `RecordDispatch`,
`MirrorPending`, `Mirror`; one that a command publishes starts with
`PublishMessage`. The refresh is `OpenTray`, `ListQuestions`, then for the
question and for its answer `AppendProjection`, `UpdateProjectedState`,
`UpdateProjectedDiscord`. `HookStarts` and `HookConfirms` are a hook, which has
its own `observed_at`. The tray is one thread: it sends or refreshes. `at` is
`updated_at`, `launched` and `witness` are histories of dispatch and hook.

### DesktopNotices

A cycle of the tray is `StartPoll`, `PollTable` for events and for alerts,
`PollQuestion`, `Show`. At the first poll of a table, and when the checkbox is
used (`Toggle`), `ReadLatest` and `WriteLatest` move its cursor to the end, and
`AcknowledgeQuestion` the question's status. `SessionFails` and `TrayDies` may
come at any step. `announced` and `dropped` are histories, and so is
`interrupted`: the last use of the checkbox failed, or the tray died, after the
setting was saved and before everything was acknowledged.

### AppServerProbe

`StartChild`, `SendRequest`, `Receive`, `StreamEnds`, `Deadline` and
`CloseChild` are the client, with `Finally` for the way out of the observation.
`ServerSubscribes`, `ServerAnswers`, `ServerSpeaks` and `ServerExits` are the
server, external to the repository and modelled from what the client accepts
of it. `inbox` is the queue of the reader thread.

## Runs

| Run | Instance | Shows |
|---|---|---|
| `presence` | 1 worker under either protocol, 2 reporters, 1 monitor, time 0..5, 2 reports, 1 fault; yellow at 1, orange at 2, red at 4, repeats of yellow and orange after 1; window open at 2, 3 and 5; fair | `TypeOK`, `RedOncePerEpisode`, `LevelsOnlyRise`, `RecordedOnlyWhenDelivered`, `SilenceIsEscalated` |
| `presence_rearm` | 1 reporter | counterexample to `AlertBelongsToEpisode` |
| `presence_observer` | 2 reporters | counterexample to `ObservationNeedsActiveWorker` |
| `presence_repeat` | 1 reporter, 1 report, 1 fault, window always open | counterexample to `RedMessageOnce` |
| `inputs`, `incidents` | 2 commands at a time out of 4, 2 incidents, 3 diagnoses, 1 expiry; healthy, recoverable and inexact findings | `RecoveryFollowsDelivery`, `NotifiedMatchesLedger`, `OneOpenIncident`, both refinements of `OneShot`, `ResolvedIsFinal` |
| `inputs`, `questions` | 1 question, 2 observers (symmetric), 3 messages, time 0..1 | `DispatchedOnce`, `ClosedStaysClosed`, `ListedRepliesAreTaken`, `InputFollowsAnswer` |
| `inputs`, `retried` | 1 question, 1 observer, 1 manual dispatch, 3 messages, time 0..1 | the same |
| `inputs`, `rules` | a repeating rule with an interval of 1, time 0..2, Preferences saved once, one disabling command, 3 armings, 3 attempts | `SentOncePerArming`, `RepeatsFollowTheSession`, `RestIsKept` |
| `inputs`, `pair` | a red rule of the tray and a gated rule of the observer, at one moment, each armed once | the same |
| `incidents_update` | 3 commands, 1 incident | counterexample to `UnhealthyLeavesOpenIncident` |
| `questions_early` | 2 questions, 1 observer | counterexample to `GuidedOnlyWhenUnmatched` |
| `rules_preferences` | a rule without repetition, Preferences saved once | counterexample to `NeverSentAgain` |
| `rules_gated` | a repeating gated rule, fair tray and observer | counterexample to `ConfirmedRulesAreRearmed` |
| `station` | one component at a time, fair tray; bounds below | `StationTypeOK`, `RecordedSuccessIsReal`, `ReplacedUnderStoppedUnits`, `AbortReturnsUnits` (upgrade); `SparesOtherProcesses`, `StoppedHasEnded` (alarm); `NoticesAreNew`, `NoBacklog`, `RowsAreAnnounced` (notices); `ConfirmedAfterDispatch`, `ConfirmationStands`, `NotSentIsNowhere`, `AnswerIsShownConfirmed` (chat); `EventsAreComplete`, `LeavesNothingBehind` (App Server); `RestsOnCurrentEvidence`, `RecoveryIsJustified` (diagnosis); `ScheduleIsOneShot` (schedule) |
| `station_silent` | notices with 3 uses of the checkbox and 1 failure | counterexample to `DisabledStaysSilent` |
| `station_undo` | upgrade of 2 units, 2 faults, 2 commands | counterexample to `OneUndoIsClean` |

`inputs` is one run; its rows are the values of `focus`. `InputsTypeOK` is the
type invariant of the instance in focus.

### Bounds and why they are enough

* Two of each kind of racing process: every conflict here is between one
  process that has read and one that writes in between; a third process can
  only repeat one of the two roles.
* `presence`: with two reports one starts a silence and the other ends it, or
  races a monitor cycle; the silence that follows the last report is the one
  that must be escalated. With red at 4 and repeats after 1 a repeat can be
  too early, due, and overtaken by the next level. One fault is a failed post
  or a crash; a second adds only a second retry, since a retry starts from the
  row. The window is closed when yellow falls due, open for orange, closed
  again when red falls due at 4, and open at 5: a silence since 0 turns red
  behind a closed window and must be escalated by the first cycle after it opens.
  `Silences` are those that turn red before the clock stops, so that every one
  `SilenceIsEscalated` speaks of has that moment left. A red of an earlier
  silence does not count for it: `RedOfSilence` compares the time of the alert.
  Red steps that differ between the protocols are in the instance of
  `presence_rearm`; here they share one ladder, and differ in the clock that is
  monitored.
* `inputs`, incidents: two incidents let one close and another open; three
  diagnoses are an opening, an update and a healthy one; four commands are two
  diagnoses, a notice and a recovery, or one of these twice.
* `inputs`, questions: with one question there can be its post, two replies, or
  a reply and a loose message; two observers can then both hold the same reply,
  and one observer and a manual dispatch the same answer. A timeout and a
  confirmation time of one tick make both expire within the run.
* `inputs`, rules: a delay of 0 and an interval of 1 put a dispatch at 0, a hook
  and the confirmation at 1, and the repeat at 2, with any of them later or
  missing; a hook at 0, the time of the attempt, must not confirm it. Preferences
  and the command may rewrite the profile between any two of these steps. Three
  attempts are a first one, its repeat, and one that must not be. In `pair` the
  delay is 0 and everything happens at one moment: it is about two dispatchers
  that save one profile, and about limits and silence, not about repeats.
* `station`, upgrade: three units, so that one can be stopped, one fail and one
  be left; four faults are enough for a phase to fail and for its undoing to
  fail again, with one to spare for the next command; three commands are an upgrade,
  a rollback and another.
* `station`, alarm: two pids and three processes let an alarm end, its pid be
  reused and a second alarm start; one `stop` races `start` and the reapers.
* `station`, notices: a limit of one row per poll makes the second of two alerts
  wait behind the limit; three uses of the checkbox are on, off and on, and one
  failure or death comes at any step of them, or of a poll.
* `station`, chat: one message and two projections share the table; a window of
  0 and two instants let a confirmation be too late, in time or too early; one
  death leaves any step unfinished.
* `station`, App Server: two lines besides the answers can be on either side of
  any answer.
* `station`, diagnosis: a limit that is reached, a process that is gone, hooks of
  a session that ended and started again and of another session; the Linux
  observation expires first. Two rows and a list limit of two make a newer and
  an older observation meet in either order of recording.
* `station`, schedule: two armings are the old schedule and one by the user, and
  two transports one that is allowed and one that might not be; one other writer
  is enough for a save over what it did not read.
* Every bound is a constant and is named as a bound where it is declared. They
  appear in guards only; the proofs hold for all of their values.

Deadlock is checked in every run but `station`: some cycle, poll or command can
always begin, whatever bounds are spent. In `station` the probe ends, and the
upgrade and the alarm stop when their bounds are used up.

### Fairness

`Presence!FairSpec` has weak fairness of `Tick` and of every monitor's
`CycleStep`: `_run_monitor` is an endless loop around `_check_once` with a
finite sleep, every request has a timeout, and the installed unit restarts the
process. `CycleStep` leaves out failures and crashes, which are never forced.
No fairness is given to reports: a silent worker is what the monitor is for.
`PromptRules!FairRulesSpec` has weak fairness of the tray's cycle, run by a timer
every second, and of the observers' passes; it is used only by the
counterexample `rules_gated`, which would mean little without it. `Incidents`
and `RemoteQuestions` state no liveness: both may stop with a row pending, by
design, since at most once is preferred to at least once.

`MCStation` has the fairness of its components. `NoticesFairness` is weak
fairness of `TrayCycle`: a Qt timer of the tray polls every second, and a poll
ends; it does not make the user start the tray. `ChatFairness` is weak fairness
of `TrayThread`, the tray's refresh timer and the sending it does on the same
thread; it does assume that a tray that died is opened again, without which
nobody looks at the chat. Deaths, failures and what other processes record are never forced.

## What is proved

The theorems of the eight proof modules hold for every finite or infinite
number of processes, workers, questions and rules that the assumptions on the
constants allow, and for every value of the bounds. Every safety property that
a passing run checks is the subject of one of them, and so is the type invariant
of every module. `InputsTypeOK` is put together from three of them. The assumptions on constants say only that bounds and times are
natural numbers, that yellow, orange and red fall due in that order, which sets
are disjoint, contained in one another or not empty, and that prompt rules have
finitely many observers; each is named in the module it is about, and TLC evaluates it in
the runs of that module.
The proofs of the components of `MCStation` are grouped by where the code runs:
`TrayProofs` (chat, notices, schedule), `CommandProofs` (alarm, upgrade),
`CodexProofs` (App Server client, diagnosis).

**PresenceProofs**, from `PresenceConstants` and `OneMonitor` (one monitor
process, which is what the installers create):

* `TypeCorrect`: `TypeOK`.
* `MonitorInvariant`, `RedOnce`, `LevelsRise`: `RedOncePerEpisode` and
  `LevelsOnlyRise`. Neither is inductive. `MonitorInv` adds `ListedIsCurrent`
  (a worker that still waits for its turn in the monitor's list has the level
  that was listed, unless a report has cleared it since), `PostingIsDue` (an
  alert on its way was due on the listed row), `RedShows` (a red row inserted
  since the last report is what the worker shows) and `RedsAreCounted` (every red
  message of the episode is the recorded one, one whose cycle was cut short, or
  the one on its way). A second red would need a listed row below red while the
  stored one is red, which `ListedIsCurrent` excludes; with two monitors it does
  not hold, and that is listed as a hazard. That a cut-short cycle lets red be
  posted again is the counterexample `presence_repeat`.
* `DeliveredFirst`: `RecordedOnlyWhenDelivered`, for any number of monitors, from
  `PostingIsDue` alone: a due alert is either a repeat, which is never red, or a
  rise, which owes the escalation when it is red.

**IncidentsProofs**, from `IncidentConstants`:

* `TypeCorrect`, `RecoveryAfterDelivery`, `AtMostOneOpen`, `ResolvedStays`,
  `NotifiedMatches`, and
  the refinements `NoticesOnce` and `RecoveriesOnce`.
* The invariant is `TypeOK`, `Numbered` (incidents are numbered in the order
  they were opened, and everything that points at a diagnosis points at one
  that was recorded), `NoticesHeld` and `RecoveriesHeld` (a command between its
  reservation and its result holds a pending slot that no other command holds;
  until its network call nothing was sent for that slot, nor for any free one;
  and what a recovery has checked on its way still stands), and
  `RecoveryFollowsDelivery`. Each step then maps to `Reserve`, `Send`, `Close` or
  a stutter of `OneShot`. `NotifiedMatches` adds that the ledger has deliveries
  of opened incidents only.

**RemoteQuestionsProofs**, from `QuestionConstants`:

* `TypeCorrect`, `DispatchesOnce`, `InputIsTheAnswer`, `ClosedQuestionsStay`,
  `ListedRepliesTaken`.
* The argument rests on the order of the channel. `AskerStands`: before an
  ask-user posts, nothing of its question is in the channel, and a published
  row names its own post. `ChannelOrdered`: a question has one post, and a reply
  comes after it. `AnswerIsReply`: an accepted reply is a user's, refers to the
  question and comes after its post, and nothing was sent for a question
  without one. `PollStands` and `RetryStands`: what a pass or a retry is
  delivering has an accepted reply. `OneDispatcher`: two observers never deliver
  the same question. `PassedAreTaken`: every reply a pass has gone over and its
  list matches belongs to a question that is no longer open; it is what makes
  saving the cursor harmless.

**PromptRulesProofs**, from `RuleConstants`:

* `TypeCorrect`, `OncePerArming`, `RepeatsFollow`, `RestKept`.
* `SentOncePerArming` needs a count of tokens. `Spent` says, of a rule that no
  save has put back, that the attempts made, one more if the row still waits to
  be sent, and one more for each process that has claimed and not yet sent,
  are no more than the armings. `RowsStand` says what every copy of the rows
  satisfies, in the file and in every process that holds one: a row that may
  fire has occurrences left, one that fired before is due an interval after a
  hook later than its last attempt, and a row about to be saved follows from
  the one that was read. `ObservedPast`: no hook was observed in the future.

**CommandProofs**, the upgrade, from `UpdaterAssumption`:

* `UpgradeTypeCorrect`, `PackageIsReplacedAlone`, `AbortGivesUnitsBack`,
  `SuccessIsReal`, for any set of units and any number of faults and commands.
* `UpgradeInv` says, phase by phase, what is installed and what runs. `StopInv`:
  until the package is replaced it is the source's; what is still to be stopped
  is all that may run, and after a failed stop every unit whose stop succeeded
  runs again or is still to be started. `ForwardInv`: the target is prepared
  while nothing runs and then only `moved` units run, on the target.
  `BackwardInv`: on the way back all running units but one are known to the
  command, the one whose start failed after it took effect. `UnitsInv` and
  `CompletedInv` tie this to the manifest, since a rollback starts from what an
  earlier upgrade recorded.
* `ReplacedUnderStoppedUnits` is about the way forward, and without exception.
  On the way back the one unit of `BackwardInv` may run, an aborted upgrade may
  leave down the one unit whose stop failed after it took effect, and what is
  recorded as taken back may be a migrated database under that unit. The documents
  promise otherwise; this is the counterexample `station_undo`, and what
  `AbortReturnsUnits` and `RecordedSuccessIsReal` state is what remains true.

**CommandProofs**, the alarm, from `AlarmAssumption`:

* `AlarmTypeCorrect`, `RemovedAlarmHasEnded`, `StopAlarmSparesOthers`.
* `AlarmInv` says of every copy of a state, in the file, in a call or in a
  thread, that it names an alarm which only ever had this pid (`Recorded`); and
  that between the check and the signal the pid belongs to the alarm, to nobody,
  or to a process younger than the check.

**TrayProofs**, the chat, from `ChatAssumption`:

* `ChatTypeCorrect`, `ConfirmationFollowsDispatch`, `FailedMessageIsNowhere`,
  `ConfirmationIsKept`.
* `CallAndRow` relates the step of the call that owns a message to its row: a row
  can only fail before it was launched or posted. `DispatchedRow`: a row that may
  be confirmed has an `updated_at` no earlier than its dispatch, so whoever
  moves it, a hook before the dispatch does not match.

**TrayProofs**, the desktop notices, from `NoticesAssumption`:

* `NoticesTypeCorrect`, `NoticesOnce`, `OffIsOff`, for any number of rows, any
  limit per poll, and any number of failures, restarts and uses of the checkbox.
* `NoticesAreNew` needs `SavedIsPast` (the saved cursors and the saved status
  are at or past everything that was ever collected; statuses are compared by
  their rank) and `CursorsFollow` (a cursor is within its table, and the newest
  row that was read is between the cursor and the end). A poll then collects
  rows past the cursor only, and saves before it shows.
* `NoBacklog` needs `SwitchIsKept`: as long as the last use of the checkbox was
  not interrupted, the box shows what is saved, and once it is checked and a
  table is acknowledged, every row past its cursor was recorded while the
  notifications were on. The middle of a switch, where one table is acknowledged
  and the other is not yet, is what makes the property by itself not inductive.
  Failures and deaths anywhere else are included; what an interrupted switch
  does is the counterexample `station_silent`.

**TrayProofs**, the scheduled prompt, from `ScheduleAssumption`:

* `ScheduleTypeCorrect`, `OnceUntilOverwritten`, for any number of armings,
  transports and writers.
* `ScheduleInv` counts tokens as `PromptRulesProofs` does: the transports begun,
  one more if a slot of the file is armed, and one more for the timer between
  its claim and its transport, are no more than the armings.
  `OneForm` keeps the count through the conversion: as long as no
  save has overwritten a slot that moved, the old schedule is disabled or there
  is no rule, so that the two are never armed together. `TimerHolds` ties what
  the timer claims and completes to what it saw.

**CodexProofs**, the diagnosis, from `DiagnosisAssumption`:

* `DiagnosisTypeCorrect`, `DiagnosisIsCurrent`, `RecoveryIsAlwaysJustified`, for
  any sightings, times to live and list limit.
* `Rests` and `Justifies` state of the recorded diagnosis what a recovery relies
  on. `NoNewerPresence` and `ListedPresence` are needed because the command adds
  a presence row of its own to what it listed: it must be the newest of its kind.

**CodexProofs**, the App Server client, from `ProbeAssumption`:

* `ProbeTypeCorrect`, `ProbeIsComplete`, `ProbeLeavesNothing`, for any number of
  lines.
* `ProbeInv` has the client (`ClientIsAt`: the requests sent are a prefix of
  those of its job, and what it does is the next of them; `ClientOwes`: what the
  end of a job still owes the server), the server (`ServerTells`: only a resumed
  thread is notified, and nothing of it is queued behind the answer to
  unsubscribe), and the queue between them (`InOrder`; `NothingIsLost`: unless
  the probe is failing, what was heard is a prefix of what was spoken and the
  queue holds exactly the rest, in its order). When the answer to unsubscribe is
  taken the rest is empty, which is `EventsAreComplete`.

**StationProofs**, from the assumptions of its components:

* `ComponentsKeepToTheirSpecs`: a behaviour of `StationSpec` is a behaviour of
  the safety part of every component's specification, because each step moves
  the component in `focus` and leaves the variables of the others.
* `StationTypeCorrect` and `StationIsSafe` are then the theorems of the
  components, put together: what the run `station` checks of safety holds for
  every value of its constants. The invariants of chat and notices are
  proved from `Init /\ [][Next]_vars`, without fairness, to be of use here.

## What is only model-checked

* `SilenceIsEscalated`, `RowsAreAnnounced`, `AnswerIsShownConfirmed`: liveness
  under fairness is outside the prover. The fairness of
  chat and notices in `StationSpec` is not used by any proof either.
* The nine counterexamples, which are runs by nature.

## Where the code and its documents differ

Each is one run with one property that states the document's sentence; the
quotation is in `findings` of `PROJECT.json`. `station_undo` answers for two of
them: `OneUndoIsClean` is violated only by a behaviour that breaks all three of
`StopsAreReversed`, `StartsAreStopped` and `RuntimeIsRestored`, and the run has
one, of two upgrades.

| Run | What the run shows |
|---|---|
| `presence_rearm` | a report that commits while the monitor posts is overwritten by `record_alert`: the new episode starts at the old one's level, and if that was red its own red is never sent |
| `presence_observer` | a hook that read an active worker makes it active again after `finish` |
| `presence_repeat` | Discord has shown red when Telegram, the alarm or the call fails, or the monitor dies; nothing is recorded and red is posted again in the same episode |
| `incidents_update` | an update of an incident that has just been resolved matches no row, and an unhealthy worker has no open incident |
| `questions_early` | the reply to a question published after the pass listed the open ones is refused and the cursor passes it |
| `rules_preferences` | saving Preferences opened before a dispatch arms the rule again |
| `rules_gated` | a repeating gated rule is never confirmed: the observer wants a due time and the tray skips gated rules |
| `station_silent` | the setting is saved before the cursors: when switching on is interrupted in between, rows of the disabled period are announced |
| `station_undo` | a start that times out after it took effect is not stopped by the undoing: the database is put back under the running unit, which migrates it, and `rolled_back_after_failure` is recorded |
| `station_undo` | a stop that times out after it took effect is not reversed: `aborted_before_install` is recorded and the unit stays down |

## Simplifications

Steps of the code that a model takes together, or leaves out, where that is not
plain from the tables above:

* `Updater`: a hook loads its package when it opens the database (`HookOpensStore`);
  one that was loaded before `Reinstall` and opens the database after it is left out.
* `RemoteQuestions`: `RetryDispatch` shares the dispatch of the observer.
  `retry_gui_dispatch` does not check the store and the transport first, as the
  observer's path does: the shared step may refuse where it would not.
* `AppServerProbe`: a request whose write fails while the child still runs is
  left out (the client then raises as it does when the child has exited); the
  `initialized` notification goes with the request it follows; after a kill the
  second wait is taken to succeed, so that `LeavesNothingBehind` says of the
  child that no way out skips closing it.
* `Diagnosis`: a diagnosis and the presence row it adds are recorded in two
  sessions and taken together; the fallback to the first record when no
  verdict cites any, and the refusal of an inactive worker, are left out.
  `AllowRecovery` is the check alone: `recover_diagnostic_incident` reserves and
  sends later without looking at the time again, so that `RecoveryIsJustified`
  is about what is allowed; the later steps are in `Incidents`.
* `DesktopNotices`: the list of questions and the status saved for each are two
  sessions of one step, in the poll and in the acknowledgement. With one question
  the step between them is a change of that question, which the next poll sees.
* `PromptRules`: without red rules the times at which the worker reports are not
  kept, since nothing reads them.
* `Presence`: a post that arrived and whose answer was late counts as the failure
  of the post after it.

## What is not modelled

* Text: messages, guidance, formatting, translation, logging, dry runs.
* How `/proc`, `/sys`, `systemctl` and the lines of the app-server are parsed:
  the states that parsing can give are modelled, the parsing is not.
* The continue task: one command that checks, waits and dispatches once. Its
  write to the presence row is an observation without auto start, which
  `Presence` has.
* The Discord client's rate-limit sleeps: they delay a step, and every step may
  be delayed anyway.
* The interactive menu's copies of the ask, observe and dispatch commands: the
  same store operations in the same order.
* Removing and reordering rules in `PromptRules` (a removed rule is one nobody
  enables), and several profiles dispatched in one turn of the timer; another
  profile's save is modelled in `ScheduledPrompt`.
* Creating and archiving conversations, and several sessions in one chat.
* The Windows backends, window automation, tray menus, unit files and the task
  scheduler: the operating system's state, not the program's.

## Plan

Done: `Presence`, `Incidents` over `OneShot`, `RemoteQuestions` and
`PromptRules`, and after them `Updater`, `Alarm`, `AgentChat`, `DesktopNotices`,
`AppServerProbe`, `Diagnosis` and `ScheduledPrompt`, all with their proofs. What is left, in order of importance:

1. A history variable in `Presence` for the signal time a touch writes back, so
   that the lost heartbeat (`hazards`, `store.py:604`) can be stated.
2. `Incidents` with the verdicts of `Diagnosis` instead of free causes: the two
   modules share the diagnosis and the recovery check.
3. Several profiles in `PromptRules`, with the lost update of a claim as a
   property of its own.
