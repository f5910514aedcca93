------------------------------ MODULE Presence ------------------------------
(***************************************************************************)
(* The presence core: the workers table of the SQLite store, the processes *)
(* that report a worker's activity into it (CLI events, Codex hooks, the   *)
(* continue automation) and the monitor processes that read it, post       *)
(* alerts and write the alert level back.                                  *)
(*                                                                         *)
(* Every reporter is a process of its own.  It takes a time stamp, reads   *)
(* the worker's row in one SQLite session and writes it in another, so     *)
(* other processes run between any two of those steps.  The monitor        *)
(* likewise lists the rows once per cycle, posts over the network, and     *)
(* only then updates the row it was reasoning about.                       *)
(***************************************************************************)
EXTENDS Integers, FiniteSets

CONSTANTS
    Workers,        \* worker identifiers
    Reporters,      \* processes that run one report at a time
    Monitors,       \* monitor processes
    MaxTime,        \* bound: the clock stops here
    MaxReports,     \* bound: reports ever begun
    MaxFaults,      \* bound: failed posts plus monitor crashes
    Thresholds,     \* protocol -> level -> age from which the level is due
    OpenTimes,      \* the instants at which the work window allows alerts
    RepeatLevels,   \* PRESENCE_ALERT_REPEAT_LEVELS, {} when repeats are off
    RepeatAfter,    \* PRESENCE_ALERT_REPEAT_SECONDS
    AutoStart,      \* the values of auto_start an observation may be given
    ReportProtocols \* the protocols that reports name

NoLevel == 0
Yellow  == 1
Orange  == 2
Red     == 3
Levels  == {Yellow, Orange, Red}

Protocols == {"protocol1", "protocol2"}
Never     == -1
Times     == 0 .. MaxTime
Stamps    == Times \cup {Never}

ASSUME PresenceConstants ==
    /\ Workers # {} /\ Reporters # {} /\ Monitors # {}
    /\ MaxTime \in Nat /\ MaxReports \in Nat /\ MaxFaults \in Nat
    /\ Thresholds \in [Protocols -> [Levels -> Nat \ {0}]]
    /\ \A p \in Protocols :
          /\ Thresholds[p][Yellow] < Thresholds[p][Orange]
          /\ Thresholds[p][Orange] < Thresholds[p][Red]
    /\ OpenTimes \subseteq Nat
    /\ RepeatLevels \subseteq Levels
    /\ RepeatAfter \in Nat \ {0}
    /\ AutoStart \subseteq BOOLEAN
    /\ ReportProtocols \subseteq Protocols

VARIABLES
    clock,   \* wall clock, in the unit of the thresholds
    row,     \* worker -> its row in table workers
    reds,    \* worker -> red rows inserted in table alerts since the last report
    posted,  \* history: worker -> red messages sent since its last report
    missed,  \* history: worker -> those whose cycle ended before record_alert
    rep,     \* reporter -> its report under way
    mon,     \* monitor -> its cycle under way
    begun,   \* reports begun so far
    faults   \* failed posts and monitor crashes so far

\* The red alerts of each worker, counted since its last report.
counts == <<reds, posted, missed>>

vars == <<clock, row, counts, rep, mon, begun, faults>>

-----------------------------------------------------------------------------
(* The rows and the local states of the processes.                         *)

Row == [status : {"missing", "idle", "active"}, protocol : Protocols,
        signal : Stamps, activity : Stamps,
        alert : Levels \cup {NoLevel}, alertAt : Stamps]

NoRow == [status |-> "missing", protocol |-> "protocol1", signal |-> Never,
          activity |-> Never, alert |-> NoLevel, alertAt |-> Never]

\* "signal" is start or heartbeat, which write the same row.
Events == {"signal", "touch", "finish"}
Kinds  == Events \cup {"observe"}

Report == [phase : {"none", "stamped", "read"}, worker : Workers, kind : Kinds,
           protocol : Protocols, auto : BOOLEAN, stamp : Times, signal : Stamps]

Channels == {"discord", "telegram", "escalation"}

Cycle == [phase : {"idle", "listing", "loop", "posting"}, now : Times,
          listed : [Workers -> Row], target : Workers, reached : SUBSET Channels]

SomeWorker == CHOOSE w \in Workers : TRUE

NoReport == [phase |-> "none", worker |-> SomeWorker, kind |-> "signal",
             protocol |-> "protocol1", auto |-> FALSE, stamp |-> 0,
             signal |-> Never]

NoCycle == [phase |-> "idle", now |-> 0, listed |-> [w \in Workers |-> NoRow],
            target |-> SomeWorker, reached |-> {}]

-----------------------------------------------------------------------------
(* The rules of protocols.py and of _should_send_alert.                    *)

\* The highest level whose threshold the age has reached; NoLevel below yellow.
DueLevel(protocol, age) ==
    CHOOSE level \in Levels \cup {NoLevel} :
        /\ level # NoLevel => age >= Thresholds[protocol][level]
        /\ \A k \in Levels : age >= Thresholds[protocol][k] => k <= level

\* The clock the worker's protocol watches.
ClockValue(r) ==
    IF r.protocol = "protocol1" \/ r.activity = Never THEN r.signal ELSE r.activity

\* Faulty variant: an off-by-one.
EscalatesOnEqual(previous, next) == next >= previous

ShouldEscalate(previous, next) == next > previous

\* Faulty variant: the repeat interval is not waited for.
RepeatsWithoutWaiting(r, level, now) ==
    \/ ShouldEscalate(r.alert, level)
    \/ level \in RepeatLevels /\ r.alert = level

\* Faulty variant: a level that fell due while the work window was closed counts as
\* suppressed for good.
ForgetsClosedWindow(r, level, now) ==
    /\ ClockValue(r) + Thresholds[r.protocol][level] \in OpenTimes
    /\ \/ ShouldEscalate(r.alert, level)
       \/ level \in RepeatLevels /\ r.alert = level /\ now - r.alertAt >= RepeatAfter

ShouldSendAlert(r, level, now) ==
    \/ ShouldEscalate(r.alert, level)
    \/ /\ ~(level = Red /\ r.alert = Red)
       /\ level \in RepeatLevels
       /\ r.alert = level
       /\ r.alertAt # Never
       /\ now - r.alertAt >= RepeatAfter

LevelAt(r, now) ==
    IF ClockValue(r) = Never THEN NoLevel ELSE DueLevel(r.protocol, now - ClockValue(r))

AlertDue(r, now) ==
    LET level == LevelAt(r, now)
    IN  level # NoLevel /\ ShouldSendAlert(r, level, now)

\* send_alert posts to Discord, then Telegram, then (a red escalation only)
\* starts the alarm or calls the phone webhook.
ChannelsDue(r, now) ==
    {"discord", "telegram"} \cup
        (IF LevelAt(r, now) = Red /\ ShouldEscalate(r.alert, Red)
         THEN {"escalation"} ELSE {})

Before(c) == CASE c = "discord"    -> {}
               [] c = "telegram"   -> {"discord"}
               [] c = "escalation" -> {"discord", "telegram"}

-----------------------------------------------------------------------------
Init ==
    /\ clock = 0
    /\ row = [w \in Workers |-> NoRow]
    /\ reds = [w \in Workers |-> 0]
    /\ posted = [w \in Workers |-> 0]
    /\ missed = [w \in Workers |-> 0]
    /\ rep = [r \in Reporters |-> NoReport]
    /\ mon = [m \in Monitors |-> NoCycle]
    /\ begun = 0
    /\ faults = 0

Tick ==
    /\ clock < MaxTime
    /\ clock' = clock + 1
    /\ UNCHANGED <<row, counts, rep, mon, begun, faults>>

-----------------------------------------------------------------------------
(* Reporters.                                                              *)

\* now = time.time(), before anything is read.
Stamp(r, w, kind, protocol, auto) ==
    /\ rep[r].phase = "none"
    /\ begun < MaxReports
    /\ begun' = begun + 1
    /\ rep' = [rep EXCEPT ![r] =
                  [phase |-> "stamped", worker |-> w, kind |-> kind,
                   protocol |-> protocol, auto |-> auto, stamp |-> clock,
                   signal |-> Never]]
    /\ UNCHANGED <<clock, row, counts, mon, faults>>

\* previous = self.get_worker(worker_id) in record_event, and the signal clock
\* the new row will carry: a touch keeps the one it has just read.
ReadForEvent(r) ==
    LET previous == row[rep[r].worker]
    IN  /\ rep[r].phase = "stamped"
        /\ rep[r].kind # "observe"
        /\ rep' = [rep EXCEPT
                     ![r].phase = "read",
                     ![r].signal = IF rep[r].kind = "touch" /\ previous.status # "missing"
                                   THEN previous.signal ELSE rep[r].stamp]
        /\ UNCHANGED <<clock, row, counts, mon, begun, faults>>

\* The same read in record_observation, which gives up on a worker that is not
\* active unless auto_start is on.
ReadForObservation(r) ==
    LET previous == row[rep[r].worker]
    IN  /\ rep[r].phase = "stamped"
        /\ rep[r].kind = "observe"
        /\ \/ /\ previous.status # "active" /\ ~rep[r].auto
              /\ rep' = [rep EXCEPT ![r] = NoReport]
           \/ /\ previous.status = "active" \/ rep[r].auto
              /\ rep' = [rep EXCEPT ![r].phase = "read", ![r].signal = previous.signal]
        /\ UNCHANGED <<clock, row, counts, mon, begun, faults>>

\* A report begins a new episode: the counts start again.
NewEpisode(w) ==
    /\ reds' = [reds EXCEPT ![w] = 0]
    /\ posted' = [posted EXCEPT ![w] = 0]
    /\ missed' = [missed EXCEPT ![w] = 0]

\* Faulty variant: the event type is stored as the status.
WritesKindAsStatus(r) ==
    /\ rep[r].phase = "read"
    /\ rep[r].kind # "observe"
    /\ row' = [row EXCEPT ![rep[r].worker].status = rep[r].kind]
    /\ NewEpisode(rep[r].worker)
    /\ rep' = [rep EXCEPT ![r] = NoReport]
    /\ UNCHANGED <<clock, mon, begun, faults>>

\* The upsert of record_event and its events row, one transaction.
WriteEvent(r) ==
    LET w == rep[r].worker
    IN  /\ rep[r].phase = "read"
        /\ rep[r].kind # "observe"
        /\ row' = [row EXCEPT ![w] =
                      [status |-> IF rep[r].kind = "finish" THEN "idle" ELSE "active",
                       protocol |-> rep[r].protocol,
                       signal |-> rep[r].signal, activity |-> rep[r].stamp,
                       alert |-> NoLevel, alertAt |-> Never]]
        /\ NewEpisode(w)
        /\ rep' = [rep EXCEPT ![r] = NoReport]
        /\ UNCHANGED <<clock, mon, begun, faults>>

\* The upsert of record_observation: its ON CONFLICT clause leaves
\* last_signal_at alone, its insert writes the signal read before.
WriteObservation(r) ==
    LET w == rep[r].worker
    IN  /\ rep[r].phase = "read"
        /\ rep[r].kind = "observe"
        /\ row' = [row EXCEPT ![w] =
                      [status |-> "active", protocol |-> rep[r].protocol,
                       signal |-> IF row[w].status = "missing"
                                  THEN rep[r].signal ELSE row[w].signal,
                       activity |-> rep[r].stamp,
                       alert |-> NoLevel, alertAt |-> Never]]
        /\ NewEpisode(w)
        /\ rep' = [rep EXCEPT ![r] = NoReport]
        /\ UNCHANGED <<clock, mon, begun, faults>>

\* The reporting process is killed, or its hook times out, before the write.
ReporterDies(r) ==
    /\ rep[r].phase # "none"
    /\ rep' = [rep EXCEPT ![r] = NoReport]
    /\ UNCHANGED <<clock, row, counts, mon, begun, faults>>

ReporterStep(r) ==
    \/ \E w \in Workers, kind \in Events, p \in ReportProtocols :
          Stamp(r, w, kind, p, FALSE)
    \/ \E w \in Workers, p \in ReportProtocols, auto \in AutoStart :
          Stamp(r, w, "observe", p, auto)
    \/ ReadForEvent(r)
    \/ ReadForObservation(r)
    \/ WriteEvent(r)
    \/ WriteObservation(r)
    \/ ReporterDies(r)

-----------------------------------------------------------------------------
(* Monitors.  A cycle outside the work window returns at once and changes  *)
(* nothing, so only cycles that begin inside it are steps.                 *)

StartCycle(m) ==
    /\ mon[m].phase = "idle"
    /\ clock \in OpenTimes
    /\ mon' = [mon EXCEPT ![m].phase = "listing", ![m].now = clock]
    /\ UNCHANGED <<clock, row, counts, rep, begun, faults>>

\* list_workers(only_active=True): the loop below works on this copy.  A worker
\* whose turn is over is NoRow in it.
ListWorkers(m) ==
    /\ mon[m].phase = "listing"
    /\ mon' = [mon EXCEPT
                 ![m].phase = "loop",
                 ![m].listed = [w \in Workers |->
                                  IF row[w].status = "active" THEN row[w] ELSE NoRow]]
    /\ UNCHANGED <<clock, row, counts, rep, begun, faults>>

\* No clock, no threshold reached, or nothing new to say.
SkipWorker(m, w) ==
    /\ mon[m].phase = "loop"
    /\ mon[m].listed[w].status = "active"
    /\ ~AlertDue(mon[m].listed[w], mon[m].now)
    /\ mon' = [mon EXCEPT ![m].listed[w] = NoRow]
    /\ UNCHANGED <<clock, row, counts, rep, begun, faults>>

BeginAlert(m, w) ==
    /\ mon[m].phase = "loop"
    /\ mon[m].listed[w].status = "active"
    /\ AlertDue(mon[m].listed[w], mon[m].now)
    /\ mon' = [mon EXCEPT ![m].phase = "posting", ![m].target = w, ![m].reached = {}]
    /\ UNCHANGED <<clock, row, counts, rep, begun, faults>>

Target(m)     == mon[m].target
TargetRow(m)  == mon[m].listed[mon[m].target]

\* Faulty variant: the alert is recorded before the red escalation.
ForgetsEscalation(m) == {"discord", "telegram"} \ mon[m].reached

StillToPost(m) == ChannelsDue(TargetRow(m), mon[m].now) \ mon[m].reached

PostsRed(m) == LevelAt(TargetRow(m), mon[m].now) = Red

\* One post of send_alert returns.  Discord's is the first message of an alert.
Post(m, c) ==
    /\ mon[m].phase = "posting"
    /\ c \in StillToPost(m)
    /\ Before(c) \subseteq mon[m].reached
    /\ mon' = [mon EXCEPT ![m].reached = @ \cup {c}]
    /\ posted' = IF c = "discord" /\ PostsRed(m)
                 THEN [posted EXCEPT ![Target(m)] = @ + 1] ELSE posted
    /\ UNCHANGED <<clock, row, reds, missed, rep, begun, faults>>

\* A red message of the present episode is out and record_alert has not run.
RedIsOut(m) ==
    /\ mon[m].phase = "posting"
    /\ PostsRed(m)
    /\ "discord" \in mon[m].reached
    /\ posted[Target(m)] > 0

\* The cycle gives the alert up without record_alert.
LosesAlert(m) ==
    /\ faults < MaxFaults
    /\ faults' = faults + 1
    /\ missed' = IF RedIsOut(m) THEN [missed EXCEPT ![Target(m)] = @ + 1] ELSE missed
    /\ UNCHANGED <<clock, row, reds, posted, rep, begun>>

\* NotificationError: the worker's turn ends with nothing recorded, whatever
\* the channels before the failing one have already shown.  A post that arrived
\* and whose answer was late counts as the failure of the one after it.
PostFails(m) ==
    /\ mon[m].phase = "posting"
    /\ StillToPost(m) # {}
    /\ LosesAlert(m)
    /\ mon' = [mon EXCEPT ![m].phase = "loop", ![m].listed[Target(m)] = NoRow,
                          ![m].target = SomeWorker, ![m].reached = {}]

\* record_alert: the alerts row and the level on the worker's row, in one
\* transaction and whatever the row holds by now.
RecordAlert(m) ==
    LET w     == Target(m)
        level == LevelAt(TargetRow(m), mon[m].now)
    IN  /\ mon[m].phase = "posting"
        /\ StillToPost(m) = {}
        /\ row' = [row EXCEPT ![w].alert = level, ![w].alertAt = mon[m].now]
        /\ reds' = [reds EXCEPT ![w] = IF level = Red THEN @ + 1 ELSE @]
        /\ mon' = [mon EXCEPT ![m].phase = "loop", ![m].listed[w] = NoRow,
                              ![m].target = SomeWorker, ![m].reached = {}]
        /\ UNCHANGED <<clock, posted, missed, rep, begun, faults>>

EndCycle(m) ==
    /\ mon[m].phase = "loop"
    /\ mon[m].listed = NoCycle.listed
    /\ mon' = [mon EXCEPT ![m] = NoCycle]
    /\ UNCHANGED <<clock, row, counts, rep, begun, faults>>

\* The process dies anywhere in its cycle; systemd or the user starts it again.
MonitorCrashes(m) ==
    /\ mon[m].phase # "idle"
    /\ LosesAlert(m)
    /\ mon' = [mon EXCEPT ![m] = NoCycle]

CycleStep(m) ==
    \/ StartCycle(m)
    \/ ListWorkers(m)
    \/ \E w \in Workers : SkipWorker(m, w) \/ BeginAlert(m, w)
    \/ \E c \in Channels : Post(m, c)
    \/ RecordAlert(m)
    \/ EndCycle(m)

MonitorStep(m) == CycleStep(m) \/ PostFails(m) \/ MonitorCrashes(m)

-----------------------------------------------------------------------------
Next ==
    \/ Tick
    \/ \E r \in Reporters : ReporterStep(r)
    \/ \E m \in Monitors : MonitorStep(m)

Spec == Init /\ [][Next]_vars

\* The monitor loop always comes round again: _run_monitor sleeps a finite
\* interval, every request has a timeout, and the unit restarts a dead process.
\* Time passes, so a closed work window opens again.
FairSpec == Spec /\ WF_vars(Tick) /\ \A m \in Monitors : WF_vars(CycleStep(m))

-----------------------------------------------------------------------------
TypeOK ==
    /\ clock \in Times
    /\ row \in [Workers -> Row]
    /\ reds \in [Workers -> Nat]
    /\ posted \in [Workers -> Nat]
    /\ missed \in [Workers -> Nat]
    /\ rep \in [Reporters -> Report]
    /\ mon \in [Monitors -> Cycle]
    /\ begun \in 0 .. MaxReports
    /\ faults \in 0 .. MaxFaults

-----------------------------------------------------------------------------
(* Safety.                                                                 *)

\* With one monitor, and across reports that commit while an alert is on its way:
\* until some report has reset the worker, table alerts never gets a second red
\* row, and a red message is sent again only after one that a failed post or a
\* crash kept from being recorded, once for each.
RedOncePerEpisode ==
    \A w \in Workers : reds[w] <= 1 /\ posted[w] <= 1 + missed[w]

\* What the guides promise without that exception: the red message, and with it
\* the alarm or the phone call, comes once in an episode.
RedMessageOnce == \A w \in Workers : posted[w] <= 1

\* With one monitor, the level on a row falls only to "none" and only by a
\* report: a slow cycle never writes a milder level over a harsher one, and the
\* same level is written again only as a repeat the configuration allows.
LevelWritten(w) == \E m \in Monitors : Target(m) = w /\ RecordAlert(m)

LevelsOnlyRise ==
    [][\A w \in Workers :
          LevelWritten(w) =>
             \/ row'[w].alert > row[w].alert
             \/ /\ row'[w].alert = row[w].alert
                /\ row'[w].alert \in RepeatLevels \ {Red}
                /\ row'[w].alertAt - row[w].alertAt >= RepeatAfter]_vars

\* A level reaches the row only once every channel that the alert owes has
\* accepted it; a recorded red has also set off the alarm or the phone.
RecordedOnlyWhenDelivered ==
    [][\A w \in Workers :
          LevelWritten(w) =>
             \E m \in Monitors :
                /\ mon[m].target = w
                /\ {"discord", "telegram"} \subseteq mon[m].reached
                /\ row'[w].alert = Red => "escalation" \in mon[m].reached]_vars

\* What the guides promise and the store does not keep: the level on a row was
\* reached by the silence since the row's own last report.
AlertBelongsToEpisode ==
    \A w \in Workers :
        row[w].status = "active" /\ row[w].alert # NoLevel =>
            /\ ClockValue(row[w]) # Never
            /\ DueLevel(row[w].protocol, row[w].alertAt - ClockValue(row[w])) >= row[w].alert

\* What the guides promise of hooks without auto start and record_observation
\* does not keep: an observation is recorded only for a worker that is active.
ObservationNeedsActiveWorker ==
    [][\A r \in Reporters :
          WriteObservation(r) /\ ~rep[r].auto => row[rep[r].worker].status = "active"]_vars

-----------------------------------------------------------------------------
(* Liveness.                                                               *)

\* The clock of an active worker has stood at c past its protocol's red threshold.
SilentSince(w, c) ==
    /\ row[w].status = "active"
    /\ ClockValue(row[w]) = c
    /\ clock - c >= Thresholds[row[w].protocol][Red]

\* The row shows a red that was due by the silence since c.
RedOfSilence(w, c) ==
    /\ row[w].alert = Red
    /\ \E p \in Protocols : row[w].alertAt - c >= Thresholds[p][Red]

\* A report has overtaken a cycle that is still busy with the worker, or the red
\* that such a cycle then wrote stands on the row (see AlertBelongsToEpisode).
Overtaken(w, c) ==
    \/ row[w].alert = Red /\ ~RedOfSilence(w, c)
    \/ \E m \in Monitors : LET listed == mon[m].listed[w] IN
          listed.status = "active" /\ ClockValue(listed) # c

\* The silences that turn red before the clock's bound.
Silences == {c \in Times : \E p \in ReportProtocols : c + Thresholds[p][Red] < MaxTime}

\* Unless a report has overtaken the monitor, a silence past the red threshold is
\* escalated to a red of its own or ends: a work window that is closed when red
\* falls due, failed posts, crashes and a touch that resets the level only delay it.
SilenceIsEscalated ==
    \A w \in Workers, c \in Silences :
        SilentSince(w, c) /\ ~Overtaken(w, c) ~> RedOfSilence(w, c) \/ ~SilentSince(w, c)
=============================================================================
