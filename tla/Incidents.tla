----------------------------- MODULE Incidents -----------------------------
(***************************************************************************)
(* The diagnostic incidents of one worker: the commands that diagnose it,  *)
(* notify Discord of its open incident and recover it, the incident table  *)
(* and the two ledgers that keep an outside effect from happening twice.   *)
(*                                                                         *)
(* A command is a process of its own.  The store opens one SQLite session  *)
(* per method and Python begins a transaction only at the first write, so  *)
(* a SELECT and the write that follows it are two steps even inside one    *)
(* session, and other commands run between them.  Rows of other workers    *)
(* are never read, so one worker is the whole of the protocol.             *)
(***************************************************************************)
EXTENDS Integers, FiniteSets

CONSTANTS
    Commands,      \* processes that run one command at a time
    Findings,      \* what an assessment may conclude: records [cause, severity, exact]
    Healthy,       \* _HEALTHY_DIAGNOSES
    Recoverable,   \* the causes of _RECOVERABLE_CONFIDENCE; cause = kind + confidence
    MaxCommands,   \* bound: commands ever begun
    MaxIncidents,  \* bound: incidents ever opened
    MaxDiagnoses,  \* bound: diagnoses ever recorded
    MaxExpired     \* bound: diagnoses whose validity runs out

IncidentIds  == 1 .. MaxIncidents
DiagnosisIds == 1 .. MaxDiagnoses
None         == 0

ASSUME IncidentConstants ==
    /\ Findings # {}
    /\ \A f \in Findings : f.exact \in BOOLEAN
    /\ MaxCommands \in Nat
    /\ MaxIncidents \in Nat \ {0}
    /\ MaxDiagnoses \in Nat \ {0}
    /\ MaxExpired \in Nat

\* diagnostic_event_key: what makes two diagnoses the same news.  The severity
\* column of an incident is always written together with its diagnosis, so it
\* is kept with the diagnosis.
EventKey(f) == <<f.cause, f.severity>>
EventKeys   == {EventKey(f) : f \in Findings}

\* The slots of the notification ledger: UNIQUE (incident_id, event_key, channel).
Notices == IncidentIds \X EventKeys

VARIABLES
    worker,     \* the status on the worker's row
    diagnosis,  \* diagnosis id -> the finding it records, for ids up to diagnosed
    diagnosed,  \* diagnoses recorded so far
    expired,    \* diagnoses whose valid_until has passed
    incident,   \* incident id -> its row in diagnostic_incidents
    opened,     \* incidents opened so far
    notice,     \* slot -> status of its row in diagnostic_notifications
    recovery,   \* incident id -> its row in diagnostic_recoveries
    posts,      \* slot -> messages that reached Discord
    inputs,     \* incident id -> messages that reached the Codex queue
    cmd,        \* command -> what it is doing
    begun       \* commands begun so far

tables  == <<diagnosis, diagnosed, incident, opened, notice, recovery>>
outside == <<posts, inputs>>
vars    == <<worker, expired, tables, outside, cmd, begun>>

-----------------------------------------------------------------------------
IncidentRow == [status : {"none", "open", "resolved"},
                diag : DiagnosisIds \cup {None}, notified : BOOLEAN]

NoticeResults   == {"delivered", "rejected", "uncertain"}
RecoveryResults == {"dispatch_started", "input_emitted", "uncertain"}

RecoveryRow == [status : {"free", "pending"} \cup RecoveryResults,
                diag : DiagnosisIds \cup {None}]

DiagnosePhases == {"diagnosing", "resolving", "selecting", "inserting", "updating"}
NotifyPhases   == {"notifying", "finding notice", "checking notice",
                   "reserving notice", "posting", "closing notice"}
RecoverPhases  == {"recovering", "finding delivery", "finding recovery",
                   "checking recovery", "reserving recovery", "dispatching",
                   "closing recovery"}
Phases == {"idle"} \cup DiagnosePhases \cup NotifyPhases \cup RecoverPhases

Command == [phase : Phases, incident : IncidentIds \cup {None},
            diag : DiagnosisIds \cup {None}, stale : SUBSET DiagnosisIds,
            result : NoticeResults \cup RecoveryResults \cup {"none"}]

Idle == [phase |-> "idle", incident |-> None, diag |-> None, stale |-> {},
         result |-> "none"]

SomeFinding == CHOOSE f \in Findings : TRUE

Slot(c) == <<cmd[c].incident, EventKey(diagnosis[cmd[c].diag])>>

Go(c, phase)  == cmd' = [cmd EXCEPT ![c].phase = phase]
Stop(c)       == cmd' = [cmd EXCEPT ![c] = Idle]

Init ==
    /\ worker = "idle"
    /\ diagnosis = [d \in DiagnosisIds |-> SomeFinding]
    /\ diagnosed = 0
    /\ expired = {}
    /\ incident = [i \in IncidentIds |->
                      [status |-> "none", diag |-> None, notified |-> FALSE]]
    /\ opened = 0
    /\ notice = [s \in Notices |-> "free"]
    /\ recovery = [i \in IncidentIds |-> [status |-> "free", diag |-> None]]
    /\ posts = [s \in Notices |-> 0]
    /\ inputs = [i \in IncidentIds |-> 0]
    /\ cmd = [c \in Commands |-> Idle]
    /\ begun = 0

-----------------------------------------------------------------------------
(* The worker's own life, and the passing of time.                         *)

WorkerStartsOrFinishes ==
    /\ worker' \in {"idle", "active"} \ {worker}
    /\ UNCHANGED <<expired, tables, outside, cmd, begun>>

Expire(d) ==
    /\ d <= diagnosed /\ d \notin expired
    /\ Cardinality(expired) < MaxExpired
    /\ expired' = expired \cup {d}
    /\ UNCHANGED <<worker, tables, outside, cmd, begun>>

\* Every command first reads the worker's row and gives up unless it is active.
\* "now" is taken here: what expires later counts as valid for this command.
StartCommand(c, phase) ==
    /\ cmd[c].phase = "idle"
    /\ worker = "active"
    /\ begun < MaxCommands
    /\ begun' = begun + 1
    /\ cmd' = [cmd EXCEPT ![c] = [Idle EXCEPT !.phase = phase,
                 !.stale = IF phase = "recovering" THEN expired ELSE {}]]
    /\ UNCHANGED <<worker, expired, tables, outside>>

\* The process is killed, or refuses: a dry run, no webhook configured, native
\* input disabled, no --authorize-once, no executable.  Nothing is undone.
Abandon(c) ==
    /\ cmd[c].phase # "idle"
    /\ Stop(c)
    /\ UNCHANGED <<worker, expired, tables, outside, begun>>

-----------------------------------------------------------------------------
(* The store's queries about incidents.                                    *)

IsOpen(i) == i \in IncidentIds /\ incident[i].status = "open"

OpenIncident ==
    IF \E i \in IncidentIds : IsOpen(i)
    THEN CHOOSE i \in IncidentIds : IsOpen(i) ELSE None

\* The test both reservations make before they insert.
StillCurrent(c) ==
    /\ IsOpen(cmd[c].incident)
    /\ incident[cmd[c].incident].diag = cmd[c].diag

-----------------------------------------------------------------------------
(* diagnose_worker.                                                        *)

\* The open incident is read and the diagnosis recorded; the new rows are
\* nobody's business until the last step names them.
Assess(c, f) ==
    /\ cmd[c].phase = "diagnosing"
    /\ diagnosed < MaxDiagnoses
    /\ diagnosed' = diagnosed + 1
    /\ diagnosis' = [diagnosis EXCEPT ![diagnosed + 1] = f]
    /\ \/ /\ f.cause \in Healthy /\ OpenIncident = None
          /\ Stop(c)
       \/ /\ f.cause \in Healthy /\ OpenIncident # None
          /\ cmd' = [cmd EXCEPT ![c].phase = "resolving", ![c].incident = OpenIncident]
       \/ /\ f.cause \notin Healthy
          /\ cmd' = [cmd EXCEPT ![c].phase = "selecting", ![c].diag = diagnosed + 1]
    /\ UNCHANGED <<worker, expired, incident, opened, notice, recovery, outside, begun>>

\* resolve_incident: an error, and no change, unless the row is still open.
Resolve(c) ==
    /\ cmd[c].phase = "resolving"
    /\ incident' = IF IsOpen(cmd[c].incident)
                   THEN [incident EXCEPT ![cmd[c].incident].status = "resolved"]
                   ELSE incident
    /\ Stop(c)
    /\ UNCHANGED <<worker, expired, diagnosis, diagnosed, opened, notice, recovery, outside, begun>>

\* open_or_update_incident: the SELECT that decides between INSERT and UPDATE.
SelectIncident(c) ==
    /\ cmd[c].phase = "selecting"
    /\ cmd' = [cmd EXCEPT
                 ![c].incident = OpenIncident,
                 ![c].phase = IF OpenIncident = None THEN "inserting" ELSE "updating"]
    /\ UNCHANGED <<worker, expired, tables, outside, begun>>

\* Faulty variant: no unique index on the worker's open incident.
InsertsASecondOpenIncident(c) ==
    /\ cmd[c].phase = "inserting"
    /\ opened < MaxIncidents
    /\ opened' = opened + 1
    /\ incident' = [incident EXCEPT ![opened + 1] =
                       [status |-> "open", diag |-> cmd[c].diag, notified |-> FALSE]]
    /\ Stop(c)
    /\ UNCHANGED <<worker, expired, diagnosis, diagnosed, notice, recovery, outside, begun>>

\* The unique index idx_diagnostic_incidents_open_worker refuses a second open row.
InsertIncident(c) ==
    /\ cmd[c].phase = "inserting"
    /\ \/ /\ OpenIncident # None
          /\ UNCHANGED <<incident, opened>>
       \/ /\ OpenIncident = None
          /\ opened < MaxIncidents
          /\ opened' = opened + 1
          /\ incident' = [incident EXCEPT ![opened + 1] =
                             [status |-> "open", diag |-> cmd[c].diag, notified |-> FALSE]]
    /\ Stop(c)
    /\ UNCHANGED <<worker, expired, diagnosis, diagnosed, notice, recovery, outside, begun>>

\* Faulty variant: the UPDATE without "AND status = 'open'".
UpdatesAnyIncident(c) ==
    /\ cmd[c].phase = "updating"
    /\ incident' = [incident EXCEPT ![cmd[c].incident].diag = cmd[c].diag]
    /\ Stop(c)
    /\ UNCHANGED <<worker, expired, diagnosis, diagnosed, opened, notice, recovery, outside, begun>>

\* The UPDATE of the row selected before: no row, and no error, once resolved.
UpdateIncident(c) ==
    /\ cmd[c].phase = "updating"
    /\ incident' = IF IsOpen(cmd[c].incident)
                   THEN [incident EXCEPT ![cmd[c].incident].diag = cmd[c].diag]
                   ELSE incident
    /\ Stop(c)
    /\ UNCHANGED <<worker, expired, diagnosis, diagnosed, opened, notice, recovery, outside, begun>>

-----------------------------------------------------------------------------
(* notify_diagnostic_incident.                                             *)

\* The open incident and its diagnosis, which is immutable.
ReadForNotice(c) ==
    /\ cmd[c].phase = "notifying"
    /\ \/ /\ OpenIncident = None
          /\ Stop(c)
       \/ /\ OpenIncident # None
          /\ cmd' = [cmd EXCEPT ![c].phase = "finding notice", ![c].incident = OpenIncident,
                                ![c].diag = incident[OpenIncident].diag]
    /\ UNCHANGED <<worker, expired, tables, outside, begun>>

\* find_notification: any row at all means this event was dealt with.
FindNotice(c) ==
    /\ cmd[c].phase = "finding notice"
    /\ \/ notice[Slot(c)] # "free" /\ Stop(c)
       \/ notice[Slot(c)] = "free" /\ Go(c, "checking notice")
    /\ UNCHANGED <<worker, expired, tables, outside, begun>>

\* The SELECT of reserve_notification.
CheckNotice(c) ==
    /\ cmd[c].phase = "checking notice"
    /\ \/ StillCurrent(c) /\ Go(c, "reserving notice")
       \/ ~StillCurrent(c) /\ Stop(c)
    /\ UNCHANGED <<worker, expired, tables, outside, begun>>

\* Faulty variant: the post goes ahead whether or not the row was created.
ReservesOverExisting(c) ==
    /\ cmd[c].phase = "reserving notice"
    /\ notice' = [notice EXCEPT ![Slot(c)] = "pending"]
    /\ Go(c, "posting")
    /\ UNCHANGED <<worker, expired, diagnosis, diagnosed, incident, opened, recovery, outside, begun>>

\* Its INSERT OR IGNORE; the row it finds instead ends the command.
ReserveNotice(c) ==
    /\ cmd[c].phase = "reserving notice"
    /\ \/ /\ notice[Slot(c)] = "free"
          /\ notice' = [notice EXCEPT ![Slot(c)] = "pending"]
          /\ Go(c, "posting")
       \/ /\ notice[Slot(c)] # "free"
          /\ Stop(c)
          /\ UNCHANGED notice
    /\ UNCHANGED <<worker, expired, diagnosis, diagnosed, incident, opened, recovery, outside, begun>>

\* client.send: Discord takes the message, refuses it, or the answer is lost
\* with the message on either side.
PostNotice(c, result, arrived) ==
    /\ cmd[c].phase = "posting"
    /\ result = "delivered" => arrived
    /\ result = "rejected" => ~arrived
    /\ posts' = IF arrived THEN [posts EXCEPT ![Slot(c)] = @ + 1] ELSE posts
    /\ cmd' = [cmd EXCEPT ![c].phase = "closing notice", ![c].result = result]
    /\ UNCHANGED <<worker, expired, tables, inputs, begun>>

\* Faulty variant: the incident is stamped whatever became of the post.
StampsEveryAttempt(c) ==
    /\ cmd[c].phase = "closing notice"
    /\ notice' = [notice EXCEPT ![Slot(c)] = cmd[c].result]
    /\ incident' = [incident EXCEPT ![cmd[c].incident].notified = TRUE]
    /\ Stop(c)
    /\ UNCHANGED <<worker, expired, diagnosis, diagnosed, opened, recovery, outside, begun>>

\* complete_notification: the ledger row and, when delivered, the incident's
\* last_notified_at, in one transaction; resolved incidents are stamped too.
CompleteNotice(c) ==
    /\ cmd[c].phase = "closing notice"
    /\ notice' = [notice EXCEPT ![Slot(c)] = cmd[c].result]
    /\ incident' = IF cmd[c].result = "delivered"
                   THEN [incident EXCEPT ![cmd[c].incident].notified = TRUE]
                   ELSE incident
    /\ Stop(c)
    /\ UNCHANGED <<worker, expired, diagnosis, diagnosed, opened, recovery, outside, begun>>

-----------------------------------------------------------------------------
(* recover_diagnostic_incident.                                            *)

\* _validate_eligibility, for the command's own "now".
Eligible(c, d) ==
    /\ diagnosis[d].cause \in Recoverable
    /\ diagnosis[d].exact
    /\ d \notin cmd[c].stale

ReadForRecovery(c) ==
    /\ cmd[c].phase = "recovering"
    /\ LET i == OpenIncident
           go == i # None /\ Eligible(c, incident[i].diag)
       IN  \/ ~go /\ Stop(c)
           \/ /\ go
              /\ cmd' = [cmd EXCEPT ![c].phase = "finding delivery", ![c].incident = i,
                                    ![c].diag = incident[i].diag, ![c].stale = {}]
    /\ UNCHANGED <<worker, expired, tables, outside, begun>>

\* Faulty variant: a reservation is taken for a delivery.
TakesPendingForDelivered(c) ==
    /\ cmd[c].phase = "finding delivery"
    /\ \/ notice[Slot(c)] = "free" /\ Stop(c)
       \/ notice[Slot(c)] # "free" /\ Go(c, "finding recovery")
    /\ UNCHANGED <<worker, expired, tables, outside, begun>>

\* find_notification: only a confirmed delivery of this very event will do.
FindDelivery(c) ==
    /\ cmd[c].phase = "finding delivery"
    /\ \/ notice[Slot(c)] # "delivered" /\ Stop(c)
       \/ notice[Slot(c)] = "delivered" /\ Go(c, "finding recovery")
    /\ UNCHANGED <<worker, expired, tables, outside, begun>>

FindRecovery(c) ==
    /\ cmd[c].phase = "finding recovery"
    /\ \/ recovery[cmd[c].incident].status # "free" /\ Stop(c)
       \/ recovery[cmd[c].incident].status = "free" /\ Go(c, "checking recovery")
    /\ UNCHANGED <<worker, expired, tables, outside, begun>>

\* The SELECT of reserve_recovery.
CheckRecovery(c) ==
    /\ cmd[c].phase = "checking recovery"
    /\ \/ StillCurrent(c) /\ Go(c, "reserving recovery")
       \/ ~StillCurrent(c) /\ Stop(c)
    /\ UNCHANGED <<worker, expired, tables, outside, begun>>

\* Faulty variant: the message goes out first, and the row is left to the end.
SendsUnreserved(c) ==
    /\ cmd[c].phase = "reserving recovery"
    /\ Go(c, "dispatching")
    /\ UNCHANGED <<worker, expired, tables, outside, begun>>

\* Its INSERT OR IGNORE.
ReserveRecovery(c) ==
    /\ cmd[c].phase = "reserving recovery"
    /\ \/ /\ recovery[cmd[c].incident].status = "free"
          /\ recovery' = [recovery EXCEPT ![cmd[c].incident] =
                             [status |-> "pending", diag |-> cmd[c].diag]]
          /\ Go(c, "dispatching")
       \/ /\ recovery[cmd[c].incident].status # "free"
          /\ Stop(c)
          /\ UNCHANGED recovery
    /\ UNCHANGED <<worker, expired, diagnosis, diagnosed, incident, opened, notice, outside, begun>>

\* native_client.send: a state it vouches for, or CodexInputError with the
\* message queued or not.
Dispatch(c, result, arrived) ==
    /\ cmd[c].phase = "dispatching"
    /\ result = "input_emitted" => arrived
    /\ inputs' = IF arrived THEN [inputs EXCEPT ![cmd[c].incident] = @ + 1] ELSE inputs
    /\ cmd' = [cmd EXCEPT ![c].phase = "closing recovery", ![c].result = result]
    /\ UNCHANGED <<worker, expired, tables, posts, begun>>

CompleteRecovery(c) ==
    /\ cmd[c].phase = "closing recovery"
    /\ recovery' = [recovery EXCEPT ![cmd[c].incident].status = cmd[c].result]
    /\ Stop(c)
    /\ UNCHANGED <<worker, expired, diagnosis, diagnosed, incident, opened, notice, outside, begun>>

-----------------------------------------------------------------------------
Step(c) ==
    \/ \E phase \in {"diagnosing", "notifying", "recovering"} : StartCommand(c, phase)
    \/ Abandon(c)
    \/ \E f \in Findings : Assess(c, f)
    \/ Resolve(c) \/ SelectIncident(c) \/ InsertIncident(c) \/ UpdateIncident(c)
    \/ ReadForNotice(c) \/ FindNotice(c) \/ CheckNotice(c) \/ ReserveNotice(c)
    \/ \E r \in NoticeResults, a \in BOOLEAN : PostNotice(c, r, a)
    \/ CompleteNotice(c)
    \/ ReadForRecovery(c) \/ FindDelivery(c) \/ FindRecovery(c)
    \/ CheckRecovery(c) \/ ReserveRecovery(c)
    \/ \E r \in RecoveryResults, a \in BOOLEAN : Dispatch(c, r, a)
    \/ CompleteRecovery(c)

Next ==
    \/ WorkerStartsOrFinishes
    \/ \E d \in DiagnosisIds : Expire(d)
    \/ \E c \in Commands : Step(c)

Spec == Init /\ [][Next]_vars

-----------------------------------------------------------------------------
TypeOK ==
    /\ worker \in {"idle", "active"}
    /\ diagnosis \in [DiagnosisIds -> Findings]
    /\ diagnosed \in 0 .. MaxDiagnoses
    /\ expired \subseteq 1 .. diagnosed
    /\ incident \in [IncidentIds -> IncidentRow]
    /\ opened \in 0 .. MaxIncidents
    /\ notice \in [Notices -> {"free", "pending"} \cup NoticeResults]
    /\ recovery \in [IncidentIds -> RecoveryRow]
    /\ posts \in [Notices -> Nat]
    /\ inputs \in [IncidentIds -> Nat]
    /\ cmd \in [Commands -> Command]
    /\ begun \in 0 .. MaxCommands

-----------------------------------------------------------------------------
(* Safety.                                                                 *)

\* The two ledgers, seen as slots whose effect happens once: however commands
\* interleave and wherever they die, an event of an incident is posted at most
\* once, an incident is recovered at most once, each only under a reservation.
NoticeLedger == INSTANCE OneShot
    WITH Slots <- Notices, Results <- NoticeResults, stage <- notice, sent <- posts

RecoveryLedger == INSTANCE OneShot
    WITH Slots <- IncidentIds, Results <- RecoveryResults,
         stage <- [i \in IncidentIds |-> recovery[i].status], sent <- inputs

NoticesAreOneShot   == NoticeLedger!Spec
RecoveriesAreOneShot == RecoveryLedger!Spec

\* Nothing is queued to Codex for an incident unless the very diagnosis it was
\* reserved for is recoverable, belongs to an exact session, and was confirmed
\* delivered to Discord -- whatever later diagnoses made of the incident.
RecoveryFollowsDelivery ==
    \A i \in IncidentIds :
        recovery[i].status # "free" \/ inputs[i] > 0 =>
            LET f == diagnosis[recovery[i].diag]
            IN  /\ recovery[i].diag \in DiagnosisIds
                /\ f.cause \in Recoverable /\ f.exact
                /\ notice[<<i, EventKey(f)>>] = "delivered"
                /\ posts[<<i, EventKey(f)>>] = 1

\* last_notified_at is set exactly when the ledger holds a confirmed delivery
\* for the incident, even if it was resolved while the post was under way.
NotifiedMatchesLedger ==
    \A i \in IncidentIds :
        incident[i].notified <=> \E k \in EventKeys : notice[<<i, k>>] = "delivered"

\* However diagnoses race, the worker has at most one open incident.
OneOpenIncident ==
    \A i, j \in IncidentIds : IsOpen(i) /\ IsOpen(j) => i = j

\* A resolved incident is history: a diagnosis that was about to update it when
\* a healthy one resolved it neither reopens it nor changes what it was about.
ResolvedIsFinal ==
    [][\A i \in IncidentIds :
          incident[i].status = "resolved" =>
             /\ incident'[i].status = "resolved"
             /\ incident'[i].diag = incident[i].diag]_vars

\* What the architecture document promises and the UPDATE does not keep: an
\* unhealthy diagnosis that goes through opens or updates an incident, so its
\* command ends with an incident open.
UnhealthyLeavesOpenIncident ==
    [][\A c \in Commands :
          UpdateIncident(c) => \E i \in IncidentIds : IsOpen(i)']_vars
=============================================================================
