------------------------------ MODULE Diagnosis ------------------------------
(* Why a worker is silent: the hooks and the collectors record evidence, each *)
(* with the time it was observed and a time to live; diagnose_worker reads    *)
(* the worker, lists the evidence that is still valid, selects what is        *)
(* current of one session, assesses it and records the diagnosis; the         *)
(* recovery checks that the recorded diagnosis allows it. The steps are       *)
(* sessions of their own and evidence may be recorded between them, later     *)
(* than it was observed and out of order. Incidents are in module Incidents.  *)
EXTENDS Integers, FiniteSets

CONSTANTS Sightings,      \* what is observed in an instance
          HookTtl, LinuxTtl, LimitTtl, PresenceTtl,
          Overdue,        \* age of the last signal of an overdue worker
          ListLimit,      \* "limit" of list_evidence
          MaxMoment, MaxEvidence, MaxDiagnoses

VARIABLES moment,         \* the clock
          signalled,      \* the worker's monitored clock
          evidence,       \* diagnostic_evidence
          inspection,     \* the diagnose command in progress
          diagnosis,      \* the last recorded diagnosis
          recovered,      \* the diagnosis a recovery was allowed on (history)
          diagnoses

diagnosisVars == <<moment, signalled, evidence, inspection, diagnosis, recovered,
                   diagnoses>>

None     == "none"
Sessions == {"s1", "s2"}

-----------------------------------------------------------------------------
(* What there is to observe.                                                  *)

Of(source, kind, states, ttl) ==
    [source : {source}, kind : {kind}, state : states, ttl : {ttl}]

\* _HOOK_EVIDENCE.
HookEvidence ==
    Of("codex_hook", "thread_status", {"session_started", "session_ended"}, HookTtl)
    \cup Of("codex_hook", "activity", {"prompt_submitted", "tool_started",
            "tool_completed", "subagent_started", "subagent_stopped"}, HookTtl)
    \cup Of("codex_hook", "turn_status", {"stopped", "interrupted"}, HookTtl)
    \cup Of("codex_hook", "context_compaction", {"started", "completed"}, HookTtl)

\* LinuxProcessObserver.sample: the pid has no process, one that cannot be
\* read, one of another name or start, a zombie, a dead or a running one.
ProcessEvidence ==
    Of("process", "process_state", {"missing", "unreadable", "identity_mismatch",
       "replaced", "zombie", "dead", "running"}, LinuxTtl)

\* LinuxPowerObserver.sample compares two samples of the clocks.
PowerEvidence ==
    Of("power", "power_state", {"unknown", "awake", "boot_changed", "resume_detected"},
       LinuxTtl)

\* observe_linux_network: default routes and the state of their links.
NetworkEvidence ==
    Of("network", "network_state", {"default_route_link_down",
       "default_route_available", "link_up_no_default_route",
       "link_up_route_unknown", "no_usable_link", "unknown"}, LinuxTtl)

\* observe_user_service.
ServiceEvidence ==
    Of("service", "service_state", {"unknown", "not_found", "failed", "active",
       "activating", "deactivating", "inactive"}, LinuxTtl)

\* What observe-linux-state samples, each part unless it was left out.
LinuxEvidence == ProcessEvidence \cup PowerEvidence \cup NetworkEvidence
                 \cup ServiceEvidence

UsageLimitStates ==
    {"account_limit_reached", "ordinary_usage_blocked", "rate_limit_reached",
     "spend_control_reached", "workspace_member_credits_depleted",
     "workspace_member_usage_limit_reached", "workspace_owner_credits_depleted",
     "workspace_owner_usage_limit_reached"}

\* classify_rate_limits.
LimitEvidence ==
    Of("codex_app_server", "account_limit",
       UsageLimitStates \cup {"usage_available", "usage_unknown"}, LimitTtl)

Presence(overdue) ==
    [source |-> "workspace", kind |-> "workspace_state", ttl |-> PresenceTtl,
     state |-> IF overdue THEN "presence_threshold_exceeded"
               ELSE "presence_within_threshold"]

Catalogue == HookEvidence \cup LinuxEvidence \cup LimitEvidence

ASSUME DiagnosisAssumption ==
    /\ {HookTtl, LinuxTtl, LimitTtl, PresenceTtl} \subseteq Nat \ {0}
    /\ Sightings \subseteq Catalogue \X (Sessions \cup {None})
    /\ {Overdue, ListLimit, MaxMoment, MaxEvidence, MaxDiagnoses} \subseteq Nat

\* A row of diagnostic_evidence: what was seen, by which session, and when.
Row(what, session, at) == [what |-> what, session |-> session, at |-> at]
Rows == [what : Catalogue \cup {Presence(TRUE), Presence(FALSE)},
         session : Sessions \cup {None}, at : 0..MaxMoment]

Expires(r) == r.at + r.what.ttl

-----------------------------------------------------------------------------
(* select_current_evidence and assess_diagnosis.                              *)

SessionsOf(records) == {r.session : r \in records} \ {None}

Eligible(records, session) == {r \in records : r.session \in {None, session}}

\* Faulty variant: an older observation counts beside a newer one.
EverythingEligible(records, session) == Eligible(records, session)

\* The newest observations per source and kind.
Current(records, session) ==
    {r \in Eligible(records, session) :
       \A q \in Eligible(records, session) :
          q.what.source = r.what.source /\ q.what.kind = r.what.kind => q.at <= r.at}

InStates(records, states) == {r \in records : r.what.state \in states}
OfKind(records, kind, states) == {r \in InStates(records, states) : r.what.kind = kind}

\* "checks": what supports each diagnosis, in the order they are looked at. No
\* collector records the states of the second, third and fourth.
Supporting(records) ==
    << OfKind(records, "account_limit", UsageLimitStates),
       InStates(records, {"approval_required", "awaiting_approval", "waiting_for_approval"}),
       InStates(records, {"awaiting_user", "question_pending", "waiting_for_user"}),
       InStates(records, {"context_length_exceeded", "context_window_exceeded",
                          "max_context_reached"}),
       OfKind(records, "process_state", {"zombie"}),
       OfKind(records, "process_state", {"dead", "missing"})
          \cup OfKind(records, "thread_status", {"session_ended"}),
       OfKind(records, "power_state", {"resume_detected"}),
       OfKind(records, "service_state", {"failed", "not_found"}),
       OfKind(records, "process_state", {"identity_mismatch", "replaced", "unreadable"})
          \cup OfKind(records, "service_state", {"deactivating", "inactive"}),
       OfKind(records, "service_state", {"unknown"}),
       OfKind(records, "network_state", {"default_route_link_down", "no_usable_link"}),
       OfKind(records, "network_state", {"link_up_no_default_route"}),
       InStates(records, {"started", "subagent_started", "tool_started"}),
       InStates(records, {"completed", "prompt_submitted", "session_started",
                          "subagent_stopped", "tool_completed"}) >>

Verdicts ==
    << [cause |-> "usage_limit_exceeded",    confidence |-> "high"],
       [cause |-> "waiting_for_approval",    confidence |-> "high"],
       [cause |-> "waiting_for_user",        confidence |-> "high"],
       [cause |-> "context_window_exceeded", confidence |-> "high"],
       [cause |-> "codex_crashed",           confidence |-> "high"],
       [cause |-> "codex_closed",            confidence |-> "medium"],
       [cause |-> "system_suspended",        confidence |-> "medium"],
       [cause |-> "observer_unhealthy",      confidence |-> "high"],
       [cause |-> "observer_unhealthy",      confidence |-> "medium"],
       [cause |-> "observer_unhealthy",      confidence |-> "low"],
       [cause |-> "network_unavailable",     confidence |-> "medium"],
       [cause |-> "network_unavailable",     confidence |-> "low"],
       [cause |-> "long_running_operation",  confidence |-> "medium"],
       [cause |-> "working",                 confidence |-> "high"] >>

Working     == [cause |-> "working", confidence |-> "high"]
Unexplained == [cause |-> "unexplained_inactivity", confidence |-> "low"]

Thresholds(records) == InStates(records, {"presence_threshold_exceeded"})

\* The first diagnosis with support and the evidence cited for it.
Assess(records, overdue) ==
    LET supported == {i \in DOMAIN Verdicts : Supporting(records)[i] # {}} IN
    IF ~overdue
    THEN [verdict |-> Working,
          cited |-> InStates(records, {"presence_within_threshold"})]
    ELSE IF supported = {}
    THEN [verdict |-> Unexplained,
          cited |-> IF Thresholds(records) # {} THEN Thresholds(records) ELSE records]
    ELSE LET first == CHOOSE i \in supported : \A j \in supported : i <= j IN
         [verdict |-> Verdicts[first],
          cited |-> Supporting(records)[first] \cup Thresholds(records)]

-----------------------------------------------------------------------------
Inspections  == [phase : {"idle", "list", "assess"}, at : 0..MaxMoment, overdue : BOOLEAN,
                 session : Sessions \cup {None}, listed : SUBSET Rows]
NoInspection == [phase |-> "idle", at |-> 0, overdue |-> FALSE, session |-> None,
                 listed |-> {}]
NoDiagnosis  == [verdict |-> Working, session |-> None, at |-> 0, until |-> 0,
                 cited |-> {}, listed |-> {}]

DiagnosisInit ==
    /\ moment = 0 /\ signalled = 0 /\ evidence = {}
    /\ inspection = NoInspection /\ diagnosis = NoDiagnosis
    /\ recovered = NoDiagnosis /\ diagnoses = 0

TimeGoesOn ==
    /\ moment < MaxMoment
    /\ moment' = moment + 1
    /\ UNCHANGED <<signalled, evidence, inspection, diagnosis, recovered, diagnoses>>

WorkerSignals ==
    /\ signalled' = moment
    /\ UNCHANGED <<moment, evidence, inspection, diagnosis, recovered, diagnoses>>

\* record_evidence: a row with the time of the observation.
Record(sighting, at) ==
    /\ Cardinality(evidence) < MaxEvidence
    /\ evidence' = evidence \cup {Row(sighting[1], sighting[2], at)}
    /\ UNCHANGED <<moment, signalled, inspection, diagnosis, recovered, diagnoses>>

Lately == {moment, moment - 1} \cap Nat

\* A hook takes the time of the activity that it has stored by then.
RecordHook ==
    \E s \in Sightings, at \in Lately : s[1] \in HookEvidence /\ Record(s, at)

\* observe-codex-limits, and the observer of the prompt rules: the limits are
\* read, the worker is looked at once more, and then they are recorded.
RecordLimits ==
    \E s \in Sightings, at \in Lately : s[1] \in LimitEvidence /\ Record(s, at)

\* observe-linux-state gives all its samples the time at which it records them.
RecordLinux == \E s \in Sightings : s[1] \in LinuxEvidence /\ Record(s, moment)

\* diagnose_worker fixes its time, reads the worker and its severity.
ReadWorker(session) ==
    /\ inspection.phase = "idle" /\ diagnoses < MaxDiagnoses
    /\ inspection' = [phase |-> "list", at |-> moment, session |-> session,
                      overdue |-> moment - signalled >= Overdue, listed |-> {}]
    /\ diagnoses' = diagnoses + 1
    /\ UNCHANGED <<moment, signalled, evidence, diagnosis, recovered>>

\* list_evidence: the newest of what had not expired when the command began.
ListEvidence ==
    /\ inspection.phase = "list"
    /\ LET valid == {r \in evidence : Expires(r) > inspection.at} IN
       \E listed \in SUBSET valid :
          /\ Cardinality(listed) = IF Cardinality(valid) < ListLimit
                                   THEN Cardinality(valid) ELSE ListLimit
          /\ \A r \in listed, q \in valid \ listed : q.at <= r.at
          /\ inspection' = [inspection EXCEPT !.phase = "assess", !.listed = listed]
    /\ UNCHANGED <<moment, signalled, evidence, diagnosis, recovered, diagnoses>>

\* The session the evidence is taken of: the one asked for or the only one.
Selected == IF inspection.session # None THEN {inspection.session}
            ELSE SessionsOf(inspection.listed)

\* The one session of a set, or none.
The(sessions) == IF sessions = {} THEN None ELSE CHOOSE s \in sessions : TRUE

\* _valid_until.
ValidUntil(cited) == CHOOSE t \in {Expires(r) : r \in cited} :
                        \A r \in cited : t <= Expires(r)

\* Faulty variant: the diagnosis holds as long as some of its evidence.
ValidWhileAny(cited) == CHOOSE t \in {Expires(r) : r \in cited} :
                           \A r \in cited : t >= Expires(r)

\* _valid_until, as record_diagnosis stores it.
Until(cited) == ValidUntil(cited)

\* Evidence of two sessions is an error; otherwise the presence of the worker
\* is recorded and the diagnosis of what is current.
RecordDiagnosis ==
    /\ inspection.phase = "assess"
    /\ inspection' = NoInspection
    /\ IF Cardinality(Selected) > 1
       THEN UNCHANGED <<evidence, diagnosis>>
       ELSE LET current  == Current(inspection.listed, The(Selected))
                session  == IF inspection.session # None THEN inspection.session
                            ELSE The(SessionsOf(current))
                presence == Row(Presence(inspection.overdue), session, inspection.at)
                found    == Assess(Current(current \cup {presence}, session),
                                   inspection.overdue) IN
            /\ evidence' = evidence \cup {presence}
            /\ diagnosis' = [verdict |-> found.verdict, session |-> session,
                             at |-> inspection.at, until |-> Until(found.cited),
                             cited |-> found.cited, listed |-> inspection.listed]
    /\ UNCHANGED <<moment, signalled, recovered, diagnoses>>

\* _validate_eligibility.
Recoverable(d) ==
    /\ \/ d.verdict.cause = "codex_closed" /\ d.verdict.confidence \in {"medium", "high"}
       \/ d.verdict.cause = "codex_crashed" /\ d.verdict.confidence = "high"
    /\ d.until >= moment /\ d.session # None

\* recover_diagnostic_incident goes on to the ledger of module Incidents.
AllowRecovery ==
    /\ Recoverable(diagnosis)
    /\ recovered' = diagnosis
    /\ UNCHANGED <<moment, signalled, evidence, inspection, diagnosis, diagnoses>>

DiagnosisNext ==
    \/ TimeGoesOn \/ WorkerSignals
    \/ RecordHook \/ RecordLimits \/ RecordLinux
    \/ \E s \in Sessions \cup {None} : ReadWorker(s)
    \/ ListEvidence \/ RecordDiagnosis \/ AllowRecovery

DiagnosisSpec == DiagnosisInit /\ [][DiagnosisNext]_diagnosisVars

-----------------------------------------------------------------------------
DiagnosisTypeOK ==
    /\ moment \in 0..MaxMoment /\ signalled \in 0..MaxMoment /\ evidence \subseteq Rows
    /\ inspection \in Inspections
    /\ diagnosis.verdict \in
          {Working, Unexplained} \cup {Verdicts[i] : i \in DOMAIN Verdicts}
    /\ diagnosis.session \in Sessions \cup {None} /\ diagnosis.until \in Nat
    /\ diagnosis.cited \subseteq Rows /\ diagnosis.listed \subseteq Rows
    /\ diagnoses \in 0..MaxDiagnoses

\* A diagnosis rests on observations of one session, those its command had
\* listed, and never on one that a newer observation of the same thing replaces.
RestsOnCurrentEvidence ==
    \A r \in diagnosis.cited :
       /\ r.session \in {None, diagnosis.session}
       /\ \A q \in Eligible(diagnosis.listed, diagnosis.session) :
             q.what.source = r.what.source /\ q.what.kind = r.what.kind => q.at <= r.at

\* A recovery passes its check only on an observation that Codex ended, while all
\* that its diagnosis cites is valid, and not when a usage limit was known to be the
\* cause. The time is that of the check: the prompt is sent later, unchecked.
RecoveryIsJustified ==
    [][ recovered' # recovered =>
          /\ \E r \in recovered'.cited :
                r.what.state \in {"zombie", "dead", "missing", "session_ended"}
          /\ \A r \in recovered'.cited : Expires(r) >= moment
          /\ OfKind(Current(recovered'.listed, recovered'.session),
                    "account_limit", UsageLimitStates) = {} ]_diagnosisVars
=============================================================================
