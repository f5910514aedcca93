--------------------------- MODULE DesktopNotices ---------------------------
(* The tray's desktop notifications: DesktopNotificationObserver and the part *)
(* of tray.py that polls it, shows its notices and switches it on and off.    *)
(* Events, alerts and questions are recorded by other processes. The tray     *)
(* keeps a cursor per table and the last status told per question in          *)
(* observer_state; every read and every write is a session of its own, any    *)
(* of them may fail, and the tray may be closed or die at any point. A cursor *)
(* is saved in the step that lists the rows: nothing can be between the two   *)
(* but the death of the tray, after which nothing was listed either.          *)
EXTENDS Integers, Sequences, FiniteSets

CONSTANTS MaxTableRows,  \* MaxTableRows[s]: bound on the rows of table s
          PollLimit,     \* "limit" of poll()
          MaxFailures,   \* bound on failing sessions and deaths of the tray
          MaxToggles     \* bound on uses of the menu's checkbox

VARIABLES rows,          \* rows[s]: the table's rows
          stage,         \* the question's status
          cursor,        \* cursor[s] in observer_state, or Unset
          told,          \* the status in observer_state for the question
          initialized,   \* questions_initialized_at is set
          later,         \* the question was created after that time
          setting,       \* desktop_notifications_enabled in control.json
          tray,          \* what the tray process knows
          announced,     \* notices shown, or counted in a summary (history)
          dropped,       \* notices collected and never shown (history)
          interrupted,   \* the last use of the checkbox was not completed:
                         \* saved, and nothing or not all acknowledged (history)
          failures, toggles

noticeVars == <<rows, stage, cursor, told, initialized, later, setting, tray,
                announced, dropped, interrupted, failures, toggles>>

Tables == {"events", "alerts"}
Unset  == -1

ASSUME NoticesAssumption ==
    /\ MaxTableRows \in [Tables -> Nat] /\ PollLimit \in Nat
    /\ MaxFailures \in Nat /\ MaxToggles \in Nat

Ids    == UNION {1..MaxTableRows[s] : s \in Tables}

\* A row with a notice: an alert, or an event that is a start, a finish or a
\* Stop hook. "on" remembers whether the notifications were switched on when the
\* row was recorded, in the settings or in the tray that runs (history).
TableRow == [noted : BOOLEAN, on : BOOLEAN]

\* The statuses of a question that have a notice, in their order; what
\* follows "answered" (failed, emitted, confirmed) is noticed in the same way.
Stages == {"none", "pending", "answered"}
Follows(st) == CASE st = "none"    -> {"pending"}
                 [] st = "pending" -> {"answered"}
                 [] OTHER          -> {}

Notices == {<<s, i>> : s \in Tables, i \in Ids} \cup ({"question"} \X Stages)

Tray == [phase : {"closed", "idle", "events", "alerts", "question", "show",
                  "ack events", "ack alerts", "ack question"},
         checked : BOOLEAN,              \* the checkbox
         latest : {Unset, 0} \cup Ids,   \* MAX(id), read and not yet written
         batch : SUBSET Notices]

NoticesInit ==
    /\ rows = [s \in Tables |-> <<>>] /\ stage = "none"
    /\ cursor = [s \in Tables |-> Unset] /\ told = "none"
    /\ initialized = FALSE /\ later = FALSE /\ setting = FALSE
    /\ tray = [phase |-> "closed", checked |-> FALSE, latest |-> Unset, batch |-> {}]
    /\ announced = {} /\ dropped = {} /\ interrupted = FALSE
    /\ failures = 0 /\ toggles = 0

history == <<announced, dropped, interrupted>>
database == <<cursor, told, initialized, later>>

-----------------------------------------------------------------------------
(* Other processes record.                                                    *)

RecordRow(s, noted) ==
    /\ Len(rows[s]) < MaxTableRows[s]
    /\ s = "alerts" => noted
    /\ rows' = [rows EXCEPT ![s] = Append(@, [noted |-> noted,
                                             on |-> setting \/ tray.checked])]
    /\ UNCHANGED <<stage, database, setting, tray, history, failures, toggles>>

QuestionMoves ==
    /\ stage' \in Follows(stage)
    /\ later' = IF stage = "none" THEN initialized ELSE later
    /\ UNCHANGED <<rows, cursor, told, initialized, setting, tray, history,
                   failures, toggles>>

-----------------------------------------------------------------------------
(* One cycle of the tray's timer: check_desktop_events.                       *)

\* The phase that acknowledges what the phase p polls.
Ack(p) == CASE p = "events" -> "ack events"
            [] p = "alerts" -> "ack alerts"
            [] OTHER        -> "ack question"

Go(p) == tray' = [tray EXCEPT !.phase = p, !.latest = Unset]

StartTray ==
    /\ tray.phase = "closed"
    /\ tray' = [tray EXCEPT !.phase = "idle", !.checked = setting]
    /\ UNCHANGED <<rows, stage, database, setting, history, failures, toggles>>

StartPoll ==
    /\ tray.phase = "idle" /\ tray.checked
    /\ Go("events")
    /\ UNCHANGED <<rows, stage, database, setting, history, failures, toggles>>

\* latest_event_id and latest_alert_id, read in a session of its own.
ReadLatest(s) ==
    /\ \/ tray.phase = s /\ cursor[s] = Unset
       \/ tray.phase = Ack(s)
    /\ tray.latest = Unset
    /\ tray' = [tray EXCEPT !.latest = Len(rows[s])]
    /\ UNCHANGED <<rows, stage, database, setting, history, failures, toggles>>

NextPhase(s) == IF s = "events" THEN "alerts" ELSE "question"

\* The first poll only anchors the cursor; so does an acknowledgement.
WriteLatest(s) ==
    /\ tray.phase \in {s, Ack(s)} /\ tray.latest # Unset
    /\ cursor' = [cursor EXCEPT ![s] = tray.latest]
    /\ Go(IF tray.phase = s THEN NextPhase(s) ELSE Ack(NextPhase(s)))
    /\ UNCHANGED <<rows, stage, told, initialized, later, setting, history,
                   failures, toggles>>

Least(a, b) == IF a <= b THEN a ELSE b

\* Faulty variant: "id >= ?" instead of "id > ?".
ListsFromCursor(s) == {i \in cursor[s] .. Least(cursor[s] + PollLimit, Len(rows[s])) : i > 0}

\* list_events_after and list_alerts_after: the next PollLimit ids.
Listed(s) == (cursor[s] + 1) .. Least(cursor[s] + PollLimit, Len(rows[s]))

\* Faulty variant: the cursor is moved to the newest row of the table.
SavesLatest(s) == Len(rows[s])

\* The id of the last row listed.
NewCursor(s) == IF Listed(s) = {} THEN cursor[s]
                ELSE CHOOSE i \in Listed(s) : \A j \in Listed(s) : j <= i

PollTable(s) ==
    /\ tray.phase = s /\ cursor[s] # Unset /\ tray.latest = Unset
    /\ cursor' = [cursor EXCEPT ![s] = NewCursor(s)]
    /\ tray' = [tray EXCEPT !.phase = NextPhase(s),
                  !.batch = @ \cup {<<s, i>> : i \in {i \in Listed(s) : rows[s][i].noted}}]
    /\ UNCHANGED <<rows, stage, told, initialized, later, setting, history,
                   failures, toggles>>

\* A question met for the first time has a notice when it is pending, or when
\* it was created after the observer was initialized.
HasNotice == told = "none" /\ stage # "pending" => later

PollQuestion ==
    /\ tray.phase = "question"
    /\ initialized' = TRUE
    /\ told' = stage
    /\ tray' = [tray EXCEPT !.phase = "show",
                  !.batch = IF stage # told /\ HasNotice
                            THEN @ \cup {<<"question", stage>>} ELSE @]
    /\ UNCHANGED <<rows, stage, cursor, later, setting, history, failures, toggles>>

\* The first five notices are shown, one more counts the others.
Show ==
    /\ tray.phase = "show"
    /\ announced' = announced \cup tray.batch
    /\ tray' = [tray EXCEPT !.phase = "idle", !.batch = {}]
    /\ UNCHANGED <<rows, stage, database, setting, dropped, interrupted, failures, toggles>>

-----------------------------------------------------------------------------
(* The checkbox: toggle_notifications.                                        *)

\* Faulty variant: the setting changes and nothing is acknowledged.
TogglesOnly ==
    /\ tray.phase = "idle" /\ toggles < MaxToggles
    /\ toggles' = toggles + 1
    /\ setting' = ~tray.checked
    /\ tray' = [tray EXCEPT !.checked = ~@]
    /\ UNCHANGED <<rows, stage, database, history, failures>>

Toggle ==
    /\ tray.phase = "idle" /\ toggles < MaxToggles
    /\ toggles' = toggles + 1
    /\ setting' = ~tray.checked
    /\ tray' = [tray EXCEPT !.phase = "ack events", !.checked = ~@]
    /\ interrupted' = FALSE
    /\ UNCHANGED <<rows, stage, database, announced, dropped, failures>>

AcknowledgeQuestion ==
    /\ tray.phase = "ack question"
    /\ initialized' = TRUE /\ later' = FALSE
    /\ told' = stage
    /\ Go("idle")
    /\ UNCHANGED <<rows, stage, cursor, setting, history, failures, toggles>>

Acknowledging == tray.phase \in {"ack events", "ack alerts", "ack question"}

\* A session fails. A poll is given up with the notices it had collected; an
\* acknowledgement is given up and the box is set back, but not the setting.
SessionFails ==
    /\ tray.phase \notin {"closed", "idle", "show"} /\ failures < MaxFailures
    /\ failures' = failures + 1
    /\ dropped' = dropped \cup tray.batch
    /\ interrupted' = (interrupted \/ Acknowledging)
    /\ tray' = [tray EXCEPT !.phase = "idle", !.latest = Unset, !.batch = {},
                  !.checked = IF Acknowledging THEN ~@ ELSE @]
    /\ UNCHANGED <<rows, stage, database, setting, announced, toggles>>

TrayDies ==
    /\ tray.phase # "closed" /\ failures < MaxFailures
    /\ failures' = failures + 1
    /\ dropped' = dropped \cup tray.batch
    /\ interrupted' = (interrupted \/ Acknowledging)
    /\ tray' = [phase |-> "closed", checked |-> FALSE, latest |-> Unset, batch |-> {}]
    /\ UNCHANGED <<rows, stage, database, setting, announced, toggles>>

TrayCycle ==
    \/ StartPoll \/ PollQuestion \/ Show \/ AcknowledgeQuestion
    \/ \E s \in Tables : ReadLatest(s) \/ WriteLatest(s) \/ PollTable(s)

NoticesNext ==
    \/ \E s \in Tables, noted \in BOOLEAN : RecordRow(s, noted)
    \/ QuestionMoves
    \/ StartTray \/ TrayCycle \/ Toggle \/ SessionFails \/ TrayDies

\* The timer fires every second while the tray runs.
NoticesFairness == WF_noticeVars(TrayCycle)

NoticesSpec == NoticesInit /\ [][NoticesNext]_noticeVars /\ NoticesFairness

-----------------------------------------------------------------------------
NoticesTypeOK ==
    /\ rows \in [Tables -> Seq(TableRow)]
    /\ \A s \in Tables : Len(rows[s]) <= MaxTableRows[s]
    /\ stage \in Stages /\ told \in Stages
    /\ cursor \in [Tables -> {Unset, 0} \cup Ids]
    /\ {initialized, later, setting, interrupted} \subseteq BOOLEAN
    /\ tray \in Tray
    /\ announced \cup dropped \subseteq Notices
    /\ failures \in 0..MaxFailures /\ toggles \in 0..MaxToggles

\* Whatever fails and however often the tray is restarted, what was collected
\* for a notice is new: it was not announced or dropped before, and the
\* saved cursors and statuses are past it, so that it is never collected again.
NoticesAreNew ==
    /\ tray.batch \cap (announced \cup dropped) = {}
    /\ \A n \in tray.batch \cup announced \cup dropped :
          n[1] \in Tables => n[2] <= cursor[n[1]]

\* What is recorded while the notifications are switched off is not announced
\* later, whatever fails and however often the tray is restarted, as long as the
\* checkbox was used last without an interruption between the saved setting and
\* the last acknowledged row. The next complete use makes up for an interruption.
NoBacklog ==
    [][ ~interrupted =>
          \A s \in Tables : \A i \in 1..Len(rows[s]) :
             <<s, i>> \in announced' \ announced => rows[s][i].on ]_noticeVars

\* "Ao desabilitar ou reabilitar, a bandeja avanca os cursores [...]; eventos
\* produzidos durante o periodo desabilitado nao sao despejados depois" (events
\* produced during the disabled period are not dumped afterwards): with the
\* setting switched on again, the tray announces nothing of that period. The
\* document states no condition; the code does not keep it when the use of the
\* checkbox that switched it on was interrupted.
DisabledStaysSilent ==
    [][ setting =>
          \A s \in Tables : \A i \in 1..Len(rows[s]) :
             <<s, i>> \in announced' \ announced => rows[s][i].on ]_noticeVars

\* A row past the cursor of a running tray is announced, alone or counted in a
\* summary, unless the notifications are switched off, the tray stops, or the
\* poll that collected it fails. The last alert is followed, the row with most
\* rows before it; the steps that poll the two tables are the same.
RowsAreAnnounced ==
    LET i == MaxTableRows["alerts"] IN
    (/\ tray.checked /\ cursor["alerts"] # Unset /\ cursor["alerts"] < i
     /\ i <= Len(rows["alerts"]))
       ~> (<<"alerts", i>> \in announced \cup dropped \/ ~tray.checked
           \/ Acknowledging)
=============================================================================
