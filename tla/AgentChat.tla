------------------------------ MODULE AgentChat ------------------------------
(* The agent chat of one exact session: the tray sends human messages and     *)
(* mirrors them to Discord (send_human_message), commands publish the agent's *)
(* (publish_agent_message), the tray's refresh projects the session's remote  *)
(* question into the same table (project_remote_questions), and the session's *)
(* hooks confirm what was dispatched (confirm_deliveries). The tray is one    *)
(* thread: it sends or projects. Every statement is a session of its own, and *)
(* the tray and the commands may die between two of them.                     *)
EXTENDS Integers

CONSTANTS Chats,       \* the messages of the chat itself
          Window,      \* timeout_seconds of confirm_deliveries
          MaxTime,     \* bound on the clock
          MaxDeaths    \* bound on deaths of the tray and of commands

VARIABLES message,    \* agent_messages: a row per message and per projection
          question,   \* status of the session's row of remote_questions
          answered,   \* answered_at of that row
          role,       \* role[m]: sent by the tray, published by a command
          call,       \* call[m]: where that call is
          view,       \* the tray's refresh
          hook,       \* observed_at of the hook in progress, or Never
          time,
          launched,   \* when a codex queue was launched for m (history)
          witness,    \* observed_at of the hook that confirmed m (history)
          posts,      \* times Discord accepted m (history)
          deaths

chatVars == <<message, question, answered, role, call, view, hook, time, launched,
              witness, posts, deaths>>

Projected == {"question", "answer"}
Never     == -1

\* The tray's two projections are rows of their own.
ASSUME ChatAssumption ==
    /\ Chats \cap Projected = {}
    /\ Window \in Nat /\ MaxTime \in Nat /\ MaxDeaths \in Nat

States == {"none", "queued", "dispatch_started", "input_emitted",
           "delivery_confirmed", "received", "published", "failed", "expired"}

ChatRow == [state : States,
            discord : {"NULL", "pending", "published", "received", "uncertain",
                       "failed"},
            at : 0..MaxTime]
Absent == [state |-> "none", discord |-> "NULL", at |-> 0]

\* The states confirm_deliveries looks for. updated_at moves with every write of
\* a row and is kept only where it is compared, in these states.
Dispatched == {"dispatch_started", "input_emitted"}

\* Faulty variant: each of the two states is written to the other's column.
SwapsStates(state, discord, at) ==
    [state |-> discord, discord |-> state,
     at |-> IF state \in Dispatched THEN at ELSE 0]

WrittenAt(state, discord, at) ==
    [state |-> state, discord |-> discord,
     at |-> IF state \in Dispatched THEN at ELSE 0]

Written(state, discord) == WrittenAt(state, discord, time)

Questions == {"none", "pending", "publish_failed", "expired", "answered",
              "dispatch_failed", "input_emitted", "delivery_confirmed"}
Answered  == {"answered", "dispatch_failed", "input_emitted", "delivery_confirmed"}

Calls == {"new", "appended", "refused", "launched", "mirroring", "pending", "done"}

\* The refresh: the status it listed, the projection it is at and the row that
\* append_message returned.
View == [phase : {"closed", "idle", "append", "state", "discord"},
         of : Projected, listed : Questions, copy : ChatRow]

Idle == [phase |-> "idle", of |-> "question", listed |-> "none", copy |-> Absent]

ChatInit ==
    /\ message = [m \in Chats \cup Projected |-> Absent]
    /\ question = "none" /\ answered = 0
    /\ role = [m \in Chats |-> "none"] /\ call = [m \in Chats |-> "new"]
    /\ view = [Idle EXCEPT !.phase = "closed"]
    /\ hook = Never /\ time = 0
    /\ launched = [m \in Chats |-> Never] /\ witness = [m \in Chats |-> Never]
    /\ posts = [m \in Chats |-> 0] /\ deaths = 0

chatHistory == <<launched, witness, posts>>

\* The tray's one thread has nothing else to do.
TrayIsFree == view.phase = "idle" /\ \A m \in Chats : role[m] = "human" => call[m] = "done"

-----------------------------------------------------------------------------
(* send_human_message and publish_agent_message.                              *)

\* append_agent_message, with the row queued.
SendMessage(m) ==
    /\ call[m] = "new" /\ TrayIsFree
    /\ role' = [role EXCEPT ![m] = "human"]
    /\ call' = [call EXCEPT ![m] = "appended"]
    /\ message' = [message EXCEPT ![m] = Written("queued", "NULL")]
    /\ UNCHANGED <<question, answered, view, hook, time, chatHistory, deaths>>

\* An agent's message has nothing to dispatch.
PublishMessage(m) ==
    /\ call[m] = "new"
    /\ role' = [role EXCEPT ![m] = "agent"]
    /\ call' = [call EXCEPT ![m] = "mirroring"]
    /\ message' = [message EXCEPT ![m] = Written("published", "NULL")]
    /\ UNCHANGED <<question, answered, view, hook, time, chatHistory, deaths>>

\* send_native_message, detached: a refused destination or an executable that
\* does not start is a CodexInputError; whether the command that was launched
\* delivers the message is not known to the caller.
LaunchQueue(m) ==
    /\ call[m] = "appended"
    /\ \/ /\ call' = [call EXCEPT ![m] = "launched"]
          /\ launched' = [launched EXCEPT ![m] = time]
       \/ /\ call' = [call EXCEPT ![m] = "refused"]
          /\ launched' = launched
    /\ UNCHANGED <<message, question, answered, role, view, hook, time, witness, posts, deaths>>

\* Faulty variant: the failed transport is recorded and the mirror still runs.
RecordsAndGoesOn(m) ==
    /\ call[m] \in {"launched", "refused"}
    /\ message' = [message EXCEPT ![m] = Written(
          IF call[m] = "launched" THEN "dispatch_started" ELSE "failed", @.discord)]
    /\ call' = [call EXCEPT ![m] = "mirroring"]
    /\ UNCHANGED <<question, answered, role, view, hook, time, chatHistory, deaths>>

\* update_agent_message_state, whatever the row says by then. A failed transport
\* ends the call; the mirror is only there when remote questions are enabled.
RecordDispatch(m) ==
    /\ call[m] \in {"launched", "refused"}
    /\ message' = [message EXCEPT ![m] = Written(
          IF call[m] = "launched" THEN "dispatch_started" ELSE "failed", @.discord)]
    /\ call' = [call EXCEPT ![m] = IF call[m] = "launched" THEN "mirroring" ELSE "done"]
    /\ UNCHANGED <<question, answered, role, view, hook, time, chatHistory, deaths>>

\* _mirror_to_discord: pending first. The update moves updated_at as well.
MirrorPending(m) ==
    /\ call[m] = "mirroring"
    /\ \/ /\ message' = [message EXCEPT ![m] = Written(@.state, "pending")]
          /\ call' = [call EXCEPT ![m] = "pending"]
       \/ /\ call' = [call EXCEPT ![m] = "done"]       \* mirror not configured
          /\ message' = message
    /\ UNCHANGED <<question, answered, role, view, hook, time, chatHistory, deaths>>

\* post_chat_message and the state its outcome is recorded as. A timeout or a
\* server error is uncertain; a refusal, and an answer that does not name the
\* message or the channel of one that was posted, is failed.
Mirror(m) ==
    /\ call[m] = "pending"
    /\ \E accepted \in {0, 1}, outcome \in {"published", "uncertain", "failed"} :
          /\ outcome = "published" => accepted = 1
          /\ posts' = [posts EXCEPT ![m] = @ + accepted]
          /\ message' = [message EXCEPT ![m] = Written(@.state, outcome)]
    /\ call' = [call EXCEPT ![m] = "done"]
    /\ UNCHANGED <<question, answered, role, view, hook, time, launched, witness, deaths>>

-----------------------------------------------------------------------------
(* The tray's refresh, every two seconds while the window is open.            *)

OpenTray ==
    /\ view.phase = "closed"
    /\ view' = Idle
    /\ UNCHANGED <<message, question, answered, role, call, hook, time, chatHistory, deaths>>

\* list_questions: the status is read here and written several sessions later.
ListQuestions ==
    /\ TrayIsFree /\ question # "none"
    /\ view' = [phase |-> "append", of |-> "question", listed |-> question, copy |-> Absent]
    /\ UNCHANGED <<message, question, answered, role, call, hook, time, chatHistory, deaths>>

\* question_state and answer_state.
StateOf(kind, status) ==
    IF kind = "question"
    THEN CASE status \in {"publish_failed", "dispatch_failed"} -> "failed"
           [] status = "expired" -> "expired"
           [] OTHER -> "published"
    ELSE CASE status = "dispatch_failed" -> "failed"
           [] status \in {"input_emitted", "delivery_confirmed"} -> status
           [] OTHER -> "received"

\* append_message: the row is inserted with the time of the answer, or the one
\* that its correlation already has is returned.
AppendProjection ==
    /\ view.phase = "append"
    /\ LET row == IF message[view.of].state # "none" THEN message[view.of]
                  ELSE WrittenAt(StateOf(view.of, view.listed), "NULL", answered) IN
       /\ message' = [message EXCEPT ![view.of] = row]
       /\ view' = [view EXCEPT !.phase = "state", !.copy = row]
    /\ UNCHANGED <<question, answered, role, call, hook, time, chatHistory, deaths>>

\* Faulty variant: a row that exists keeps the state it was inserted with.
KeepsProjectedState ==
    /\ view.phase = "state"
    /\ message' = message
    /\ view' = [view EXCEPT !.phase = "discord"]
    /\ UNCHANGED <<question, answered, role, call, hook, time, chatHistory, deaths>>

UpdateProjectedState ==
    /\ view.phase = "state"
    /\ LET state == StateOf(view.of, view.listed) IN
       message' = IF view.copy.state = state THEN message
                  ELSE [message EXCEPT ![view.of] = Written(state, @.discord)]
    /\ view' = [view EXCEPT !.phase = "discord"]
    /\ UNCHANGED <<question, answered, role, call, hook, time, chatHistory, deaths>>

\* The Discord state is written once, and updated_at goes back to the time of
\* the answer. The question is followed by its answer, if it has one.
UpdateProjectedDiscord ==
    /\ view.phase = "discord"
    /\ message' = IF view.copy.discord # "NULL" THEN message
                  ELSE [message EXCEPT ![view.of] = WrittenAt(@.state,
                          IF view.of = "answer" THEN "received"
                          ELSE IF StateOf(view.of, view.listed) = "failed"
                               THEN "failed" ELSE "published", answered)]
    /\ view' = IF view.of = "question" /\ view.listed \in Answered
               THEN [view EXCEPT !.phase = "append", !.of = "answer", !.copy = Absent]
               ELSE Idle
    /\ UNCHANGED <<question, answered, role, call, hook, time, chatHistory, deaths>>

-----------------------------------------------------------------------------
(* The others.                                                                *)

\* RemoteQuestions has the order in which a question's status changes. An answer
\* is given the time at which the observer began its pass.
After(status) ==
    CASE status = "none"     -> {"pending"}
      [] status = "pending"  -> {"publish_failed", "expired", "answered"}
      [] status = "answered" -> {"dispatch_failed", "input_emitted"}
      [] status = "dispatch_failed" -> {"dispatch_failed", "input_emitted"}
      [] OTHER -> {}

QuestionGoesOn ==
    /\ question' \in After(question)
    /\ answered' \in IF question' = "answered" THEN 0..time ELSE {answered}
    /\ UNCHANGED <<message, role, call, view, hook, time, chatHistory, deaths>>

HookStarts ==
    /\ hook = Never
    /\ hook' = time
    /\ UNCHANGED <<message, question, answered, role, call, view, time, chatHistory, deaths>>

\* Faulty variant: updated_at has no upper bound.
AnyRecentRow(row) ==
    /\ row.state \in Dispatched
    /\ row.at >= hook - Window

\* Faulty variant: a message that is still queued is confirmed as well.
QueuedToo(row) ==
    /\ row.state \in Dispatched \cup {"queued"}
    /\ row.at <= hook /\ row.at >= hook - Window

\* The rows that confirm_deliveries selects.
Confirmable(row) ==
    /\ row.state \in Dispatched
    /\ row.at <= hook /\ row.at >= hook - Window

\* confirm_deliveries, in one transaction. Whether the question is confirmed
\* depends on its own window over input_emitted_at.
HookConfirms ==
    /\ hook # Never
    /\ message' = [m \in DOMAIN message |->
          IF Confirmable(message[m])
          THEN Written("delivery_confirmed", message[m].discord)
          ELSE message[m]]
    /\ witness' = [m \in Chats |-> IF Confirmable(message[m]) THEN hook ELSE witness[m]]
    /\ question' \in {question} \cup
          (IF question = "input_emitted" THEN {"delivery_confirmed"} ELSE {})
    /\ hook' = Never
    /\ UNCHANGED <<answered, role, call, view, time, launched, posts, deaths>>

ClockTicks ==
    /\ time < MaxTime
    /\ time' = time + 1
    /\ UNCHANGED <<message, question, answered, role, call, view, hook, chatHistory, deaths>>

\* The tray dies with the call or the refresh it was in.
ViewDies ==
    /\ view.phase # "closed" /\ deaths < MaxDeaths
    /\ view' = [Idle EXCEPT !.phase = "closed"]
    /\ call' = [m \in Chats |-> IF role[m] = "human" THEN "done" ELSE call[m]]
    /\ deaths' = deaths + 1
    /\ UNCHANGED <<message, question, answered, role, hook, time, chatHistory>>

CommandDies(m) ==
    /\ role[m] = "agent" /\ call[m] # "done" /\ deaths < MaxDeaths
    /\ call' = [call EXCEPT ![m] = "done"]
    /\ deaths' = deaths + 1
    /\ UNCHANGED <<message, question, answered, role, view, hook, time, chatHistory>>

MessageStep(m) == LaunchQueue(m) \/ RecordDispatch(m) \/ MirrorPending(m) \/ Mirror(m)

RefreshStep == \/ OpenTray \/ ListQuestions
               \/ AppendProjection \/ UpdateProjectedState \/ UpdateProjectedDiscord

ChatNext ==
    \/ RefreshStep \/ ViewDies
    \/ \E m \in Chats : \/ SendMessage(m) \/ PublishMessage(m)
                        \/ MessageStep(m) \/ CommandDies(m)
    \/ QuestionGoesOn \/ HookStarts \/ HookConfirms \/ ClockTicks

\* The one thread of the tray, on which the timer and the calls run.
TrayThread == RefreshStep \/ \E m \in Chats : role[m] = "human" /\ MessageStep(m)

\* The tray is opened again, and its thread goes on.
ChatFairness == WF_chatVars(TrayThread)

ChatSpec == ChatInit /\ [][ChatNext]_chatVars /\ ChatFairness

-----------------------------------------------------------------------------
ChatTypeOK ==
    /\ message \in [Chats \cup Projected -> ChatRow] /\ question \in Questions
    /\ answered \in 0..MaxTime
    /\ role \in [Chats -> {"none", "human", "agent"}]
    /\ call \in [Chats -> Calls] /\ view \in View
    /\ hook \in {Never} \cup 0..MaxTime /\ time \in 0..MaxTime
    /\ launched \in [Chats -> {Never} \cup 0..MaxTime]
    /\ witness \in [Chats -> {Never} \cup 0..MaxTime]
    /\ posts \in [Chats -> {0, 1}] /\ deaths \in 0..MaxDeaths

\* A message is shown as confirmed only after a hook that observed the session
\* no earlier than its dispatch, whatever moved its updated_at in between.
ConfirmedAfterDispatch ==
    \A m \in Chats : message[m].state = "delivery_confirmed" =>
       launched[m] # Never /\ witness[m] >= launched[m]

\* A confirmation is not taken back by the call that sent the message, though
\* that call writes the state and the mirror without looking at the row.
ConfirmationStands ==
    [][ \A m \in Chats : message[m].state = "delivery_confirmed" =>
          message'[m].state = "delivery_confirmed" ]_chatVars

\* A message that the user was told was not sent is nowhere: no codex queue was
\* launched for it and Discord does not show it.
NotSentIsNowhere ==
    \A m \in Chats : message[m].state = "failed" => launched[m] = Never /\ posts[m] = 0

\* Once the delivery of an answer is confirmed the chat comes to say so, though
\* the refresh writes states that it read several sessions earlier.
AnswerIsShownConfirmed ==
    question = "delivery_confirmed" ~> message["answer"].state = "delivery_confirmed"
=============================================================================
