------------------------------ MODULE TrayProofs ------------------------------
(* Proofs about what runs in the tray: the agent chat, the desktop            *)
(* notifications and the scheduled prompt of earlier versions. Each part      *)
(* begins with its inductive invariant.                                       *)
EXTENDS AgentChat, DesktopNotices, ScheduledPrompt, SequenceTheorems, TLAPS

-----------------------------------------------------------------------------
(* AgentChat: a confirmation rests on a hook that came after the dispatch and *)
(* stands, and a message that is said not to have been sent is nowhere.       *)

\* Where the call that sends m says what its row and its history can be. The row
\* is not failed before Discord has been asked, so that a failed message was
\* neither launched nor posted.
CallAndRow(m) ==
    /\ call[m] = "new" => message[m].state = "none"
    /\ call[m] \in {"appended", "refused", "launched"} => message[m].state = "queued"
    /\ call[m] \in {"new", "appended", "refused"} => launched[m] = Never
    /\ call[m] = "launched" => launched[m] # Never
    /\ call[m] \in {"mirroring", "pending"} => message[m].state # "failed"
    /\ call[m] # "done" => posts[m] = 0
    /\ message[m].state = "failed" => launched[m] = Never /\ posts[m] = 0

\* A row that a hook may confirm was dispatched, and updated_at has only moved on
\* since; a row that was confirmed has a hook that came later.
DispatchedRow(m) ==
    /\ launched[m] <= time
    /\ message[m].state \in Dispatched =>
          launched[m] # Never /\ launched[m] <= message[m].at
    /\ message[m].state = "delivery_confirmed" =>
          launched[m] # Never /\ witness[m] >= launched[m]

\* The inductive invariant; no hook observes in the future.
ChatInv == /\ ChatTypeOK /\ hook <= time
           /\ \A m \in Chats : CallAndRow(m) /\ DispatchedRow(m)

ChatDiscords == {"NULL", "pending", "published", "received", "uncertain", "failed"}

-----------------------------------------------------------------------------
\* What the row helpers return.
LEMMA WrittenRow ==
    ASSUME NEW s \in States, NEW d \in ChatDiscords, NEW a \in 0..MaxTime
    PROVE  /\ WrittenAt(s, d, a) \in ChatRow
           /\ WrittenAt(s, d, a).state = s
           /\ WrittenAt(s, d, a).discord = d
           /\ s \in Dispatched => WrittenAt(s, d, a).at = a
<1>1. 0 \in 0..MaxTime
  BY ChatAssumption
<1> QED  BY <1>1 DEF WrittenAt, ChatRow, ChatDiscords

LEMMA ChatRowFields ==
    ASSUME NEW r \in ChatRow
    PROVE  r.state \in States /\ r.discord \in ChatDiscords /\ r.at \in 0..MaxTime
BY DEF ChatRow, ChatDiscords

LEMMA AbsentRow ==
    Absent \in ChatRow /\ Absent.state = "none" /\ Absent.discord = "NULL"
<1>1. 0 \in 0..MaxTime
  BY ChatAssumption
<1> QED  BY <1>1 DEF Absent, ChatRow, States

LEMMA StateOfType ==
    ASSUME NEW k \in Projected, NEW q \in Questions
    PROVE  StateOf(k, q) \in States
BY DEF StateOf, Projected, Questions, States

\* The row that one write of m's call leaves, at the current time.
LEMMA RowOfMessage ==
    ASSUME ChatTypeOK, NEW m \in DOMAIN message
    PROVE  message[m] \in ChatRow
BY DEF ChatTypeOK

LEMMA ViewFields ==
    ASSUME NEW v \in View
    PROVE  /\ v.of \in Projected /\ v.listed \in Questions /\ v.copy \in ChatRow
           /\ v.phase \in {"closed", "idle", "append", "state", "discord"}
BY DEF View

LEMMA ViewUpdates ==
    ASSUME NEW v \in View, NEW r \in ChatRow, NEW o \in Projected,
           NEW p \in {"closed", "idle", "append", "state", "discord"}
    PROVE  /\ [v EXCEPT !.phase = p] \in View
           /\ [v EXCEPT !.phase = p, !.copy = r] \in View
           /\ [v EXCEPT !.phase = p, !.of = o, !.copy = r] \in View
BY DEF View

LEMMA IdleView == Idle \in View /\ [Idle EXCEPT !.phase = "closed"] \in View
<1>1. "question" \in Projected /\ "none" \in Questions
  BY DEF Projected, Questions
<1> HIDE DEF Projected, Questions, ChatRow
<1> QED  BY <1>1, AbsentRow DEF View, Idle

-----------------------------------------------------------------------------
\* Types, action by action. The type of the posts needs that a call that is not
\* done has not posted.
LEMMA ChatInitType == ChatInit => ChatTypeOK
<1> SUFFICES ASSUME ChatInit PROVE ChatTypeOK
  OBVIOUS
<1>1. 0 \in 0..MaxTime /\ 0 \in 0..MaxDeaths
  BY ChatAssumption
<1>2. view \in View
  BY IdleView DEF ChatInit
<1>3. message \in [Chats \cup Projected -> ChatRow]
  BY AbsentRow DEF ChatInit
<1> QED  BY <1>1, <1>2, <1>3 DEF ChatInit, ChatTypeOK, Questions, Calls

LEMMA MessageStepType ==
    ASSUME ChatTypeOK, NEW m \in Chats, CallAndRow(m),
           SendMessage(m) \/ PublishMessage(m) \/ MessageStep(m) \/ CommandDies(m)
    PROVE  ChatTypeOK'
<1>1. m \in Chats \cup Projected /\ m \in DOMAIN message /\ time \in 0..MaxTime
  BY DEF ChatTypeOK
<1>2. message[m] \in ChatRow /\ message[m].state \in States
      /\ message[m].discord \in ChatDiscords
  BY <1>1, RowOfMessage, ChatRowFields
<1>3. ASSUME NEW s \in States, NEW d \in ChatDiscords
      PROVE  [message EXCEPT ![m] = Written(s, d)] \in [Chats \cup Projected -> ChatRow]
  <2>1. Written(s, d) \in ChatRow  BY <1>1, WrittenRow DEF Written
  <2> QED  BY <2>1 DEF ChatTypeOK
<1>4. ASSUME NEW c \in Calls
      PROVE  [call EXCEPT ![m] = c] \in [Chats -> Calls]
  BY DEF ChatTypeOK
<1>5. CASE SendMessage(m)
  <2>1. message' \in [Chats \cup Projected -> ChatRow]
    BY <1>3, <1>5 DEF SendMessage, States, ChatDiscords
  <2>2. call' \in [Chats -> Calls]  BY <1>4, <1>5 DEF SendMessage, Calls
  <2> QED  BY <1>5, <2>1, <2>2 DEF SendMessage, ChatTypeOK, chatHistory
<1>6. CASE PublishMessage(m)
  <2>1. message' \in [Chats \cup Projected -> ChatRow]
    BY <1>3, <1>6 DEF PublishMessage, States, ChatDiscords
  <2>2. call' \in [Chats -> Calls]  BY <1>4, <1>6 DEF PublishMessage, Calls
  <2> QED  BY <1>6, <2>1, <2>2 DEF PublishMessage, ChatTypeOK, chatHistory
<1>7. CASE LaunchQueue(m)
  <2>1. call' \in [Chats -> Calls]  BY <1>4, <1>7 DEF LaunchQueue, Calls
  <2>2. launched' \in [Chats -> {Never} \cup 0..MaxTime]
    BY <1>7 DEF LaunchQueue, ChatTypeOK
  <2> QED  BY <1>7, <2>1, <2>2 DEF LaunchQueue, ChatTypeOK
<1>8. CASE RecordDispatch(m)
  <2>1. message' \in [Chats \cup Projected -> ChatRow]
    BY <1>2, <1>3, <1>8 DEF RecordDispatch, States
  <2>2. call' \in [Chats -> Calls]  BY <1>4, <1>8 DEF RecordDispatch, Calls
  <2> QED  BY <1>8, <2>1, <2>2 DEF RecordDispatch, ChatTypeOK, chatHistory
<1>9. CASE MirrorPending(m)
  <2>1. message' \in [Chats \cup Projected -> ChatRow]
    <3>1. "pending" \in ChatDiscords  BY DEF ChatDiscords
    <3>2. message' = message \/ message' = [message EXCEPT ![m] = Written(message[m].state, "pending")]
      BY <1>9 DEF MirrorPending
    <3> QED  BY <1>2, <1>3, <3>1, <3>2 DEF ChatTypeOK
  <2>2. call' \in [Chats -> Calls]  BY <1>4, <1>9 DEF MirrorPending, Calls
  <2> QED  BY <1>9, <2>1, <2>2 DEF MirrorPending, ChatTypeOK, chatHistory
<1>10. CASE Mirror(m)
  <2> PICK accepted \in {0, 1}, outcome \in {"published", "uncertain", "failed"} :
        /\ posts' = [posts EXCEPT ![m] = @ + accepted]
        /\ message' = [message EXCEPT ![m] = Written(@.state, outcome)]
    BY <1>10 DEF Mirror
  <2>1. message' \in [Chats \cup Projected -> ChatRow]
    <3>1. outcome \in ChatDiscords  BY DEF ChatDiscords
    <3> QED  BY <1>2, <1>3, <3>1
  <2>2. posts' \in [Chats -> {0, 1}]
    <3>1. posts[m] = 0  BY <1>10 DEF Mirror, CallAndRow
    <3> QED  BY <3>1 DEF ChatTypeOK
  <2>3. call' \in [Chats -> Calls]  BY <1>4, <1>10 DEF Mirror, Calls
  <2> QED  BY <1>10, <2>1, <2>2, <2>3 DEF Mirror, ChatTypeOK
<1>11. CASE CommandDies(m)
  <2>1. call' \in [Chats -> Calls]  BY <1>4, <1>11 DEF CommandDies, Calls
  <2>2. deaths' \in 0..MaxDeaths
    BY <1>11, ChatAssumption DEF CommandDies, ChatTypeOK
  <2> QED  BY <1>11, <2>1, <2>2 DEF CommandDies, ChatTypeOK, chatHistory
<1> QED  BY <1>5, <1>6, <1>7, <1>8, <1>9, <1>10, <1>11 DEF MessageStep

LEMMA RefreshStepType ==
    ASSUME ChatTypeOK, RefreshStep
    PROVE  ChatTypeOK'
<1>1. view \in View /\ question \in Questions /\ time \in 0..MaxTime
      /\ answered \in 0..MaxTime
  BY DEF ChatTypeOK
<1>2. view.of \in Projected /\ view.listed \in Questions /\ view.copy \in ChatRow
  BY <1>1, ViewFields
<1>3. message[view.of] \in ChatRow /\ message[view.of].state \in States
      /\ message[view.of].discord \in ChatDiscords
  <2>1. view.of \in DOMAIN message  BY <1>2 DEF ChatTypeOK
  <2> QED  BY <2>1, RowOfMessage, ChatRowFields
<1>4. StateOf(view.of, view.listed) \in States
  BY <1>2, StateOfType
<1>5. ASSUME NEW r \in ChatRow
      PROVE  [message EXCEPT ![view.of] = r] \in [Chats \cup Projected -> ChatRow]
  BY <1>2 DEF ChatTypeOK
<1>6. CASE OpenTray
  BY <1>6, IdleView DEF OpenTray, ChatTypeOK, chatHistory
<1>7. CASE ListQuestions
  <2>1. view' \in View
    BY <1>1, <1>7, AbsentRow DEF ListQuestions, View, Projected
  <2> QED  BY <1>7, <2>1 DEF ListQuestions, ChatTypeOK, chatHistory
<1>8. CASE AppendProjection
  <2> DEFINE row == IF message[view.of].state # "none" THEN message[view.of]
                    ELSE WrittenAt(StateOf(view.of, view.listed), "NULL", answered)
  <2>1. row \in ChatRow
    <3>1. "NULL" \in ChatDiscords  BY DEF ChatDiscords
    <3> QED  BY <1>1, <1>3, <1>4, <3>1, WrittenRow
  <2>2. /\ message' = [message EXCEPT ![view.of] = row]
        /\ view' = [view EXCEPT !.phase = "state", !.copy = row]
    BY <1>8 DEF AppendProjection
  <2> HIDE DEF row
  <2>3. message' \in [Chats \cup Projected -> ChatRow]  BY <1>5, <2>1, <2>2
  <2>4. view' \in View  BY <1>1, <1>2, <2>1, <2>2, ViewUpdates
  <2> QED  BY <1>8, <2>3, <2>4 DEF AppendProjection, ChatTypeOK, chatHistory
<1>9. CASE UpdateProjectedState
  <2> DEFINE row == Written(StateOf(view.of, view.listed), message[view.of].discord)
  <2>1. row \in ChatRow  BY <1>1, <1>3, <1>4, WrittenRow DEF Written
  <2>2. /\ message' = message \/ message' = [message EXCEPT ![view.of] = row]
        /\ view' = [view EXCEPT !.phase = "discord"]
    BY <1>9 DEF UpdateProjectedState
  <2> HIDE DEF row
  <2>3. message' \in [Chats \cup Projected -> ChatRow]
    BY <1>5, <2>1, <2>2 DEF ChatTypeOK
  <2>4. view' \in View  BY <1>1, <1>2, <2>2, ViewUpdates
  <2> QED  BY <1>9, <2>3, <2>4 DEF UpdateProjectedState, ChatTypeOK, chatHistory
<1>10. CASE UpdateProjectedDiscord
  <2> DEFINE d == IF view.of = "answer" THEN "received"
                  ELSE IF StateOf(view.of, view.listed) = "failed"
                       THEN "failed" ELSE "published"
             row == WrittenAt(message[view.of].state, d, answered)
  <2>1. row \in ChatRow
    <3>1. d \in ChatDiscords  BY DEF ChatDiscords
    <3> HIDE DEF d
    <3> QED  BY <1>1, <1>3, <3>1, WrittenRow
  <2>2. /\ message' = message \/ message' = [message EXCEPT ![view.of] = row]
        /\ \/ view' = [view EXCEPT !.phase = "append", !.of = "answer", !.copy = Absent]
           \/ view' = Idle
    BY <1>10 DEF UpdateProjectedDiscord
  <2> HIDE DEF d, row
  <2>3. message' \in [Chats \cup Projected -> ChatRow]
    BY <1>5, <2>1, <2>2 DEF ChatTypeOK
  <2>4. view' \in View
    <3>1. "answer" \in Projected  BY DEF Projected
    <3>2. [view EXCEPT !.phase = "append", !.of = "answer", !.copy = Absent] \in View
      BY <1>1, <3>1, AbsentRow, ViewUpdates
    <3> QED  BY <2>2, <3>2, IdleView
  <2> QED  BY <1>10, <2>3, <2>4 DEF UpdateProjectedDiscord, ChatTypeOK, chatHistory
<1> QED  BY <1>6, <1>7, <1>8, <1>9, <1>10 DEF RefreshStep

LEMMA OtherStepType ==
    ASSUME ChatTypeOK,
           ViewDies \/ QuestionGoesOn \/ HookStarts \/ HookConfirms \/ ClockTicks
    PROVE  ChatTypeOK'
<1>1. CASE ViewDies
  <2>1. view' \in View  BY <1>1, IdleView DEF ViewDies
  <2>2. call' \in [Chats -> Calls]  BY <1>1 DEF ViewDies, ChatTypeOK, Calls
  <2>3. deaths' \in 0..MaxDeaths
    BY <1>1, ChatAssumption DEF ViewDies, ChatTypeOK
  <2> QED  BY <1>1, <2>1, <2>2, <2>3 DEF ViewDies, ChatTypeOK, chatHistory
<1>2. CASE QuestionGoesOn
  <2>1. question' \in Questions
    BY <1>2 DEF QuestionGoesOn, After, Questions
  <2>2. answered' \in 0..MaxTime
    BY <1>2, ChatAssumption DEF QuestionGoesOn, ChatTypeOK
  <2> QED  BY <1>2, <2>1, <2>2 DEF QuestionGoesOn, ChatTypeOK, chatHistory
<1>3. CASE HookStarts
  BY <1>3 DEF HookStarts, ChatTypeOK, chatHistory
<1>4. CASE HookConfirms
  <2>1. message' \in [Chats \cup Projected -> ChatRow]
    <3>1. ASSUME NEW m \in DOMAIN message
          PROVE  Written("delivery_confirmed", message[m].discord) \in ChatRow
                 /\ message[m] \in ChatRow
      <4>1. message[m] \in ChatRow  BY RowOfMessage
      <4>2. message[m].discord \in ChatDiscords /\ time \in 0..MaxTime
            /\ "delivery_confirmed" \in States
        BY <4>1, ChatRowFields DEF ChatTypeOK, States
      <4> QED  BY <4>1, <4>2, WrittenRow DEF Written
    <3>2. DOMAIN message = Chats \cup Projected  BY DEF ChatTypeOK
    <3> QED  BY <1>4, <3>1, <3>2 DEF HookConfirms
  <2>2. witness' \in [Chats -> {Never} \cup 0..MaxTime]
    BY <1>4 DEF HookConfirms, ChatTypeOK
  <2>3. question' \in Questions
    BY <1>4 DEF HookConfirms, ChatTypeOK, Questions
  <2> QED  BY <1>4, <2>1, <2>2, <2>3 DEF HookConfirms, ChatTypeOK
<1>5. CASE ClockTicks
  <2>1. time' \in 0..MaxTime
    BY <1>5, ChatAssumption DEF ClockTicks, ChatTypeOK
  <2> QED  BY <1>5, <2>1 DEF ClockTicks, ChatTypeOK, chatHistory
<1> QED  BY <1>1, <1>2, <1>3, <1>4, <1>5

-----------------------------------------------------------------------------
\* A step that leaves a message alone leaves what is known of it alone.
LEMMA OtherMessage ==
    ASSUME ChatTypeOK, ChatTypeOK', NEW m \in Chats, CallAndRow(m), DispatchedRow(m),
           message'[m] = message[m], launched'[m] = launched[m],
           witness'[m] = witness[m], posts'[m] = posts[m],
           call'[m] \in {call[m], "done"}, time' >= time
    PROVE  CallAndRow(m)' /\ DispatchedRow(m)'
<1>1. launched[m] \in Int /\ time \in Int /\ time' \in Int
  BY DEF ChatTypeOK, Never
<1>2. DispatchedRow(m)'
  BY <1>1 DEF DispatchedRow
<1>3. CallAndRow(m)'
  BY DEF CallAndRow
<1> QED  BY <1>2, <1>3

\* What a write of m's own row makes of it.
LEMMA OwnRow ==
    ASSUME ChatTypeOK, NEW m \in Chats, NEW s \in States, NEW d \in ChatDiscords,
           message' = [message EXCEPT ![m] = Written(s, d)]
    PROVE  /\ message'[m].state = s
           /\ s \in Dispatched => message'[m].at = time
           /\ \A n \in Chats \ {m} : message'[n] = message[n]
<1>1. time \in 0..MaxTime
  BY DEF ChatTypeOK
<1>2. message'[m] = Written(s, d)
  BY DEF ChatTypeOK
<1>3. Written(s, d).state = s /\ (s \in Dispatched => Written(s, d).at = time)
  BY <1>1, WrittenRow DEF Written
<1> QED  BY <1>2, <1>3 DEF ChatTypeOK

\* What the steps of the call that sends m do to m.
LEMMA OwnStep ==
    ASSUME ChatTypeOK, ChatTypeOK', NEW m \in Chats, CallAndRow(m), DispatchedRow(m),
           SendMessage(m) \/ PublishMessage(m) \/ MessageStep(m) \/ CommandDies(m)
    PROVE  /\ CallAndRow(m)' /\ DispatchedRow(m)'
           /\ message[m].state = "delivery_confirmed" =>
                 message'[m].state = "delivery_confirmed"
<1>1. /\ message[m].state \in States /\ message[m].discord \in ChatDiscords
      /\ launched[m] \in Int /\ time \in Nat
  <2>1. m \in DOMAIN message  BY DEF ChatTypeOK
  <2> QED  BY <2>1, RowOfMessage, ChatRowFields DEF ChatTypeOK, Never
<1>2. call[m] \in Calls
  BY DEF ChatTypeOK
<1>3. CASE SendMessage(m)
  <2>1. /\ message' = [message EXCEPT ![m] = Written("queued", "NULL")]
        /\ call'[m] = "appended" /\ call[m] = "new"
        /\ UNCHANGED <<time, launched, witness, posts>>
    BY <1>3 DEF SendMessage, chatHistory, ChatTypeOK
  <2>2. message'[m].state = "queued"
    BY <2>1, OwnRow DEF States, ChatDiscords
  <2> QED  BY <2>1, <2>2 DEF CallAndRow, DispatchedRow, Dispatched
<1>4. CASE PublishMessage(m)
  <2>1. /\ message' = [message EXCEPT ![m] = Written("published", "NULL")]
        /\ call'[m] = "mirroring" /\ call[m] = "new"
        /\ UNCHANGED <<time, launched, witness, posts>>
    BY <1>4 DEF PublishMessage, chatHistory, ChatTypeOK
  <2>2. message'[m].state = "published"
    BY <2>1, OwnRow DEF States, ChatDiscords
  <2> QED  BY <2>1, <2>2 DEF CallAndRow, DispatchedRow, Dispatched
<1>5. CASE LaunchQueue(m)
  <2>1. /\ message[m].state = "queued" /\ posts[m] = 0 /\ launched[m] = Never
        /\ \/ call'[m] = "launched" /\ launched'[m] = time
           \/ call'[m] = "refused" /\ launched'[m] = launched[m]
        /\ UNCHANGED <<message, time, witness, posts>>
    BY <1>5 DEF LaunchQueue, ChatTypeOK, CallAndRow
  <2>2. time # Never  BY <1>1 DEF Never
  <2> QED  BY <1>1, <2>1, <2>2 DEF CallAndRow, DispatchedRow, Dispatched
<1>6. CASE RecordDispatch(m)
  <2>1. UNCHANGED <<time, launched, witness, posts>> /\ message[m].state = "queued"
    BY <1>6 DEF RecordDispatch, chatHistory, CallAndRow
  <2>2. CASE call[m] = "launched"
    <3>1. /\ message' = [message EXCEPT ![m] = Written("dispatch_started", message[m].discord)]
          /\ call'[m] = "mirroring"
      BY <1>6, <2>2 DEF RecordDispatch, ChatTypeOK
    <3>2. message'[m].state = "dispatch_started" /\ message'[m].at = time
      BY <1>1, <3>1, OwnRow DEF States, Dispatched
    <3>3. launched[m] # Never /\ posts[m] = 0  BY <2>2 DEF CallAndRow
    <3> QED  BY <2>1, <3>1, <3>2, <3>3 DEF CallAndRow, DispatchedRow, Dispatched
  <2>3. CASE call[m] = "refused"
    <3>1. /\ message' = [message EXCEPT ![m] = Written("failed", message[m].discord)]
          /\ call'[m] = "done"
      BY <1>6, <2>3 DEF RecordDispatch, ChatTypeOK
    <3>2. message'[m].state = "failed"
      BY <1>1, <3>1, OwnRow DEF States
    <3>3. launched[m] = Never /\ posts[m] = 0  BY <2>3 DEF CallAndRow
    <3> QED  BY <2>1, <3>1, <3>2, <3>3 DEF CallAndRow, DispatchedRow, Dispatched
  <2> QED  BY <1>6, <2>2, <2>3 DEF RecordDispatch
<1>7. CASE MirrorPending(m)
  <2>1. /\ UNCHANGED <<time, launched, witness, posts>>
        /\ message[m].state # "failed" /\ posts[m] = 0
        /\ call'[m] \in {"pending", "done"}
    BY <1>7 DEF MirrorPending, chatHistory, CallAndRow, ChatTypeOK
  <2>2. /\ message'[m].state = message[m].state
        /\ message[m].state \in Dispatched => message'[m].at \in {message[m].at, time}
    <3>1. CASE message' = message
      BY <3>1
    <3>2. CASE message' = [message EXCEPT ![m] = Written(message[m].state, "pending")]
      BY <1>1, <3>2, OwnRow DEF ChatDiscords
    <3> QED  BY <1>7, <3>1, <3>2 DEF MirrorPending
  <2> QED  BY <2>1, <2>2 DEF CallAndRow, DispatchedRow
<1>8. CASE Mirror(m)
  <2>1. /\ UNCHANGED <<time, launched, witness>>
        /\ message[m].state # "failed" /\ call'[m] = "done"
    BY <1>8 DEF Mirror, CallAndRow, ChatTypeOK
  <2>2. /\ message'[m].state = message[m].state
        /\ message[m].state \in Dispatched => message'[m].at = time
    <3> PICK outcome \in {"published", "uncertain", "failed"} :
          message' = [message EXCEPT ![m] = Written(message[m].state, outcome)]
      BY <1>8 DEF Mirror
    <3> QED  BY <1>1, OwnRow DEF ChatDiscords
  <2> QED  BY <2>1, <2>2 DEF CallAndRow, DispatchedRow
<1>9. CASE CommandDies(m)
  <2>1. /\ UNCHANGED <<message, time, launched, witness, posts>>
        /\ call'[m] = "done"
    BY <1>9 DEF CommandDies, chatHistory, ChatTypeOK
  <2> QED  BY <2>1 DEF CallAndRow, DispatchedRow
<1> QED  BY <1>3, <1>4, <1>5, <1>6, <1>7, <1>8, <1>9 DEF MessageStep

\* And to another message, and to the hook: nothing.
LEMMA OwnStepFrame ==
    ASSUME ChatTypeOK, NEW m \in Chats, NEW n \in Chats, n # m,
           SendMessage(m) \/ PublishMessage(m) \/ MessageStep(m) \/ CommandDies(m)
    PROVE  /\ message'[n] = message[n] /\ launched'[n] = launched[n]
           /\ witness'[n] = witness[n] /\ posts'[n] = posts[n]
           /\ call'[n] = call[n]
<1>1. \/ message' = message
      \/ \E row : message' = [message EXCEPT ![m] = row]
  BY DEF SendMessage, PublishMessage, MessageStep, LaunchQueue, RecordDispatch,
         MirrorPending, Mirror, CommandDies
<1>2. message'[n] = message[n]
  BY <1>1 DEF ChatTypeOK
<1>3. \E c : call' = [call EXCEPT ![m] = c]
  BY DEF SendMessage, PublishMessage, MessageStep, LaunchQueue, RecordDispatch,
         MirrorPending, Mirror, CommandDies
<1>4. call'[n] = call[n]
  BY <1>3 DEF ChatTypeOK
<1>5. \/ launched' = launched
      \/ \E c : launched' = [launched EXCEPT ![m] = c]
  BY DEF SendMessage, PublishMessage, MessageStep, LaunchQueue, RecordDispatch,
         MirrorPending, Mirror, CommandDies, chatHistory
<1>6. \/ posts' = posts
      \/ \E c : posts' = [posts EXCEPT ![m] = c]
  BY DEF SendMessage, PublishMessage, MessageStep, LaunchQueue, RecordDispatch,
         MirrorPending, Mirror, CommandDies, chatHistory
<1>7. witness' = witness
  BY DEF SendMessage, PublishMessage, MessageStep, LaunchQueue, RecordDispatch,
         MirrorPending, Mirror, CommandDies, chatHistory
<1>8. launched'[n] = launched[n] /\ posts'[n] = posts[n]
  BY <1>5, <1>6 DEF ChatTypeOK
<1> QED  BY <1>2, <1>4, <1>7, <1>8

LEMMA MessageStepClock ==
    ASSUME NEW m \in Chats,
           SendMessage(m) \/ PublishMessage(m) \/ MessageStep(m) \/ CommandDies(m)
    PROVE  hook' = hook /\ time' = time
BY DEF SendMessage, PublishMessage, MessageStep, LaunchQueue, RecordDispatch,
       MirrorPending, Mirror, CommandDies

\* The refresh writes the two projections and no message of the chat.
LEMMA RefreshFrame ==
    ASSUME ChatTypeOK, RefreshStep, NEW n \in Chats
    PROVE  /\ message'[n] = message[n]
           /\ UNCHANGED <<launched, witness, posts, call, hook, time>>
<1>1. view.of \in Projected /\ n # view.of
  BY ChatAssumption, ViewFields DEF ChatTypeOK
<1>2. message' = message \/ \E row : message' = [message EXCEPT ![view.of] = row]
  BY DEF RefreshStep, OpenTray, ListQuestions, AppendProjection, UpdateProjectedState,
         UpdateProjectedDiscord
<1>3. message'[n] = message[n]
  BY <1>1, <1>2 DEF ChatTypeOK
<1> QED  BY <1>3 DEF RefreshStep, OpenTray, ListQuestions, AppendProjection,
                   UpdateProjectedState, UpdateProjectedDiscord, chatHistory

\* A hook confirms what was dispatched before it observed the session, and is
\* the witness of what it confirms.
LEMMA HookStep ==
    ASSUME ChatTypeOK, hook <= time, HookConfirms, NEW m \in Chats,
           CallAndRow(m), DispatchedRow(m)
    PROVE  CallAndRow(m)' /\ DispatchedRow(m)'
<1>1. /\ message[m].state \in States /\ message[m].discord \in ChatDiscords
      /\ message[m].at \in Nat /\ time \in 0..MaxTime
      /\ launched[m] \in Int /\ hook \in Int
  <2>1. m \in DOMAIN message  BY DEF ChatTypeOK
  <2> QED  BY <2>1, RowOfMessage, ChatRowFields DEF ChatTypeOK, Never
<1>2. UNCHANGED <<call, launched, posts, time>>
  BY DEF HookConfirms
<1>3. CASE Confirmable(message[m])
  <2>1. /\ message'[m] = Written("delivery_confirmed", message[m].discord)
        /\ witness'[m] = hook
    BY <1>3 DEF HookConfirms, ChatTypeOK
  <2>2. message'[m].state = "delivery_confirmed"
    BY <1>1, <2>1, WrittenRow DEF Written, States
  <2>3. message[m].state \in Dispatched /\ message[m].at <= hook
    BY <1>3 DEF Confirmable
  <2>4. launched[m] # Never /\ hook >= launched[m]
    BY <1>1, <2>3 DEF DispatchedRow
  <2>5. call[m] \notin {"new", "appended", "refused", "launched"}
    BY <2>3 DEF CallAndRow, Dispatched
  <2>6. CallAndRow(m)'
    BY <1>2, <2>2, <2>5 DEF CallAndRow
  <2>7. DispatchedRow(m)'
    BY <1>2, <2>1, <2>2, <2>4 DEF DispatchedRow, Dispatched
  <2> QED  BY <2>6, <2>7
<1>4. CASE ~Confirmable(message[m])
  <2>1. message'[m] = message[m] /\ witness'[m] = witness[m]
    BY <1>4 DEF HookConfirms, ChatTypeOK
  <2> QED  BY <1>2, <2>1 DEF CallAndRow, DispatchedRow
<1> QED  BY <1>3, <1>4

-----------------------------------------------------------------------------
LEMMA ChatInitInv == ChatInit => ChatInv
<1> SUFFICES ASSUME ChatInit PROVE ChatInv
  OBVIOUS
<1>1. ASSUME NEW m \in Chats
      PROVE  CallAndRow(m) /\ DispatchedRow(m)
  <2>1. message[m].state = "none" /\ call[m] = "new" /\ launched[m] = Never
        /\ posts[m] = 0 /\ time = 0
    BY AbsentRow DEF ChatInit
  <2> QED  BY <2>1 DEF CallAndRow, DispatchedRow, Dispatched, Never
<1> QED  BY <1>1, ChatInitType DEF ChatInv, ChatInit, Never

\* Every step keeps the invariant, and no step takes a confirmation back.
LEMMA ChatStep ==
    ASSUME ChatInv, [ChatNext]_chatVars
    PROVE  /\ ChatInv'
           /\ \A m \in Chats : message[m].state = "delivery_confirmed" =>
                 message'[m].state = "delivery_confirmed"
<1> USE DEF ChatInv
<1>1. hook \in Int /\ time \in Int /\ time <= time
  BY DEF ChatTypeOK, Never
<1>2. ASSUME NEW m \in Chats,
             SendMessage(m) \/ PublishMessage(m) \/ MessageStep(m) \/ CommandDies(m)
      PROVE  /\ ChatInv'
             /\ \A n \in Chats : message[n].state = "delivery_confirmed" =>
                   message'[n].state = "delivery_confirmed"
  <2>1. ChatTypeOK'  BY <1>2, MessageStepType
  <2>2. hook' <= time' /\ time' >= time  BY <1>1, <1>2, MessageStepClock
  <2>3. ASSUME NEW n \in Chats
        PROVE  /\ CallAndRow(n)' /\ DispatchedRow(n)'
               /\ message[n].state = "delivery_confirmed" =>
                     message'[n].state = "delivery_confirmed"
    <3>1. CASE n = m  BY <1>2, <2>1, <3>1, OwnStep
    <3>2. CASE n # m
      <4>1. /\ message'[n] = message[n] /\ launched'[n] = launched[n]
            /\ witness'[n] = witness[n] /\ posts'[n] = posts[n]
            /\ call'[n] = call[n]
        BY <1>2, <3>2, OwnStepFrame
      <4> QED  BY <2>1, <2>2, <4>1, OtherMessage
    <3> QED  BY <3>1, <3>2
  <2> QED  BY <2>1, <2>2, <2>3
<1>3. CASE RefreshStep
  <2>1. ChatTypeOK'  BY <1>3, RefreshStepType
  <2>2. hook' <= time' /\ time' >= time
    BY <1>1, <1>3 DEF RefreshStep, OpenTray, ListQuestions, AppendProjection,
                      UpdateProjectedState, UpdateProjectedDiscord
  <2>3. ASSUME NEW n \in Chats
        PROVE  CallAndRow(n)' /\ DispatchedRow(n)' /\ message'[n] = message[n]
    <3>1. /\ message'[n] = message[n]
          /\ UNCHANGED <<launched, witness, posts, call, hook, time>>
      BY <1>3, RefreshFrame
    <3> QED  BY <2>1, <2>2, <3>1, OtherMessage
  <2> QED  BY <2>1, <2>2, <2>3
<1>4. CASE HookConfirms
  <2>1. ChatTypeOK'  BY <1>4, OtherStepType
  <2>2. hook' <= time'
    <3>1. hook' = Never /\ time' = time /\ time \in Nat
      BY <1>4 DEF HookConfirms, ChatTypeOK
    <3> QED  BY <3>1 DEF Never
  <2>3. \A m \in Chats : CallAndRow(m)' /\ DispatchedRow(m)'
    BY <1>4, HookStep
  <2>4. ASSUME NEW m \in Chats, message[m].state = "delivery_confirmed"
        PROVE  message'[m].state = "delivery_confirmed"
    <3>1. ~Confirmable(message[m])  BY <2>4 DEF Confirmable, Dispatched
    <3> QED  BY <1>4, <2>4, <3>1 DEF HookConfirms, ChatTypeOK
  <2> QED  BY <2>1, <2>2, <2>3, <2>4
<1>5. CASE QuestionGoesOn \/ HookStarts \/ ClockTicks \/ ViewDies \/ UNCHANGED chatVars
  <2>1. ChatTypeOK'
    <3>1. CASE UNCHANGED chatVars  BY <3>1 DEF chatVars, ChatTypeOK
    <3> QED  BY <1>5, <3>1, OtherStepType
  <2>2. hook' <= time' /\ time' >= time
    BY <1>1, <1>5 DEF QuestionGoesOn, HookStarts, ClockTicks, ViewDies, chatVars
  <2>3. ASSUME NEW n \in Chats
        PROVE  CallAndRow(n)' /\ DispatchedRow(n)' /\ message'[n] = message[n]
    <3>1. UNCHANGED <<message, launched, witness, posts>>
      BY <1>5 DEF QuestionGoesOn, HookStarts, ClockTicks, ViewDies, chatVars, chatHistory
    <3>2. call'[n] \in {call[n], "done"}
      BY <1>5 DEF QuestionGoesOn, HookStarts, ClockTicks, ViewDies, chatVars
    <3> QED  BY <2>1, <2>2, <3>1, <3>2, OtherMessage
  <2> QED  BY <2>1, <2>2, <2>3
<1> QED  BY <1>2, <1>3, <1>4, <1>5 DEF ChatNext

LEMMA ChatInvariant == ChatInit /\ [][ChatNext]_chatVars => []ChatInv
<1>1. ChatInv /\ [ChatNext]_chatVars => ChatInv'
  BY ChatStep
<1> QED  BY <1>1, ChatInitInv, PTL

-----------------------------------------------------------------------------
\* Every reachable state of the chat is well typed; in particular no message is
\* posted to Discord twice.
THEOREM ChatTypeCorrect == ChatSpec => []ChatTypeOK
<1>1. ChatInv => ChatTypeOK
  BY DEF ChatInv
<1> QED  BY <1>1, ChatInvariant, PTL DEF ChatSpec

\* A message is shown as confirmed only after a hook that observed the session no
\* earlier than its dispatch, though the mirror and the refresh move updated_at.
THEOREM ConfirmationFollowsDispatch == ChatSpec => []ConfirmedAfterDispatch
<1>1. ChatInv => ConfirmedAfterDispatch
  BY DEF ChatInv, DispatchedRow, ConfirmedAfterDispatch
<1> QED  BY <1>1, ChatInvariant, PTL DEF ChatSpec

\* A message that is recorded as failed was neither launched nor posted.
THEOREM FailedMessageIsNowhere == ChatSpec => []NotSentIsNowhere
<1>1. ChatInv => NotSentIsNowhere
  BY DEF ChatInv, CallAndRow, NotSentIsNowhere
<1> QED  BY <1>1, ChatInvariant, PTL DEF ChatSpec

LEMMA ChatConfirmations == ChatInit /\ [][ChatNext]_chatVars => ConfirmationStands
<1>1. ChatInv /\ [ChatNext]_chatVars =>
        [ \A m \in Chats : message[m].state = "delivery_confirmed" =>
             message'[m].state = "delivery_confirmed" ]_chatVars
  BY ChatStep
<1> QED  BY <1>1, ChatInvariant, PTL DEF ConfirmationStands

\* A confirmation is not taken back, though update_agent_message_state writes the
\* row without looking at it.
THEOREM ConfirmationIsKept == ChatSpec => ConfirmationStands
BY ChatConfirmations, PTL DEF ChatSpec


-----------------------------------------------------------------------------
(* DesktopNotices: a notice is collected once, and what was recorded while the*)
(* notifications were switched off is not announced.                          *)

\* Notices are held during a poll only; the cursor of a table follows its rows,
\* and what was read of the newest row is between the two.
CursorsFollow ==
    /\ tray.phase \in {"alerts", "question", "show"} \/ tray.batch = {}
    /\ tray.latest # Unset => \E s \in Tables : tray.phase \in {s, Ack(s)}
    /\ \A s \in Tables :
          /\ cursor[s] <= Len(rows[s])
          /\ tray.latest # Unset /\ tray.phase \in {s, Ack(s)} =>
                cursor[s] <= tray.latest /\ tray.latest <= Len(rows[s])

Rank(st) == CASE st = "none" -> 0 [] st = "pending" -> 1 [] OTHER -> 2

\* The notices that were collected, whatever became of them.
Collected == tray.batch \cup announced \cup dropped

\* Saved cursors and statuses are at or past every notice that was collected.
SavedIsPast ==
    /\ Rank(told) <= Rank(stage)
    /\ \A s \in Tables, i \in Ids : <<s, i>> \in Collected => i <= cursor[s]
    /\ \A st \in Stages :
          <<"question", st>> \in Collected => st # "none" /\ Rank(st) <= Rank(told)

\* After a complete use of the checkbox the box and the setting agree, and while
\* both are on the cursors of the tables that are acknowledged are among the rows
\* recorded since; so the tray has collected no row of a time it was off.
Acknowledged(s) ==
    /\ tray.phase # "ack events"
    /\ tray.phase = "ack alerts" => s = "events"
OnFrom(s, k) == \A i \in 1..Len(rows[s]) : i > k => rows[s][i].on

SwitchIsKept ==
    ~interrupted =>
       /\ tray.phase # "closed" => tray.checked = setting
       /\ tray.phase \in {"events", "alerts", "question", "show"} => tray.checked
       /\ tray.phase \in Tables => tray.latest = Unset
       /\ \A s \in Tables : setting =>
             /\ Acknowledged(s) => cursor[s] # Unset /\ OnFrom(s, cursor[s])
             /\ tray.phase = Ack(s) /\ tray.latest # Unset => OnFrom(s, tray.latest)
       /\ \A s \in Tables : \A i \in 1..Len(rows[s]) :
             <<s, i>> \in tray.batch => rows[s][i].on

\* The inductive invariant: TrayInv.
NoticesInv ==
    /\ NoticesTypeOK /\ CursorsFollow /\ SavedIsPast
    /\ tray.batch \cap (announced \cup dropped) = {}
    /\ SwitchIsKept

-----------------------------------------------------------------------------
LEMMA PhaseNames ==
    /\ Ack("events") = "ack events" /\ Ack("alerts") = "ack alerts"
    /\ Ack("question") = "ack question"
    /\ NextPhase("events") = "alerts" /\ NextPhase("alerts") = "question"
    /\ \A s \in Tables : s = "events" \/ s = "alerts"
BY DEF Ack, NextPhase, Tables

LEMMA RowIds ==
    ASSUME NoticesTypeOK, NEW s \in Tables
    PROVE  /\ rows[s] \in Seq(TableRow) /\ Len(rows[s]) \in Nat
           /\ \A k \in 0..Len(rows[s]) : k \in {Unset, 0} \cup Ids
           /\ \A i \in 1..MaxTableRows[s] : i \in Ids
           /\ \A i \in Ids : i \in Nat \ {0}
           /\ cursor[s] \in Int /\ Unset \in Int
<1>1. rows[s] \in Seq(TableRow) /\ Len(rows[s]) <= MaxTableRows[s]
      /\ cursor[s] \in {Unset, 0} \cup Ids
  BY DEF NoticesTypeOK
<1>2. Len(rows[s]) \in Nat /\ MaxTableRows \in [Tables -> Nat]
  BY <1>1, LenProperties, NoticesAssumption
<1>3. \A i \in 1..MaxTableRows[s] : i \in Ids
  BY DEF Ids
<1>4. \A k \in 0..Len(rows[s]) : k \in {Unset, 0} \cup Ids
  <2>1. \A k \in 0..Len(rows[s]) : k = 0 \/ k \in 1..MaxTableRows[s]
    BY <1>1, <1>2
  <2> QED  BY <1>3, <2>1
<1>5. \A i \in Ids : i \in Nat \ {0}
  BY <1>2 DEF Ids
<1> QED  BY <1>1, <1>2, <1>3, <1>4, <1>5 DEF Unset

\* The record of the tray, field by field.
LEMMA TrayFields ==
    ASSUME NEW t \in Tray
    PROVE  /\ t.phase \in {"closed", "idle", "events", "alerts", "question", "show",
                           "ack events", "ack alerts", "ack question"}
           /\ t.checked \in BOOLEAN /\ t.latest \in {Unset, 0} \cup Ids
           /\ t.batch \in SUBSET Notices
BY DEF Tray

LEMMA TrayNow ==
    ASSUME NoticesTypeOK
    PROVE  /\ tray \in Tray /\ tray.checked \in BOOLEAN /\ tray.batch \in SUBSET Notices
           /\ tray.latest \in Int /\ tray.latest \in {Unset, 0} \cup Ids
           /\ \A s \in Tables : cursor[s] \in Int /\ cursor[s] \in {Unset, 0} \cup Ids
<1>1. tray \in Tray /\ "events" \in Tables
  BY DEF NoticesTypeOK, Tables
<1>2. (\A i \in Ids : i \in Nat \ {0}) /\ Unset \in Int
  BY <1>1, RowIds
<1>3. \A k \in {Unset, 0} \cup Ids : k \in Int
  BY <1>2
<1> QED  BY <1>1, <1>3, TrayFields DEF NoticesTypeOK

LEMMA TrayRecord ==
    ASSUME NEW t \in Tray,
           NEW p \in {"closed", "idle", "events", "alerts", "question", "show",
                      "ack events", "ack alerts", "ack question"},
           NEW b \in BOOLEAN, NEW l \in {Unset, 0} \cup Ids, NEW c \in SUBSET Notices
    PROVE  [t EXCEPT !.phase = p, !.checked = b, !.latest = l, !.batch = c] \in Tray
BY DEF Tray

LEMMA RowStep ==
    ASSUME NoticesInv, NEW s \in Tables, NEW noted \in BOOLEAN, RecordRow(s, noted)
    PROVE  NoticesInv'
<1> DEFINE row == [noted |-> noted, on |-> setting \/ tray.checked]
<1>1. /\ UNCHANGED <<stage, cursor, told, initialized, later, setting, tray, announced, dropped,
                     interrupted, failures, toggles>>
      /\ rows' = [rows EXCEPT ![s] = Append(@, row)] /\ Len(rows[s]) < MaxTableRows[s]
  BY DEF RecordRow, database, history
<1>2. NoticesTypeOK
  BY DEF NoticesInv
<1>3. row \in TableRow /\ (setting => row.on)
  <2>1. setting \in BOOLEAN /\ tray.checked \in BOOLEAN
    BY <1>2, TrayNow DEF NoticesTypeOK
  <2> QED  BY <2>1 DEF TableRow
<1> HIDE DEF row
<1>4. /\ rows'[s] \in Seq(TableRow) /\ Len(rows'[s]) = Len(rows[s]) + 1 /\ Len(rows[s]) \in Nat
      /\ rows'[s][Len(rows[s]) + 1] = row
      /\ \A i \in 1..Len(rows[s]) : rows'[s][i] = rows[s][i]
  BY <1>1, <1>2, <1>3, RowIds, AppendProperties DEF NoticesTypeOK
<1>5. \A t \in Tables : t # s => rows'[t] = rows[t]
  BY <1>1, <1>2 DEF NoticesTypeOK
<1>6. NoticesTypeOK'
  <2>1. rows' \in [Tables -> Seq(TableRow)]
    BY <1>1, <1>2, <1>4 DEF NoticesTypeOK
  <2>2. ASSUME NEW t \in Tables PROVE Len(rows'[t]) <= MaxTableRows[t]
    <3>1. MaxTableRows[t] \in Nat
      BY NoticesAssumption
    <3> QED  BY <1>1, <1>2, <1>4, <1>5, <3>1 DEF NoticesTypeOK
  <2> QED  BY <1>1, <1>2, <2>1, <2>2 DEF NoticesTypeOK
<1>7. CursorsFollow'
  <2>1. \A t \in Tables : Len(rows[t]) \in Nat /\ Len(rows[t]) <= Len(rows'[t])
                          /\ cursor[t] \in Int
    BY <1>2, <1>4, <1>5, RowIds
  <2>3. tray.latest \in Int
    BY <1>2, TrayNow
  <2>4. \A t \in Tables : Len(rows'[t]) \in Int
    BY <1>4, <1>5, <2>1
  <2> QED  BY <1>1, <2>1, <2>3, <2>4 DEF NoticesInv, CursorsFollow
<1>8. SavedIsPast' /\ tray'.batch \cap (announced' \cup dropped') = {}
  BY <1>1 DEF NoticesInv, SavedIsPast, Collected
<1>9. SwitchIsKept'
  <2>1. SUFFICES ASSUME ~interrupted PROVE SwitchIsKept'
    BY <1>1 DEF SwitchIsKept
  <2>2. SwitchIsKept /\ ~interrupted'
    BY <1>1, <2>1 DEF NoticesInv
  <2>3. ASSUME NEW t \in Tables, NEW k \in Int, OnFrom(t, k), setting
        PROVE  OnFrom(t, k)'
    <3>2. SUFFICES ASSUME NEW i \in 1..Len(rows'[t]), i > k PROVE rows'[t][i].on
      BY DEF OnFrom
    <3>3. CASE t # s \/ i \in 1..Len(rows[s])
      BY <1>4, <1>5, <2>3, <3>2, <3>3 DEF OnFrom
    <3>4. CASE t = s /\ i = Len(rows[s]) + 1
      BY <1>3, <1>4, <2>3, <3>4
    <3> QED  BY <1>4, <3>2, <3>3, <3>4
  <2>4. \A t \in Tables : cursor[t] \in Int /\ tray.latest \in Int
    BY <1>2, TrayNow
  <2>5. ASSUME NEW t \in Tables, setting
        PROVE  /\ Acknowledged(t)' => cursor'[t] # Unset /\ OnFrom(t, cursor[t])'
               /\ tray'.phase = Ack(t) /\ tray'.latest # Unset => OnFrom(t, tray.latest)'
    <3>1. tray' = tray /\ cursor' = cursor /\ (Acknowledged(t)' <=> Acknowledged(t))
      BY <1>1 DEF Acknowledged
    <3>2. Acknowledged(t) => cursor[t] # Unset /\ OnFrom(t, cursor[t])
      BY <2>1, <2>2, <2>5 DEF SwitchIsKept
    <3>3. tray.phase = Ack(t) /\ tray.latest # Unset => OnFrom(t, tray.latest)
      BY <2>1, <2>2, <2>5 DEF SwitchIsKept
    <3> QED  BY <2>3, <2>4, <2>5, <3>1, <3>2, <3>3
  <2>6. ASSUME NEW t \in Tables, NEW i \in 1..Len(rows'[t]), <<t, i>> \in tray.batch
        PROVE  rows'[t][i].on
    <3>1. i \in Ids /\ <<t, i>> \in Collected
      <4>1. NoticesTypeOK' /\ MaxTableRows[t] \in Nat
        BY <1>6, NoticesAssumption
      <4>2. i \in 1..MaxTableRows[t]
        BY <4>1, <2>6, <1>4, <1>5, <1>2, RowIds DEF NoticesTypeOK
      <4> QED  BY <1>2, <4>2, <2>6, RowIds DEF Collected
    <3>2. i <= cursor[t] /\ cursor[t] <= Len(rows[t]) /\ cursor[t] \in Int /\ Len(rows[t]) \in Nat
      BY <1>2, <3>1, RowIds DEF NoticesInv, SavedIsPast, CursorsFollow
    <3>3. i \in 1..Len(rows[t])
      BY <3>2, <2>6
    <3>4. rows[t][i].on
      BY <2>1, <2>2, <2>6, <3>3 DEF SwitchIsKept
    <3> QED  BY <1>4, <1>5, <3>3, <3>4
  <2> QED  BY <1>1, <2>1, <2>2, <2>5, <2>6 DEF SwitchIsKept
<1> QED  BY <1>6, <1>7, <1>8, <1>9 DEF NoticesInv

LEMMA SameCollected ==
    ASSUME NoticesInv, UNCHANGED <<cursor, told>>, Collected' = Collected,
           stage' = stage
    PROVE  SavedIsPast'
BY DEF NoticesInv, SavedIsPast

LEMMA GoFields ==
    ASSUME NEW p \in {"idle", "events", "alerts", "question", "ack events", "ack alerts",
                      "ack question"},
           tray \in Tray, Go(p)
    PROVE  /\ tray' \in Tray /\ tray'.phase = p /\ tray'.latest = Unset
           /\ tray'.checked = tray.checked /\ tray'.batch = tray.batch
BY DEF Go, Tray

LEMMA LatestIsRead ==
    ASSUME NoticesInv, tray.phase \notin {"events", "alerts", "ack events", "ack alerts"}
    PROVE  tray.latest = Unset
BY PhaseNames DEF NoticesInv, CursorsFollow

LEMMA QuestionStep ==
    ASSUME NoticesInv, QuestionMoves
    PROVE  NoticesInv'
<1>1. UNCHANGED <<rows, cursor, told, initialized, setting, tray, announced, dropped,
                  interrupted, failures, toggles>>
      /\ stage' \in Follows(stage) /\ later' = IF stage = "none" THEN initialized ELSE later
  BY DEF QuestionMoves, history
<1>2. stage' \in Stages /\ Rank(stage') = Rank(stage) + 1 /\ Rank(stage) \in Nat /\ Rank(told) \in Nat
  BY <1>1 DEF NoticesInv, NoticesTypeOK, Follows, Stages, Rank
<1>3. NoticesTypeOK'
  BY <1>1, <1>2 DEF NoticesInv, NoticesTypeOK
<1>4. SavedIsPast'
  BY <1>1, <1>2 DEF NoticesInv, SavedIsPast, Collected, Rank
<1>5. CursorsFollow' /\ SwitchIsKept' /\ tray'.batch \cap (announced' \cup dropped') = {}
  BY <1>1 DEF NoticesInv, CursorsFollow, SwitchIsKept, Acknowledged, OnFrom
<1> QED  BY <1>3, <1>4, <1>5 DEF NoticesInv

LEMMA StartTrayStep ==
    ASSUME NoticesInv, StartTray
    PROVE  NoticesInv'
<1>1. /\ UNCHANGED <<rows, stage, cursor, told, initialized, later, setting, announced, dropped,
                     interrupted, failures, toggles>>
      /\ tray.phase = "closed" /\ tray' = [tray EXCEPT !.phase = "idle", !.checked = setting]
  BY DEF StartTray, database, history
<1>2. NoticesTypeOK /\ tray \in Tray /\ setting \in BOOLEAN
  BY DEF NoticesInv, NoticesTypeOK
<1>3. tray' \in Tray /\ tray'.phase = "idle" /\ tray'.checked = setting
      /\ tray'.latest = tray.latest /\ tray'.batch = tray.batch
  BY <1>1, <1>2 DEF Tray
<1>4. NoticesTypeOK'
  BY <1>1, <1>2, <1>3 DEF NoticesTypeOK
<1>5. CursorsFollow' /\ SavedIsPast' /\ tray'.batch \cap (announced' \cup dropped') = {}
  <2>1. tray'.latest = Unset
    BY <1>1, <1>3, LatestIsRead
  <2> QED  BY <1>1, <1>3, <2>1, SameCollected DEF NoticesInv, CursorsFollow, Collected
<1>6. SwitchIsKept'
  <2>1. SUFFICES ASSUME ~interrupted PROVE SwitchIsKept'
    BY <1>1 DEF SwitchIsKept
  <2>2. SwitchIsKept /\ \A s \in Tables : Acknowledged(s) /\ tray'.phase # Ack(s)
    BY <1>1, <1>3, PhaseNames DEF NoticesInv, Acknowledged
  <2> QED
    BY <1>1, <1>3, <2>1, <2>2 DEF SwitchIsKept, Tables, OnFrom
<1> QED  BY <1>4, <1>5, <1>6 DEF NoticesInv

LEMMA StartPollStep ==
    ASSUME NoticesInv, StartPoll
    PROVE  NoticesInv'
<1>1. /\ UNCHANGED <<rows, stage, cursor, told, initialized, later, setting, announced, dropped,
                     interrupted, failures, toggles>>
      /\ tray.phase = "idle" /\ tray.checked /\ Go("events")
  BY DEF StartPoll, database, history
<1>2. NoticesTypeOK /\ tray \in Tray
  BY DEF NoticesInv, NoticesTypeOK
<1>3. tray' \in Tray /\ tray'.phase = "events" /\ tray'.checked = tray.checked
      /\ tray'.latest = Unset /\ tray'.batch = tray.batch
  BY <1>1, <1>2, GoFields
<1>4. NoticesTypeOK'
  BY <1>1, <1>2, <1>3 DEF NoticesTypeOK
<1>5. CursorsFollow' /\ SavedIsPast' /\ tray'.batch \cap (announced' \cup dropped') = {}
  BY <1>1, <1>3, SameCollected DEF NoticesInv, CursorsFollow, Collected
<1>6. SwitchIsKept'
  <2>1. SUFFICES ASSUME ~interrupted PROVE SwitchIsKept'
    BY <1>1 DEF SwitchIsKept
  <2>2. \A s \in Tables : Acknowledged(s)
    BY <1>1 DEF Acknowledged
  <2> QED
    BY <1>1, <1>3, <2>1, <2>2 DEF NoticesInv, SwitchIsKept, OnFrom
<1> QED  BY <1>4, <1>5, <1>6 DEF NoticesInv

LEMMA ReadLatestStep ==
    ASSUME NoticesInv, NEW s \in Tables, ReadLatest(s)
    PROVE  NoticesInv'
<1>1. /\ UNCHANGED <<rows, stage, cursor, told, initialized, later, setting, announced, dropped,
                     interrupted, failures, toggles>>
      /\ (tray.phase = s /\ cursor[s] = Unset) \/ tray.phase = Ack(s)
      /\ tray.latest = Unset /\ tray' = [tray EXCEPT !.latest = Len(rows[s])]
  BY DEF ReadLatest, database, history
<1>2. NoticesTypeOK /\ tray \in Tray /\ rows[s] \in Seq(TableRow) /\ Len(rows[s]) \in Nat
      /\ Len(rows[s]) \in {Unset, 0} \cup Ids
  BY RowIds DEF NoticesInv, NoticesTypeOK
<1>3. tray' \in Tray /\ tray'.phase = tray.phase /\ tray'.checked = tray.checked
      /\ tray'.latest = Len(rows[s]) /\ tray'.batch = tray.batch
  BY <1>1, <1>2 DEF Tray
<1>4. NoticesTypeOK'
  BY <1>1, <1>2, <1>3 DEF NoticesTypeOK
<1>5. \A t \in Tables : tray.phase \in {t, Ack(t)} => t = s
  <2>1. CASE s = "events"
    BY <1>1, <2>1, PhaseNames
  <2>2. CASE s = "alerts"
    BY <1>1, <2>2, PhaseNames
  <2> QED  BY <2>1, <2>2, PhaseNames
<1>6. CursorsFollow' /\ SavedIsPast' /\ tray'.batch \cap (announced' \cup dropped') = {}
  <2>1. CursorsFollow'
    BY <1>1, <1>2, <1>3, <1>5 DEF NoticesInv, CursorsFollow
  <2> QED  BY <1>1, <1>3, <2>1, SameCollected DEF NoticesInv, Collected
<1>7. SwitchIsKept'
  <2>1. SUFFICES ASSUME ~interrupted PROVE SwitchIsKept'
    BY <1>1 DEF SwitchIsKept
  <2>2. SwitchIsKept
    BY DEF NoticesInv
  <2>3. tray.phase \notin Tables
    <3>1. SUFFICES ASSUME tray.phase = s /\ cursor[s] = Unset PROVE FALSE
      BY <1>1 DEF Tables, Ack
    <3>2. setting /\ Acknowledged(s)
      BY <2>1, <2>2, <3>1 DEF SwitchIsKept, Tables, Acknowledged
    <3> QED  BY <2>1, <2>2, <3>1, <3>2 DEF SwitchIsKept
  <2>4. \A t \in Tables : Acknowledged(t)' <=> Acknowledged(t)
    BY <1>3 DEF Acknowledged
  <2>5. ASSUME NEW t \in Tables, tray'.phase = Ack(t) PROVE OnFrom(t, tray.latest)'
    BY <1>1, <1>2, <1>3, <1>5, <2>5 DEF OnFrom
  <2>6. ASSUME NEW t \in Tables, setting, Acknowledged(t)
        PROVE  cursor'[t] # Unset /\ OnFrom(t, cursor[t])'
    BY <1>1, <2>1, <2>2, <2>6 DEF SwitchIsKept, OnFrom
  <2> QED  BY <1>1, <1>3, <2>1, <2>2, <2>3, <2>4, <2>5, <2>6 DEF SwitchIsKept
<1> QED  BY <1>4, <1>6, <1>7 DEF NoticesInv

LEMMA WriteLatestStep ==
    ASSUME NoticesInv, NEW s \in Tables, WriteLatest(s)
    PROVE  NoticesInv'
<1> DEFINE next == IF tray.phase = s THEN NextPhase(s) ELSE Ack(NextPhase(s))
<1>1. /\ UNCHANGED <<rows, stage, told, initialized, later, setting, announced, dropped,
                     interrupted, failures, toggles>>
      /\ tray.phase \in {s, Ack(s)} /\ tray.latest # Unset
      /\ cursor' = [cursor EXCEPT ![s] = tray.latest] /\ Go(next)
  BY DEF WriteLatest, history
<1>2. NoticesTypeOK /\ tray \in Tray /\ tray.latest \in {Unset, 0} \cup Ids /\ tray.latest \in Int
  BY TrayNow DEF NoticesInv
<1>3. next \in {"alerts", "question", "ack alerts", "ack question"}
      /\ (next = "ack alerts" <=> s = "events" /\ tray.phase = Ack(s))
      /\ (next \in {"alerts", "question"} <=> tray.phase = s)
  <2>1. CASE s = "events"
    BY <1>1, <2>1, PhaseNames
  <2>2. CASE s = "alerts"
    BY <1>1, <2>2, PhaseNames
  <2> QED  BY <2>1, <2>2, PhaseNames
<1> HIDE DEF next
<1>4. tray' \in Tray /\ tray'.phase = next /\ tray'.latest = Unset
      /\ tray'.checked = tray.checked /\ tray'.batch = tray.batch
  BY <1>1, <1>2, <1>3, GoFields
<1>5. cursor' \in [Tables -> {Unset, 0} \cup Ids] /\ cursor'[s] = tray.latest
      /\ \A t \in Tables : t # s => cursor'[t] = cursor[t]
  BY <1>1, <1>2 DEF NoticesTypeOK
<1>6. NoticesTypeOK'
  BY <1>1, <1>2, <1>4, <1>5 DEF NoticesTypeOK
<1>7. cursor[s] <= tray.latest /\ tray.latest <= Len(rows[s])
  BY <1>1 DEF NoticesInv, CursorsFollow
<1>8. CursorsFollow'
  <2>1. tray'.phase \in {"alerts", "question", "show"} \/ tray'.batch = {}
    <3>1. tray.phase = s \/ tray.phase \in {"ack events", "ack alerts"}
      BY <1>1, PhaseNames
    <3>2. CASE tray.phase = s
      BY <1>3, <1>4, <3>2
    <3>3. CASE tray.phase \in {"ack events", "ack alerts"}
      BY <1>4, <3>3 DEF NoticesInv, CursorsFollow
    <3> QED  BY <3>1, <3>2, <3>3
  <2> QED  BY <1>1, <1>4, <1>5, <1>7, <2>1 DEF NoticesInv, CursorsFollow
<1>9. SavedIsPast'
  <2>1. Collected' = Collected
    BY <1>1, <1>4 DEF Collected
  <2>2. ASSUME NEW t \in Tables, NEW i \in Ids, <<t, i>> \in Collected PROVE i <= cursor'[t]
    <3>1. i <= cursor[t] /\ i \in Int /\ cursor[t] \in Int
      BY <1>2, <2>2, RowIds DEF NoticesInv, SavedIsPast
    <3> QED  BY <1>2, <1>5, <1>7, <3>1
  <2> QED  BY <1>1, <2>1, <2>2 DEF NoticesInv, SavedIsPast
<1>10. SwitchIsKept'
  <2>1. SUFFICES ASSUME ~interrupted PROVE SwitchIsKept'
    BY <1>1 DEF SwitchIsKept
  <2>2. SwitchIsKept
    BY DEF NoticesInv
  <2>3. tray.phase # "closed" /\ tray.phase = Ack(s) /\ tray.phase # s
    BY <1>1, <2>1, <2>2, PhaseNames DEF SwitchIsKept
  <2>4. next \in {"ack alerts", "ack question"}
    BY <1>3, <2>3
  <2>5. ASSUME NEW t \in Tables, setting, Acknowledged(t)'
        PROVE  cursor'[t] # Unset /\ OnFrom(t, cursor[t])'
    <3>1. CASE t = s
      <4>1. OnFrom(s, tray.latest)
        BY <1>1, <2>1, <2>2, <2>3, <2>5 DEF SwitchIsKept
      <4> QED  BY <1>1, <1>5, <3>1, <4>1 DEF OnFrom
    <3>2. CASE t # s
      <4>1. s = "alerts" /\ t = "events" /\ tray.phase = "ack alerts"
        BY <1>3, <1>4, <2>3, <2>4, <2>5, <3>2, PhaseNames DEF Acknowledged
      <4>2. Acknowledged(t)
        BY <4>1 DEF Acknowledged
      <4> QED  BY <1>1, <1>5, <2>1, <2>2, <2>5, <3>2, <4>2 DEF SwitchIsKept, OnFrom
    <3> QED  BY <3>1, <3>2
  <2> QED  BY <1>1, <1>4, <2>1, <2>2, <2>3, <2>4, <2>5 DEF SwitchIsKept, Tables
<1> QED  BY <1>1, <1>4, <1>6, <1>8, <1>9, <1>10 DEF NoticesInv

\* The next rows of a table, and the place the cursor moves to.
LEMMA ListedFacts ==
    ASSUME NoticesInv, NEW s \in Tables, cursor[s] # Unset
    PROVE  /\ cursor[s] \in Nat /\ NewCursor(s) \in Nat
           /\ cursor[s] <= NewCursor(s) /\ NewCursor(s) <= Len(rows[s])
           /\ \A i \in Listed(s) : i \in Ids /\ cursor[s] < i /\ i <= NewCursor(s)
                                   /\ i \in 1..Len(rows[s])
<1>1. NoticesTypeOK /\ Len(rows[s]) \in Nat /\ cursor[s] \in Nat /\ cursor[s] <= Len(rows[s])
      /\ PollLimit \in Nat
  <2>1. NoticesTypeOK
    BY DEF NoticesInv
  <2>2. \A i \in Ids : i \in Nat
    BY <2>1, RowIds
  <2>3. cursor[s] \in {0} \cup Ids
    BY <2>1, TrayNow
  <2> QED  BY <2>1, <2>2, <2>3, RowIds, NoticesAssumption DEF NoticesInv, CursorsFollow
<1> DEFINE last == Least(cursor[s] + PollLimit, Len(rows[s]))
<1>2. last \in Nat /\ cursor[s] <= last /\ last <= Len(rows[s])
  BY <1>1 DEF Least
<1>3. Listed(s) = (cursor[s] + 1)..last
  BY DEF Listed
<1> HIDE DEF last
<1>4. \A i \in Listed(s) : i \in Ids /\ cursor[s] < i /\ i <= last /\ i \in 1..Len(rows[s])
  <2>1. ASSUME NEW i \in Listed(s)
        PROVE  cursor[s] < i /\ i <= last /\ i \in 1..Len(rows[s])
    BY <1>1, <1>2, <1>3
  <2>2. \A i \in 1..Len(rows[s]) : i \in Ids
    <3>1. Len(rows[s]) <= MaxTableRows[s] /\ MaxTableRows[s] \in Nat
      BY <1>1, NoticesAssumption DEF NoticesTypeOK
    <3>2. \A i \in 1..Len(rows[s]) : i \in 1..MaxTableRows[s]
      BY <1>1, <3>1
    <3> QED  BY <1>1, <3>2, RowIds
  <2> QED  BY <2>1, <2>2
<1>5. CASE Listed(s) = {}
  BY <1>1, <1>2, <1>4, <1>5 DEF NewCursor
<1>6. CASE Listed(s) # {}
  <2>1. last \in Listed(s)
    BY <1>1, <1>2, <1>3, <1>6
  <2>2. NewCursor(s) = CHOOSE i \in Listed(s) : \A j \in Listed(s) : j <= i
    BY <1>6 DEF NewCursor
  <2>3. \E i \in Listed(s) : \A j \in Listed(s) : j <= i
    BY <1>4, <2>1
  <2>4. NewCursor(s) \in Listed(s) /\ \A j \in Listed(s) : j <= NewCursor(s)
    BY <2>2, <2>3
  <2>5. NewCursor(s) \in 1..Len(rows[s]) /\ cursor[s] < NewCursor(s)
    BY <1>4, <2>4
  <2> QED  BY <1>1, <1>4, <2>4, <2>5
<1> QED  BY <1>5, <1>6

LEMMA PollTableStep ==
    ASSUME NoticesInv, NEW s \in Tables, PollTable(s)
    PROVE  NoticesInv'
<1> DEFINE new == {<<s, i>> : i \in {i \in Listed(s) : rows[s][i].noted}}
<1>1. /\ UNCHANGED <<rows, stage, told, initialized, later, setting, announced, dropped,
                     interrupted, failures, toggles>>
      /\ tray.phase = s /\ cursor[s] # Unset /\ tray.latest = Unset
      /\ cursor' = [cursor EXCEPT ![s] = NewCursor(s)]
      /\ tray' = [tray EXCEPT !.phase = NextPhase(s), !.batch = @ \cup new]
  BY DEF PollTable, history
<1>2. NoticesTypeOK /\ tray \in Tray
  BY DEF NoticesInv, NoticesTypeOK
<1>3. /\ cursor[s] \in Nat /\ NewCursor(s) \in Nat
      /\ cursor[s] <= NewCursor(s) /\ NewCursor(s) <= Len(rows[s])
      /\ \A i \in Listed(s) : /\ i \in Ids /\ cursor[s] < i /\ i <= NewCursor(s)
                              /\ i \in 1..Len(rows[s])
  BY <1>1, ListedFacts
<1>4. new \subseteq Notices
  BY <1>3 DEF Notices
<1>5. \A n \in new : \E i \in Listed(s) : n = <<s, i>>
  OBVIOUS
<1> HIDE DEF new
<1>6. NextPhase(s) \in {"alerts", "question"} /\ (s = "events" \/ s = "alerts")
  BY PhaseNames
<1>7. tray' \in Tray /\ tray'.phase = NextPhase(s) /\ tray'.latest = Unset
      /\ tray'.checked = tray.checked /\ tray'.batch = tray.batch \cup new
  BY <1>1, <1>2, <1>4, <1>6 DEF Tray
<1>8. cursor' \in [Tables -> {Unset, 0} \cup Ids] /\ cursor'[s] = NewCursor(s)
      /\ \A t \in Tables : t # s => cursor'[t] = cursor[t]
  <2>1. NewCursor(s) \in {Unset, 0} \cup Ids
    BY <1>2, <1>3, RowIds
  <2> QED  BY <1>1, <1>2, <2>1 DEF NoticesTypeOK
<1>9. NoticesTypeOK'
  BY <1>1, <1>2, <1>7, <1>8 DEF NoticesTypeOK
<1>10. CursorsFollow'
  BY <1>1, <1>3, <1>6, <1>7, <1>8 DEF NoticesInv, CursorsFollow
<1>11. Collected' = Collected \cup new
  BY <1>1, <1>7 DEF Collected
<1>12. SavedIsPast'
  <2>1. ASSUME NEW t \in Tables, NEW i \in Ids, <<t, i>> \in Collected' PROVE i <= cursor'[t]
    <3>1. CASE <<t, i>> \in Collected
      <4>1. i <= cursor[t] /\ i \in Int /\ cursor[t] \in Int
        BY <1>2, <3>1, RowIds DEF NoticesInv, SavedIsPast
      <4> QED  BY <1>3, <1>8, <4>1
    <3>2. CASE <<t, i>> \in new
      <4>1. t = s /\ i \in Listed(s)
        BY <1>5, <3>2
      <4> QED  BY <1>3, <1>8, <4>1
    <3> QED  BY <1>11, <2>1, <3>1, <3>2
  <2>2. ASSUME NEW st \in Stages, <<"question", st>> \in Collected'
        PROVE  st # "none" /\ Rank(st) <= Rank(told)
    <3>1. <<"question", st>> \notin new
      BY <1>5 DEF Tables
    <3> QED  BY <1>11, <2>2, <3>1 DEF NoticesInv, SavedIsPast
  <2>3. Rank(told') <= Rank(stage')
    BY <1>1 DEF NoticesInv, SavedIsPast
  <2> QED  BY <1>1, <2>1, <2>2, <2>3 DEF SavedIsPast
<1>13. tray'.batch \cap (announced' \cup dropped') = {}
  <2>1. ASSUME NEW n \in new PROVE n \notin Collected
    <3>1. PICK i \in Listed(s) : n = <<s, i>>
      BY <1>5
    <3>2. i \in Ids /\ i \in Int /\ cursor[s] < i /\ cursor[s] \in Int
      BY <1>2, <1>3, RowIds
    <3>3. <<s, i>> \in Collected => i <= cursor[s]
      BY <3>2 DEF NoticesInv, SavedIsPast
    <3> QED  BY <3>1, <3>2, <3>3
  <2> QED  BY <1>1, <1>7, <2>1 DEF NoticesInv, Collected
<1>14. SwitchIsKept'
  <2>1. SUFFICES ASSUME ~interrupted PROVE SwitchIsKept'
    BY <1>1 DEF SwitchIsKept
  <2>2. SwitchIsKept
    BY DEF NoticesInv
  <2>3. setting /\ tray.checked /\ tray.phase \in Tables /\ tray.phase # "closed"
        /\ tray.checked = setting
    BY <1>1, <2>1, <2>2 DEF SwitchIsKept, Tables
  <2>4. \A t \in Tables : Acknowledged(t)
    BY <2>3 DEF Acknowledged, Tables
  <2>5. ASSUME NEW t \in Tables PROVE cursor'[t] # Unset /\ OnFrom(t, cursor[t])'
    <3>1. cursor[t] # Unset /\ OnFrom(t, cursor[t]) /\ cursor[t] \in Int
      BY <1>2, <2>1, <2>2, <2>3, <2>4, TrayNow DEF SwitchIsKept
    <3>2. cursor'[t] \in Int /\ cursor[t] <= cursor'[t] /\ cursor'[t] # Unset
      BY <1>3, <1>8, <3>1 DEF Unset
    <3>3. \A i \in 1..Len(rows[t]) : i > cursor'[t] => i > cursor[t]
      BY <3>1, <3>2
    <3> QED  BY <1>1, <3>1, <3>2, <3>3 DEF OnFrom
  <2>6. ASSUME NEW t \in Tables, NEW i \in 1..Len(rows[t]), <<t, i>> \in tray'.batch
        PROVE  rows[t][i].on
    <3>1. CASE <<t, i>> \in tray.batch
      BY <2>1, <2>2, <3>1 DEF SwitchIsKept
    <3>2. CASE <<t, i>> \in new
      <4>1. t = s /\ i \in Listed(s)
        BY <1>5, <3>2
      <4>2. OnFrom(s, cursor[s])
        BY <2>1, <2>2, <2>3, <2>4 DEF SwitchIsKept
      <4>3. i > cursor[s]
        BY <1>3, <4>1
      <4> QED  BY <2>6, <4>1, <4>2, <4>3 DEF OnFrom
    <3> QED  BY <1>7, <2>6, <3>1, <3>2
  <2>7. \A t \in Tables : tray'.phase # Ack(t) /\ tray'.phase # "closed"
    BY <1>6, <1>7, PhaseNames
  <2> QED  BY <1>1, <1>7, <2>1, <2>2, <2>3, <2>5, <2>6, <2>7 DEF SwitchIsKept
<1> QED  BY <1>9, <1>10, <1>12, <1>13, <1>14 DEF NoticesInv

LEMMA PollQuestionStep ==
    ASSUME NoticesInv, PollQuestion
    PROVE  NoticesInv'
<1> DEFINE new == IF stage # told /\ HasNotice THEN {<<"question", stage>>} ELSE {}
<1>1. /\ UNCHANGED <<rows, stage, cursor, later, setting, announced, dropped, interrupted, failures, toggles>>
      /\ tray.phase = "question" /\ initialized' = TRUE /\ told' = stage
      /\ tray' = [tray EXCEPT !.phase = "show",
                    !.batch = IF stage # told /\ HasNotice THEN @ \cup {<<"question", stage>>} ELSE @]
  BY DEF PollQuestion, history
<1>2. NoticesTypeOK /\ tray \in Tray /\ stage \in Stages /\ told \in Stages
  BY DEF NoticesInv, NoticesTypeOK
<1>3. new \subseteq {<<"question", stage>>} /\ new \subseteq Notices /\ (new # {} => stage # told)
  BY <1>2 DEF Notices
<1>4. tray' \in Tray /\ tray'.phase = "show" /\ tray'.latest = tray.latest
      /\ tray'.checked = tray.checked /\ tray'.batch = tray.batch \cup new
  <2>1. tray' = [tray EXCEPT !.phase = "show", !.batch = @ \cup new]
    <3>1. CASE stage # told /\ HasNotice
      BY <1>1, <3>1
    <3>2. CASE ~(stage # told /\ HasNotice)
      <4>1. new = {} /\ tray.batch \cup new = tray.batch
        BY <3>2
      <4>2. tray' = [tray EXCEPT !.phase = "show", !.batch = @]
        BY <1>1, <3>2
      <4> HIDE DEF new
      <4> QED  BY <4>1, <4>2
    <3> QED  BY <3>1, <3>2
  <2> HIDE DEF new
  <2> QED  BY <1>2, <1>3, <2>1 DEF Tray
<1> HIDE DEF new
<1>5. Collected' = Collected \cup new
  BY <1>1, <1>4 DEF Collected
<1>6. NoticesTypeOK'
  BY <1>1, <1>2, <1>4 DEF NoticesTypeOK
<1>7. CursorsFollow'
  <2>1. tray'.latest = Unset
    BY <1>1, <1>4, LatestIsRead
  <2> QED  BY <1>1, <1>4, <2>1 DEF NoticesInv, CursorsFollow
<1>8. Rank(told) <= Rank(stage) /\ Rank(stage) \in Nat /\ Rank(told) \in Nat
      /\ (stage # told => stage # "none" /\ Rank(told) < Rank(stage))
      /\ \A st \in Stages : Rank(st) \in Nat
  <2>1. Rank(told) <= Rank(stage)
    BY DEF NoticesInv, SavedIsPast
  <2> QED  BY <1>2, <2>1 DEF Rank, Stages
<1>9. SavedIsPast'
  <2>1. \A s \in Tables, i \in Ids : <<s, i>> \notin new
    BY <1>3 DEF Tables
  <2>2. ASSUME NEW st \in Stages, <<"question", st>> \in Collected'
        PROVE  st # "none" /\ Rank(st) <= Rank(stage)
    <3>1. CASE <<"question", st>> \in Collected
      <4>1. st # "none" /\ Rank(st) <= Rank(told)
        BY <3>1 DEF NoticesInv, SavedIsPast
      <4> QED  BY <1>8, <4>1
    <3>2. CASE <<"question", st>> \in new
      BY <1>3, <1>8, <3>2
    <3> QED  BY <1>5, <2>2, <3>1, <3>2
  <2> QED  BY <1>1, <1>5, <1>8, <2>1, <2>2 DEF NoticesInv, SavedIsPast
<1>10. tray'.batch \cap (announced' \cup dropped') = {}
  <2>1. ASSUME NEW n \in new PROVE n \notin Collected
    <3>1. n = <<"question", stage>> /\ stage # told
      BY <1>3
    <3>2. n \in Collected => Rank(stage) <= Rank(told)
      BY <1>2, <3>1 DEF NoticesInv, SavedIsPast
    <3>3. Rank(told) < Rank(stage) /\ Rank(stage) \in Nat /\ Rank(told) \in Nat
      BY <1>8, <3>1
    <3>4. ~(Rank(stage) <= Rank(told))
      BY <3>3
    <3> QED  BY <3>2, <3>4
  <2> QED  BY <1>1, <1>4, <2>1 DEF NoticesInv, Collected
<1>11. SwitchIsKept'
  <2>1. SUFFICES ASSUME ~interrupted PROVE SwitchIsKept'
    BY <1>1 DEF SwitchIsKept
  <2>2. SwitchIsKept /\ \A t \in Tables : Acknowledged(t)
    BY <1>1 DEF NoticesInv, Acknowledged
  <2>3. \A t \in Tables : \A i : <<t, i>> \notin new
    BY <1>3 DEF Tables
  <2>4. \A t \in Tables : tray'.phase # Ack(t) /\ tray'.phase # t
    BY <1>4, PhaseNames
  <2> QED  BY <1>1, <1>4, <2>1, <2>2, <2>3, <2>4 DEF SwitchIsKept, OnFrom
<1> QED  BY <1>6, <1>7, <1>9, <1>10, <1>11 DEF NoticesInv

LEMMA ShowStep ==
    ASSUME NoticesInv, Show
    PROVE  NoticesInv'
<1>1. /\ UNCHANGED <<rows, stage, cursor, told, initialized, later, setting, dropped, interrupted,
                     failures, toggles>>
      /\ tray.phase = "show" /\ announced' = announced \cup tray.batch
      /\ tray' = [tray EXCEPT !.phase = "idle", !.batch = {}]
  BY DEF Show, database
<1>2. NoticesTypeOK /\ tray \in Tray /\ tray.batch \in SUBSET Notices
  BY TrayNow DEF NoticesInv, NoticesTypeOK
<1>3. tray' \in Tray /\ tray'.phase = "idle" /\ tray'.latest = tray.latest
      /\ tray'.checked = tray.checked /\ tray'.batch = {}
  BY <1>1, <1>2 DEF Tray
<1>4. NoticesTypeOK'
  BY <1>1, <1>2, <1>3 DEF NoticesTypeOK
<1>5. Collected' = Collected
  BY <1>1, <1>3 DEF Collected
<1>6. SavedIsPast' /\ tray'.batch \cap (announced' \cup dropped') = {}
  BY <1>1, <1>3, <1>5, SameCollected
<1>7. \A s \in Tables : "idle" # s /\ "idle" # Ack(s)
  BY PhaseNames
<1>8. CursorsFollow'
  <2>1. tray'.latest = Unset
    BY <1>1, <1>3, LatestIsRead
  <2> QED  BY <1>1, <1>3, <2>1 DEF NoticesInv, CursorsFollow
<1>9. SwitchIsKept'
  <2>1. SUFFICES ASSUME ~interrupted PROVE SwitchIsKept'
    BY <1>1 DEF SwitchIsKept
  <2>2. SwitchIsKept /\ \A t \in Tables : Acknowledged(t)
    BY <1>1 DEF NoticesInv, Acknowledged
  <2> QED  BY <1>1, <1>3, <1>7, <2>1, <2>2 DEF SwitchIsKept, OnFrom
<1> QED  BY <1>4, <1>6, <1>8, <1>9 DEF NoticesInv

LEMMA ToggleStep ==
    ASSUME NoticesInv, Toggle
    PROVE  NoticesInv'
<1>1. /\ UNCHANGED <<rows, stage, cursor, told, initialized, later, announced, dropped, failures>>
      /\ interrupted' = FALSE
      /\ tray.phase = "idle" /\ toggles < MaxToggles /\ toggles' = toggles + 1
      /\ setting' = ~tray.checked
      /\ tray' = [tray EXCEPT !.phase = "ack events", !.checked = ~@]
  BY DEF Toggle, database, history
<1>2. NoticesTypeOK /\ tray \in Tray /\ tray.checked \in BOOLEAN /\ toggles \in 0..MaxToggles
  BY TrayNow DEF NoticesInv, NoticesTypeOK
<1>3. tray' \in Tray /\ tray'.phase = "ack events" /\ tray'.latest = tray.latest
      /\ tray'.checked = setting' /\ tray'.batch = tray.batch
  BY <1>1, <1>2 DEF Tray
<1>4. tray.latest = Unset
  BY <1>1, LatestIsRead
<1>5. NoticesTypeOK'
  <2>1. toggles' \in 0..MaxToggles
    BY <1>1, <1>2, NoticesAssumption
  <2>2. setting' \in BOOLEAN
    BY <1>1
  <2> QED  BY <1>1, <1>2, <1>3, <2>1, <2>2 DEF NoticesTypeOK
<1>6. SavedIsPast' /\ tray'.batch \cap (announced' \cup dropped') = {}
  BY <1>1, <1>3, SameCollected DEF NoticesInv, Collected
<1>7. CursorsFollow'
  BY <1>1, <1>3, <1>4 DEF NoticesInv, CursorsFollow
<1>8. SwitchIsKept'
  <2>1. \A t \in Tables : tray'.phase # t /\ ~Acknowledged(t)'
    BY <1>3, PhaseNames DEF Acknowledged
  <2>2. tray'.batch = {} /\ tray'.latest = Unset
    BY <1>1, <1>3, <1>4 DEF NoticesInv, CursorsFollow
  <2> QED  BY <1>1, <1>3, <2>1, <2>2 DEF SwitchIsKept
<1> QED  BY <1>5, <1>6, <1>7, <1>8 DEF NoticesInv

LEMMA AckQuestionStep ==
    ASSUME NoticesInv, AcknowledgeQuestion
    PROVE  NoticesInv'
<1>1. /\ UNCHANGED <<rows, stage, cursor, setting, announced, dropped, interrupted, failures, toggles>>
      /\ tray.phase = "ack question" /\ initialized' = TRUE /\ later' = FALSE
      /\ told' = stage /\ Go("idle")
  BY DEF AcknowledgeQuestion, history
<1>2. NoticesTypeOK /\ tray \in Tray /\ stage \in Stages /\ told \in Stages
  BY DEF NoticesInv, NoticesTypeOK
<1>3. tray' \in Tray /\ tray'.phase = "idle" /\ tray'.latest = Unset
      /\ tray'.checked = tray.checked /\ tray'.batch = tray.batch
  BY <1>1, <1>2, GoFields
<1>4. NoticesTypeOK'
  BY <1>1, <1>2, <1>3 DEF NoticesTypeOK
<1>5. CursorsFollow' /\ tray'.batch \cap (announced' \cup dropped') = {}
  BY <1>1, <1>3 DEF NoticesInv, CursorsFollow
<1>6. SavedIsPast'
  <2>1. Collected' = Collected
    BY <1>1, <1>3 DEF Collected
  <2>2. Rank(told) <= Rank(stage) /\ Rank(told) \in Nat /\ Rank(stage) \in Nat
        /\ \A st \in Stages : Rank(st) \in Nat
    BY <1>2 DEF NoticesInv, SavedIsPast, Rank, Stages
  <2>3. ASSUME NEW st \in Stages, <<"question", st>> \in Collected
        PROVE  st # "none" /\ Rank(st) <= Rank(stage)
    <3>1. st # "none" /\ Rank(st) <= Rank(told)
      BY <2>3 DEF NoticesInv, SavedIsPast
    <3> QED  BY <2>2, <3>1
  <2>4. Rank(told') <= Rank(stage')
    <3>1. Rank(stage) <= Rank(stage)
      BY <2>2
    <3>2. told' = stage /\ stage' = stage
      BY <1>1
    <3> QED  BY <3>1, <3>2
  <2>5. \A s \in Tables, i \in Ids : <<s, i>> \in Collected => i <= cursor[s]
    BY DEF NoticesInv, SavedIsPast
  <2> QED  BY <1>1, <2>1, <2>3, <2>4, <2>5 DEF SavedIsPast
<1>7. SwitchIsKept'
  <2>1. SUFFICES ASSUME ~interrupted PROVE SwitchIsKept'
    BY <1>1 DEF SwitchIsKept
  <2>2. SwitchIsKept /\ (\A t \in Tables : Acknowledged(t)) /\ tray'.phase \notin Tables
    BY <1>1, <1>3 DEF NoticesInv, Acknowledged, Tables
  <2> QED  BY <1>1, <1>3, <2>1, <2>2 DEF SwitchIsKept, OnFrom
<1> QED  BY <1>4, <1>5, <1>6, <1>7 DEF NoticesInv

\* After a failure the tray is idle or gone and holds nothing. The switch is as it
\* was unless its use was interrupted, when nothing more is said of it.
LEMMA AfterFailure ==
    ASSUME NoticesInv, UNCHANGED <<rows, stage, cursor, told, initialized, later, setting,
                                   announced, toggles>>,
           failures < MaxFailures, failures' = failures + 1,
           dropped' = dropped \cup tray.batch,
           interrupted' = (interrupted \/ Acknowledging), tray.phase # "closed",
           tray' \in Tray, tray'.latest = Unset, tray'.batch = {},
           \/ tray'.phase = "closed"
           \/ tray'.phase = "idle" /\ (~Acknowledging => tray'.checked = tray.checked)
    PROVE  NoticesInv'
<1>1. NoticesTypeOK /\ tray.batch \in SUBSET Notices /\ failures \in Nat
  BY TrayNow, NoticesAssumption DEF NoticesInv, NoticesTypeOK
<1>2. NoticesTypeOK'
  <2>1. failures' \in 0..MaxFailures
    BY <1>1, NoticesAssumption
  <2> QED  BY <1>1, <2>1 DEF NoticesTypeOK
<1>3. Collected' = Collected
  BY DEF Collected
<1>4. SavedIsPast' /\ tray'.batch \cap (announced' \cup dropped') = {}
  BY <1>3, SameCollected
<1>5. CursorsFollow'
  BY DEF NoticesInv, CursorsFollow
<1>6. SwitchIsKept'
  <2>1. SUFFICES ASSUME ~interrupted' PROVE SwitchIsKept'
    BY DEF SwitchIsKept
  <2>2. SwitchIsKept /\ ~interrupted /\ ~Acknowledging
    BY <2>1 DEF NoticesInv
  <2>3. \A t \in Tables : Acknowledged(t) /\ tray'.phase # Ack(t) /\ tray'.phase # t
    BY <2>2, PhaseNames DEF Acknowledging, Acknowledged
  <2> QED  BY <2>1, <2>2, <2>3 DEF SwitchIsKept, OnFrom
<1> QED  BY <1>2, <1>4, <1>5, <1>6 DEF NoticesInv

LEMMA SessionStep ==
    ASSUME NoticesInv, SessionFails
    PROVE  NoticesInv'
<1>1. tray \in Tray /\ tray.checked \in BOOLEAN
  BY TrayNow DEF NoticesInv
<1>2. tray' = [tray EXCEPT !.phase = "idle", !.latest = Unset, !.batch = {},
                 !.checked = IF Acknowledging THEN ~@ ELSE @]
  BY DEF SessionFails
<1>3. /\ tray' \in Tray /\ tray'.latest = Unset /\ tray'.batch = {}
      /\ tray'.phase = "idle" /\ (~Acknowledging => tray'.checked = tray.checked)
  BY <1>1, <1>2 DEF Tray
<1> QED  BY <1>3, AfterFailure DEF SessionFails, database

LEMMA DeathStep ==
    ASSUME NoticesInv, TrayDies
    PROVE  NoticesInv'
<1>1. tray' \in Tray /\ tray'.latest = Unset /\ tray'.batch = {} /\ tray'.phase = "closed"
  BY DEF TrayDies, Tray
<1> QED  BY <1>1, AfterFailure DEF TrayDies, database

LEMMA NoticesStep == NoticesInv /\ [NoticesNext]_noticeVars => NoticesInv'
<1> SUFFICES ASSUME NoticesInv, [NoticesNext]_noticeVars PROVE NoticesInv'
  OBVIOUS
<1>1. CASE \E s \in Tables, noted \in BOOLEAN : RecordRow(s, noted)  BY <1>1, RowStep
<1>2. CASE QuestionMoves  BY <1>2, QuestionStep
<1>3. CASE StartTray  BY <1>3, StartTrayStep
<1>4. CASE StartPoll  BY <1>4, StartPollStep
<1>5. CASE PollQuestion  BY <1>5, PollQuestionStep
<1>6. CASE Show  BY <1>6, ShowStep
<1>7. CASE AcknowledgeQuestion  BY <1>7, AckQuestionStep
<1>8. CASE \E s \in Tables : ReadLatest(s)  BY <1>8, ReadLatestStep
<1>9. CASE \E s \in Tables : WriteLatest(s)  BY <1>9, WriteLatestStep
<1>10. CASE \E s \in Tables : PollTable(s)  BY <1>10, PollTableStep
<1>11. CASE Toggle  BY <1>11, ToggleStep
<1>12. CASE SessionFails  BY <1>12, SessionStep
<1>13. CASE TrayDies  BY <1>13, DeathStep
<1>14. CASE UNCHANGED noticeVars
  BY <1>14 DEF noticeVars, NoticesInv, NoticesTypeOK, CursorsFollow, SavedIsPast, Collected,
     SwitchIsKept, Acknowledged, OnFrom
<1> QED
  BY <1>1, <1>2, <1>3, <1>4, <1>5, <1>6, <1>7, <1>8, <1>9, <1>10, <1>11, <1>12, <1>13, <1>14
     DEF NoticesNext, TrayCycle

LEMMA NoticesStart == NoticesInit => NoticesInv
<1> SUFFICES ASSUME NoticesInit PROVE NoticesInv
  OBVIOUS
<1>1. \A s \in Tables : rows[s] = <<>> /\ Len(rows[s]) = 0 /\ cursor[s] = Unset
  BY DEF NoticesInit
<1>2. tray.batch = {} /\ announced = {} /\ dropped = {} /\ tray.phase = "closed"
      /\ tray.latest = Unset /\ tray.checked = FALSE
  BY DEF NoticesInit
<1>3. NoticesTypeOK
  <2>1. rows \in [Tables -> Seq(TableRow)] /\ cursor \in [Tables -> {Unset, 0} \cup Ids]
        /\ tray \in Tray
    BY DEF NoticesInit, Tray
  <2>2. \A s \in Tables : Len(rows[s]) <= MaxTableRows[s]
    <3>1. \A s \in Tables : MaxTableRows[s] \in Nat
      BY NoticesAssumption
    <3> QED  BY <1>1, <3>1
  <2>3. 0 \in 0..MaxFailures /\ 0 \in 0..MaxToggles
    BY NoticesAssumption
  <2> QED  BY <1>2, <2>1, <2>2, <2>3 DEF NoticesInit, NoticesTypeOK, Stages
<1>4. CursorsFollow /\ SavedIsPast
  BY <1>1, <1>2 DEF NoticesInit, CursorsFollow, SavedIsPast, Collected, Rank, Unset
<1>5. SwitchIsKept
  BY <1>1, <1>2 DEF NoticesInit, SwitchIsKept, Tables, Acknowledged
<1> QED  BY <1>2, <1>3, <1>4, <1>5 DEF NoticesInv

LEMMA NoticesInvariant == NoticesInit /\ [][NoticesNext]_noticeVars => []NoticesInv
BY NoticesStart, NoticesStep, PTL

\* Every variable of the tables, the cursors and the tray keeps its type.
THEOREM NoticesTypeCorrect == NoticesSpec => []NoticesTypeOK
<1>1. NoticesInv => NoticesTypeOK
  BY DEF NoticesInv
<1> QED  BY <1>1, NoticesInvariant, PTL DEF NoticesSpec

LEMMA NoticesAnswer == NoticesInv => NoticesAreNew
<1>1. SUFFICES ASSUME NoticesInv, NEW n \in Collected, n[1] \in Tables
               PROVE  n[2] <= cursor[n[1]]
  BY DEF NoticesInv, NoticesAreNew, Collected
<1>2. n \in Notices
  BY <1>1, TrayNow DEF NoticesInv, NoticesTypeOK, Collected
<1>3. PICK s \in Tables, i \in Ids : n = <<s, i>>
  BY <1>1, <1>2 DEF Notices, Tables
<1> QED  BY <1>1, <1>3 DEF NoticesInv, SavedIsPast

\* Only Show announces, and it announces what was collected.
LEMMA AnnouncedStep ==
    ASSUME NoticesInv, [NoticesNext]_noticeVars, ~interrupted,
           NEW s \in Tables, NEW i \in 1..Len(rows[s]),
           <<s, i>> \in announced' \ announced
    PROVE  rows[s][i].on
<1>1. CASE Show
  <2>1. <<s, i>> \in tray.batch
    BY <1>1 DEF Show
  <2> QED  BY <2>1 DEF NoticesInv, SwitchIsKept
<1>2. CASE announced' = announced
  BY <1>2
<1>3. CASE TrayCycle /\ ~Show
  <2>1. announced' = announced
    BY <1>3 DEF TrayCycle, StartPoll, PollQuestion, AcknowledgeQuestion, ReadLatest,
                WriteLatest, PollTable, history
  <2> QED  BY <1>2, <2>1
<1>4. CASE ~TrayCycle
  <2>1. announced' = announced
    BY <1>4 DEF NoticesNext, RecordRow, QuestionMoves, StartTray, Toggle, SessionFails,
                TrayDies, history, noticeVars
  <2> QED  BY <1>2, <2>1
<1> QED  BY <1>1, <1>3, <1>4

LEMMA OffStaysOff == NoticesInit /\ [][NoticesNext]_noticeVars => NoBacklog
<1>1. NoticesInv /\ [NoticesNext]_noticeVars =>
        [ ~interrupted =>
             \A s \in Tables : \A i \in 1..Len(rows[s]) :
                <<s, i>> \in announced' \ announced => rows[s][i].on ]_noticeVars
  BY AnnouncedStep
<1> QED  BY <1>1, NoticesInvariant, PTL DEF NoBacklog

\* Whatever fails, however often the tray dies and whoever records meanwhile, a
\* notice that was collected is never collected again.
THEOREM NoticesOnce == NoticesSpec => []NoticesAreNew
BY NoticesAnswer, NoticesInvariant, PTL DEF NoticesSpec

\* A row recorded while the notifications are switched off is never announced,
\* whatever fails, however often the tray is restarted, however the box is used
\* and however many rows there are, unless the last use of the box was interrupted.
THEOREM OffIsOff == NoticesSpec => NoBacklog
BY OffStaysOff, PTL DEF NoticesSpec

-----------------------------------------------------------------------------
(* ScheduledPrompt: the prompt is sent at most once for each time it was armed,*)
(* unless a save put an older state of it back.                               *)

\* One arming can still lead to a transport when a slot is armed, or when the
\* timer has claimed it and not yet sent it. The legacy schedule and the rule
\* made of it are never armed together.
Armed(p)  == IF \E s \in Slots : p.slot[s] = "armed" THEN 1 ELSE 0
Claimed   == IF cycle.phase = "sending" THEN 1 ELSE 0
OneForm(p) == p.slot["legacy"] = "disabled" \/ p.slot["rule"] = "none"

\* What the timer holds is what it saw before it claims and before it completes;
\* it claims within the bound on transports.
TimerHolds ==
    /\ cycle.phase \in {"claiming", "sending"} => sends < MaxSends
    /\ cycle.phase = "claiming" => cycle.held.slot[cycle.slot] = "armed"
    /\ cycle.phase = "completing" => cycle.held.slot[cycle.slot] = "dispatching"

\* The inductive invariant: the transports begun, and those an arming can still
\* lead to, are no more than the armings.
ScheduleInv ==
    /\ ScheduleTypeOK /\ TimerHolds
    /\ ~overwritten => /\ OneForm(profile)
                       /\ sends + Armed(profile) + Claimed <= armings

LEMMA ProfileFields ==
    ASSUME NEW p \in Profile
    PROVE  /\ p.automation \in BOOLEAN /\ p.slot \in [Slots -> SlotStates]
           /\ \A s \in Slots : p.slot[s] \in SlotStates
BY DEF Profile

LEMMA ProfileUpdate ==
    ASSUME NEW p \in Profile, NEW s \in Slots, NEW state \in SlotStates
    PROVE  /\ [p EXCEPT !.slot[s] = state] \in Profile
           /\ [p EXCEPT !.slot[s] = state].slot = [p.slot EXCEPT ![s] = state]
BY DEF Profile

LEMMA TimerFields ==
    ASSUME NEW c \in Timer
    PROVE  /\ c.phase \in {"idle", "rules", "claiming", "sending", "sent", "completing"}
           /\ c.slot \in Slots /\ c.held \in Profile
           /\ c.result \in {"dispatch_started", "failed_or_uncertain"}
BY DEF Timer

LEMMA LegacyProfile == Legacy \in Profile /\ Rested \in Timer /\ Closed \in Editor /\ Away \in Writer
<1>1. Legacy \in Profile
  <2>1. [s \in Slots |-> IF s = "legacy" THEN "armed" ELSE "none"] \in [Slots -> SlotStates]
    BY DEF SlotStates
  <2> QED  BY <2>1 DEF Legacy, Profile
<1> QED  BY <1>1 DEF Rested, Timer, Closed, Editor, Away, Writer, Slots

\* A copy of the profile counts as many tokens as another with the same slots.
LEMMA SameSlots ==
    ASSUME NEW p, NEW q, p.slot = q.slot
    PROVE  Armed(p) = Armed(q) /\ (OneForm(p) <=> OneForm(q))
BY DEF Armed, OneForm

LEMMA TokenTypes ==
    ASSUME ScheduleTypeOK
    PROVE  /\ armings \in Nat /\ sends \in Nat
           /\ \A p : Armed(p) \in 0..1
BY ScheduleAssumption DEF ScheduleTypeOK, Armed

\* A step that leaves the file alone and begins no transport keeps the count
\* unless it brings the timer to "sending".
LEMMA FileIsKept ==
    ASSUME ScheduleInv, KeepsFile, UNCHANGED sends,
           armings' = armings, cycle'.phase # "sending"
    PROVE  ~overwritten' => OneForm(profile') /\ sends' + Armed(profile') + Claimed' <= armings'
BY TokenTypes DEF ScheduleInv, KeepsFile, Claimed, OneForm, Armed

\* A save that is not over a newer file starts from the slots that are saved.
LEMMA SavedOverSame ==
    ASSUME NEW settings, NEW base, Replace(settings, base), ~overwritten'
    PROVE  profile' = settings /\ ~overwritten /\ profile.slot = base.slot
BY DEF Replace

LEMMA HeldProfile ==
    ASSUME ScheduleTypeOK, NEW state \in SlotStates
    PROVE  /\ Held(state) \in Profile
           /\ Held(state).slot = [cycle.held.slot EXCEPT ![cycle.slot] = state]
<1>1. cycle.held \in Profile /\ cycle.slot \in Slots
  BY TimerFields DEF ScheduleTypeOK
<1> QED  BY <1>1, ProfileUpdate DEF Held

LEMMA ConditionStep ==
    ASSUME ScheduleInv, ConditionChanges
    PROVE  ScheduleInv'
<1>1. ScheduleTypeOK' /\ TimerHolds'
  BY DEF ConditionChanges, KeepsFile, ScheduleInv, ScheduleTypeOK, TimerHolds
<1> QED  BY <1>1 DEF ConditionChanges, KeepsFile, ScheduleInv, Claimed, OneForm, Armed

LEMMA LooksStep ==
    ASSUME ScheduleInv, NEW s \in Slots, LooksAt(s)
    PROVE  ScheduleInv'
<1>1. cycle' \in Timer /\ cycle'.phase \in {"idle", "rules", "claiming"}
      /\ (cycle'.phase = "claiming" =>
             sends < MaxSends /\ cycle'.held.slot[cycle'.slot] = "armed")
  <2>1. cycle \in Timer /\ profile \in Profile
    BY DEF ScheduleInv, ScheduleTypeOK
  <2>2. CASE profile.slot[s] = "armed" /\ profile.automation /\ reached
    <3>1. cycle' = [cycle EXCEPT !.phase = "claiming", !.slot = s, !.held = profile]
          /\ sends < MaxSends
      BY <2>2 DEF LooksAt
    <3> QED  BY <2>1, <2>2, <3>1 DEF Timer
  <2>3. CASE ~(profile.slot[s] = "armed" /\ profile.automation /\ reached)
    <3>1. cycle' = [Rested EXCEPT !.phase = IF s = "legacy" THEN "rules" ELSE "idle"]
      BY <2>3 DEF LooksAt
    <3> QED  BY <3>1, LegacyProfile DEF Timer, Rested
  <2> QED  BY <2>2, <2>3
<1>2. ScheduleTypeOK'
  BY <1>1 DEF LooksAt, KeepsFile, ScheduleInv, ScheduleTypeOK
<1>3. TimerHolds'
  BY <1>1 DEF TimerHolds, LooksAt
<1> QED  BY <1>1, <1>2, <1>3, FileIsKept DEF LooksAt, ScheduleInv

LEMMA ClaimStep ==
    ASSUME ScheduleInv, ClaimSchedule
    PROVE  ScheduleInv'
<1>1. cycle \in Timer /\ cycle' \in Timer /\ cycle'.phase = "sending"
  BY DEF ScheduleInv, ScheduleTypeOK, ClaimSchedule, Timer
<1>2. "dispatching" \in SlotStates /\ "dispatching" # "armed" /\ "dispatching" # "disabled"
      /\ "dispatching" # "none"
  BY DEF SlotStates
<1>3. profile' = Held("dispatching") /\ Held("dispatching") \in Profile
      /\ Held("dispatching").slot = [cycle.held.slot EXCEPT ![cycle.slot] = "dispatching"]
  BY <1>2, HeldProfile DEF ClaimSchedule, Replace, ScheduleInv
<1>4. ScheduleTypeOK'
  BY <1>1, <1>3 DEF ClaimSchedule, Replace, ScheduleInv, ScheduleTypeOK
<1>5. TimerHolds'
  BY <1>1 DEF TimerHolds, ClaimSchedule, ScheduleInv
<1>6. ASSUME ~overwritten'
      PROVE  OneForm(profile') /\ sends' + Armed(profile') + Claimed' <= armings'
  <2>1. ~overwritten /\ profile.slot = cycle.held.slot /\ OneForm(profile)
        /\ sends + Armed(profile) + Claimed <= armings
    BY <1>6, SavedOverSame DEF ClaimSchedule, ScheduleInv
  <2>2. /\ cycle.slot \in Slots /\ profile.slot[cycle.slot] = "armed"
        /\ profile.slot \in [Slots -> SlotStates]
        /\ profile'.slot = [profile.slot EXCEPT ![cycle.slot] = "dispatching"]
    BY <1>1, <1>3, <2>1, TimerFields, ProfileFields
       DEF ClaimSchedule, ScheduleInv, ScheduleTypeOK, TimerHolds
  <2>3. Armed(profile) = 1 /\ Claimed = 0 /\ Claimed' = 1
    BY <1>1, <2>2 DEF Armed, Claimed, ClaimSchedule
  <2>4. Armed(profile') = 0 /\ OneForm(profile')
    BY <2>1, <2>2 DEF OneForm, Armed, Slots
  <2> QED  BY <2>1, <2>3, <2>4, TokenTypes DEF ClaimSchedule, ScheduleInv
<1> QED  BY <1>4, <1>5, <1>6 DEF ScheduleInv

LEMMA SendStep ==
    ASSUME ScheduleInv, SendScheduled
    PROVE  ScheduleInv'
<1>1. cycle \in Timer /\ cycle' \in Timer /\ cycle'.phase = "sent"
  BY DEF ScheduleInv, ScheduleTypeOK, SendScheduled, Timer
<1>2. sends' \in 0..MaxSends
  BY ScheduleAssumption DEF SendScheduled, ScheduleInv, ScheduleTypeOK, TimerHolds
<1>3. ScheduleTypeOK'
  BY <1>1, <1>2 DEF SendScheduled, KeepsFile, ScheduleInv, ScheduleTypeOK
<1>4. TimerHolds'
  BY <1>1 DEF TimerHolds
<1>5. Claimed = 1 /\ Claimed' = 0
  BY <1>1 DEF Claimed, SendScheduled
<1> QED  BY <1>3, <1>4, <1>5, TokenTypes DEF SendScheduled, KeepsFile, ScheduleInv, OneForm, Armed

LEMMA ReadClaimStep ==
    ASSUME ScheduleInv, ReadClaim
    PROVE  ScheduleInv'
<1>1. /\ cycle' \in Timer /\ cycle'.phase \in {"idle", "completing"}
      /\ cycle'.phase = "completing" => cycle'.held.slot[cycle'.slot] = "dispatching"
  <2>1. cycle \in Timer /\ profile \in Profile
    BY DEF ScheduleInv, ScheduleTypeOK
  <2>2. CASE profile.slot[cycle.slot] = "dispatching"
    <3>1. cycle' = [cycle EXCEPT !.phase = "completing", !.held = profile]
      BY <2>2 DEF ReadClaim
    <3> QED  BY <2>1, <2>2, <3>1 DEF Timer
  <2>3. CASE profile.slot[cycle.slot] # "dispatching"
    BY <2>3, LegacyProfile DEF ReadClaim, Rested
  <2> QED  BY <2>2, <2>3
<1>2. ScheduleTypeOK'
  BY <1>1 DEF ReadClaim, KeepsFile, ScheduleInv, ScheduleTypeOK
<1>3. TimerHolds'
  BY <1>1 DEF TimerHolds
<1> QED  BY <1>1, <1>2, <1>3, FileIsKept DEF ReadClaim, ScheduleInv

LEMMA ClaimDoneStep ==
    ASSUME ScheduleInv, CompleteClaim
    PROVE  ScheduleInv'
<1>1. cycle \in Timer /\ cycle' \in Timer /\ cycle'.phase = "idle"
  BY LegacyProfile DEF ScheduleInv, ScheduleTypeOK, CompleteClaim, Rested
<1>2. cycle.result \in SlotStates /\ cycle.result \notin {"armed", "disabled", "none"}
  BY <1>1, TimerFields DEF SlotStates
<1>3. profile' = Held(cycle.result) /\ Held(cycle.result) \in Profile
      /\ Held(cycle.result).slot = [cycle.held.slot EXCEPT ![cycle.slot] = cycle.result]
  BY <1>2, HeldProfile DEF CompleteClaim, Replace, ScheduleInv
<1>4. ScheduleTypeOK'
  BY <1>1, <1>3 DEF CompleteClaim, Replace, ScheduleInv, ScheduleTypeOK
<1>5. TimerHolds'
  BY <1>1 DEF TimerHolds
<1>6. ASSUME ~overwritten'
      PROVE  OneForm(profile') /\ sends' + Armed(profile') + Claimed' <= armings'
  <2>1. ~overwritten /\ profile.slot = cycle.held.slot /\ OneForm(profile)
        /\ sends + Armed(profile) + Claimed <= armings
    BY <1>6, SavedOverSame DEF CompleteClaim, ScheduleInv
  <2>2. /\ cycle.slot \in Slots /\ profile.slot[cycle.slot] = "dispatching"
        /\ profile.slot \in [Slots -> SlotStates]
        /\ profile'.slot = [profile.slot EXCEPT ![cycle.slot] = cycle.result]
    BY <1>1, <1>3, <2>1, TimerFields, ProfileFields
       DEF CompleteClaim, ScheduleInv, ScheduleTypeOK, TimerHolds
  <2>3. Claimed = 0 /\ Claimed' = 0
    BY <1>1 DEF Claimed, CompleteClaim
  <2>4. Armed(profile') = Armed(profile) /\ OneForm(profile')
    BY <1>2, <2>1, <2>2 DEF OneForm, Armed, Slots
  <2> QED  BY <2>1, <2>3, <2>4, TokenTypes DEF CompleteClaim, ScheduleInv
<1> QED  BY <1>4, <1>5, <1>6 DEF ScheduleInv

LEMMA EndStep ==
    ASSUME ScheduleInv, CycleEnds
    PROVE  ScheduleInv'
<1>1. cycle' \in Timer /\ cycle'.phase = "idle" /\ editor' \in Editor
  BY LegacyProfile DEF ScheduleInv, ScheduleTypeOK, CycleEnds, Rested
<1>2. ScheduleTypeOK'
  BY <1>1 DEF CycleEnds, KeepsFile, ScheduleInv, ScheduleTypeOK
<1>3. TimerHolds'
  BY <1>1 DEF TimerHolds
<1> QED  BY <1>1, <1>2, <1>3, FileIsKept DEF CycleEnds, ScheduleInv

-----------------------------------------------------------------------------
\* The dialog.
LEMMA ShownState ==
    ASSUME NEW p \in Profile
    PROVE  Shown(p) \in SlotStates /\ (Shown(p) = "armed" => Armed(p) = 1)
BY ProfileFields DEF Shown, Armed, Slots

LEMMA OpenStep ==
    ASSUME ScheduleInv, OpenEditor
    PROVE  ScheduleInv'
<1>1. editor' \in Editor
  BY DEF OpenEditor, Editor, ScheduleInv, ScheduleTypeOK
<1>2. ScheduleTypeOK' /\ TimerHolds'
  BY <1>1 DEF OpenEditor, KeepsFile, ScheduleInv, ScheduleTypeOK, TimerHolds
<1> QED  BY <1>2, FileIsKept DEF OpenEditor, ScheduleInv

LEMMA SaveStep ==
    ASSUME ScheduleInv, SavePreferences
    PROVE  ScheduleInv'
<1>1. PICK automation \in BOOLEAN, rule \in Edited(Shown(editor.held)) :
          SavesEditor(rule, automation)
  BY DEF SavePreferences
<1> DEFINE new == [automation |-> automation,
                   slot |-> [s \in Slots |-> IF s = "rule" THEN rule ELSE "disabled"]]
<1>2. editor \in Editor /\ editor.held \in Profile /\ profile \in Profile /\ cycle \in Timer
  BY DEF ScheduleInv, ScheduleTypeOK, Editor
<1>3. rule \in SlotStates /\ "disabled" \in SlotStates
  BY <1>2, ShownState DEF Edited, SlotStates
<1>4. new \in Profile /\ Replace(new, editor.held) /\ profile' = new
  BY <1>1, <1>3 DEF SavesEditor, Replace, Profile
<1>5. armings' \in 1..MaxArmings /\ armings' >= armings
      /\ (rule = "armed" /\ Shown(editor.held) # "armed" => armings' = armings + 1)
  BY <1>1, ScheduleAssumption DEF SavesEditor, ScheduleInv, ScheduleTypeOK
<1>6. ScheduleTypeOK'
  BY <1>1, <1>4, <1>5, LegacyProfile
     DEF SavesEditor, Replace, ScheduleInv, ScheduleTypeOK
<1>7. TimerHolds' /\ Claimed = 0 /\ Claimed' = 0 /\ sends' = sends
  BY <1>1 DEF SavesEditor, TimerHolds, Claimed
<1>8. ASSUME ~overwritten'
      PROVE  OneForm(profile') /\ sends' + Armed(profile') + Claimed' <= armings'
  <2>1. ~overwritten /\ profile.slot = editor.held.slot
        /\ sends + Armed(profile) <= armings
    BY <1>4, <1>7, <1>8, SavedOverSame, TokenTypes DEF ScheduleInv
  <2>2. OneForm(new) /\ Armed(new) = IF rule = "armed" THEN 1 ELSE 0
    BY DEF OneForm, Armed, Slots
  <2>3. rule = "armed" /\ Shown(editor.held) = "armed" => Armed(profile) = 1
    BY <1>2, <2>1, ShownState, SameSlots
  <2> QED  BY <1>4, <1>5, <1>6, <1>7, <2>1, <2>2, <2>3, TokenTypes DEF ScheduleInv
<1> QED  BY <1>6, <1>7, <1>8 DEF ScheduleInv

-----------------------------------------------------------------------------
\* The other writers.
LEMMA LoadStep ==
    ASSUME ScheduleInv, NEW w \in Writers, WriterLoads(w) \/ WriterEnds(w)
    PROVE  ScheduleInv'
<1>1. writer' \in [Writers -> Writer]
  <2>1. profile \in Profile /\ writer \in [Writers -> Writer]
    BY DEF ScheduleInv, ScheduleTypeOK
  <2>2. CASE WriterLoads(w)
    <3>1. PICK saves \in {"another profile", "automation off", "rules off"} :
             writer' = [writer EXCEPT ![w] = [saves |-> saves, held |-> profile]]
      BY <2>2 DEF WriterLoads
    <3>2. [saves |-> saves, held |-> profile] \in Writer
      BY <2>1 DEF Writer
    <3> QED  BY <2>1, <3>1, <3>2
  <2>3. CASE WriterEnds(w)
    BY <2>1, <2>3, LegacyProfile DEF WriterEnds
  <2> QED  BY <2>2, <2>3
<1>2. ScheduleTypeOK' /\ TimerHolds'
  BY <1>1 DEF WriterLoads, WriterEnds, KeepsFile, ScheduleInv, ScheduleTypeOK, TimerHolds
<1> QED  BY <1>2 DEF WriterLoads, WriterEnds, KeepsFile, ScheduleInv, Claimed

\* A writer leaves the schedule alone and arms nothing.
LEMMA LeftSlots ==
    ASSUME ScheduleTypeOK, NEW w \in Writers
    PROVE  /\ LeftBy(w) \in Profile
           /\ LeftBy(w).slot["legacy"] = writer[w].held.slot["legacy"]
           /\ \/ LeftBy(w).slot["rule"] = writer[w].held.slot["rule"]
              \/ writer[w].held.slot["rule"] # "none" /\ LeftBy(w).slot["rule"] = "disabled"
<1> DEFINE held == writer[w].held
<1>1. writer[w] \in Writer /\ held \in Profile /\ held.slot \in [Slots -> SlotStates]
  BY ProfileFields DEF ScheduleTypeOK, Writer
<1>2. CASE writer[w].saves = "automation off"
  BY <1>1, <1>2 DEF LeftBy, Profile, Slots
<1>3. CASE writer[w].saves = "rules off"
  <2> DEFINE state == IF held.slot["rule"] = "none" THEN "none" ELSE "disabled"
  <2>1. state \in SlotStates /\ "rule" \in Slots /\ "legacy" \in Slots /\ "rule" # "legacy"
    BY DEF SlotStates, Slots
  <2>2. LeftBy(w) = [held EXCEPT !.slot["rule"] = state]
    BY <1>1, <1>3, <2>1 DEF LeftBy
  <2>3. LeftBy(w) \in Profile /\ LeftBy(w).slot = [held.slot EXCEPT !["rule"] = state]
    BY <1>1, <2>1, <2>2, ProfileUpdate
  <2> QED  BY <1>1, <2>1, <2>3
<1>4. CASE writer[w].saves \notin {"automation off", "rules off"}
  BY <1>1, <1>4 DEF LeftBy
<1> QED  BY <1>2, <1>3, <1>4

LEMMA WriterStep ==
    ASSUME ScheduleInv, NEW w \in Writers, WriterSaves(w)
    PROVE  ScheduleInv'
<1>1. profile' = LeftBy(w) /\ LeftBy(w) \in Profile
  BY LeftSlots DEF WriterSaves, Replace, ScheduleInv
<1>2. writer' \in [Writers -> Writer]
  BY LegacyProfile DEF WriterSaves, ScheduleInv, ScheduleTypeOK
<1>3. ScheduleTypeOK' /\ TimerHolds'
  BY <1>1, <1>2 DEF WriterSaves, Replace, ScheduleInv, ScheduleTypeOK, TimerHolds
<1>4. ASSUME ~overwritten'
      PROVE  OneForm(profile') /\ sends' + Armed(profile') + Claimed' <= armings'
  <2>1. ~overwritten /\ profile.slot = writer[w].held.slot /\ OneForm(profile)
        /\ sends + Armed(profile) + Claimed <= armings
    BY <1>4, SavedOverSame DEF WriterSaves, ScheduleInv
  <2>2. OneForm(profile') /\ Armed(profile') <= Armed(profile)
    BY <1>1, <2>1, LeftSlots DEF OneForm, Armed, Slots, ScheduleInv
  <2>3. Claimed' = Claimed /\ Claimed \in Nat /\ sends' = sends /\ armings' = armings
    BY DEF WriterSaves, Claimed
  <2>4. Armed(profile') \in Nat /\ Armed(profile) \in Nat /\ sends \in Nat /\ armings \in Nat
    BY TokenTypes DEF ScheduleInv
  <2> QED  BY <2>1, <2>2, <2>3, <2>4
<1> QED  BY <1>3, <1>4 DEF ScheduleInv

-----------------------------------------------------------------------------
LEMMA ScheduleStep == ScheduleInv /\ [ScheduleNext]_scheduleVars => ScheduleInv'
<1> SUFFICES ASSUME ScheduleInv, [ScheduleNext]_scheduleVars PROVE ScheduleInv'
  OBVIOUS
<1>1. CASE ConditionChanges  BY <1>1, ConditionStep
<1>2. CASE \E s \in Slots : LooksAt(s)  BY <1>2, LooksStep
<1>3. CASE ClaimSchedule  BY <1>3, ClaimStep
<1>4. CASE SendScheduled  BY <1>4, SendStep
<1>5. CASE ReadClaim  BY <1>5, ReadClaimStep
<1>6. CASE CompleteClaim  BY <1>6, ClaimDoneStep
<1>7. CASE CycleEnds  BY <1>7, EndStep
<1>8. CASE OpenEditor  BY <1>8, OpenStep
<1>9. CASE SavePreferences  BY <1>9, SaveStep
<1>10. CASE \E w \in Writers : WriterLoads(w) \/ WriterEnds(w)  BY <1>10, LoadStep
<1>11. CASE \E w \in Writers : WriterSaves(w)  BY <1>11, WriterStep
<1>12. CASE UNCHANGED scheduleVars
  BY <1>12 DEF scheduleVars, ScheduleInv, ScheduleTypeOK, TimerHolds, OneForm, Armed, Claimed
<1> QED
  BY <1>1, <1>2, <1>3, <1>4, <1>5, <1>6, <1>7, <1>8, <1>9, <1>10, <1>11, <1>12
     DEF ScheduleNext

LEMMA ScheduleStart == ScheduleInit => ScheduleInv
<1> SUFFICES ASSUME ScheduleInit PROVE ScheduleInv
  OBVIOUS
<1>1. ScheduleTypeOK
  <2>1. 1 \in 1..MaxArmings /\ 0 \in 0..MaxSends
    BY ScheduleAssumption
  <2>2. [w \in Writers |-> Away] \in [Writers -> Writer]
    BY LegacyProfile
  <2> QED  BY <2>1, <2>2, LegacyProfile DEF ScheduleInit, ScheduleTypeOK
<1>2. TimerHolds /\ Claimed = 0
  BY DEF ScheduleInit, Rested, TimerHolds, Claimed
<1>3. OneForm(profile) /\ Armed(profile) = 1
  BY DEF ScheduleInit, Legacy, OneForm, Armed, Slots
<1> QED  BY <1>1, <1>2, <1>3 DEF ScheduleInit, ScheduleInv

LEMMA ScheduleInvariant == ScheduleSpec => []ScheduleInv
BY ScheduleStart, ScheduleStep, PTL DEF ScheduleSpec

\* Every variable of the scheduled prompt keeps its type.
THEOREM ScheduleTypeCorrect == ScheduleSpec => []ScheduleTypeOK
<1>1. ScheduleInv => ScheduleTypeOK
  BY DEF ScheduleInv
<1> QED  BY <1>1, ScheduleInvariant, PTL

\* The scheduled prompt is sent at most once for each time it was armed, by the
\* tray's timer, through its conversion to a rule and its completion, for any
\* number of other writers, unless a save put an older state of it back.
THEOREM OnceUntilOverwritten == ScheduleSpec => []ScheduleIsOneShot
<1>1. ScheduleInv => ScheduleIsOneShot
  BY TokenTypes DEF ScheduleInv, ScheduleIsOneShot, Claimed
<1> QED  BY <1>1, ScheduleInvariant, PTL
===============================================================================
