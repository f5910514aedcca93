--------------------------- MODULE RemoteQuestions ---------------------------
(***************************************************************************)
(* Questions put to a person on Discord: ask-user creates and publishes    *)
(* them, the reply observer polls the channel, accepts a direct reply and  *)
(* dispatches it to Codex, dispatch-answer tries a delivery again by hand, *)
(* and a later hook of the same session confirms it.                       *)
(*                                                                         *)
(* All of them are processes of their own around table remote_questions    *)
(* and the observer's cursor in observer_state; every store method is one  *)
(* step, because its UPDATE repeats the status it relies on.               *)
(*                                                                         *)
(* A message's Discord id is its place in the channel.  Messages of bots,  *)
(* of strangers and the observer's own notices only move the cursor, as a  *)
(* question's post does here; hooks of other sessions confirm nothing.     *)
(***************************************************************************)
EXTENDS Integers, Sequences, FiniteSets

CONSTANTS
    Questions,      \* questions, each asked by one ask-user process
    Loose,          \* the question of a message without reference or without text
    StoreOnly,      \* those with answer_transport "store"
    Observers,      \* reply observers: the service, and observe-replies --once
    Retriers,       \* dispatch-answer processes
    Timeout,        \* a question's timeout_seconds
    ConfirmWithin,  \* PRESENCE_GUI_CONFIRMATION_TIMEOUT_SECONDS
    MaxTime,        \* bound: the clock stops here
    MaxMessages     \* bound: messages in the channel

ASSUME QuestionConstants ==
    /\ StoreOnly \subseteq Questions
    /\ Loose \notin Questions
    /\ Timeout \in Nat \ {0} /\ ConfirmWithin \in Nat
    /\ MaxTime \in Nat /\ MaxMessages \in Nat

Times      == 0 .. MaxTime
Never      == -1
MessageIds == 1 .. MaxMessages
NoMessage  == 0

VARIABLES
    clock,    \* wall clock
    row,      \* question -> its row in remote_questions
    asker,    \* question -> where its ask-user process stands
    channel,  \* the messages of the Discord channel, oldest first
    cursor,   \* the last message id in observer_state
    obs,      \* observer -> its poll under way
    retry,    \* retrier -> its delivery under way
    sent,     \* question -> deliveries the observers began
    arrived   \* questions whose answer reached the Codex queue

questionVars == <<clock, row, asker, channel, cursor, obs, retry, sent, arrived>>

-----------------------------------------------------------------------------
Statuses == {"none", "pending", "answered", "expired", "publish_failed",
             "dispatch_failed", "input_emitted", "delivery_confirmed"}

\* The statuses of a question whose reply was accepted.
Accepted == {"answered", "dispatch_failed", "input_emitted", "delivery_confirmed"}

QuestionRow == [status : Statuses, message : MessageIds \cup {NoMessage},
                reply : MessageIds \cup {NoMessage}, expires : Nat,
                emitted : Times \cup {Never}]

NoRow == [status |-> "none", message |-> NoMessage, reply |-> NoMessage, expires |-> 0,
          emitted |-> Never]

Message == [author : {"webhook", "user"}, question : Questions \cup {Loose}]

Poll == [phase : {"idle", "reading", "listing", "fetching", "loop",
                  "dispatching", "emitted", "failed"},
         now : Times, cursor : MessageIds \cup {NoMessage}, pending : SUBSET Questions,
         next : 0 .. MaxMessages + 1, upto : 0 .. MaxMessages,
         question : Questions \cup {Loose}]

NoPoll == [phase |-> "idle", now |-> 0, cursor |-> NoMessage, pending |-> {},
           next |-> 0, upto |-> 0, question |-> Loose]

Delivery == [phase : {"idle", "dispatching", "emitted", "failed"},
             question : Questions \cup {Loose}, status : Accepted]

NoDelivery == [phase |-> "idle", question |-> Loose, status |-> "answered"]

QuestionsInit ==
    /\ clock = 0
    /\ row = [q \in Questions |-> NoRow]
    /\ asker = [q \in Questions |-> "new"]
    /\ channel = <<>>
    /\ cursor = NoMessage
    /\ obs = [o \in Observers |-> NoPoll]
    /\ retry = [r \in Retriers |-> NoDelivery]
    /\ sent = [q \in Questions |-> 0]
    /\ arrived = {}

Tick ==
    /\ clock < MaxTime
    /\ clock' = clock + 1
    /\ UNCHANGED <<row, asker, channel, cursor, obs, retry, sent, arrived>>

-----------------------------------------------------------------------------
(* ask_remote_question.                                                    *)

AskerFrame == UNCHANGED <<clock, cursor, obs, retry, sent, arrived>>

\* The target is settled before anything is stored.
CreateQuestion(q) ==
    /\ asker[q] = "new"
    /\ row' = [row EXCEPT ![q] = [NoRow EXCEPT !.status = "pending",
                                               !.expires = clock + Timeout]]
    /\ asker' = [asker EXCEPT ![q] = "posting"]
    /\ UNCHANGED channel
    /\ AskerFrame

\* post_question: an answer with the message's id, or an error with the message
\* in the channel or not.
PostQuestion(q, ok, reached) ==
    /\ asker[q] = "posting"
    /\ ok => reached
    /\ reached => Len(channel) < MaxMessages
    /\ channel' = IF reached
                  THEN Append(channel, [author |-> "webhook", question |-> q])
                  ELSE channel
    /\ asker' = [asker EXCEPT ![q] = IF ok THEN "publishing" ELSE "failing"]
    /\ UNCHANGED row
    /\ AskerFrame

PostOf(q) == CHOOSE m \in DOMAIN channel :
                channel[m].author = "webhook" /\ channel[m].question = q

\* mark_question_published; a question that expired meanwhile is an error.
PublishQuestion(q) ==
    /\ asker[q] = "publishing"
    /\ \/ /\ row[q].status = "pending"
          /\ row' = [row EXCEPT ![q].message = PostOf(q)]
          /\ asker' = [asker EXCEPT ![q] = "done"]
       \/ /\ row[q].status # "pending"
          /\ asker' = [asker EXCEPT ![q] = "failing"]
          /\ UNCHANGED row
    /\ UNCHANGED channel
    /\ AskerFrame

\* mark_question_error from "pending" alone.
FailQuestion(q) ==
    /\ asker[q] = "failing"
    /\ row' = IF row[q].status = "pending"
              THEN [row EXCEPT ![q].status = "publish_failed"] ELSE row
    /\ asker' = [asker EXCEPT ![q] = "done"]
    /\ UNCHANGED channel
    /\ AskerFrame

AskerDies(q) ==
    /\ asker[q] \in {"posting", "publishing", "failing"}
    /\ asker' = [asker EXCEPT ![q] = "done"]
    /\ UNCHANGED <<row, channel>>
    /\ AskerFrame

Ask(q) ==
    \/ CreateQuestion(q)
    \/ \E ok, reached \in BOOLEAN : PostQuestion(q, ok, reached)
    \/ PublishQuestion(q) \/ FailQuestion(q) \/ AskerDies(q)

\* An allowed person writes in the channel: a reply to a question's post, or a
\* message that refers to none or that Discord hands the bot without its text.
UserWrites(q) ==
    /\ \/ q = Loose
       \/ \E m \in DOMAIN channel :
             channel[m].author = "webhook" /\ channel[m].question = q
    /\ Len(channel) < MaxMessages
    /\ channel' = Append(channel, [author |-> "user", question |-> q])
    /\ UNCHANGED <<clock, row, asker, cursor, obs, retry, sent, arrived>>

-----------------------------------------------------------------------------
(* observe_discord_replies_once.                                           *)

Due(now) == {q \in Questions : row[q].status = "pending" /\ row[q].expires <= now}

\* expire_questions.
ExpiredBy(now) ==
    [q \in Questions |-> IF q \in Due(now) THEN [row[q] EXCEPT !.status = "expired"]
                         ELSE row[q]]

\* "questions" expires before it lists, too.
ShowQuestions ==
    /\ Due(clock) # {}
    /\ row' = ExpiredBy(clock)
    /\ UNCHANGED <<clock, asker, channel, cursor, obs, retry, sent, arrived>>

PollFrame == UNCHANGED <<clock, asker, channel, retry>>

\* checked_at, and expire_questions with it.
StartPoll(o) ==
    /\ obs[o].phase = "idle"
    /\ row' = ExpiredBy(clock)
    /\ obs' = [obs EXCEPT ![o].phase = "reading", ![o].now = clock]
    /\ UNCHANGED <<cursor, sent, arrived>>
    /\ PollFrame

ReadCursor(o) ==
    /\ obs[o].phase = "reading"
    /\ obs' = [obs EXCEPT ![o].phase = "listing", ![o].cursor = cursor]
    /\ UNCHANGED <<row, cursor, sent, arrived>>
    /\ PollFrame

\* pending_by_message_id.
Listed == {q \in Questions : row[q].status = "pending" /\ row[q].message # NoMessage}

OldestPost(qs) == CHOOSE m \in {row[q].message : q \in qs} :
                     \A q \in qs : m <= row[q].message

\* Without a cursor the first poll begins at the oldest question.
ListPending(o) ==
    /\ obs[o].phase = "listing"
    /\ obs' = [obs EXCEPT
                 ![o].phase = "fetching", ![o].pending = Listed,
                 ![o].cursor = IF @ = NoMessage /\ Listed # {} THEN OldestPost(Listed) ELSE @]
    /\ UNCHANGED <<row, cursor, sent, arrived>>
    /\ PollFrame

\* fetch_messages(after=cursor).
FetchMessages(o) ==
    /\ obs[o].phase = "fetching"
    /\ obs' = [obs EXCEPT ![o].phase = "loop", ![o].next = obs[o].cursor + 1,
                          ![o].upto = Len(channel)]
    /\ UNCHANGED <<row, cursor, sent, arrived>>
    /\ PollFrame

\* A direct reply to a question of this poll's list.
Matches(o, m) ==
    /\ channel[m].author = "user"
    /\ channel[m].question \in obs[o].pending

\* A person's message gets a notice instead, if this poll lists any question.
Guides(o, m) == channel[m].author = "user" /\ ~Matches(o, m) /\ obs[o].pending # {}

InLoop(o) == obs[o].phase = "loop" /\ obs[o].next <= obs[o].upto

\* Whatever becomes of the notice, the message is done with.
PassOver(o) ==
    /\ InLoop(o)
    /\ ~Matches(o, obs[o].next)
    /\ obs' = [obs EXCEPT ![o].next = @ + 1]
    /\ UNCHANGED <<row, cursor, sent, arrived>>
    /\ PollFrame

\* Faulty variant: the answer is stored whatever has become of the question.
AcceptsAnyReply(o) ==
    LET q == channel[obs[o].next].question
    IN  /\ InLoop(o)
        /\ Matches(o, obs[o].next)
        /\ row' = [row EXCEPT ![q].status = "answered", ![q].reply = obs[o].next]
        /\ obs' = [obs EXCEPT
                     ![o].phase = IF q \in StoreOnly THEN "loop" ELSE "dispatching",
                     ![o].question = q, ![o].next = @ + 1,
                     ![o].pending = @ \ {q}]
        /\ UNCHANGED <<cursor, sent, arrived>>
        /\ PollFrame

\* record_question_answer, with the poll's own time.
RecordAnswer(o) ==
    LET q == channel[obs[o].next].question
    IN  /\ InLoop(o)
        /\ Matches(o, obs[o].next)
        /\ \/ /\ row[q].status = "pending" /\ row[q].expires > obs[o].now
              /\ row' = [row EXCEPT ![q].status = "answered", ![q].reply = obs[o].next]
              /\ obs' = [obs EXCEPT
                           ![o].phase = IF q \in StoreOnly THEN "loop" ELSE "dispatching",
                           ![o].question = IF q \in StoreOnly THEN Loose ELSE q,
                           ![o].next = @ + 1, ![o].pending = @ \ {q}]
           \/ /\ ~(row[q].status = "pending" /\ row[q].expires > obs[o].now)
              /\ row' = IF row[q].status = "pending"
                        THEN [row EXCEPT ![q].status = "expired"] ELSE row
              /\ obs' = [obs EXCEPT ![o].next = @ + 1]
        /\ UNCHANGED <<cursor, sent, arrived>>
        /\ PollFrame

\* answer_dispatcher.dispatch: refused, accepted, or of unknown outcome.
DispatchAnswer(o, ok, reached) ==
    LET q == obs[o].question
    IN  /\ obs[o].phase = "dispatching"
        /\ ok => reached
        /\ sent' = [sent EXCEPT ![q] = @ + 1]
        /\ arrived' = IF reached THEN arrived \cup {q} ELSE arrived
        /\ obs' = [obs EXCEPT ![o].phase = IF ok THEN "emitted" ELSE "failed"]
        /\ UNCHANGED <<row, cursor>>
        /\ PollFrame

\* Faulty variant: a failed delivery is marked like one that went through.
MarksFailureEmitted(o) ==
    LET q == obs[o].question
    IN  /\ obs[o].phase \in {"emitted", "failed"}
        /\ row[q].status = "answered"
        /\ row' = [row EXCEPT ![q].status = "input_emitted", ![q].emitted = obs[o].now]
        /\ obs' = [obs EXCEPT ![o].phase = "loop", ![o].question = Loose]
        /\ UNCHANGED <<cursor, sent, arrived>>
        /\ PollFrame

\* mark_input_emitted or mark_question_error, from "answered" alone.  If
\* dispatch-answer was there first the ValueError ends the process.
MarkDispatched(o) ==
    LET q == obs[o].question
    IN  /\ obs[o].phase \in {"emitted", "failed"}
        /\ \/ /\ row[q].status # "answered"
              /\ obs' = [obs EXCEPT ![o] = NoPoll]
              /\ UNCHANGED row
           \/ /\ row[q].status = "answered"
              /\ row' = IF obs[o].phase = "emitted"
                        THEN [row EXCEPT ![q].status = "input_emitted",
                                         ![q].emitted = obs[o].now]
                        ELSE [row EXCEPT ![q].status = "dispatch_failed"]
              /\ obs' = [obs EXCEPT ![o].phase = "loop", ![o].question = Loose]
        /\ UNCHANGED <<cursor, sent, arrived>>
        /\ PollFrame

\* Faulty variant: the cursor jumps to the newest message of the channel.
SavesNewest(o) ==
    /\ obs[o].phase = "loop" /\ obs[o].next > obs[o].upto
    /\ cursor' = Len(channel)
    /\ obs' = [obs EXCEPT ![o] = NoPoll]
    /\ UNCHANGED <<row, sent, arrived>>
    /\ PollFrame

\* set_observer_state, unless nothing new was fetched.
SaveCursor(o) ==
    /\ obs[o].phase = "loop" /\ obs[o].next > obs[o].upto
    /\ cursor' = IF obs[o].upto > obs[o].cursor THEN obs[o].upto ELSE cursor
    /\ obs' = [obs EXCEPT ![o] = NoPoll]
    /\ UNCHANGED <<row, sent, arrived>>
    /\ PollFrame

\* A failed fetch, an error or a kill; the service or the user polls again.
PollEnds(o) ==
    /\ obs[o].phase # "idle"
    /\ obs' = [obs EXCEPT ![o] = NoPoll]
    /\ UNCHANGED <<row, cursor, sent, arrived>>
    /\ PollFrame

Observe(o) ==
    \/ StartPoll(o) \/ ReadCursor(o) \/ ListPending(o)
    \/ FetchMessages(o) \/ PassOver(o) \/ RecordAnswer(o)
    \/ \E ok, reached \in BOOLEAN : DispatchAnswer(o, ok, reached)
    \/ MarkDispatched(o) \/ SaveCursor(o) \/ PollEnds(o)

-----------------------------------------------------------------------------
(* retry_answer_dispatch, and retry_gui_dispatch, which takes the same steps. *)

RetryFrame == UNCHANGED <<clock, asker, channel, cursor, obs, sent>>

ReadAnswer(r, q) ==
    /\ retry[r].phase = "idle"
    /\ row[q].status \in {"answered", "dispatch_failed"}
    /\ q \notin StoreOnly
    /\ retry' = [retry EXCEPT ![r] = [phase |-> "dispatching", question |-> q,
                                      status |-> row[q].status]]
    /\ UNCHANGED <<row, arrived>>
    /\ RetryFrame

RetryDispatch(r, ok, reached) ==
    /\ retry[r].phase = "dispatching"
    /\ ok => reached
    /\ arrived' = IF reached THEN arrived \cup {retry[r].question} ELSE arrived
    /\ retry' = [retry EXCEPT ![r].phase = IF ok THEN "emitted" ELSE "failed"]
    /\ UNCHANGED row
    /\ RetryFrame

\* mark_input_emitted with allow_retry when a failed delivery was read, or
\* mark_question_error when an answered one was; otherwise only an error.
MarkRetried(r) ==
    LET q == retry[r].question
        allowed == IF retry[r].status = "dispatch_failed" /\ retry[r].phase = "emitted"
                   THEN {"answered", "dispatch_failed"} ELSE {"answered"}
    IN  /\ retry[r].phase \in {"emitted", "failed"}
        /\ row' = IF row[q].status \notin allowed THEN row
                  ELSE IF retry[r].phase = "emitted"
                       THEN [row EXCEPT ![q].status = "input_emitted", ![q].emitted = clock]
                       ELSE IF retry[r].status = "answered"
                            THEN [row EXCEPT ![q].status = "dispatch_failed"] ELSE row
        /\ retry' = [retry EXCEPT ![r] = NoDelivery]
        /\ UNCHANGED arrived
        /\ RetryFrame

RetrierDies(r) ==
    /\ retry[r].phase # "idle"
    /\ retry' = [retry EXCEPT ![r] = NoDelivery]
    /\ UNCHANGED <<row, arrived>>
    /\ RetryFrame

Retry(r) ==
    \/ \E q \in Questions : ReadAnswer(r, q)
    \/ \E ok, reached \in BOOLEAN : RetryDispatch(r, ok, reached)
    \/ MarkRetried(r) \/ RetrierDies(r)

-----------------------------------------------------------------------------
(* record_codex_hook_payload, as far as questions go: record_observation has  *)
(* stamped the hook some time ago, and confirm_deliveries follows with that   *)
(* stamp, or never does.                                                      *)

Confirmed(q, at) ==
    row[q].status = "input_emitted" /\ row[q].emitted \in (at - ConfirmWithin) .. at

ConfirmDeliveries(at) ==
    /\ at <= clock
    /\ \E q \in Questions : Confirmed(q, at)
    /\ row' = [q \in Questions |->
                 IF Confirmed(q, at)
                 THEN [row[q] EXCEPT !.status = "delivery_confirmed"] ELSE row[q]]
    /\ UNCHANGED <<clock, asker, channel, cursor, obs, retry, sent, arrived>>

-----------------------------------------------------------------------------
QuestionsNext ==
    \/ Tick
    \/ \E q \in Questions : Ask(q)
    \/ \E q \in Questions \cup {Loose} : UserWrites(q)
    \/ ShowQuestions
    \/ \E o \in Observers : Observe(o)
    \/ \E r \in Retriers : Retry(r)
    \/ \E at \in Times : ConfirmDeliveries(at)

QuestionsSpec == QuestionsInit /\ [][QuestionsNext]_questionVars

-----------------------------------------------------------------------------
QuestionsTypeOK ==
    /\ clock \in Times
    /\ row \in [Questions -> QuestionRow]
    /\ asker \in [Questions -> {"new", "posting", "publishing", "failing", "done"}]
    /\ channel \in Seq(Message) /\ Len(channel) <= MaxMessages
    /\ cursor \in 0 .. MaxMessages
    /\ obs \in [Observers -> Poll]
    /\ retry \in [Retriers -> Delivery]
    /\ sent \in [Questions -> Nat]
    /\ arrived \subseteq Questions

-----------------------------------------------------------------------------
(* Safety.                                                                 *)

\* However many observers poll, restart and read the same messages again, the
\* answer to a question is dispatched without a person asking at most once.
DispatchedOnce == \A q \in Questions : sent[q] <= 1

\* Nothing reaches Codex but a direct reply to the question's own
\* published post, and an emitted or confirmed question has reached it.
InputFollowsAnswer ==
    \A q \in Questions :
        /\ row[q].status \in {"input_emitted", "delivery_confirmed"} => q \in arrived
        /\ q \in arrived => row[q].status \in Accepted /\ q \notin StoreOnly
        /\ row[q].status \in Accepted =>
              /\ row[q].message # NoMessage /\ row[q].reply > row[q].message
              /\ channel[row[q].reply] = [author |-> "user", question |-> q]

\* The first accepted reply is the answer for good, and a question that expired
\* or was never published takes none: not by a second observer whose list is
\* old, nor by an ask-user or dispatch-answer that comes late.
ClosedStaysClosed ==
    [][\A q \in Questions :
          /\ row[q].reply # NoMessage => row'[q].reply = row[q].reply
          /\ row[q].status \in Accepted => row'[q].status \in Accepted
          /\ row[q].status \in {"expired", "publish_failed"} =>
                row'[q].status = row[q].status]_questionVars

\* When a poll moves the cursor, every reply it leaves behind to a question it
\* had listed has been taken, or the question was closed before.
ListedRepliesAreTaken ==
    [][\A o \in DOMAIN obs :
          obs[o].phase = "loop" /\ obs'[o].phase = "idle" /\ cursor' # cursor =>
             \A m \in obs[o].cursor + 1 .. cursor' :
                Matches(o, m) => row[channel[m].question].status # "pending"]_questionVars

\* What the remote-response guide says of notices and a poll's early list does
\* not keep: a direct reply is refused as unmatched only if it is not
\* a reply to a published question that still pends.
GuidedOnlyWhenUnmatched ==
    [][\A o \in Observers :
          PassOver(o) /\ Guides(o, obs[o].next) =>
             LET m == channel[obs[o].next]
             IN  ~(/\ m.question # Loose
                   /\ row[m.question].status = "pending"
                   /\ row[m.question].message # NoMessage)]_questionVars
=============================================================================
