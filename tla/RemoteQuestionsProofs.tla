------------------------ MODULE RemoteQuestionsProofs ------------------------
(***************************************************************************)
(* Proofs about RemoteQuestions, for any number of questions, observers    *)
(* and retriers and any bounds.                                            *)
(*                                                                         *)
(* A question is dispatched once because only the observer that moved it   *)
(* out of "pending" dispatches it, and it does so at its next step.  That  *)
(* what is dispatched is a direct reply to the question's own post rests   *)
(* on the order of the channel: an ask-user posts at most once, a reply    *)
(* comes after the post it refers to, and an observer lists published      *)
(* questions only.                                                         *)
(***************************************************************************)
EXTENDS RemoteQuestions, WellFoundedInduction, TLAPS

Ids == 1 .. Len(channel)

IsPost(m, q) == channel[m].author = "webhook" /\ channel[m].question = q

\* Before it posts, an ask-user has nothing in the channel; before it creates
\* the question, nothing in the table; after it posted, one message.
AskerStands(q) ==
    /\ asker[q] = "new" => row[q] = NoRow
    /\ asker[q] \in {"new", "posting"} => \A m \in Ids : ~IsPost(m, q)
    /\ asker[q] = "publishing" => \E m \in Ids : IsPost(m, q)
    /\ row[q].message # NoMessage => row[q].message \in Ids /\ IsPost(row[q].message, q)

ChannelOrdered ==
    /\ \A q \in Questions : \A m, n \in Ids : IsPost(m, q) /\ IsPost(n, q) => m = n
    /\ \A m \in Ids : channel[m].author = "user" /\ channel[m].question # Loose =>
          \E n \in Ids : n < m /\ IsPost(n, channel[m].question)

\* What an accepted reply is, and who may hold it.
AnswerIsReply(q) ==
    /\ row[q].status \in Accepted =>
          /\ row[q].message # NoMessage /\ row[q].reply > row[q].message
          /\ row[q].reply \in Ids
          /\ channel[row[q].reply].author = "user"
          /\ channel[row[q].reply].question = q
    /\ row[q].status \notin Accepted => row[q].reply = NoMessage /\ sent[q] = 0
    /\ row[q].status \in {"input_emitted", "delivery_confirmed"} => q \in arrived
    /\ q \in arrived => row[q].status \in Accepted /\ q \notin StoreOnly
    /\ sent[q] <= 1

Delivering == {"dispatching", "emitted", "failed"}

\* What a poll has read, and the answer it is delivering.
PollStands(o) ==
    /\ \A q \in obs[o].pending : row[q].message # NoMessage
    /\ obs[o].phase \in {"loop"} \cup Delivering =>
          obs[o].cursor < obs[o].next /\ obs[o].upto <= Len(channel)
    /\ obs[o].phase \in Delivering =>
          /\ obs[o].question \in Questions \ StoreOnly
          /\ row[obs[o].question].status \in Accepted
          /\ obs[o].phase = "dispatching" => sent[obs[o].question] = 0
          /\ obs[o].phase = "emitted" => obs[o].question \in arrived

OneDispatcher ==
    \A o, p \in Observers :
       obs[o].phase = "dispatching" /\ obs[p].phase = "dispatching"
          /\ obs[o].question = obs[p].question => o = p

RetryStands(r) ==
    retry[r].phase \in Delivering =>
       /\ retry[r].question \in Questions \ StoreOnly
       /\ row[retry[r].question].status \in Accepted
       /\ retry[r].phase = "emitted" => retry[r].question \in arrived

\* Every reply of this poll's range that its loop has passed and that its list
\* still matches belongs to a question that no longer pends.
PassedAreTaken(o) ==
    obs[o].phase \in {"loop"} \cup Delivering =>
       \A m \in Ids :
          obs[o].cursor < m /\ m < obs[o].next /\ m <= obs[o].upto /\ Matches(o, m) =>
             row[channel[m].question].status # "pending"

Inv ==
    /\ QuestionsTypeOK
    /\ \A q \in Questions : AskerStands(q) /\ AnswerIsReply(q)
    /\ ChannelOrdered
    /\ \A o \in Observers : PollStands(o) /\ PassedAreTaken(o)
    /\ OneDispatcher
    /\ \A r \in Retriers : RetryStands(r)

-----------------------------------------------------------------------------
LEMMA PostOfType ==
    ASSUME Inv, NEW q \in Questions, asker[q] = "publishing"
    PROVE  PostOf(q) \in Ids /\ IsPost(PostOf(q), q)
<1>1. PICK m \in Ids : IsPost(m, q)
  BY DEF Inv, AskerStands
<1>2. Ids = DOMAIN channel
  BY DEF Inv, QuestionsTypeOK, Ids
<1> QED  BY <1>1, <1>2 DEF PostOf, IsPost

LEMMA IdsAreIds == QuestionsTypeOK => Ids \subseteq MessageIds
  BY QuestionConstants DEF QuestionsTypeOK, Ids, MessageIds

LEMMA NoRowType == NoRow \in QuestionRow
  BY DEF NoRow, QuestionRow, Statuses, NoMessage, Never

LEMMA NoPollType == NoPoll \in Poll
  BY QuestionConstants DEF NoPoll, Poll, NoMessage, Times

LEMMA NoDeliveryType == NoDelivery \in Delivery
  BY DEF NoDelivery, Delivery, Accepted

LEMMA InitInv == QuestionsInit => Inv
<1> SUFFICES ASSUME QuestionsInit PROVE Inv
  OBVIOUS
<1>1. QuestionsTypeOK
  BY NoRowType, NoPollType, NoDeliveryType, QuestionConstants
     DEF QuestionsInit, QuestionsTypeOK, Times, NoMessage, Message
<1>2. Ids = {}
  BY DEF QuestionsInit, Ids
<1>3. \A q \in Questions : AskerStands(q) /\ AnswerIsReply(q)
  BY <1>2 DEF QuestionsInit, AskerStands, AnswerIsReply, NoRow, NoMessage, Accepted
<1>4. ChannelOrdered
  BY <1>2 DEF ChannelOrdered
<1>5. \A o \in Observers : PollStands(o) /\ PassedAreTaken(o)
  BY DEF QuestionsInit, PollStands, PassedAreTaken, NoPoll, Delivering
<1>6. OneDispatcher
  BY DEF QuestionsInit, OneDispatcher, NoPoll
<1>7. \A r \in Retriers : RetryStands(r)
  BY DEF QuestionsInit, RetryStands, NoDelivery, Delivering
<1> QED  BY <1>1, <1>3, <1>4, <1>5, <1>6, <1>7 DEF Inv

-----------------------------------------------------------------------------
(* Type correctness: a changed column keeps the type of its row, poll or   *)
(* delivery.                                                               *)

LEMMA RowColumns ==
    ASSUME NEW r \in QuestionRow
    PROVE  /\ \A s \in Statuses : [r EXCEPT !.status = s] \in QuestionRow
           /\ \A m \in MessageIds \cup {NoMessage} : [r EXCEPT !.message = m] \in QuestionRow
           /\ \A s \in Statuses, e \in Nat :
                 [r EXCEPT !.status = s, !.expires = e] \in QuestionRow
           /\ \A s \in Statuses, m \in MessageIds \cup {NoMessage} :
                 [r EXCEPT !.status = s, !.reply = m] \in QuestionRow
           /\ \A s \in Statuses, t \in Times \cup {Never} :
                 [r EXCEPT !.status = s, !.emitted = t] \in QuestionRow
  BY DEF QuestionRow

Phases == {"idle", "reading", "listing", "fetching", "loop",
           "dispatching", "emitted", "failed"}

LEMMA PollColumns ==
    ASSUME NEW b \in Poll
    PROVE  /\ \A f \in Phases : [b EXCEPT !.phase = f] \in Poll
           /\ \A f \in Phases, t \in Times : [b EXCEPT !.phase = f, !.now = t] \in Poll
           /\ \A f \in Phases, c \in MessageIds \cup {NoMessage} :
                 [b EXCEPT !.phase = f, !.cursor = c] \in Poll
           /\ \A f \in Phases, c \in MessageIds \cup {NoMessage}, d \in SUBSET Questions :
                 [b EXCEPT !.phase = f, !.pending = d, !.cursor = c] \in Poll
           /\ \A f \in Phases, n \in 0 .. MaxMessages + 1, u \in 0 .. MaxMessages :
                 [b EXCEPT !.phase = f, !.next = n, !.upto = u] \in Poll
           /\ \A n \in 0 .. MaxMessages + 1 : [b EXCEPT !.next = n] \in Poll
           /\ \A f \in Phases, q \in Questions \cup {Loose},
                 n \in 0 .. MaxMessages + 1, d \in SUBSET Questions :
                 [b EXCEPT !.phase = f, !.question = q, !.next = n, !.pending = d] \in Poll
           /\ \A f \in Phases, q \in Questions \cup {Loose} :
                 [b EXCEPT !.phase = f, !.question = q] \in Poll
  BY DEF Poll, Phases

\* One row, poll or delivery at a time.
RowSet(q)  == \E r \in QuestionRow : row' = [row EXCEPT ![q] = r]
PollSet(o) == \E b \in Poll : obs' = [obs EXCEPT ![o] = b]

LEMMA SetKeepsType ==
    ASSUME QuestionsTypeOK
    PROVE  /\ \A q \in Questions : RowSet(q) => row' \in [Questions -> QuestionRow]
           /\ \A o \in Observers : PollSet(o) => obs' \in [Observers -> Poll]
  BY DEF QuestionsTypeOK, RowSet, PollSet

LEMMA StatusesAre ==
    {"pending", "expired", "publish_failed", "answered", "input_emitted",
     "dispatch_failed", "delivery_confirmed"} \subseteq Statuses
  BY DEF Statuses

LEMMA TimesAre == QuestionsTypeOK => clock \in Times /\ clock \in Nat /\ clock + Timeout \in Nat
  BY QuestionConstants DEF QuestionsTypeOK, Times

LEMMA ExpiryKeepsType ==
    ASSUME QuestionsTypeOK, NEW now
    PROVE  ExpiredBy(now) \in [Questions -> QuestionRow]
<1>1. ASSUME NEW q \in Questions PROVE [row[q] EXCEPT !.status = "expired"] \in QuestionRow
  BY RowColumns, StatusesAre DEF QuestionsTypeOK, QuestionRow
<1> QED  BY <1>1 DEF ExpiredBy, QuestionsTypeOK

LEMMA AskType ==
    ASSUME Inv, NEW q \in Questions, Ask(q)
    PROVE  QuestionsTypeOK'
<1>t. QuestionsTypeOK /\ row[q] \in QuestionRow
  BY DEF Inv, QuestionsTypeOK
<1>1. CASE CreateQuestion(q)
  <2>1. [NoRow EXCEPT !.status = "pending", !.expires = clock + Timeout] \in QuestionRow
    BY <1>t, NoRowType, RowColumns, StatusesAre, TimesAre DEF QuestionRow
  <2>2. RowSet(q)
    BY <1>1, <2>1 DEF CreateQuestion, RowSet
  <2> QED  BY <1>t, <1>1, <2>2, SetKeepsType DEF CreateQuestion, AskerFrame, QuestionsTypeOK
<1>2. ASSUME NEW ok \in BOOLEAN, NEW reached \in BOOLEAN, PostQuestion(q, ok, reached)
      PROVE QuestionsTypeOK'
  <2>1. channel' \in Seq(Message) /\ Len(channel') <= MaxMessages
    <3>1. [author |-> "webhook", question |-> q] \in Message
      BY DEF Message
    <3>2. CASE reached
      <4>1. channel' = Append(channel, [author |-> "webhook", question |-> q])
            /\ Len(channel) < MaxMessages
        BY <1>2, <3>2 DEF PostQuestion
      <4> QED  BY <1>t, <3>1, <4>1, QuestionConstants DEF QuestionsTypeOK
    <3>3. CASE ~reached
      BY <1>t, <1>2, <3>3 DEF PostQuestion, QuestionsTypeOK
    <3> QED  BY <3>2, <3>3
  <2>2. asker' \in [Questions -> {"new", "posting", "publishing", "failing", "done"}]
    BY <1>t, <1>2 DEF PostQuestion, QuestionsTypeOK
  <2> QED  BY <1>t, <1>2, <2>1, <2>2 DEF PostQuestion, AskerFrame, QuestionsTypeOK
<1>3. CASE PublishQuestion(q)
  <2>1. PostOf(q) \in MessageIds
    BY <1>t, <1>3, PostOfType, IdsAreIds DEF PublishQuestion
  <2>2. [row[q] EXCEPT !.message = PostOf(q)] \in QuestionRow
    BY <1>t, <2>1, RowColumns DEF QuestionRow
  <2>3. RowSet(q) \/ row' = row
    BY <1>3, <2>2 DEF PublishQuestion, RowSet
  <2>4. asker' \in [Questions -> {"new", "posting", "publishing", "failing", "done"}]
    BY <1>t, <1>3 DEF PublishQuestion, QuestionsTypeOK
  <2> QED  BY <1>t, <1>3, <2>3, <2>4, SetKeepsType DEF PublishQuestion, AskerFrame, QuestionsTypeOK
<1>4. CASE FailQuestion(q)
  <2>1. [row[q] EXCEPT !.status = "publish_failed"] \in QuestionRow
    BY <1>t, RowColumns, StatusesAre DEF QuestionRow
  <2>2. RowSet(q) \/ row' = row
    BY <1>4, <2>1 DEF FailQuestion, RowSet
  <2> QED  BY <1>t, <1>4, <2>2, SetKeepsType DEF FailQuestion, AskerFrame, QuestionsTypeOK
<1>5. CASE AskerDies(q)
  BY <1>t, <1>5 DEF AskerDies, AskerFrame, QuestionsTypeOK
<1> QED  BY <1>1, <1>2, <1>3, <1>4, <1>5 DEF Ask

\* The oldest message of a list exists.
LEMMA SmallestMember ==
    ASSUME NEW S, S \subseteq Nat, S # {}
    PROVE  \E x \in S : \A y \in S : x <= y
<1>1. PICK x \in S : \A y \in S : ~(<<y, x>> \in OpToRel(<, Nat))
  BY NatLessThanWellFounded, WFMin
<1>2. ASSUME NEW y \in S PROVE x <= y
  <2>1. ~(y < x)
    BY <1>1 DEF OpToRel
  <2> QED  BY <2>1
<1> QED  BY <1>2

\* The message a poll's loop is at.
LEMMA LoopAt ==
    ASSUME QuestionsTypeOK, NEW o \in Observers, InLoop(o), obs[o].upto <= Len(channel)
    PROVE  /\ obs[o].next \in Nat /\ obs[o].next <= Len(channel) /\ obs[o].upto <= MaxMessages
           /\ obs[o].next + 1 \in 0 .. MaxMessages + 1
  BY QuestionConstants DEF QuestionsTypeOK, Poll, InLoop

LEMMA ObserveType ==
    ASSUME Inv, NEW o \in Observers, Observe(o)
    PROVE  QuestionsTypeOK'
<1>t. QuestionsTypeOK /\ obs[o] \in Poll
  BY DEF Inv, QuestionsTypeOK
<1>u. PollStands(o)
  BY DEF Inv
<1> USE DEF PollFrame
<1>1. CASE StartPoll(o)
  <2>1. [obs[o] EXCEPT !.phase = "reading", !.now = clock] \in Poll
    BY <1>t, PollColumns, TimesAre DEF Phases
  <2>2. PollSet(o)
    BY <1>1, <2>1 DEF StartPoll, PollSet
  <2> QED  BY <1>t, <1>1, <2>2, SetKeepsType, ExpiryKeepsType DEF StartPoll, QuestionsTypeOK
<1>2. CASE ReadCursor(o)
  <2>1. cursor \in MessageIds \cup {NoMessage}
    BY <1>t, QuestionConstants DEF QuestionsTypeOK, MessageIds, NoMessage
  <2>2. [obs[o] EXCEPT !.phase = "listing", !.cursor = cursor] \in Poll
    BY <1>t, <2>1, PollColumns DEF Phases
  <2>3. PollSet(o)
    BY <1>2, <2>2 DEF ReadCursor, PollSet
  <2> QED  BY <1>t, <1>2, <2>3, SetKeepsType DEF ReadCursor, QuestionsTypeOK
<1>3. CASE ListPending(o)
  <2> DEFINE start == IF obs[o].cursor = NoMessage /\ Listed # {} THEN OldestPost(Listed)
                      ELSE obs[o].cursor
  <2>1. start \in MessageIds \cup {NoMessage}
    <3> DEFINE from == {row[q].message : q \in Listed}
    <3>1. obs[o].cursor \in MessageIds \cup {NoMessage}
      BY <1>t DEF Poll
    <3>2. from \subseteq MessageIds
      BY <1>t DEF QuestionsTypeOK, QuestionRow, Listed
    <3>3. ASSUME Listed # {} PROVE OldestPost(Listed) \in MessageIds
      <4>1. from # {} /\ from \subseteq Nat
        BY <3>2, <3>3 DEF MessageIds
      <4>2. PICK m \in from : \A k \in from : m <= k
        BY <4>1, SmallestMember
      <4>3. \A q \in Listed : m <= row[q].message
        BY <4>2
      <4>4. OldestPost(Listed) \in from
        BY <4>3 DEF OldestPost
      <4> QED  BY <3>2, <4>4
    <3> QED  BY <3>1, <3>3
  <2>2. [obs[o] EXCEPT !.phase = "fetching", !.pending = Listed, !.cursor = start] \in Poll
    <3>1. Listed \in SUBSET Questions
      BY DEF Listed
    <3> QED  BY <1>t, <2>1, <3>1, PollColumns DEF Phases
  <2>3. PollSet(o)
    <3>1. obs' = [obs EXCEPT ![o] = [obs[o] EXCEPT !.phase = "fetching", !.pending = Listed,
                                                   !.cursor = start]]
      BY <1>3, Zenon DEF ListPending
    <3> QED  BY <2>2, <3>1 DEF PollSet
  <2> QED  BY <1>t, <1>3, <2>3, SetKeepsType DEF ListPending, QuestionsTypeOK
<1>4. CASE FetchMessages(o)
  <2>1. obs[o].cursor + 1 \in 0 .. MaxMessages + 1 /\ Len(channel) \in 0 .. MaxMessages
    BY <1>t, QuestionConstants DEF QuestionsTypeOK, Poll, MessageIds, NoMessage
  <2>2. [obs[o] EXCEPT !.phase = "loop", !.next = obs[o].cursor + 1, !.upto = Len(channel)]
           \in Poll
    BY <1>t, <2>1, PollColumns DEF Phases
  <2>3. PollSet(o)
    BY <1>4, <2>2 DEF FetchMessages, PollSet
  <2> QED  BY <1>t, <1>4, <2>3, SetKeepsType DEF FetchMessages, QuestionsTypeOK
<1>5. CASE PassOver(o)
  <2>1. obs[o].next + 1 \in 0 .. MaxMessages + 1
    BY <1>t, <1>u, <1>5, LoopAt DEF PassOver, InLoop, PollStands
  <2>2. [obs[o] EXCEPT !.next = obs[o].next + 1] \in Poll
    BY <1>t, <2>1, PollColumns
  <2>3. PollSet(o)
    BY <1>5, <2>2 DEF PassOver, PollSet
  <2> QED  BY <1>t, <1>5, <2>3, SetKeepsType DEF PassOver, QuestionsTypeOK
<1>6. CASE RecordAnswer(o)
  <2> DEFINE m == obs[o].next
             q == channel[m].question
  <2>1. m + 1 \in 0 .. MaxMessages + 1
    BY <1>t, <1>u, <1>6, LoopAt DEF RecordAnswer, InLoop, PollStands
  <2>2. q \in Questions /\ obs[o].pending \in SUBSET Questions
    BY <1>t, <1>6 DEF RecordAnswer, Matches, Poll
  <2>3. CASE row[q].status = "pending" /\ row[q].expires > obs[o].now
    <3>1. m \in MessageIds \cup {NoMessage}
      <4>1. m \in Nat /\ m <= Len(channel) /\ Len(channel) <= MaxMessages /\ Len(channel) \in Nat
        <5>1. Len(channel) <= MaxMessages /\ Len(channel) \in Nat
          BY <1>t DEF QuestionsTypeOK
        <5>2. obs[o].upto <= Len(channel) /\ InLoop(o)
          BY <1>u, <1>6 DEF RecordAnswer, InLoop, PollStands
        <5> QED  BY <1>t, <5>1, <5>2, LoopAt
      <4> QED  BY <4>1, QuestionConstants DEF MessageIds, NoMessage
    <3>2. [row[q] EXCEPT !.status = "answered", !.reply = m] \in QuestionRow
      BY <1>t, <2>2, <3>1, RowColumns, StatusesAre DEF QuestionsTypeOK
    <3>3. RowSet(q)
      <4>1. row' = [row EXCEPT ![q] = [row[q] EXCEPT !.status = "answered", !.reply = m]]
        BY <1>6, <2>3, Zenon DEF RecordAnswer
      <4> QED  BY <3>2, <4>1 DEF RowSet
    <3>4. obs[o].pending \ {q} \in SUBSET Questions
      BY <2>2
    <3>5. \A f \in {"loop", "dispatching"}, p \in {Loose, q} :
             [obs[o] EXCEPT !.phase = f, !.question = p, !.next = m + 1,
                            !.pending = obs[o].pending \ {q}] \in Poll
      BY <1>t, <2>1, <2>2, <3>4, PollColumns DEF Phases
    <3>6. PollSet(o)
      <4> DEFINE f == IF q \in StoreOnly THEN "loop" ELSE "dispatching"
                 p == IF q \in StoreOnly THEN Loose ELSE q
      <4>1. obs' = [obs EXCEPT ![o] = [obs[o] EXCEPT
                       !.phase = f, !.question = p, !.next = m + 1,
                       !.pending = obs[o].pending \ {q}]]
        BY <1>6, <2>3, Zenon DEF RecordAnswer
      <4>2. f \in {"loop", "dispatching"} /\ p \in {Loose, q}
        OBVIOUS
      <4> QED  BY <3>5, <4>1, <4>2 DEF PollSet
    <3> QED  BY <1>t, <1>6, <2>2, <3>3, <3>6, SetKeepsType DEF RecordAnswer, QuestionsTypeOK
  <2>4. CASE ~(row[q].status = "pending" /\ row[q].expires > obs[o].now)
    <3>1. [row[q] EXCEPT !.status = "expired"] \in QuestionRow
      BY <1>t, <2>2, RowColumns, StatusesAre DEF QuestionsTypeOK
    <3>2. RowSet(q) \/ row' = row
      BY <1>6, <2>4, <3>1 DEF RecordAnswer, RowSet
    <3>3. [obs[o] EXCEPT !.next = m + 1] \in Poll
      BY <1>t, <2>1, PollColumns
    <3>4. PollSet(o)
      BY <1>6, <2>4, <3>3 DEF RecordAnswer, PollSet
    <3> QED  BY <1>t, <1>6, <2>2, <3>2, <3>4, SetKeepsType DEF RecordAnswer, QuestionsTypeOK
  <2> QED  BY <2>3, <2>4
<1>7. ASSUME NEW ok \in BOOLEAN, NEW reached \in BOOLEAN, DispatchAnswer(o, ok, reached)
      PROVE QuestionsTypeOK'
  <2>1. obs[o].question \in Questions
    BY <1>u, <1>7 DEF DispatchAnswer, PollStands, Delivering
  <2>2. \A f \in {"emitted", "failed"} : [obs[o] EXCEPT !.phase = f] \in Poll
    BY <1>t, PollColumns DEF Phases
  <2>3. PollSet(o)
    BY <1>7, <2>2 DEF DispatchAnswer, PollSet
  <2>4. sent' \in [Questions -> Nat] /\ arrived' \subseteq Questions
    BY <1>t, <1>7, <2>1 DEF DispatchAnswer, QuestionsTypeOK
  <2> QED  BY <1>t, <1>7, <2>3, <2>4, SetKeepsType DEF DispatchAnswer, QuestionsTypeOK
<1>8. CASE MarkDispatched(o)
  <2> DEFINE q == obs[o].question
  <2>1. q \in Questions /\ obs[o].now \in Times
    BY <1>t, <1>u, <1>8 DEF MarkDispatched, PollStands, Delivering, Poll
  <2>2. /\ [row[q] EXCEPT !.status = "input_emitted", !.emitted = obs[o].now] \in QuestionRow
        /\ [row[q] EXCEPT !.status = "dispatch_failed"] \in QuestionRow
    BY <1>t, <2>1, RowColumns, StatusesAre DEF QuestionsTypeOK
  <2>3. RowSet(q) \/ row' = row
    BY <1>8, <2>2 DEF MarkDispatched, RowSet
  <2>4. [obs[o] EXCEPT !.phase = "loop", !.question = Loose] \in Poll
    BY <1>t, PollColumns DEF Phases
  <2>5. PollSet(o)
    BY <1>8, <2>4, NoPollType DEF MarkDispatched, PollSet
  <2> QED  BY <1>t, <1>8, <2>1, <2>3, <2>5, SetKeepsType DEF MarkDispatched, QuestionsTypeOK
<1>9. CASE SaveCursor(o)
  <2>1. cursor' \in 0 .. MaxMessages
    BY <1>t, <1>9 DEF SaveCursor, QuestionsTypeOK, Poll
  <2>2. PollSet(o)
    BY <1>9, NoPollType DEF SaveCursor, PollSet
  <2> QED  BY <1>t, <1>9, <2>1, <2>2, SetKeepsType DEF SaveCursor, QuestionsTypeOK
<1>10. CASE PollEnds(o)
  <2>1. PollSet(o)
    BY <1>10, NoPollType DEF PollEnds, PollSet
  <2> QED  BY <1>t, <1>10, <2>1, SetKeepsType DEF PollEnds, QuestionsTypeOK
<1> QED  BY <1>1, <1>2, <1>3, <1>4, <1>5, <1>6, <1>7, <1>8, <1>9, <1>10 DEF Observe

LEMMA RetryType ==
    ASSUME Inv, NEW r \in Retriers, Retry(r)
    PROVE  QuestionsTypeOK'
<1>t. QuestionsTypeOK /\ retry[r] \in Delivery /\ RetryStands(r)
  BY DEF Inv, QuestionsTypeOK
<1> USE DEF RetryFrame
<1>1. ASSUME NEW q \in Questions, ReadAnswer(r, q) PROVE QuestionsTypeOK'
  <2>1. [phase |-> "dispatching", question |-> q, status |-> row[q].status] \in Delivery
    BY <1>1 DEF ReadAnswer, Delivery, Accepted
  <2>2. retry' \in [Retriers -> Delivery]
    BY <1>t, <1>1, <2>1 DEF ReadAnswer, QuestionsTypeOK
  <2> QED  BY <1>t, <1>1, <2>2 DEF ReadAnswer, QuestionsTypeOK
<1>2. ASSUME NEW ok \in BOOLEAN, NEW reached \in BOOLEAN, RetryDispatch(r, ok, reached)
      PROVE QuestionsTypeOK'
  <2>1. \A f \in {"emitted", "failed"} : [retry[r] EXCEPT !.phase = f] \in Delivery
    BY <1>t DEF Delivery
  <2>2. retry' \in [Retriers -> Delivery]
    BY <1>t, <1>2, <2>1 DEF RetryDispatch, QuestionsTypeOK
  <2>3. arrived' \subseteq Questions
    BY <1>t, <1>2 DEF RetryDispatch, QuestionsTypeOK, RetryStands, Delivering
  <2> QED  BY <1>t, <1>2, <2>2, <2>3 DEF RetryDispatch, QuestionsTypeOK
<1>3. CASE MarkRetried(r)
  <2> DEFINE q == retry[r].question
  <2>1. q \in Questions
    BY <1>t, <1>3 DEF MarkRetried, RetryStands, Delivering
  <2>2. /\ [row[q] EXCEPT !.status = "input_emitted", !.emitted = clock] \in QuestionRow
        /\ [row[q] EXCEPT !.status = "dispatch_failed"] \in QuestionRow
    BY <1>t, <2>1, RowColumns, StatusesAre, TimesAre DEF QuestionsTypeOK
  <2>3. RowSet(q) \/ row' = row
    BY <1>3, <2>2 DEF MarkRetried, RowSet
  <2>4. retry' \in [Retriers -> Delivery]
    BY <1>t, <1>3, NoDeliveryType DEF MarkRetried, QuestionsTypeOK
  <2> QED  BY <1>t, <1>3, <2>1, <2>3, <2>4, SetKeepsType DEF MarkRetried, QuestionsTypeOK
<1>4. CASE RetrierDies(r)
  BY <1>t, <1>4, NoDeliveryType DEF RetrierDies, QuestionsTypeOK
<1> QED  BY <1>1, <1>2, <1>3, <1>4 DEF Retry

LEMMA TypeStep == Inv /\ [QuestionsNext]_questionVars => QuestionsTypeOK'
<1> SUFFICES ASSUME Inv, [QuestionsNext]_questionVars PROVE QuestionsTypeOK'
  OBVIOUS
<1>t. QuestionsTypeOK
  BY DEF Inv
<1>1. CASE Tick
  BY <1>1, <1>t, QuestionConstants DEF Tick, QuestionsTypeOK, Times
<1>2. CASE \E q \in Questions : Ask(q)
  BY <1>2, AskType
<1>3. ASSUME NEW q \in Questions \cup {Loose}, UserWrites(q) PROVE QuestionsTypeOK'
  <2>1. [author |-> "user", question |-> q] \in Message
    BY DEF Message
  <2>2. channel' = Append(channel, [author |-> "user", question |-> q])
        /\ Len(channel) < MaxMessages
    BY <1>3 DEF UserWrites
  <2>3. channel' \in Seq(Message) /\ Len(channel') <= MaxMessages
    BY <1>t, <2>1, <2>2, QuestionConstants DEF QuestionsTypeOK
  <2> QED  BY <1>t, <1>3, <2>3 DEF UserWrites, QuestionsTypeOK
<1>4. CASE ShowQuestions
  BY <1>t, <1>4, ExpiryKeepsType DEF ShowQuestions, QuestionsTypeOK
<1>5. CASE \E o \in Observers : Observe(o)
  BY <1>5, ObserveType
<1>6. CASE \E r \in Retriers : Retry(r)
  BY <1>6, RetryType
<1>7. ASSUME NEW at \in Times, ConfirmDeliveries(at) PROVE QuestionsTypeOK'
  <2>1. \A q \in Questions : [row[q] EXCEPT !.status = "delivery_confirmed"] \in QuestionRow
    BY <1>t, RowColumns, StatusesAre DEF QuestionsTypeOK
  <2>2. row' \in [Questions -> QuestionRow]
    BY <1>t, <1>7, <2>1 DEF ConfirmDeliveries, QuestionsTypeOK
  <2> QED  BY <1>t, <1>7, <2>2 DEF ConfirmDeliveries, QuestionsTypeOK
<1>8. CASE UNCHANGED questionVars
  BY <1>t, <1>8 DEF questionVars, QuestionsTypeOK
<1> QED  BY <1>1, <1>2, <1>3, <1>4, <1>5, <1>6, <1>7, <1>8 DEF QuestionsNext

-----------------------------------------------------------------------------
(* What a step does to the channel, to one row and to one delivery.        *)

ChannelKept == \A m \in Ids : m \in Ids' /\ channel'[m] = channel[m]

LEMMA AppendKeeps ==
    ASSUME QuestionsTypeOK, NEW e \in Message, channel' = Append(channel, e)
    PROVE  /\ ChannelKept
           /\ Len(channel) + 1 \in Ids' /\ channel'[Len(channel) + 1] = e
           /\ \A m \in Ids' : m \in Ids \/ m = Len(channel) + 1
           /\ Len(channel') = Len(channel) + 1
<1>1. channel \in Seq(Message) /\ Len(channel) \in Nat
  BY DEF QuestionsTypeOK
<1>2. Len(channel') = Len(channel) + 1
  BY <1>1
<1>3. \A m \in 1 .. Len(channel) : channel'[m] = channel[m]
  BY <1>1
<1>4. channel'[Len(channel) + 1] = e
  BY <1>1
<1> QED  BY <1>1, <1>2, <1>3, <1>4 DEF ChannelKept, Ids

\* Only ask-user and the person write; what is there stays.
LEMMA ChannelStep ==
    ASSUME Inv, [QuestionsNext]_questionVars
    PROVE  \/ channel' = channel
           \/ \E q \in Questions, ok \in BOOLEAN : PostQuestion(q, ok, TRUE)
           \/ \E q \in Questions \cup {Loose} : UserWrites(q)
<1>1. CASE Tick
  BY <1>1 DEF Tick
<1>2. ASSUME NEW q \in Questions, Ask(q)
      PROVE channel' = channel \/ \E ok \in BOOLEAN : PostQuestion(q, ok, TRUE)
  <2>1. ASSUME NEW ok \in BOOLEAN, NEW reached \in BOOLEAN, PostQuestion(q, ok, reached)
        PROVE channel' = channel \/ PostQuestion(q, ok, TRUE)
    BY <2>1 DEF PostQuestion
  <2> QED  BY <1>2, <2>1 DEF Ask, CreateQuestion, PublishQuestion, FailQuestion, AskerDies
<1>3. CASE \E q \in Questions \cup {Loose} : UserWrites(q)
  BY <1>3
<1>4. CASE ShowQuestions
  BY <1>4 DEF ShowQuestions
<1>5. ASSUME NEW o \in Observers, Observe(o) PROVE channel' = channel
  BY <1>5 DEF Observe, StartPoll, ReadCursor, ListPending, FetchMessages, PassOver,
     RecordAnswer, DispatchAnswer, MarkDispatched, SaveCursor, PollEnds, PollFrame
<1>6. ASSUME NEW r \in Retriers, Retry(r) PROVE channel' = channel
  BY <1>6 DEF Retry, ReadAnswer, RetryDispatch, MarkRetried, RetrierDies, RetryFrame
<1>7. ASSUME NEW at \in Times, ConfirmDeliveries(at) PROVE channel' = channel
  BY <1>7 DEF ConfirmDeliveries
<1>8. CASE UNCHANGED questionVars
  BY <1>8 DEF questionVars
<1> QED  BY <1>1, <1>2, <1>3, <1>4, <1>5, <1>6, <1>7, <1>8 DEF QuestionsNext

LEMMA MessagesStay == Inv /\ [QuestionsNext]_questionVars => ChannelKept
<1> SUFFICES ASSUME Inv, [QuestionsNext]_questionVars PROVE ChannelKept
  OBVIOUS
<1>t. QuestionsTypeOK
  BY DEF Inv
<1>1. CASE channel' = channel
  BY <1>1 DEF ChannelKept, Ids
<1>2. ASSUME NEW q \in Questions, NEW ok \in BOOLEAN, PostQuestion(q, ok, TRUE)
      PROVE ChannelKept
  <2>1. [author |-> "webhook", question |-> q] \in Message
    BY DEF Message
  <2> QED  BY <1>t, <1>2, <2>1, AppendKeeps DEF PostQuestion
<1>3. ASSUME NEW q \in Questions \cup {Loose}, UserWrites(q) PROVE ChannelKept
  <2>1. [author |-> "user", question |-> q] \in Message
    BY DEF Message
  <2> QED  BY <1>t, <1>3, <2>1, AppendKeeps DEF UserWrites
<1> QED  BY <1>1, <1>2, <1>3, ChannelStep

\* The ways of a row: created, published, closed without an answer, answered by
\* the reply an observer is at, or on its way after an answer.
Created(q) ==
    /\ asker[q] = "new" /\ asker'[q] = "posting"
    /\ row'[q].status = "pending" /\ row'[q].message = NoMessage /\ row'[q].reply = NoMessage
Published(q) ==
    /\ asker[q] = "publishing" /\ row[q].status = "pending"
    /\ row'[q].status = "pending" /\ row'[q].reply = row[q].reply
    /\ row'[q].message = PostOf(q)
Closed(q) ==
    /\ row[q].status = "pending" /\ row'[q].status \in {"expired", "publish_failed"}
    /\ row'[q].message = row[q].message /\ row'[q].reply = row[q].reply
Answered(q) ==
    /\ row[q].status = "pending" /\ row'[q].status = "answered"
    /\ row'[q].message = row[q].message
    /\ \E o \in Observers : /\ RecordAnswer(o)
                            /\ channel[obs[o].next].question = q
                            /\ row'[q].reply = obs[o].next
Delivered(q) ==
    /\ row[q].status \in Accepted /\ row'[q].status \in Accepted
    /\ row'[q].message = row[q].message /\ row'[q].reply = row[q].reply
    /\ row'[q].status \in {"input_emitted", "delivery_confirmed"} => q \in arrived

RowMoves(q) ==
    row'[q] = row[q] \/ Created(q) \/ Published(q) \/ Closed(q) \/ Answered(q) \/ Delivered(q)

LEMMA AskRow ==
    ASSUME Inv, NEW q \in Questions, Ask(q), NEW p \in Questions
    PROVE  RowMoves(p)
<1>t. row \in [Questions -> QuestionRow]
      /\ asker \in [Questions -> {"new", "posting", "publishing", "failing", "done"}]
  BY DEF Inv, QuestionsTypeOK
<1>1. CASE CreateQuestion(q)
  <2>1. p # q => row'[p] = row[p]
    BY <1>t, <1>1 DEF CreateQuestion
  <2>2. row'[q] = [NoRow EXCEPT !.status = "pending", !.expires = clock + Timeout]
        /\ asker[q] = "new" /\ asker'[q] = "posting"
    BY <1>t, <1>1 DEF CreateQuestion
  <2>3. Created(q)
    BY <2>2 DEF Created, NoRow
  <2> QED  BY <2>1, <2>3 DEF RowMoves
<1>2. ASSUME NEW ok \in BOOLEAN, NEW reached \in BOOLEAN, PostQuestion(q, ok, reached)
      PROVE RowMoves(p)
  BY <1>2 DEF PostQuestion, RowMoves
<1>3. CASE PublishQuestion(q)
  <2>1. CASE row' = row
    BY <2>1 DEF RowMoves
  <2>2. CASE row' # row
    <3>1. row' = [row EXCEPT ![q] = [row[q] EXCEPT !.message = PostOf(q)]]
          /\ asker[q] = "publishing" /\ row[q].status = "pending"
      BY <1>3, <2>2 DEF PublishQuestion
    <3>2. p # q => row'[p] = row[p]
      BY <1>t, <3>1
    <3>3. row'[q] = [row[q] EXCEPT !.message = PostOf(q)] /\ row[q] \in QuestionRow
      BY <1>t, <3>1
    <3>4. Published(q)
      BY <3>1, <3>3 DEF Published, QuestionRow
    <3> QED  BY <3>2, <3>4 DEF RowMoves
  <2> QED  BY <2>1, <2>2
<1>4. CASE FailQuestion(q)
  <2>1. CASE row[q].status # "pending"
    BY <1>4, <2>1 DEF FailQuestion, RowMoves
  <2>2. CASE row[q].status = "pending"
    <3>1. row' = [row EXCEPT ![q] = [row[q] EXCEPT !.status = "publish_failed"]]
      BY <1>4, <2>2 DEF FailQuestion
    <3>2. p # q => row'[p] = row[p]
      BY <1>t, <3>1
    <3>3. row'[q] = [row[q] EXCEPT !.status = "publish_failed"] /\ row[q] \in QuestionRow
      BY <1>t, <3>1
    <3>4. Closed(q)
      BY <2>2, <3>3 DEF Closed, QuestionRow
    <3> QED  BY <3>2, <3>4 DEF RowMoves
  <2> QED  BY <2>1, <2>2
<1>5. CASE AskerDies(q)
  BY <1>5 DEF AskerDies, RowMoves
<1> QED  BY <1>1, <1>2, <1>3, <1>4, <1>5 DEF Ask

LEMMA ExpiryRow ==
    ASSUME Inv, NEW now, row' = ExpiredBy(now), NEW p \in Questions
    PROVE  RowMoves(p)
<1>1. row[p] \in QuestionRow
  BY DEF Inv, QuestionsTypeOK
<1>2. CASE p \in Due(now)
  <2>1. row'[p] = [row[p] EXCEPT !.status = "expired"] /\ row[p].status = "pending"
    BY <1>2 DEF ExpiredBy, Due
  <2>2. Closed(p)
    BY <1>1, <2>1 DEF Closed, QuestionRow
  <2> QED  BY <2>2 DEF RowMoves
<1>3. CASE p \notin Due(now)
  BY <1>3 DEF ExpiredBy, RowMoves
<1> QED  BY <1>2, <1>3

LEMMA RecordRow ==
    ASSUME Inv, NEW o \in Observers, RecordAnswer(o), NEW p \in Questions
    PROVE  RowMoves(p)
<1> DEFINE m == obs[o].next
           q == channel[m].question
<1>t. row \in [Questions -> QuestionRow] /\ obs[o] \in Poll
  BY DEF Inv, QuestionsTypeOK
<1>q. q \in Questions
  BY <1>t DEF RecordAnswer, Matches, Poll
<1>1. CASE row[q].status = "pending" /\ row[q].expires > obs[o].now
  <2>1. row' = [row EXCEPT ![q] = [row[q] EXCEPT !.status = "answered", !.reply = m]]
    BY <1>1, Zenon DEF RecordAnswer
  <2>2. p # q => row'[p] = row[p]
    BY <1>t, <2>1
  <2>3. row'[q] = [row[q] EXCEPT !.status = "answered", !.reply = m] /\ row[q] \in QuestionRow
    BY <1>t, <1>q, <2>1
  <2>4. row'[q].status = "answered" /\ row'[q].reply = m /\ row'[q].message = row[q].message
    BY <2>3 DEF QuestionRow
  <2>5. Answered(q)
    BY <1>1, <2>4 DEF Answered
  <2> QED  BY <2>2, <2>5 DEF RowMoves
<1>2. CASE row[q].status = "pending" /\ ~(row[q].expires > obs[o].now)
  <2>1. row' = [row EXCEPT ![q] = [row[q] EXCEPT !.status = "expired"]]
    BY <1>2 DEF RecordAnswer
  <2>2. p # q => row'[p] = row[p]
    BY <1>t, <2>1
  <2>3. row'[q] = [row[q] EXCEPT !.status = "expired"] /\ row[q] \in QuestionRow
    BY <1>t, <1>q, <2>1
  <2>4. Closed(q)
    BY <1>2, <2>3 DEF Closed, QuestionRow
  <2> QED  BY <2>2, <2>4 DEF RowMoves
<1>3. CASE row[q].status # "pending"
  BY <1>3 DEF RecordAnswer, RowMoves
<1> QED  BY <1>1, <1>2, <1>3

\* A delivery's result, whoever writes it.
LEMMA ResultRow ==
    ASSUME Inv, NEW q \in Questions, row[q].status \in Accepted,
           NEW s \in {"input_emitted", "dispatch_failed"}, NEW r, 
           s = "input_emitted" => q \in arrived,
           \/ r = [row[q] EXCEPT !.status = s]
           \/ \E t : r = [row[q] EXCEPT !.status = s, !.emitted = t],
           row' = [row EXCEPT ![q] = r], NEW p \in Questions
    PROVE  RowMoves(p)
<1>t. row \in [Questions -> QuestionRow]
  BY DEF Inv, QuestionsTypeOK
<1>1. p # q => row'[p] = row[p]
  BY <1>t
<1>2. row'[q] = r /\ row[q] \in QuestionRow
  BY <1>t
<1>3. r.status = s /\ r.message = row[q].message /\ r.reply = row[q].reply
  BY <1>2 DEF QuestionRow
<1>4. Delivered(q)
  BY <1>2, <1>3 DEF Delivered, Accepted
<1> QED  BY <1>1, <1>4 DEF RowMoves

LEMMA RowStep ==
    ASSUME Inv, [QuestionsNext]_questionVars, NEW p \in Questions
    PROVE  RowMoves(p)
<1>1. CASE Tick
  BY <1>1 DEF Tick, RowMoves
<1>2. CASE \E q \in Questions : Ask(q)
  BY <1>2, AskRow
<1>3. CASE \E q \in Questions \cup {Loose} : UserWrites(q)
  BY <1>3 DEF UserWrites, RowMoves
<1>4. CASE ShowQuestions
  BY <1>4, ExpiryRow DEF ShowQuestions
<1>5. ASSUME NEW o \in Observers, Observe(o) PROVE RowMoves(p)
  <2>1. CASE StartPoll(o)
    BY <2>1, ExpiryRow DEF StartPoll
  <2>2. CASE ReadCursor(o) \/ ListPending(o) \/ FetchMessages(o) \/ PassOver(o)
             \/ SaveCursor(o) \/ PollEnds(o)
    BY <2>2 DEF ReadCursor, ListPending, FetchMessages, PassOver, SaveCursor, PollEnds, RowMoves
  <2>3. CASE RecordAnswer(o)
    BY <2>3, RecordRow
  <2>4. ASSUME NEW ok \in BOOLEAN, NEW reached \in BOOLEAN, DispatchAnswer(o, ok, reached)
        PROVE RowMoves(p)
    BY <2>4 DEF DispatchAnswer, RowMoves
  <2>5. CASE MarkDispatched(o)
    <3> DEFINE q == obs[o].question
    <3>1. CASE row' = row
      BY <3>1 DEF RowMoves
    <3>2. CASE row' # row
      <4>1. q \in Questions /\ row[q].status \in Accepted
            /\ (obs[o].phase = "emitted" => q \in arrived)
        BY <2>5 DEF Inv, PollStands, Delivering, MarkDispatched
      <4>2. CASE obs[o].phase = "emitted"
        <5>1. row' = [row EXCEPT ![q] = [row[q] EXCEPT !.status = "input_emitted",
                                                       !.emitted = obs[o].now]]
          BY <2>5, <3>2, <4>2 DEF MarkDispatched
        <5> QED  BY <4>1, <4>2, <5>1, ResultRow
      <4>3. CASE obs[o].phase # "emitted"
        <5>1. row' = [row EXCEPT ![q] = [row[q] EXCEPT !.status = "dispatch_failed"]]
          BY <2>5, <3>2, <4>3 DEF MarkDispatched
        <5> QED  BY <4>1, <5>1, ResultRow
      <4> QED  BY <4>2, <4>3
    <3> QED  BY <3>1, <3>2
  <2> QED  BY <1>5, <2>1, <2>2, <2>3, <2>4, <2>5 DEF Observe
<1>6. ASSUME NEW r \in Retriers, Retry(r) PROVE RowMoves(p)
  <2>1. CASE row' = row
    BY <2>1 DEF RowMoves
  <2>2. CASE row' # row
    <3> DEFINE q == retry[r].question
    <3>1. MarkRetried(r)
      BY <1>6, <2>2 DEF Retry, ReadAnswer, RetryDispatch, RetrierDies
    <3>2. q \in Questions /\ row[q].status \in Accepted
          /\ (retry[r].phase = "emitted" => q \in arrived)
      BY <3>1 DEF Inv, RetryStands, Delivering, MarkRetried
    <3>3. CASE retry[r].phase = "emitted"
      <4>1. row' = [row EXCEPT ![q] = [row[q] EXCEPT !.status = "input_emitted",
                                                     !.emitted = clock]]
        BY <2>2, <3>1, <3>3 DEF MarkRetried
      <4> QED  BY <3>2, <3>3, <4>1, ResultRow
    <3>4. CASE retry[r].phase # "emitted"
      <4>1. row' = [row EXCEPT ![q] = [row[q] EXCEPT !.status = "dispatch_failed"]]
        BY <2>2, <3>1, <3>4 DEF MarkRetried
      <4> QED  BY <3>2, <4>1, ResultRow
    <3> QED  BY <3>3, <3>4
  <2> QED  BY <2>1, <2>2
<1>7. ASSUME NEW at \in Times, ConfirmDeliveries(at) PROVE RowMoves(p)
  <2>t. row[p] \in QuestionRow /\ AnswerIsReply(p)
    BY DEF Inv, QuestionsTypeOK
  <2>1. CASE Confirmed(p, at)
    <3>1. row'[p] = [row[p] EXCEPT !.status = "delivery_confirmed"]
          /\ row[p].status = "input_emitted"
      BY <1>7, <2>1 DEF ConfirmDeliveries, Confirmed
    <3>2. row'[p].status = "delivery_confirmed" /\ row'[p].message = row[p].message
          /\ row'[p].reply = row[p].reply
      BY <2>t, <3>1 DEF QuestionRow
    <3>3. p \in arrived
      BY <2>t, <3>1 DEF AnswerIsReply
    <3>4. Delivered(p)
      BY <3>1, <3>2, <3>3 DEF Delivered, Accepted
    <3> QED  BY <3>4 DEF RowMoves
  <2>2. CASE ~Confirmed(p, at)
    BY <1>7, <2>2 DEF ConfirmDeliveries, RowMoves
  <2> QED  BY <2>1, <2>2
<1>8. CASE UNCHANGED questionVars
  BY <1>8 DEF questionVars, RowMoves
<1> QED  BY <1>1, <1>2, <1>3, <1>4, <1>5, <1>6, <1>7, <1>8 DEF QuestionsNext

\* A process acts alone: whoever does not is left where it stands.
LEMMA OthersStand ==
    ASSUME Inv, [QuestionsNext]_questionVars
    PROVE  /\ \A q \in Questions : asker'[q] = asker[q] \/ Ask(q)
           /\ \A o \in Observers : obs'[o] = obs[o] \/ Observe(o)
           /\ \A r \in Retriers : retry'[r] = retry[r] \/ Retry(r)
<1>t. /\ asker \in [Questions -> {"new", "posting", "publishing", "failing", "done"}]
      /\ obs \in [Observers -> Poll] /\ retry \in [Retriers -> Delivery]
  BY DEF Inv, QuestionsTypeOK
<1>1. CASE Tick \/ ShowQuestions \/ UNCHANGED questionVars
           \/ (\E q \in Questions \cup {Loose} : UserWrites(q))
           \/ (\E at \in Times : ConfirmDeliveries(at))
  BY <1>1 DEF Tick, ShowQuestions, questionVars, UserWrites, ConfirmDeliveries
<1>2. ASSUME NEW q \in Questions, Ask(q)
      PROVE  /\ obs' = obs /\ retry' = retry
             /\ \A p \in Questions : p # q => asker'[p] = asker[p]
  <2>1. obs' = obs /\ retry' = retry
    BY <1>2 DEF Ask, CreateQuestion, PostQuestion, PublishQuestion, FailQuestion, AskerDies,
                AskerFrame
  <2>2. \E v : asker' = [asker EXCEPT ![q] = v]
    BY <1>2 DEF Ask, CreateQuestion, PostQuestion, PublishQuestion, FailQuestion, AskerDies
  <2> QED  BY <1>t, <2>1, <2>2
<1>3. ASSUME NEW o \in Observers, Observe(o)
      PROVE  /\ asker' = asker /\ retry' = retry
             /\ \A p \in Observers : p # o => obs'[p] = obs[p]
  <2>1. asker' = asker /\ retry' = retry
    BY <1>3 DEF Observe, StartPoll, ReadCursor, ListPending, FetchMessages, PassOver,
       RecordAnswer, DispatchAnswer, MarkDispatched, SaveCursor, PollEnds, PollFrame
  <2>2. ASSUME NEW p \in Observers, p # o PROVE obs'[p] = obs[p]
    BY <1>t, <1>3, <2>2 DEF Observe, StartPoll, ReadCursor, ListPending, FetchMessages, PassOver,
       RecordAnswer, DispatchAnswer, MarkDispatched, SaveCursor, PollEnds
  <2> QED  BY <2>1, <2>2
<1>4. ASSUME NEW r \in Retriers, Retry(r)
      PROVE  /\ asker' = asker /\ obs' = obs
             /\ \A p \in Retriers : p # r => retry'[p] = retry[p]
  <2>1. asker' = asker /\ obs' = obs
    BY <1>4 DEF Retry, ReadAnswer, RetryDispatch, MarkRetried, RetrierDies, RetryFrame
  <2>2. ASSUME NEW p \in Retriers, p # r PROVE retry'[p] = retry[p]
    BY <1>t, <1>4, <2>2 DEF Retry, ReadAnswer, RetryDispatch, MarkRetried, RetrierDies
  <2> QED  BY <2>1, <2>2
<1> QED  BY <1>1, <1>2, <1>3, <1>4 DEF QuestionsNext

Dispatches(o) == \E ok, reached \in BOOLEAN : DispatchAnswer(o, ok, reached)
Redelivers(r) == \E ok, reached \in BOOLEAN : RetryDispatch(r, ok, reached)

\* Deliveries begin and arrive in dispatching steps alone.
LEMMA DeliverySteps ==
    ASSUME Inv, [QuestionsNext]_questionVars
    PROVE  \/ sent' = sent /\ arrived' = arrived
           \/ \E o \in Observers : Dispatches(o)
           \/ sent' = sent /\ \E r \in Retriers : Redelivers(r)
<1>1. CASE Tick \/ ShowQuestions \/ UNCHANGED questionVars
           \/ (\E q \in Questions \cup {Loose} : UserWrites(q))
           \/ (\E at \in Times : ConfirmDeliveries(at))
  BY <1>1 DEF Tick, ShowQuestions, questionVars, UserWrites, ConfirmDeliveries
<1>2. ASSUME NEW q \in Questions, Ask(q) PROVE sent' = sent /\ arrived' = arrived
  BY <1>2 DEF Ask, CreateQuestion, PostQuestion, PublishQuestion, FailQuestion, AskerDies,
              AskerFrame
<1>3. ASSUME NEW o \in Observers, Observe(o)
      PROVE  (sent' = sent /\ arrived' = arrived) \/ Dispatches(o)
  BY <1>3 DEF Observe, StartPoll, ReadCursor, ListPending, FetchMessages, PassOver,
     RecordAnswer, MarkDispatched, SaveCursor, PollEnds, Dispatches
<1>4. ASSUME NEW r \in Retriers, Retry(r)
      PROVE  sent' = sent /\ (arrived' = arrived \/ Redelivers(r))
  BY <1>4 DEF Retry, ReadAnswer, RetryDispatch, MarkRetried, RetrierDies, RetryFrame, Redelivers
<1> QED  BY <1>1, <1>2, <1>3, <1>4 DEF QuestionsNext

\* What is delivered was accepted, and each delivery is the question's first.
LEMMA DispatchEffect ==
    ASSUME Inv, NEW o \in Observers, Dispatches(o)
    PROVE  LET q == obs[o].question
           IN  /\ q \in Questions \ StoreOnly /\ row[q].status \in Accepted
               /\ row' = row /\ channel' = channel
               /\ sent[q] = 0 /\ sent'[q] = 1
               /\ \A p \in Questions : p # q => sent'[p] = sent[p]
               /\ arrived \subseteq arrived' /\ arrived' \subseteq arrived \cup {q}
<1> DEFINE q == obs[o].question
<1>1. PICK ok \in BOOLEAN, reached \in BOOLEAN : DispatchAnswer(o, ok, reached)
  BY DEF Dispatches
<1>2. q \in Questions \ StoreOnly /\ row[q].status \in Accepted /\ sent[q] = 0
  BY <1>1 DEF DispatchAnswer, Inv, PollStands, Delivering
<1>3. sent \in [Questions -> Nat]
  BY DEF Inv, QuestionsTypeOK
<1>4. sent' = [sent EXCEPT ![q] = sent[q] + 1]
  BY <1>1 DEF DispatchAnswer
<1>5. row' = row /\ channel' = channel
  BY <1>1 DEF DispatchAnswer, PollFrame
<1>6. arrived \subseteq arrived' /\ arrived' \subseteq arrived \cup {q}
  BY <1>1 DEF DispatchAnswer
<1>7. sent'[q] = 1 /\ \A p \in Questions : p # q => sent'[p] = sent[p]
  BY <1>2, <1>3, <1>4
<1> QED  BY <1>2, <1>5, <1>6, <1>7

LEMMA RedeliverEffect ==
    ASSUME Inv, NEW r \in Retriers, Redelivers(r)
    PROVE  LET q == retry[r].question
           IN  /\ q \in Questions \ StoreOnly /\ row[q].status \in Accepted
               /\ row' = row /\ channel' = channel
               /\ arrived \subseteq arrived' /\ arrived' \subseteq arrived \cup {q}
<1> DEFINE q == retry[r].question
<1>1. PICK ok \in BOOLEAN, reached \in BOOLEAN : RetryDispatch(r, ok, reached)
  BY DEF Redelivers
<1>2. q \in Questions \ StoreOnly /\ row[q].status \in Accepted
  BY <1>1 DEF RetryDispatch, Inv, RetryStands, Delivering
<1>3. row' = row /\ channel' = channel
  BY <1>1 DEF RetryDispatch, RetryFrame
<1>4. arrived \subseteq arrived' /\ arrived' \subseteq arrived \cup {q}
  BY <1>1 DEF RetryDispatch
<1> QED  BY <1>2, <1>3, <1>4

\* For each question: its deliveries, and that what arrived stays.
LEMMA DeliveredStep ==
    ASSUME Inv, [QuestionsNext]_questionVars, NEW q \in Questions
    PROVE  /\ arrived \subseteq arrived'
           /\ \/ sent'[q] = sent[q] /\ (q \in arrived' => q \in arrived)
              \/ /\ row' = row /\ row[q].status \in Accepted /\ q \notin StoreOnly
                 /\ sent'[q] = sent[q] \/ sent'[q] = 1
<1>1. ASSUME NEW o \in Observers, Dispatches(o)
      PROVE  /\ arrived \subseteq arrived'
             /\ \/ sent'[q] = sent[q] /\ (q \in arrived' => q \in arrived)
                \/ /\ row' = row /\ row[q].status \in Accepted /\ q \notin StoreOnly
                   /\ sent'[q] = sent[q] \/ sent'[q] = 1
  BY <1>1, DispatchEffect
<1>2. ASSUME NEW r \in Retriers, Redelivers(r), sent' = sent
      PROVE  /\ arrived \subseteq arrived'
             /\ \/ sent'[q] = sent[q] /\ (q \in arrived' => q \in arrived)
                \/ /\ row' = row /\ row[q].status \in Accepted /\ q \notin StoreOnly
                   /\ sent'[q] = sent[q] \/ sent'[q] = 1
  BY <1>2, RedeliverEffect
<1> QED  BY <1>1, <1>2, DeliverySteps

-----------------------------------------------------------------------------
(* The channel and the ask-users.                                          *)

LEMMA PostEffect ==
    ASSUME Inv, NEW p \in Questions, NEW ok \in BOOLEAN, PostQuestion(p, ok, TRUE)
    PROVE  /\ ChannelKept /\ row' = row
           /\ \A m \in Ids' : m \in Ids \/ (m \notin Ids /\ IsPost(m, p)')
           /\ \E m \in Ids' : m \notin Ids /\ IsPost(m, p)'
           /\ \A m, n \in Ids' : m \notin Ids /\ n \notin Ids => m = n
           /\ asker[p] = "posting" /\ asker'[p] \in {"publishing", "failing"}
<1>t. QuestionsTypeOK /\ asker[p] = "posting"
  BY DEF Inv, PostQuestion
<1>1. [author |-> "webhook", question |-> p] \in Message
  BY DEF Message
<1>2. channel' = Append(channel, [author |-> "webhook", question |-> p])
  BY DEF PostQuestion
<1>3. /\ ChannelKept
      /\ Len(channel) + 1 \in Ids'
      /\ channel'[Len(channel) + 1] = [author |-> "webhook", question |-> p]
      /\ \A m \in Ids' : m \in Ids \/ m = Len(channel) + 1
  BY <1>t, <1>1, <1>2, AppendKeeps
<1>4. Len(channel) + 1 \notin Ids
  BY <1>t DEF QuestionsTypeOK, Ids
<1>5. \A k : k = Len(channel) + 1 => IsPost(k, p)'
  BY <1>3 DEF IsPost
<1>6. asker'[p] \in {"publishing", "failing"} /\ row' = row
  BY <1>t DEF PostQuestion, QuestionsTypeOK
<1> QED  BY <1>t, <1>3, <1>4, <1>5, <1>6

LEMMA WriteEffect ==
    ASSUME Inv, NEW p \in Questions \cup {Loose}, UserWrites(p)
    PROVE  /\ ChannelKept /\ row' = row /\ asker' = asker
           /\ \A m \in Ids' : m \in Ids \/ (/\ m \notin Ids /\ channel'[m].author = "user"
                                            /\ channel'[m].question = p
                                            /\ \A n \in Ids : n < m)
           /\ p # Loose => \E n \in Ids : IsPost(n, p)
<1>t. QuestionsTypeOK
  BY DEF Inv
<1>1. [author |-> "user", question |-> p] \in Message
  BY DEF Message
<1>2. channel' = Append(channel, [author |-> "user", question |-> p])
  BY DEF UserWrites
<1>3. /\ ChannelKept
      /\ channel'[Len(channel) + 1] = [author |-> "user", question |-> p]
      /\ \A m \in Ids' : m \in Ids \/ m = Len(channel) + 1
  BY <1>t, <1>1, <1>2, AppendKeeps
<1>4. Len(channel) + 1 \notin Ids /\ \A n \in Ids : n < Len(channel) + 1
  BY <1>t DEF QuestionsTypeOK, Ids
<1>5. p # Loose => \E n \in Ids : IsPost(n, p)
  <2>1. DOMAIN channel = Ids
    BY <1>t DEF QuestionsTypeOK, Ids
  <2> QED  BY <2>1 DEF UserWrites, IsPost
<1>6. row' = row /\ asker' = asker
  BY DEF UserWrites
<1> QED  BY <1>3, <1>4, <1>5, <1>6

LEMMA ChannelOrderedStep ==
    ASSUME Inv, [QuestionsNext]_questionVars
    PROVE  ChannelOrdered'
<1>o. ChannelOrdered /\ (\A q \in Questions : AskerStands(q)) /\ QuestionsTypeOK /\ Loose \notin Questions
  BY QuestionConstants DEF Inv
<1>i. Ids \subseteq Nat
  BY DEF Ids
<1>1. CASE channel' = channel
  BY <1>o, <1>1 DEF ChannelOrdered, Ids, IsPost
<1>2. ASSUME NEW p \in Questions, NEW ok \in BOOLEAN, PostQuestion(p, ok, TRUE)
      PROVE ChannelOrdered'
  <2>k. ChannelKept
    BY <1>2, PostEffect
  <2>n. \A m \in Ids' : m \notin Ids => IsPost(m, p)'
    BY <1>2, PostEffect
  <2>1. \A m \in Ids : ~IsPost(m, p)
    BY <1>o, <1>2, PostEffect DEF AskerStands
  <2>2. ASSUME NEW q \in Questions, NEW m \in Ids', NEW n \in Ids', IsPost(m, q)', IsPost(n, q)'
        PROVE m = n
    <3>1. CASE m \in Ids /\ n \in Ids
      BY <1>o, <2>k, <2>2, <3>1 DEF ChannelKept, ChannelOrdered, IsPost
    <3>2. CASE m \notin Ids /\ n \notin Ids
      BY <1>2, <3>2, PostEffect
    <3>3. CASE m \in Ids /\ n \notin Ids
      <4>1. IsPost(m, q) /\ q = p
        BY <2>k, <2>n, <2>2, <3>3 DEF ChannelKept, IsPost
      <4> QED  BY <2>1, <3>3, <4>1
    <3>4. CASE m \notin Ids /\ n \in Ids
      <4>1. IsPost(n, q) /\ q = p
        BY <2>k, <2>n, <2>2, <3>4 DEF ChannelKept, IsPost
      <4> QED  BY <2>1, <3>4, <4>1
    <3> QED  BY <3>1, <3>2, <3>3, <3>4
  <2>3. ASSUME NEW m \in Ids', channel'[m].author = "user", channel'[m].question # Loose
        PROVE \E n \in Ids' : n < m /\ IsPost(n, channel[m].question)'
    <3>1. m \in Ids
      BY <1>2, <2>3, PostEffect DEF IsPost
    <3>2. channel'[m] = channel[m]
      BY <2>k, <3>1 DEF ChannelKept
    <3>3. PICK n \in Ids : n < m /\ IsPost(n, channel[m].question)
      BY <1>o, <2>3, <3>1, <3>2 DEF ChannelOrdered
    <3> QED  BY <2>k, <3>2, <3>3 DEF ChannelKept, IsPost
  <2> QED  BY <2>2, <2>3 DEF ChannelOrdered
<1>3. ASSUME NEW p \in Questions \cup {Loose}, UserWrites(p) PROVE ChannelOrdered'
  <2>k. ChannelKept
    BY <1>3, WriteEffect
  <2>1. ASSUME NEW q \in Questions, NEW m \in Ids', NEW n \in Ids', IsPost(m, q)', IsPost(n, q)'
        PROVE m = n
    <3>1. m \in Ids /\ n \in Ids
      BY <1>3, <2>1, WriteEffect DEF IsPost
    <3> QED  BY <1>o, <2>k, <2>1, <3>1 DEF ChannelKept, ChannelOrdered, IsPost
  <2>2. ASSUME NEW m \in Ids', channel'[m].author = "user", channel'[m].question # Loose
        PROVE \E n \in Ids' : n < m /\ IsPost(n, channel[m].question)'
    <3>1. CASE m \in Ids
      <4>1. channel'[m] = channel[m]
        BY <2>k, <3>1 DEF ChannelKept
      <4>2. PICK n \in Ids : n < m /\ IsPost(n, channel[m].question)
        BY <1>o, <2>2, <3>1, <4>1 DEF ChannelOrdered
      <4> QED  BY <2>k, <4>1, <4>2 DEF ChannelKept, IsPost
    <3>2. CASE m \notin Ids
      <4>1. channel'[m].question = p /\ p # Loose /\ \A n \in Ids : n < m
        BY <1>3, <2>2, <3>2, WriteEffect
      <4>2. PICK n \in Ids : IsPost(n, p)
        BY <1>3, <4>1, WriteEffect
      <4> QED  BY <2>k, <4>1, <4>2 DEF ChannelKept, IsPost
    <3> QED  BY <3>1, <3>2
  <2> QED  BY <2>1, <2>2 DEF ChannelOrdered
<1> QED  BY <1>1, <1>2, <1>3, ChannelStep

AskerMoves(q) ==
    \/ asker'[q] = asker[q]
    \/ CreateQuestion(q) /\ asker'[q] = "posting"
    \/ asker'[q] \in {"failing", "done"}
    \/ PostQuestion(q, TRUE, TRUE) /\ asker'[q] = "publishing"

LEMMA AskerStep ==
    ASSUME Inv, [QuestionsNext]_questionVars, NEW q \in Questions
    PROVE  AskerMoves(q)
<1>t. asker \in [Questions -> {"new", "posting", "publishing", "failing", "done"}]
  BY DEF Inv, QuestionsTypeOK
<1>1. CASE Ask(q)
  <2>1. CASE CreateQuestion(q)
    BY <1>t, <2>1 DEF CreateQuestion, AskerMoves
  <2>2. ASSUME NEW ok \in BOOLEAN, NEW reached \in BOOLEAN, PostQuestion(q, ok, reached)
        PROVE  AskerMoves(q)
    <3>1. CASE ok
      <4>1. ok = TRUE /\ reached = TRUE
        BY <2>2, <3>1 DEF PostQuestion
      <4>2. PostQuestion(q, TRUE, TRUE)
        BY <2>2, <4>1
      <4> QED  BY <1>t, <4>2 DEF PostQuestion, AskerMoves
    <3>2. CASE ~ok
      BY <1>t, <2>2, <3>2 DEF PostQuestion, AskerMoves
    <3> QED  BY <3>1, <3>2
  <2>3. CASE PublishQuestion(q) \/ FailQuestion(q) \/ AskerDies(q)
    BY <1>t, <2>3 DEF PublishQuestion, FailQuestion, AskerDies, AskerMoves
  <2> QED  BY <1>1, <2>1, <2>2, <2>3 DEF Ask
<1> QED  BY <1>1, OthersStand DEF AskerMoves

LEMMA AskerStandsStep ==
    ASSUME Inv, [QuestionsNext]_questionVars, NEW q \in Questions
    PROVE  AskerStands(q)'
<1>a. AskerStands(q) /\ AskerMoves(q) /\ RowMoves(q) /\ ChannelKept
  BY AskerStep, RowStep, MessagesStay DEF Inv
<1>1. ASSUME asker'[q] = "new" PROVE row'[q] = NoRow
  <2>1. asker[q] = "new" /\ row[q] = NoRow
    BY <1>a, <1>1 DEF AskerMoves, AskerStands
  <2>2. row[q].status = "none"
    BY <2>1 DEF NoRow
  <2>3. row'[q] = row[q]
    BY <1>a, <1>1, <2>1, <2>2
       DEF RowMoves, Created, Published, Closed, Answered, Delivered, Accepted
  <2> QED  BY <2>1, <2>3
<1>2. ASSUME asker'[q] \in {"new", "posting"}, NEW m \in Ids' PROVE ~IsPost(m, q)'
  <2>1. asker[q] \in {"new", "posting"}
    BY <1>a, <1>2 DEF AskerMoves, CreateQuestion
  <2>2. \A k \in Ids : ~IsPost(k, q)
    BY <1>a, <2>1 DEF AskerStands
  <2>3. CASE m \in Ids
    BY <1>a, <2>2, <2>3 DEF ChannelKept, IsPost
  <2>4. ASSUME NEW p \in Questions, NEW ok \in BOOLEAN, PostQuestion(p, ok, TRUE), m \notin Ids
        PROVE ~IsPost(m, q)'
    <3>1. IsPost(m, p)' /\ asker'[p] \in {"publishing", "failing"}
      BY <2>4, PostEffect
    <3> QED  BY <1>2, <3>1 DEF IsPost
  <2>5. ASSUME NEW p \in Questions \cup {Loose}, UserWrites(p), m \notin Ids
        PROVE ~IsPost(m, q)'
    <3>1. channel'[m].author = "user"
      BY <2>5, WriteEffect
    <3> QED  BY <3>1 DEF IsPost
  <2>6. CASE channel' = channel
    BY <2>3, <2>6 DEF Ids
  <2> QED  BY <2>3, <2>4, <2>5, <2>6, ChannelStep
<1>3. ASSUME asker'[q] = "publishing" PROVE \E m \in Ids' : IsPost(m, q)'
  <2>1. CASE asker[q] = "publishing"
    <3>1. PICK m \in Ids : IsPost(m, q)
      BY <1>a, <2>1 DEF AskerStands
    <3> QED  BY <1>a, <3>1 DEF ChannelKept, IsPost
  <2>2. CASE PostQuestion(q, TRUE, TRUE)
    BY <2>2, PostEffect
  <2> QED  BY <1>a, <1>3, <2>1, <2>2 DEF AskerMoves
<1>4. ASSUME row'[q].message # NoMessage
      PROVE  row'[q].message \in Ids' /\ \A k : k = row'[q].message => IsPost(k, q)'
  <2>1. CASE row'[q].message = row[q].message
    BY <1>a, <1>4, <2>1 DEF AskerStands, ChannelKept, IsPost
  <2>2. CASE Published(q)
    <3>1. PostOf(q) \in Ids /\ IsPost(PostOf(q), q)
      BY <2>2, PostOfType DEF Published
    <3>2. row'[q].message = PostOf(q)
      BY <2>2 DEF Published
    <3> QED  BY <1>a, <3>1, <3>2 DEF ChannelKept, IsPost
  <2> QED  BY <1>a, <1>4, <2>1, <2>2 DEF RowMoves, Created, Closed, Answered, Delivered
<1> QED  BY <1>1, <1>2, <1>3, <1>4 DEF AskerStands

-----------------------------------------------------------------------------
(* Answers.                                                                *)

\* The reply an observer records is a person's, and younger than the post.
LEMMA RecordedReply ==
    ASSUME Inv, NEW o \in Observers, RecordAnswer(o)
    PROVE  LET m == obs[o].next
               q == channel[m].question
           IN  /\ q \in Questions /\ m \in Ids /\ channel[m].author = "user"
               /\ row[q].message # NoMessage /\ m > row[q].message
<1> DEFINE m == obs[o].next
           q == channel[m].question
<1>t. QuestionsTypeOK /\ PollStands(o) /\ ChannelOrdered /\ obs[o] \in Poll /\ Loose \notin Questions
  BY QuestionConstants DEF Inv, QuestionsTypeOK
<1>1. /\ channel[m].author = "user" /\ q \in obs[o].pending
      /\ obs[o].phase = "loop" /\ m <= obs[o].upto
  BY DEF RecordAnswer, Matches, InLoop
<1>2. q \in Questions /\ row[q].message # NoMessage
  BY <1>t, <1>1 DEF PollStands, Poll
<1>3. m \in Ids
  <2>1. obs[o].cursor < m /\ obs[o].upto <= Len(channel)
    BY <1>t, <1>1 DEF PollStands
  <2>2. obs[o].cursor \in Nat /\ m \in Nat /\ obs[o].upto \in Nat /\ Len(channel) \in Nat
    BY <1>t, QuestionConstants DEF QuestionsTypeOK, Poll, MessageIds, NoMessage
  <2> QED  BY <1>1, <2>1, <2>2 DEF Ids
<1>4. PICK n \in Ids : n < m /\ IsPost(n, q)
  BY <1>t, <1>1, <1>2, <1>3 DEF ChannelOrdered
<1>5. row[q].message \in Ids /\ IsPost(row[q].message, q)
  BY <1>2 DEF Inv, AskerStands
<1>6. n = row[q].message
  BY <1>t, <1>2, <1>4, <1>5 DEF ChannelOrdered
<1> QED  BY <1>1, <1>2, <1>3, <1>4, <1>6

LEMMA AnswerIsReplyStep ==
    ASSUME Inv, [QuestionsNext]_questionVars, NEW q \in Questions
    PROVE  AnswerIsReply(q)'
<1>a. AnswerIsReply(q) /\ AskerStands(q) /\ RowMoves(q) /\ ChannelKept
  BY RowStep, MessagesStay DEF Inv
<1>d. /\ arrived \subseteq arrived'
      /\ \/ sent'[q] = sent[q] /\ (q \in arrived' => q \in arrived)
         \/ /\ row' = row /\ row[q].status \in Accepted /\ q \notin StoreOnly
            /\ sent'[q] = sent[q] \/ sent'[q] = 1
  BY DeliveredStep
\* The reply of a row that keeps its reply and stays accepted.
<1>k. ASSUME row[q].status \in Accepted, row'[q].message = row[q].message,
             row'[q].reply = row[q].reply
      PROVE  /\ row'[q].message # NoMessage /\ row'[q].reply > row'[q].message
             /\ row'[q].reply \in Ids'
             /\ channel'[row'[q].reply].author = "user"
             /\ channel'[row'[q].reply].question = q
  <2>1. /\ row[q].message # NoMessage /\ row[q].reply > row[q].message /\ row[q].reply \in Ids
        /\ channel[row[q].reply].author = "user" /\ channel[row[q].reply].question = q
    BY <1>a, <1>k DEF AnswerIsReply
  <2>2. row[q].reply \in Ids' /\ channel'[row[q].reply] = channel[row[q].reply]
    BY <1>a, <2>1 DEF ChannelKept
  <2> QED  BY <1>k, <2>1, <2>2
<1>1. CASE row'[q] = row[q]
  BY <1>a, <1>d, <1>1, <1>k DEF AnswerIsReply
\* While a row changes, nothing is delivered.
<1>s. CASE row'[q] # row[q]
  <2>s. sent'[q] = sent[q] /\ (q \in arrived' <=> q \in arrived)
    BY <1>s, <1>d
  <2>n. row[q].status \notin Accepted => row[q].reply = NoMessage /\ sent[q] = 0 /\ q \notin arrived
    BY <1>a DEF AnswerIsReply
  <2>1. CASE Created(q)
    <3>1. row[q].status = "none"
      BY <1>a, <2>1 DEF Created, AskerStands, NoRow
    <3> QED  BY <2>1, <2>s, <2>n, <3>1 DEF Created, AnswerIsReply, Accepted
  <2>2. CASE Published(q)
    BY <2>2, <2>s, <2>n DEF Published, AnswerIsReply, Accepted
  <2>3. CASE Closed(q)
    BY <2>3, <2>s, <2>n DEF Closed, AnswerIsReply, Accepted
  <2>4. CASE Answered(q)
    <3>1. PICK o \in Observers : /\ RecordAnswer(o)
                                 /\ channel[obs[o].next].question = q
                                 /\ row'[q].reply = obs[o].next
      BY <2>4 DEF Answered
    <3>2. /\ obs[o].next \in Ids /\ channel[obs[o].next].author = "user"
          /\ row[q].message # NoMessage /\ obs[o].next > row[q].message
      BY <3>1, RecordedReply
    <3>3. obs[o].next \in Ids' /\ channel'[obs[o].next] = channel[obs[o].next]
      BY <1>a, <3>2 DEF ChannelKept
    <3>4. row[q].status \notin Accepted /\ row'[q].status = "answered"
          /\ row'[q].message = row[q].message
      BY <2>4 DEF Answered, Accepted
    <3>5. sent'[q] = 0 /\ q \notin arrived'
      BY <2>s, <2>n, <3>4
    <3> QED  BY <3>1, <3>2, <3>3, <3>4, <3>5 DEF AnswerIsReply, Accepted
  <2>5. CASE Delivered(q)
    <3>1. /\ row[q].status \in Accepted /\ row'[q].status \in Accepted
          /\ row'[q].message = row[q].message /\ row'[q].reply = row[q].reply
          /\ row'[q].status \in {"input_emitted", "delivery_confirmed"} => q \in arrived
      BY <2>5 DEF Delivered
    <3> QED  BY <1>a, <2>s, <3>1, <1>k DEF AnswerIsReply
  <2> QED  BY <1>a, <1>s, <2>1, <2>2, <2>3, <2>4, <2>5 DEF RowMoves
<1> QED  BY <1>1, <1>s

-----------------------------------------------------------------------------
(* Polls and retries.                                                      *)

\* What a poll relies on cannot be taken away behind its back.
LEMMA RowKeeps ==
    ASSUME Inv, [QuestionsNext]_questionVars, NEW q \in Questions
    PROVE  /\ row[q].message # NoMessage => row'[q].message # NoMessage
           /\ row[q].status \in Accepted => row'[q].status \in Accepted
           /\ row[q].message # NoMessage /\ row[q].status # "pending" => row'[q].status # "pending"
<1>a. AskerStands(q) /\ RowMoves(q)
  BY RowStep DEF Inv
<1>1. CASE row'[q] = row[q] \/ Closed(q) \/ Delivered(q) \/ Answered(q)
  BY <1>1 DEF Closed, Delivered, Answered, Accepted
<1>2. CASE Created(q)
  BY <1>a, <1>2 DEF Created, AskerStands, NoRow, Accepted
<1>3. CASE Published(q)
  <2>1. PostOf(q) # NoMessage
    BY <1>3, PostOfType DEF Published, Ids, NoMessage
  <2> QED  BY <1>3, <2>1 DEF Published, Accepted
<1> QED  BY <1>a, <1>1, <1>2, <1>3 DEF RowMoves

LEMMA LengthGrows == Inv /\ [QuestionsNext]_questionVars => Len(channel) <= Len(channel')
<1> SUFFICES ASSUME Inv, [QuestionsNext]_questionVars PROVE Len(channel) <= Len(channel')
  OBVIOUS
<1>t. Len(channel) \in Nat /\ Len(channel') \in Nat
  BY TypeStep DEF Inv, QuestionsTypeOK
<1>1. CASE Len(channel) = 0
  BY <1>t, <1>1
<1>2. CASE Len(channel) # 0
  <2>1. Len(channel) \in Ids
    BY <1>t, <1>2 DEF Ids
  <2>2. Len(channel) \in Ids'
    BY <2>1, MessagesStay DEF ChannelKept
  <2> QED  BY <1>t, <2>2 DEF Ids
<1> QED  BY <1>1, <1>2

\* The polls that do not move.
LEMMA IdlePollStands ==
    ASSUME Inv, [QuestionsNext]_questionVars, NEW o \in Observers, obs'[o] = obs[o]
    PROVE  PollStands(o)'
<1>a. PollStands(o) /\ obs[o] \in Poll /\ QuestionsTypeOK
  BY DEF Inv, QuestionsTypeOK
<1>1. \A q \in obs[o].pending : row'[q].message # NoMessage
  BY <1>a, RowKeeps DEF PollStands, Poll
<1>2. ASSUME obs[o].phase \in {"loop"} \cup Delivering PROVE obs[o].upto <= Len(channel')
  <2>1. obs[o].upto \in Nat /\ Len(channel) \in Nat /\ Len(channel') \in Nat
    BY <1>a, TypeStep DEF QuestionsTypeOK, Poll
  <2> QED  BY <1>a, <1>2, <2>1, LengthGrows DEF PollStands
<1>3. ASSUME obs[o].phase \in Delivering
      PROVE  /\ obs[o].question \in Questions \ StoreOnly
             /\ row'[obs[o].question].status \in Accepted
             /\ obs[o].phase = "emitted" => obs[o].question \in arrived'
  BY <1>a, <1>3, RowKeeps, DeliveredStep DEF PollStands
<1>4. ASSUME obs[o].phase = "dispatching" PROVE sent'[obs[o].question] = 0
  <2> DEFINE q == obs[o].question
  <2>1. q \in Questions /\ sent[q] = 0
    BY <1>a, <1>4 DEF PollStands, Delivering
  <2>2. ASSUME NEW p \in Observers, Dispatches(p) PROVE sent'[q] = 0
    <3>1. obs'[p].phase # "dispatching" /\ obs[p].phase = "dispatching"
      BY <2>2 DEF Dispatches, DispatchAnswer, Inv, QuestionsTypeOK
    <3>2. obs[p].question # q
      BY <1>4, <3>1 DEF Inv, OneDispatcher
    <3> QED  BY <2>1, <2>2, <3>2, DispatchEffect
  <2> QED  BY <2>1, <2>2, DeliverySteps
<1> QED  BY <1>a, <1>1, <1>2, <1>3, <1>4 DEF PollStands

\* The poll after it recorded an answer, or found the question closed.
LEMMA RecordedPoll ==
    ASSUME Inv, NEW o \in Observers, RecordAnswer(o)
    PROVE  LET q == channel[obs[o].next].question
           IN  /\ obs[o].phase = "loop"
               /\ obs'[o].next = obs[o].next + 1
               /\ obs'[o].cursor = obs[o].cursor /\ obs'[o].upto = obs[o].upto
               /\ \/ /\ row[q].status = "pending" /\ row'[q].status = "answered"
                     /\ obs'[o].pending = obs[o].pending \ {q}
                     /\ \/ q \in StoreOnly /\ obs'[o].phase = "loop"
                        \/ /\ q \notin StoreOnly /\ obs'[o].phase = "dispatching"
                           /\ obs'[o].question = q
                  \/ /\ row'[q].status # "pending"
                     /\ obs'[o].phase = "loop" /\ obs'[o].pending = obs[o].pending
<1> DEFINE m == obs[o].next
           q == channel[m].question
           f == IF q \in StoreOnly THEN "loop" ELSE "dispatching"
           p == IF q \in StoreOnly THEN Loose ELSE q
<1>a. obs \in [Observers -> Poll] /\ obs[o] \in Poll /\ row \in [Questions -> QuestionRow]
  BY DEF Inv, QuestionsTypeOK
<1>q. q \in Questions /\ row[q] \in QuestionRow
  BY <1>a, RecordedReply
<1>l. obs[o].phase = "loop"
  BY DEF RecordAnswer, InLoop
<1>1. CASE row[q].status = "pending" /\ row[q].expires > obs[o].now
  <2>1. obs' = [obs EXCEPT ![o] = [obs[o] EXCEPT
                   !.phase = f, !.question = p, !.next = m + 1,
                   !.pending = obs[o].pending \ {q}]]
    BY <1>1, Zenon DEF RecordAnswer
  <2>2. row' = [row EXCEPT ![q] = [row[q] EXCEPT !.status = "answered", !.reply = m]]
    BY <1>1, Zenon DEF RecordAnswer
  <2>3. obs'[o] = [obs[o] EXCEPT !.phase = f, !.question = p, !.next = m + 1,
                                 !.pending = obs[o].pending \ {q}]
    BY <1>a, <2>1
  <2>4. /\ obs'[o].phase = f /\ obs'[o].question = p /\ obs'[o].next = m + 1
        /\ obs'[o].pending = obs[o].pending \ {q}
        /\ obs'[o].cursor = obs[o].cursor /\ obs'[o].upto = obs[o].upto
    BY <1>a, <2>3 DEF Poll
  <2>5. row'[q].status = "answered"
    BY <1>a, <1>q, <2>2 DEF QuestionRow
  <2> QED  BY <1>1, <1>l, <2>4, <2>5
<1>2. CASE ~(row[q].status = "pending" /\ row[q].expires > obs[o].now)
  <2>1. obs' = [obs EXCEPT ![o] = [obs[o] EXCEPT !.next = m + 1]]
    BY <1>2 DEF RecordAnswer
  <2>2. obs'[o] = [obs[o] EXCEPT !.next = m + 1]
    BY <1>a, <2>1
  <2>3. /\ obs'[o].phase = obs[o].phase /\ obs'[o].next = m + 1
        /\ obs'[o].pending = obs[o].pending
        /\ obs'[o].cursor = obs[o].cursor /\ obs'[o].upto = obs[o].upto
    BY <1>a, <2>2 DEF Poll
  <2>4. row'[q].status # "pending"
    <3>1. CASE row[q].status = "pending"
      <4>1. row' = [row EXCEPT ![q] = [row[q] EXCEPT !.status = "expired"]]
        BY <1>2, <3>1 DEF RecordAnswer
      <4> QED  BY <1>a, <1>q, <4>1 DEF QuestionRow
    <3>2. CASE row[q].status # "pending"
      BY <1>2, <3>2 DEF RecordAnswer
    <3> QED  BY <3>1, <3>2
  <2> QED  BY <1>l, <2>3, <2>4
<1> QED  BY <1>1, <1>2

LEMMA ObserverStands ==
    ASSUME Inv, [QuestionsNext]_questionVars, NEW o \in Observers, Observe(o)
    PROVE  PollStands(o)'
<1>a. PollStands(o) /\ obs[o] \in Poll /\ QuestionsTypeOK /\ obs \in [Observers -> Poll]
  BY DEF Inv, QuestionsTypeOK
<1>n. /\ Len(channel) \in Nat /\ obs[o].next \in Nat /\ obs[o].upto \in Nat
      /\ obs[o].cursor \in Nat
  BY <1>a, QuestionConstants DEF QuestionsTypeOK, Poll, MessageIds, NoMessage
<1>p. \A q \in obs[o].pending : row'[q].message # NoMessage
  BY <1>a, RowKeeps DEF PollStands, Poll
<1>c. channel' = channel
  BY DEF Observe, StartPoll, ReadCursor, ListPending, FetchMessages, PassOver,
     RecordAnswer, DispatchAnswer, MarkDispatched, SaveCursor, PollEnds, PollFrame
<1>1. CASE StartPoll(o) \/ ReadCursor(o)
  <2>1. obs'[o].phase \in {"reading", "listing"} /\ obs'[o].pending = obs[o].pending
    BY <1>a, <1>1 DEF StartPoll, ReadCursor, Poll
  <2> QED  BY <1>p, <2>1 DEF PollStands, Delivering
<1>2. CASE ListPending(o)
  <2>1. obs'[o].phase = "fetching" /\ obs'[o].pending = Listed /\ row' = row
    BY <1>a, <1>2 DEF ListPending, Poll
  <2> QED  BY <2>1 DEF PollStands, Delivering, Listed
<1>3. CASE FetchMessages(o)
  <2>1. /\ obs'[o].phase = "loop" /\ obs'[o].pending = obs[o].pending
        /\ obs'[o].next = obs[o].cursor + 1 /\ obs'[o].cursor = obs[o].cursor
        /\ obs'[o].upto = Len(channel)
    BY <1>a, <1>3 DEF FetchMessages, Poll
  <2> QED  BY <1>p, <1>c, <1>n, <2>1 DEF PollStands, Delivering
<1>4. CASE PassOver(o)
  <2>1. /\ obs'[o].phase = "loop" /\ obs'[o].pending = obs[o].pending
        /\ obs'[o].next = obs[o].next + 1 /\ obs'[o].cursor = obs[o].cursor
        /\ obs'[o].upto = obs[o].upto /\ obs[o].phase = "loop"
    BY <1>a, <1>4 DEF PassOver, InLoop, Poll
  <2>2. obs[o].cursor < obs[o].next /\ obs[o].upto <= Len(channel)
    BY <1>a, <2>1 DEF PollStands
  <2> QED  BY <1>p, <1>c, <1>n, <2>1, <2>2 DEF PollStands, Delivering
<1>5. CASE RecordAnswer(o)
  <2> DEFINE q == channel[obs[o].next].question
  <2>q. q \in Questions /\ obs[o].phase = "loop"
    BY <1>5, RecordedReply, RecordedPoll
  <2>1. /\ obs'[o].phase \in {"loop", "dispatching"} /\ obs'[o].pending \subseteq obs[o].pending
        /\ obs'[o].next = obs[o].next + 1 /\ obs'[o].cursor = obs[o].cursor
        /\ obs'[o].upto = obs[o].upto
    BY <1>5, RecordedPoll
  <2>2. obs[o].cursor < obs[o].next /\ obs[o].upto <= Len(channel)
    BY <1>a, <2>q DEF PollStands
  <2>3. ASSUME obs'[o].phase = "dispatching"
        PROVE  /\ obs'[o].question = q /\ q \notin StoreOnly
               /\ row[q].status = "pending" /\ row'[q].status = "answered"
    BY <1>5, <2>3, RecordedPoll
  <2>4. ASSUME obs'[o].phase = "dispatching" PROVE sent'[q] = 0
    <3>1. sent[q] = 0
      BY <2>3, <2>4, <2>q DEF Inv, AnswerIsReply, Accepted
    <3>2. sent' = sent
      BY <1>5 DEF RecordAnswer
    <3> QED  BY <3>1, <3>2
  <2> QED  BY <1>p, <1>c, <1>n, <2>q, <2>1, <2>2, <2>3, <2>4 DEF PollStands, Delivering, Accepted
<1>6. ASSUME NEW ok \in BOOLEAN, NEW reached \in BOOLEAN, DispatchAnswer(o, ok, reached)
      PROVE PollStands(o)'
  <2>1. /\ obs'[o].phase = (IF ok THEN "emitted" ELSE "failed")
        /\ obs'[o].pending = obs[o].pending /\ obs'[o].next = obs[o].next
        /\ obs'[o].cursor = obs[o].cursor /\ obs'[o].upto = obs[o].upto
        /\ obs'[o].question = obs[o].question /\ obs[o].phase = "dispatching"
    BY <1>a, <1>6 DEF DispatchAnswer, Poll
  <2>2. ok => obs[o].question \in arrived'
    BY <1>6 DEF DispatchAnswer
  <2>3. row' = row
    BY <1>6 DEF DispatchAnswer
  <2> QED  BY <1>a, <1>c, <2>1, <2>2, <2>3 DEF PollStands, Delivering
<1>7. CASE MarkDispatched(o)
  <2>1. CASE obs'[o] = NoPoll
    BY <2>1 DEF PollStands, Delivering, NoPoll
  <2>2. CASE obs'[o] # NoPoll
    <3>1. /\ obs'[o].phase = "loop" /\ obs'[o].pending = obs[o].pending
          /\ obs'[o].next = obs[o].next /\ obs'[o].cursor = obs[o].cursor
          /\ obs'[o].upto = obs[o].upto /\ obs[o].phase \in Delivering
      BY <1>a, <1>7, <2>2 DEF MarkDispatched, Poll, Delivering
    <3> QED  BY <1>a, <1>p, <1>c, <3>1 DEF PollStands, Delivering
  <2> QED  BY <2>1, <2>2
<1>8. CASE SaveCursor(o) \/ PollEnds(o)
  <2>1. obs'[o] = NoPoll
    BY <1>a, <1>8 DEF SaveCursor, PollEnds
  <2> QED  BY <2>1 DEF PollStands, Delivering, NoPoll
<1> QED  BY <1>1, <1>2, <1>3, <1>4, <1>5, <1>6, <1>7, <1>8 DEF Observe

\* An observer comes to dispatch by answering the question itself.
LEMMA OneDispatcherStep ==
    ASSUME Inv, [QuestionsNext]_questionVars
    PROVE  OneDispatcher'
<1>1. ASSUME NEW o \in Observers, obs'[o].phase = "dispatching"
      PROVE  \/ obs'[o] = obs[o]
             \/ /\ Observe(o) /\ obs'[o].question \in Questions
                /\ row[obs'[o].question].status = "pending"
  <2>a. obs \in [Observers -> Poll] /\ obs[o] \in Poll
    BY DEF Inv, QuestionsTypeOK
  <2>1. CASE RecordAnswer(o)
    BY <1>1, <2>1, RecordedReply, RecordedPoll DEF Observe
  <2>2. CASE Observe(o) /\ ~RecordAnswer(o)
    <3>1. CASE PassOver(o)
      BY <1>1, <2>a, <3>1 DEF PassOver, InLoop, Poll
    <3>2. CASE StartPoll(o) \/ ReadCursor(o) \/ ListPending(o) \/ FetchMessages(o)
      BY <1>1, <2>a, <3>2 DEF StartPoll, ReadCursor, ListPending, FetchMessages, Poll
    <3>3. ASSUME NEW ok \in BOOLEAN, NEW reached \in BOOLEAN, DispatchAnswer(o, ok, reached)
          PROVE FALSE
      BY <1>1, <2>a, <3>3 DEF DispatchAnswer, Poll
    <3>4. CASE MarkDispatched(o) \/ SaveCursor(o) \/ PollEnds(o)
      BY <1>1, <2>a, <3>4 DEF MarkDispatched, SaveCursor, PollEnds, NoPoll, Poll
    <3> QED  BY <2>2, <3>1, <3>2, <3>3, <3>4 DEF Observe
  <2> QED  BY <2>1, <2>2, OthersStand
<1>2. ASSUME NEW o \in Observers, NEW p \in Observers, o # p,
             obs'[o].phase = "dispatching", obs'[p].phase = "dispatching",
             obs'[o].question = obs'[p].question
      PROVE FALSE
  <2>1. CASE obs'[o] = obs[o] /\ obs'[p] = obs[p]
    BY <1>2, <2>1 DEF Inv, OneDispatcher
  <2>2. ASSUME NEW a \in Observers, NEW b \in Observers, a # b, obs'[a] # obs[a],
               obs'[a].phase = "dispatching", obs'[b].phase = "dispatching",
               obs'[a].question = obs'[b].question
        PROVE FALSE
    <3>1. Observe(a) /\ row[obs'[a].question].status = "pending"
      BY <1>1, <2>2
    <3>2. obs'[b] = obs[b]
      BY <2>2, <3>1 DEF Observe, StartPoll, ReadCursor, ListPending, FetchMessages, PassOver,
         RecordAnswer, DispatchAnswer, MarkDispatched, SaveCursor, PollEnds, Inv, QuestionsTypeOK
    <3>3. row[obs[b].question].status \in Accepted
      BY <2>2, <3>2 DEF Inv, PollStands, Delivering
    <3> QED  BY <2>2, <3>1, <3>2, <3>3 DEF Accepted
  <2> QED  BY <1>2, <2>1, <2>2
<1> QED  BY <1>2 DEF OneDispatcher

LEMMA RetryStandsStep ==
    ASSUME Inv, [QuestionsNext]_questionVars, NEW r \in Retriers
    PROVE  RetryStands(r)'
<1>a. RetryStands(r) /\ retry[r] \in Delivery /\ retry \in [Retriers -> Delivery]
  BY DEF Inv, QuestionsTypeOK
<1>1. CASE retry'[r] = retry[r]
  BY <1>a, <1>1, RowKeeps, DeliveredStep DEF RetryStands
<1>2. ASSUME NEW q \in Questions, ReadAnswer(r, q) PROVE RetryStands(r)'
  <2>1. retry'[r] = [phase |-> "dispatching", question |-> q, status |-> row[q].status]
        /\ row' = row /\ row[q].status \in Accepted /\ q \notin StoreOnly
    BY <1>a, <1>2 DEF ReadAnswer, Accepted
  <2>2. retry'[r].phase = "dispatching" /\ retry'[r].question = q
    BY <2>1
  <2> QED  BY <2>1, <2>2 DEF RetryStands
<1>3. ASSUME NEW ok \in BOOLEAN, NEW reached \in BOOLEAN, RetryDispatch(r, ok, reached)
      PROVE RetryStands(r)'
  <2>1. /\ retry'[r].phase = (IF ok THEN "emitted" ELSE "failed")
        /\ retry'[r].question = retry[r].question /\ retry[r].phase = "dispatching"
    BY <1>a, <1>3 DEF RetryDispatch, Delivery
  <2>2. row' = row /\ (ok => retry[r].question \in arrived')
    BY <1>3 DEF RetryDispatch
  <2> QED  BY <1>a, <2>1, <2>2 DEF RetryStands, Delivering
<1>4. CASE MarkRetried(r) \/ RetrierDies(r)
  <2>1. retry'[r] = NoDelivery
    BY <1>a, <1>4 DEF MarkRetried, RetrierDies
  <2> QED  BY <2>1 DEF RetryStands, Delivering, NoDelivery
<1> QED  BY <1>1, <1>2, <1>3, <1>4, OthersStand DEF Retry

\* What a loop has passed stays passed.
LEMMA PassedAreTakenStep ==
    ASSUME Inv, [QuestionsNext]_questionVars, NEW o \in Observers
    PROVE  PassedAreTaken(o)'
<1>a. /\ PassedAreTaken(o) /\ PollStands(o) /\ obs[o] \in Poll /\ obs \in [Observers -> Poll]
      /\ ChannelKept /\ QuestionsTypeOK
  BY MessagesStay DEF Inv, QuestionsTypeOK
<1>n. /\ obs[o].next \in Nat /\ obs[o].cursor \in Nat /\ obs[o].upto \in Nat
      /\ Len(channel) \in Nat /\ Ids \subseteq Nat /\ Ids' \subseteq Nat
  BY <1>a, QuestionConstants DEF QuestionsTypeOK, Poll, MessageIds, NoMessage, Ids
\* The messages that were passed before this step.
<1>p. ASSUME NEW m \in Ids', obs[o].phase \in {"loop"} \cup Delivering,
             obs[o].cursor < m, m < obs[o].next, m <= obs[o].upto,
             channel'[m].author = "user", channel'[m].question \in obs[o].pending
      PROVE  row'[channel'[m].question].status # "pending"
  <2>1. m \in Ids
    <3>1. obs[o].upto <= Len(channel)
      BY <1>a, <1>p DEF PollStands
    <3> QED  BY <1>n, <1>p, <3>1 DEF Ids
  <2>2. channel'[m] = channel[m]
    BY <1>a, <2>1 DEF ChannelKept
  <2>3. row[channel[m].question].status # "pending"
    BY <1>a, <1>p, <2>1, <2>2 DEF PassedAreTaken, Matches
  <2>4. channel[m].question \in Questions /\ row[channel[m].question].message # NoMessage
    BY <1>a, <1>p, <2>2 DEF PollStands, Poll
  <2> QED  BY <2>2, <2>3, <2>4, RowKeeps
<1>1. CASE obs'[o] = obs[o]
  BY <1>1, <1>p DEF PassedAreTaken, Matches
<1>2. CASE Observe(o)
  <2>c. channel' = channel
    BY <1>2 DEF Observe, StartPoll, ReadCursor, ListPending, FetchMessages, PassOver,
       RecordAnswer, DispatchAnswer, MarkDispatched, SaveCursor, PollEnds, PollFrame
  <2>1. CASE StartPoll(o) \/ ReadCursor(o) \/ ListPending(o) \/ SaveCursor(o) \/ PollEnds(o)
    <3>1. obs'[o].phase \in {"reading", "listing", "fetching", "idle"}
      BY <1>a, <2>1 DEF StartPoll, ReadCursor, ListPending, SaveCursor, PollEnds, NoPoll, Poll
    <3> QED  BY <3>1 DEF PassedAreTaken, Delivering
  <2>2. CASE FetchMessages(o)
    <3>1. obs'[o].next = obs[o].cursor + 1 /\ obs'[o].cursor = obs[o].cursor
      BY <1>a, <2>2 DEF FetchMessages, Poll
    <3>2. \A m \in Ids' : ~(obs[o].cursor < m /\ m < obs[o].cursor + 1)
      BY <1>n
    <3> QED  BY <3>1, <3>2 DEF PassedAreTaken
  <2>3. CASE PassOver(o)
    <3>1. /\ obs'[o].next = obs[o].next + 1 /\ obs'[o].cursor = obs[o].cursor
          /\ obs'[o].upto = obs[o].upto /\ obs'[o].pending = obs[o].pending
          /\ obs[o].phase = "loop" /\ ~Matches(o, obs[o].next)
      BY <1>a, <2>3 DEF PassOver, InLoop, Poll
    <3>2. ASSUME NEW m \in Ids', obs[o].cursor < m, m < obs[o].next + 1, m <= obs[o].upto,
                 channel'[m].author = "user", channel'[m].question \in obs[o].pending
          PROVE  row'[channel'[m].question].status # "pending"
      <4>1. m # obs[o].next
        BY <2>c, <3>1, <3>2 DEF Matches
      <4>2. m < obs[o].next
        BY <1>n, <3>2, <4>1
      <4> QED  BY <1>p, <3>1, <3>2, <4>2
    <3> QED  BY <3>1, <3>2 DEF PassedAreTaken, Matches
  <2>4. CASE RecordAnswer(o)
    <3> DEFINE q == channel[obs[o].next].question
    <3>1. /\ obs'[o].next = obs[o].next + 1 /\ obs'[o].cursor = obs[o].cursor
          /\ obs'[o].upto = obs[o].upto /\ obs'[o].pending \subseteq obs[o].pending
          /\ obs[o].phase = "loop" /\ row'[q].status # "pending"
      BY <2>4, RecordedPoll
    <3>2. ASSUME NEW m \in Ids', obs[o].cursor < m, m < obs[o].next + 1, m <= obs[o].upto,
                 channel'[m].author = "user", channel'[m].question \in obs'[o].pending
          PROVE  row'[channel'[m].question].status # "pending"
      <4>1. CASE m = obs[o].next
        BY <2>c, <3>1, <4>1
      <4>2. CASE m # obs[o].next
        <5>1. m < obs[o].next
          BY <1>n, <3>2, <4>2
        <5> QED  BY <1>p, <3>1, <3>2, <5>1
      <4> QED  BY <4>1, <4>2
    <3> QED  BY <3>1, <3>2 DEF PassedAreTaken, Matches
  <2>5. ASSUME NEW ok \in BOOLEAN, NEW reached \in BOOLEAN, DispatchAnswer(o, ok, reached)
        PROVE PassedAreTaken(o)'
    <3>1. /\ obs'[o].next = obs[o].next /\ obs'[o].cursor = obs[o].cursor
          /\ obs'[o].upto = obs[o].upto /\ obs'[o].pending = obs[o].pending
          /\ obs[o].phase = "dispatching"
      BY <1>a, <2>5 DEF DispatchAnswer, Poll
    <3> QED  BY <1>p, <3>1 DEF PassedAreTaken, Matches, Delivering
  <2>6. CASE MarkDispatched(o)
    <3>1. CASE obs'[o] = NoPoll
      BY <3>1 DEF PassedAreTaken, NoPoll, Delivering
    <3>2. CASE obs'[o] # NoPoll
      <4>1. /\ obs'[o].next = obs[o].next /\ obs'[o].cursor = obs[o].cursor
            /\ obs'[o].upto = obs[o].upto /\ obs'[o].pending = obs[o].pending
            /\ obs[o].phase \in Delivering
        BY <1>a, <2>6, <3>2 DEF MarkDispatched, Poll, Delivering
      <4> QED  BY <1>p, <4>1 DEF PassedAreTaken, Matches
    <3> QED  BY <3>1, <3>2
  <2> QED  BY <1>2, <2>1, <2>2, <2>3, <2>4, <2>5, <2>6 DEF Observe
<1> QED  BY <1>1, <1>2, OthersStand

LEMMA InvStep == Inv /\ [QuestionsNext]_questionVars => Inv'
<1> SUFFICES ASSUME Inv, [QuestionsNext]_questionVars PROVE Inv'
  OBVIOUS
<1>1. QuestionsTypeOK'
  BY TypeStep
<1>2. \A q \in Questions : AskerStands(q)' /\ AnswerIsReply(q)'
  BY AskerStandsStep, AnswerIsReplyStep
<1>3. ChannelOrdered'
  BY ChannelOrderedStep
<1>4. \A o \in Observers : PollStands(o)' /\ PassedAreTaken(o)'
  BY OthersStand, IdlePollStands, ObserverStands, PassedAreTakenStep
<1>5. OneDispatcher'
  BY OneDispatcherStep
<1>6. \A r \in Retriers : RetryStands(r)'
  BY RetryStandsStep
<1> QED  BY <1>1, <1>2, <1>3, <1>4, <1>5, <1>6 DEF Inv

\* The inductive invariant behind the theorems below.
LEMMA Invariant == QuestionsSpec => []Inv
<1>1. QuestionsInit => Inv
  BY InitInv
<1>2. Inv /\ [QuestionsNext]_questionVars => Inv'
  BY InvStep
<1> QED  BY <1>1, <1>2, PTL DEF QuestionsSpec

-----------------------------------------------------------------------------
\* Every variable keeps its type.
THEOREM TypeCorrect == QuestionsSpec => []QuestionsTypeOK
<1>1. Inv => QuestionsTypeOK
  BY DEF Inv
<1> QED  BY <1>1, Invariant, PTL

\* record_question_answer's guard is what keeps observers, restarted or running
\* side by side, from dispatching an answer twice.
THEOREM DispatchesOnce == QuestionsSpec => []DispatchedOnce
<1>1. Inv => DispatchedOnce
  BY DEF Inv, AnswerIsReply, DispatchedOnce
<1> QED  BY <1>1, Invariant, PTL

\* What Codex receives is a person's direct reply to the question's post, and a
\* delivery marked emitted or confirmed did arrive.
THEOREM InputIsTheAnswer == QuestionsSpec => []InputFollowsAnswer
<1>1. ASSUME Inv PROVE InputFollowsAnswer
  <2>1. ASSUME NEW q \in Questions, row[q].status \in Accepted
        PROVE channel[row[q].reply] = [author |-> "user", question |-> q]
    <3>1. /\ row[q].reply \in Ids /\ channel[row[q].reply].author = "user"
          /\ channel[row[q].reply].question = q
      BY <1>1, <2>1 DEF Inv, AnswerIsReply
    <3>2. channel[row[q].reply] \in Message
      BY <1>1, <3>1 DEF Inv, QuestionsTypeOK, Ids
    <3> QED  BY <3>1, <3>2 DEF Message
  <2> QED  BY <1>1, <2>1 DEF Inv, AnswerIsReply, InputFollowsAnswer
<1> QED  BY <1>1, Invariant, PTL

\* The first answer and the first closing of a question are final for every
\* process that still holds an older view of it.
THEOREM ClosedQuestionsStay == QuestionsSpec => ClosedStaysClosed
<1> DEFINE Stays ==
       \A q \in Questions :
          /\ row[q].reply # NoMessage => row'[q].reply = row[q].reply
          /\ row[q].status \in Accepted => row'[q].status \in Accepted
          /\ row[q].status \in {"expired", "publish_failed"} => row'[q].status = row[q].status
<1>1. ASSUME Inv, [QuestionsNext]_questionVars PROVE Stays
  <2> SUFFICES ASSUME NEW q \in Questions
               PROVE  /\ row[q].reply # NoMessage => row'[q].reply = row[q].reply
                      /\ row[q].status \in Accepted => row'[q].status \in Accepted
                      /\ row[q].status \in {"expired", "publish_failed"} =>
                            row'[q].status = row[q].status
    OBVIOUS
  <2>1. AnswerIsReply(q) /\ AskerStands(q) /\ RowMoves(q)
    BY <1>1, RowStep DEF Inv
  <2>2. row[q].reply # NoMessage => row[q].status \in Accepted
    BY <2>1 DEF AnswerIsReply
  <2>3. CASE row'[q] = row[q]
    BY <2>3
  <2>4. CASE Created(q)
    <3>1. row[q].status = "none" /\ row[q].reply = NoMessage
      BY <2>1, <2>4 DEF Created, AskerStands, NoRow
    <3> QED  BY <3>1 DEF Accepted
  <2>5. CASE Published(q) \/ Closed(q) \/ Answered(q) \/ Delivered(q)
    BY <2>2, <2>5 DEF Published, Closed, Answered, Delivered, Accepted
  <2> QED  BY <2>1, <2>3, <2>4, <2>5 DEF RowMoves
<1>2. ASSUME Inv, [QuestionsNext]_questionVars PROVE [Stays]_questionVars
  BY <1>1, <1>2
<1> QED  BY <1>2, Invariant, PTL DEF QuestionsSpec, ClosedStaysClosed

\* The cursor leaves no reply to a listed question behind that was not taken.
THEOREM ListedRepliesTaken == QuestionsSpec => ListedRepliesAreTaken
<1> DEFINE Taken ==
       \A o \in DOMAIN obs :
          obs[o].phase = "loop" /\ obs'[o].phase = "idle" /\ cursor' # cursor =>
             \A m \in obs[o].cursor + 1 .. cursor' :
                Matches(o, m) => row[channel[m].question].status # "pending"
<1>1. ASSUME Inv, [QuestionsNext]_questionVars PROVE Taken
  <2> SUFFICES ASSUME NEW o \in Observers, obs[o].phase = "loop", obs'[o].phase = "idle",
                      cursor' # cursor, NEW m \in obs[o].cursor + 1 .. cursor', Matches(o, m)
               PROVE  row[channel[m].question].status # "pending"
    BY <1>1 DEF Inv, QuestionsTypeOK
  <2>a. PassedAreTaken(o) /\ PollStands(o) /\ obs[o] \in Poll /\ QuestionsTypeOK
    BY <1>1 DEF Inv, QuestionsTypeOK
  <2>1. Observe(o)
    BY <1>1, OthersStand
  <2>2. SaveCursor(o)
    BY <2>1 DEF Observe, StartPoll, ReadCursor, ListPending, FetchMessages, PassOver,
       RecordAnswer, DispatchAnswer, MarkDispatched, PollEnds
  <2>3. obs[o].next > obs[o].upto /\ cursor' = obs[o].upto
    BY <2>2 DEF SaveCursor
  <2>4. /\ obs[o].cursor \in Nat /\ obs[o].upto \in Nat /\ obs[o].next \in Nat
        /\ Len(channel) \in Nat /\ obs[o].upto <= Len(channel)
    BY <2>a, QuestionConstants DEF QuestionsTypeOK, Poll, MessageIds, NoMessage, PollStands
  <2>5. m \in Ids /\ obs[o].cursor < m /\ m < obs[o].next /\ m <= obs[o].upto
    BY <2>3, <2>4 DEF Ids
  <2> QED  BY <2>a, <2>5 DEF PassedAreTaken
<1>2. ASSUME Inv, [QuestionsNext]_questionVars PROVE [Taken]_questionVars
  BY <1>1, <1>2
<1> QED  BY <1>2, Invariant, PTL DEF QuestionsSpec, ListedRepliesAreTaken
=============================================================================
