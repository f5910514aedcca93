------------------------------ MODULE CodexProofs -----------------------------
(* Proofs about what is learned of Codex: the client of its app-server and the*)
(* diagnosis. Each part begins with its inductive invariant.                  *)
EXTENDS AppServerProbe, Diagnosis, FiniteSetTheorems, SequenceTheorems, TLAPS

-----------------------------------------------------------------------------
(* AppServerProbe: a probe that succeeds has heard every event of the thread, *)
(* and however it ends it leaves nothing behind.                              *)

\* The requests of each job, in their order; an id is a place in them.
Order ==
    CASE job = "probe" -> <<"initialize", "thread/read", "account/rateLimits/read",
                            "thread/resume", "thread/unsubscribe">>
      [] job = "metadata" -> <<"initialize", "thread/read", "account/rateLimits/read">>
      [] job = "limits" -> <<"initialize", "account/rateLimits/read">>
      [] OTHER -> <<>>

\* Where the client is in its requests.
ClientIsAt ==
    /\ Len(sent) <= Len(Order) /\ \A i \in 1..Len(sent) : sent[i] = Order[i]
    /\ unread \in {0, Len(sent)}
    /\ awaiting # 0 => awaiting = Len(sent) /\ step = Order[awaiting]
    /\ step \in Methods /\ awaiting = 0 =>
          Len(sent) < Len(Order) /\ step = Order[Len(sent) + 1]
    /\ step = "observing" => job = "probe" /\ Len(sent) = 4 /\ awaiting = 0
    /\ step \in {"start", "closing", "closed"} => awaiting = 0
    /\ step \in {"closing", "closed"} /\ ~failing => Len(sent) = Len(Order)
    /\ job = "none" <=> step = "start"
    /\ failing => step \in {"thread/unsubscribe", "closing", "closed"}

\* What the end of a job still owes the server.
ClientOwes ==
    /\ step = "start" => child = "none"
    /\ step = "closed" => child # "running"
    /\ resumed => Len(sent) >= 4
                  /\ step \in {"observing", "thread/unsubscribe", "closing", "closed"}
    /\ step = "closing" /\ resumed => child = "exited" \/ Len(sent) = 5

\* Only a resumed thread is notified, and no longer once its unsubscription was
\* answered: nothing of it is queued behind that answer.
ServerTells ==
    /\ subscribed \/ spoken # <<>> => Len(sent) >= 4
    /\ \A i \in 1..Len(inbox) :
          inbox[i].kind \in {"result", "error"} =>
             inbox[i].event = 0 /\ inbox[i].id \in 1..Len(sent)
    /\ \A i \in 1..Len(inbox) :
          inbox[i].kind = "result" /\ inbox[i].id = 5 =>
             ~subscribed /\ \A j \in i..Len(inbox) : inbox[j].event = 0

\* Events are numbered as they are sent.
InOrder ==
    /\ \A k \in 1..Len(spoken) : spoken[k] <= lines
    /\ \A k, l \in 1..Len(spoken) : k < l => spoken[k] < spoken[l]
    /\ \A i \in 1..Len(inbox) : inbox[i].event <= lines
    /\ \A i, j \in 1..Len(inbox) :
          i < j /\ inbox[i].event # 0 /\ inbox[j].event # 0 =>
             inbox[i].event < inbox[j].event

\* What was heard and what is queued are together what was spoken.
HeardIsPrefix ==
    Len(heard) <= Len(spoken) /\ \A k \in 1..Len(heard) : heard[k] = spoken[k]
RestIsQueued ==
    /\ \A k \in (Len(heard) + 1)..Len(spoken) :
          \E i \in 1..Len(inbox) : inbox[i].event = spoken[k]
    /\ \A i \in 1..Len(inbox) : inbox[i].event # 0 =>
          \E k \in (Len(heard) + 1)..Len(spoken) : inbox[i].event = spoken[k]

NothingIsLost ==
    ~failing => /\ HeardIsPrefix /\ RestIsQueued
                /\ step \in {"closing", "closed"} => ~subscribed /\ heard = spoken

\* The inductive invariant.
ProbeInv ==
    ProbeTypeOK /\ ClientIsAt /\ ClientOwes /\ ServerTells /\ InOrder /\ NothingIsLost

-----------------------------------------------------------------------------
\* The calls of a job.
LEMMA OrderFacts ==
    ASSUME job \in {"none", "probe", "metadata", "limits"}
    PROVE  /\ Len(Order) \in 0..5 /\ Len(Order) # 4
           /\ Len(Order) = 0 <=> job = "none"
           /\ Len(Order) > 3 <=> job = "probe"
           /\ \A i \in 1..Len(Order) : /\ Order[i] \in Methods
                                       /\ Order[i] = "thread/resume" <=> i = 4
                                       /\ Order[i] = "thread/unsubscribe" <=> i = 5
<1>1. CASE job = "probe"     BY <1>1 DEF Order, Methods
<1>2. CASE job = "metadata"  BY <1>2 DEF Order, Methods
<1>3. CASE job = "limits"    BY <1>3 DEF Order, Methods
<1>4. CASE job = "none"      BY <1>4 DEF Order
<1> QED  BY <1>1, <1>2, <1>3, <1>4

LEMMA OrderKept == UNCHANGED job => Order' = Order
BY DEF Order

\* The step that follows a request that was answered.
LEMMA Succession ==
    ASSUME ProbeTypeOK, ClientIsAt, awaiting # 0
    PROVE  /\ awaiting \in 1..Len(Order) /\ step = Order[awaiting] /\ step \in Methods
           /\ NextStep = IF awaiting = Len(Order) THEN "closing"
                         ELSE IF awaiting = 4 THEN "observing" ELSE Order[awaiting + 1]
<1>1. awaiting \in 1..Len(Order) /\ step = Order[awaiting]
      /\ job \in {"none", "probe", "metadata", "limits"}
  <2>1. Len(Order) \in Nat
    BY OrderFacts DEF ProbeTypeOK
  <2> QED  BY <2>1 DEF ProbeTypeOK, ClientIsAt
<1>2. step \in Methods
  BY <1>1, OrderFacts
<1>3. CASE job = "probe"
  <2>1. Order = <<"initialize", "thread/read", "account/rateLimits/read",
                  "thread/resume", "thread/unsubscribe">>
    BY <1>3 DEF Order
  <2>2. awaiting \in 1..5 /\ Len(Order) = 5
    BY <1>1, <2>1
  <2>3. awaiting = 1 \/ awaiting = 2 \/ awaiting = 3 \/ awaiting = 4 \/ awaiting = 5
    BY <2>2
  <2> QED  BY <1>1, <1>2, <1>3, <2>1, <2>2, <2>3 DEF NextStep
<1>4. CASE job = "metadata"
  <2>1. Order = <<"initialize", "thread/read", "account/rateLimits/read">>
    BY <1>4 DEF Order
  <2>2. awaiting \in 1..3 /\ Len(Order) = 3
    BY <1>1, <2>1
  <2>3. awaiting = 1 \/ awaiting = 2 \/ awaiting = 3
    BY <2>2
  <2> QED  BY <1>1, <1>2, <1>4, <2>1, <2>2, <2>3 DEF NextStep
<1>5. CASE job = "limits"
  <2>1. Order = <<"initialize", "account/rateLimits/read">>
    BY <1>5 DEF Order
  <2>2. awaiting \in 1..2 /\ Len(Order) = 2
    BY <1>1, <2>1
  <2>3. awaiting = 1 \/ awaiting = 2
    BY <2>2
  <2> QED  BY <1>1, <1>2, <1>5, <2>1, <2>2, <2>3 DEF NextStep
<1>6. CASE job = "none"      BY <1>1, <1>6, OrderFacts
<1> QED  BY <1>1, <1>2, <1>3, <1>4, <1>5, <1>6

LEMMA FirstCall == job \in {"probe", "metadata", "limits"} => Order[1] = "initialize"
BY DEF Order

\* A line that is queued is put behind the others.
LEMMA Queued ==
    ASSUME NEW S, NEW q \in Seq(S), NEW e \in S
    PROVE  /\ Append(q, e) \in Seq(S) /\ Len(Append(q, e)) = Len(q) + 1
           /\ Append(q, e)[Len(q) + 1] = e
           /\ \A i \in 1..Len(q) : Append(q, e)[i] = q[i]
BY AppendProperties

\* Taking the first line moves the others one place forward.
LEMMA Taken ==
    ASSUME NEW S, NEW q \in Seq(S), q # <<>>
    PROVE  /\ Tail(q) \in Seq(S) /\ Len(Tail(q)) = Len(q) - 1 /\ Len(q) \in Nat \ {0}
           /\ Head(q) = q[1] /\ Head(q) \in S
           /\ \A i \in 1..Len(Tail(q)) : Tail(q)[i] = q[i + 1]
<1>1. Len(q) \in Nat /\ Len(q) # 0
  BY EmptySeq, LenProperties
<1> QED  BY <1>1, HeadTailProperties, ElementOfSeq

-----------------------------------------------------------------------------
\* The client starts a child, or there is nothing to close.
LEMMA StartChildStep ==
    ASSUME ProbeInv, StartChild
    PROVE  ProbeInv'
<1>1. sent = <<>> /\ Len(sent) = 0 /\ awaiting = 0 /\ ~failing /\ unread = 0
      /\ child = "none" /\ ~resumed /\ ~subscribed /\ spoken = <<>> /\ heard = spoken
  <2>1. step = "start" /\ job = "none" /\ sent \in Seq(Methods) /\ spoken \in Seq(1..MaxLines)
        /\ heard \in Seq(1..MaxLines)
    BY DEF ProbeInv, StartChild, ProbeTypeOK, ClientIsAt
  <2>2. Len(sent) = 0 /\ sent = <<>>
    BY <2>1, OrderFacts, EmptySeq, LenProperties DEF ProbeInv, ClientIsAt
  <2>3. spoken = <<>> /\ ~subscribed
    BY <2>2 DEF ProbeInv, ServerTells
  <2>4. Len(heard) = 0 /\ heard = <<>>
    BY <2>1, <2>3, EmptySeq, LenProperties
       DEF ProbeInv, NothingIsLost, HeardIsPrefix, ClientIsAt
  <2> QED  BY <2>1, <2>2, <2>3, <2>4 DEF ProbeInv, ClientIsAt, ClientOwes, ProbeTypeOK
<1>2. job' \in {"probe", "metadata", "limits"}
      /\ \/ child' = "running" /\ step' = "initialize" /\ failing' = FALSE
         \/ child' = "none" /\ step' = "closed" /\ failing' = TRUE
  <2>1. /\ job' \in {"probe", "metadata", "limits"}
        /\ (child' = "running" /\ step' = "initialize") \/ (child' = child /\ step' = "closed")
        /\ failing' = (child' = "none")
    BY DEF StartChild
  <2>2. CASE child' = "running" /\ step' = "initialize"
    <3>1. child' # "none"
      BY <2>2
    <3>2. failing' = FALSE
      BY <2>1, <3>1
    <3> QED  BY <2>1, <2>2, <3>2
  <2>3. CASE child' = "none" /\ step' = "closed"
    BY <2>1, <2>3
  <2> QED  BY <1>1, <2>1, <2>2, <2>3
<1>3. UNCHANGED <<awaiting, heard, sent, resumed, unread, inbox, subscribed, spoken, lines>>
  BY DEF StartChild
<1>4. ProbeTypeOK'
  BY <1>2, <1>3 DEF StartChild, ProbeInv, ProbeTypeOK, Methods
<1>5. ClientIsAt'
  <2>1. Order'[1] = "initialize" /\ Len(Order') \in Nat /\ Len(Order') > 0
    BY <1>2 DEF Order
  <2> QED  BY <1>1, <1>2, <1>3, <2>1 DEF ClientIsAt, Methods
<1>6. ClientOwes'
  BY <1>1, <1>2, <1>3 DEF ClientOwes
<1>7. ServerTells' /\ InOrder'
  BY <1>3 DEF ProbeInv, ServerTells, InOrder
<1>8. NothingIsLost'
  BY <1>1, <1>2, <1>3 DEF ProbeInv, NothingIsLost, HeardIsPrefix, RestIsQueued
<1> QED  BY <1>4, <1>5, <1>6, <1>7, <1>8 DEF ProbeInv

\* Where an exception leads: every part about the client, and nothing about
\* what it has heard.
LEMMA RaiseStep ==
    ASSUME ProbeInv, Raise, Receives \/ (step \in Methods /\ awaiting = 0 /\ child = "exited"),
           UNCHANGED <<job, sent, unread, child>>
    PROVE  /\ ClientIsAt'
           /\ step' \in Methods \cup {"closing"} /\ awaiting' \in 0..MaxId /\ failing' \in BOOLEAN
           /\ (resumed' => resumed) => ClientOwes'
<1>1. Order' = Order
  BY OrderKept
<1>2. step \in Methods \cup {"observing"} /\ step # "start" /\ job # "none"
  <2>1. CASE awaiting # 0
    BY <2>1, Succession DEF ProbeInv, ClientIsAt, Methods
  <2>2. CASE awaiting = 0
    BY <2>2 DEF Receives, ProbeInv, ClientIsAt, Methods
  <2> QED  BY <2>1, <2>2
<1>3. CASE step = "observing"
  <2>1. step' = "thread/unsubscribe" /\ failing' = TRUE /\ awaiting' = 0
    BY <1>3 DEF Raise, Finally
  <2>2. Len(sent) = 4 /\ job = "probe" /\ Len(Order) = 5 /\ Order[5] = "thread/unsubscribe"
    BY <1>3 DEF ProbeInv, ClientIsAt, Order
  <2>3. ClientIsAt'
    BY <1>1, <2>1, <2>2 DEF ProbeInv, ClientIsAt, Methods
  <2>4. (resumed' => resumed) => ClientOwes'
    BY <2>1, <2>2 DEF ProbeInv, ClientOwes
  <2> QED  BY <2>1, <2>3, <2>4 DEF Methods, MaxId
<1>4. CASE step # "observing"
  <2>1. step' = "closing" /\ failing' = TRUE /\ awaiting' = 0
    BY <1>4 DEF Raise, Finally
  <2>2. ClientIsAt'
    BY <1>1, <1>2, <2>1 DEF ProbeInv, ClientIsAt, Methods
  <2>3. resumed => child = "exited" \/ Len(sent) = 5
    <3>1. CASE awaiting = 0
      BY <1>4, <3>1 DEF Receives
    <3>2. CASE awaiting # 0
      <4>1. awaiting = Len(sent) /\ awaiting \in 1..Len(Order) /\ step = Order[awaiting]
        BY <3>2, Succession DEF ProbeInv, ClientIsAt
      <4>2. resumed => step = "thread/unsubscribe"
        BY <1>2, <1>4 DEF ProbeInv, ClientOwes, Methods
      <4> QED  BY <4>1, <4>2, OrderFacts DEF ProbeInv, ProbeTypeOK
    <3> QED  BY <3>1, <3>2
  <2>4. (resumed' => resumed) => ClientOwes'
    BY <2>1, <2>3 DEF ProbeInv, ClientOwes
  <2> QED  BY <2>1, <2>2, <2>4 DEF MaxId
<1> QED  BY <1>3, <1>4

LEMMA RequestStep ==
    ASSUME ProbeInv, SendRequest
    PROVE  ProbeInv'
<1>1. UNCHANGED <<job, heard, resumed, child, inbox, subscribed, spoken, lines>>
      /\ step \in Methods /\ awaiting = 0 /\ Order' = Order
  BY OrderKept DEF SendRequest
<1>2. ServerTells' /\ InOrder'
  <2>1. Len(sent) \in Nat /\ (sent' = sent \/ Len(sent') = Len(sent) + 1)
    BY <1>1, Queued DEF SendRequest, ProbeInv, ProbeTypeOK
  <2> QED  BY <1>1, <2>1 DEF ProbeInv, ServerTells, InOrder
<1>3. CASE child = "running" /\ sent' = Append(sent, step) /\ awaiting' = Len(sent')
           /\ unread' = Len(sent') /\ UNCHANGED <<step, failing>>
  <2>1. /\ sent' \in Seq(Methods) /\ Len(sent') = Len(sent) + 1 /\ Len(sent) \in Nat
        /\ sent'[Len(sent')] = step /\ \A i \in 1..Len(sent) : sent'[i] = sent[i]
    BY <1>1, <1>3, Queued DEF ProbeInv, ProbeTypeOK
  <2>2. Len(sent) < Len(Order) /\ step = Order[Len(sent) + 1] /\ Len(Order) \in 0..5
    BY <1>1, OrderFacts DEF ProbeInv, ProbeTypeOK, ClientIsAt
  <2>3. ProbeTypeOK'
    BY <1>1, <1>3, <2>1, <2>2 DEF ProbeInv, ProbeTypeOK, MaxId
  <2>4. ClientIsAt'
    BY <1>1, <1>3, <2>1, <2>2 DEF ProbeInv, ClientIsAt, Methods
  <2>5. ClientOwes'
    BY <1>1, <1>3, <2>1, <2>2 DEF ProbeInv, ClientOwes, Methods
  <2>6. NothingIsLost'
    BY <1>1, <1>3 DEF ProbeInv, NothingIsLost, HeardIsPrefix, RestIsQueued, Methods
  <2> QED  BY <1>2, <2>3, <2>4, <2>5, <2>6 DEF ProbeInv
<1>4. CASE child = "exited" /\ Raise /\ UNCHANGED <<sent, unread>>
  <2>1. ClientIsAt' /\ ClientOwes' /\ step' \in Methods \cup {"closing"}
        /\ awaiting' \in 0..MaxId /\ failing' = TRUE
    <3>1. failing' = TRUE
      BY <1>4 DEF Raise
    <3> QED  BY <1>1, <1>4, <3>1, RaiseStep
  <2>2. ProbeTypeOK' /\ NothingIsLost'
    BY <1>1, <1>4, <2>1 DEF ProbeInv, ProbeTypeOK, NothingIsLost
  <2> QED  BY <1>2, <2>1, <2>2 DEF ProbeInv
<1> QED  BY <1>3, <1>4 DEF SendRequest

\* What an observation that is over, or a stream that is, leaves as it was.
LEMMA QuietStep ==
    ASSUME ProbeInv, UNCHANGED <<job, heard, sent, resumed, server>>
    PROVE  /\ Order' = Order /\ ServerTells' /\ InOrder'
           /\ step' \in Methods \cup {"observing", "closing"} /\ awaiting' \in 0..MaxId
              /\ failing' \in BOOLEAN => ProbeTypeOK'
BY OrderKept DEF server, ProbeInv, ServerTells, InOrder, ProbeTypeOK

LEMMA GiveUpStep ==
    ASSUME ProbeInv, Receives, Raise, UNCHANGED <<job, heard, sent, resumed, server>>
    PROVE  ProbeInv'
<1>1. ClientIsAt' /\ ClientOwes' /\ step' \in Methods \cup {"closing"}
      /\ awaiting' \in 0..MaxId /\ failing' = TRUE
  <2>1. failing' = TRUE
    BY DEF Raise
  <2>2. UNCHANGED <<job, sent, unread, child, resumed>>
    BY DEF server
  <2> QED  BY <2>1, <2>2, RaiseStep
<1>2. ProbeTypeOK' /\ ServerTells' /\ InOrder'
  BY <1>1, QuietStep
<1> QED  BY <1>1, <1>2 DEF ProbeInv, NothingIsLost

LEMMA DeadlineStep ==
    ASSUME ProbeInv, Deadline
    PROVE  ProbeInv'
<1>1. UNCHANGED <<job, heard, sent, resumed, server>> /\ Receives
  BY DEF Deadline
<1>2. CASE step = "observing"
  <2>1. step' = "thread/unsubscribe" /\ awaiting' = 0 /\ failing' = failing
    BY <1>2 DEF Deadline, Succeed, NextStep
  <2>2. job = "probe" /\ Len(sent) = 4 /\ Len(Order) = 5 /\ Order[5] = "thread/unsubscribe"
    BY <1>2 DEF ProbeInv, ClientIsAt, Order
  <2>3. ProbeTypeOK' /\ ServerTells' /\ InOrder' /\ Order' = Order
    <3>1. step' \in Methods /\ awaiting' \in 0..MaxId
      BY <2>1 DEF Methods, MaxId
    <3>2. failing' \in BOOLEAN
      BY <2>1 DEF ProbeInv, ProbeTypeOK
    <3> QED  BY <1>1, <3>1, <3>2, QuietStep
  <2>4. ClientIsAt' /\ ClientOwes'
    <3>1. UNCHANGED <<job, sent, unread, child, resumed>>
      BY <1>1 DEF server
    <3>2. \A i \in 1..Len(sent) : sent[i] = Order[i]
      BY DEF ProbeInv, ClientIsAt
    <3>3. unread \in {0, Len(sent)} /\ failing \in BOOLEAN /\ job # "none"
      BY <2>2 DEF ProbeInv, ProbeTypeOK, ClientIsAt
    <3>4. ClientIsAt'
      <4>1. Len(sent') = 4 /\ Len(Order') = 5 /\ Order'[4 + 1] = "thread/unsubscribe"
        BY <2>2, <2>3, <3>1
      <4>2. Len(sent') <= Len(Order') /\ \A i \in 1..Len(sent') : sent'[i] = Order'[i]
        BY <2>3, <3>1, <3>2, <4>1
      <4> QED  BY <2>1, <3>1, <3>3, <4>1, <4>2 DEF ClientIsAt
    <3>5. ClientOwes'
      BY <1>2, <2>1, <2>2, <3>1 DEF ProbeInv, ClientOwes
    <3> QED  BY <3>4, <3>5
  <2>5. NothingIsLost'
    BY <1>1, <2>1 DEF server, ProbeInv, NothingIsLost, HeardIsPrefix, RestIsQueued
  <2> QED  BY <2>3, <2>4, <2>5 DEF ProbeInv
<1>3. CASE step # "observing"
  BY <1>1, <1>3, GiveUpStep DEF Deadline
<1> QED  BY <1>2, <1>3

LEMMA CloseChildStep ==
    ASSUME ProbeInv, CloseChild
    PROVE  ProbeInv'
<1>1. UNCHANGED <<job, awaiting, failing, heard, sent, resumed, unread, inbox,
                  subscribed, spoken, lines>>
      /\ step = "closing" /\ step' = "closed" /\ child' = "exited" /\ Order' = Order
  BY OrderKept DEF CloseChild
<1>2. ProbeTypeOK' /\ ClientIsAt' /\ ClientOwes' /\ ServerTells' /\ InOrder'
  BY <1>1 DEF ProbeInv, ProbeTypeOK, ClientIsAt, ClientOwes, ServerTells, InOrder, Methods
<1>3. NothingIsLost'
  BY <1>1 DEF ProbeInv, NothingIsLost, HeardIsPrefix, RestIsQueued
<1> QED  BY <1>2, <1>3 DEF ProbeInv

-----------------------------------------------------------------------------
\* The server.
LEMMA ClientKept ==
    ASSUME ProbeInv, UNCHANGED <<job, step, awaiting, failing, sent, resumed>>,
           unread' \in {0, unread}, child' \in {child, "exited"}, child = "running"
    PROVE  ClientIsAt' /\ ClientOwes'
BY OrderKept DEF ProbeInv, ProbeTypeOK, ClientIsAt, ClientOwes

\* The request the server has not handled is the last that was sent.
LEMMA Unhandled ==
    ASSUME ProbeInv, unread # 0
    PROVE  /\ unread = Len(sent) /\ unread \in 1..MaxId /\ unread \in 1..Len(sent)
           /\ sent[unread] = "thread/resume" <=> unread = 4
           /\ sent[unread] = "thread/unsubscribe" <=> unread = 5
           /\ step \in {"closing", "closed"} /\ ~failing => unread # 4
<1>1. unread = Len(sent) /\ Len(sent) \in 1..MaxId /\ Len(Order) \in 0..5 /\ Len(Order) # 4
      /\ Len(sent) <= Len(Order) /\ sent[unread] = Order[unread]
  BY OrderFacts DEF ProbeInv, ProbeTypeOK, ClientIsAt
<1>2. step \in {"closing", "closed"} /\ ~failing => unread # 4
  <2>1. step \in {"closing", "closed"} /\ ~failing => Len(sent) = Len(Order)
    BY DEF ProbeInv, ClientIsAt
  <2> QED  BY <1>1, <2>1
<1>3. unread \in 1..5 /\ unread \in 1..Len(Order)
  BY <1>1 DEF MaxId
<1>4. (sent[unread] = "thread/resume" <=> unread = 4)
      /\ (sent[unread] = "thread/unsubscribe" <=> unread = 5)
  BY <1>1, <1>3, OrderFacts DEF ProbeInv, ProbeTypeOK
<1> QED  BY <1>1, <1>2, <1>3, <1>4 DEF MaxId

LEMMA SubscribeStep ==
    ASSUME ProbeInv, ServerSubscribes
    PROVE  ProbeInv'
<1>1. UNCHANGED <<job, step, awaiting, failing, heard, sent, resumed, child, unread,
                  inbox, spoken, lines>>
      /\ unread # 0 /\ sent[unread] = "thread/resume" /\ subscribed' = TRUE /\ child = "running"
  BY DEF ServerSubscribes
<1>2. unread = 4 /\ Len(sent) = 4 /\ (step \in {"closing", "closed"} => failing)
  BY <1>1, Unhandled
<1>3. ClientIsAt' /\ ClientOwes' /\ ProbeTypeOK' /\ InOrder'
  BY <1>1, ClientKept DEF ProbeInv, ProbeTypeOK, InOrder
<1>4. ServerTells'
  BY <1>1, <1>2 DEF ProbeInv, ServerTells
<1>5. NothingIsLost'
  BY <1>1, <1>2 DEF ProbeInv, NothingIsLost, HeardIsPrefix, RestIsQueued
<1> QED  BY <1>3, <1>4, <1>5 DEF ProbeInv

\* Events are numbers.
LEMMA Numbers ==
    ASSUME ProbeInv
    PROVE  /\ lines \in Nat
           /\ \A k \in 1..Len(spoken) : spoken[k] \in Nat /\ spoken[k] # 0 /\ spoken[k] <= lines
           /\ \A i \in 1..Len(inbox) : /\ inbox[i] \in Line
                                        /\ inbox[i].event \in Nat /\ inbox[i].event <= lines
<1>1. lines \in Nat
  BY ProbeAssumption DEF ProbeInv, ProbeTypeOK
<1>2. \A k \in 1..Len(spoken) : spoken[k] \in 1..MaxLines
  BY ElementOfSeq DEF ProbeInv, ProbeTypeOK
<1>3. \A k \in 1..Len(spoken) : spoken[k] \in Nat /\ spoken[k] # 0
  BY <1>2, ProbeAssumption
<1>4. inbox \in Seq(Line)
  BY DEF ProbeInv, ProbeTypeOK
<1>5. \A i \in 1..Len(inbox) : inbox[i] \in Line
  BY <1>4, ElementOfSeq
<1>6. \A l \in Line : l.event \in Nat
  BY ProbeAssumption DEF Line
<1> QED  BY <1>1, <1>3, <1>5, <1>6 DEF ProbeInv, InOrder

\* A line that is no event changes nothing of the order.
LEMMA SilentLine ==
    ASSUME ProbeInv, NEW line \in Line, line.event = 0, Says(line),
           UNCHANGED <<heard, spoken>>, lines' \in Nat, lines <= lines'
    PROVE  /\ inbox' \in Seq(Line) /\ Len(inbox') = Len(inbox) + 1 /\ Len(inbox) \in Nat
           /\ inbox'[Len(inbox) + 1] = line /\ \A i \in 1..Len(inbox) : inbox'[i] = inbox[i]
           /\ InOrder'
           /\ HeardIsPrefix => HeardIsPrefix'
           /\ RestIsQueued => RestIsQueued'
<1>1. /\ inbox' \in Seq(Line) /\ Len(inbox') = Len(inbox) + 1 /\ Len(inbox) \in Nat
      /\ inbox'[Len(inbox) + 1] = line /\ \A i \in 1..Len(inbox) : inbox'[i] = inbox[i]
  BY Queued DEF Says, ProbeInv, ProbeTypeOK
<1>2. InOrder'
  <2>1. \A i \in 1..Len(inbox') :
           (i \in 1..Len(inbox) /\ inbox'[i] = inbox[i]) \/ inbox'[i].event = 0
    BY <1>1
  <2>2. \A i \in 1..Len(inbox') : inbox'[i].event <= lines'
    <3>1. lines \in Nat /\ 0 <= lines'
      BY ProbeAssumption DEF ProbeInv, ProbeTypeOK
    <3>2. \A i \in 1..Len(inbox) : inbox[i].event \in Nat /\ inbox[i].event <= lines
      BY Numbers
    <3> QED  BY <2>1, <3>1, <3>2
  <2>3. \A i, j \in 1..Len(inbox') :
           i < j /\ inbox'[i].event # 0 /\ inbox'[j].event # 0 =>
              inbox'[i].event < inbox'[j].event
    BY <2>1 DEF ProbeInv, InOrder
  <2>4. lines \in Nat /\ \A k \in 1..Len(spoken) : spoken[k] \in Nat /\ spoken[k] <= lines
    BY Numbers
  <2>5. \A k \in 1..Len(spoken') : spoken'[k] <= lines'
    BY <2>4
  <2> QED  BY <2>2, <2>3, <2>5 DEF ProbeInv, InOrder
<1>3. ASSUME RestIsQueued PROVE RestIsQueued'
  <2>1. ASSUME NEW k \in (Len(heard) + 1)..Len(spoken)
        PROVE  \E i \in 1..Len(inbox') : inbox'[i].event = spoken[k]
    <3>1. PICK i \in 1..Len(inbox) : inbox[i].event = spoken[k]
      BY <1>3, <2>1 DEF RestIsQueued
    <3> QED  BY <1>1, <3>1
  <2>2. ASSUME NEW i \in 1..Len(inbox'), inbox'[i].event # 0
        PROVE  \E k \in (Len(heard) + 1)..Len(spoken) : inbox'[i].event = spoken[k]
    <3>1. i \in 1..Len(inbox) /\ inbox'[i] = inbox[i]
      BY <1>1, <2>2
    <3> QED  BY <1>3, <2>2, <3>1 DEF RestIsQueued
  <2> QED  BY <2>1, <2>2 DEF RestIsQueued
<1> QED  BY <1>1, <1>2, <1>3 DEF HeardIsPrefix

LEMMA AnswerStep ==
    ASSUME ProbeInv, ServerAnswers
    PROVE  ProbeInv'
<1>1. PICK kind \in {"result", "error"} :
         /\ kind = "result" /\ sent[unread] = "thread/resume" => subscribed
         /\ Says([id |-> unread, kind |-> kind, event |-> 0])
         /\ subscribed' = (subscribed /\ ~(kind = "result" /\ sent[unread] = "thread/unsubscribe"))
  BY DEF ServerAnswers
<1>2. UNCHANGED <<job, step, awaiting, failing, heard, sent, resumed, child, spoken, lines>>
      /\ unread' = 0 /\ unread # 0 /\ child = "running"
  BY DEF ServerAnswers
<1> DEFINE line == [id |-> unread, kind |-> kind, event |-> 0]
<1>3. line \in Line /\ line.event = 0 /\ line.id = unread /\ line.kind = kind
  BY <1>2, Unhandled, ProbeAssumption DEF Line
<1> HIDE DEF line
<1>4. /\ inbox' \in Seq(Line) /\ Len(inbox') = Len(inbox) + 1 /\ Len(inbox) \in Nat
      /\ inbox'[Len(inbox) + 1] = line /\ \A i \in 1..Len(inbox) : inbox'[i] = inbox[i]
      /\ InOrder' /\ (HeardIsPrefix => HeardIsPrefix') /\ (RestIsQueued => RestIsQueued')
  <2>1. lines' = lines /\ lines \in Nat
    BY <1>2, ProbeAssumption DEF ProbeInv, ProbeTypeOK
  <2>2. Says(line)
    BY <1>1 DEF line
  <2> QED  BY <1>2, <1>3, <2>1, <2>2, SilentLine
<1>5. ClientIsAt' /\ ClientOwes'
  BY <1>2, ClientKept
<1>6. subscribed' \in BOOLEAN /\ (subscribed' => subscribed)
      /\ (kind = "result" /\ unread = 5 => ~subscribed')
  BY <1>1, <1>2, Unhandled DEF ProbeInv, ProbeTypeOK
<1>7. ProbeTypeOK'
  BY <1>2, <1>4, <1>6 DEF ProbeInv, ProbeTypeOK
<1>8. ServerTells'
  <2>1. unread \in 1..Len(sent)
    BY <1>2, Unhandled
  <2>2. \A i \in 1..Len(inbox') : i \in 1..Len(inbox) \/ (i = Len(inbox) + 1 /\ inbox'[i] = line)
    BY <1>4
  <2>3. \A i \in 1..Len(inbox') :
           inbox'[i].kind \in {"result", "error"} =>
              inbox'[i].event = 0 /\ inbox'[i].id \in 1..Len(sent)
    BY <1>3, <1>4, <2>1, <2>2 DEF ProbeInv, ServerTells
  <2>4. \A i \in 1..Len(inbox') :
           inbox'[i].kind = "result" /\ inbox'[i].id = 5 =>
              ~subscribed' /\ \A j \in i..Len(inbox') : inbox'[j].event = 0
    <3>1. SUFFICES ASSUME NEW i \in 1..Len(inbox'),
                          inbox'[i].kind = "result" /\ inbox'[i].id = 5
                   PROVE  ~subscribed' /\ \A j \in i..Len(inbox') : inbox'[j].event = 0
      OBVIOUS
    <3>2. CASE i \in 1..Len(inbox)
      <4>1. ~subscribed /\ \A j \in i..Len(inbox) : inbox[j].event = 0
        BY <1>4, <3>1, <3>2 DEF ProbeInv, ServerTells
      <4> QED  BY <1>3, <1>4, <1>6, <4>1
    <3>3. CASE i = Len(inbox) + 1
      BY <1>3, <1>4, <1>6, <3>1, <3>3
    <3> QED  BY <1>4, <3>2, <3>3
  <2>5. subscribed' \/ spoken' # <<>> => Len(sent') >= 4
    BY <1>2, <1>6 DEF ProbeInv, ServerTells
  <2> QED  BY <1>2, <2>3, <2>4, <2>5 DEF ServerTells
<1>9. NothingIsLost'
  BY <1>2, <1>4, <1>6 DEF ProbeInv, NothingIsLost
<1> QED  BY <1>4, <1>5, <1>7, <1>8, <1>9 DEF ProbeInv

\* What the server says of its own accord is no answer.
LEMMA SpeakStep ==
    ASSUME ProbeInv, ServerSpeaks
    PROVE  ProbeInv'
<1>1. PICK kind \in {"request", "notice", "garbage"}, id \in 0..MaxId, own \in BOOLEAN :
         /\ own => subscribed /\ kind # "garbage"
         /\ Says([id |-> id, kind |-> kind, event |-> IF own THEN lines + 1 ELSE 0])
         /\ spoken' = IF own THEN Append(spoken, lines + 1) ELSE spoken
  BY DEF ServerSpeaks
<1>2. UNCHANGED <<job, step, awaiting, failing, heard, sent, resumed, child, unread, subscribed>>
      /\ child = "running" /\ lines' = lines + 1 /\ lines < MaxLines
  BY DEF ServerSpeaks
<1> DEFINE line == [id |-> id, kind |-> kind, event |-> IF own THEN lines + 1 ELSE 0]
<1>3. /\ line \in Line /\ line.event = (IF own THEN lines + 1 ELSE 0) /\ line.kind = kind
      /\ lines \in Nat /\ lines + 1 \in 1..MaxLines
  BY <1>2, ProbeAssumption DEF ProbeInv, ProbeTypeOK, Line
<1>4. Says(line) /\ line.kind \notin {"result", "error"}
  BY <1>1, <1>3
<1> HIDE DEF line
<1>5. /\ inbox' \in Seq(Line) /\ Len(inbox') = Len(inbox) + 1 /\ Len(inbox) \in Nat
      /\ inbox'[Len(inbox) + 1] = line /\ \A i \in 1..Len(inbox) : inbox'[i] = inbox[i]
  BY <1>3, <1>4, Queued DEF Says, ProbeInv, ProbeTypeOK
<1>6. ClientIsAt' /\ ClientOwes'
  BY <1>2, ClientKept
<1>7. spoken \in Seq(1..MaxLines) /\ spoken' \in Seq(1..MaxLines)
  BY <1>1, <1>3, Queued DEF ProbeInv, ProbeTypeOK
<1>8. ProbeTypeOK'
  BY <1>2, <1>3, <1>5, <1>7 DEF ProbeInv, ProbeTypeOK
<1>9. ServerTells'
  <2>1. subscribed' \/ spoken' # <<>> => Len(sent') >= 4
    BY <1>1, <1>2 DEF ProbeInv, ServerTells
  <2>2. \A i \in 1..Len(inbox') :
           inbox'[i].kind \in {"result", "error"} => i \in 1..Len(inbox) /\ inbox'[i] = inbox[i]
    BY <1>4, <1>5
  <2>3. \A i \in 1..Len(inbox') :
           inbox'[i].kind \in {"result", "error"} =>
              inbox'[i].event = 0 /\ inbox'[i].id \in 1..Len(sent')
    BY <1>2, <2>2 DEF ProbeInv, ServerTells
  <2>4. ASSUME NEW i \in 1..Len(inbox'), inbox'[i].kind = "result" /\ inbox'[i].id = 5
        PROVE  ~subscribed' /\ \A j \in i..Len(inbox') : inbox'[j].event = 0
    <3>1. i \in 1..Len(inbox) /\ inbox'[i] = inbox[i]
      BY <2>2, <2>4
    <3>2. ~subscribed /\ \A j \in i..Len(inbox) : inbox[j].event = 0
      BY <2>4, <3>1 DEF ProbeInv, ServerTells
    <3>3. line.event = 0
      BY <1>1, <1>3, <3>2
    <3> QED  BY <1>2, <1>5, <3>1, <3>2, <3>3
  <2> QED  BY <2>1, <2>3, <2>4 DEF ServerTells
<1>10. CASE ~own
  <2>1. line.event = 0 /\ UNCHANGED <<heard, spoken>> /\ lines' \in Nat /\ lines <= lines'
    BY <1>1, <1>2, <1>3, <1>10
  <2>2. InOrder' /\ (HeardIsPrefix => HeardIsPrefix') /\ (RestIsQueued => RestIsQueued')
    BY <1>3, <1>4, <2>1, SilentLine
  <2>3. NothingIsLost'
    BY <1>2, <2>1, <2>2 DEF ProbeInv, NothingIsLost
  <2> QED  BY <1>6, <1>8, <1>9, <2>2, <2>3 DEF ProbeInv
<1>11. CASE own
  <2>1. line.event = lines + 1 /\ subscribed /\ spoken' = Append(spoken, lines + 1)
    BY <1>1, <1>3, <1>11
  <2>2. /\ Len(spoken') = Len(spoken) + 1 /\ Len(spoken) \in Nat
        /\ spoken'[Len(spoken) + 1] = lines + 1
        /\ \A k \in 1..Len(spoken) : spoken'[k] = spoken[k]
    BY <1>3, <1>7, <2>1, Queued
  <2>3. InOrder'
    <3>1. \A k \in 1..Len(spoken) : spoken[k] \in Nat /\ spoken[k] < lines + 1
      BY Numbers
    <3>2. \A i \in 1..Len(inbox) : inbox[i].event \in Nat /\ inbox[i].event < lines + 1
      BY Numbers
    <3>3. \A k \in 1..Len(spoken') : spoken'[k] <= lines'
      BY <1>2, <1>3, <2>2, <3>1
    <3>4. \A k, l \in 1..Len(spoken') : k < l => spoken'[k] < spoken'[l]
      BY <2>2, <3>1 DEF ProbeInv, InOrder
    <3>5. \A i \in 1..Len(inbox') : inbox'[i].event <= lines'
      BY <1>2, <1>3, <1>5, <2>1, <3>2
    <3>6. \A i, j \in 1..Len(inbox') :
             i < j /\ inbox'[i].event # 0 /\ inbox'[j].event # 0 =>
                inbox'[i].event < inbox'[j].event
      <4>1. \A i, j \in 1..Len(inbox) :
               i < j /\ inbox[i].event # 0 /\ inbox[j].event # 0 =>
                  inbox[i].event < inbox[j].event
        BY DEF ProbeInv, InOrder
      <4>2. \A i \in 1..Len(inbox') :
               \/ i \in 1..Len(inbox) /\ inbox'[i].event = inbox[i].event
               \/ i = Len(inbox) + 1 /\ inbox'[i].event = lines + 1
        BY <1>5, <2>1
      <4> QED  BY <1>5, <3>2, <4>1, <4>2
    <3> QED  BY <3>3, <3>4, <3>5, <3>6 DEF InOrder
  <2>4. ASSUME ~failing'
        PROVE  HeardIsPrefix' /\ RestIsQueued' /\ step' \notin {"closing", "closed"}
    <3>1. HeardIsPrefix /\ RestIsQueued /\ step' \notin {"closing", "closed"}
      BY <1>2, <2>1, <2>4 DEF ProbeInv, NothingIsLost
    <3>2. heard' = heard /\ Len(heard) \in Nat
      BY <1>2, LenProperties DEF ProbeInv, ProbeTypeOK
    <3>3. HeardIsPrefix'
      BY <2>2, <3>1, <3>2 DEF HeardIsPrefix
    <3>4. \A k \in (Len(heard') + 1)..Len(spoken') :
             \E i \in 1..Len(inbox') : inbox'[i].event = spoken'[k]
      <4>1. SUFFICES ASSUME NEW k \in (Len(heard) + 1)..(Len(spoken) + 1)
                     PROVE  \E i \in 1..Len(inbox') : inbox'[i].event = spoken'[k]
        BY <2>2, <3>2
      <4>2. CASE k = Len(spoken) + 1
        BY <1>5, <2>1, <2>2, <4>2
      <4>3. CASE k \in (Len(heard) + 1)..Len(spoken)
        <5>1. PICK i \in 1..Len(inbox) : inbox[i].event = spoken[k]
          BY <3>1, <4>3 DEF RestIsQueued
        <5> QED  BY <1>5, <2>2, <3>2, <4>3, <5>1
      <4> QED  BY <2>2, <3>2, <4>2, <4>3
    <3>5. \A i \in 1..Len(inbox') : inbox'[i].event # 0 =>
             \E k \in (Len(heard') + 1)..Len(spoken') : inbox'[i].event = spoken'[k]
      <4>1. SUFFICES ASSUME NEW i \in 1..(Len(inbox) + 1), inbox'[i].event # 0
                     PROVE  \E k \in (Len(heard) + 1)..(Len(spoken) + 1) :
                               inbox'[i].event = spoken'[k]
        BY <1>5, <2>2, <3>2
      <4>2. CASE i = Len(inbox) + 1
        <5>1. Len(spoken) + 1 \in (Len(heard) + 1)..(Len(spoken) + 1)
          BY <2>2, <3>1, <3>2 DEF HeardIsPrefix
        <5> QED  BY <1>5, <2>1, <2>2, <4>2, <5>1
      <4>3. CASE i \in 1..Len(inbox)
        <5>1. PICK k \in (Len(heard) + 1)..Len(spoken) : inbox[i].event = spoken[k]
          BY <1>5, <3>1, <4>1, <4>3 DEF RestIsQueued
        <5> QED  BY <1>5, <2>2, <3>2, <4>3, <5>1
      <4> QED  BY <1>5, <4>2, <4>3
    <3> QED  BY <3>1, <3>3, <3>4, <3>5 DEF RestIsQueued
  <2>5. NothingIsLost'
    BY <2>4 DEF NothingIsLost
  <2> QED  BY <1>6, <1>8, <1>9, <2>3, <2>5 DEF ProbeInv
<1> QED  BY <1>10, <1>11

LEMMA ExitStep ==
    ASSUME ProbeInv, ServerExits
    PROVE  ProbeInv'
<1>1. UNCHANGED <<job, step, awaiting, failing, heard, sent, resumed, unread, inbox,
                  subscribed, spoken, lines>>
      /\ child = "running" /\ child' = "exited"
  BY DEF ServerExits
<1>2. ClientIsAt' /\ ClientOwes'
  BY <1>1, ClientKept
<1>3. ProbeTypeOK' /\ ServerTells' /\ InOrder'
  BY <1>1 DEF ProbeInv, ProbeTypeOK, ServerTells, InOrder
<1>4. NothingIsLost'
  BY <1>1 DEF ProbeInv, NothingIsLost, HeardIsPrefix, RestIsQueued
<1> QED  BY <1>2, <1>3, <1>4 DEF ProbeInv

-----------------------------------------------------------------------------
\* The client takes a line.
LEMMA QueueStep ==
    ASSUME ProbeInv, inbox # <<>>, inbox' = Tail(inbox),
           UNCHANGED <<sent, subscribed, spoken, lines>>
    PROVE  /\ inbox \in Seq(Line) /\ inbox' \in Seq(Line) /\ Len(inbox) \in Nat \ {0}
           /\ Len(inbox') = Len(inbox) - 1 /\ Head(inbox) = inbox[1] /\ Head(inbox) \in Line
           /\ \A i \in 1..Len(inbox') : inbox'[i] = inbox[i + 1]
           /\ ServerTells' /\ InOrder'
<1>1. inbox \in Seq(Line)
  BY DEF ProbeInv, ProbeTypeOK
<1>2. /\ inbox' \in Seq(Line) /\ Len(inbox) \in Nat \ {0}
      /\ Len(inbox') = Len(inbox) - 1 /\ Head(inbox) = inbox[1] /\ Head(inbox) \in Line
      /\ \A i \in 1..Len(inbox') : inbox'[i] = inbox[i + 1]
  BY <1>1, Taken
<1>3. \A i \in 1..Len(inbox') : i + 1 \in 1..Len(inbox)
  BY <1>2
<1>4. ServerTells'
  <2>1. \A i \in 1..Len(inbox') :
           inbox'[i].kind \in {"result", "error"} =>
              inbox'[i].event = 0 /\ inbox'[i].id \in 1..Len(sent')
    BY <1>2, <1>3 DEF ProbeInv, ServerTells
  <2>2. ASSUME NEW i \in 1..Len(inbox'), inbox'[i].kind = "result" /\ inbox'[i].id = 5
        PROVE  ~subscribed' /\ \A j \in i..Len(inbox') : inbox'[j].event = 0
    <3>1. ~subscribed /\ \A j \in (i + 1)..Len(inbox) : inbox[j].event = 0
      BY <1>2, <1>3, <2>2 DEF ProbeInv, ServerTells
    <3>2. ASSUME NEW j \in i..Len(inbox') PROVE j \in 1..Len(inbox') /\ j + 1 \in (i + 1)..Len(inbox)
      BY <1>2
    <3> QED  BY <1>2, <3>1, <3>2
  <2> QED  BY <2>1, <2>2 DEF ProbeInv, ServerTells
<1>5. InOrder'
  <2>1. \A i \in 1..Len(inbox') : inbox'[i].event <= lines'
    BY <1>2, <1>3 DEF ProbeInv, InOrder
  <2>2. ASSUME NEW i \in 1..Len(inbox'), NEW j \in 1..Len(inbox'),
               i < j /\ inbox'[i].event # 0 /\ inbox'[j].event # 0
        PROVE  inbox'[i].event < inbox'[j].event
    <3>1. i + 1 < j + 1
      BY <2>2
    <3> QED  BY <1>2, <1>3, <2>2, <3>1 DEF ProbeInv, InOrder
  <2> QED  BY <2>1, <2>2 DEF ProbeInv, InOrder
<1> QED  BY <1>1, <1>2, <1>4, <1>5

\* What is heard in the order of the queue is heard in the order it was spoken.
LEMMA HearStep ==
    ASSUME ProbeInv, ~failing, inbox # <<>>, inbox' = Tail(inbox),
           UNCHANGED <<sent, subscribed, spoken, lines>>,
           heard' = IF Head(inbox).event # 0 THEN Append(heard, Head(inbox).event) ELSE heard
    PROVE  HeardIsPrefix' /\ RestIsQueued'
<1>1. /\ Len(inbox) \in Nat \ {0} /\ Len(inbox') = Len(inbox) - 1 /\ Head(inbox) = inbox[1]
      /\ \A i \in 1..Len(inbox') : inbox'[i] = inbox[i + 1] /\ i + 1 \in 1..Len(inbox)
  BY QueueStep
<1>2. HeardIsPrefix /\ RestIsQueued /\ Len(heard) \in Nat /\ Len(spoken) \in Nat
      /\ heard \in Seq(1..MaxLines)
  BY LenProperties DEF ProbeInv, NothingIsLost, ProbeTypeOK
<1>3. \A k \in 1..Len(spoken) : spoken[k] \in Nat /\ spoken[k] # 0
  BY Numbers
<1>4. \A i \in 1..Len(inbox) : inbox[i].event \in Nat
  BY Numbers
<1>5. CASE inbox[1].event = 0
  <2>1. heard' = heard
    BY <1>1, <1>5
  <2>2. \A k \in (Len(heard) + 1)..Len(spoken) :
           \E i \in 1..Len(inbox') : inbox'[i].event = spoken[k]
    <3>1. SUFFICES ASSUME NEW k \in (Len(heard) + 1)..Len(spoken)
                   PROVE  \E i \in 1..Len(inbox') : inbox'[i].event = spoken[k]
      OBVIOUS
    <3>2. PICK i \in 1..Len(inbox) : inbox[i].event = spoken[k]
      BY <1>2 DEF RestIsQueued
    <3>3. i # 1
      BY <1>2, <1>3, <1>5, <3>2
    <3>4. i - 1 \in 1..Len(inbox') /\ inbox'[i - 1] = inbox[i]
      BY <1>1, <3>3
    <3> QED  BY <3>2, <3>4
  <2>3. \A i \in 1..Len(inbox') : inbox'[i].event # 0 =>
           \E k \in (Len(heard) + 1)..Len(spoken) : inbox'[i].event = spoken[k]
    BY <1>1, <1>2 DEF RestIsQueued
  <2> QED  BY <1>2, <2>1, <2>2, <2>3 DEF HeardIsPrefix, RestIsQueued
<1>6. CASE inbox[1].event # 0
  <2> DEFINE next == Len(heard) + 1
             e    == inbox[1].event
  <2>1. PICK k \in next..Len(spoken) : e = spoken[k]
    BY <1>1, <1>2, <1>6 DEF RestIsQueued
  <2>2. next \in 1..Len(spoken) /\ k \in 1..Len(spoken)
    BY <1>2, <2>1
  <2>3. e = spoken[next]
    <3>1. PICK i \in 1..Len(inbox) : inbox[i].event = spoken[next]
      BY <1>2, <2>1, <2>2 DEF RestIsQueued
    <3>2. CASE i = 1
      BY <3>1, <3>2
    <3>3. CASE i # 1
      <4>1. 1 < i /\ 1 \in 1..Len(inbox) /\ inbox[i].event # 0
        BY <1>1, <1>3, <2>2, <3>1, <3>3
      <4>2. e < spoken[next]
        BY <1>6, <3>1, <4>1 DEF ProbeInv, InOrder
      <4>3. CASE k = next
        BY <2>1, <4>3
      <4>4. CASE next < k
        BY <1>3, <2>1, <2>2, <4>2, <4>4 DEF ProbeInv, InOrder
      <4> QED  BY <1>2, <2>1, <4>3, <4>4
    <3> QED  BY <3>2, <3>3
  <2>4. e \in 1..MaxLines
    <3>1. \A l \in 1..Len(spoken) : spoken[l] \in 1..MaxLines
      BY ElementOfSeq DEF ProbeInv, ProbeTypeOK
    <3> QED  BY <2>1, <2>2, <3>1
  <2>5. /\ heard' = Append(heard, e) /\ Len(heard') = next /\ heard'[next] = e
        /\ \A l \in 1..Len(heard) : heard'[l] = heard[l]
    BY <1>1, <1>2, <1>6, <2>4, Queued
  <2>6. HeardIsPrefix'
    BY <1>2, <2>2, <2>3, <2>5 DEF HeardIsPrefix
  <2>7. \A l \in (next + 1)..Len(spoken) :
           \E i \in 1..Len(inbox') : inbox'[i].event = spoken[l]
    <3>1. SUFFICES ASSUME NEW l \in (next + 1)..Len(spoken)
                   PROVE  \E i \in 1..Len(inbox') : inbox'[i].event = spoken[l]
      OBVIOUS
    <3>2. l \in next..Len(spoken) /\ l \in 1..Len(spoken) /\ next < l
      BY <1>2
    <3>3. PICK i \in 1..Len(inbox) : inbox[i].event = spoken[l]
      BY <1>2, <3>2 DEF RestIsQueued
    <3>4. spoken[next] < spoken[l]
      BY <2>2, <3>2 DEF ProbeInv, InOrder
    <3>5. i # 1
      BY <1>3, <2>2, <2>3, <3>2, <3>3, <3>4
    <3>6. i - 1 \in 1..Len(inbox') /\ inbox'[i - 1] = inbox[i]
      BY <1>1, <3>5
    <3> QED  BY <3>3, <3>6
  <2>8. ASSUME NEW i \in 1..Len(inbox'), inbox'[i].event # 0
        PROVE  \E l \in (next + 1)..Len(spoken) : inbox'[i].event = spoken[l]
    <3>1. inbox'[i] = inbox[i + 1] /\ i + 1 \in 1..Len(inbox) /\ 1 < i + 1 /\ 1 \in 1..Len(inbox)
      BY <1>1
    <3>2. PICK l \in next..Len(spoken) : inbox[i + 1].event = spoken[l]
      BY <1>2, <2>8, <3>1 DEF RestIsQueued
    <3>3. e < inbox[i + 1].event
      BY <1>6, <2>8, <3>1 DEF ProbeInv, InOrder
    <3>4. l # next
      BY <1>4, <2>3, <3>1, <3>2, <3>3
    <3>5. l \in (next + 1)..Len(spoken)
      BY <1>2, <3>4
    <3> QED  BY <3>1, <3>2, <3>5
  <2> HIDE DEF next, e
  <2>9. Len(heard') + 1 = next + 1 /\ spoken' = spoken
    BY <2>5
  <2> QED  BY <2>6, <2>7, <2>8, <2>9 DEF RestIsQueued
<1> QED  BY <1>5, <1>6

\* An answer leads the client to its next request, or to the end of its job.
LEMMA AnsweredStep ==
    ASSUME ProbeInv, awaiting # 0, Succeed, UNCHANGED <<job, sent, unread, child>>,
           resumed' = (resumed \/ (step = "thread/resume" /\ step' = "observing"))
    PROVE  /\ ClientIsAt' /\ ClientOwes'
           /\ step' \in Methods \cup {"observing", "closing"} /\ awaiting' = 0 /\ failing' = failing
           /\ step' = "closing" <=> Len(sent) = Len(Order)
           /\ awaiting = Len(sent) /\ resumed' \in BOOLEAN
<1>1. Order' = Order /\ Len(Order) \in 0..5 /\ Len(Order) # 4 /\ (job = "probe" <=> Len(Order) > 3)
      /\ \A i \in 1..Len(Order) : /\ Order[i] \in Methods
                                  /\ Order[i] = "thread/resume" <=> i = 4
                                  /\ Order[i] = "thread/unsubscribe" <=> i = 5
  BY OrderKept, OrderFacts DEF ProbeInv, ProbeTypeOK
<1>2. /\ awaiting = Len(sent) /\ awaiting \in 1..Len(Order)
      /\ step = Order[awaiting] /\ step \in Methods
      /\ step' = IF awaiting = Len(Order) THEN "closing"
                 ELSE IF awaiting = 4 THEN "observing" ELSE Order[awaiting + 1]
      /\ awaiting' = 0 /\ failing' = failing
  BY Succession DEF ProbeInv, ClientIsAt, Succeed
<1>3. step # "start" /\ job # "none" /\ (failing => step = "thread/unsubscribe")
      /\ unread \in {0, Len(sent)} /\ failing \in BOOLEAN /\ resumed \in BOOLEAN
      /\ \A i \in 1..Len(sent) : sent[i] = Order[i]
  BY <1>2 DEF ProbeInv, ProbeTypeOK, ClientIsAt, Methods
<1>4. resumed => awaiting = 5
  <2>1. resumed => step = "thread/unsubscribe"
    BY <1>2 DEF ProbeInv, ClientOwes, Methods
  <2> QED  BY <1>1, <1>2, <2>1
<1>5. CASE awaiting = Len(Order)
  <2>1. step' = "closing" /\ (awaiting = 4 => FALSE)
    BY <1>1, <1>2, <1>5
  <2>2. ClientIsAt'
    BY <1>1, <1>2, <1>3, <1>5, <2>1 DEF ClientIsAt, Methods
  <2>3. resumed' = resumed
    BY <1>3, <2>1
  <2>4. ClientOwes'
    BY <1>2, <1>4, <2>1, <2>3 DEF ClientOwes
  <2> QED  BY <1>2, <1>3, <1>5, <2>1, <2>2, <2>3, <2>4
<1>6. CASE awaiting = 4 /\ awaiting # Len(Order)
  <2>1. step' = "observing" /\ Len(sent) = 4 /\ job = "probe" /\ ~failing
    BY <1>1, <1>2, <1>3, <1>6
  <2>2. ClientIsAt'
    BY <1>1, <1>2, <1>3, <2>1 DEF ProbeInv, ClientIsAt, Methods
  <2>3. ClientOwes'
    BY <1>2, <2>1 DEF ClientOwes
  <2> QED  BY <1>2, <1>3, <1>6, <2>1, <2>2, <2>3
<1>7. CASE awaiting # 4 /\ awaiting # Len(Order)
  <2>1. awaiting + 1 \in 1..Len(Order) /\ step' = Order[awaiting + 1] /\ step' \in Methods
    BY <1>1, <1>2, <1>7
  <2>2. awaiting # 5 /\ ~failing
    BY <1>1, <1>2, <1>3, <1>7
  <2>3. resumed' = FALSE
    BY <1>3, <1>4, <2>1, <2>2 DEF Methods
  <2>4. ClientIsAt'
    BY <1>1, <1>2, <1>3, <1>7, <2>1, <2>2 DEF ClientIsAt, Methods
  <2>5. ClientOwes'
    BY <2>1, <2>3 DEF ClientOwes, Methods
  <2> QED  BY <1>2, <1>7, <2>1, <2>3, <2>4, <2>5 DEF Methods
<1> QED  BY <1>5, <1>6, <1>7

LEMMA ReceiveStep ==
    ASSUME ProbeInv, Receive
    PROVE  ProbeInv'
<1> DEFINE line   == Head(inbox)
           answer == awaiting # 0 /\ line.id = awaiting
<1>1. /\ Receives /\ inbox # <<>> /\ inbox' = Tail(inbox)
      /\ UNCHANGED <<job, sent, child, unread, subscribed, spoken, lines>>
      /\ heard' = IF ~answer /\ line.event # 0 /\ Collects THEN Append(heard, line.event) ELSE heard
      /\ resumed' = (resumed \/ (step = "thread/resume" /\ step' = "observing"))
  BY DEF Receive
<1>2. /\ inbox' \in Seq(Line) /\ Len(inbox) \in Nat \ {0} /\ Len(inbox') = Len(inbox) - 1
      /\ line = inbox[1] /\ line \in Line /\ \A i \in 1..Len(inbox') : inbox'[i] = inbox[i + 1]
      /\ ServerTells' /\ InOrder'
  BY <1>1, QueueStep
<1>3. heard' \in Seq(1..MaxLines)
  <2>1. line.event # 0 => line.event \in 1..MaxLines
    BY <1>2, ProbeAssumption DEF Line
  <2> QED  BY <1>1, <2>1, Queued DEF ProbeInv, ProbeTypeOK
<1>4. step' \in Methods \cup {"observing", "closing"} /\ awaiting' \in 0..MaxId
      /\ failing' \in BOOLEAN /\ resumed' \in BOOLEAN => ProbeTypeOK'
  BY <1>1, <1>2, <1>3 DEF ProbeInv, ProbeTypeOK
<1>5. CASE line.kind = "garbage" \/ (answer /\ line.kind # "result")
  <2>1. Raise
    BY <1>5 DEF Receive
  <2>2. failing' = TRUE /\ step' # "observing" /\ resumed' = resumed /\ resumed \in BOOLEAN
    BY <1>1, <2>1 DEF Raise, Finally, ProbeInv, ProbeTypeOK
  <2>3. ClientIsAt' /\ ClientOwes' /\ step' \in Methods \cup {"closing"} /\ awaiting' \in 0..MaxId
    BY <1>1, <2>1, <2>2, RaiseStep
  <2> QED  BY <1>2, <1>4, <2>2, <2>3 DEF ProbeInv, NothingIsLost
<1>6. CASE answer /\ line.kind = "result"
  <2>1. Succeed /\ awaiting # 0
    BY <1>6 DEF Receive
  <2>2. /\ ClientIsAt' /\ ClientOwes' /\ resumed' \in BOOLEAN
        /\ step' \in Methods \cup {"observing", "closing"} /\ awaiting' = 0 /\ failing' = failing
        /\ step' = "closing" <=> Len(sent) = Len(Order)
        /\ awaiting = Len(sent)
    BY <1>1, <2>1, AnsweredStep
  <2>3. ProbeTypeOK'
    BY <1>4, <2>2 DEF MaxId, ProbeInv, ProbeTypeOK
  <2>4. line.event = 0 /\ heard' = heard /\ 1 \in 1..Len(inbox)
    BY <1>1, <1>2, <1>6 DEF ProbeInv, ServerTells
  <2>5. ASSUME ~failing
        PROVE  HeardIsPrefix' /\ RestIsQueued'
               /\ (step' \in {"closing", "closed"} => ~subscribed' /\ heard' = spoken')
    <3>1. HeardIsPrefix' /\ RestIsQueued'
      BY <1>1, <2>4, <2>5, HearStep
    <3>2. CASE step' = "closing"
      <4>1. Len(sent) = Len(Order) /\ Len(Order) \in 0..5 /\ Len(Order) # 4
        BY <2>2, <3>2, OrderFacts DEF ProbeInv, ProbeTypeOK
      <4>2. ~subscribed /\ (Len(sent) = 5 \/ spoken = <<>>)
            /\ (Len(sent) = 5 => \A i \in 1..Len(inbox) : inbox[i].event = 0)
        <5>1. CASE Len(sent) = 5
          <6>1. inbox[1].kind = "result" /\ inbox[1].id = 5
            BY <1>2, <1>6, <2>2, <5>1
          <6> QED  BY <2>4, <5>1, <6>1 DEF ProbeInv, ServerTells
        <5>2. CASE Len(sent) # 5
          <6>1. ~(Len(sent) >= 4)
            BY <4>1, <5>2
          <6> QED  BY <5>2, <6>1 DEF ProbeInv, ServerTells
        <5> QED  BY <5>1, <5>2
      <4>3. HeardIsPrefix /\ RestIsQueued /\ heard \in Seq(1..MaxLines)
            /\ spoken \in Seq(1..MaxLines) /\ Len(heard) \in Nat /\ Len(spoken) \in Nat
        BY <2>5, LenProperties DEF ProbeInv, NothingIsLost, ProbeTypeOK
      <4>4. Len(heard) = Len(spoken)
        <5>1. CASE Len(sent) = 5
          <6>1. \A k \in 1..Len(spoken) : spoken[k] # 0
            BY Numbers
          <6>2. ASSUME Len(heard) < Len(spoken) PROVE FALSE
            <7>1. /\ Len(heard) + 1 \in (Len(heard) + 1)..Len(spoken)
                  /\ Len(heard) + 1 \in 1..Len(spoken)
              BY <4>3, <6>2
            <7>2. PICK i \in 1..Len(inbox) : inbox[i].event = spoken[Len(heard) + 1]
              BY <4>3, <7>1 DEF RestIsQueued
            <7> QED  BY <4>2, <5>1, <6>1, <7>1, <7>2
          <6> QED  BY <4>3, <6>2 DEF HeardIsPrefix
        <5>2. CASE spoken = <<>>
          BY <4>3, <5>2 DEF HeardIsPrefix
        <5> QED  BY <4>2, <5>1, <5>2
      <4>5. heard = spoken
        BY <4>3, <4>4, SeqEqual DEF HeardIsPrefix
      <4> QED  BY <1>1, <2>4, <3>1, <4>2, <4>5
    <3>3. CASE step' # "closing"
      BY <2>2, <3>1, <3>3 DEF Methods
    <3> QED  BY <3>1, <3>2, <3>3
  <2>6. NothingIsLost'
    BY <2>2, <2>5 DEF NothingIsLost
  <2> QED  BY <1>2, <2>2, <2>3, <2>6 DEF ProbeInv
<1>7. CASE line.kind # "garbage" /\ ~answer
  <2>1. UNCHANGED <<step, awaiting, failing>>
    BY <1>7 DEF Receive
  <2>2. step \in Methods \cup {"observing"} /\ step # "closing" /\ step # "closed"
    <3>1. CASE awaiting # 0
      BY <3>1, Succession DEF ProbeInv, Methods
    <3>2. CASE step = "observing"
      BY <3>2
    <3> QED  BY <1>1, <3>1, <3>2 DEF Receives
  <2>3. resumed' = resumed
    BY <1>1, <2>1 DEF ProbeInv, ProbeTypeOK
  <2>4. ClientIsAt' /\ ClientOwes' /\ ProbeTypeOK'
    BY <1>1, <1>4, <2>1, <2>2, <2>3, OrderKept
       DEF ProbeInv, ProbeTypeOK, ClientIsAt, ClientOwes
  <2>5. ASSUME ~failing
        PROVE  HeardIsPrefix' /\ RestIsQueued'
    <3>1. line.event # 0 => Collects
      <4>1. SUFFICES ASSUME line.event # 0 PROVE Collects
        OBVIOUS
      <4>2. spoken # <<>>
        <5>1. PICK k \in (Len(heard) + 1)..Len(spoken) : inbox[1].event = spoken[k]
          BY <1>2, <2>5, <4>1 DEF ProbeInv, NothingIsLost, RestIsQueued
        <5>2. Len(heard) \in Nat /\ Len(spoken) \in Nat
          BY LenProperties DEF ProbeInv, ProbeTypeOK
        <5>3. Len(spoken) # 0
          BY <5>1, <5>2
        <5> QED  BY <5>3
      <4>3. Len(sent) >= 4
        BY <4>2 DEF ProbeInv, ServerTells
      <4>4. CASE awaiting # 0
        <5>1. awaiting = Len(sent) /\ step = Order[awaiting] /\ awaiting \in 1..Len(Order)
              /\ Len(Order) \in 0..5
          BY <4>4, Succession, OrderFacts DEF ProbeInv, ProbeTypeOK, ClientIsAt
        <5>2. awaiting = 4 \/ awaiting = 5
          BY <4>3, <5>1
        <5> QED  BY <5>1, <5>2, OrderFacts DEF ProbeInv, ProbeTypeOK, Collects
      <4>5. CASE step = "observing"
        BY <4>5 DEF Collects
      <4> QED  BY <1>1, <4>4, <4>5 DEF Receives
    <3>2. heard' = IF line.event # 0 THEN Append(heard, line.event) ELSE heard
      BY <1>1, <1>7, <3>1
    <3> QED  BY <1>1, <2>5, <3>2, HearStep
  <2>6. NothingIsLost'
    BY <2>1, <2>2, <2>5 DEF NothingIsLost
  <2> QED  BY <1>2, <2>4, <2>6 DEF ProbeInv
<1> QED  BY <1>5, <1>6, <1>7

-----------------------------------------------------------------------------
LEMMA ProbeStep == ProbeInv /\ [ProbeNext]_probeVars => ProbeInv'
<1> SUFFICES ASSUME ProbeInv, [ProbeNext]_probeVars PROVE ProbeInv'
  OBVIOUS
<1>1. CASE StartChild  BY <1>1, StartChildStep
<1>2. CASE SendRequest  BY <1>2, RequestStep
<1>3. CASE Receive  BY <1>3, ReceiveStep
<1>4. CASE StreamEnds  BY <1>4, GiveUpStep DEF StreamEnds
<1>5. CASE Deadline  BY <1>5, DeadlineStep
<1>6. CASE CloseChild  BY <1>6, CloseChildStep
<1>7. CASE ServerSubscribes  BY <1>7, SubscribeStep
<1>8. CASE ServerAnswers  BY <1>8, AnswerStep
<1>9. CASE ServerSpeaks  BY <1>9, SpeakStep
<1>10. CASE ServerExits  BY <1>10, ExitStep
<1>11. CASE UNCHANGED probeVars
  BY <1>11, OrderKept DEF probeVars, ProbeInv, ProbeTypeOK, ClientIsAt, ClientOwes, ServerTells,
     InOrder, NothingIsLost, HeardIsPrefix, RestIsQueued
<1> QED  BY <1>1, <1>2, <1>3, <1>4, <1>5, <1>6, <1>7, <1>8, <1>9, <1>10, <1>11 DEF ProbeNext

LEMMA ProbeStart == ProbeInit => ProbeInv
<1> SUFFICES ASSUME ProbeInit PROVE ProbeInv
  OBVIOUS
<1>1. heard = <<>> /\ sent = <<>> /\ inbox = <<>> /\ spoken = <<>>
      /\ Len(heard) = 0 /\ Len(sent) = 0 /\ Len(inbox) = 0 /\ Len(spoken) = 0
  BY DEF ProbeInit
<1>2. ProbeTypeOK
  <2>1. heard \in Seq(1..MaxLines) /\ sent \in Seq(Methods) /\ inbox \in Seq(Line)
        /\ spoken \in Seq(1..MaxLines)
    BY <1>1
  <2>2. 0 \in 0..MaxId /\ 0 \in 0..MaxLines /\ 0 \in 0..Len(sent) /\ Len(sent) <= MaxId
    BY <1>1, ProbeAssumption DEF MaxId
  <2> QED  BY <2>1, <2>2 DEF ProbeInit, ProbeTypeOK
<1>3. ClientIsAt
  <2>1. Len(Order) \in Nat
    BY OrderFacts DEF ProbeInit
  <2> QED  BY <1>1, <2>1 DEF ProbeInit, ClientIsAt, Methods
<1>4. ClientOwes /\ ServerTells /\ InOrder /\ NothingIsLost
  BY <1>1 DEF ProbeInit, ClientOwes, ServerTells, InOrder, NothingIsLost, HeardIsPrefix,
     RestIsQueued
<1> QED  BY <1>2, <1>3, <1>4 DEF ProbeInv

LEMMA ProbeInvariant == ProbeInit /\ [][ProbeNext]_probeVars => []ProbeInv
BY ProbeStart, ProbeStep, PTL

\* Every variable of the client, its app-server and the queue between them keeps
\* its type.
THEOREM ProbeTypeCorrect == ProbeSpec => []ProbeTypeOK
<1>1. ProbeInv => ProbeTypeOK
  BY DEF ProbeInv
<1> QED  BY <1>1, ProbeInvariant, PTL DEF ProbeSpec

\* A probe that succeeds has heard every event the server sent of the thread,
\* once and in order, however many there were and whenever they came.
THEOREM ProbeIsComplete == ProbeSpec => []EventsAreComplete
<1>1. ProbeInv => EventsAreComplete
  BY DEF ProbeInv, NothingIsLost, EventsAreComplete
<1> QED  BY <1>1, ProbeInvariant, PTL DEF ProbeSpec

\* However a probe ends, its app-server has ended, and a subscription the client
\* knew of was given up first.
THEOREM ProbeLeavesNothing == ProbeSpec => []LeavesNothingBehind
<1>1. ProbeInv => LeavesNothingBehind
  <2>1. SUFFICES ASSUME ProbeInv, step = "closing", resumed, child = "running"
                 PROVE  sent[Len(sent)] = "thread/unsubscribe"
    BY DEF ProbeInv, ClientOwes, LeavesNothingBehind
  <2>2. Len(sent) = 5
    BY <2>1 DEF ProbeInv, ClientOwes
  <2>3. Len(sent) <= Len(Order) /\ \A i \in 1..Len(sent) : sent[i] = Order[i]
    BY <2>1 DEF ProbeInv, ClientIsAt
  <2>4. job \in {"none", "probe", "metadata", "limits"}
    BY <2>1 DEF ProbeInv, ProbeTypeOK
  <2>5. Len(Order) \in 0..5 /\ \A i \in 1..Len(Order) : Order[i] = "thread/unsubscribe" <=> i = 5
    BY <2>4, OrderFacts
  <2>6. 5 \in 1..Len(sent) /\ 5 \in 1..Len(Order)
    BY <2>2, <2>3, <2>5
  <2> QED  BY <2>2, <2>3, <2>5, <2>6
<1> QED  BY <1>1, ProbeInvariant, PTL DEF ProbeSpec

-----------------------------------------------------------------------------
(* Diagnosis: a diagnosis rests on current observations of one session, and a *)
(* recovery is justified.                                                     *)

Ended == {"zombie", "dead", "missing", "session_ended"}

\* A presence row is written by the one command that runs, with the time at
\* which it began, so that none is newer than the one it is about to add.
NoNewerPresence ==
    \A r \in evidence : r.what.source = "workspace" =>
       r.at <= moment /\ (inspection.phase # "idle" => r.at <= inspection.at)

\* What a command has listed was there when it listed it.
ListedPresence ==
    /\ inspection.phase # "idle" => inspection.at <= moment
    /\ \A r \in inspection.listed : r.what.source = "workspace" => r.at <= inspection.at

\* What a diagnosis d promises to whoever reads it.
Rests(d) ==
    \A r \in d.cited :
       /\ r.session \in {None, d.session}
       /\ \A q \in Eligible(d.listed, d.session) :
             q.what.source = r.what.source /\ q.what.kind = r.what.kind => q.at <= r.at

Justifies(d) ==
    /\ d.verdict.cause \in {"codex_closed", "codex_crashed"} =>
          \E r \in d.cited : r.what.state \in Ended
    /\ \A r \in d.cited : d.until <= Expires(r)
    /\ d.verdict.cause \in {"codex_closed", "codex_crashed"} /\ d.session # None =>
          OfKind(Current(d.listed, d.session), "account_limit", UsageLimitStates) = {}

\* The inductive invariant.
DiagnosisInv == /\ DiagnosisTypeOK /\ NoNewerPresence /\ ListedPresence
                /\ Rests(diagnosis) /\ Justifies(diagnosis)

-----------------------------------------------------------------------------
\* Least numbers exist.
LEMMA LeastMember ==
    ASSUME NEW S, S \subseteq Nat, S # {}
    PROVE  \E x \in S : \A y \in S : x <= y
<1>1. PICK x \in S : \A y \in S : ~(<<y, x>> \in OpToRel(<, Nat))
  BY NatLessThanWellFounded, WFMin
<1>2. ASSUME NEW y \in S PROVE x <= y
  <2>1. ~(y < x)
    BY <1>1 DEF OpToRel
  <2> QED  BY <2>1
<1> QED  BY <1>2

\* Of two sessions, a set with no more than one member has at most one.
LEMMA OneSession ==
    ASSUME NEW S, S \subseteq Sessions, ~(Cardinality(S) > 1)
    PROVE  \A x, y \in S : x = y
<1> SUFFICES ASSUME NEW x \in S, NEW y \in S, x # y PROVE FALSE
  OBVIOUS
<1>1. S = {"s1"} \cup {"s2"}
  BY DEF Sessions
<1>2. IsFiniteSet({"s1"}) /\ Cardinality({"s1"}) = 1 /\ "s2" \notin {"s1"}
  BY FS_Singleton
<1>3. Cardinality({"s1"} \cup {"s2"}) = Cardinality({"s1"}) + 1
  BY <1>2, FS_AddElement
<1>4. Cardinality(S) = 2
  BY <1>1, <1>2, <1>3
<1> QED  BY <1>4

-----------------------------------------------------------------------------
(* The rows.                                                                  *)

LEMMA SightingSource ==
    \A what \in Catalogue : /\ what.source # "workspace" /\ what.ttl \in Nat
                            /\ what.kind # "workspace_state"
BY DiagnosisAssumption DEF Catalogue, HookEvidence, LinuxEvidence, ProcessEvidence,
   PowerEvidence, NetworkEvidence, ServiceEvidence, LimitEvidence, Of

LEMMA PresenceRow ==
    ASSUME NEW o \in BOOLEAN
    PROVE  /\ Presence(o) \in {Presence(TRUE), Presence(FALSE)}
           /\ Presence(o).source = "workspace" /\ Presence(o).kind = "workspace_state"
           /\ Presence(o).ttl \in Nat
           /\ Presence(o).state = IF o THEN "presence_threshold_exceeded"
                                  ELSE "presence_within_threshold"
BY DiagnosisAssumption DEF Presence

LEMMA RowFields ==
    ASSUME NEW r \in Rows
    PROVE  /\ r.what \in Catalogue \cup {Presence(TRUE), Presence(FALSE)}
           /\ r.session \in Sessions \cup {None}
           /\ r.at \in 0..MaxMoment /\ r.at \in Nat /\ r.what.ttl \in Nat
           /\ Expires(r) \in Nat
<1>1. /\ r.what \in Catalogue \cup {Presence(TRUE), Presence(FALSE)}
      /\ r.session \in Sessions \cup {None} /\ r.at \in 0..MaxMoment
  BY DEF Rows
<1>2. r.at \in Nat
  BY <1>1, DiagnosisAssumption
<1>3. r.what.ttl \in Nat
  BY <1>1, SightingSource, PresenceRow
<1>4. Expires(r) \in Nat
  BY <1>2, <1>3 DEF Expires
<1> QED  BY <1>1, <1>2, <1>3, <1>4

LEMMA RowType ==
    ASSUME NEW what \in Catalogue \cup {Presence(TRUE), Presence(FALSE)},
           NEW s \in Sessions \cup {None}, NEW at \in 0..MaxMoment
    PROVE  /\ Row(what, s, at) \in Rows
           /\ Row(what, s, at).what = what /\ Row(what, s, at).session = s
           /\ Row(what, s, at).at = at
BY DEF Row, Rows

\* The end of the validity of what is cited is the least of the ends.
LEMMA UntilIsLeast ==
    ASSUME NEW cited, cited \subseteq Rows, cited # {}
    PROVE  Until(cited) \in Nat /\ \A r \in cited : Until(cited) <= Expires(r)
<1> DEFINE ends == {Expires(r) : r \in cited}
<1>1. ends \subseteq Nat /\ ends # {}
  BY RowFields
<1>2. \E t \in ends : \A u \in ends : t <= u
  BY <1>1, LeastMember
<1>3. \E t \in ends : \A r \in cited : t <= Expires(r)
  BY <1>2
<1>4. Until(cited) \in ends /\ \A r \in cited : Until(cited) <= Expires(r)
  BY <1>3 DEF Until, ValidUntil
<1> QED  BY <1>1, <1>4

-----------------------------------------------------------------------------
(* assess_diagnosis.                                                          *)

LEMMA SupportingIsListed ==
    ASSUME NEW records, NEW i \in 1..14
    PROVE  Supporting(records)[i] \subseteq records
<1>1. \A k, states : OfKind(records, k, states) \subseteq records
  BY DEF OfKind, InStates
<1>2. \A states : InStates(records, states) \subseteq records
  BY DEF InStates
<1>3. /\ i = 1 \/ i = 2 \/ i = 3 \/ i = 4 \/ i = 5 \/ i = 6 \/ i = 7 \/ i = 8
         \/ i = 9 \/ i = 10 \/ i = 11 \/ i = 12 \/ i = 13 \/ i = 14
  OBVIOUS
<1> QED  BY <1>1, <1>2, <1>3 DEF Supporting

VerdictSet == {Working, Unexplained} \cup {Verdicts[i] : i \in DOMAIN Verdicts}

LEMMA VerdictTypes ==
    /\ Working \in VerdictSet /\ Unexplained \in VerdictSet
    /\ Working.cause = "working" /\ Unexplained.cause = "unexplained_inactivity"
    /\ \A i \in DOMAIN Verdicts : Verdicts[i] \in VerdictSet
BY DEF Working, Unexplained, VerdictSet

\* What is cited is among the records. A session that ended or crashed is found
\* only on a record that says so, and only when no usage limit is on record.
LEMMA AssessFinds ==
    ASSUME NEW records, NEW overdue \in BOOLEAN
    PROVE  /\ Assess(records, overdue).cited \subseteq records
           /\ Assess(records, overdue).verdict \in VerdictSet
           /\ Assess(records, overdue).verdict.cause \in {"codex_closed", "codex_crashed"}
                 => /\ \E r \in Assess(records, overdue).cited : r.what.state \in Ended
                    /\ OfKind(records, "account_limit", UsageLimitStates) = {}
           /\ \A r \in records :
                 r.what.state = (IF overdue THEN "presence_threshold_exceeded"
                                 ELSE "presence_within_threshold")
                    => r \in Assess(records, overdue).cited
<1> DEFINE supported == {i \in DOMAIN Verdicts : Supporting(records)[i] # {}}
           first == CHOOSE i \in supported : \A j \in supported : i <= j
<1>1. DOMAIN Verdicts = 1..14
  BY DEF Verdicts
<1>2. InStates(records, {"presence_within_threshold"}) \subseteq records
      /\ Thresholds(records) \subseteq records
  BY DEF InStates, Thresholds
<1>3. CASE ~overdue
  <2>1. /\ Assess(records, overdue).verdict = Working
        /\ Assess(records, overdue).cited = InStates(records, {"presence_within_threshold"})
    BY <1>3 DEF Assess
  <2>2. \A r \in records : r.what.state = "presence_within_threshold" =>
            r \in InStates(records, {"presence_within_threshold"})
    BY DEF InStates
  <2> QED  BY <1>2, <1>3, <2>1, <2>2, VerdictTypes
<1>4. CASE overdue /\ supported = {}
  <2>1. /\ Assess(records, overdue).verdict = Unexplained
        /\ Assess(records, overdue).cited =
              IF Thresholds(records) # {} THEN Thresholds(records) ELSE records
    BY <1>4 DEF Assess
  <2>2. \A r \in records : r.what.state = "presence_threshold_exceeded" =>
            r \in Thresholds(records)
    BY DEF Thresholds, InStates
  <2> QED  BY <1>2, <1>4, <2>1, <2>2, VerdictTypes
<1>5. CASE overdue /\ supported # {}
  <2>1. /\ Assess(records, overdue).verdict = Verdicts[first]
        /\ Assess(records, overdue).cited =
              Supporting(records)[first] \cup Thresholds(records)
    BY <1>5 DEF Assess
  <2>2. \E i \in supported : \A j \in supported : i <= j
    <3>1. supported \subseteq Nat  BY <1>1
    <3> HIDE DEF supported
    <3> QED  BY <1>5, <3>1, LeastMember
  <2>3. first \in supported /\ \A j \in supported : first <= j
    BY <2>2
  <2>4. first \in 1..14 /\ Supporting(records)[first] # {}
    BY <1>1, <2>3
  <2> HIDE DEF first, supported
  <2>5. Verdicts[first] \in VerdictSet
    BY <1>1, <2>4, VerdictTypes
  <2>6. Supporting(records)[first] \subseteq records
    BY <2>4, SupportingIsListed
  <2>7. ASSUME Verdicts[first].cause \in {"codex_closed", "codex_crashed"}
        PROVE  /\ \E r \in Supporting(records)[first] : r.what.state \in Ended
               /\ OfKind(records, "account_limit", UsageLimitStates) = {}
    <3>1. first = 5 \/ first = 6
      BY <2>4, <2>7 DEF Verdicts
    <3>2. ~(1 \in supported)
      BY <2>3, <3>1
    <3>3. Supporting(records)[1] = OfKind(records, "account_limit", UsageLimitStates)
      BY DEF Supporting
    <3>4. OfKind(records, "account_limit", UsageLimitStates) = {}
      BY <1>1, <3>2, <3>3 DEF supported
    <3>5. /\ Supporting(records)[5] = OfKind(records, "process_state", {"zombie"})
          /\ Supporting(records)[6] = OfKind(records, "process_state", {"dead", "missing"})
                \cup OfKind(records, "thread_status", {"session_ended"})
      BY DEF Supporting
    <3>6. \E r \in Supporting(records)[first] : r.what.state \in Ended
      BY <2>4, <3>1, <3>5 DEF OfKind, InStates, Ended
    <3> QED  BY <3>4, <3>6
  <2>8. \A r \in records : r.what.state = "presence_threshold_exceeded" =>
            r \in Thresholds(records)
    BY DEF Thresholds, InStates
  <2> QED  BY <1>2, <1>5, <2>1, <2>5, <2>6, <2>7, <2>8
<1> QED  BY <1>3, <1>4, <1>5

-----------------------------------------------------------------------------
(* select_current_evidence, twice: of what was listed, and again with the     *)
(* presence of the worker. The session is the selected one, or none when no   *)
(* current record names one.                                                  *)

LEMMA EligibleOfFewer ==
    ASSUME NEW records, NEW selected, NEW session \in {selected, None}
    PROVE  Eligible(records, session) \subseteq Eligible(records, selected)
BY DEF Eligible

Reselected(listed, selected, session, presence) ==
    Current(Current(listed, selected) \cup {presence}, session)

IsPresenceOf(presence, session, listed) ==
    /\ presence.session = session /\ presence.at \in Nat
    /\ presence.what.source = "workspace" /\ presence.what.kind = "workspace_state"
    /\ \A r \in listed : r.what.source = "workspace" => r.at <= presence.at

\* What the second selection keeps of the first.
KeepsCurrent(again, listed, selected, session, presence) ==
    /\ presence \in again
    /\ again \subseteq Current(listed, selected) \cup {presence}
    /\ \A r \in again :
          /\ r.session \in {None, session}
          /\ \A q \in Eligible(listed, session) :
                q.what.source = r.what.source /\ q.what.kind = r.what.kind
                   => q.at <= r.at
    /\ session # None =>
          \A r \in Current(listed, session) :
             r.what.kind = "account_limit" => r \in again

LEMMA SelectedTwice ==
    ASSUME NEW listed, NEW selected, NEW session, session \in {selected, None},
           NEW presence, IsPresenceOf(presence, session, listed)
    PROVE  KeepsCurrent(Reselected(listed, selected, session, presence), listed,
                        selected, session, presence)
<1> USE DEF IsPresenceOf
<1> DEFINE current == Current(listed, selected)
           again == Current(current \cup {presence}, session)
<1>1. current \subseteq listed
  BY DEF Current, Eligible
<1>2. again \subseteq current \cup {presence}
  BY DEF Current, Eligible
<1>3. presence \in again
  <2>1. presence \in Eligible(current \cup {presence}, session)
    BY DEF Eligible
  <2>2. \A q \in Eligible(current \cup {presence}, session) :
           q.what.source = "workspace" => q.at <= presence.at
    BY <1>1 DEF Eligible
  <2> QED  BY <2>1, <2>2 DEF Current
<1>4. ASSUME NEW r \in again
      PROVE  /\ r.session \in {None, session}
             /\ \A q \in Eligible(listed, session) :
                   q.what.source = r.what.source /\ q.what.kind = r.what.kind
                      => q.at <= r.at
  <2>1. r.session \in {None, session}
    BY DEF Current, Eligible
  <2>2. CASE r = presence
    BY <2>1, <2>2 DEF Eligible
  <2>3. CASE r \in current
    <3>1. Eligible(listed, session) \subseteq Eligible(listed, selected)
      BY EligibleOfFewer
    <3> QED  BY <2>1, <2>3, <3>1 DEF Current
  <2> QED  BY <1>2, <2>2, <2>3
<1>5. ASSUME session # None, NEW r \in Current(listed, session),
             r.what.kind = "account_limit"
      PROVE  r \in again
  <2>1. session = selected /\ r \in current
    BY <1>5
  <2>2. r \in Eligible(current \cup {presence}, session)
    BY <1>5, <2>1 DEF Current, Eligible
  <2>3. ASSUME NEW q \in Eligible(current \cup {presence}, session),
               q.what.source = r.what.source, q.what.kind = r.what.kind
        PROVE  q.at <= r.at
    <3>1. q # presence  BY <1>5, <2>3
    <3>2. q \in Eligible(listed, session)  BY <1>1, <3>1 DEF Eligible
    <3> QED  BY <1>5, <2>3, <3>2 DEF Current
  <2> QED  BY <2>2, <2>3 DEF Current
<1> QED  BY <1>2, <1>3, <1>4, <1>5 DEF KeepsCurrent, Reselected

\* Whose evidence it is.
LEMMA SelectedSession ==
    ASSUME DiagnosisTypeOK, ~(Cardinality(Selected) > 1),
           NEW session, session = IF inspection.session # None THEN inspection.session
                ELSE The(SessionsOf(Current(inspection.listed, The(Selected))))
    PROVE  session \in Sessions \cup {None} /\ session \in {The(Selected), None}
<1>1. \A r \in inspection.listed : r.session \in Sessions \cup {None}
  BY RowFields DEF DiagnosisTypeOK, Inspections
<1>2. inspection.session \in Sessions \cup {None}
  BY DEF DiagnosisTypeOK, Inspections
<1>3. Selected \subseteq Sessions
  BY <1>1, <1>2 DEF Selected, SessionsOf
<1>4. \A x, y \in Selected : x = y
  BY <1>3, OneSession
<1>5. \A x \in Selected : The(Selected) = x
  BY <1>4 DEF The
<1>6. CASE inspection.session # None
  <2>1. inspection.session \in Selected  BY <1>6 DEF Selected
  <2> QED  BY <1>2, <1>5, <1>6, <2>1
<1>7. CASE inspection.session = None
  <2> DEFINE found == SessionsOf(Current(inspection.listed, The(Selected)))
  <2>1. found \subseteq Selected
    BY <1>7 DEF Selected, SessionsOf, Current, Eligible
  <2>2. session = The(found)
    BY <1>7
  <2> HIDE DEF found
  <2>3. CASE found = {}
    BY <2>2, <2>3 DEF The
  <2>4. CASE found # {}
    <3>1. The(found) \in found  BY <2>4 DEF The
    <3> QED  BY <1>3, <1>5, <2>1, <2>2, <3>1
  <2> QED  BY <2>3, <2>4
<1> QED  BY <1>6, <1>7

\* The diagnosis that is recorded.
LEMMA RecordStep ==
    ASSUME DiagnosisInv, RecordDiagnosis
    PROVE  DiagnosisInv'
<1>1. DiagnosisTypeOK /\ NoNewerPresence /\ ListedPresence
  BY DEF DiagnosisInv
<1>2. /\ inspection' = NoInspection /\ inspection.phase = "assess"
      /\ UNCHANGED <<moment, signalled, recovered, diagnoses>>
  BY DEF RecordDiagnosis
<1>3. /\ NoInspection.phase = "idle" /\ NoInspection.listed = {}
      /\ NoInspection.at = 0 /\ NoInspection \in Inspections
  <2>1. 0 \in 0..MaxMoment  BY DiagnosisAssumption
  <2> QED  BY <2>1 DEF NoInspection, Inspections
<1>4. 0 \in 0..MaxMoment /\ inspection.at \in 0..MaxMoment /\ inspection.at \in Nat
      /\ inspection.at <= moment /\ inspection.overdue \in BOOLEAN
      /\ inspection.listed \subseteq Rows
  BY <1>1, <1>2, DiagnosisAssumption DEF DiagnosisTypeOK, Inspections, ListedPresence
<1>5. CASE UNCHANGED <<evidence, diagnosis>>
  <2>1. DiagnosisTypeOK'
    BY <1>1, <1>2, <1>3, <1>4, <1>5 DEF DiagnosisTypeOK
  <2>2. NoNewerPresence' /\ ListedPresence'
    BY <1>1, <1>2, <1>3, <1>5 DEF NoNewerPresence, ListedPresence
  <2>3. Rests(diagnosis') /\ Justifies(diagnosis')
    BY <1>5 DEF DiagnosisInv
  <2> QED  BY <2>1, <2>2, <2>3 DEF DiagnosisInv, Rests, Justifies
<1>6. CASE ~(Cardinality(Selected) > 1)
  <2> DEFINE current  == Current(inspection.listed, The(Selected))
             session  == IF inspection.session # None THEN inspection.session
                         ELSE The(SessionsOf(current))
             presence == Row(Presence(inspection.overdue), session, inspection.at)
             again    == Current(current \cup {presence}, session)
             found    == Assess(again, inspection.overdue)
             made     == [verdict |-> found.verdict, session |-> session,
                          at |-> inspection.at, until |-> Until(found.cited),
                          cited |-> found.cited, listed |-> inspection.listed]
  <2>1. evidence' = evidence \cup {presence} /\ diagnosis' = made
    BY <1>6 DEF RecordDiagnosis
  <2>2. session \in Sessions \cup {None} /\ session \in {The(Selected), None}
    BY <1>1, <1>6, SelectedSession
  <2>3. /\ presence \in Rows /\ presence.session = session /\ presence.at = inspection.at
        /\ presence.what = Presence(inspection.overdue)
    <3> DEFINE what == Presence(inspection.overdue)
    <3>1. what \in Catalogue \cup {Presence(TRUE), Presence(FALSE)}
      BY <1>4, PresenceRow
    <3> HIDE DEF session, what
    <3>2. /\ Row(what, session, inspection.at) \in Rows
          /\ Row(what, session, inspection.at).session = session
          /\ Row(what, session, inspection.at).at = inspection.at
          /\ Row(what, session, inspection.at).what = what
      BY <1>4, <2>2, <3>1 DEF Row, Rows
    <3> QED  BY <3>2 DEF what
  <2>4. /\ presence.what.source = "workspace" /\ presence.what.kind = "workspace_state"
        /\ presence.what.state = IF inspection.overdue THEN "presence_threshold_exceeded"
                                 ELSE "presence_within_threshold"
    <3> HIDE DEF presence
    <3> QED  BY <1>4, <2>3, PresenceRow
  <2>5. \A r \in inspection.listed : r.what.source = "workspace" => r.at <= inspection.at
    BY <1>1 DEF ListedPresence
  <2> HIDE DEF presence, session
  <2>6. /\ presence \in again /\ again \subseteq current \cup {presence}
        /\ \A r \in again :
              /\ r.session \in {None, session}
              /\ \A q \in Eligible(inspection.listed, session) :
                    q.what.source = r.what.source /\ q.what.kind = r.what.kind
                       => q.at <= r.at
        /\ session # None =>
              \A r \in Current(inspection.listed, session) :
                 r.what.kind = "account_limit" => r \in again
    <3>1. IsPresenceOf(presence, session, inspection.listed)
      BY <1>4, <2>3, <2>4, <2>5 DEF IsPresenceOf
    <3>2. KeepsCurrent(Reselected(inspection.listed, The(Selected), session, presence),
                       inspection.listed, The(Selected), session, presence)
      BY <2>2, <3>1, SelectedTwice
    <3> QED  BY <3>2 DEF KeepsCurrent, Reselected
  <2>7. current \subseteq Rows
    BY <1>4 DEF Current, Eligible
  <2> HIDE DEF current, again
  <2>8. /\ found.cited \subseteq again /\ found.verdict \in VerdictSet
        /\ found.verdict.cause \in {"codex_closed", "codex_crashed"}
              => /\ \E r \in found.cited : r.what.state \in Ended
                 /\ OfKind(again, "account_limit", UsageLimitStates) = {}
        /\ presence \in found.cited
    BY <1>4, <2>4, <2>6, AssessFinds
  <2> HIDE DEF found
  <2>9. found.cited \subseteq Rows
    BY <2>3, <2>6, <2>7, <2>8
  <2>10. Until(found.cited) \in Nat /\ \A r \in found.cited : Until(found.cited) <= Expires(r)
    BY <2>8, <2>9, UntilIsLeast
  <2>11. /\ made.verdict = found.verdict /\ made.session = session
         /\ made.until = Until(found.cited) /\ made.cited = found.cited
         /\ made.listed = inspection.listed
    OBVIOUS
  <2> HIDE DEF made
  <2>12. Rests(made)
    BY <2>6, <2>8, <2>11 DEF Rests
  <2>13. Justifies(made)
    <3>1. ASSUME found.verdict.cause \in {"codex_closed", "codex_crashed"}, session # None
          PROVE  OfKind(Current(inspection.listed, session), "account_limit",
                        UsageLimitStates) = {}
      <4>1. OfKind(again, "account_limit", UsageLimitStates) = {}
        BY <2>8, <3>1
      <4> QED  BY <2>6, <3>1, <4>1 DEF OfKind, InStates
    <3> QED  BY <2>8, <2>10, <2>11, <3>1 DEF Justifies
  <2>14. DiagnosisTypeOK'
    BY <1>1, <1>2, <1>3, <1>4, <2>1, <2>2, <2>3, <2>8, <2>9, <2>10, <2>11
       DEF DiagnosisTypeOK, VerdictSet
  <2>15. NoNewerPresence' /\ ListedPresence'
    BY <1>1, <1>2, <1>3, <1>4, <2>1, <2>3 DEF NoNewerPresence, ListedPresence
  <2>16. Rests(diagnosis') /\ Justifies(diagnosis')
    BY <2>1, <2>12, <2>13
  <2> QED  BY <2>14, <2>15, <2>16 DEF DiagnosisInv, Rests, Justifies
<1> QED  BY <1>5, <1>6 DEF RecordDiagnosis

-----------------------------------------------------------------------------
\* The steps that record no diagnosis.
LEMMA EvidenceStep ==
    ASSUME DiagnosisInv, RecordHook \/ RecordLimits \/ RecordLinux
    PROVE  DiagnosisInv'
<1>1. DiagnosisTypeOK /\ NoNewerPresence /\ ListedPresence
  BY DEF DiagnosisInv
<1>2. PICK s \in Sightings, at \in Lately \cup {moment} : Record(s, at)
  BY DEF RecordHook, RecordLimits, RecordLinux
<1>3. /\ evidence' = evidence \cup {Row(s[1], s[2], at)}
      /\ UNCHANGED <<moment, signalled, inspection, diagnosis, recovered, diagnoses>>
  BY <1>2 DEF Record
<1>4. at \in 0..MaxMoment
  BY <1>1, DiagnosisAssumption DEF Lately, DiagnosisTypeOK
<1>5. s[1] \in Catalogue /\ s[2] \in Sessions \cup {None}
  BY DiagnosisAssumption
<1>6. Row(s[1], s[2], at) \in Rows /\ Row(s[1], s[2], at).what.source # "workspace"
  <2>1. s[1].source # "workspace"  BY <1>5, SightingSource
  <2> QED  BY <1>4, <1>5, <2>1 DEF Row, Rows
<1>7. DiagnosisTypeOK'
  BY <1>1, <1>3, <1>6 DEF DiagnosisTypeOK
<1>8. NoNewerPresence' /\ ListedPresence'
  BY <1>1, <1>3, <1>6 DEF NoNewerPresence, ListedPresence
<1> QED  BY <1>3, <1>7, <1>8 DEF DiagnosisInv, Rests, Justifies

LEMMA OtherStep ==
    ASSUME DiagnosisInv,
           TimeGoesOn \/ WorkerSignals \/ (\E s \in Sessions \cup {None} : ReadWorker(s))
             \/ ListEvidence \/ AllowRecovery \/ UNCHANGED diagnosisVars
    PROVE  DiagnosisInv'
<1>1. DiagnosisTypeOK /\ NoNewerPresence /\ ListedPresence
  BY DEF DiagnosisInv
<1>2. UNCHANGED <<evidence, diagnosis>>
  BY DEF TimeGoesOn, WorkerSignals, ReadWorker, ListEvidence, AllowRecovery, diagnosisVars
<1>3. moment \in Nat /\ MaxMoment \in Nat /\ MaxDiagnoses \in Nat
      /\ diagnoses \in 0..MaxDiagnoses /\ inspection.at \in Nat
  BY <1>1, DiagnosisAssumption DEF DiagnosisTypeOK, Inspections
<1>4. ASSUME NEW r \in evidence
      PROVE  r.at \in Nat
  BY <1>1, <1>4, RowFields DEF DiagnosisTypeOK
<1>5. DiagnosisTypeOK' /\ NoNewerPresence' /\ ListedPresence'
  <2>1. CASE TimeGoesOn
    <3>1. moment' = moment + 1 /\ moment < MaxMoment
          /\ UNCHANGED <<signalled, inspection, diagnoses>>
      BY <2>1 DEF TimeGoesOn
    <3>2. DiagnosisTypeOK'  BY <1>1, <1>2, <1>3, <3>1 DEF DiagnosisTypeOK
    <3>3. NoNewerPresence'  BY <1>1, <1>2, <1>3, <1>4, <3>1 DEF NoNewerPresence
    <3>4. ListedPresence'  BY <1>1, <1>3, <3>1 DEF ListedPresence
    <3> QED  BY <3>2, <3>3, <3>4
  <2>2. CASE WorkerSignals
    <3>1. signalled' = moment /\ UNCHANGED <<moment, inspection, diagnoses>>
      BY <2>2 DEF WorkerSignals
    <3> QED
      BY <1>1, <1>2, <3>1 DEF DiagnosisTypeOK, NoNewerPresence, ListedPresence
  <2>3. ASSUME NEW s \in Sessions \cup {None}, ReadWorker(s)
        PROVE  DiagnosisTypeOK' /\ NoNewerPresence' /\ ListedPresence'
    <3>1. /\ inspection'.phase = "list" /\ inspection'.at = moment
          /\ inspection'.session = s /\ inspection'.listed = {}
          /\ inspection'.overdue = (moment - signalled >= Overdue)
          /\ diagnoses' = diagnoses + 1 /\ diagnoses < MaxDiagnoses
          /\ UNCHANGED <<moment, signalled>>
      BY <2>3 DEF ReadWorker
    <3>2. inspection' \in Inspections
      <4>1. (moment - signalled >= Overdue) \in BOOLEAN  OBVIOUS
      <4>2. moment \in 0..MaxMoment  BY <1>1 DEF DiagnosisTypeOK
      <4> QED  BY <2>3, <4>1, <4>2 DEF ReadWorker, Inspections
    <3>3. DiagnosisTypeOK'
      BY <1>1, <1>2, <1>3, <3>1, <3>2 DEF DiagnosisTypeOK
    <3>4. NoNewerPresence' /\ ListedPresence'
      BY <1>1, <1>2, <1>3, <3>1 DEF NoNewerPresence, ListedPresence
    <3> QED  BY <3>3, <3>4
  <2>4. CASE ListEvidence
    <3>1. PICK listed \in SUBSET evidence :
            inspection' = [inspection EXCEPT !.phase = "assess", !.listed = listed]
      BY <2>4 DEF ListEvidence
    <3>2. inspection.phase = "list" /\ UNCHANGED <<moment, signalled, diagnoses>>
      BY <2>4 DEF ListEvidence
    <3>3. /\ inspection' \in Inspections
          /\ inspection'.at = inspection.at /\ inspection'.listed = listed
      BY <1>1, <3>1 DEF DiagnosisTypeOK, Inspections
    <3>4. DiagnosisTypeOK'
      BY <1>1, <1>2, <3>2, <3>3 DEF DiagnosisTypeOK
    <3>5. NoNewerPresence'
      BY <1>1, <1>2, <3>2, <3>3 DEF NoNewerPresence
    <3>6. ListedPresence'
      BY <1>1, <3>2, <3>3 DEF ListedPresence, NoNewerPresence
    <3> QED  BY <3>4, <3>5, <3>6
  <2>5. CASE AllowRecovery \/ UNCHANGED diagnosisVars
    <3>1. UNCHANGED <<moment, signalled, evidence, inspection, diagnosis, diagnoses>>
      BY <2>5 DEF AllowRecovery, diagnosisVars
    <3> QED  BY <1>1, <3>1 DEF DiagnosisTypeOK, NoNewerPresence, ListedPresence
  <2> QED  BY <2>1, <2>2, <2>3, <2>4, <2>5
<1> QED  BY <1>2, <1>5 DEF DiagnosisInv, Rests, Justifies

LEMMA DiagnosisInitInv == DiagnosisInit => DiagnosisInv
<1> SUFFICES ASSUME DiagnosisInit PROVE DiagnosisInv
  OBVIOUS
<1>1. 0 \in 0..MaxMoment /\ 0 \in 0..MaxDiagnoses
  BY DiagnosisAssumption
<1>2. DiagnosisTypeOK
  BY <1>1 DEF DiagnosisInit, DiagnosisTypeOK, Inspections, NoInspection, NoDiagnosis
<1>3. NoNewerPresence /\ ListedPresence
  BY DEF DiagnosisInit, NoNewerPresence, ListedPresence, NoInspection
<1>4. Rests(diagnosis) /\ Justifies(diagnosis)
  BY DEF DiagnosisInit, NoDiagnosis, Rests, Justifies, Working
<1> QED  BY <1>2, <1>3, <1>4 DEF DiagnosisInv

LEMMA DiagnosisStep == DiagnosisInv /\ [DiagnosisNext]_diagnosisVars => DiagnosisInv'
BY RecordStep, EvidenceStep, OtherStep DEF DiagnosisNext

LEMMA DiagnosisInvariant == DiagnosisSpec => []DiagnosisInv
BY DiagnosisInitInv, DiagnosisStep, PTL DEF DiagnosisSpec

-----------------------------------------------------------------------------
\* Every reachable state of the diagnosis is well typed; in particular every
\* diagnosis cites something, so that it has a time to which it is valid.
THEOREM DiagnosisTypeCorrect == DiagnosisSpec => []DiagnosisTypeOK
<1>1. DiagnosisInv => DiagnosisTypeOK
  BY DEF DiagnosisInv
<1> QED  BY <1>1, DiagnosisInvariant, PTL

\* What assess_diagnosis cites is of one session and current among what was
\* listed, though it is selected twice and evidence is recorded out of order.
THEOREM DiagnosisIsCurrent == DiagnosisSpec => []RestsOnCurrentEvidence
<1>1. DiagnosisInv => RestsOnCurrentEvidence
  BY DEF DiagnosisInv, Rests, RestsOnCurrentEvidence
<1> QED  BY <1>1, DiagnosisInvariant, PTL

\* A recovery is allowed on an observation that Codex ended, while all that was
\* cited is valid, and not when a usage limit was known.
THEOREM RecoveryIsAlwaysJustified == DiagnosisSpec => RecoveryIsJustified
<1> DEFINE Justified ==
      recovered' # recovered =>
        /\ \E r \in recovered'.cited :
              r.what.state \in {"zombie", "dead", "missing", "session_ended"}
        /\ \A r \in recovered'.cited : Expires(r) >= moment
        /\ OfKind(Current(recovered'.listed, recovered'.session),
                  "account_limit", UsageLimitStates) = {}
<1>1. DiagnosisInv /\ [DiagnosisNext]_diagnosisVars => [Justified]_diagnosisVars
  <2> SUFFICES ASSUME DiagnosisInv, DiagnosisNext, recovered' # recovered
               PROVE  Justified
    OBVIOUS
  <2>1. AllowRecovery
    BY DEF DiagnosisNext, TimeGoesOn, WorkerSignals, RecordHook, RecordLimits,
           RecordLinux, Record, ReadWorker, ListEvidence, RecordDiagnosis
  <2>2. recovered' = diagnosis /\ Recoverable(diagnosis) /\ Justifies(diagnosis)
    BY <2>1 DEF AllowRecovery, DiagnosisInv
  <2>3. /\ diagnosis.verdict.cause \in {"codex_closed", "codex_crashed"}
        /\ diagnosis.until >= moment /\ diagnosis.session # None
    BY <2>2 DEF Recoverable
  <2>4. ASSUME NEW r \in diagnosis.cited
        PROVE  Expires(r) >= moment
    <3>1. r \in Rows /\ diagnosis.until \in Nat /\ moment \in Nat
      BY DiagnosisAssumption DEF DiagnosisInv, DiagnosisTypeOK
    <3>2. Expires(r) \in Nat /\ diagnosis.until <= Expires(r)
      BY <2>2, <3>1, RowFields DEF Justifies
    <3> QED  BY <2>3, <3>1, <3>2
  <2> QED  BY <2>2, <2>3, <2>4 DEF Justifies, Ended
<1> QED  BY <1>1, DiagnosisInvariant, PTL DEF DiagnosisSpec, RecoveryIsJustified
===============================================================================
