--------------------------- MODULE AppServerProbe ---------------------------
(* probe_codex_app_server and read_codex_rate_limits: one client over the     *)
(* pipes of a codex app-server child of its own. The client has at most one   *)
(* request out and gives it up at its deadline; the server answers, notifies  *)
(* the subscribed thread, sends requests of its own (approvals), which it     *)
(* numbers itself, and may exit at any point. A reader thread queues its      *)
(* lines in their order.                                                      *)
EXTENDS Integers, Sequences

CONSTANTS MaxLines      \* bound on what the server sends besides its answers

ASSUME ProbeAssumption == MaxLines \in Nat

VARIABLES job,          \* "probe", "metadata" (no subscription) or "limits"
          step,         \* what the client does
          awaiting,     \* id of the request it waits for, or 0
          failing,      \* an exception is on its way out
          heard,        \* "events" of observe_thread
          sent,         \* the methods requested so far; an id is a place in it
          resumed,      \* the client has seen thread/resume succeed (history)
          child,        \* the app-server: "none", "running", "exited"
          unread,       \* id of the request the server has not handled, or 0
          inbox,        \* the queue of the reader thread
          subscribed,   \* the thread notifies this connection
          spoken,       \* events of the thread that the server sent (history)
          lines

probeVars == <<job, step, awaiting, failing, heard, sent, resumed,
               child, unread, inbox, subscribed, spoken, lines>>
server == <<child, unread, inbox, subscribed, spoken, lines>>

\* ALLOWED_REQUEST_METHODS.
Methods == {"initialize", "thread/read", "account/rateLimits/read",
            "thread/resume", "thread/unsubscribe"}
MaxId   == 5

\* An answer carries the id of its request, a request of the server an id of
\* the server's, a notification none. "event" is what sanitize_codex_message
\* makes of a line about the thread, 0 when it makes nothing of it.
Line == [id : 0..MaxId, kind : {"result", "error", "request", "notice", "garbage"},
         event : 0..MaxLines]

ProbeInit ==
    /\ job = "none" /\ step = "start" /\ awaiting = 0 /\ failing = FALSE
    /\ heard = <<>> /\ sent = <<>> /\ resumed = FALSE /\ child = "none" /\ unread = 0
    /\ inbox = <<>> /\ subscribed = FALSE /\ spoken = <<>> /\ lines = 0

-----------------------------------------------------------------------------
(* The client.                                                                *)

\* The constructor starts the child, or there is nothing to close.
StartChild ==
    /\ step = "start"
    /\ job' \in {"probe", "metadata", "limits"}
    /\ \/ child' = "running" /\ step' = "initialize"
       \/ child' = child /\ step' = "closed"
    /\ failing' = (child' = "none")
    /\ UNCHANGED <<awaiting, heard, sent, resumed, unread, inbox, subscribed, spoken,
                   lines>>

\* Where a step that succeeded leads.
NextStep ==
    CASE step = "initialize" ->
             IF job = "limits" THEN "account/rateLimits/read" ELSE "thread/read"
      [] step = "thread/read" -> "account/rateLimits/read"
      [] step = "account/rateLimits/read" ->
             IF job = "probe" THEN "thread/resume" ELSE "closing"
      [] step = "thread/resume" -> "observing"
      [] step = "observing"     -> "thread/unsubscribe"
      [] OTHER -> "closing"

\* Faulty variant: only a whole observation unsubscribes.
LeavesSubscribed == "closing"

\* An exception leaves through the finally of observe_thread, which
\* unsubscribes, and through that of the probe, which closes.
Finally == IF step = "observing" THEN "thread/unsubscribe" ELSE "closing"

Raise == step' = Finally /\ failing' = TRUE /\ awaiting' = 0

Succeed == step' = NextStep /\ awaiting' = 0 /\ failing' = failing

\* request_read_only writes the request, unless the child is seen to be gone.
SendRequest ==
    /\ step \in Methods /\ awaiting = 0
    /\ \/ /\ child = "running"
          /\ sent' = Append(sent, step) /\ awaiting' = Len(sent') /\ unread' = Len(sent')
          /\ UNCHANGED <<step, failing>>
       \/ /\ child = "exited"
          /\ Raise /\ UNCHANGED <<sent, unread>>
    /\ UNCHANGED <<job, heard, resumed, child, inbox, subscribed, spoken, lines>>

\* Faulty variant: only the observing loop keeps events.
CollectsWhileObserving == step = "observing"

\* The requests of observe_thread pass "events" on; the others pass none.
Collects == step \in {"thread/resume", "observing", "thread/unsubscribe"}

Receives == awaiting # 0 \/ step = "observing"

\* A line with the awaited id is the answer, whatever else it is: without an
\* object as result the request has failed. Any other line is an event or
\* nothing; what is no JSON object is an error.
Receive ==
    /\ Receives /\ inbox # <<>>
    /\ LET line   == Head(inbox)
           answer == awaiting # 0 /\ line.id = awaiting IN
       /\ heard' = IF ~answer /\ line.event # 0 /\ Collects
                   THEN Append(heard, line.event) ELSE heard
       /\ CASE line.kind = "garbage" -> Raise
            [] line.kind # "garbage" /\ answer ->
                 IF line.kind = "result" THEN Succeed ELSE Raise
            [] OTHER -> UNCHANGED <<step, awaiting, failing>>
       /\ resumed' = (resumed \/ (step = "thread/resume" /\ step' = "observing"))
    /\ inbox' = Tail(inbox)
    /\ UNCHANGED <<job, sent, child, unread, subscribed, spoken, lines>>

\* The end of the stream.
StreamEnds ==
    /\ Receives /\ inbox = <<>> /\ child = "exited"
    /\ Raise
    /\ UNCHANGED <<job, heard, sent, resumed, server>>

\* A request is given up; an observation is over.
Deadline ==
    /\ Receives
    /\ IF step = "observing" THEN Succeed ELSE Raise
    /\ UNCHANGED <<job, heard, sent, resumed, server>>

\* close: terminated, waited for, killed after two seconds.
CloseChild ==
    /\ step = "closing"
    /\ step' = "closed" /\ child' = "exited"
    /\ UNCHANGED <<job, awaiting, failing, heard, sent, resumed, unread, inbox,
                   subscribed, spoken, lines>>

-----------------------------------------------------------------------------
(* The server.                                                                *)

Says(line) == inbox' = Append(inbox, line)

\* Resuming a thread subscribes the connection, before or with the answer.
ServerSubscribes ==
    /\ child = "running" /\ unread # 0
    /\ sent[unread] = "thread/resume" /\ ~subscribed
    /\ subscribed' = TRUE
    /\ UNCHANGED <<job, step, awaiting, failing, heard, sent, resumed, child, unread,
                   inbox, spoken, lines>>

ServerAnswers ==
    /\ child = "running" /\ unread # 0
    /\ \E kind \in {"result", "error"} :
          /\ kind = "result" /\ sent[unread] = "thread/resume" => subscribed
          /\ Says([id |-> unread, kind |-> kind, event |-> 0])
          /\ subscribed' = (subscribed /\ ~(kind = "result" /\ sent[unread] = "thread/unsubscribe"))
    /\ unread' = 0
    /\ UNCHANGED <<job, step, awaiting, failing, heard, sent, resumed, child, spoken,
                   lines>>

\* An event of the thread, as a notification or as a request of the server's
\* own, something of no interest, or a line that is no JSON object.
ServerSpeaks ==
    /\ child = "running" /\ lines < MaxLines
    /\ lines' = lines + 1
    /\ \E kind \in {"request", "notice", "garbage"}, id \in 0..MaxId, own \in BOOLEAN :
          /\ kind = "request" <=> id # 0
          /\ own => subscribed /\ kind # "garbage"
          /\ Says([id |-> id, kind |-> kind, event |-> IF own THEN lines + 1 ELSE 0])
          /\ spoken' = IF own THEN Append(spoken, lines + 1) ELSE spoken
    /\ UNCHANGED <<job, step, awaiting, failing, heard, sent, resumed, child, unread,
                   subscribed>>

ServerExits ==
    /\ child = "running"
    /\ child' = "exited"
    /\ UNCHANGED <<job, step, awaiting, failing, heard, sent, resumed, unread, inbox,
                   subscribed, spoken, lines>>

ProbeNext ==
    \/ StartChild \/ SendRequest \/ Receive \/ StreamEnds \/ Deadline \/ CloseChild
    \/ ServerSubscribes \/ ServerAnswers \/ ServerSpeaks \/ ServerExits

ProbeSpec == ProbeInit /\ [][ProbeNext]_probeVars

-----------------------------------------------------------------------------
ProbeTypeOK ==
    /\ job \in {"none", "probe", "metadata", "limits"}
    /\ step \in Methods \cup {"start", "observing", "closing", "closed"}
    /\ awaiting \in 0..MaxId /\ failing \in BOOLEAN
    /\ resumed \in BOOLEAN /\ heard \in Seq(1..MaxLines)
    /\ sent \in Seq(Methods) /\ Len(sent) <= MaxId
    /\ child \in {"none", "running", "exited"} /\ unread \in 0..Len(sent)
    /\ inbox \in Seq(Line) /\ subscribed \in BOOLEAN
    /\ spoken \in Seq(1..MaxLines) /\ lines \in 0..MaxLines

\* A probe that succeeds has every event of the thread, once and in order: those
\* that came before the answer to resume, those still queued when the time was
\* over and those before the answer to unsubscribe.
EventsAreComplete ==
    step = "closed" /\ ~failing => heard = spoken

\* However the probe ends, it leaves nothing behind: the app-server has ended,
\* and a subscription the client knew of was given up before.
LeavesNothingBehind ==
    /\ step = "closed" => child # "running"
    /\ step = "closing" /\ resumed /\ child = "running" =>
          sent[Len(sent)] = "thread/unsubscribe"
=============================================================================
