------------------------------- MODULE HttpEdge -------------------------------
(***************************************************************************)
(* The adapters between HTTP and the bus, on top of EventBus: the Webhook  *)
(* Listener (receive_webhook) publishes what its requests carry; a Webhook *)
(* Sender (RelayHandler) or an HTTP Adapter (TriggerHandler) handles what  *)
(* is delivered, one POST at a time.  A process of Procs is a listener and *)
(* serves one request at a time; a consumer is an adapter of either role.  *)
(***************************************************************************)
EXTENDS EventBus

CONSTANTS
    Requests,  \* the POST /webhooks/{path} requests, each sent once
    Valid,     \* those with the X-Webhook-Secret and a path
    KeyOf,     \* KeyOf[r]: the Idempotency-Key of r, or NoMsgId
    NoRequest

ASSUME EdgeAssumption ==
    /\ Valid \subseteq Requests
    /\ KeyOf \in [Requests -> MsgIds \cup {NoMsgId}]
    /\ NoRequest \notin Requests

VARIABLES
    role,     \* role[c]: "sender" or "http"
    serving,  \* serving[p]: the request whose publish() p awaits
    answer,   \* answer[r]: "none", "pending", "202" or "500"
    source,   \* source[n]: the request whose event has the eventId n
    post,     \* post[c]: the event in _handle() and the await it is at
    posts,    \* posts[c][i]: POSTs made for event i
    reports,  \* reports[c][i]: RequestCompleted events published for it
    again     \* again[c]: <<event, why it may be redelivered to c>>

webVars == <<serving, answer, source>>
relayVars == <<role, post, posts, reports, again>>
edgeVars == <<vars, webVars, relayVars>>

NoPost == [ev |-> 0, at |-> "idle"]

-------------------------------------------------------------------------------
(* The listener.                                                           *)

\* The lifespan of the app connects before the first request and closes after
\* the last.
Lifespan(p) ==
    /\ Connect(p) \/ Disconnect(p)
    /\ UNCHANGED <<webVars, relayVars>>

\* Any other request is answered 401 or 400 and changes nothing.
Receive(p, r, to) ==
    /\ answer[r] = "none" /\ r \in Valid
    /\ Publish(p, KeyOf[r], to)
    /\ serving' = [serving EXCEPT ![p] = r]
    /\ answer' = [answer EXCEPT ![r] = "pending"]
    /\ source' = [source EXCEPT ![nextId + 1] = r]
    /\ UNCHANGED relayVars

Answer(p, a) ==
    /\ answer' = [answer EXCEPT ![serving[p]] = a]
    /\ serving' = [serving EXCEPT ![p] = NoRequest]
    /\ UNCHANGED <<source, relayVars>>

Accept(p) == PublishReturns(p) /\ Answer(p, "202")

\* Mutant of Fail: the listener answers before the stream has the event.
FailAccepts(p) == PublishRaises(p) /\ Answer(p, "202")

\* publish() raises: a 500, or no answer at all.
Fail(p) == PublishRaises(p) /\ Answer(p, "500")

-------------------------------------------------------------------------------
(* The two adapters: run() with its loops, and their handlers.             *)

\* connect_as_adapter(), start() of the handler, and its loop.
StartAdapter(c) ==
    /\ ConsumerStarts(c)
    /\ UNCHANGED <<webVars, relayVars>>

\* run_once() gets a batch from fetch(), which processes every message of it.
RunOnce(c) ==
    /\ (\E B \in SUBSET Seqs : Fetch(c, B)) \/ (\E i \in Seqs : Process(c, i))
    /\ UNCHANGED <<webVars, relayVars>>

\* _handle() sends its POST, which may reach the target from now on.
StartPost(c, i) ==
    /\ i \in held[c] /\ inbox[c] = {} /\ post[c] = NoPost
    /\ post' = [post EXCEPT ![c] = [ev |-> i, at |-> "post"]]
    /\ posts' = [posts EXCEPT ![c][i] = @ + 1]
    /\ UNCHANGED <<vars, webVars, role, reports, again>>

\* The handler is done with its event.
Close(c) ==
    /\ post' = [post EXCEPT ![c] = NoPost]
    /\ UNCHANGED <<webVars, role, posts, reports>>

AckPost(c) ==
    /\ Ack(c, post[c].ev)
    /\ again' = IF status'[c][post[c].ev] = "acked" THEN again
                ELSE [again EXCEPT ![c] = @ \cup {<<post[c].ev, "ack lost">>}]
    /\ Close(c)

NakPost(c) ==
    /\ Nak(c, post[c].ev)
    /\ again' = [again EXCEPT ![c] = @ \cup {<<post[c].ev, "nak">>}]
    /\ Close(c)

\* Mutant of SenderDone: a failed relay is naked.
SenderRetries(c) ==
    /\ role[c] = "sender" /\ post[c].at = "post"
    /\ AckPost(c) \/ NakPost(c)

\* Whatever the target answers, or does not, the sender acks.
SenderDone(c) ==
    /\ role[c] = "sender" /\ post[c].at = "post"
    /\ AckPost(c)

\* No response at all: the HTTP adapter naks.
NoResponse(c) ==
    /\ role[c] = "http" /\ post[c].at = "post"
    /\ NakPost(c)

\* Mutant of Respond: only a successful response is reported.
RespondUnreported(c) ==
    /\ role[c] = "http" /\ post[c].at = "post"
    /\ post' \in {[post EXCEPT ![c].at = "report"], [post EXCEPT ![c].at = "ack"]}
    /\ UNCHANGED <<vars, webVars, role, posts, reports, again>>

\* A response, of whatever status, is to be reported.
Respond(c) ==
    /\ role[c] = "http" /\ post[c].at = "post"
    /\ post' = [post EXCEPT ![c].at = "report"]
    /\ UNCHANGED <<vars, webVars, role, posts, reports, again>>

Reported(c) == reports' = [reports EXCEPT ![c][post[c].ev] = @ + 1]

Report(c) ==
    /\ post[c].at = "report"
    /\ Reported(c)
    /\ post' = [post EXCEPT ![c].at = "ack"]
    /\ UNCHANGED <<vars, webVars, role, posts, again>>

ReportDone(c) == post[c].at = "ack" /\ AckPost(c)

\* A publish() that raises leaves the handler, ends the loop, gather() and the
\* process, as a crash does; its event may have been stored.
Stop(c) ==
    /\ ConsumerStops(c)
    /\ UNCHANGED reports \/ (post[c].at = "report" /\ Reported(c))
    /\ post' = [post EXCEPT ![c] = NoPost]
    /\ UNCHANGED <<webVars, role, posts, again>>

-------------------------------------------------------------------------------
EdgeInit ==
    /\ Init
    /\ role \in [Consumers -> {"sender", "http"}]
    /\ serving = [p \in Procs |-> NoRequest]
    /\ answer = [r \in Requests |-> "none"]
    /\ source = [n \in Ids |-> NoRequest]
    /\ post = [c \in Consumers |-> NoPost]
    /\ posts = [c \in Consumers |-> [i \in Seqs |-> 0]]
    /\ reports = [c \in Consumers |-> [i \in Seqs |-> 0]]
    /\ again = [c \in Consumers |-> {}]

ListenerStep(p) ==
    \/ Lifespan(p)
    \/ \E r \in Requests, to \in [Consumers -> Keys] : Receive(p, r, to)
    \/ Accept(p)
    \/ Fail(p)

AdapterStep(c) ==
    \/ StartAdapter(c)
    \/ RunOnce(c)
    \/ \E i \in Seqs : StartPost(c, i)
    \/ SenderDone(c)
    \/ NoResponse(c)
    \/ Respond(c)
    \/ Report(c)
    \/ ReportDone(c)
    \/ Stop(c)

\* What the server does by itself.
BusStep ==
    \/ ServerStep
    \/ \E c \in Consumers, i \in Seqs : AckWaitExpires(c, i)

EdgeNext ==
    \/ \E p \in Procs : ListenerStep(p)
    \/ \E c \in Consumers : AdapterStep(c)
    \/ BusStep /\ UNCHANGED <<webVars, relayVars>>

EdgeSpec == EdgeInit /\ [][EdgeNext]_edgeVars

-------------------------------------------------------------------------------
(* Properties.                                                             *)

\* The values the variables of the adapters keep to.
EdgeTypeOK ==
    /\ role \in [Consumers -> {"sender", "http"}]
    /\ serving \in [Procs -> Requests \cup {NoRequest}]
    /\ answer \in [Requests -> {"none", "pending", "202", "500"}]
    /\ source \in [Ids -> Requests \cup {NoRequest}]
    /\ post \in [Consumers -> {NoPost} \cup [ev : Seqs, at : {"post", "report", "ack"}]]
    /\ posts \in [Consumers -> [Seqs -> 0 .. MaxDeliver]]
    /\ reports \in [Consumers -> [Seqs -> 0 .. MaxDeliver]]
    /\ again \in [Consumers -> SUBSET (Seqs \X {"nak", "ack lost"})]

\* "verifies X-Webhook-Secret before touching the bus at all": no request that
\* was refused ever has an event, not even a late one; and a 202 means that the
\* stream has the event of that request, or under its Idempotency-Key the one
\* of an earlier request, whose answer may have been a 500.
AcceptedIsStored ==
    /\ \A i \in 1 .. Last : source[stream[i].id] \in Valid
    /\ \A r \in Requests : answer[r] = "202" =>
          \E i \in 1 .. Last :
              \/ source[stream[i].id] = r
              \/ KeyOf[r] # NoMsgId /\ KeyOf[source[stream[i].id]] = KeyOf[r]

\* Neither a restart, nor an ack wait that passes in the middle of a slow POST
\* or of the batch before it, makes an adapter send a POST again: only its own
\* nak does, or the loss of its ack.  For the sender, whose promise is a single
\* attempt, only the loss of the ack.
PostedAgainForCause ==
    \A c \in Consumers, i \in Seqs :
        /\ posts[c][i] > 1 => \/ <<i, "ack lost">> \in again[c]
                              \/ role[c] = "http" /\ <<i, "nak">> \in again[c]
        /\ posts[c][i] <= runs[c][i]

\* The HTTP adapter reports a response before it acks, at most once per POST,
\* and the sender acks only what it has tried to send.
AckedIsReported ==
    \A c \in Consumers, i \in Seqs :
        /\ reports[c][i] <= posts[c][i]
        /\ status[c][i] = "acked" =>
              IF role[c] = "http" THEN reports[c][i] > 0 ELSE posts[c][i] > 0

===============================================================================
