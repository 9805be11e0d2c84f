------------------------------- MODULE RestApi --------------------------------
(***************************************************************************)
(* The REST API Service (adapters/rest_api_service): POST /api/orders with *)
(* its Idempotency-Key and ?wait=, the in-memory PendingReplies, and the   *)
(* task run_reply_watcher() that feeds it from OrderPersisted.             *)
(*                                                                         *)
(* A request that makes a new event gives it its own name as eventId.  The *)
(* bus is what EventBus shows of it: publish() returns the eventId of the  *)
(* original on a duplicate and may raise; an event gets any number of      *)
(* replies, a redelivery counting as one more, in any order.  A reply of   *)
(* the model is one that _process() accepts at some delivery; one whose    *)
(* signature is refused or not looked up every time is as if never sent.   *)
(***************************************************************************)
EXTENDS Naturals, FiniteSets

CONSTANTS
    Requests,      \* the HTTP requests, each also the eventId it may create
    KeyOf,         \* KeyOf[r]: its Idempotency-Key, or NoKey
    NoKey,
    None,
    WatcherFaults, \* TRUE iff fetch() or ack() may raise in the watcher
    MaxReplies,    \* bound: replies to one event
    MaxStarts      \* bound: starts of the service

ASSUME RestAssumption ==
    /\ None \notin Requests
    /\ WatcherFaults \in BOOLEAN
    /\ MaxReplies \in Nat /\ MaxStarts \in Nat \ {0}

VARIABLES
    \* the bus
    events,    \* eventIds of the OrderCreated events in the stream
    original,  \* original[k]: eventId the duplicate window holds for k, or None
    replies,   \* OrderPersisted events: correlationId, copy, and the start of
               \* the service for whose key they were encrypted
    consumed,  \* the replies that were acked
    \* the process
    start,     \* the number of starts so far
    watcher,   \* the reply watcher's task runs
    batch,     \* replies fetch() returned and the watcher has not handled
    pending,   \* PendingReplies._pending: eventId -> request whose future it is
    \* the handlers
    pc,        \* pc[r]: where create_order() is, or the status it answered
    eventId,   \* eventId[r]: what publish() returned, or None
    reply,     \* reply[r]: correlationId of the result set in r's future, or None
    met        \* requests that have seen, while they wait, another one of their
               \* event begin or end its wait

busVars == <<events, original, replies, consumed>>
procVars == <<start, watcher, batch, pending>>
handlerVars == <<pc, eventId, reply, met>>
vars == <<busVars, procVars, handlerVars>>

IdempotencyKeys == {KeyOf[r] : r \in Requests} \ {NoKey}
Reply == [corr : Requests, copy : 1 .. MaxReplies, key : 1 .. MaxStarts]

\* "landed": the stream has answered and the coroutine has not resumed yet.
InFlight == {"publishing", "landed", "waiting"}
Answers == {"200", "202", "500", "504", "dropped"}

-------------------------------------------------------------------------------
(* create_order().                                                         *)

Receive(r) ==
    /\ pc[r] = "new"
    /\ pc' = [pc EXCEPT ![r] = "publishing"]
    /\ UNCHANGED <<busVars, procVars, eventId, reply, met>>

\* The stream takes the event of r, or recognises its key.
Store(r) ==
    LET k == KeyOf[r] IN
    IF k # NoKey /\ original[k] # None
    THEN /\ eventId' = [eventId EXCEPT ![r] = original[k]]
         /\ UNCHANGED <<events, original>>
    ELSE /\ eventId' = [eventId EXCEPT ![r] = r]
         /\ events' = events \cup {r}
         /\ original' = IF k = NoKey THEN original ELSE [original EXCEPT ![k] = r]

PublishLands(r) ==
    /\ pc[r] = "publishing"
    /\ Store(r)
    /\ pc' = [pc EXCEPT ![r] = "landed"]
    /\ UNCHANGED <<replies, consumed, procVars, reply, met>>

\* publish() raises out of the handler, before or after the stream answered.
PublishRaises(r) ==
    /\ pc[r] \in {"publishing", "landed"}
    /\ pc' = [pc EXCEPT ![r] = "500"]
    /\ UNCHANGED <<busVars, procVars, eventId, reply, met>>

\* wait <= 0 (the client chooses): answer at once.
AnswerAccepted(r) ==
    /\ pc[r] = "landed"
    /\ pc' = [pc EXCEPT ![r] = "202"]
    /\ UNCHANGED <<busVars, procVars, eventId, reply, met>>

\* The requests that wait for the event of r.
Sharers(r) == {q \in Requests \ {r} : pc[q] = "waiting" /\ eventId[q] = eventId[r]}

Meet(r) == met' = (met \cup Sharers(r)) \ {r}

\* wait > 0: PendingReplies.register(), in the same turn in which publish() returns.
Register(r) ==
    /\ pc[r] = "landed"
    /\ pending' = [pending EXCEPT ![eventId[r]] = r]
    /\ pc' = [pc EXCEPT ![r] = "waiting"]
    /\ Meet(r)
    /\ UNCHANGED <<busVars, start, watcher, batch, eventId, reply>>

\* Mutants of Unregister: no finally; and one that clears the whole table.
UnregisterNothing(r) == UNCHANGED pending
UnregisterAll(r) == pending' = [e \in Requests |-> None]

\* The handler's finally: the entry goes by eventId, whoever it belongs to.
Unregister(r) == pending' = [pending EXCEPT ![eventId[r]] = None]

AnswerReply(r) ==
    /\ pc[r] = "waiting" /\ reply[r] # None
    /\ pc' = [pc EXCEPT ![r] = "200"]
    /\ Unregister(r)
    /\ Meet(r)
    /\ UNCHANGED <<busVars, start, watcher, batch, eventId, reply>>

\* Mutant of AnswerTimeout: the future is awaited without a timeout.
NoTimeout(r) == FALSE

\* wait_for() times out; it may do so with the future already resolved.
AnswerTimeout(r) ==
    /\ pc[r] = "waiting"
    /\ pc' = [pc EXCEPT ![r] = "504"]
    /\ Unregister(r)
    /\ Meet(r)
    /\ UNCHANGED <<busVars, start, watcher, batch, eventId, reply>>

-------------------------------------------------------------------------------
(* The replies and run_reply_watcher().                                    *)

\* The database adapter publishes an OrderPersisted for event e.
Persist(e) ==
    /\ e \in events
    /\ \E n \in 1 .. MaxReplies :
          /\ \A x \in replies : x.corr = e => x.copy < n
          /\ n = 1 \/ \E x \in replies : x.corr = e /\ x.copy = n - 1
          /\ replies' = replies \cup {[corr |-> e, copy |-> n, key |-> start]}
    /\ UNCHANGED <<events, original, consumed, procVars, handlerVars>>

\* What this process can still fetch and decrypt.
Fetchable == {x \in replies \ consumed : x.key = start}

WatcherFetches(B) ==
    /\ watcher /\ batch = {}
    /\ B # {} /\ B \subseteq Fetchable
    /\ batch' = B
    /\ UNCHANGED <<busVars, start, watcher, pending, handlerVars>>

\* Mutant of Resolve: the reply goes to whatever request is waiting.
ResolveAny(x) ==
    LET W == {r \in Requests : pc[r] = "waiting" /\ reply[r] = None} IN
    IF W = {} THEN UNCHANGED reply
    ELSE \E r \in W : reply' = [reply EXCEPT ![r] = x.corr]

\* PendingReplies.resolve().
Resolve(x) ==
    LET r == pending[x.corr] IN
    IF r = None \/ (r # None /\ reply[r] # None)
    THEN UNCHANGED reply
    ELSE reply' = [reply EXCEPT ![r] = x.corr]

\* Mutant of WatcherHandles: an orphaned reply is left unacked.
WatcherKeepsOrphans(x) ==
    /\ watcher /\ x \in batch
    /\ Resolve(x)
    /\ batch' = batch \ {x}
    /\ consumed' = IF pending[x.corr] = None THEN consumed ELSE consumed \cup {x}
    /\ UNCHANGED <<events, original, replies, start, watcher, pending, pc, eventId, met>>

\* Resolved or orphaned, the reply is acked.
WatcherHandles(x) ==
    /\ watcher /\ x \in batch
    /\ Resolve(x)
    /\ batch' = batch \ {x}
    /\ consumed' = consumed \cup {x}
    /\ UNCHANGED <<events, original, replies, start, watcher, pending, pc, eventId, met>>

\* An error of fetch() other than a timeout, or of ack(), ends the task.
\* Nothing awaits it before the shutdown, and the service goes on.
WatcherDies ==
    /\ WatcherFaults
    /\ watcher
    /\ watcher' = FALSE
    /\ \/ batch = {} /\ UNCHANGED reply
       \/ \E x \in batch : Resolve(x)
    /\ batch' = {}
    /\ UNCHANGED <<busVars, start, pending, pc, eventId, met>>

\* The process ends and Compose starts another: the requests in flight lose
\* their connection, the pending replies are gone.
Restart ==
    /\ start < MaxStarts
    /\ start' = start + 1
    /\ watcher' = TRUE
    /\ batch' = {}
    /\ pending' = [e \in Requests |-> None]
    /\ pc' = [r \in Requests |-> IF pc[r] \in InFlight THEN "dropped" ELSE pc[r]]
    /\ met' = {}
    /\ UNCHANGED <<busVars, eventId, reply>>

\* The duplicate window of the stream passes for key k.
WindowPasses(k) ==
    /\ original[k] # None
    /\ original' = [original EXCEPT ![k] = None]
    /\ UNCHANGED <<events, replies, consumed, procVars, handlerVars>>

-------------------------------------------------------------------------------
Init ==
    /\ events = {}
    /\ original = [k \in IdempotencyKeys |-> None]
    /\ replies = {}
    /\ consumed = {}
    /\ start = 1
    /\ watcher = TRUE
    /\ batch = {}
    /\ pending = [e \in Requests |-> None]
    /\ pc = [r \in Requests |-> "new"]
    /\ eventId = [r \in Requests |-> None]
    /\ reply = [r \in Requests |-> None]
    /\ met = {}

HandlerStep(r) ==
    \/ Receive(r)
    \/ PublishLands(r)
    \/ PublishRaises(r)
    \/ AnswerAccepted(r)
    \/ Register(r)
    \/ AnswerReply(r)
    \/ AnswerTimeout(r)

WatcherStep ==
    \/ \E B \in SUBSET Fetchable : WatcherFetches(B)
    \/ \E x \in batch : WatcherHandles(x)
    \/ WatcherDies

Next ==
    \/ \E r \in Requests : HandlerStep(r) \/ Persist(r)
    \/ WatcherStep
    \/ Restart
    \/ \E k \in IdempotencyKeys : WindowPasses(k)

Spec == Init /\ [][Next]_vars

\* The event loop runs every task that can run, and every await on the bus is
\* bounded by a timeout.
Fairness ==
    /\ \A r \in Requests :
          /\ WF_vars(PublishLands(r) \/ PublishRaises(r))
          /\ WF_vars(AnswerAccepted(r) \/ Register(r))
          /\ WF_vars(AnswerReply(r) \/ AnswerTimeout(r))
    /\ WF_vars(\E B \in SUBSET Fetchable : WatcherFetches(B))
    /\ WF_vars(\E x \in batch : WatcherHandles(x))

FairSpec == Spec /\ Fairness

-------------------------------------------------------------------------------
(* Properties.                                                             *)

\* The values every variable keeps to.
TypeOK ==
    /\ events \subseteq Requests
    /\ original \in [IdempotencyKeys -> Requests \cup {None}]
    /\ replies \subseteq Reply /\ consumed \subseteq replies /\ batch \subseteq replies
    /\ start \in 1 .. MaxStarts
    /\ watcher \in BOOLEAN
    /\ pending \in [Requests -> Requests \cup {None}]
    /\ pc \in [Requests -> {"new"} \cup InFlight \cup Answers]
    /\ eventId \in [Requests -> Requests \cup {None}]
    /\ reply \in [Requests -> Requests \cup {None}]
    /\ met \subseteq Requests

\* A 200 carries the OrderPersisted of the event that the request's own
\* publish() made, or of the earlier event with the same Idempotency-Key.
OwnReply ==
    \A r \in Requests :
        reply[r] # None =>
            /\ reply[r] = eventId[r]
            /\ eventId[r] \in events
            /\ eventId[r] # r => KeyOf[eventId[r]] = KeyOf[r]

\* The finally of create_order() leaves nothing behind: every entry of
\* PendingReplies is the future of a request that still waits for that event.
NoStaleEntry ==
    \A e \in Requests :
        pending[e] # None => pc[pending[e]] = "waiting" /\ eventId[pending[e]] = e

\* A request that waits can be answered, its future is in the table, until
\* another request with its event begins or ends a wait beside it.  Requests of
\* other events, earlier ones of its own event that are done, and their late or
\* repeated replies do not take it away.  (That register() and the finally of a
\* request beside it do is what the table's key, the eventId alone, comes to.)
WaiterIsReachable ==
    \A r \in Requests : pc[r] = "waiting" /\ r \notin met => pending[eventId[r]] = r

\* Every request is answered, unless its process ends.
EveryRequestAnswered ==
    \A r \in Requests : pc[r] = "publishing" ~> pc[r] \in Answers

Unread(e, n) == \E x \in Fetchable : x.corr = e /\ x.copy = n

\* run_reply_watcher(): "A reply with no matching pending request ... is logged
\* and still acked".  Every reply the running process can read is acked.
EveryReplyAcked ==
    \A e \in Requests, n \in 1 .. MaxReplies : Unread(e, n) ~> ~Unread(e, n)

\* As long as its task runs, the watcher gets to every reply the process can
\* read and acks it, orphaned, repeated and late ones included.
LiveWatcherAcks ==
    \A e \in Requests, n \in 1 .. MaxReplies : Unread(e, n) ~> ~Unread(e, n) \/ ~watcher

===============================================================================
