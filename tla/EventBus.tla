------------------------------- MODULE EventBus -------------------------------
(***************************************************************************)
(* BusClient (libs/jetcore/jetcore/bus_client.py) on one subject of the    *)
(* EVENTS stream: publish() with its recipients, signature and             *)
(* Nats-Msg-Id; fetch() and _process() on a durable pull consumer; ack,    *)
(* nak, ack-wait and max_deliver; restarts, which give a consumer a fresh  *)
(* encryption key; and the service-identity bucket.                        *)
(*                                                                         *)
(* The encryption key of consumer c is epoch[c], the number of its starts  *)
(* (see ServiceDirectory).  Decryption succeeds exactly with the private   *)
(* half of a key the event was encrypted for, and a signature verifies     *)
(* exactly under the key of the process that made it.                      *)
(***************************************************************************)
EXTENDS Naturals, Sequences, FiniteSets

CONSTANTS
    Procs,       \* processes that connect; a process is also its signing key
    Publishers,  \* those that publish; an adapter that only subscribes connects too
    ServiceOf,   \* ServiceOf[p]: the serviceId process p is configured with
    Consumers,   \* subscribers, one durable consumer each
    MsgIds,      \* values of the Nats-Msg-Id header
    NoMsgId,     \* publish() without a msg_id
    Nobody,      \* no entry in service-identity
    MaxDeliver,  \* MAX_DELIVER_ATTEMPTS
    Batch,       \* batch of fetch()
    MaxPublish,  \* bound: calls of publish()
    MaxEvents,   \* bound: events in the stream
    MaxEpoch     \* bound: starts of one consumer

ASSUME BusAssumption ==
    /\ MaxDeliver \in Nat \ {0}
    /\ Batch \in Nat \ {0}
    /\ MaxPublish \in Nat
    /\ MaxEvents \in Nat
    /\ MaxEpoch \in Nat
    /\ Publishers \subseteq Procs
    /\ NoMsgId \notin MsgIds
    /\ Nobody \notin Procs

VARIABLES
    \* the JetStream server
    stream,    \* the events, in stream order
    window,    \* window[m]: sequence number the dedup window holds for m, or 0
    forgotten, \* ids that have left the dedup window at least once
    identity,  \* identity[s]: the signing key registered for serviceId s
    \* the publishers
    connected, \* connected[p]: p's BusClient is connected
    draft,     \* draft[p]: the event whose PubAck p awaits, or NoDraft
    ghosts,    \* events sent by a publish() that raised, still in flight
    nextId,    \* the number of publish() calls so far, source of eventIds
    returned,  \* what publish() returned, with the msg_id it was given
    \* the consumers
    up,        \* up[c]: the process runs
    epoch,     \* epoch[c]: its starts so far = its current key
    status,    \* status[c][i]: the durable's view of event i
    num,       \* num[c][i]: deliveries of event i so far
    inbox,     \* inbox[c]: events fetch() received and has not processed yet
    held,      \* held[c]: ReceivedEvents that await their handler
    runs,      \* runs[c][i]: how often event i was handed to the handler
    refused,   \* refused[c][i]: how often this process of c refused its signature
    unanswered \* unanswered[c][i]: how often its lookup of the signer's key raised

serverVars == <<stream, window, forgotten, identity>>
pubVars == <<connected, draft, ghosts, nextId, returned>>
durableVars == <<status, num>>
failures == <<refused, unanswered>>
clientVars == <<up, epoch, inbox, held, runs, failures>>
vars == <<serverVars, pubVars, durableVars, clientVars>>

Seqs == 1 .. MaxEvents
Never == [i \in Seqs |-> 0]
Ids == 1 .. MaxPublish
NoKey == 0
Keys == 0 .. MaxEpoch
ServiceIds == {ServiceOf[p] : p \in Procs}

\* to[c] is the key the event was encrypted with for c, NoKey if it was not.
Event == [id : Ids, msgId : MsgIds \cup {NoMsgId}, signer : Procs, to : [Consumers -> Keys]]
NoDraft == [id |-> 0]

Last == Len(stream)

-------------------------------------------------------------------------------
(* Publishing.                                                             *)

\* connect() registers the identity once; the last registration wins.  (Between
\* its put and its return p does nothing else, so the two are one step.)
Connect(p) ==
    /\ ~connected[p]
    /\ connected' = [connected EXCEPT ![p] = TRUE]
    /\ identity' = [identity EXCEPT ![ServiceOf[p]] = p]
    /\ UNCHANGED <<stream, window, forgotten, draft, ghosts, nextId, returned,
                   durableVars, clientVars>>

\* The put of a connect() of p that raised is applied, at once or late (see
\* IdentityDirectory).  Nothing else is left of that connect(), so that one may
\* always have been made.
RegistrationLands(p) ==
    /\ identity' = [identity EXCEPT ![ServiceOf[p]] = p]
    /\ UNCHANGED <<stream, window, forgotten, pubVars, durableVars, clientVars>>

\* publish() up to the await on the stream: read the cache, encrypt, sign and
\* wrap under a new eventId.  The cache names for each consumer some key that
\* it registered, or none (an entry that is stale, expired or not yet seen).
\* With no recipient the event is sent all the same, with an empty ciphertext.
Publish(p, m, to) ==
    /\ p \in Publishers /\ connected[p]
    /\ draft[p] = NoDraft
    /\ nextId < MaxPublish
    /\ \A c \in Consumers : to[c] <= epoch[c]
    /\ nextId' = nextId + 1
    /\ draft' = [draft EXCEPT ![p] =
                    [id |-> nextId + 1, msgId |-> m, signer |-> p, to |-> to]]
    /\ UNCHANGED <<serverVars, connected, ghosts, returned, durableVars, clientVars>>

\* Mutant of Duplicate: the header has the wrong name, the server ignores it.
NeverDuplicate(d) == FALSE

\* The stream already holds an event with this Nats-Msg-Id in its window.
Duplicate(d) == d.msgId # NoMsgId /\ window[d.msgId] # 0

\* The stream stores an event, unless it is a duplicate.
Store(d) ==
    IF Duplicate(d)
    THEN UNCHANGED <<stream, window>>
    ELSE /\ Last < MaxEvents
         /\ stream' = Append(stream, d)
         /\ window' = IF d.msgId = NoMsgId THEN window
                      ELSE [window EXCEPT ![d.msgId] = Last + 1]

\* Mutant of ReturnedId: the id of the envelope just built, duplicate or not.
OwnId(d) == d.id

\* The eventId publish() returns: on a duplicate, the one of the original.
ReturnedId(d) == IF Duplicate(d) THEN stream[window[d.msgId]].id ELSE d.id

PublishReturns(p) ==
    /\ draft[p] # NoDraft
    /\ Store(draft[p])
    /\ returned' = returned \cup {[msgId |-> draft[p].msgId, id |-> ReturnedId(draft[p])]}
    /\ draft' = [draft EXCEPT ![p] = NoDraft]
    /\ UNCHANGED <<forgotten, identity, connected, ghosts, nextId, durableVars, clientVars>>

\* The await raises (timeout, lost connection), or the process ends: the event
\* is lost or still on its way.
PublishRaises(p) ==
    /\ draft[p] # NoDraft
    /\ ghosts' \in {ghosts, ghosts \cup {draft[p]}}
    /\ draft' = [draft EXCEPT ![p] = NoDraft]
    /\ connected' \in {connected, [connected EXCEPT ![p] = FALSE]}
    /\ UNCHANGED <<serverVars, nextId, returned, durableVars, clientVars>>

GhostLands(d) ==
    /\ Store(d)
    /\ ghosts' = ghosts \ {d}
    /\ UNCHANGED <<forgotten, identity, connected, draft, nextId, returned,
                   durableVars, clientVars>>

\* close(), or the end of a process that is not publishing.
Disconnect(p) ==
    /\ connected[p] /\ draft[p] = NoDraft
    /\ connected' = [connected EXCEPT ![p] = FALSE]
    /\ UNCHANGED <<serverVars, draft, ghosts, nextId, returned, durableVars, clientVars>>

\* The duplicate window of the stream passes for m.
WindowPasses(m) ==
    /\ window[m] # 0
    /\ window' = [window EXCEPT ![m] = 0]
    /\ forgotten' = forgotten \cup {m}
    /\ UNCHANGED <<stream, identity, pubVars, durableVars, clientVars>>

\* IDENTITY_TTL_SECONDS have passed since the last put for s.
IdentityExpires(s) ==
    /\ identity[s] # Nobody
    /\ identity' = [identity EXCEPT ![s] = Nobody]
    /\ UNCHANGED <<stream, window, forgotten, pubVars, durableVars, clientVars>>

-------------------------------------------------------------------------------
(* Consuming.                                                              *)

\* connect_as_adapter() and subscribe(): a fresh key; the durable survives.
ConsumerStarts(c) ==
    /\ ~up[c]
    /\ epoch[c] < MaxEpoch
    /\ up' = [up EXCEPT ![c] = TRUE]
    /\ epoch' = [epoch EXCEPT ![c] = @ + 1]
    /\ UNCHANGED <<serverVars, pubVars, durableVars, inbox, held, runs, failures>>

\* A crash, close(), or an exception that leaves a handler.  The bound on the
\* starts is one on the stops too: the last process of c stays up.
ConsumerStops(c) ==
    /\ up[c]
    /\ epoch[c] < MaxEpoch
    /\ up' = [up EXCEPT ![c] = FALSE]
    /\ inbox' = [inbox EXCEPT ![c] = {}]
    /\ held' = [held EXCEPT ![c] = {}]
    /\ refused' = [refused EXCEPT ![c] = Never]
    /\ unanswered' = [unanswered EXCEPT ![c] = Never]
    /\ UNCHANGED <<serverVars, pubVars, durableVars, epoch, runs>>

Deliverable(c) == {i \in 1 .. Last : status[c][i] \in {"new", "redo"}}

\* New events arrive in stream order; redeliveries come in any order.
InOrder(c, B) ==
    \A i \in B, j \in Deliverable(c) :
        status[c][i] = "new" /\ status[c][j] = "new" /\ j < i => j \in B

\* fetch(): the loop of an adapter calls it when the last batch is done.
Fetch(c, B) ==
    /\ up[c] /\ inbox[c] = {} /\ held[c] = {}
    /\ B # {} /\ B \subseteq Deliverable(c) /\ Cardinality(B) <= Batch
    /\ InOrder(c, B)
    /\ inbox' = [inbox EXCEPT ![c] = B]
    /\ status' = [status EXCEPT ![c] = [i \in Seqs |-> IF i \in B THEN "out" ELSE @[i]]]
    /\ num' = [num EXCEPT ![c] = [i \in Seqs |-> IF i \in B THEN @[i] + 1 ELSE @[i]]]
    /\ UNCHANGED <<serverVars, pubVars, up, epoch, held, runs, failures>>

Decrypts(c, i) == stream[i].to[c] = epoch[c]
Verifies(i) == identity[ServiceOf[stream[i].signer]] = stream[i].signer

\* Mutant of Process: the message stays in the batch after it was processed.
ProcessKeepsMessage(c, i) ==
    /\ i \in inbox[c]
    /\ inbox' \in {inbox, [inbox EXCEPT ![c] = @ \ {i}]}
    /\ Decrypts(c, i) /\ Verifies(i)
    /\ held' = [held EXCEPT ![c] = @ \cup {i}]
    /\ runs' = [runs EXCEPT ![c][i] = @ + 1]
    /\ UNCHANGED <<serverVars, pubVars, durableVars, up, epoch, failures>>

\* Mutant of Process: a failure ends the loop over the batch.
ProcessAbortsBatch(c, i) ==
    /\ i \in inbox[c]
    /\ IF Decrypts(c, i) /\ Verifies(i)
       THEN /\ inbox' = [inbox EXCEPT ![c] = @ \ {i}]
            /\ held' = [held EXCEPT ![c] = @ \cup {i}]
            /\ runs' = [runs EXCEPT ![c][i] = @ + 1]
       ELSE /\ inbox' = [inbox EXCEPT ![c] = {}]
            /\ UNCHANGED <<held, runs>>
    /\ refused' = IF Decrypts(c, i) /\ ~Verifies(i)
                  THEN [refused EXCEPT ![c][i] = @ + 1] ELSE refused
    /\ UNCHANGED <<serverVars, pubVars, durableVars, up, epoch, unanswered>>

\* Mutant of Process: a message that cannot be processed is acked away.
ProcessAcksFailures(c, i) ==
    /\ i \in inbox[c]
    /\ inbox' = [inbox EXCEPT ![c] = @ \ {i}]
    /\ IF Decrypts(c, i) /\ Verifies(i)
       THEN /\ held' = [held EXCEPT ![c] = @ \cup {i}]
            /\ runs' = [runs EXCEPT ![c][i] = @ + 1]
            /\ UNCHANGED status
       ELSE /\ status' = [status EXCEPT ![c][i] = "acked"]
            /\ UNCHANGED <<held, runs>>
    /\ UNCHANGED <<serverVars, pubVars, num, up, epoch, failures>>

\* Mutant of Process: a message that fails is tried again in place.
ProcessRetriesInPlace(c, i) ==
    /\ i \in inbox[c]
    /\ Decrypts(c, i) /\ Verifies(i)
    /\ inbox' = [inbox EXCEPT ![c] = @ \ {i}]
    /\ held' = [held EXCEPT ![c] = @ \cup {i}]
    /\ runs' = [runs EXCEPT ![c][i] = @ + 1]
    /\ UNCHANGED <<serverVars, pubVars, durableVars, up, epoch, failures>>

\* _process() of one message of the batch.  A failure is logged and the
\* message left unacked.  A missing identity is a failure of the signature; a
\* lookup that times out or loses the connection raises, whoever registered.
Process(c, i) ==
    /\ i \in inbox[c]
    /\ inbox' = [inbox EXCEPT ![c] = @ \ {i}]
    /\ \/ /\ Decrypts(c, i) /\ Verifies(i)
          /\ held' = [held EXCEPT ![c] = @ \cup {i}]
          /\ runs' = [runs EXCEPT ![c][i] = @ + 1]
          /\ UNCHANGED failures
       \/ /\ Decrypts(c, i) /\ ~Verifies(i)
          /\ refused' = [refused EXCEPT ![c][i] = @ + 1]
          /\ UNCHANGED <<held, runs, unanswered>>
       \/ /\ Decrypts(c, i)  \* and lookup_signing_key() raises
          /\ unanswered' = [unanswered EXCEPT ![c][i] = @ + 1]
          /\ UNCHANGED <<held, runs, refused>>
       \/ /\ ~Decrypts(c, i)
          /\ UNCHANGED <<held, runs, failures>>
    /\ UNCHANGED <<serverVars, pubVars, durableVars, up, epoch>>

\* The handler is done with an event of the batch fetch() returned.
Handled(c, i) ==
    /\ i \in held[c] /\ inbox[c] = {}
    /\ held' = [held EXCEPT ![c] = @ \ {i}]
    /\ UNCHANGED <<serverVars, pubVars, num, up, epoch, inbox, runs, failures>>

\* ack() is not confirmed: it reaches the server, or is lost with a connection.
Ack(c, i) ==
    /\ Handled(c, i)
    /\ \E s \in {"acked", status[c][i]} : status' = [status EXCEPT ![c][i] = s]

\* Mutant of Again: no max_deliver in the consumer's configuration.
AlwaysAgain(c, i) == "redo"

\* Delivered again unless max_deliver is reached.
Again(c, i) == IF num[c][i] < MaxDeliver THEN "redo" ELSE "dead"

\* nak() after a transient failure; its delay is not modelled, only that the
\* redelivery comes later.  It does nothing once the ack wait is over.
Nak(c, i) ==
    /\ Handled(c, i)
    /\ status' = [status EXCEPT ![c][i] = IF @ = "out" THEN Again(c, i) ELSE @]

\* The server waited for the ack as long as the consumer's backoff says,
\* whether or not the client still works on the event.
AckWaitExpires(c, i) ==
    /\ status[c][i] = "out"
    /\ status' = [status EXCEPT ![c][i] = Again(c, i)]
    /\ UNCHANGED <<serverVars, pubVars, num, clientVars>>

-------------------------------------------------------------------------------
Init ==
    /\ stream = <<>>
    /\ window = [m \in MsgIds |-> 0]
    /\ forgotten = {}
    /\ identity = [s \in ServiceIds |-> Nobody]
    /\ connected = [p \in Procs |-> FALSE]
    /\ draft = [p \in Procs |-> NoDraft]
    /\ ghosts = {}
    /\ nextId = 0
    /\ returned = {}
    /\ up = [c \in Consumers |-> FALSE]
    /\ epoch = [c \in Consumers |-> 0]
    /\ status = [c \in Consumers |-> [i \in Seqs |-> "new"]]
    /\ num = [c \in Consumers |-> Never]
    /\ inbox = [c \in Consumers |-> {}]
    /\ held = [c \in Consumers |-> {}]
    /\ runs = [c \in Consumers |-> Never]
    /\ refused = [c \in Consumers |-> Never]
    /\ unanswered = [c \in Consumers |-> Never]

PublisherStep(p) ==
    \/ Connect(p)
    \/ \E m \in MsgIds \cup {NoMsgId}, to \in [Consumers -> Keys] : Publish(p, m, to)
    \/ PublishReturns(p)
    \/ PublishRaises(p)
    \/ Disconnect(p)

ServerStep ==
    \/ \E d \in ghosts : GhostLands(d)
    \/ \E m \in MsgIds : WindowPasses(m)
    \/ \E s \in ServiceIds : IdentityExpires(s)
    \/ \E p \in Procs : RegistrationLands(p)

ConsumerStep(c) ==
    \/ ConsumerStarts(c)
    \/ ConsumerStops(c)
    \/ \E B \in SUBSET Seqs : Fetch(c, B)
    \/ \E i \in Seqs : Process(c, i) \/ Ack(c, i) \/ Nak(c, i) \/ AckWaitExpires(c, i)

Next ==
    \/ \E p \in Procs : PublisherStep(p)
    \/ ServerStep
    \/ \E c \in Consumers : ConsumerStep(c)

Spec == Init /\ [][Next]_vars

\* A stopped consumer is restarted, its loop keeps fetching, a handler ends,
\* and the server redelivers.
Fairness ==
    \A c \in Consumers :
        /\ WF_vars(ConsumerStarts(c))
        /\ WF_vars(\E B \in SUBSET Seqs : Fetch(c, B))
        /\ \A i \in Seqs :
              /\ WF_vars(Process(c, i))
              /\ WF_vars(Ack(c, i) \/ Nak(c, i))
              /\ WF_vars(AckWaitExpires(c, i))

FairSpec == Spec /\ Fairness

-------------------------------------------------------------------------------
(* Properties.                                                             *)

\* The values every variable keeps to.
TypeOK ==
    /\ stream \in Seq(Event) /\ Last <= MaxEvents
    /\ window \in [MsgIds -> 0 .. Last]
    /\ forgotten \subseteq MsgIds
    /\ identity \in [ServiceIds -> Procs \cup {Nobody}]
    /\ connected \in [Procs -> BOOLEAN]
    /\ draft \in [Procs -> Event \cup {NoDraft}]
    /\ ghosts \subseteq Event
    /\ nextId \in 0 .. MaxPublish
    /\ returned \subseteq [msgId : MsgIds \cup {NoMsgId}, id : Ids]
    /\ up \in [Consumers -> BOOLEAN]
    /\ epoch \in [Consumers -> Keys]
    /\ status \in [Consumers -> [Seqs -> {"new", "out", "redo", "acked", "dead"}]]
    /\ num \in [Consumers -> [Seqs -> 0 .. MaxDeliver]]
    /\ inbox \in [Consumers -> SUBSET Seqs]
    /\ held \in [Consumers -> SUBSET Seqs]
    /\ runs \in [Consumers -> [Seqs -> 0 .. MaxDeliver]]
    /\ refused \in [Consumers -> [Seqs -> 0 .. MaxDeliver]]
    /\ unanswered \in [Consumers -> [Seqs -> 0 .. MaxDeliver]]

\* publish() answers with the eventId of an event that is in the stream and
\* carries the caller's msg_id - never the one of an envelope that the
\* duplicate window discarded.
ReturnedIdsAreReal ==
    \A r \in returned :
        \E i \in 1 .. Last : stream[i].id = r.id /\ stream[i].msgId = r.msgId

\* Calls of publish() that share a msg_id, by whatever process and however
\* their first attempts failed, make one event and get one eventId as long as
\* the duplicate window has not passed.
RetryIsOneEvent ==
    \A m \in MsgIds \ forgotten :
        /\ \A i, j \in 1 .. Last :
              stream[i].msgId = m /\ stream[j].msgId = m => i = j
        /\ \A r, q \in returned : r.msgId = m /\ q.msgId = m => r.id = q.id

\* An event is acked only after _process() accepted it and it was handed out,
\* and what a handler holds was encrypted with the key its process has now.
AckedWasHandled ==
    \A c \in Consumers, i \in 1 .. Last :
        /\ status[c][i] = "acked" => runs[c][i] > 0
        /\ i \in held[c] => Decrypts(c, i) /\ up[c]

\* Across restarts, naks and ack waits that pass while a handler still works,
\* a handler sees an event at most MAX_DELIVER_ATTEMPTS times, and never in a
\* process whose key it was not encrypted for.
HandledWithinBudget ==
    \A c \in Consumers, i \in Seqs :
        /\ runs[c][i] <= num[c][i]
        /\ num[c][i] <= MaxDeliver

\* Of an event encrypted with the key of the process that runs now, no delivery
\* goes astray: each was handed to the handler, was refused (no identity, or
\* another process's), ended in a lookup that raised, or waits in the batch.
\* So one that is given up has failed at every one of its MAX_DELIVER_ATTEMPTS
\* deliveries, or reached a handler; batches, the failure of another message,
\* and ack waits that pass in the batch cost it none.
NoSilentLoss ==
    \A c \in Consumers, i \in 1 .. Last : up[c] /\ Decrypts(c, i) =>
        /\ num[c][i] = runs[c][i] + refused[c][i] + unanswered[c][i]
                           + (IF i \in inbox[c] THEN 1 ELSE 0)
        /\ status[c][i] = "dead" => num[c][i] = MaxDeliver

\* Every event is settled at every consumer: a message that can never be
\* decrypted or verified is given up, it is not redelivered forever.
EverySettles ==
    \A c \in Consumers, i \in Seqs :
        i <= Last ~> status[c][i] \in {"acked", "dead"}

-------------------------------------------------------------------------------
(* What the bus promises, as AtLeastOnce states it.                        *)

Outcome ==
    [c \in Consumers |-> [i \in Seqs |->
        IF status[c][i] = "acked" THEN "acked"
        ELSE IF status[c][i] = "dead" THEN "dropped" ELSE "open"]]

Abstract == INSTANCE AtLeastOnce
                WITH MaxHands <- MaxDeliver, log <- stream, handed <- runs, outcome <- Outcome

\* Keys, identities, restarts, batches and ack waits come to no more than this:
\* an append-only log whose events are each handed to a consumer at most
\* max_deliver times, acknowledged for good after that, or dropped.
ImplementsAtLeastOnce == Abstract!Spec

===============================================================================
