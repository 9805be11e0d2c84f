---------------------------- MODULE HttpEdgeProofs ----------------------------
(***************************************************************************)
(* What EventBusProofs shows of the bus holds for the adapters of HttpEdge *)
(* (EdgeUsesBus), whose steps are written as steps of EventBus.            *)
(*                                                                         *)
(* What they promise themselves rests on EdgeInv, the invariants of the    *)
(* bus with two more parts.  PostInv: a POST spends a run of the handler,  *)
(* a report spends a POST, and an event that was posted without a cause    *)
(* for another POST is acked, still in _handle(), or under a key that its  *)
(* consumer has lost, so that _process() never hands it out again.         *)
(* WebInv: every event in the stream, in flight or in publish() has the    *)
(* eventId and the Idempotency-Key of the valid request it came from.      *)
(***************************************************************************)
EXTENDS HttpEdge, EventBusProofs

\* A listener reaches the bus by connect(), publish() and close() alone.
LEMMA ListenerUsesBus ==
    ASSUME NEW p \in Procs, ListenerStep(p)
    PROVE  PublisherStep(p)
<1>1. ASSUME NEW r \in Requests, NEW to \in [Consumers -> Keys], Receive(p, r, to)
      PROVE  PublisherStep(p)
  <2>1. KeyOf[r] \in MsgIds \cup {NoMsgId}
    BY EdgeAssumption
  <2>2. Publish(p, KeyOf[r], to)
    BY <1>1 DEF Receive
  <2> QED
    BY <2>1, <2>2 DEF PublisherStep
<1>2. CASE Accept(p)
  BY <1>2 DEF Accept, PublisherStep
<1>3. CASE Fail(p)
  BY <1>3 DEF Fail, PublisherStep
<1>4. CASE Lifespan(p)
  BY <1>4 DEF Lifespan, PublisherStep
<1> QED
  BY <1>1, <1>2, <1>3, <1>4 DEF ListenerStep

\* A handler that has an event has it from fetch(): the sequence number it acks
\* or naks is one of the stream's.
LEMMA AckedFromStream ==
    ASSUME TypeOK, NEW c \in Consumers, NEW i, Handled(c, i)
    PROVE  i \in Seqs
  BY DEF TypeOK, Handled

\* An adapter reaches the bus by its start and end, fetch(), ack() and nak().
LEMMA AdapterUsesBus ==
    ASSUME TypeOK, NEW c \in Consumers, AdapterStep(c)
    PROVE  ConsumerStep(c) \/ UNCHANGED vars
<1>1. ASSUME AckPost(c)
      PROVE  ConsumerStep(c)
  <2>1. Ack(c, post[c].ev)
    BY <1>1 DEF AckPost
  <2>2. post[c].ev \in Seqs
    BY <2>1, AckedFromStream DEF Ack
  <2> QED
    BY <2>1, <2>2 DEF ConsumerStep
<1>2. ASSUME NakPost(c)
      PROVE  ConsumerStep(c)
  <2>1. Nak(c, post[c].ev)
    BY <1>2 DEF NakPost
  <2>2. post[c].ev \in Seqs
    BY <2>1, AckedFromStream DEF Nak
  <2> QED
    BY <2>1, <2>2 DEF ConsumerStep
<1>3. ASSUME NEW i \in Seqs, StartPost(c, i)
      PROVE  UNCHANGED vars
  BY <1>3 DEF StartPost
<1>4. CASE SenderDone(c)
  BY <1>1, <1>4 DEF SenderDone
<1>5. CASE NoResponse(c)
  BY <1>2, <1>5 DEF NoResponse
<1>6. CASE Respond(c)
  BY <1>6 DEF Respond
<1>7. CASE Report(c)
  BY <1>7 DEF Report
<1>8. CASE ReportDone(c)
  BY <1>1, <1>8 DEF ReportDone
<1>9. CASE Stop(c)
  BY <1>9 DEF Stop, ConsumerStep
<1>10. CASE StartAdapter(c)
  BY <1>10 DEF StartAdapter, ConsumerStep
<1>11. CASE RunOnce(c)
  BY <1>11 DEF RunOnce, ConsumerStep
<1> QED
  BY <1>3, <1>4, <1>5, <1>6, <1>7, <1>8, <1>9, <1>10, <1>11 DEF AdapterStep

\* What the server does by itself is a step of EventBus as it stands.
LEMMA BusStepIsStep ==
    ASSUME BusStep
    PROVE  Next
  BY DEF BusStep, Next, PublisherStep, ConsumerStep

\* Every step of the adapters is a step of the bus or leaves it alone.
LEMMA EdgeStepUsesBus ==
    ASSUME TypeOK, [EdgeNext]_edgeVars
    PROVE  [Next]_vars
<1>1. ASSUME NEW p \in Procs, ListenerStep(p)
      PROVE  Next
  BY <1>1, ListenerUsesBus DEF Next
<1>2. ASSUME NEW c \in Consumers, AdapterStep(c)
      PROVE  [Next]_vars
  BY <1>2, AdapterUsesBus DEF Next
<1>3. CASE BusStep
  BY <1>3, BusStepIsStep
<1>4. CASE UNCHANGED edgeVars
  BY <1>4 DEF edgeVars
<1> QED
  BY <1>1, <1>2, <1>3, <1>4 DEF EdgeNext

\* HttpEdge writes its steps as steps of EventBus, so the theorems about the bus
\* carry over.
LEMMA EdgeUsesBus == EdgeSpec => Spec
<1>1. EdgeInit => Init /\ IInv
  BY InitIInv DEF EdgeInit
<1>2. IInv /\ [EdgeNext]_edgeVars => [Next]_vars
  BY EdgeStepUsesBus DEF IInv
<1>3. IInv /\ [EdgeNext]_edgeVars => IInv'
  BY <1>2, NextIInv
<1>4. QED
  BY <1>1, <1>2, <1>3, PTL DEF EdgeSpec, Spec

\* A webhook that its sender posts again with its Idempotency-Key, after a 500
\* or after no answer, is one event until the duplicate window passes.
THEOREM WebhookRetrySafety == EdgeSpec => []RetryIsOneEvent
  BY RetrySafety, EdgeUsesBus, PTL

\* The id in a 202 is the one of an event in the stream under the request's key.
THEOREM WebhookRealIds == EdgeSpec => []ReturnedIdsAreReal
  BY RealIds, EdgeUsesBus, PTL

\* Through the bus the HTTP-facing adapters are at-least-once consumers: no
\* event is acked unseen, handed out after its ack, or more than MaxDeliver
\* times.
THEOREM EdgeAtLeastOnce == EdgeSpec => ImplementsAtLeastOnce
  BY Refinement, EdgeUsesBus, PTL

-------------------------------------------------------------------------------
(* What the adapters promise themselves.                                   *)

\* Event i was encrypted for a key that c has no more, or will not have when it
\* runs again.
Gone(c, i) == i \in 1 .. Last /\ (up[c] => stream[i].to[c] # epoch[c])

Cause(c, i) == <<i, "ack lost">> \in again[c] \/ (role[c] = "http" /\ <<i, "nak">> \in again[c])

\* The event in _handle() is one of the batch, all of which was processed.
AtInv(c) ==
    post[c] # NoPost =>
        /\ post[c].ev \in held[c] /\ inbox[c] = {}
        /\ posts[c][post[c].ev] > 0
        /\ post[c].at \in {"post", "report"} => reports[c][post[c].ev] < posts[c][post[c].ev]
        /\ post[c].at \in {"report", "ack"} => role[c] = "http"
        /\ post[c].at = "ack" => reports[c][post[c].ev] > 0

\* What is handed out and not posted yet is a run more than there were POSTs,
\* and a POST without a cause for another leaves nothing to hand out.
CountInv(c, i) ==
    /\ reports[c][i] <= posts[c][i] /\ posts[c][i] <= runs[c][i]
    /\ i \in held[c] /\ post[c].ev # i => posts[c][i] < runs[c][i]
    /\ status[c][i] = "acked" =>
          IF role[c] = "http" THEN reports[c][i] > 0 ELSE posts[c][i] > 0
    /\ posts[c][i] > 0 /\ ~Cause(c, i) =>
          posts[c][i] = 1 /\ (status[c][i] = "acked" \/ post[c].ev = i \/ Gone(c, i))

PostInv == \A c \in Consumers : AtInv(c) /\ \A i \in Seqs : CountInv(c, i)

\* An event has the eventId, the key and the source of a valid request.
Traced(d) == d.id <= nextId /\ source[d.id] \in Valid /\ KeyOf[source[d.id]] = d.msgId

Stored(r) ==
    \E i \in 1 .. Last :
        \/ source[stream[i].id] = r
        \/ KeyOf[r] # NoMsgId /\ KeyOf[source[stream[i].id]] = KeyOf[r]

WebInv ==
    /\ \A i \in 1 .. Last : Traced(stream[i])
    /\ \A d \in ghosts : Traced(d)
    /\ \A p \in Procs : draft[p] # NoDraft => Traced(draft[p]) /\ source[draft[p].id] = serving[p]
    /\ \A r \in Requests : answer[r] = "202" => Stored(r)

EdgeInv == IInv /\ DedupInv /\ EdgeTypeOK /\ PostInv /\ WebInv

LEMMA PostShape ==
  ASSUME EdgeTypeOK, NEW c \in Consumers
  PROVE  /\ post[c] = NoPost => post[c].ev = 0 /\ post[c].at = "idle"
         /\ post[c] # NoPost <=> post[c].at \in {"post", "report", "ack"}
         /\ post[c] # NoPost <=> post[c].ev \in Seqs
         /\ 0 \notin Seqs
  <1>1. NoPost.ev = 0 /\ NoPost.at = "idle"
    BY DEF NoPost
  <1>2. 0 \notin Seqs
    BY BusAssumption DEF Seqs
  <1>3. \A j \in [ev : Seqs, at : {"post", "report", "ack"}] :
           j.ev \in Seqs /\ j.at \in {"post", "report", "ack"}
    OBVIOUS
  <1>4. post[c] = NoPost \/ post[c] \in [ev : Seqs, at : {"post", "report", "ack"}]
    BY DEF EdgeTypeOK
  <1> QED BY <1>1, <1>2, <1>3, <1>4

LEMMA EdgeCounts ==
  ASSUME EdgeInv, NEW c \in Consumers, NEW i \in Seqs
  PROVE  /\ posts[c][i] \in Nat /\ reports[c][i] \in Nat /\ runs[c][i] \in 0 .. MaxDeliver
         /\ MaxDeliver \in Nat
  <1>1. MaxDeliver \in Nat
    BY BusAssumption
  <1>2. /\ posts[c][i] \in 0 .. MaxDeliver /\ reports[c][i] \in 0 .. MaxDeliver
        /\ runs[c][i] \in 0 .. MaxDeliver
    <2>1. /\ posts \in [Consumers -> [Seqs -> 0 .. MaxDeliver]]
          /\ reports \in [Consumers -> [Seqs -> 0 .. MaxDeliver]]
          /\ runs \in [Consumers -> [Seqs -> 0 .. MaxDeliver]]
      BY DEF EdgeInv, EdgeTypeOK, IInv, TypeOK
    <2> HIDE DEF Seqs
    <2> QED BY <2>1
  <1> QED BY <1>1, <1>2

\* A consumer whose handler does nothing, while the bus hands out, starts it or
\* lets ack waits pass.
LEMMA KeepPost ==
  ASSUME EdgeInv, NEW c \in Consumers,
         post'[c] = post[c], posts'[c] = posts[c], reports'[c] = reports[c],
         again'[c] = again[c], role'[c] = role[c],
         post[c] # NoPost => held'[c] = held[c] /\ inbox'[c] = inbox[c],
         \A i \in Seqs :
            /\ runs'[c][i] \in Nat /\ runs'[c][i] >= runs[c][i]
            /\ i \in held'[c] => i \in held[c] \/ runs'[c][i] > runs[c][i]
            /\ status'[c][i] = "acked" <=> status[c][i] = "acked"
            /\ Gone(c, i) => Gone(c, i)'
  PROVE  AtInv(c)' /\ \A i \in Seqs : CountInv(c, i)'
  <1>1. AtInv(c)'
    BY DEF EdgeInv, PostInv, AtInv
  <1>2. ASSUME NEW i \in Seqs PROVE CountInv(c, i)'
    <2>1. CountInv(c, i)
      BY DEF EdgeInv, PostInv
    <2>2. Cause(c, i)' = Cause(c, i)
      BY DEF Cause
    <2>3. /\ posts[c][i] \in Nat /\ reports[c][i] \in Nat /\ runs[c][i] \in Nat
          /\ runs'[c][i] \in Nat /\ runs'[c][i] >= runs[c][i]
      BY EdgeCounts
    <2>4. posts'[c][i] <= runs'[c][i] /\ reports'[c][i] <= posts'[c][i]
      BY <2>1, <2>3 DEF CountInv
    <2>5. i \in held'[c] /\ post'[c].ev # i => posts'[c][i] < runs'[c][i]
      BY <2>1, <2>3 DEF CountInv
    <2> QED BY <2>1, <2>2, <2>4, <2>5 DEF CountInv
  <1> QED BY <1>1, <1>2

\* The events that are in the stream stay what they are.
LEMMA GoneStays ==
  ASSUME EdgeInv, NEW c \in Consumers, NEW i \in Seqs, Gone(c, i),
         Len(stream') \in Nat, Len(stream') >= Len(stream),
         \A j \in 1 .. Last : stream'[j] = stream[j],
         \/ up'[c] = up[c] /\ epoch'[c] = epoch[c]
         \/ epoch'[c] = epoch[c] + 1
         \/ ~up'[c]
  PROVE  Gone(c, i)'
  <1>1. i \in 1 .. Len(stream) /\ Len(stream) \in Nat
    BY DEF Gone, Last, EdgeInv, IInv, TypeOK
  <1>2. i \in 1 .. Len(stream') /\ stream'[i] = stream[i]
    BY <1>1 DEF Last
  <1>3. stream[i].to[c] \in Nat /\ stream[i].to[c] <= epoch[c] /\ epoch[c] \in Nat
    <2>1. stream[i] \in Event /\ stream[i].to[c] <= epoch[c]
      BY <1>1, StreamHoldsEvents DEF EdgeInv, IInv, KeyInv, Last
    <2> QED BY <2>1, KeyIsNat, BusAssumption DEF EdgeInv, IInv, TypeOK, Keys
  <1> QED BY <1>2, <1>3 DEF Gone, Last

\* Steps of the listener and of the server itself.
LEMMA AwayFromHandlers ==
  ASSUME EdgeInv, UNCHANGED <<durableVars, clientVars, relayVars>>,
         Len(stream') \in Nat, Len(stream') >= Len(stream),
         \A j \in 1 .. Last : stream'[j] = stream[j]
  PROVE  PostInv'
  <1> SUFFICES ASSUME NEW c \in Consumers
               PROVE  AtInv(c)' /\ \A i \in Seqs : CountInv(c, i)'
    BY DEF PostInv
  <1>1. \A i \in Seqs : Gone(c, i) => Gone(c, i)'
    BY GoneStays DEF clientVars
  <1>2. \A i \in Seqs : runs[c][i] \in Nat /\ runs[c][i] >= runs[c][i]
    BY EdgeCounts
  <1> QED BY <1>1, <1>2, KeepPost DEF durableVars, clientVars, relayVars

\* Steps that store nothing and leave the requests alone.
LEMMA AwayFromStream ==
  ASSUME EdgeInv, UNCHANGED <<stream, ghosts, draft, nextId, webVars>>
  PROVE  WebInv'
  BY DEF EdgeInv, WebInv, Traced, Stored, Last, webVars

LEMMA SameStream ==
  ASSUME EdgeInv, UNCHANGED stream
  PROVE  Len(stream') \in Nat /\ Len(stream') >= Len(stream) /\ \A j \in 1 .. Last : stream'[j] = stream[j]
  BY DEF EdgeInv, IInv, TypeOK, Last

-------------------------------------------------------------------------------
(* The listener and the server.                                            *)

LEMMA LifespanStep ==
  ASSUME EdgeInv, NEW p \in Procs, Lifespan(p) PROVE EdgeTypeOK' /\ PostInv' /\ WebInv'
  <1>1. /\ UNCHANGED <<webVars, relayVars, durableVars, clientVars>>
        /\ UNCHANGED <<stream, ghosts, draft, nextId>>
    BY DEF Lifespan, Connect, Disconnect, serverVars
  <1>2. EdgeTypeOK'
    BY <1>1 DEF EdgeInv, EdgeTypeOK, webVars, relayVars
  <1>3. PostInv'
    BY <1>1, SameStream, AwayFromHandlers
  <1> QED BY <1>1, <1>2, <1>3, AwayFromStream

\* The eventId of a new event is nobody's yet.
LEMMA ReceiveStep ==
  ASSUME EdgeInv, NEW p \in Procs, NEW r \in Requests, NEW to \in [Consumers -> Keys],
         Receive(p, r, to)
  PROVE  EdgeTypeOK' /\ PostInv' /\ WebInv'
  <1>1. /\ r \in Valid /\ Publish(p, KeyOf[r], to)
        /\ serving' = [serving EXCEPT ![p] = r]
        /\ answer' = [answer EXCEPT ![r] = "pending"]
        /\ source' = [source EXCEPT ![nextId + 1] = r]
        /\ UNCHANGED relayVars
    BY DEF Receive
  <1> DEFINE d == [id |-> nextId + 1, msgId |-> KeyOf[r], signer |-> p, to |-> to]
  <1>2. /\ nextId < MaxPublish /\ nextId' = nextId + 1
        /\ draft' = [draft EXCEPT ![p] = d]
        /\ UNCHANGED <<stream, ghosts, durableVars, clientVars>>
    BY <1>1 DEF Publish, serverVars
  <1>3. d.id = nextId + 1 /\ d.msgId = KeyOf[r]
    OBVIOUS
  <1> HIDE DEF d
  <1>4. nextId \in Nat /\ nextId + 1 \in Ids
    BY <1>2, BusAssumption DEF EdgeInv, IInv, TypeOK, Ids
  <1>5. EdgeTypeOK'
    BY <1>1, <1>4 DEF EdgeInv, EdgeTypeOK, relayVars
  <1>6. PostInv'
    BY <1>1, <1>2, SameStream, AwayFromHandlers
  <1>7. /\ source'[nextId + 1] = r
        /\ \A n \in Ids : n <= nextId => source'[n] = source[n]
    <2>1. source \in [Ids -> Requests \cup {NoRequest}]
      BY DEF EdgeInv, EdgeTypeOK
    <2>2. \A n \in Ids : n <= nextId => n # nextId + 1
      BY <1>4 DEF Ids
    <2> QED BY <1>1, <1>4, <2>1, <2>2
  <1>8. ASSUME NEW e \in Event, Traced(e)
        PROVE  Traced(e)' /\ source'[e.id] = source[e.id]
    <2>1. e.id \in Ids /\ e.id \in Nat /\ e.id <= nextId
      BY <1>8 DEF Event, Ids, Traced
    <2> QED BY <1>2, <1>4, <1>7, <1>8, <2>1 DEF Traced
  <1>9. WebInv'
    <2>1. \A i \in 1 .. Last : stream[i] \in Event /\ Traced(stream[i])
      BY StreamHoldsEvents DEF EdgeInv, IInv, WebInv
    <2>2. \A i \in 1 .. Last' : Traced(stream[i])'
      BY <1>2, <1>8, <2>1 DEF Last, Traced
    <2>3. \A e \in ghosts' : Traced(e)'
      BY <1>2, <1>8 DEF EdgeInv, IInv, TypeOK, WebInv
    <2>4. ASSUME NEW q \in Procs, draft'[q] # NoDraft
          PROVE  Traced(draft[q])' /\ source'[draft'[q].id] = serving'[q]
      <3>1. CASE q = p
        <4>1. draft'[q] = d /\ serving'[q] = r
          BY <1>1, <1>2, <3>1 DEF EdgeInv, IInv, TypeOK, EdgeTypeOK
        <4> QED BY <1>1, <1>2, <1>3, <1>4, <1>7, <4>1 DEF Traced
      <3>2. CASE q # p
        <4>1. draft'[q] = draft[q] /\ serving'[q] = serving[q]
          BY <1>1, <1>2, <3>2 DEF EdgeInv, IInv, TypeOK, EdgeTypeOK
        <4>2. draft[q] \in Event /\ Traced(draft[q]) /\ source[draft[q].id] = serving[q]
          BY <2>4, <4>1 DEF EdgeInv, IInv, TypeOK, WebInv
        <4> QED BY <1>8, <4>1, <4>2 DEF Traced
      <3> QED BY <3>1, <3>2
    <2>5. ASSUME NEW q \in Requests, answer'[q] = "202" PROVE Stored(q)'
      <3>1. answer[q] = "202"
        BY <1>1, <2>5 DEF EdgeInv, EdgeTypeOK
      <3>2. Stored(q)
        BY <3>1 DEF EdgeInv, WebInv
      <3>3. \A i \in 1 .. Last : source'[stream[i].id] = source[stream[i].id]
        BY <1>8, <2>1
      <3> QED BY <1>2, <3>2, <3>3 DEF Stored, Last
    <2> QED BY <2>2, <2>3, <2>4, <2>5 DEF WebInv
  <1> QED BY <1>5, <1>6, <1>9

LEMMA AnswerType ==
  ASSUME EdgeInv, NEW p \in Procs, NEW a \in {"202", "500"}, Answer(p, a)
  PROVE  EdgeTypeOK'
  BY DEF EdgeInv, EdgeTypeOK, Answer, relayVars

LEMMA FailStep ==
  ASSUME EdgeInv, NEW p \in Procs, Fail(p) PROVE EdgeTypeOK' /\ PostInv' /\ WebInv'
  <1>1. PublishRaises(p) /\ Answer(p, "500")
    BY DEF Fail
  <1>2. /\ draft[p] # NoDraft /\ ghosts' \subseteq ghosts \cup {draft[p]}
        /\ draft' = [draft EXCEPT ![p] = NoDraft]
        /\ UNCHANGED <<stream, nextId, durableVars, clientVars>>
        /\ answer' = [answer EXCEPT ![serving[p]] = "500"]
        /\ serving' = [serving EXCEPT ![p] = NoRequest]
        /\ UNCHANGED <<source, relayVars>>
    BY <1>1 DEF PublishRaises, Answer, serverVars
  <1>3. PostInv'
    BY <1>2, SameStream, AwayFromHandlers
  <1>4. WebInv'
    <2>1. /\ \A i \in 1 .. Last' : Traced(stream[i])'
          /\ \A d \in ghosts' : Traced(d)'
      BY <1>2 DEF EdgeInv, WebInv, Traced, Last
    <2>2. ASSUME NEW q \in Procs, draft'[q] # NoDraft
          PROVE  Traced(draft[q])' /\ source'[draft'[q].id] = serving'[q]
      <3>1. q # p /\ draft'[q] = draft[q] /\ serving'[q] = serving[q]
        BY <1>2, <2>2 DEF EdgeInv, IInv, TypeOK, EdgeTypeOK
      <3> QED BY <1>2, <2>2, <3>1 DEF EdgeInv, WebInv, Traced
    <2>3. ASSUME NEW r \in Requests, answer'[r] = "202" PROVE Stored(r)'
      <3>1. answer[r] = "202"
        BY <1>2, <2>3 DEF EdgeInv, EdgeTypeOK
      <3> QED BY <1>2, <3>1 DEF EdgeInv, WebInv, Stored, Last
    <2> QED BY <2>1, <2>2, <2>3 DEF WebInv
  <1> QED BY <1>1, <1>3, <1>4, AnswerType

\* An event that is stored, or found in the duplicate window.
LEMMA StoreWeb ==
  ASSUME EdgeInv, NEW d \in Event, Traced(d), Store(d), UNCHANGED <<nextId, source>>
  PROVE  /\ Len(stream') \in Nat /\ Len(stream') >= Len(stream)
         /\ \A j \in 1 .. Last : stream'[j] = stream[j]
         /\ \A i \in 1 .. Last' : Traced(stream[i])'
         /\ \A r \in Requests : Stored(r) => Stored(r)'
         /\ Stored(source[d.id])'
  <1>1. /\ stream' \in Seq(Event)
        /\ Last <= Len(stream') /\ Len(stream) \in Nat /\ Len(stream') \in Nat
        /\ \A i \in 1 .. Last : stream'[i] = stream[i]
        /\ \A i \in 1 .. Len(stream') : i > Last => i = Last + 1 /\ stream'[i] = d
    BY StoreEffect DEF EdgeInv, IInv, TypeOK
  <1>2. \A i \in 1 .. Last : i \in 1 .. Len(stream')
    BY <1>1 DEF Last
  <1>3. \A i \in 1 .. Len(stream') : i \in 1 .. Last \/ stream'[i] = d
    BY <1>1 DEF Last
  <1>4. \A i \in 1 .. Last' : Traced(stream[i])'
    BY <1>1, <1>3 DEF EdgeInv, WebInv, Traced, Last
  <1>5. \A r \in Requests : Stored(r) => Stored(r)'
    BY <1>1, <1>2 DEF Stored, Last
  <1>6. Stored(source[d.id])'
    <2>1. CASE Duplicate(d)
      <3>1. d.msgId # NoMsgId /\ d.msgId \in MsgIds /\ window[d.msgId] # 0
        BY <2>1 DEF Duplicate, Event
      <3>2. window[d.msgId] \in 1 .. Last /\ stream[window[d.msgId]].msgId = d.msgId
        BY <3>1, <1>1 DEF EdgeInv, IInv, TypeOK, DedupInv, Last
      <3>3. KeyOf[source[stream[window[d.msgId]].id]] = d.msgId
        BY <3>2 DEF EdgeInv, WebInv, Traced
      <3>4. KeyOf[source[d.id]] = d.msgId
        BY DEF Traced
      <3>5. window[d.msgId] \in 1 .. Len(stream') /\ stream'[window[d.msgId]] = stream[window[d.msgId]]
        BY <1>1, <1>2, <3>2
      <3> QED BY <3>1, <3>3, <3>4, <3>5 DEF Stored, Last
    <2>2. CASE ~Duplicate(d)
      <3>1. stream' = Append(stream, d) /\ stream \in Seq(Event)
        BY <2>2 DEF Store, EdgeInv, IInv, TypeOK
      <3>2. Len(stream') = Len(stream) + 1 /\ stream'[Len(stream) + 1] = d
        BY <3>1
      <3>3. Len(stream) + 1 \in 1 .. Len(stream')
        BY <1>1, <3>2
      <3> QED BY <3>2, <3>3 DEF Stored, Last
    <2> QED BY <2>1, <2>2
  <1> QED BY <1>1, <1>4, <1>5, <1>6 DEF Last

LEMMA AcceptStep ==
  ASSUME EdgeInv, NEW p \in Procs, Accept(p) PROVE EdgeTypeOK' /\ PostInv' /\ WebInv'
  <1>1. PublishReturns(p) /\ Answer(p, "202")
    BY DEF Accept
  <1>2. /\ draft[p] # NoDraft /\ Store(draft[p])
        /\ draft' = [draft EXCEPT ![p] = NoDraft]
        /\ UNCHANGED <<ghosts, nextId, durableVars, clientVars>>
        /\ answer' = [answer EXCEPT ![serving[p]] = "202"]
        /\ serving' = [serving EXCEPT ![p] = NoRequest]
        /\ UNCHANGED <<source, relayVars>>
    BY <1>1 DEF PublishReturns, Answer
  <1>3. PICK d \in Event : d = draft[p]
    BY <1>2 DEF EdgeInv, IInv, TypeOK
  <1>4. Traced(d) /\ source[d.id] = serving[p] /\ Store(d)
    BY <1>2, <1>3 DEF EdgeInv, WebInv
  <1>5. /\ Len(stream') \in Nat /\ Len(stream') >= Len(stream)
        /\ \A j \in 1 .. Last : stream'[j] = stream[j]
        /\ \A i \in 1 .. Last' : Traced(stream[i])'
        /\ \A r \in Requests : Stored(r) => Stored(r)'
        /\ Stored(source[d.id])'
    BY <1>2, <1>4, StoreWeb
  <1>6. PostInv'
    BY <1>2, <1>5, AwayFromHandlers
  <1>7. WebInv'
    <2>1. \A e \in ghosts' : Traced(e)'
      BY <1>2 DEF EdgeInv, WebInv, Traced
    <2>2. ASSUME NEW q \in Procs, draft'[q] # NoDraft
          PROVE  Traced(draft[q])' /\ source'[draft'[q].id] = serving'[q]
      <3>1. q # p /\ draft'[q] = draft[q] /\ serving'[q] = serving[q]
        BY <1>2, <2>2 DEF EdgeInv, IInv, TypeOK, EdgeTypeOK
      <3> QED BY <1>2, <2>2, <3>1 DEF EdgeInv, WebInv, Traced
    <2>3. ASSUME NEW r \in Requests, answer'[r] = "202" PROVE Stored(r)'
      <3>1. CASE answer[r] = "202"
        BY <1>5, <3>1 DEF EdgeInv, WebInv
      <3>2. CASE answer[r] # "202"
        <4>1. r = source[d.id] /\ source' = source
          BY <1>2, <1>4, <2>3, <3>2 DEF EdgeInv, EdgeTypeOK
        <4> QED BY <1>5, <4>1 DEF Stored
      <3> QED BY <3>1, <3>2
    <2> QED BY <1>5, <2>1, <2>2, <2>3 DEF WebInv
  <1> QED BY <1>1, <1>6, <1>7, AnswerType

LEMMA GhostLandsWeb ==
  ASSUME EdgeInv, NEW d \in ghosts, GhostLands(d), UNCHANGED <<webVars, relayVars>>
  PROVE  PostInv' /\ WebInv'
  <1>1. /\ Store(d) /\ ghosts' = ghosts \ {d}
        /\ UNCHANGED <<draft, nextId, serving, answer, source, durableVars, clientVars>>
    BY DEF GhostLands, webVars
  <1>2. d \in Event /\ Traced(d)
    BY DEF EdgeInv, IInv, TypeOK, WebInv
  <1>3. /\ Len(stream') \in Nat /\ Len(stream') >= Len(stream)
        /\ \A j \in 1 .. Last : stream'[j] = stream[j]
        /\ \A i \in 1 .. Last' : Traced(stream[i])'
        /\ \A r \in Requests : Stored(r) => Stored(r)'
    BY <1>1, <1>2, StoreWeb
  <1>4. PostInv'
    BY <1>1, <1>3, AwayFromHandlers
  <1>5. WebInv'
    <2>1. \A e \in ghosts' : Traced(e)'
      BY <1>1 DEF EdgeInv, WebInv, Traced
    <2>2. \A q \in Procs : draft'[q] # NoDraft =>
             Traced(draft[q])' /\ source'[draft'[q].id] = serving'[q]
      BY <1>1 DEF EdgeInv, WebInv, Traced
    <2>3. \A r \in Requests : answer'[r] = "202" => Stored(r)'
      BY <1>1, <1>3 DEF EdgeInv, WebInv
    <2> QED BY <1>3, <2>1, <2>2, <2>3 DEF WebInv
  <1> QED BY <1>4, <1>5

\* An ack wait that passes leaves the handler where it is.
LEMMA AckWaitWeb ==
  ASSUME EdgeInv, NEW k \in Consumers, NEW n \in Seqs, AckWaitExpires(k, n),
         UNCHANGED <<webVars, relayVars>>
  PROVE  PostInv' /\ WebInv'
  <1>1. /\ status[k][n] = "out" /\ status' = [status EXCEPT ![k][n] = Again(k, n)]
        /\ UNCHANGED <<stream, ghosts, draft, nextId, clientVars>>
    BY DEF AckWaitExpires, serverVars, pubVars
  <1>2. Again(k, n) # "acked" /\ Again(k, n) \in {"redo", "dead"}
    BY DEF Again
  <1>3. \A c \in Consumers, i \in Seqs : status'[c][i] = "acked" <=> status[c][i] = "acked"
    BY <1>1, <1>2 DEF EdgeInv, IInv, TypeOK
  <1>4. ASSUME NEW c \in Consumers PROVE AtInv(c)' /\ \A i \in Seqs : CountInv(c, i)'
    <2>1. \A i \in Seqs : Gone(c, i) => Gone(c, i)'
      BY <1>1 DEF Gone, Last, clientVars
    <2>2. \A i \in Seqs : runs[c][i] \in Nat /\ runs[c][i] >= runs[c][i]
      BY EdgeCounts
    <2>3. /\ UNCHANGED <<post, posts, reports, again, role, held, inbox, runs>>
      BY <1>1 DEF clientVars, relayVars
    <2> QED BY <1>3, <2>1, <2>2, <2>3, KeepPost
  <1>5. PostInv'
    BY <1>4 DEF PostInv
  <1> QED BY <1>1, <1>5, AwayFromStream

LEMMA BusStepWeb ==
  ASSUME EdgeInv, BusStep, UNCHANGED <<webVars, relayVars>>
  PROVE  EdgeTypeOK' /\ PostInv' /\ WebInv'
  <1>1. EdgeTypeOK'
    BY DEF EdgeInv, EdgeTypeOK, webVars, relayVars
  <1>2. ASSUME NEW m \in MsgIds, WindowPasses(m) PROVE PostInv' /\ WebInv'
    <2>1. UNCHANGED <<stream, ghosts, draft, nextId, durableVars, clientVars>>
      BY <1>2 DEF WindowPasses, pubVars
    <2> QED BY <2>1, SameStream, AwayFromHandlers, AwayFromStream
  <1>3. ASSUME NEW s \in ServiceIds, IdentityExpires(s) PROVE PostInv' /\ WebInv'
    <2>1. UNCHANGED <<stream, ghosts, draft, nextId, durableVars, clientVars>>
      BY <1>3 DEF IdentityExpires, pubVars
    <2> QED BY <2>1, SameStream, AwayFromHandlers, AwayFromStream
  <1>4. ASSUME NEW p \in Procs, RegistrationLands(p) PROVE PostInv' /\ WebInv'
    <2>1. UNCHANGED <<stream, ghosts, draft, nextId, durableVars, clientVars>>
      BY <1>4 DEF RegistrationLands, pubVars
    <2> QED BY <2>1, SameStream, AwayFromHandlers, AwayFromStream
  <1> QED BY <1>1, <1>2, <1>3, <1>4, GhostLandsWeb, AckWaitWeb DEF BusStep, ServerStep

-------------------------------------------------------------------------------
(* The adapters.                                                           *)

\* What the steps of one handler leave alone for the others.
LEMMA OtherHandlers ==
  ASSUME EdgeInv, NEW c \in Consumers, UNCHANGED <<stream, role>>,
         \A k \in Consumers \ {c} :
            /\ post'[k] = post[k] /\ posts'[k] = posts[k] /\ reports'[k] = reports[k]
            /\ again'[k] = again[k] /\ status'[k] = status[k] /\ runs'[k] = runs[k]
            /\ held'[k] = held[k] /\ inbox'[k] = inbox[k]
            /\ up'[k] = up[k] /\ epoch'[k] = epoch[k],
         AtInv(c)', \A i \in Seqs : CountInv(c, i)'
  PROVE  PostInv'
  <1> SUFFICES ASSUME NEW k \in Consumers, k # c
               PROVE  AtInv(k)' /\ \A i \in Seqs : CountInv(k, i)'
    BY DEF PostInv
  <1>1. \A i \in Seqs : Gone(k, i) => Gone(k, i)'
    BY DEF Gone, Last
  <1>2. \A i \in Seqs : runs[k][i] \in Nat /\ runs[k][i] >= runs[k][i]
    BY EdgeCounts
  <1> QED BY <1>1, <1>2, KeepPost

LEMMA StartAdapterStep ==
  ASSUME EdgeInv, NEW c \in Consumers, StartAdapter(c)
  PROVE  EdgeTypeOK' /\ PostInv' /\ WebInv'
  <1>1. /\ ~up[c] /\ up' = [up EXCEPT ![c] = TRUE] /\ epoch' = [epoch EXCEPT ![c] = @ + 1]
        /\ UNCHANGED <<stream, ghosts, draft, nextId, webVars, status, held, inbox, runs>>
        /\ UNCHANGED <<role, post, posts, reports, again>>
    BY DEF StartAdapter, ConsumerStarts, serverVars, pubVars, durableVars, relayVars
  <1>2. EdgeTypeOK'
    BY <1>1 DEF EdgeInv, EdgeTypeOK, webVars
  <1>3. /\ epoch'[c] = epoch[c] + 1
        /\ \A k \in Consumers \ {c} : up'[k] = up[k] /\ epoch'[k] = epoch[k]
    BY <1>1 DEF EdgeInv, IInv, TypeOK
  <1>4. AtInv(c)' /\ \A i \in Seqs : CountInv(c, i)'
    <2>1. \A i \in Seqs : Gone(c, i) => Gone(c, i)'
      BY <1>1, <1>3, SameStream, GoneStays
    <2>2. \A i \in Seqs : runs[c][i] \in Nat /\ runs[c][i] >= runs[c][i]
      BY EdgeCounts
    <2>3. UNCHANGED <<role, post, posts, reports, again, status, held, inbox, runs>>
      BY <1>1
    <2> QED BY <2>1, <2>2, <2>3, KeepPost
  <1>5. PostInv'
    <2>1. UNCHANGED <<stream, role, post, posts, reports, again, status, held, inbox, runs>>
      BY <1>1
    <2> QED BY <1>3, <1>4, <2>1, OtherHandlers
  <1> QED BY <1>1, <1>2, <1>5, AwayFromStream

\* fetch() and _process() run while no POST is under way.
LEMMA RunOnceStep ==
  ASSUME EdgeInv, NEW c \in Consumers, RunOnce(c)
  PROVE  EdgeTypeOK' /\ PostInv' /\ WebInv'
  <1>1. UNCHANGED <<webVars, role, post, posts, reports, again>>
    BY DEF RunOnce, relayVars
  <1>2. EdgeTypeOK'
    BY <1>1 DEF EdgeInv, EdgeTypeOK, webVars
  <1>3. ASSUME NEW B \in SUBSET Seqs, Fetch(c, B) PROVE PostInv' /\ WebInv'
    <2>1. /\ inbox[c] = {} /\ held[c] = {} /\ B \subseteq Deliverable(c)
          /\ inbox' = [inbox EXCEPT ![c] = B]
          /\ status' = [status EXCEPT ![c] = [i \in Seqs |-> IF i \in B THEN "out" ELSE @[i]]]
          /\ UNCHANGED <<stream, ghosts, draft, nextId, up, epoch, held, runs>>
      BY <1>3 DEF Fetch, serverVars, pubVars
    <2>2. post[c] = NoPost
      BY <2>1 DEF EdgeInv, PostInv, AtInv
    <2>3. \A i \in B : status[c][i] # "acked"
      BY <2>1 DEF Deliverable
    <2>4. /\ \A i \in Seqs : status'[c][i] = IF i \in B THEN "out" ELSE status[c][i]
          /\ \A k \in Consumers \ {c} : status'[k] = status[k] /\ inbox'[k] = inbox[k]
      BY <2>1 DEF EdgeInv, IInv, TypeOK
    <2>5. \A i \in Seqs : status'[c][i] = "acked" <=> status[c][i] = "acked"
      BY <2>3, <2>4
    <2>6. \A i \in Seqs : Gone(c, i) => Gone(c, i)'
      BY <2>1 DEF Gone, Last
    <2>7. \A i \in Seqs : runs[c][i] \in Nat /\ runs[c][i] >= runs[c][i]
      BY EdgeCounts
    <2>8. UNCHANGED <<stream, ghosts, draft, nextId, up, epoch, held, runs>>
      BY <2>1
    <2>9. AtInv(c)' /\ \A i \in Seqs : CountInv(c, i)'
      BY <1>1, <2>2, <2>5, <2>6, <2>7, <2>8, KeepPost
    <2>10. \A k \in Consumers \ {c} : status'[k] = status[k] /\ inbox'[k] = inbox[k]
      BY <2>4
    <2>11. PostInv'
      BY <1>1, <2>8, <2>9, <2>10, OtherHandlers
    <2> QED BY <1>1, <2>8, <2>11, AwayFromStream
  <1>4. ASSUME NEW n \in Seqs, Process(c, n) PROVE PostInv' /\ WebInv'
    <2>1. /\ n \in inbox[c] /\ inbox' = [inbox EXCEPT ![c] = @ \ {n}]
          /\ \/ UNCHANGED <<held, runs>>
             \/ /\ held' = [held EXCEPT ![c] = @ \cup {n}]
                /\ runs' = [runs EXCEPT ![c][n] = @ + 1]
          /\ UNCHANGED <<stream, ghosts, draft, nextId, up, epoch, status>>
      BY <1>4 DEF Process, serverVars, pubVars, durableVars
    <2>2. post[c] = NoPost
      BY <2>1 DEF EdgeInv, PostInv, AtInv
    <2>3. \A i \in Seqs : runs[c][i] \in Nat
      BY EdgeCounts
    <2>4. /\ \A i \in Seqs :
                /\ runs'[c][i] \in Nat /\ runs'[c][i] >= runs[c][i]
                /\ i \in held'[c] => i \in held[c] \/ runs'[c][i] > runs[c][i]
          /\ \A k \in Consumers \ {c} :
                runs'[k] = runs[k] /\ held'[k] = held[k] /\ inbox'[k] = inbox[k]
      <3>1. CASE UNCHANGED <<held, runs>>
        BY <2>1, <2>3, <3>1 DEF EdgeInv, IInv, TypeOK
      <3>2. CASE /\ held' = [held EXCEPT ![c] = @ \cup {n}]
                 /\ runs' = [runs EXCEPT ![c][n] = @ + 1]
        <4>1. /\ held'[c] = held[c] \cup {n}
              /\ \A i \in Seqs : runs'[c][i] = IF i = n THEN runs[c][i] + 1 ELSE runs[c][i]
              /\ \A k \in Consumers \ {c} :
                    runs'[k] = runs[k] /\ held'[k] = held[k] /\ inbox'[k] = inbox[k]
          BY <2>1, <3>2 DEF EdgeInv, IInv, TypeOK
        <4> QED BY <2>3, <4>1
      <3> QED BY <2>1, <3>1, <3>2
    <2>5. \A i \in Seqs : Gone(c, i) => Gone(c, i)'
      BY <2>1 DEF Gone, Last
    <2>6. UNCHANGED <<stream, ghosts, draft, nextId, up, epoch, status>>
      BY <2>1
    <2>7. AtInv(c)' /\ \A i \in Seqs : CountInv(c, i)'
      BY <1>1, <2>2, <2>4, <2>5, <2>6, KeepPost
    <2>8. PostInv'
      BY <1>1, <2>4, <2>6, <2>7, OtherHandlers
    <2> QED BY <1>1, <2>6, <2>8, AwayFromStream
  <1> QED BY <1>2, <1>3, <1>4 DEF RunOnce

\* An event in the batch was not acked, and its key is the one c has.
LEMMA HeldIsOpen ==
  ASSUME EdgeInv, NEW c \in Consumers, NEW i \in held[c]
  PROVE  i \in Seqs /\ status[c][i] # "acked" /\ ~Gone(c, i) /\ i \in 1 .. Last
  <1>1. i \in Seqs
    BY DEF EdgeInv, IInv, TypeOK
  <1>2. up[c] /\ status[c][i] # "acked" /\ status[c][i] # "new"
    BY <1>1 DEF EdgeInv, IInv, DeliveryInv
  <1>3. i \in 1 .. Last
    <2>1. num[c][i] \in Nat /\ num[c][i] # 0 /\ (num[c][i] > 0 => i <= Last) /\ Last \in Nat
      BY <1>1, <1>2, CountsAreNat DEF EdgeInv, IInv, DeliveryInv, TypeOK, Last
    <2>2. i \in Nat /\ i >= 1
      BY <1>1 DEF Seqs
    <2> QED BY <2>1, <2>2
  <1>4. stream[i].to[c] = epoch[c]
    BY <1>3 DEF EdgeInv, IInv, SeenInv, Decrypts
  <1> QED BY <1>1, <1>2, <1>3, <1>4 DEF Gone

LEMMA StartPostStep ==
  ASSUME EdgeInv, NEW c \in Consumers, NEW n \in Seqs, StartPost(c, n)
  PROVE  EdgeTypeOK' /\ PostInv' /\ WebInv'
  <1>1. /\ n \in held[c] /\ inbox[c] = {} /\ post[c] = NoPost
        /\ post' = [post EXCEPT ![c] = [ev |-> n, at |-> "post"]]
        /\ posts' = [posts EXCEPT ![c][n] = @ + 1]
    BY DEF StartPost
  <1>2. /\ UNCHANGED <<stream, ghosts, draft, nextId, webVars>>
        /\ UNCHANGED <<role, reports, again, status, runs, held, inbox, up, epoch>>
    BY DEF StartPost, vars, serverVars, pubVars, durableVars, clientVars
  <1>3. post[c].ev = 0 /\ 0 \notin Seqs
    BY <1>1, PostShape DEF EdgeInv
  <1>4. status[c][n] # "acked" /\ ~Gone(c, n)
    BY <1>1, HeldIsOpen
  <1>5. /\ posts[c][n] \in Nat /\ posts[c][n] < runs[c][n] /\ reports[c][n] <= posts[c][n]
        /\ reports[c][n] \in Nat
        /\ runs[c][n] \in 0 .. MaxDeliver /\ MaxDeliver \in Nat
        /\ Cause(c, n) \/ posts[c][n] = 0
    <2>1. CountInv(c, n) /\ n # 0
      BY <1>3 DEF EdgeInv, PostInv
    <2>2. posts[c][n] \in Nat /\ (Cause(c, n) \/ ~(posts[c][n] > 0))
      BY <1>3, <1>4, <2>1, EdgeCounts DEF CountInv
    <2> QED BY <1>1, <1>3, <2>1, <2>2, EdgeCounts DEF CountInv
  <1>6. posts[c][n] + 1 \in 0 .. MaxDeliver
    BY <1>5
  <1>7. posts' \in [Consumers -> [Seqs -> 0 .. MaxDeliver]]
    BY <1>1, <1>6 DEF EdgeInv, EdgeTypeOK
  <1>8. post' \in [Consumers -> {NoPost} \cup [ev : Seqs, at : {"post", "report", "ack"}]]
    BY <1>1 DEF EdgeInv, EdgeTypeOK
  <1>9. EdgeTypeOK'
    BY <1>2, <1>7, <1>8 DEF EdgeInv, EdgeTypeOK, webVars
  <1>10. /\ post'[c].ev = n /\ post'[c].at = "post" /\ posts'[c][n] = posts[c][n] + 1
         /\ \A i \in Seqs \ {n} : posts'[c][i] = posts[c][i]
         /\ \A k \in Consumers \ {c} : posts'[k] = posts[k] /\ post'[k] = post[k]
    BY <1>1 DEF EdgeInv, EdgeTypeOK
  <1>11. AtInv(c)'
    BY <1>1, <1>2, <1>5, <1>10 DEF AtInv
  <1>12. ASSUME NEW i \in Seqs PROVE CountInv(c, i)'
    <2>1. Cause(c, i)' = Cause(c, i) /\ Gone(c, i)' = Gone(c, i)
      BY <1>2 DEF Cause, Gone, Last
    <2>2. CASE i = n
      BY <1>2, <1>4, <1>5, <1>10, <2>1, <2>2 DEF CountInv
    <2>3. CASE i # n
      <3>1. CountInv(c, i) /\ posts'[c][i] = posts[c][i] /\ post[c].ev # i
        BY <1>3, <1>10, <2>3 DEF EdgeInv, PostInv
      <3> QED BY <1>2, <2>1, <3>1 DEF CountInv
    <2> QED BY <2>2, <2>3
  <1>13. PostInv'
    <2>1. \A k \in Consumers \ {c} : posts'[k] = posts[k] /\ post'[k] = post[k]
      BY <1>10
    <2> QED BY <1>2, <1>11, <1>12, <2>1, OtherHandlers
  <1> QED BY <1>2, <1>9, <1>13, AwayFromStream

\* The handler goes on to its next await with the same event.
LEMMA HandlerMoves ==
  ASSUME EdgeTypeOK, NEW c \in Consumers, NEW a \in {"report", "ack"}, post[c] # NoPost,
         post' = [post EXCEPT ![c].at = a]
  PROVE  /\ post' \in [Consumers -> {NoPost} \cup [ev : Seqs, at : {"post", "report", "ack"}]]
         /\ post'[c].ev = post[c].ev /\ post'[c].at = a
         /\ \A k \in Consumers \ {c} : post'[k] = post[k]
  <1>1. /\ post \in [Consumers -> {NoPost} \cup [ev : Seqs, at : {"post", "report", "ack"}]]
        /\ post[c] \in [ev : Seqs, at : {"post", "report", "ack"}]
    BY DEF EdgeTypeOK
  <1>2. PICK r \in [ev : Seqs, at : {"post", "report", "ack"}] : r = post[c]
    BY <1>1
  <1>3. [r EXCEPT !.at = a] = [ev |-> r.ev, at |-> a]
    OBVIOUS
  <1>4. post' = [post EXCEPT ![c] = [ev |-> r.ev, at |-> a]]
    BY <1>2, <1>3
  <1>5. [ev |-> r.ev, at |-> a] \in [ev : Seqs, at : {"post", "report", "ack"}]
    BY <1>2
  <1> QED BY <1>1, <1>2, <1>4, <1>5

LEMMA RespondStep ==
  ASSUME EdgeInv, NEW c \in Consumers, Respond(c)
  PROVE  EdgeTypeOK' /\ PostInv' /\ WebInv'
  <1>1. /\ role[c] = "http" /\ post[c].at = "post"
        /\ post' = [post EXCEPT ![c].at = "report"]
    BY DEF Respond
  <1>2. /\ UNCHANGED <<stream, ghosts, draft, nextId, webVars>>
        /\ UNCHANGED <<role, posts, reports, again, status, runs, held, inbox, up, epoch>>
    BY DEF Respond, vars, serverVars, pubVars, durableVars, clientVars
  <1>3. post[c] # NoPost
    BY <1>1, PostShape DEF EdgeInv
  <1>4. /\ post' \in [Consumers -> {NoPost} \cup [ev : Seqs, at : {"post", "report", "ack"}]]
        /\ post'[c].ev = post[c].ev /\ post'[c].at = "report"
        /\ \A k \in Consumers \ {c} : post'[k] = post[k]
    BY <1>1, <1>3, HandlerMoves DEF EdgeInv
  <1>5. EdgeTypeOK'
    BY <1>2, <1>4 DEF EdgeInv, EdgeTypeOK, webVars
  <1>6. AtInv(c)'
    BY <1>1, <1>2, <1>3, <1>4 DEF EdgeInv, PostInv, AtInv
  <1>7. ASSUME NEW i \in Seqs PROVE CountInv(c, i)'
    <2>1. Cause(c, i)' = Cause(c, i) /\ Gone(c, i)' = Gone(c, i)
      BY <1>2 DEF Cause, Gone, Last
    <2> QED BY <1>2, <1>4, <2>1 DEF EdgeInv, PostInv, CountInv
  <1>8. PostInv'
    <2>1. \A k \in Consumers \ {c} : post'[k] = post[k]
      BY <1>4
    <2> QED BY <1>2, <1>6, <1>7, <2>1, OtherHandlers
  <1> QED BY <1>2, <1>5, <1>8, AwayFromStream

\* A report follows a POST that has none yet.
LEMMA ReportedCount ==
  ASSUME EdgeInv, NEW c \in Consumers, post[c].at = "report", Reported(c)
  PROVE  /\ post[c].ev \in Seqs
         /\ reports' \in [Consumers -> [Seqs -> 0 .. MaxDeliver]]
         /\ reports'[c][post[c].ev] = reports[c][post[c].ev] + 1
         /\ reports'[c][post[c].ev] <= posts[c][post[c].ev]
         /\ reports'[c][post[c].ev] > 0
         /\ \A i \in Seqs : i # post[c].ev => reports'[c][i] = reports[c][i]
         /\ \A k \in Consumers \ {c} : reports'[k] = reports[k]
  <1>1. post[c] # NoPost /\ post[c].ev \in Seqs
    BY PostShape DEF EdgeInv
  <1>2. PICK n \in Seqs : n = post[c].ev
    BY <1>1
  <1>3. reports[c][n] < posts[c][n] /\ posts[c][n] <= runs[c][n]
    BY <1>1, <1>2 DEF EdgeInv, PostInv, AtInv, CountInv
  <1>4. /\ reports[c][n] \in Nat /\ posts[c][n] \in Nat /\ MaxDeliver \in Nat
        /\ runs[c][n] \in 0 .. MaxDeliver
    BY EdgeCounts
  <1>5. /\ reports[c][n] + 1 \in 0 .. MaxDeliver /\ reports[c][n] + 1 <= posts[c][n]
        /\ reports[c][n] + 1 > 0
    BY <1>3, <1>4
  <1>6. reports' = [reports EXCEPT ![c][n] = @ + 1]
    BY <1>2 DEF Reported
  <1>7. /\ reports' \in [Consumers -> [Seqs -> 0 .. MaxDeliver]]
        /\ reports'[c][n] = reports[c][n] + 1
        /\ \A i \in Seqs : i # n => reports'[c][i] = reports[c][i]
        /\ \A k \in Consumers \ {c} : reports'[k] = reports[k]
    BY <1>5, <1>6 DEF EdgeInv, EdgeTypeOK
  <1> QED BY <1>2, <1>5, <1>7

LEMMA ReportStep ==
  ASSUME EdgeInv, NEW c \in Consumers, Report(c)
  PROVE  EdgeTypeOK' /\ PostInv' /\ WebInv'
  <1>1. /\ post[c].at = "report" /\ Reported(c)
        /\ post' = [post EXCEPT ![c].at = "ack"]
    BY DEF Report
  <1>2. /\ UNCHANGED <<stream, ghosts, draft, nextId, webVars>>
        /\ UNCHANGED <<role, posts, again, status, runs, held, inbox, up, epoch>>
    BY DEF Report, vars, serverVars, pubVars, durableVars, clientVars
  <1>3. post[c] # NoPost
    BY <1>1, PostShape DEF EdgeInv
  <1>4. /\ post' \in [Consumers -> {NoPost} \cup [ev : Seqs, at : {"post", "report", "ack"}]]
        /\ post'[c].ev = post[c].ev /\ post'[c].at = "ack"
        /\ \A k \in Consumers \ {c} : post'[k] = post[k]
    BY <1>1, <1>3, HandlerMoves DEF EdgeInv
  <1>5. PICK n \in Seqs :
           /\ n = post[c].ev
           /\ reports' \in [Consumers -> [Seqs -> 0 .. MaxDeliver]]
           /\ reports'[c][n] <= posts[c][n] /\ reports'[c][n] > 0
           /\ \A i \in Seqs : i # n => reports'[c][i] = reports[c][i]
           /\ \A k \in Consumers \ {c} : reports'[k] = reports[k]
    BY <1>1, ReportedCount
  <1>6. EdgeTypeOK'
    BY <1>2, <1>4, <1>5 DEF EdgeInv, EdgeTypeOK, webVars
  <1>7. AtInv(c)'
    <2>1. AtInv(c)
      BY DEF EdgeInv, PostInv
    <2> QED BY <1>1, <1>2, <1>3, <1>4, <1>5, <2>1 DEF AtInv
  <1>8. ASSUME NEW i \in Seqs PROVE CountInv(c, i)'
    <2>1. Cause(c, i)' = Cause(c, i) /\ Gone(c, i)' = Gone(c, i)
      BY <1>2 DEF Cause, Gone, Last
    <2>2. CountInv(c, i)
      BY DEF EdgeInv, PostInv
    <2>3. CASE i = n
      <3>1. AtInv(c) /\ posts[c][i] > 0
        BY <1>3, <1>5, <2>3 DEF EdgeInv, PostInv, AtInv
      <3> QED BY <1>2, <1>4, <1>5, <2>1, <2>2, <2>3, <3>1 DEF CountInv
    <2>4. CASE i # n
      BY <1>2, <1>4, <1>5, <2>1, <2>2, <2>4 DEF CountInv
    <2> QED BY <2>3, <2>4
  <1>9. PostInv'
    <2>1. \A k \in Consumers \ {c} : post'[k] = post[k] /\ reports'[k] = reports[k]
      BY <1>4, <1>5
    <2> QED BY <1>2, <1>7, <1>8, <2>1, OtherHandlers
  <1> QED BY <1>2, <1>6, <1>9, AwayFromStream

\* The handler is done with event n: acked, or with a cause to see it again.
LEMMA HandlerCloses ==
  ASSUME EdgeInv, NEW c \in Consumers, NEW n \in Seqs, n = post[c].ev,
         post' = [post EXCEPT ![c] = NoPost],
         held' = [held EXCEPT ![c] = @ \ {n}],
         UNCHANGED <<stream, ghosts, draft, nextId, webVars>>,
         UNCHANGED <<role, posts, reports, runs, inbox, up, epoch>>,
         again' \in [Consumers -> SUBSET (Seqs \X {"nak", "ack lost"})],
         again[c] \subseteq again'[c],
         \A i \in Seqs \ {n} : status'[c][i] = status[c][i],
         \A k \in Consumers \ {c} : status'[k] = status[k] /\ again'[k] = again[k],
         status'[c][n] = "acked" =>
            IF role[c] = "http" THEN reports[c][n] > 0 ELSE posts[c][n] > 0,
         status'[c][n] = "acked" \/ Cause(c, n)'
  PROVE  EdgeTypeOK' /\ PostInv' /\ WebInv'
  <1>1. /\ post' \in [Consumers -> {NoPost} \cup [ev : Seqs, at : {"post", "report", "ack"}]]
        /\ post'[c] = NoPost /\ held'[c] = held[c] \ {n}
        /\ \A k \in Consumers \ {c} : post'[k] = post[k] /\ held'[k] = held[k]
    BY DEF EdgeInv, EdgeTypeOK, IInv, TypeOK
  <1>2. EdgeTypeOK'
    BY <1>1 DEF EdgeInv, EdgeTypeOK, webVars
  <1>3. post'[c].ev = 0 /\ 0 \notin Seqs
    <2>1. NoPost.ev = 0
      BY DEF NoPost
    <2>2. 0 \notin Seqs
      BY PostShape DEF EdgeInv
    <2> QED BY <1>1, <2>1, <2>2
  <1>4. AtInv(c)'
    BY <1>1 DEF AtInv
  <1>5. ASSUME NEW i \in Seqs PROVE CountInv(c, i)'
    <2>1. CountInv(c, i)
      BY DEF EdgeInv, PostInv
    <2>2. (Cause(c, i) => Cause(c, i)') /\ Gone(c, i)' = Gone(c, i)
      BY DEF Cause, Gone, Last
    <2>3. /\ posts[c][i] \in Nat
          /\ posts'[c][i] = posts[c][i] /\ reports'[c][i] = reports[c][i]
          /\ runs'[c][i] = runs[c][i] /\ role'[c] = role[c]
      BY EdgeCounts
    <2>4. CASE i = n
      <3>1. i \notin held'[c]
        BY <1>1, <2>4
      <3>2. status'[c][i] = "acked" =>
              IF role[c] = "http" THEN reports[c][i] > 0 ELSE posts[c][i] > 0
        BY <2>4
      <3>3. posts[c][i] > 0 /\ ~Cause(c, i)' => posts[c][i] = 1 /\ status'[c][i] = "acked"
        <4>1. status'[c][i] = "acked" \/ Cause(c, i)'
          BY <2>4
        <4> QED BY <2>1, <2>2, <4>1 DEF CountInv
      <3> QED BY <2>1, <2>3, <3>1, <3>2, <3>3 DEF CountInv
    <2>5. CASE i # n
      <3>1. status'[c][i] = status[c][i] /\ post[c].ev # i /\ (i \in held'[c] => i \in held[c])
        BY <1>1, <2>5
      <3> QED BY <1>3, <2>1, <2>2, <2>3, <3>1 DEF CountInv
    <2> QED BY <2>4, <2>5
  <1>6. PostInv'
    <2>1. \A k \in Consumers \ {c} : post'[k] = post[k] /\ held'[k] = held[k]
      BY <1>1
    <2> QED BY <1>4, <1>5, <2>1, OtherHandlers
  <1> QED BY <1>2, <1>6, AwayFromStream

\* A cause to see an event again is never forgotten.
LEMMA CauseRecorded ==
  ASSUME EdgeTypeOK, NEW c \in Consumers, NEW n \in Seqs, NEW w \in {"nak", "ack lost"},
         again' = [again EXCEPT ![c] = @ \cup {<<n, w>>}]
  PROVE  /\ again' \in [Consumers -> SUBSET (Seqs \X {"nak", "ack lost"})]
         /\ again[c] \subseteq again'[c]
         /\ \A k \in Consumers \ {c} : again'[k] = again[k]
         /\ <<n, w>> \in again'[c]
  <1> DEFINE T == Seqs \X {"nak", "ack lost"}
             x == <<n, w>>
  <1>1. x \in T /\ again \in [Consumers -> SUBSET T]
    BY DEF EdgeTypeOK
  <1>2. again' = [again EXCEPT ![c] = again[c] \cup {x}]
    OBVIOUS
  <1> HIDE DEF T, x
  <1>3. /\ again' \in [Consumers -> SUBSET T] /\ again[c] \subseteq again'[c]
        /\ \A k \in Consumers \ {c} : again'[k] = again[k]
        /\ x \in again'[c]
    BY <1>1, <1>2
  <1> QED BY <1>3 DEF T, x

\* An ack that the server gets, or that is lost and recorded.
LEMMA AckPostStep ==
  ASSUME EdgeInv, NEW c \in Consumers, AckPost(c), post[c] # NoPost,
         IF role[c] = "http" THEN reports[c][post[c].ev] > 0 ELSE posts[c][post[c].ev] > 0
  PROVE  EdgeTypeOK' /\ PostInv' /\ WebInv'
  <1>1. PICK n \in Seqs : n = post[c].ev
    BY PostShape DEF EdgeInv
  <1>2. /\ held' = [held EXCEPT ![c] = @ \ {n}]
        /\ UNCHANGED <<stream, ghosts, draft, nextId, webVars>>
        /\ UNCHANGED <<role, posts, reports, runs, inbox, up, epoch>>
        /\ post' = [post EXCEPT ![c] = NoPost]
    BY <1>1 DEF AckPost, Ack, Handled, Close, serverVars, pubVars
  <1>3. PICK s \in {"acked", status[c][n]} : status' = [status EXCEPT ![c][n] = s]
    BY <1>1 DEF AckPost, Ack
  <1>4. /\ \A i \in Seqs \ {n} : status'[c][i] = status[c][i]
        /\ \A k \in Consumers \ {c} : status'[k] = status[k]
    BY <1>3 DEF EdgeInv, IInv, TypeOK
  <1>5. again' = IF status'[c][n] = "acked" THEN again
                 ELSE [again EXCEPT ![c] = @ \cup {<<n, "ack lost">>}]
    BY <1>1 DEF AckPost
  <1>6. /\ again' \in [Consumers -> SUBSET (Seqs \X {"nak", "ack lost"})]
        /\ again[c] \subseteq again'[c]
        /\ \A k \in Consumers \ {c} : again'[k] = again[k]
        /\ status'[c][n] = "acked" \/ <<n, "ack lost">> \in again'[c]
    <2>1. CASE status'[c][n] = "acked"
      BY <1>5, <2>1 DEF EdgeInv, EdgeTypeOK
    <2>2. CASE status'[c][n] # "acked"
      BY <1>5, <2>2, CauseRecorded DEF EdgeInv
    <2> QED BY <2>1, <2>2
  <1>7. status'[c][n] = "acked" \/ Cause(c, n)'
    BY <1>6 DEF Cause
  <1>8. IF role[c] = "http" THEN reports[c][n] > 0 ELSE posts[c][n] > 0
    BY <1>1
  <1> QED BY <1>1, <1>2, <1>4, <1>6, <1>7, <1>8, HandlerCloses

LEMMA SenderDoneStep ==
  ASSUME EdgeInv, NEW c \in Consumers, SenderDone(c)
  PROVE  EdgeTypeOK' /\ PostInv' /\ WebInv'
  <1>1. role[c] = "sender" /\ post[c].at = "post" /\ AckPost(c)
    BY DEF SenderDone
  <1>2. post[c] # NoPost
    BY <1>1, PostShape DEF EdgeInv
  <1>3. posts[c][post[c].ev] > 0
    BY <1>2 DEF EdgeInv, PostInv, AtInv
  <1>4. IF role[c] = "http" THEN reports[c][post[c].ev] > 0 ELSE posts[c][post[c].ev] > 0
    BY <1>1, <1>3
  <1> QED BY <1>1, <1>2, <1>4, AckPostStep

LEMMA ReportDoneStep ==
  ASSUME EdgeInv, NEW c \in Consumers, ReportDone(c)
  PROVE  EdgeTypeOK' /\ PostInv' /\ WebInv'
  <1>1. post[c].at = "ack" /\ AckPost(c)
    BY DEF ReportDone
  <1>2. post[c] # NoPost
    BY <1>1, PostShape DEF EdgeInv
  <1>3. role[c] = "http" /\ reports[c][post[c].ev] > 0
    BY <1>1, <1>2 DEF EdgeInv, PostInv, AtInv
  <1>4. IF role[c] = "http" THEN reports[c][post[c].ev] > 0 ELSE posts[c][post[c].ev] > 0
    BY <1>3
  <1> QED BY <1>1, <1>2, <1>4, AckPostStep

LEMMA NoResponseStep ==
  ASSUME EdgeInv, NEW c \in Consumers, NoResponse(c)
  PROVE  EdgeTypeOK' /\ PostInv' /\ WebInv'
  <1>1. role[c] = "http" /\ post[c].at = "post" /\ NakPost(c)
    BY DEF NoResponse
  <1>2. post[c] # NoPost
    BY <1>1, PostShape DEF EdgeInv
  <1>3. PICK n \in Seqs : n = post[c].ev
    BY <1>2, PostShape DEF EdgeInv
  <1>4. /\ held' = [held EXCEPT ![c] = @ \ {n}]
        /\ UNCHANGED <<stream, ghosts, draft, nextId, webVars>>
        /\ UNCHANGED <<role, posts, reports, runs, inbox, up, epoch>>
        /\ post' = [post EXCEPT ![c] = NoPost]
    BY <1>1, <1>3 DEF NakPost, Nak, Handled, Close, serverVars, pubVars
  <1>5. status' = [status EXCEPT ![c][n] = IF @ = "out" THEN Again(c, n) ELSE @]
    BY <1>1, <1>3 DEF NakPost, Nak
  <1>6. status[c][n] # "acked" /\ Again(c, n) # "acked"
    <2>1. n \in held[c]
      BY <1>2, <1>3 DEF EdgeInv, PostInv, AtInv
    <2> QED BY <2>1, HeldIsOpen DEF Again
  <1>7. /\ \A i \in Seqs \ {n} : status'[c][i] = status[c][i]
        /\ \A k \in Consumers \ {c} : status'[k] = status[k]
        /\ status'[c][n] # "acked"
    BY <1>5, <1>6 DEF EdgeInv, IInv, TypeOK
  <1>8. again' = [again EXCEPT ![c] = @ \cup {<<n, "nak">>}]
    BY <1>1, <1>3 DEF NakPost
  <1>9. /\ again' \in [Consumers -> SUBSET (Seqs \X {"nak", "ack lost"})]
        /\ again[c] \subseteq again'[c]
        /\ \A k \in Consumers \ {c} : again'[k] = again[k]
        /\ <<n, "nak">> \in again'[c]
    BY <1>8, CauseRecorded DEF EdgeInv
  <1>10. Cause(c, n)'
    BY <1>1, <1>4, <1>9 DEF Cause
  <1> QED BY <1>3, <1>4, <1>7, <1>9, <1>10, HandlerCloses

\* What was posted without a cause is lost to the process that comes next.
LEMMA StopStep ==
  ASSUME EdgeInv, NEW c \in Consumers, Stop(c)
  PROVE  EdgeTypeOK' /\ PostInv' /\ WebInv'
  <1>1. /\ up' = [up EXCEPT ![c] = FALSE]
        /\ inbox' = [inbox EXCEPT ![c] = {}] /\ held' = [held EXCEPT ![c] = {}]
        /\ post' = [post EXCEPT ![c] = NoPost]
        /\ UNCHANGED reports \/ (post[c].at = "report" /\ Reported(c))
    BY DEF Stop, ConsumerStops
  <1>2. /\ UNCHANGED <<stream, ghosts, draft, nextId, webVars>>
        /\ UNCHANGED <<role, posts, again, status, runs, epoch>>
    BY DEF Stop, ConsumerStops, serverVars, pubVars, durableVars
  <1>3. /\ post' \in [Consumers -> {NoPost} \cup [ev : Seqs, at : {"post", "report", "ack"}]]
        /\ post'[c] = NoPost /\ held'[c] = {} /\ inbox'[c] = {} /\ ~up'[c]
        /\ \A k \in Consumers \ {c} :
              /\ post'[k] = post[k] /\ held'[k] = held[k]
              /\ inbox'[k] = inbox[k] /\ up'[k] = up[k]
    BY <1>1 DEF EdgeInv, EdgeTypeOK, IInv, TypeOK
  <1>4. /\ reports' \in [Consumers -> [Seqs -> 0 .. MaxDeliver]]
        /\ \A k \in Consumers \ {c} : reports'[k] = reports[k]
        /\ \A i \in Seqs : reports'[c][i] <= posts[c][i] /\ (reports[c][i] > 0 => reports'[c][i] > 0)
    <2>1. \A i \in Seqs : reports[c][i] <= posts[c][i]
      BY DEF EdgeInv, PostInv, CountInv
    <2>2. CASE UNCHANGED reports
      BY <2>1, <2>2 DEF EdgeInv, EdgeTypeOK
    <2>3. CASE post[c].at = "report" /\ Reported(c)
      <3>1. PICK n \in Seqs :
              /\ n = post[c].ev
              /\ reports' \in [Consumers -> [Seqs -> 0 .. MaxDeliver]]
              /\ reports'[c][n] <= posts[c][n] /\ reports'[c][n] > 0
              /\ \A i \in Seqs : i # n => reports'[c][i] = reports[c][i]
              /\ \A k \in Consumers \ {c} : reports'[k] = reports[k]
        BY <2>3, ReportedCount
      <3> QED BY <2>1, <3>1
    <2> QED BY <1>1, <2>2, <2>3
  <1>5. EdgeTypeOK'
    BY <1>2, <1>3, <1>4 DEF EdgeInv, EdgeTypeOK, webVars
  <1>6. AtInv(c)'
    BY <1>3 DEF AtInv
  <1>7. ASSUME NEW i \in Seqs PROVE CountInv(c, i)'
    <2>1. CountInv(c, i)
      BY DEF EdgeInv, PostInv
    <2>2. Cause(c, i)' = Cause(c, i)
      BY <1>2 DEF Cause
    <2>3. Gone(c, i) \/ post[c].ev = i => Gone(c, i)'
      <3>1. post[c].ev = i => i \in 1 .. Last
        <4>1. ASSUME post[c].ev = i PROVE i \in held[c]
          <5>1. post[c] # NoPost
            BY <4>1, PostShape DEF EdgeInv
          <5> QED BY <4>1, <5>1 DEF EdgeInv, PostInv, AtInv
        <4> QED BY <4>1, HeldIsOpen
      <3> QED BY <1>2, <1>3, <3>1 DEF Gone, Last
    <2>4. /\ reports'[c][i] <= posts[c][i] /\ (reports[c][i] > 0 => reports'[c][i] > 0)
          /\ i \notin held'[c]
      BY <1>3, <1>4
    <2> QED BY <1>2, <2>1, <2>2, <2>3, <2>4 DEF CountInv
  <1>8. PostInv'
    <2>1. \A k \in Consumers \ {c} :
              /\ post'[k] = post[k] /\ held'[k] = held[k] /\ reports'[k] = reports[k]
              /\ inbox'[k] = inbox[k] /\ up'[k] = up[k]
      BY <1>3, <1>4
    <2> QED BY <1>2, <1>6, <1>7, <2>1, OtherHandlers
  <1> QED BY <1>2, <1>5, <1>8, AwayFromStream

-------------------------------------------------------------------------------
(* The theorems of the adapters.                                           *)

LEMMA InitEdge == EdgeInit => EdgeInv
  <1> SUFFICES ASSUME EdgeInit PROVE EdgeInv
    OBVIOUS
  <1>1. IInv /\ DedupInv
    BY InitIInv, InitDedup DEF EdgeInit
  <1>2. EdgeTypeOK
    BY BusAssumption DEF EdgeInit, EdgeTypeOK
  <1>3. PostInv
    <2> SUFFICES ASSUME NEW c \in Consumers
                 PROVE  AtInv(c) /\ \A i \in Seqs : CountInv(c, i)
      BY DEF PostInv
    <2>1. /\ post[c] = NoPost /\ held[c] = {}
          /\ \A i \in Seqs : /\ posts[c][i] = 0 /\ reports[c][i] = 0
                             /\ runs[c][i] = 0 /\ status[c][i] = "new"
      BY DEF EdgeInit, Init, Never
    <2> QED BY <2>1 DEF AtInv, CountInv
  <1>4. WebInv
    <2>1. /\ Len(stream) = 0 /\ ghosts = {} /\ \A p \in Procs : draft[p] = NoDraft
          /\ \A r \in Requests : answer[r] = "none"
      BY DEF EdgeInit, Init
    <2> QED BY <2>1 DEF WebInv, Last
  <1> QED BY <1>1, <1>2, <1>3, <1>4 DEF EdgeInv

LEMMA NextEdge == EdgeInv /\ [EdgeNext]_edgeVars => EdgeInv'
  <1> SUFFICES ASSUME EdgeInv, [EdgeNext]_edgeVars PROVE EdgeInv'
    OBVIOUS
  <1>1. IInv' /\ DedupInv'
    BY EdgeStepUsesBus, NextIInv, NextDedup DEF EdgeInv, IInv
  <1>2. ASSUME NEW p \in Procs, ListenerStep(p) PROVE EdgeTypeOK' /\ PostInv' /\ WebInv'
    BY <1>2, LifespanStep, ReceiveStep, AcceptStep, FailStep DEF ListenerStep
  <1>3. ASSUME NEW c \in Consumers, AdapterStep(c) PROVE EdgeTypeOK' /\ PostInv' /\ WebInv'
    BY <1>3, StartAdapterStep, RunOnceStep, StartPostStep, SenderDoneStep, NoResponseStep,
       RespondStep, ReportStep, ReportDoneStep, StopStep DEF AdapterStep
  <1>4. CASE UNCHANGED edgeVars
    <2>1. UNCHANGED <<stream, ghosts, draft, nextId, webVars, relayVars, durableVars, clientVars>>
      BY <1>4 DEF edgeVars, vars, serverVars, pubVars
    <2>2. EdgeTypeOK'
      BY <2>1 DEF EdgeInv, EdgeTypeOK, webVars, relayVars
    <2> QED BY <1>1, <2>1, <2>2, SameStream, AwayFromHandlers, AwayFromStream DEF EdgeInv
  <1> QED BY <1>1, <1>2, <1>3, <1>4, BusStepWeb DEF EdgeInv, EdgeNext

\* What holds of the bus, the counts of POSTs and reports and the sources of
\* the events, together, is kept by every step of the listener, the adapters
\* and the server.
THEOREM EdgeInvariance == EdgeSpec => []EdgeInv
  BY InitEdge, NextEdge, PTL DEF EdgeSpec

\* The variables of the adapters keep to their types: no more POSTs or reports
\* than MaxDeliver, and _handle() at one of its awaits with an event of the
\* stream.
THEOREM EdgeTypeCorrect == EdgeSpec => []EdgeTypeOK
<1>1. EdgeInv => EdgeTypeOK
  BY DEF EdgeInv
<1>2. QED
  BY <1>1, EdgeInvariance, PTL

\* A 202 of receive_webhook means that the stream has the event of that request
\* or of one with the same Idempotency-Key, and only valid requests have events.
THEOREM AcceptedStored == EdgeSpec => []AcceptedIsStored
<1>1. EdgeInv => AcceptedIsStored
  BY DEF EdgeInv, WebInv, AcceptedIsStored, Traced, Stored
<1>2. QED
  BY <1>1, EdgeInvariance, PTL

\* RelayHandler posts an event again only when its ack was lost, TriggerHandler
\* only then or after its own nak: neither for a restart nor for an ack wait.
THEOREM PostedAgain == EdgeSpec => []PostedAgainForCause
<1>1. EdgeInv => PostedAgainForCause
  <2> SUFFICES ASSUME EdgeInv, NEW c \in Consumers, NEW i \in Seqs
               PROVE  /\ posts[c][i] > 1 => Cause(c, i)
                      /\ posts[c][i] <= runs[c][i]
    BY DEF PostedAgainForCause, Cause
  <2>1. CountInv(c, i) /\ posts[c][i] \in Nat
    BY EdgeCounts DEF EdgeInv, PostInv
  <2> QED BY <2>1 DEF CountInv
<1>2. QED
  BY <1>1, EdgeInvariance, PTL

\* TriggerHandler publishes RequestCompleted before it acks, at most once per
\* POST, and RelayHandler acks only what it has tried to send.
THEOREM AckedReported == EdgeSpec => []AckedIsReported
<1>1. EdgeInv => AckedIsReported
  BY DEF EdgeInv, PostInv, CountInv, AckedIsReported
<1>2. QED
  BY <1>1, EdgeInvariance, PTL

===============================================================================
