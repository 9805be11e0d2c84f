----------------------------- MODULE RestApiProofs ----------------------------
(***************************************************************************)
(* Proofs about RestApi, for any requests, keys and bounds, with and       *)
(* without faults of the reply watcher.                                    *)
(*                                                                         *)
(* OwnReply needs to know where a handler's eventId comes from: EventInv   *)
(* says that every eventId in the process or in the duplicate window is    *)
(* that of a stored event with the right Idempotency-Key, and that a       *)
(* handler has none before publish() returns.  PendingReplies maps an      *)
(* eventId to a request that waits for exactly that event (NoStaleEntry),  *)
(* so what resolve() sets is the reply of the request's own event.         *)
(***************************************************************************)
EXTENDS RestApi, TLAPS

\* The event of request r: stored, and r's own or one with r's key.
IsEventOf(e, r) == e \in events /\ (e # r => KeyOf[e] = KeyOf[r])

EventInv ==
    /\ \A k \in IdempotencyKeys :
          original[k] # None => original[k] \in events /\ KeyOf[original[k]] = k
    /\ \A r \in Requests :
          /\ pc[r] \in {"new", "publishing"} => eventId[r] = None /\ reply[r] = None
          /\ pc[r] \in {"landed", "waiting"} => eventId[r] # None
          /\ eventId[r] # None => IsEventOf(eventId[r], r)
          /\ reply[r] # None => reply[r] = eventId[r]

IInv == TypeOK /\ EventInv /\ NoStaleEntry /\ WaiterIsReachable

\* A step that leaves the whole state of the handlers and of the table alone.
LEMMA FrameIInv ==
  ASSUME IInv, TypeOK', UNCHANGED <<pc, eventId, reply, met, pending, events>>,
         \A k \in IdempotencyKeys : original'[k] \in {original[k], None}
  PROVE  IInv'
  BY DEF IInv, EventInv, IsEventOf, NoStaleEntry, WaiterIsReachable

\* A step of a handler that is done with publish() and not waiting, or that
\* comes before it: only pc changes, and not to or from "waiting".
LEMMA ReceiveIInv == ASSUME IInv, NEW r \in Requests, Receive(r) PROVE IInv'
  <1>1. TypeOK'
    BY DEF IInv, TypeOK, Receive, busVars, procVars, InFlight
  <1>2. EventInv'
    BY DEF IInv, TypeOK, EventInv, IsEventOf, Receive, busVars, procVars
  <1>3. NoStaleEntry' /\ WaiterIsReachable'
    BY RestAssumption DEF IInv, TypeOK, NoStaleEntry, WaiterIsReachable, Receive, busVars, procVars
  <1> QED BY <1>1, <1>2, <1>3 DEF IInv

\* A handler that gets its eventId has not waited before.
LEMMA PublishLandsIInv == ASSUME IInv, NEW r \in Requests, PublishLands(r) PROVE IInv'
  <1> USE DEF IInv
  <1> DEFINE k == KeyOf[r]
  <1>1. k # NoKey => k \in IdempotencyKeys
    BY DEF IdempotencyKeys
  <1>2. eventId[r] = None /\ reply[r] = None /\ pc[r] = "publishing"
    BY DEF EventInv, PublishLands
  <1>3. /\ events \subseteq events'
        /\ events' \subseteq Requests
        /\ original' \in [IdempotencyKeys -> Requests \cup {None}]
        /\ \A j \in IdempotencyKeys :
              original'[j] # None => original'[j] \in events' /\ KeyOf[original'[j]] = j
    BY <1>1 DEF TypeOK, EventInv, PublishLands, Store
  <1>4. PICK e \in Requests :
           /\ eventId' = [eventId EXCEPT ![r] = e]
           /\ e \in events' /\ (e # r => KeyOf[e] = KeyOf[r])
    <2>1. CASE k # NoKey /\ original[k] # None
      <3>1. original[k] \in Requests
        BY <1>1, <2>1 DEF TypeOK
      <3> QED BY <1>1, <2>1, <3>1 DEF PublishLands, Store, EventInv
    <2>2. CASE ~(k # NoKey /\ original[k] # None)
      BY <2>2 DEF PublishLands, Store
    <2> QED BY <2>1, <2>2
  <1>5. e # None
    BY RestAssumption
  <1>6. TypeOK'
    BY <1>3, <1>4 DEF TypeOK, PublishLands, procVars, InFlight
  <1>7. EventInv'
    <2>1. \A q \in Requests :
             /\ pc'[q] \in {"new", "publishing"} => eventId'[q] = None /\ reply'[q] = None
             /\ pc'[q] \in {"landed", "waiting"} => eventId'[q] # None
             /\ eventId'[q] # None =>
                   eventId'[q] \in events' /\ (eventId'[q] # q => KeyOf[eventId'[q]] = KeyOf[q])
             /\ reply'[q] # None => reply'[q] = eventId'[q]
      BY <1>2, <1>3, <1>4, <1>5 DEF TypeOK, EventInv, IsEventOf, PublishLands
    <2> QED BY <1>3, <2>1 DEF EventInv, IsEventOf
  <1>8. NoStaleEntry'
    BY <1>2, <1>4, RestAssumption DEF TypeOK, NoStaleEntry, PublishLands, procVars
  <1>9. WaiterIsReachable'
    <2> SUFFICES ASSUME NEW q \in Requests, pc'[q] = "waiting", q \notin met'
                 PROVE  pending'[eventId'[q]] = q
      BY DEF WaiterIsReachable
    <2>1. q # r /\ pc[q] = "waiting" /\ eventId'[q] = eventId[q] /\ q \notin met
      BY <1>4 DEF TypeOK, PublishLands
    <2> QED BY <2>1 DEF WaiterIsReachable, PublishLands, procVars
  <1> QED BY <1>6, <1>7, <1>8, <1>9

LEMMA PublishRaisesIInv == ASSUME IInv, NEW r \in Requests, PublishRaises(r) PROVE IInv'
  <1>1. TypeOK'
    BY DEF IInv, TypeOK, PublishRaises, busVars, procVars, Answers
  <1>2. EventInv'
    BY DEF IInv, TypeOK, EventInv, IsEventOf, PublishRaises, busVars, procVars
  <1>3. NoStaleEntry' /\ WaiterIsReachable'
    BY RestAssumption DEF IInv, TypeOK, NoStaleEntry, WaiterIsReachable, PublishRaises, busVars, procVars
  <1> QED BY <1>1, <1>2, <1>3 DEF IInv

LEMMA AnswerAcceptedIInv == ASSUME IInv, NEW r \in Requests, AnswerAccepted(r) PROVE IInv'
  <1>1. TypeOK'
    BY DEF IInv, TypeOK, AnswerAccepted, busVars, procVars, Answers
  <1>2. EventInv'
    BY DEF IInv, TypeOK, EventInv, IsEventOf, AnswerAccepted, busVars, procVars
  <1>3. NoStaleEntry' /\ WaiterIsReachable'
    BY RestAssumption DEF IInv, TypeOK, NoStaleEntry, WaiterIsReachable, AnswerAccepted, busVars, procVars
  <1> QED BY <1>1, <1>2, <1>3 DEF IInv

\* register() takes the place of another request's future only when that
\* request waits for the same event, and has met this one from now on.
LEMMA RegisterIInv == ASSUME IInv, NEW r \in Requests, Register(r) PROVE IInv'
  <1> USE DEF IInv
  <1>1. eventId[r] \in Requests /\ pc[r] = "landed"
    BY DEF TypeOK, EventInv, Register
  <1>2. TypeOK'
    <2>1. met' \subseteq Requests
      BY DEF TypeOK, Register, Meet, Sharers
    <2> QED BY <1>1, <2>1 DEF TypeOK, Register, busVars, InFlight
  <1>3. EventInv'
    BY DEF TypeOK, EventInv, IsEventOf, Register, busVars
  <1>4. NoStaleEntry'
    <2> SUFFICES ASSUME NEW e \in Requests, pending'[e] # None
                 PROVE  pc'[pending'[e]] = "waiting" /\ eventId'[pending'[e]] = e
      BY DEF NoStaleEntry
    <2>1. CASE e = eventId[r]
      BY <2>1, <1>1 DEF TypeOK, Register
    <2>2. CASE e # eventId[r]
      BY <2>2, <1>1 DEF TypeOK, Register, NoStaleEntry
    <2> QED BY <2>1, <2>2
  <1>5. WaiterIsReachable'
    <2> SUFFICES ASSUME NEW q \in Requests, pc'[q] = "waiting", q \notin met'
                 PROVE  pending'[eventId'[q]] = q
      BY DEF WaiterIsReachable
    <2>1. CASE q = r
      BY <2>1, <1>1 DEF TypeOK, Register
    <2>2. CASE q # r
      <3>1. pc[q] = "waiting" /\ eventId'[q] = eventId[q]
        BY <2>2 DEF TypeOK, Register
      <3>2. q \notin met /\ q \notin Sharers(r)
        BY <2>2 DEF Register, Meet
      <3>3. eventId[q] # eventId[r] /\ pending[eventId[q]] = q
        BY <2>2, <3>1, <3>2 DEF Sharers, WaiterIsReachable
      <3> QED BY <1>1, <3>1, <3>3 DEF TypeOK, Register
    <2> QED BY <2>1, <2>2
  <1> QED BY <1>2, <1>3, <1>4, <1>5

\* The handler's finally, with either answer: it takes away the future of
\* another request only when that one waits for the same event, and has met
\* this one from now on.
LEMMA AnswerIInv ==
  ASSUME IInv, NEW r \in Requests, AnswerReply(r) \/ AnswerTimeout(r)
  PROVE  IInv'
  <1> USE DEF IInv
  <1>1. /\ pc[r] = "waiting" /\ eventId[r] \in Requests
        /\ pending' = [pending EXCEPT ![eventId[r]] = None]
        /\ Meet(r) /\ UNCHANGED <<busVars, start, watcher, batch, eventId, reply>>
    BY DEF TypeOK, EventInv, AnswerReply, AnswerTimeout, Unregister
  <1>2. PICK a \in {"200", "504"} : pc' = [pc EXCEPT ![r] = a]
    BY DEF AnswerReply, AnswerTimeout
  <1>3. TypeOK'
    <2>1. met' \subseteq Requests
      BY <1>1 DEF TypeOK, Meet, Sharers
    <2> QED BY <1>1, <1>2, <2>1 DEF TypeOK, busVars, Answers
  <1>4. EventInv'
    BY <1>1, <1>2 DEF TypeOK, EventInv, IsEventOf, busVars
  <1>5. NoStaleEntry'
    BY <1>1, <1>2, RestAssumption DEF TypeOK, NoStaleEntry
  <1>6. WaiterIsReachable'
    <2> SUFFICES ASSUME NEW q \in Requests, pc'[q] = "waiting", q \notin met'
                 PROVE  pending'[eventId'[q]] = q
      BY DEF WaiterIsReachable
    <2>1. q # r /\ pc[q] = "waiting" /\ eventId'[q] = eventId[q]
      BY <1>1, <1>2 DEF TypeOK
    <2>2. q \notin met /\ q \notin Sharers(r)
      BY <1>1, <2>1 DEF Meet
    <2>3. eventId[q] # eventId[r] /\ pending[eventId[q]] = q
      BY <2>1, <2>2 DEF Sharers, WaiterIsReachable
    <2> QED BY <1>1, <2>1, <2>3 DEF TypeOK
  <1> QED BY <1>3, <1>4, <1>5, <1>6

-------------------------------------------------------------------------------
\* resolve() sets a future's result to the reply of the event it waits for.
LEMMA ResolveReply ==
  ASSUME IInv, NEW x \in Reply, Resolve(x)
  PROVE  /\ reply' \in [Requests -> Requests \cup {None}]
         /\ \A r \in Requests : reply'[r] # reply[r] =>
               pc[r] = "waiting" /\ reply'[r] = eventId[r]
  <1>1. x.corr \in Requests
    BY DEF Reply
  <1>2. CASE pending[x.corr] = None \/ reply[pending[x.corr]] # None
    BY <1>2 DEF Resolve, IInv, TypeOK
  <1>3. CASE pending[x.corr] # None /\ reply[pending[x.corr]] = None
    <2>1. /\ pending[x.corr] \in Requests
          /\ pc[pending[x.corr]] = "waiting" /\ eventId[pending[x.corr]] = x.corr
      BY <1>1, <1>3 DEF IInv, TypeOK, NoStaleEntry
    <2>2. reply' = [reply EXCEPT ![pending[x.corr]] = x.corr]
      BY <1>3 DEF Resolve
    <2> QED BY <1>1, <2>1, <2>2 DEF IInv, TypeOK
  <1> QED BY <1>2, <1>3

LEMMA RepliesIInv ==
  ASSUME IInv, TypeOK',
         UNCHANGED <<events, original, pending, pc, eventId, met>>,
         \A r \in Requests : reply'[r] # reply[r] =>
            pc[r] = "waiting" /\ reply'[r] = eventId[r]
  PROVE  IInv'
  <1>1. EventInv'
    BY DEF IInv, TypeOK, EventInv, IsEventOf
  <1>2. NoStaleEntry' /\ WaiterIsReachable'
    BY DEF IInv, NoStaleEntry, WaiterIsReachable
  <1> QED BY <1>1, <1>2 DEF IInv

LEMMA PersistIInv == ASSUME IInv, NEW e \in Requests, Persist(e) PROVE IInv'
  <1>1. TypeOK'
    <2>1. PICK n \in 1 .. MaxReplies :
              replies' = replies \cup {[corr |-> e, copy |-> n, key |-> start]}
      BY DEF Persist
    <2>2. [corr |-> e, copy |-> n, key |-> start] \in Reply
      BY DEF Reply, IInv, TypeOK
    <2> QED BY <2>1, <2>2 DEF IInv, TypeOK, Persist, procVars, handlerVars
  <1> QED BY <1>1, FrameIInv DEF Persist, procVars, handlerVars

LEMMA WatcherFetchesIInv == ASSUME IInv, NEW B, WatcherFetches(B) PROVE IInv'
  <1>1. TypeOK'
    BY DEF IInv, TypeOK, WatcherFetches, Fetchable, busVars, handlerVars
  <1> QED BY <1>1, FrameIInv DEF WatcherFetches, busVars, handlerVars

LEMMA WatcherHandlesIInv == ASSUME IInv, NEW x \in batch, WatcherHandles(x) PROVE IInv'
  <1>1. x \in Reply /\ x \in replies
    BY DEF IInv, TypeOK
  <1>2. /\ reply' \in [Requests -> Requests \cup {None}]
        /\ \A r \in Requests : reply'[r] # reply[r] =>
              pc[r] = "waiting" /\ reply'[r] = eventId[r]
    BY <1>1, ResolveReply DEF WatcherHandles
  <1>3. TypeOK'
    BY <1>1, <1>2 DEF IInv, TypeOK, WatcherHandles
  <1> QED BY <1>2, <1>3, RepliesIInv DEF WatcherHandles

LEMMA WatcherDiesIInv == ASSUME IInv, WatcherDies PROVE IInv'
  <1>1. /\ reply' \in [Requests -> Requests \cup {None}]
        /\ \A r \in Requests : reply'[r] # reply[r] =>
              pc[r] = "waiting" /\ reply'[r] = eventId[r]
    <2>1. CASE UNCHANGED reply
      BY <2>1 DEF IInv, TypeOK
    <2>2. CASE \E x \in batch : Resolve(x)
      <3>1. batch \subseteq Reply
        BY DEF IInv, TypeOK
      <3> QED BY <2>2, <3>1, ResolveReply
    <2> QED BY <2>1, <2>2 DEF WatcherDies
  <1>2. TypeOK'
    BY <1>1 DEF IInv, TypeOK, WatcherDies, busVars
  <1> QED BY <1>1, <1>2, RepliesIInv DEF WatcherDies, busVars

\* A restart loses the table and with it every request that waits.
LEMMA RestartIInv == ASSUME IInv, Restart PROVE IInv'
  <1>1. TypeOK'
    BY RestAssumption DEF IInv, TypeOK, Restart, busVars, InFlight, Answers
  <1>2. EventInv'
    BY DEF IInv, TypeOK, EventInv, IsEventOf, Restart, busVars, InFlight
  <1>3. NoStaleEntry'
    BY DEF NoStaleEntry, Restart
  <1>4. WaiterIsReachable'
    BY DEF WaiterIsReachable, Restart, InFlight
  <1> QED BY <1>1, <1>2, <1>3, <1>4 DEF IInv

LEMMA WindowPassesIInv ==
  ASSUME IInv, NEW k \in IdempotencyKeys, WindowPasses(k) PROVE IInv'
  <1>1. TypeOK' /\ \A j \in IdempotencyKeys : original'[j] \in {original[j], None}
    BY DEF IInv, TypeOK, WindowPasses, procVars, handlerVars
  <1> QED BY <1>1, FrameIInv DEF WindowPasses, procVars, handlerVars

-------------------------------------------------------------------------------
LEMMA NextIInv == IInv /\ [Next]_vars => IInv'
  <1> SUFFICES ASSUME IInv, [Next]_vars PROVE IInv'
    OBVIOUS
  <1>1. ASSUME NEW r \in Requests, HandlerStep(r) PROVE IInv'
    BY <1>1, ReceiveIInv, PublishLandsIInv, PublishRaisesIInv, AnswerAcceptedIInv,
       RegisterIInv, AnswerIInv DEF HandlerStep
  <1>2. ASSUME NEW r \in Requests, Persist(r) PROVE IInv'
    BY <1>2, PersistIInv
  <1>3. CASE WatcherStep
    BY <1>3, WatcherFetchesIInv, WatcherHandlesIInv, WatcherDiesIInv DEF WatcherStep
  <1>4. CASE Restart
    BY <1>4, RestartIInv
  <1>5. ASSUME NEW k \in IdempotencyKeys, WindowPasses(k) PROVE IInv'
    BY <1>5, WindowPassesIInv
  <1>6. CASE UNCHANGED vars
    <2>1. TypeOK'
      BY <1>6 DEF IInv, TypeOK, vars, busVars, procVars, handlerVars
    <2> QED BY <1>6, <2>1, FrameIInv DEF vars, busVars, procVars, handlerVars
  <1> QED BY <1>1, <1>2, <1>3, <1>4, <1>5, <1>6 DEF Next

LEMMA InitIInv == Init => IInv
  <1> SUFFICES ASSUME Init PROVE IInv
    OBVIOUS
  <1>1. TypeOK
    BY RestAssumption DEF Init, TypeOK
  <1>2. EventInv
    BY DEF Init, EventInv
  <1>3. NoStaleEntry /\ WaiterIsReachable
    BY DEF Init, NoStaleEntry, WaiterIsReachable
  <1> QED BY <1>1, <1>2, <1>3 DEF IInv

LEMMA InvariantHolds == Spec => []IInv
  BY InitIInv, NextIInv, PTL DEF Spec

-------------------------------------------------------------------------------
\* Every variable of the service keeps to its values; in particular a reply is
\* acked or batched only if it was published.
THEOREM TypeCorrect == Spec => []TypeOK
  <1>1. IInv => TypeOK
    BY DEF IInv
  <1> QED BY <1>1, InvariantHolds, PTL

\* create_order() answers 200 only with the reply to its request's own event,
\* however retries with one Idempotency-Key, late and repeated replies, expiries
\* of the duplicate window, watcher faults and restarts interleave.
THEOREM RepliesBelong == Spec => []OwnReply
  <1>1. IInv => OwnReply
    BY DEF IInv, TypeOK, EventInv, IsEventOf, OwnReply
  <1> QED BY <1>1, InvariantHolds, PTL

\* PendingReplies never holds the future of a request that does not wait.
THEOREM TableIsClean == Spec => []NoStaleEntry
  <1>1. IInv => NoStaleEntry
    BY DEF IInv
  <1> QED BY <1>1, InvariantHolds, PTL

\* A waiting request keeps its entry until another request of its event begins
\* or ends a wait beside it: the finally of create_order() unregisters by
\* eventId, whoever the entry belongs to, but only while its own request waits.
THEOREM WaiterKeepsEntry == Spec => []WaiterIsReachable
  <1>1. IInv => WaiterIsReachable
    BY DEF IInv
  <1> QED BY <1>1, InvariantHolds, PTL

===============================================================================
