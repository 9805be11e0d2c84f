---------------------------- MODULE EventBusProofs ----------------------------
(***************************************************************************)
(* Proofs about EventBus, for any number of processes, consumers, events   *)
(* and restarts and any max_deliver.                                       *)
(*                                                                         *)
(* TypeOK is not inductive: that num stays within MaxDeliver needs that    *)
(* what can be delivered again has not used up its deliveries, and that    *)
(* the counters of outcomes do needs that every outcome spends a delivery. *)
(* DeliveryInv says both, and that only the last delivery is given up.     *)
(* NoSilentLoss rests on SeenInv: of an event under the current key, the   *)
(* deliveries are exactly the outcomes and what waits in the batch; a      *)
(* restart makes SeenInv hold trivially since (KeyInv) no event carries a  *)
(* key that its consumer does not have yet.                                *)
(***************************************************************************)
EXTENDS EventBus, TLAPS

\* The deliveries of event i at c whose outcome this process of c knows, with
\* the runs of earlier ones.
Spent(c, i) ==
    runs[c][i] + refused[c][i] + unanswered[c][i] + (IF i \in inbox[c] THEN 1 ELSE 0)

DeliveryInv ==
    \A c \in Consumers, i \in Seqs :
        /\ status[c][i] = "new" => num[c][i] = 0
        /\ num[c][i] = 0 => status[c][i] = "new"
        /\ status[c][i] = "redo" => num[c][i] < MaxDeliver
        /\ status[c][i] = "dead" => num[c][i] = MaxDeliver
        /\ num[c][i] > 0 => i <= Last
        /\ Spent(c, i) <= num[c][i]
        /\ i \in inbox[c] \cup held[c] => up[c] /\ status[c][i] \in {"out", "redo", "dead"}
        /\ i \in held[c] => runs[c][i] > 0
        /\ status[c][i] = "acked" => runs[c][i] > 0

KeyInv ==
    /\ \A c \in Consumers, i \in 1 .. Last : stream[i].to[c] <= epoch[c]
    /\ \A c \in Consumers, d \in ghosts : d.to[c] <= epoch[c]
    /\ \A c \in Consumers, p \in Procs : draft[p] # NoDraft => draft[p].to[c] <= epoch[c]

SeenInv ==
    \A c \in Consumers, i \in 1 .. Last :
        /\ i \in held[c] => Decrypts(c, i)
        /\ up[c] /\ Decrypts(c, i) => num[c][i] = Spent(c, i)

IInv == TypeOK /\ DeliveryInv /\ KeyInv /\ SeenInv

LEMMA CountsAreNat ==
    TypeOK => \A c \in Consumers, i \in Seqs :
                 /\ num[c][i] \in Nat /\ runs[c][i] \in Nat
                 /\ refused[c][i] \in Nat /\ unanswered[c][i] \in Nat
                 /\ Spent(c, i) \in Nat
<1>1. TypeOK => \A c \in Consumers, i \in Seqs :
                 /\ num[c][i] \in Nat /\ runs[c][i] \in Nat
                 /\ refused[c][i] \in Nat /\ unanswered[c][i] \in Nat
  BY BusAssumption DEF TypeOK
<1>2. QED
  BY <1>1 DEF Spent

\* What the stream and the dedup window are after an event was stored.
LEMMA StoreEffect ==
    ASSUME TypeOK, NEW d \in Event, Store(d)
    PROVE  /\ stream' \in Seq(Event) /\ Len(stream') <= MaxEvents
           /\ window' \in [MsgIds -> 0 .. Len(stream')]
           /\ Last <= Len(stream')
           /\ \A i \in 1 .. Last : stream'[i] = stream[i]
           /\ \A i \in 1 .. Len(stream') : i > Last => i = Last + 1 /\ stream'[i] = d
<1>0. /\ stream \in Seq(Event) /\ Len(stream) \in Nat /\ Len(stream) <= MaxEvents
      /\ window \in [MsgIds -> 0 .. Len(stream)]
      /\ MaxEvents \in Nat
  BY BusAssumption DEF TypeOK, Last
<1>1. CASE Duplicate(d)
  BY <1>0, <1>1 DEF Store, Last
<1>2. CASE ~Duplicate(d)
  <2>1. /\ Len(stream) < MaxEvents
        /\ stream' = Append(stream, d)
        /\ window' = IF d.msgId = NoMsgId THEN window
                     ELSE [window EXCEPT ![d.msgId] = Len(stream) + 1]
    BY <1>2 DEF Store, Last
  <2>2. /\ stream' \in Seq(Event)
        /\ Len(stream') = Len(stream) + 1
        /\ \A i \in 1 .. Len(stream) : stream'[i] = stream[i]
        /\ stream'[Len(stream) + 1] = d
    BY <1>0, <2>1
  <2>3. window' \in [MsgIds -> 0 .. Len(stream')]
    <3>1. \A m \in MsgIds : window[m] \in 0 .. Len(stream) + 1
      BY <1>0
    <3>2. /\ Len(stream) + 1 \in 0 .. Len(stream) + 1
          /\ Len(stream') = Len(stream) + 1
      BY <1>0, <2>2
    <3>3. window \in [MsgIds -> 0 .. Len(stream) + 1]
      BY <1>0, <3>1
    <3>4. [window EXCEPT ![d.msgId] = Len(stream) + 1] \in [MsgIds -> 0 .. Len(stream) + 1]
      BY <3>2, <3>3, Zenon
    <3>5. QED
      BY <2>1, <3>2, <3>3, <3>4, Zenon
  <2>4. QED
    BY <1>0, <2>1, <2>2, <2>3 DEF Last
<1>3. QED
  BY <1>1, <1>2

LEMMA InitIInv == Init => IInv
<1> SUFFICES ASSUME Init PROVE IInv
  OBVIOUS
<1>1. TypeOK
  BY BusAssumption DEF Init, TypeOK, Last, Keys, Seqs, Never
<1>2. DeliveryInv
  BY BusAssumption DEF Init, DeliveryInv, Seqs, Never, Spent
<1>3. KeyInv
  BY DEF Init, KeyInv, Last
<1>4. SeenInv
  BY DEF Init, SeenInv, Last
<1>5. QED
  BY <1>1, <1>2, <1>3, <1>4 DEF IInv

\* A step that leaves the stream and the consumers alone keeps DeliveryInv and
\* SeenInv.
LEMMA AwayFromConsumers ==
    ASSUME DeliveryInv, SeenInv, UNCHANGED <<stream, durableVars, clientVars>>
    PROVE  DeliveryInv' /\ SeenInv'
<1>1. DeliveryInv'
  BY DEF DeliveryInv, durableVars, clientVars, failures, Last, Spent
<1>2. SeenInv'
  BY DEF SeenInv, durableVars, clientVars, failures, Last, Decrypts, Spent
<1>3. QED
  BY <1>1, <1>2

LEMMA ConnectStep ==
    ASSUME IInv, NEW p \in Procs, Connect(p) PROVE IInv'
<1>1. TypeOK'
  BY DEF IInv, TypeOK, Connect, Last, durableVars, clientVars, failures, ServiceIds
<1>2. DeliveryInv' /\ SeenInv'
  BY AwayFromConsumers DEF IInv, Connect
<1>3. KeyInv'
  BY DEF IInv, KeyInv, Connect, Last, clientVars, failures
<1>4. QED
  BY <1>1, <1>2, <1>3 DEF IInv

LEMMA PublishStep ==
    ASSUME IInv, NEW p \in Procs, NEW m \in MsgIds \cup {NoMsgId},
           NEW to \in [Consumers -> Keys], Publish(p, m, to)
    PROVE  IInv'
<1> DEFINE d == [id |-> nextId + 1, msgId |-> m, signer |-> p, to |-> to]
<1>0. /\ draft' = [draft EXCEPT ![p] = d]
      /\ nextId' = nextId + 1 /\ nextId < MaxPublish
      /\ \A c \in Consumers : to[c] <= epoch[c]
      /\ UNCHANGED <<serverVars, connected, ghosts, returned, durableVars, clientVars>>
  BY DEF Publish
<1>1. nextId + 1 \in Ids /\ nextId' \in 0 .. MaxPublish
  BY <1>0, BusAssumption DEF IInv, TypeOK, Ids
<1>2. d \in Event
  BY <1>1 DEF Event
<1>3. TypeOK'
  BY <1>0, <1>1, <1>2 DEF IInv, TypeOK, Last, serverVars, durableVars, clientVars, failures
<1>4. DeliveryInv' /\ SeenInv'
  BY <1>0, AwayFromConsumers DEF IInv, serverVars
<1>5. KeyInv'
  <2>1. draft \in [Procs -> Event \cup {NoDraft}]
    BY DEF IInv, TypeOK
  <2>2. \A c \in Consumers, q \in Procs :
           draft'[q] # NoDraft => draft'[q].to[c] <= epoch[c]
    BY <1>0, <2>1 DEF IInv, KeyInv
  <2>3. QED
    BY <1>0, <2>2 DEF IInv, KeyInv, Last, serverVars, clientVars, failures
<1>6. QED
  BY <1>3, <1>4, <1>5 DEF IInv

\* A stored event is new to every consumer.
LEMMA StoreKeeps ==
    ASSUME IInv, NEW d \in Event, \A c \in Consumers : d.to[c] <= epoch[c],
           Store(d), UNCHANGED <<durableVars, clientVars>>
    PROVE  /\ DeliveryInv' /\ SeenInv'
           /\ \A c \in Consumers, i \in 1 .. Len(stream') : stream'[i].to[c] <= epoch[c]
<1>0. /\ Last \in Nat /\ Len(stream') \in Nat /\ Last <= Len(stream')
      /\ Len(stream') <= MaxEvents
      /\ \A i \in 1 .. Last : stream'[i] = stream[i]
      /\ \A i \in 1 .. Len(stream') : i > Last => i = Last + 1 /\ stream'[i] = d
  BY StoreEffect DEF IInv, TypeOK, Last
<1>1. DeliveryInv'
  BY <1>0 DEF IInv, DeliveryInv, durableVars, clientVars, failures, Last, Seqs, Spent
<1>2. \A c \in Consumers, i \in 1 .. Len(stream') : stream'[i].to[c] <= epoch[c]
  BY <1>0 DEF IInv, KeyInv, Last
<1>3. ASSUME NEW c \in Consumers, NEW i \in 1 .. Len(stream')
      PROVE  /\ i \in held[c] => Decrypts(c, i)'
             /\ up[c] /\ Decrypts(c, i)' => num[c][i] = Spent(c, i)
  <2>1. CASE i <= Last
    BY <1>0, <2>1 DEF IInv, SeenInv, Decrypts, durableVars, clientVars, failures
  <2>2. CASE i > Last
    <3>1. i \in Seqs /\ ~(i <= Last)
      BY <1>0, <2>2, BusAssumption DEF Seqs
    <3>2. ~(num[c][i] > 0)
      BY <3>1 DEF IInv, DeliveryInv
    <3>3. i \notin held[c]
      BY <3>1, <3>2, CountsAreNat DEF IInv, DeliveryInv
    <3>4. num[c][i] = Spent(c, i)
      BY <3>1, <3>2, CountsAreNat DEF IInv, DeliveryInv
    <3>5. QED
      BY <3>3, <3>4
  <2>3. QED
    BY <1>0, <2>1, <2>2
<1>4. SeenInv'
  BY <1>3 DEF SeenInv, Last, durableVars, clientVars, failures, Spent
<1>5. QED
  BY <1>1, <1>2, <1>4

LEMMA PublishReturnsStep ==
    ASSUME IInv, NEW p \in Procs, PublishReturns(p) PROVE IInv'
<1> DEFINE d == draft[p]
<1>0. /\ d \in Event /\ draft[p] # NoDraft
      /\ \A c \in Consumers : d.to[c] <= epoch[c]
      /\ Store(d) /\ UNCHANGED <<durableVars, clientVars>>
  BY DEF IInv, TypeOK, KeyInv, PublishReturns
<1>1. DeliveryInv' /\ SeenInv'
      /\ \A c \in Consumers, i \in 1 .. Len(stream') : stream'[i].to[c] <= epoch[c]
  BY <1>0, StoreKeeps
<1>2. [msgId |-> d.msgId, id |-> ReturnedId(d)] \in [msgId : MsgIds \cup {NoMsgId}, id : Ids]
  <2>1. d.msgId \in MsgIds \cup {NoMsgId} /\ d.id \in Ids
    BY <1>0 DEF Event
  <2>2. ReturnedId(d) \in Ids
    <3>1. CASE ~Duplicate(d)
      BY <2>1, <3>1 DEF ReturnedId
    <3>2. CASE Duplicate(d)
      <4>1. d.msgId \in MsgIds /\ window[d.msgId] \in 1 .. Len(stream)
        BY <2>1, <3>2 DEF Duplicate, IInv, TypeOK, Last
      <4>2. stream[window[d.msgId]] \in Event
        BY <4>1 DEF IInv, TypeOK
      <4>3. QED
        BY <3>2, <4>2 DEF ReturnedId, Event
    <3>3. QED
      BY <3>1, <3>2
  <2>3. QED
    BY <2>1, <2>2
<1>3. TypeOK'
  <2>1. /\ stream' \in Seq(Event) /\ Len(stream') <= MaxEvents
        /\ window' \in [MsgIds -> 0 .. Len(stream')]
    BY <1>0, StoreEffect DEF IInv
  <2>2. returned' \subseteq [msgId : MsgIds \cup {NoMsgId}, id : Ids]
    BY <1>2 DEF PublishReturns, IInv, TypeOK
  <2>3. draft' \in [Procs -> Event \cup {NoDraft}]
    BY DEF PublishReturns, IInv, TypeOK
  <2>4. QED
    BY <2>1, <2>2, <2>3 DEF PublishReturns, IInv, TypeOK, Last, durableVars, clientVars, failures
<1>4. KeyInv'
  <2>1. \A q \in Procs : draft'[q] # NoDraft => draft'[q] = draft[q]
    BY DEF PublishReturns, IInv, TypeOK
  <2>2. QED
    BY <1>1, <2>1 DEF PublishReturns, IInv, KeyInv, Last, clientVars, failures
<1>5. QED
  BY <1>1, <1>3, <1>4 DEF IInv

LEMMA GhostLandsStep ==
    ASSUME IInv, NEW d \in ghosts, GhostLands(d) PROVE IInv'
<1>0. /\ d \in Event
      /\ \A c \in Consumers : d.to[c] <= epoch[c]
      /\ Store(d) /\ UNCHANGED <<durableVars, clientVars>>
  BY DEF IInv, TypeOK, KeyInv, GhostLands
<1>1. DeliveryInv' /\ SeenInv'
      /\ \A c \in Consumers, i \in 1 .. Len(stream') : stream'[i].to[c] <= epoch[c]
  BY <1>0, StoreKeeps
<1>2. TypeOK'
  <2>1. /\ stream' \in Seq(Event) /\ Len(stream') <= MaxEvents
        /\ window' \in [MsgIds -> 0 .. Len(stream')]
    BY <1>0, StoreEffect DEF IInv
  <2>2. QED
    BY <2>1 DEF GhostLands, IInv, TypeOK, Last, durableVars, clientVars, failures
<1>3. KeyInv'
  BY <1>1 DEF GhostLands, IInv, KeyInv, Last, clientVars, failures
<1>4. QED
  BY <1>1, <1>2, <1>3 DEF IInv

LEMMA PublishRaisesStep ==
    ASSUME IInv, NEW p \in Procs, PublishRaises(p) PROVE IInv'
<1>1. TypeOK'
  <2>1. draft[p] \in Event /\ ghosts' \subseteq Event
    BY DEF PublishRaises, IInv, TypeOK
  <2>2. draft' \in [Procs -> Event \cup {NoDraft}] /\ connected' \in [Procs -> BOOLEAN]
    BY DEF PublishRaises, IInv, TypeOK
  <2>3. QED
    BY <2>1, <2>2 DEF PublishRaises, IInv, TypeOK, Last, serverVars, durableVars, clientVars, failures
<1>2. DeliveryInv' /\ SeenInv'
  BY AwayFromConsumers DEF IInv, PublishRaises, serverVars
<1>3. KeyInv'
  <2>1. \A q \in Procs : draft'[q] # NoDraft => draft'[q] = draft[q]
    BY DEF PublishRaises, IInv, TypeOK
  <2>2. \A c \in Consumers, d \in ghosts' : d.to[c] <= epoch[c]
    BY DEF PublishRaises, IInv, KeyInv
  <2>3. QED
    BY <2>1, <2>2 DEF PublishRaises, IInv, KeyInv, Last, serverVars, clientVars, failures
<1>4. QED
  BY <1>1, <1>2, <1>3 DEF IInv

LEMMA DisconnectStep ==
    ASSUME IInv, NEW p \in Procs, Disconnect(p) PROVE IInv'
<1>1. TypeOK'
  BY DEF IInv, TypeOK, Disconnect, Last, serverVars, durableVars, clientVars, failures
<1>2. DeliveryInv' /\ SeenInv'
  BY AwayFromConsumers DEF IInv, Disconnect, serverVars
<1>3. KeyInv'
  BY DEF IInv, KeyInv, Disconnect, Last, serverVars, clientVars, failures
<1>4. QED
  BY <1>1, <1>2, <1>3 DEF IInv

LEMMA WindowPassesStep ==
    ASSUME IInv, NEW m \in MsgIds, WindowPasses(m) PROVE IInv'
<1>1. TypeOK'
  <2>1. window' \in [MsgIds -> 0 .. Last] /\ forgotten' \subseteq MsgIds
    BY DEF IInv, TypeOK, WindowPasses, Last
  <2>2. QED
    BY <2>1 DEF IInv, TypeOK, WindowPasses, Last, pubVars, durableVars, clientVars, failures
<1>2. DeliveryInv' /\ SeenInv'
  BY AwayFromConsumers DEF IInv, WindowPasses
<1>3. KeyInv'
  BY DEF IInv, KeyInv, WindowPasses, Last, pubVars, clientVars, failures
<1>4. QED
  BY <1>1, <1>2, <1>3 DEF IInv

LEMMA IdentityExpiresStep ==
    ASSUME IInv, NEW s \in ServiceIds, IdentityExpires(s) PROVE IInv'
<1>1. TypeOK'
  BY DEF IInv, TypeOK, IdentityExpires, Last, pubVars, durableVars, clientVars, failures
<1>2. DeliveryInv' /\ SeenInv'
  BY AwayFromConsumers DEF IInv, IdentityExpires
<1>3. KeyInv'
  BY DEF IInv, KeyInv, IdentityExpires, Last, pubVars, clientVars, failures
<1>4. QED
  BY <1>1, <1>2, <1>3 DEF IInv

LEMMA RegistrationLandsStep ==
    ASSUME IInv, NEW p \in Procs, RegistrationLands(p) PROVE IInv'
<1>1. TypeOK'
  BY DEF IInv, TypeOK, RegistrationLands, Last, pubVars, durableVars, clientVars, failures,
         ServiceIds
<1>2. DeliveryInv' /\ SeenInv'
  BY AwayFromConsumers DEF IInv, RegistrationLands
<1>3. KeyInv'
  BY DEF IInv, KeyInv, RegistrationLands, Last, pubVars, clientVars
<1>4. QED
  BY <1>1, <1>2, <1>3 DEF IInv

LEMMA KeyIsNat == \A d \in Event, c \in Consumers : d.to[c] \in Nat
  BY BusAssumption DEF Event, Keys

LEMMA StreamHoldsEvents == TypeOK => \A i \in 1 .. Last : stream[i] \in Event
  BY DEF TypeOK, Last

LEMMA ConsumerStartsStep ==
    ASSUME IInv, NEW c \in Consumers, ConsumerStarts(c) PROVE IInv'
<1>0. /\ epoch \in [Consumers -> Nat] /\ epoch' = [epoch EXCEPT ![c] = @ + 1]
      /\ up \in [Consumers -> BOOLEAN] /\ up' = [up EXCEPT ![c] = TRUE] /\ ~up[c]
      /\ \A k \in Consumers : epoch[k] <= epoch'[k]
      /\ UNCHANGED <<stream, draft, ghosts, num, status, inbox, held, runs, refused, unanswered>>
  BY BusAssumption
     DEF ConsumerStarts, IInv, TypeOK, Keys, serverVars, pubVars, durableVars, failures
<1>1. TypeOK'
  <2>1. epoch' \in [Consumers -> Keys]
    BY BusAssumption DEF ConsumerStarts, IInv, TypeOK, Keys
  <2>2. QED
    BY <1>0, <2>1 DEF ConsumerStarts, IInv, TypeOK, Last, serverVars, pubVars, durableVars
<1>2. DeliveryInv'
  BY <1>0 DEF IInv, DeliveryInv, Last, Spent
<1>3. KeyInv'
  <2>1. /\ \A k \in Consumers, i \in 1 .. Last : stream[i].to[k] \in Nat
        /\ \A k \in Consumers, d \in ghosts : d.to[k] \in Nat
        /\ \A k \in Consumers, p \in Procs : draft[p] # NoDraft => draft[p].to[k] \in Nat
    BY KeyIsNat, StreamHoldsEvents DEF IInv, TypeOK
  <2>2. QED
    BY <1>0, <2>1 DEF IInv, KeyInv, Last
<1>4. ASSUME NEW k \in Consumers, NEW i \in 1 .. Last
      PROVE  /\ i \in held[k] => Decrypts(k, i)'
             /\ up'[k] /\ Decrypts(k, i)' => num[k][i] = Spent(k, i)
  <2>1. CASE k # c
    BY <1>0, <2>1 DEF IInv, SeenInv, Decrypts
  <2>2. CASE k = c
    <3>1. stream[i].to[c] \in Nat /\ stream[i].to[c] <= epoch[c]
      BY KeyIsNat, StreamHoldsEvents, <2>2 DEF IInv, KeyInv
    <3>2. ~Decrypts(c, i)'
      BY <1>0, <3>1 DEF Decrypts
    <3>3. i \in Seqs
      BY BusAssumption DEF IInv, TypeOK, Seqs, Last
    <3>4. i \notin held[c]
      BY <1>0, <3>3 DEF IInv, DeliveryInv
    <3>5. QED
      BY <2>2, <3>2, <3>4
  <2>3. QED
    BY <2>1, <2>2
<1>5. SeenInv'
  BY <1>0, <1>4 DEF SeenInv, Last, Spent
<1>6. QED
  BY <1>1, <1>2, <1>3, <1>5 DEF IInv

LEMMA ConsumerStopsStep ==
    ASSUME IInv, NEW c \in Consumers, ConsumerStops(c) PROVE IInv'
<1>0. UNCHANGED <<stream, draft, ghosts, num, status, epoch, runs>>
  BY DEF ConsumerStops, serverVars, pubVars, durableVars
<1>1. TypeOK'
  <2>1. Never \in [Seqs -> 0 .. MaxDeliver]
    BY BusAssumption DEF Never
  <2>2. /\ refused' \in [Consumers -> [Seqs -> 0 .. MaxDeliver]]
        /\ unanswered' \in [Consumers -> [Seqs -> 0 .. MaxDeliver]]
    BY <2>1, Zenon DEF ConsumerStops, IInv, TypeOK
  <2>3. /\ up' \in [Consumers -> BOOLEAN]
        /\ inbox' \in [Consumers -> SUBSET Seqs] /\ held' \in [Consumers -> SUBSET Seqs]
    BY DEF ConsumerStops, IInv, TypeOK
  <2>4. QED
    BY <1>0, <2>2, <2>3 DEF ConsumerStops, IInv, TypeOK, Last, serverVars, pubVars, durableVars
<1>2. /\ ~up'[c] /\ inbox'[c] = {} /\ held'[c] = {}
      /\ \A i \in Seqs : refused'[c][i] = 0 /\ unanswered'[c][i] = 0
  BY DEF ConsumerStops, IInv, TypeOK, Never
<1>3. \A k \in Consumers : k # c =>
         /\ up'[k] = up[k] /\ inbox'[k] = inbox[k] /\ held'[k] = held[k]
         /\ refused'[k] = refused[k] /\ unanswered'[k] = unanswered[k]
  BY DEF ConsumerStops, IInv, TypeOK
<1>4. \A i \in Seqs : Spent(c, i)' <= Spent(c, i)
  BY <1>0, <1>2, CountsAreNat DEF IInv, Spent
<1>5. \A k \in Consumers, i \in Seqs : k # c => Spent(k, i)' = Spent(k, i)
  BY <1>0, <1>3 DEF Spent
<1>6. DeliveryInv'
  <2>1. \A k \in Consumers, i \in Seqs : Spent(k, i)' <= num[k][i]
    <3>1. \A i \in Seqs : Spent(c, i)' \in Nat
      BY <1>0, <1>2, CountsAreNat DEF IInv, Spent
    <3>2. QED
      BY <1>4, <1>5, <3>1, CountsAreNat DEF IInv, DeliveryInv
  <2>2. QED
    BY <1>0, <1>2, <1>3, <2>1 DEF IInv, DeliveryInv, Last
<1>7. KeyInv'
  BY <1>0 DEF IInv, KeyInv, Last
<1>8. SeenInv'
  <2>1. 1 .. Last \subseteq Seqs
    BY BusAssumption DEF IInv, TypeOK, Seqs, Last
  <2>2. QED
    BY <1>0, <1>2, <1>3, <1>5, <2>1 DEF IInv, SeenInv, Decrypts, Last
<1>9. QED
  BY <1>1, <1>6, <1>7, <1>8 DEF IInv

LEMMA FetchStep ==
    ASSUME IInv, NEW c \in Consumers, NEW B \in SUBSET Seqs, Fetch(c, B) PROVE IInv'
<1>0. /\ up[c] /\ inbox[c] = {} /\ held[c] = {}
      /\ \A i \in B : i \in 1 .. Last /\ status[c][i] \in {"new", "redo"}
      /\ inbox' = [inbox EXCEPT ![c] = B]
      /\ UNCHANGED <<stream, draft, ghosts, up, epoch, held, runs, refused, unanswered>>
  BY DEF Fetch, Deliverable, serverVars, pubVars, failures
<1>1. /\ \A k \in Consumers, i \in Seqs :
            /\ status'[k][i] = IF k = c /\ i \in B THEN "out" ELSE status[k][i]
            /\ num'[k][i] = IF k = c /\ i \in B THEN num[k][i] + 1 ELSE num[k][i]
      /\ \A k \in Consumers : inbox'[k] = IF k = c THEN B ELSE inbox[k]
  BY DEF Fetch, IInv, TypeOK
<1>2. \A i \in B : num[c][i] < MaxDeliver
  BY <1>0, BusAssumption DEF IInv, DeliveryInv
<1>3. TypeOK'
  <2>1. status' \in [Consumers -> [Seqs -> {"new", "out", "redo", "acked", "dead"}]]
    BY DEF Fetch, IInv, TypeOK
  <2>2. ASSUME NEW i \in Seqs
        PROVE  (IF i \in B THEN num[c][i] + 1 ELSE num[c][i]) \in 0 .. MaxDeliver
    BY <1>2, BusAssumption DEF IInv, TypeOK
  <2>3. num' \in [Consumers -> [Seqs -> 0 .. MaxDeliver]]
    BY <2>2 DEF Fetch, IInv, TypeOK
  <2>4. inbox' \in [Consumers -> SUBSET Seqs]
    BY DEF Fetch, IInv, TypeOK
  <2>5. QED
    BY <1>0, <2>1, <2>3, <2>4 DEF Fetch, IInv, TypeOK, Last, serverVars, pubVars
<1>4. \A k \in Consumers, i \in Seqs :
         Spent(k, i)' = IF k = c /\ i \in B THEN Spent(k, i) + 1 ELSE Spent(k, i)
  <2>1. \A k \in Consumers, i \in Seqs :
           /\ k # c => (i \in inbox'[k] <=> i \in inbox[k])
           /\ i \notin inbox[c] /\ (i \in inbox'[c] <=> i \in B)
    BY <1>0, <1>1
  <2>2. QED
    BY <1>0, <2>1, CountsAreNat DEF IInv, Spent
<1>5. DeliveryInv'
  <2>1. \A k \in Consumers, i \in Seqs : Spent(k, i)' <= num'[k][i]
    BY <1>1, <1>4, CountsAreNat DEF IInv, DeliveryInv
  <2>2. QED
    BY <1>0, <1>1, <2>1, CountsAreNat DEF IInv, DeliveryInv, Last
<1>6. KeyInv'
  BY <1>0 DEF IInv, KeyInv, Last
<1>7. SeenInv'
  <2>1. 1 .. Last \subseteq Seqs
    BY BusAssumption DEF IInv, TypeOK, Seqs, Last
  <2>2. QED
    BY <1>0, <1>1, <1>4, <2>1 DEF IInv, SeenInv, Decrypts, Last
<1>8. QED
  BY <1>3, <1>5, <1>6, <1>7 DEF IInv

LEMMA ProcessStep ==
    ASSUME IInv, NEW c \in Consumers, NEW i \in Seqs, Process(c, i) PROVE IInv'
<1>0. /\ i \in inbox[c]
      /\ inbox' = [inbox EXCEPT ![c] = @ \ {i}]
      /\ UNCHANGED <<stream, draft, ghosts, num, status, up, epoch>>
      /\ UNCHANGED <<serverVars, pubVars, durableVars, up, epoch>>
  BY DEF Process, serverVars, pubVars, durableVars
<1>1. /\ Spent(c, i) = runs[c][i] + refused[c][i] + unanswered[c][i] + 1
      /\ Spent(c, i) <= num[c][i]
      /\ runs[c][i] < num[c][i] /\ refused[c][i] < num[c][i] /\ unanswered[c][i] < num[c][i]
  <2>1. /\ Spent(c, i) = runs[c][i] + refused[c][i] + unanswered[c][i] + 1
        /\ Spent(c, i) <= num[c][i]
    BY <1>0 DEF Spent, IInv, DeliveryInv
  <2>2. QED
    BY <2>1, CountsAreNat DEF IInv
<1>2. up[c] /\ status[c][i] \in {"out", "redo", "dead"} /\ 1 .. Last \subseteq Seqs
  BY <1>0, BusAssumption DEF IInv, DeliveryInv, TypeOK, Seqs, Last
<1>3. /\ inbox' \in [Consumers -> SUBSET Seqs]
      /\ i \notin inbox'[c]
      /\ \A k \in Consumers, j \in Seqs :
            ~(k = c /\ j = i) => (j \in inbox'[k] <=> j \in inbox[k])
  BY <1>0 DEF IInv, TypeOK
<1>4. /\ held \in [Consumers -> SUBSET Seqs]
      /\ runs \in [Consumers -> [Seqs -> 0 .. MaxDeliver]]
      /\ refused \in [Consumers -> [Seqs -> 0 .. MaxDeliver]]
      /\ unanswered \in [Consumers -> [Seqs -> 0 .. MaxDeliver]]
  BY DEF IInv, TypeOK
<1>5. \* the outcome that is counted, if any
      /\ held' \in [Consumers -> SUBSET Seqs]
      /\ runs' \in [Consumers -> [Seqs -> 0 .. MaxDeliver]]
      /\ refused' \in [Consumers -> [Seqs -> 0 .. MaxDeliver]]
      /\ unanswered' \in [Consumers -> [Seqs -> 0 .. MaxDeliver]]
      /\ \A k \in Consumers, j \in Seqs : ~(k = c /\ j = i) =>
            /\ runs'[k][j] = runs[k][j] /\ refused'[k][j] = refused[k][j]
            /\ unanswered'[k][j] = unanswered[k][j]
            /\ j \in held'[k] <=> j \in held[k]
      /\ \/ /\ runs'[c][i] + refused'[c][i] + unanswered'[c][i]
                 = runs[c][i] + refused[c][i] + unanswered[c][i] + 1
            /\ Decrypts(c, i)
         \/ /\ runs'[c][i] = runs[c][i] /\ refused'[c][i] = refused[c][i]
            /\ unanswered'[c][i] = unanswered[c][i]
            /\ ~Decrypts(c, i)
      /\ \/ i \in held'[c] /\ Decrypts(c, i) /\ runs'[c][i] = runs[c][i] + 1
         \/ (i \in held'[c] <=> i \in held[c]) /\ runs'[c][i] = runs[c][i]
  <2>0. runs[c][i] \in Nat /\ refused[c][i] \in Nat /\ unanswered[c][i] \in Nat
    BY CountsAreNat DEF IInv
  <2>01. /\ runs[c][i] + 1 \in 0 .. MaxDeliver /\ refused[c][i] + 1 \in 0 .. MaxDeliver
         /\ unanswered[c][i] + 1 \in 0 .. MaxDeliver
    <3>1. num[c][i] \in 0 .. MaxDeliver /\ MaxDeliver \in Nat
      BY BusAssumption DEF IInv, TypeOK
    <3>2. QED
      BY <1>1, <2>0, <3>1
  <2>1. CASE /\ Decrypts(c, i) /\ held' = [held EXCEPT ![c] = @ \cup {i}]
             /\ runs' = [runs EXCEPT ![c][i] = @ + 1]
             /\ UNCHANGED failures
    <3>1. /\ runs' \in [Consumers -> [Seqs -> 0 .. MaxDeliver]]
          /\ runs'[c][i] = runs[c][i] + 1
          /\ \A k \in Consumers, j \in Seqs : ~(k = c /\ j = i) => runs'[k][j] = runs[k][j]
      BY <1>4, <2>01, <2>1
    <3>2. /\ held' \in [Consumers -> SUBSET Seqs] /\ i \in held'[c]
          /\ \A k \in Consumers, j \in Seqs :
                ~(k = c /\ j = i) => (j \in held'[k] <=> j \in held[k])
      BY <1>4, <2>1
    <3>3. refused' = refused /\ unanswered' = unanswered
      BY <2>1 DEF failures
    <3>4. QED
      BY <1>4, <2>0, <2>1, <3>1, <3>2, <3>3
  <2>2. CASE /\ Decrypts(c, i) /\ refused' = [refused EXCEPT ![c][i] = @ + 1]
             /\ UNCHANGED <<held, runs, unanswered>>
    <3>1. /\ refused' \in [Consumers -> [Seqs -> 0 .. MaxDeliver]]
          /\ refused'[c][i] = refused[c][i] + 1
          /\ \A k \in Consumers, j \in Seqs :
                ~(k = c /\ j = i) => refused'[k][j] = refused[k][j]
      BY <1>4, <2>01, <2>2
    <3>2. Decrypts(c, i) /\ held' = held /\ runs' = runs /\ unanswered' = unanswered
      BY <2>2
    <3>3. runs'[c][i] + refused'[c][i] + unanswered'[c][i]
            = runs[c][i] + refused[c][i] + unanswered[c][i] + 1
      BY <2>0, <3>1, <3>2
    <3>4. QED
      BY <1>4, <3>1, <3>2, <3>3, Zenon
  <2>3. CASE /\ Decrypts(c, i) /\ unanswered' = [unanswered EXCEPT ![c][i] = @ + 1]
             /\ UNCHANGED <<held, runs, refused>>
    <3>1. /\ unanswered' \in [Consumers -> [Seqs -> 0 .. MaxDeliver]]
          /\ unanswered'[c][i] = unanswered[c][i] + 1
          /\ \A k \in Consumers, j \in Seqs :
                ~(k = c /\ j = i) => unanswered'[k][j] = unanswered[k][j]
      BY <1>4, <2>01, <2>3
    <3>2. Decrypts(c, i) /\ held' = held /\ runs' = runs /\ refused' = refused
      BY <2>3
    <3>3. runs'[c][i] + refused'[c][i] + unanswered'[c][i]
            = runs[c][i] + refused[c][i] + unanswered[c][i] + 1
      <4>1. runs'[c][i] = runs[c][i] /\ refused'[c][i] = refused[c][i]
        BY <3>2, Zenon
      <4>2. QED
        BY <2>0, <3>1, <4>1
    <3>4. QED
      BY <1>4, <3>1, <3>2, <3>3, Zenon
  <2>4. CASE ~Decrypts(c, i) /\ UNCHANGED <<held, runs, failures>>
    BY <1>4, <2>4 DEF failures
  <2>5. QED
    BY <2>1, <2>2, <2>3, <2>4 DEF Process
<1>6. TypeOK'
  BY <1>0, <1>3, <1>5 DEF IInv, TypeOK, Last, serverVars, pubVars, durableVars
<1>7. /\ \A k \in Consumers, j \in Seqs : ~(k = c /\ j = i) => Spent(k, j)' = Spent(k, j)
      /\ Spent(c, i)' <= Spent(c, i)
      /\ Decrypts(c, i) => Spent(c, i)' = Spent(c, i)
      /\ Spent(c, i)' \in Nat
  <2>1. \A k \in Consumers, j \in Seqs : ~(k = c /\ j = i) => Spent(k, j)' = Spent(k, j)
    BY <1>3, <1>5 DEF Spent
  <2>2. Spent(c, i)' = runs'[c][i] + refused'[c][i] + unanswered'[c][i] + 0
    BY <1>3 DEF Spent
  <2>3. /\ runs[c][i] \in Nat /\ refused[c][i] \in Nat /\ unanswered[c][i] \in Nat
        /\ runs'[c][i] \in Nat /\ refused'[c][i] \in Nat /\ unanswered'[c][i] \in Nat
    BY <1>6, CountsAreNat, BusAssumption DEF IInv, TypeOK
  <2>4. QED
    BY <1>1, <1>5, <2>1, <2>2, <2>3
<1>8. DeliveryInv'
  <2>1. \A k \in Consumers, j \in Seqs : Spent(k, j)' <= num[k][j]
    <3>1. Spent(c, i)' <= num[c][i]
      <4>1. /\ Spent(c, i)' \in Nat
            /\ Spent(c, i) \in Nat /\ num[c][i] \in Nat
        BY <1>7, CountsAreNat DEF IInv
      <4>2. QED
        BY <1>1, <1>7, <4>1
    <3>2. QED
      BY <1>7, <3>1 DEF IInv, DeliveryInv
  <2>2. ASSUME NEW k \in Consumers, NEW j \in Seqs
        PROVE  /\ j \in inbox'[k] \cup held'[k]
                    => up[k] /\ status[k][j] \in {"out", "redo", "dead"}
               /\ j \in held'[k] => runs'[k][j] > 0
               /\ status[k][j] = "acked" => runs'[k][j] > 0
    <3>1. CASE k = c /\ j = i
      BY <1>2, <1>3, <1>5, <3>1, CountsAreNat DEF IInv, DeliveryInv
    <3>2. CASE ~(k = c /\ j = i)
      BY <1>3, <1>5, <3>2 DEF IInv, DeliveryInv
    <3>3. QED
      BY <3>1, <3>2
  <2>3. QED
    BY <1>0, <2>1, <2>2 DEF IInv, DeliveryInv, Last
<1>9. SeenInv'
  <2>1. ASSUME NEW k \in Consumers, NEW j \in 1 .. Last
        PROVE  /\ j \in held'[k] => Decrypts(k, j)
               /\ up[k] /\ Decrypts(k, j) => num[k][j] = Spent(k, j)'
    <3>0. /\ j \in Seqs
          /\ j \in held[k] => Decrypts(k, j)
          /\ up[k] /\ Decrypts(k, j) => num[k][j] = Spent(k, j)
      BY <1>2 DEF IInv, SeenInv
    <3>1. CASE k = c /\ j = i
      BY <1>5, <1>7, <3>0, <3>1
    <3>2. CASE ~(k = c /\ j = i)
      <4>1. Spent(k, j)' = Spent(k, j)
        BY <1>7, <3>0, <3>2
      <4>2. j \in held'[k] <=> j \in held[k]
        BY <1>5, <3>0, <3>2
      <4>3. QED
        BY <3>0, <4>1, <4>2
    <3>3. QED
      BY <3>1, <3>2
  <2>2. QED
    BY <1>0, <2>1 DEF SeenInv, Last, Decrypts
<1>10. KeyInv'
  BY <1>0 DEF IInv, KeyInv, Last
<1>11. QED
  BY <1>6, <1>8, <1>9, <1>10 DEF IInv

\* The three ways the status of a delivered event changes without a delivery.
LEMMA StatusStep ==
    ASSUME IInv, NEW c \in Consumers, NEW i \in Seqs,
           Ack(c, i) \/ Nak(c, i) \/ AckWaitExpires(c, i)
    PROVE  IInv'
<1> DEFINE new == status'[c][i]
<1>0. /\ UNCHANGED <<stream, draft, ghosts, num, up, epoch, inbox, runs, refused, unanswered>>
      /\ held' = held \/ held' = [held EXCEPT ![c] = @ \ {i}]
      /\ held \in [Consumers -> SUBSET Seqs]
  BY DEF Ack, Nak, AckWaitExpires, Handled, IInv, TypeOK, serverVars, pubVars, clientVars, failures
<1>1. /\ \A k \in Consumers : held'[k] \subseteq held[k]
      /\ i \in held'[c] => held' = held
  BY <1>0
<1>2. /\ num[c][i] > 0 /\ num[c][i] \in Nat
      /\ status' \in [Consumers -> [Seqs -> {"new", "out", "redo", "acked", "dead"}]]
      /\ \A k \in Consumers, j \in Seqs :
            ~(k = c /\ j = i) => status'[k][j] = status[k][j]
      /\ \/ new = "acked" /\ runs[c][i] > 0 /\ i \notin held'[c] /\ i \notin inbox[c]
         \/ new = "redo" /\ num[c][i] < MaxDeliver
         \/ new = "dead" /\ num[c][i] = MaxDeliver
         \/ new = status[c][i]
  <2>1. num[c][i] \in Nat
    BY CountsAreNat DEF IInv
  <2>2. CASE Ack(c, i)
    <3>1. PICK s \in {"acked", status[c][i]} : status' = [status EXCEPT ![c][i] = s]
      BY <2>2 DEF Ack
    <3>2. /\ i \in held[c] /\ inbox[c] = {} /\ held' = [held EXCEPT ![c] = @ \ {i}]
          /\ status[c][i] \in {"new", "out", "redo", "acked", "dead"}
      BY <2>2 DEF Ack, Handled, IInv, TypeOK
    <3>3. new = s /\ i \notin held'[c]
      BY <3>1, <3>2 DEF IInv, TypeOK
    <3>4. num[c][i] > 0 /\ runs[c][i] > 0
      <4>1. runs[c][i] > 0 /\ status[c][i] # "new"
        BY <3>2 DEF IInv, DeliveryInv
      <4>2. QED
        BY <2>1, <4>1 DEF IInv, DeliveryInv
    <3>5. QED
      BY <2>1, <3>1, <3>2, <3>3, <3>4 DEF IInv, TypeOK
  <2>3. num[c][i] <= MaxDeliver /\ MaxDeliver \in Nat
    BY BusAssumption DEF IInv, TypeOK
  <2>4. CASE Nak(c, i)
    BY <2>1, <2>3, <2>4 DEF Nak, Handled, Again, IInv, DeliveryInv, TypeOK
  <2>5. CASE AckWaitExpires(c, i)
    BY <2>1, <2>3, <2>5 DEF AckWaitExpires, Again, IInv, DeliveryInv, TypeOK
  <2>6. QED
    BY <2>2, <2>4, <2>5
<1>3. TypeOK'
  <2>1. held' \in [Consumers -> SUBSET Seqs]
    BY <1>0
  <2>2. UNCHANGED <<serverVars, pubVars, num, up, epoch, inbox, runs, refused, unanswered>>
    BY DEF Ack, Nak, AckWaitExpires, Handled, clientVars, failures
  <2>3. QED
    BY <1>2, <2>1, <2>2 DEF IInv, TypeOK, Last, serverVars, pubVars
<1>4. DeliveryInv'
  BY <1>0, <1>1, <1>2 DEF IInv, DeliveryInv, Last, Spent
<1>5. KeyInv'
  BY <1>0 DEF IInv, KeyInv, Last
<1>6. SeenInv'
  BY <1>0, <1>1 DEF IInv, SeenInv, Decrypts, Last, Spent
<1>7. QED
  BY <1>3, <1>4, <1>5, <1>6 DEF IInv

LEMMA NextIInv == IInv /\ [Next]_vars => IInv'
<1> SUFFICES ASSUME IInv, [Next]_vars PROVE IInv'
  OBVIOUS
<1>1. ASSUME NEW p \in Procs, PublisherStep(p) PROVE IInv'
  BY <1>1, ConnectStep, PublishStep, PublishReturnsStep, PublishRaisesStep, DisconnectStep
     DEF PublisherStep
<1>2. CASE ServerStep
  BY <1>2, GhostLandsStep, WindowPassesStep, IdentityExpiresStep, RegistrationLandsStep
     DEF ServerStep
<1>3. ASSUME NEW c \in Consumers, ConsumerStep(c) PROVE IInv'
  BY <1>3, ConsumerStartsStep, ConsumerStopsStep, FetchStep, ProcessStep, StatusStep
     DEF ConsumerStep
<1>4. CASE UNCHANGED vars
  <2>1. DeliveryInv' /\ SeenInv'
    BY <1>4, AwayFromConsumers DEF IInv, vars, serverVars
  <2>2. TypeOK' /\ KeyInv'
    BY <1>4 DEF IInv, TypeOK, KeyInv, Last, vars, serverVars, pubVars, durableVars, clientVars, failures
  <2>3. QED
    BY <2>1, <2>2 DEF IInv
<1>5. QED
  BY <1>1, <1>2, <1>3, <1>4 DEF Next

THEOREM Invariance == Spec => []IInv
  BY InitIInv, NextIInv, PTL DEF Spec

\* The variables keep to their types: in particular no event is delivered to
\* or run by a consumer more than MaxDeliver times.
THEOREM TypeCorrect == Spec => []TypeOK
<1>1. IInv => TypeOK
  BY DEF IInv
<1>2. QED
  BY <1>1, Invariance, PTL

\* fetch(), _process() and the loop over the batch: no handler ever sees more
\* runs of an event than deliveries, nor deliveries than MAX_DELIVER_ATTEMPTS.
THEOREM Budget == Spec => []HandledWithinBudget
<1>1. IInv => HandledWithinBudget
  <2> SUFFICES ASSUME IInv, NEW c \in Consumers, NEW i \in Seqs
               PROVE  runs[c][i] <= num[c][i] /\ num[c][i] <= MaxDeliver
    BY DEF HandledWithinBudget
  <2>1. Spent(c, i) <= num[c][i] /\ num[c][i] <= MaxDeliver
    BY BusAssumption DEF IInv, DeliveryInv, TypeOK
  <2>2. runs[c][i] <= Spent(c, i)
    BY CountsAreNat DEF IInv, Spent
  <2>3. QED
    BY <2>1, <2>2, CountsAreNat DEF IInv
<1>2. QED
  BY <1>1, Invariance, PTL

\* Only what _process() accepted is ever acked.
THEOREM AckSafety == Spec => []AckedWasHandled
<1>1. IInv => AckedWasHandled
  <2> SUFFICES ASSUME IInv, NEW c \in Consumers, NEW i \in 1 .. Last
               PROVE  /\ status[c][i] = "acked" => runs[c][i] > 0
                      /\ i \in held[c] => Decrypts(c, i) /\ up[c]
    BY DEF AckedWasHandled
  <2>1. i \in Seqs
    BY BusAssumption DEF IInv, TypeOK, Seqs, Last
  <2>2. QED
    BY <2>1 DEF IInv, DeliveryInv, SeenInv
<1>2. QED
  BY <1>1, Invariance, PTL

\* _process() and the loop over the batch lose no delivery of an event for the
\* key a consumer has now: each is handed out, refused, or ended in a lookup
\* that raised, and one that is given up has had all of max_deliver.
THEOREM NoLoss == Spec => []NoSilentLoss
<1>1. IInv => NoSilentLoss
  <2>1. IInv => 1 .. Last \subseteq Seqs
    BY BusAssumption DEF IInv, TypeOK, Seqs, Last
  <2>2. QED
    BY <2>1 DEF IInv, DeliveryInv, SeenInv, Spent, NoSilentLoss
<1>2. QED
  BY <1>1, Invariance, PTL

-------------------------------------------------------------------------------
(* The duplicate window.  Both directions are needed: the window names an  *)
(* event with that id (so that ReturnedId is real), and an event whose id  *)
(* never left the window is the one the window names (so that it is one).  *)

DedupInv ==
    /\ \A m \in MsgIds : window[m] # 0 => stream[window[m]].msgId = m
    /\ \A i \in 1 .. Last :
          stream[i].msgId \in MsgIds \ forgotten => window[stream[i].msgId] = i
    /\ ReturnedIdsAreReal

LEMMA InitDedup == Init => DedupInv
  BY DEF Init, DedupInv, ReturnedIdsAreReal, Last

\* The first two conjuncts of DedupInv after an event was stored, and the
\* event that publish() may name.
LEMMA StoreDedup ==
    ASSUME TypeOK, DedupInv, NEW d \in Event, Store(d), UNCHANGED forgotten
    PROVE  /\ \A m \in MsgIds : window'[m] # 0 => stream'[window'[m]].msgId = m
           /\ \A i \in 1 .. Len(stream') :
                 stream'[i].msgId \in MsgIds \ forgotten => window'[stream'[i].msgId] = i
           /\ \A r \in returned : \E i \in 1 .. Len(stream') :
                 stream'[i].id = r.id /\ stream'[i].msgId = r.msgId
           /\ \E i \in 1 .. Len(stream') :
                 stream'[i].id = ReturnedId(d) /\ stream'[i].msgId = d.msgId
<1>0. /\ Len(stream) \in Nat /\ Last = Len(stream)
      /\ window \in [MsgIds -> 0 .. Len(stream)]
      /\ d.msgId \in MsgIds \cup {NoMsgId}
      /\ NoMsgId \notin MsgIds
  BY BusAssumption DEF TypeOK, Last, Event
<1>1. CASE Duplicate(d)
  <2>1. UNCHANGED <<stream, window>> /\ ReturnedId(d) = stream[window[d.msgId]].id
    BY <1>1 DEF Store, ReturnedId
  <2>2. window[d.msgId] \in 1 .. Len(stream) /\ stream[window[d.msgId]].msgId = d.msgId
    BY <1>0, <1>1 DEF Duplicate, DedupInv
  <2>3. QED
    BY <1>0, <2>1, <2>2 DEF DedupInv, ReturnedIdsAreReal
<1>2. CASE ~Duplicate(d)
  <2>1. /\ stream' = Append(stream, d)
        /\ window' = IF d.msgId = NoMsgId THEN window
                     ELSE [window EXCEPT ![d.msgId] = Len(stream) + 1]
        /\ ReturnedId(d) = d.id
    BY <1>2 DEF Store, ReturnedId, Last
  <2>2. /\ Len(stream') = Len(stream) + 1
        /\ \A i \in 1 .. Len(stream) : stream'[i] = stream[i]
        /\ stream'[Len(stream) + 1] = d
    BY <2>1 DEF TypeOK
  <2>3. d.msgId \in MsgIds => window[d.msgId] = 0
    BY <1>0, <1>2 DEF Duplicate
  <2>4. \A m \in MsgIds : window'[m] = IF m = d.msgId THEN Len(stream) + 1 ELSE window[m]
    BY <1>0, <2>1
  <2>5. \A m \in MsgIds : window'[m] # 0 => stream'[window'[m]].msgId = m
    BY <1>0, <2>2, <2>4 DEF DedupInv
  <2>6. ASSUME NEW i \in 1 .. Len(stream'), stream'[i].msgId \in MsgIds \ forgotten
        PROVE  window'[stream'[i].msgId] = i
    <3>1. CASE i = Len(stream) + 1
      BY <2>2, <2>4, <2>6, <3>1
    <3>2. CASE i # Len(stream) + 1
      <4>1. i \in 1 .. Len(stream) /\ stream'[i] = stream[i]
        BY <1>0, <2>2, <3>2
      <4>2. window[stream[i].msgId] = i
        BY <1>0, <2>6, <4>1 DEF DedupInv
      <4>3. stream[i].msgId # d.msgId
        BY <2>3, <2>6, <4>1, <4>2
      <4>4. QED
        BY <2>4, <2>6, <4>1, <4>2, <4>3
    <3>3. QED
      BY <3>1, <3>2
  <2>7. \A r \in returned : \E i \in 1 .. Len(stream') :
           stream'[i].id = r.id /\ stream'[i].msgId = r.msgId
    <3> SUFFICES ASSUME NEW r \in returned
                 PROVE  \E i \in 1 .. Len(stream') :
                           stream'[i].id = r.id /\ stream'[i].msgId = r.msgId
      OBVIOUS
    <3>1. PICK i \in 1 .. Len(stream) : stream[i].id = r.id /\ stream[i].msgId = r.msgId
      BY <1>0 DEF DedupInv, ReturnedIdsAreReal
    <3>2. i \in 1 .. Len(stream')
      BY <1>0, <2>2
    <3>3. QED
      BY <2>2, <3>1, <3>2
  <2>8. \E i \in 1 .. Len(stream') :
           stream'[i].id = ReturnedId(d) /\ stream'[i].msgId = d.msgId
    BY <1>0, <2>1, <2>2
  <2>9. QED
    BY <2>5, <2>6, <2>7, <2>8
<1>3. QED
  BY <1>1, <1>2

LEMMA NextDedup == IInv /\ DedupInv /\ [Next]_vars => DedupInv'
<1> SUFFICES ASSUME IInv, DedupInv, [Next]_vars PROVE DedupInv'
  OBVIOUS
<1>1. ASSUME NEW p \in Procs, PublishReturns(p) PROVE DedupInv'
  <2>1. draft[p] \in Event /\ Store(draft[p]) /\ UNCHANGED forgotten
    BY <1>1 DEF PublishReturns, IInv, TypeOK
  <2>2. returned' = returned \cup {[msgId |-> draft[p].msgId, id |-> ReturnedId(draft[p])]}
    BY <1>1 DEF PublishReturns
  <2>3. QED
    BY <2>1, <2>2, StoreDedup DEF IInv, DedupInv, ReturnedIdsAreReal, Last
<1>2. ASSUME NEW d \in ghosts, GhostLands(d) PROVE DedupInv'
  <2>1. d \in Event /\ Store(d) /\ UNCHANGED <<forgotten, returned>>
    BY <1>2 DEF GhostLands, IInv, TypeOK
  <2>2. QED
    BY <2>1, StoreDedup DEF IInv, DedupInv, ReturnedIdsAreReal, Last
<1>3. ASSUME NEW m \in MsgIds, WindowPasses(m) PROVE DedupInv'
  <2>1. /\ window' = [window EXCEPT ![m] = 0] /\ window \in [MsgIds -> 0 .. Last]
        /\ forgotten' = forgotten \cup {m} /\ UNCHANGED <<stream, returned>>
    BY <1>3 DEF WindowPasses, IInv, TypeOK, pubVars
  <2>2. QED
    BY <2>1 DEF DedupInv, ReturnedIdsAreReal, Last
<1>4. CASE UNCHANGED <<stream, window, forgotten, returned>>
  BY <1>4 DEF DedupInv, ReturnedIdsAreReal, Last
<1>5. ASSUME NEW p \in Procs, PublisherStep(p) PROVE DedupInv'
  BY <1>1, <1>4, <1>5
     DEF PublisherStep, Connect, Publish, PublishRaises, Disconnect, serverVars
<1>6. CASE ServerStep
  BY <1>2, <1>3, <1>4, <1>6 DEF ServerStep, IdentityExpires, RegistrationLands, pubVars
<1>7. ASSUME NEW c \in Consumers, ConsumerStep(c) PROVE DedupInv'
  BY <1>4, <1>7
     DEF ConsumerStep, ConsumerStarts, ConsumerStops, Fetch, Process, Ack, Nak, Handled,
         AckWaitExpires, serverVars, pubVars
<1>8. QED
  BY <1>4, <1>5, <1>6, <1>7 DEF Next, vars, serverVars, pubVars

THEOREM DedupInvariance == Spec => []DedupInv
  BY InitDedup, NextDedup, Invariance, PTL DEF Spec

\* What publish() returns is the eventId of a stored event with that msg_id.
THEOREM RealIds == Spec => []ReturnedIdsAreReal
<1>1. DedupInv => ReturnedIdsAreReal
  BY DEF DedupInv
<1>2. QED
  BY <1>1, DedupInvariance, PTL

\* Retries of publish() under one msg_id are one event with one eventId.
THEOREM RetrySafety == Spec => []RetryIsOneEvent
<1>1. TypeOK /\ DedupInv => RetryIsOneEvent
  <2> SUFFICES ASSUME TypeOK, DedupInv, NEW m \in MsgIds \ forgotten
               PROVE  /\ \A i, j \in 1 .. Last :
                            stream[i].msgId = m /\ stream[j].msgId = m => i = j
                      /\ \A r, q \in returned : r.msgId = m /\ q.msgId = m => r.id = q.id
    BY DEF RetryIsOneEvent
  <2>1. \A i \in 1 .. Last : stream[i].msgId = m => i = window[m]
    BY DEF DedupInv
  <2>2. \A r \in returned : r.msgId = m => r.id = stream[window[m]].id
    BY <2>1 DEF DedupInv, ReturnedIdsAreReal
  <2>3. QED
    BY <2>1, <2>2
<1>2. QED
  BY <1>1, DedupInvariance, TypeCorrect, PTL

-------------------------------------------------------------------------------
(* The bus implements AtLeastOnce.  A step stores an event, hands one over,  *)
(* acknowledges or drops one, or leaves all three views as they are.         *)

LEMMA OutcomeUnchanged ==
    ASSUME UNCHANGED <<stream, runs, status>> PROVE UNCHANGED Abstract!vars
  BY DEF Abstract!vars, Outcome

LEMMA StoreImplements ==
    ASSUME IInv, NEW d \in Event, Store(d), UNCHANGED <<runs, status>>
    PROVE  [Abstract!Next]_(Abstract!vars)
<1>1. Outcome' = Outcome
  BY DEF Outcome
<1>2. CASE Duplicate(d)
  BY <1>1, <1>2 DEF Store, Abstract!vars
<1>3. CASE ~Duplicate(d)
  <2>1. Abstract!Accept(d)
    BY <1>1, <1>3 DEF Store, Last, Abstract!Accept
  <2>2. QED
    BY <2>1 DEF Abstract!Next
<1>4. QED
  BY <1>2, <1>3

LEMMA ProcessImplements ==
    ASSUME IInv, NEW c \in Consumers, NEW i \in Seqs, Process(c, i)
    PROVE  [Abstract!Next]_(Abstract!vars)
<1>0. UNCHANGED <<stream, status>> /\ i \in inbox[c]
  BY DEF Process, serverVars, durableVars
<1>1. CASE UNCHANGED runs
  BY <1>0, <1>1, OutcomeUnchanged
<1>2. CASE runs' = [runs EXCEPT ![c][i] = @ + 1]
  <2>1. /\ num[c][i] \in 0 .. MaxDeliver /\ runs[c][i] \in 0 .. MaxDeliver
        /\ runs[c][i] < num[c][i] /\ i <= Last /\ status[c][i] # "acked"
    <3>0. Spent(c, i) = runs[c][i] + refused[c][i] + unanswered[c][i] + 1
      BY <1>0 DEF Spent
    <3>1. num[c][i] \in 0 .. MaxDeliver /\ runs[c][i] \in 0 .. MaxDeliver
      BY DEF IInv, TypeOK
    <3>2. runs[c][i] < num[c][i] /\ status[c][i] # "acked"
      BY <1>0, <3>0, CountsAreNat DEF IInv, DeliveryInv
    <3>3. num[c][i] > 0
      BY <3>1, <3>2, BusAssumption
    <3>4. QED
      BY <3>1, <3>2, <3>3 DEF IInv, DeliveryInv
  <2>2. runs[c][i] < MaxDeliver
    BY <2>1, BusAssumption
  <2>3. Outcome' = Outcome /\ Outcome[c][i] # "acked"
    BY <1>0, <2>1 DEF Outcome
  <2>4. Abstract!HandOver(c, i)
    BY <1>0, <1>2, <2>1, <2>2, <2>3 DEF Abstract!HandOver, Last
  <2>5. i \in Abstract!Places
    BY DEF Abstract!Places, Seqs
  <2>6. QED
    BY <2>4, <2>5 DEF Abstract!Next
<1>3. QED
  BY <1>1, <1>2 DEF Process

\* The view of event i changes as its status does, and no other view.
LEMMA OutcomeStep ==
    ASSUME TypeOK, NEW c \in Consumers, NEW i \in Seqs, NEW s,
           status' = [status EXCEPT ![c][i] = s]
    PROVE  Outcome' = [Outcome EXCEPT ![c][i] =
               IF s = "acked" THEN "acked" ELSE IF s = "dead" THEN "dropped" ELSE "open"]
  BY DEF Outcome, TypeOK

LEMMA StatusImplements ==
    ASSUME IInv, NEW c \in Consumers, NEW i \in Seqs,
           Ack(c, i) \/ Nak(c, i) \/ AckWaitExpires(c, i)
    PROVE  [Abstract!Next]_(Abstract!vars)
<1>0. UNCHANGED <<stream, runs>> /\ i \in Abstract!Places
  BY DEF Ack, Nak, AckWaitExpires, Handled, serverVars, clientVars, failures, Abstract!Places, Seqs
<1>1. PICK s : /\ status' = [status EXCEPT ![c][i] = s]
               /\ \/ s = status[c][i]
                  \/ s = "acked" /\ i \in held[c]
                  \/ s \in {"redo", "dead"} /\ status[c][i] = "out"
  <2>1. CASE Ack(c, i)
    BY <2>1 DEF Ack, Handled
  <2>2. CASE Nak(c, i)
    <3>1. /\ i \in held[c]
          /\ status' = [status EXCEPT ![c][i] =
                           IF status[c][i] = "out" THEN Again(c, i) ELSE status[c][i]]
      BY <2>2 DEF Nak, Handled, IInv, TypeOK
    <3>2. Again(c, i) \in {"redo", "dead"}
      BY DEF Again
    <3>3. QED
      BY <3>1, <3>2
  <2>3. CASE AckWaitExpires(c, i)
    <3>1. Again(c, i) \in {"redo", "dead"}
      BY DEF Again
    <3>2. QED
      BY <2>3, <3>1 DEF AckWaitExpires
  <2>4. QED
    BY <2>1, <2>2, <2>3
<1>2. Outcome' = [Outcome EXCEPT ![c][i] =
          IF s = "acked" THEN "acked" ELSE IF s = "dead" THEN "dropped" ELSE "open"]
  BY <1>1, OutcomeStep DEF IInv
<1>3. /\ Outcome \in [Consumers -> [Seqs -> {"open", "acked", "dropped"}]]
      /\ Outcome[c][i] = IF status[c][i] = "acked" THEN "acked"
                         ELSE IF status[c][i] = "dead" THEN "dropped" ELSE "open"
  BY DEF Outcome
<1>4. CASE s = status[c][i]
  <2>1. Outcome' = Outcome
    BY <1>2, <1>3, <1>4
  <2>2. QED
    BY <1>0, <2>1 DEF Abstract!vars
<1>5. CASE s = "acked" /\ i \in held[c]
  <2>1. runs[c][i] > 0 /\ status[c][i] # "acked"
    BY <1>5 DEF IInv, DeliveryInv
  <2>2. Abstract!Acknowledge(c, i)
    BY <1>0, <1>2, <1>3, <1>5, <2>1 DEF Abstract!Acknowledge
  <2>3. QED
    BY <1>0, <2>2 DEF Abstract!Next
<1>6. CASE s = "redo" /\ status[c][i] = "out"
  <2>1. Outcome' = Outcome
    BY <1>2, <1>3, <1>6
  <2>2. QED
    BY <1>0, <2>1 DEF Abstract!vars
<1>7. CASE s = "dead" /\ status[c][i] = "out"
  <2>1. num[c][i] \in Nat /\ num[c][i] # 0
    BY <1>7, CountsAreNat DEF IInv, DeliveryInv
  <2>2. i <= Len(stream)
    BY <2>1 DEF IInv, DeliveryInv, Last
  <2>3. Abstract!Drop(c, i)
    BY <1>0, <1>2, <1>3, <1>7, <2>2 DEF Abstract!Drop
  <2>4. QED
    BY <1>0, <2>3 DEF Abstract!Next
<1>8. QED
  BY <1>1, <1>4, <1>5, <1>6, <1>7

LEMMA FetchImplements ==
    ASSUME IInv, NEW c \in Consumers, NEW B \in SUBSET Seqs, Fetch(c, B)
    PROVE  UNCHANGED Abstract!vars
<1>1. /\ UNCHANGED <<stream, runs>>
      /\ status' = [status EXCEPT ![c] = [i \in Seqs |-> IF i \in B THEN "out" ELSE @[i]]]
      /\ \A i \in B : status[c][i] \in {"new", "redo"}
  BY DEF Fetch, Deliverable, serverVars
<1>2. Outcome' = Outcome
  BY <1>1 DEF IInv, TypeOK, Outcome
<1>3. QED
  BY <1>1, <1>2 DEF Abstract!vars

\* Every behaviour of the bus, with its keys, restarts, batches and ack waits,
\* is one of the append-only log with bounded hand-overs and final acks.
THEOREM Refinement == Spec => ImplementsAtLeastOnce
<1>1. Init => Abstract!Init
  BY DEF Init, Abstract!Init, Abstract!Places, Outcome, Seqs, Never
<1>2. IInv /\ [Next]_vars => [Abstract!Next]_(Abstract!vars)
  <2> SUFFICES ASSUME IInv, [Next]_vars PROVE [Abstract!Next]_(Abstract!vars)
    OBVIOUS
  <2>1. ASSUME NEW p \in Procs, PublisherStep(p) PROVE [Abstract!Next]_(Abstract!vars)
    <3>1. CASE PublishReturns(p)
      <4>1. draft[p] \in Event /\ Store(draft[p]) /\ UNCHANGED <<runs, status>>
        BY <3>1 DEF PublishReturns, IInv, TypeOK, durableVars, clientVars, failures
      <4>2. QED
        BY <4>1, StoreImplements
    <3>2. CASE ~PublishReturns(p)
      BY <2>1, <3>2, OutcomeUnchanged
         DEF PublisherStep, Connect, Publish, PublishRaises, Disconnect, serverVars, durableVars,
             clientVars, failures
    <3>3. QED
      BY <3>1, <3>2
  <2>2. CASE ServerStep
    <3>1. ASSUME NEW d \in ghosts, GhostLands(d) PROVE [Abstract!Next]_(Abstract!vars)
      <4>1. d \in Event /\ Store(d) /\ UNCHANGED <<runs, status>>
        BY <3>1 DEF GhostLands, IInv, TypeOK, durableVars, clientVars, failures
      <4>2. QED
        BY <4>1, StoreImplements
    <3>2. QED
      BY <2>2, <3>1, OutcomeUnchanged
         DEF ServerStep, WindowPasses, IdentityExpires, RegistrationLands, durableVars, clientVars, failures
  <2>3. ASSUME NEW c \in Consumers, ConsumerStep(c) PROVE [Abstract!Next]_(Abstract!vars)
    <3>1. CASE ConsumerStarts(c) \/ ConsumerStops(c)
      BY <3>1, OutcomeUnchanged DEF ConsumerStarts, ConsumerStops, serverVars, durableVars
    <3>2. QED
      BY <2>3, <3>1, FetchImplements, ProcessImplements, StatusImplements DEF ConsumerStep
  <2>4. CASE UNCHANGED vars
    BY <2>4, OutcomeUnchanged DEF vars, serverVars, durableVars, clientVars, failures
  <2>5. QED
    BY <2>1, <2>2, <2>3, <2>4 DEF Next
<1>3. QED
  BY <1>1, <1>2, Invariance, PTL DEF Spec, ImplementsAtLeastOnce, Abstract!Spec

===============================================================================
