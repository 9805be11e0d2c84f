--------------------------- MODULE ClientTasksProofs --------------------------
(***************************************************************************)
(* Proofs about ClientTasks, for any subjects, callers, durables and       *)
(* bounds.                                                                 *)
(*                                                                         *)
(* The inductive invariant has one part for each thing the tasks share.    *)
(*   BeatInv: every running heartbeat is in the list that close() cancels, *)
(*   and no subscribe() is under way once close() has begun.               *)
(*   SendInv: what is in the dictionary has loaded, and only close() stops *)
(*   a watch.                                                              *)
(*   RaceInv: as long as no race has happened, every first publish is      *)
(*   alone with its subject and over before close() begins, so the         *)
(*   dictionary does not change under the loop of close().                 *)
(***************************************************************************)
EXTENDS ClientTasks, FiniteSetTheorems, TLAPS

BeatInv ==
    /\ beats \subseteq {t[2] : t \in tracked}
    /\ phase # "open" => booting = NotBooting
    /\ CloseEndsHeartbeats

SendInv ==
    /\ \A s \in Subjects : cached[s] # 0 => watch[cached[s]] \in {"ready", "stopped"}
    /\ \A k \in Callers : call[k].at = "sending" => watch[call[k].watch] \in {"ready", "stopped"}
    /\ phase = "open" => \A w \in Watches : watch[w] # "stopped"

OpenersAlone ==
    \A k \in Callers : Opening(k) =>
        /\ phase = "open"
        /\ cached[call[k].subject] = 0
        /\ \A j \in Callers \ {k} : Opening(j) => call[j].subject # call[k].subject

WatchesOwned ==
    \A w \in Running : \/ \E s \in Subjects : cached[s] = w
                       \/ \E k \in Callers : call[k].at = "loading" /\ call[k].watch = w

CloseInv ==
    /\ phase # "broken"
    /\ phase \in {"stopping", "closed"} => size = Cardinality(Cached)
    /\ phase = "closed" => Cached = stopped
    /\ \A s \in stopped : cached[s] # 0 /\ watch[cached[s]] = "stopped"

RaceInv == ~overlap => OpenersAlone /\ WatchesOwned /\ CloseInv

IInv == TypeOK /\ BeatInv /\ SendInv /\ RaceInv

\* The records a publish() passes through.
LEMMA CallShape ==
  ASSUME TypeOK, NEW k \in Callers
  PROVE  /\ call[k].at \in {"idle", "asking", "loading", "sending"}
         /\ call[k].at = "idle" => call[k] = Idle
         /\ call[k].at = "asking" => call[k] \in [at : {"asking"}, subject : Subjects]
         /\ call[k].at \in {"loading", "sending"} =>
               call[k] \in [at : {"loading", "sending"}, subject : Subjects, watch : Watches]
  <1>1. call[k] \in {Idle} \cup [at : {"asking"}, subject : Subjects]
                     \cup [at : {"loading", "sending"}, subject : Subjects, watch : Watches]
    BY DEF TypeOK
  <1>2. CASE call[k] = Idle
    BY <1>2 DEF Idle
  <1>3. CASE call[k] \in [at : {"asking"}, subject : Subjects]
    BY <1>3
  <1>4. CASE call[k] \in [at : {"loading", "sending"}, subject : Subjects, watch : Watches]
    BY <1>4
  <1> QED BY <1>1, <1>2, <1>3, <1>4

LEMMA CachedSize ==
  ASSUME TypeOK PROVE Cardinality(Cached) \in 0 .. Cardinality(Subjects)
  <1>1. Cached \subseteq Subjects
    BY DEF Cached
  <1>2. IsFiniteSet(Cached) /\ Cardinality(Cached) <= Cardinality(Subjects)
    BY <1>1, TasksAssumption, FS_Subset
  <1>3. Cardinality(Cached) \in Nat /\ Cardinality(Subjects) \in Nat
    BY <1>2, TasksAssumption, FS_CardinalityType
  <1> QED BY <1>2, <1>3


-------------------------------------------------------------------------------
(* publish().                                                              *)

\* A call that finds its subject in the dictionary sends from a loaded cache;
\* one that does not, and meets nobody, is the only opener of its subject.
LEMMA PublishIInv ==
  ASSUME IInv, NEW k \in Callers, NEW s \in Subjects, Publish(k, s) PROVE IInv'
  <1> USE DEF IInv
  <1> DEFINE c == IF cached[s] = 0 THEN [at |-> "asking", subject |-> s]
                  ELSE [at |-> "sending", subject |-> s, watch |-> cached[s]]
  <1>1. call' = [call EXCEPT ![k] = c] /\ call[k] = Idle
    BY DEF Publish
  <1>2. cached[s] # 0 => cached[s] \in Watches
    BY TasksAssumption DEF TypeOK, Watches
  <1>3. /\ cached[s] = 0 => c = [at |-> "asking", subject |-> s]
        /\ cached[s] # 0 => c = [at |-> "sending", subject |-> s, watch |-> cached[s]]
    OBVIOUS
  <1>4. c \in [at : {"asking"}, subject : Subjects]
               \cup [at : {"loading", "sending"}, subject : Subjects, watch : Watches]
    BY <1>2, <1>3
  <1> HIDE DEF c
  <1>5. UNCHANGED <<cached, watch, beatVars, closeVars>>
    BY DEF Publish
  <1>6. TypeOK'
    <2>1. call' \in [Callers -> {Idle} \cup [at : {"asking"}, subject : Subjects]
                     \cup [at : {"loading", "sending"}, subject : Subjects, watch : Watches]]
      BY <1>1, <1>4 DEF TypeOK
    <2>2. overlap' \in BOOLEAN
      BY DEF Publish, TypeOK
    <2> QED BY <2>1, <2>2, <1>5 DEF TypeOK, beatVars, closeVars
  <1>7. BeatInv'
    BY <1>5 DEF BeatInv, CloseEndsHeartbeats, beatVars, closeVars
  <1>8. \A j \in Callers : j # k => call'[j] = call[j]
    BY <1>1 DEF TypeOK
  <1>9. call'[k] = c
    BY <1>1 DEF TypeOK
  <1>10. SendInv'
    BY <1>3, <1>5, <1>8, <1>9 DEF SendInv, closeVars
  <1>11. RaceInv'
    <2> SUFFICES ASSUME ~overlap' PROVE (OpenersAlone /\ WatchesOwned /\ CloseInv)'
      BY DEF RaceInv
    <2>1. OpenersAlone /\ WatchesOwned /\ CloseInv
      BY DEF RaceInv, Publish, TypeOK
    <2>2. cached[s] = 0 =>
            phase = "open" /\ \A j \in Callers : Opening(j) => call[j].subject # s
      BY DEF Publish, TypeOK
    <2>3. OpenersAlone'
      BY <2>1, <2>2, <1>3, <1>5, <1>8, <1>9 DEF OpenersAlone, Opening, closeVars
    <2>4. WatchesOwned'
      BY <2>1, <1>1, <1>5, <1>8 DEF WatchesOwned, Running, Idle
    <2>5. CloseInv'
      BY <2>1, <1>5 DEF CloseInv, closeVars, Cached
    <2> QED BY <2>3, <2>4, <2>5
  <1> QED BY <1>6, <1>7, <1>10, <1>11

LEMMA WatchStartsIInv ==
  ASSUME IInv, NEW k \in Callers, NEW w \in Watches, WatchStarts(k, w) PROVE IInv'
  <1> USE DEF IInv
  <1> DEFINE c == [at |-> "loading", subject |-> call[k].subject, watch |-> w]
  <1>1. /\ call' = [call EXCEPT ![k] = c] /\ call[k].at = "asking"
        /\ watch' = [watch EXCEPT ![w] = "loading"] /\ watch[w] = "none"
        /\ UNCHANGED <<cached, beatVars, closeVars, overlap>>
    BY DEF WatchStarts
  <1>2. call[k].subject \in Subjects
    BY <1>1, CallShape
  <1>3. c \in [at : {"loading", "sending"}, subject : Subjects, watch : Watches]
    BY <1>2
  <1>4. c.at = "loading" /\ c.subject = call[k].subject /\ c.watch = w
    OBVIOUS
  <1> HIDE DEF c
  <1>5. TypeOK'
    <2>1. call' \in [Callers -> {Idle} \cup [at : {"asking"}, subject : Subjects]
                     \cup [at : {"loading", "sending"}, subject : Subjects, watch : Watches]]
      BY <1>1, <1>3 DEF TypeOK
    <2> QED BY <2>1, <1>1 DEF TypeOK, beatVars, closeVars
  <1>6. BeatInv'
    BY <1>1 DEF BeatInv, CloseEndsHeartbeats, beatVars, closeVars
  <1>7. \A j \in Callers : j # k => call'[j] = call[j]
    BY <1>1 DEF TypeOK
  <1>8. call'[k] = c
    BY <1>1 DEF TypeOK
  <1>9. watch'[w] = "loading" /\ \A v \in Watches \ {w} : watch'[v] = watch[v]
    BY <1>1 DEF TypeOK
  <1>10. SendInv'
    <2>1. \A s \in Subjects : cached'[s] # 0 => watch'[cached'[s]] \in {"ready", "stopped"}
      BY <1>1, TasksAssumption DEF SendInv, TypeOK, Watches
    <2>2. \A j \in Callers : call'[j].at = "sending" =>
                               watch'[call'[j].watch] \in {"ready", "stopped"}
      <3> SUFFICES ASSUME NEW j \in Callers, call'[j].at = "sending"
                   PROVE  watch'[call'[j].watch] \in {"ready", "stopped"}
        OBVIOUS
      <3>1. j # k /\ call'[j] = call[j]
        BY <1>4, <1>7, <1>8
      <3>2. call[j].watch \in Watches /\ watch[call[j].watch] \in {"ready", "stopped"}
        BY <3>1, CallShape DEF SendInv
      <3> QED BY <3>1, <3>2, <1>1, <1>9
    <2> QED BY <2>1, <2>2, <1>1, <1>9 DEF SendInv, closeVars
  <1>11. RaceInv'
    <2> SUFFICES ASSUME ~overlap' PROVE (OpenersAlone /\ WatchesOwned /\ CloseInv)'
      BY DEF RaceInv
    <2>1. OpenersAlone /\ WatchesOwned /\ CloseInv
      BY <1>1 DEF RaceInv
    <2>2. OpenersAlone'
      BY <2>1, <1>1, <1>4, <1>7, <1>8 DEF OpenersAlone, Opening, closeVars
    <2>3. WatchesOwned'
      <3> SUFFICES ASSUME NEW v \in Running'
                   PROVE  \/ \E s \in Subjects : cached'[s] = v
                          \/ \E j \in Callers : call'[j].at = "loading" /\ call'[j].watch = v
        BY DEF WatchesOwned
      <3>1. CASE v = w
        BY <3>1, <1>4, <1>8
      <3>2. CASE v # w
        <4>1. v \in Running
          BY <3>2, <1>9 DEF Running
        <4>2. CASE \E s \in Subjects : cached[s] = v
          BY <4>2, <1>1
        <4>3. CASE \E j \in Callers : call[j].at = "loading" /\ call[j].watch = v
          BY <4>3, <1>1, <1>7
        <4> QED BY <4>1, <4>2, <4>3, <2>1 DEF WatchesOwned
      <3> QED BY <3>1, <3>2
    <2>4. CloseInv'
      <3>1. \A s \in stopped : cached[s] # w
        BY <2>1, <1>1 DEF CloseInv
      <3>2. \A s \in stopped : watch'[cached[s]] = watch[cached[s]]
        BY <2>1, <3>1, <1>9, TasksAssumption DEF CloseInv, TypeOK, Watches
      <3> QED BY <2>1, <3>2, <1>1 DEF CloseInv, closeVars, Cached
    <2> QED BY <2>2, <2>3, <2>4
  <1> QED BY <1>5, <1>6, <1>10, <1>11

LEMMA SnapshotLoadsIInv ==
  ASSUME IInv, NEW w \in Watches, SnapshotLoads(w) PROVE IInv'
  <1> USE DEF IInv
  <1>1. /\ watch' = [watch EXCEPT ![w] = "ready"] /\ watch[w] = "loading"
        /\ UNCHANGED <<cached, call, beatVars, closeVars, overlap>>
    BY DEF SnapshotLoads
  <1>2. TypeOK'
    BY <1>1 DEF TypeOK, beatVars, closeVars
  <1>3. BeatInv'
    BY <1>1 DEF BeatInv, CloseEndsHeartbeats, beatVars, closeVars
  <1>4. \A v \in Watches : watch[v] \in {"ready", "stopped"} => watch'[v] = watch[v]
    BY <1>1 DEF TypeOK
  <1>5. \A v \in Watches : watch'[v] = "stopped" => watch[v] = "stopped"
    BY <1>1 DEF TypeOK
  <1>6. \A s \in Subjects : cached[s] # 0 => cached[s] \in Watches
    BY TasksAssumption DEF TypeOK, Watches
  <1>7. SendInv'
    <2>1. \A k \in Callers : call[k].at = "sending" => call[k].watch \in Watches
      BY CallShape
    <2> QED BY <2>1, <1>1, <1>4, <1>5, <1>6 DEF SendInv, closeVars
  <1>8. RaceInv'
    <2> SUFFICES ASSUME ~overlap' PROVE (OpenersAlone /\ WatchesOwned /\ CloseInv)'
      BY DEF RaceInv
    <2>1. OpenersAlone /\ WatchesOwned /\ CloseInv
      BY <1>1 DEF RaceInv
    <2>2. Running' = Running
      BY <1>1 DEF Running, TypeOK
    <2>3. OpenersAlone' /\ WatchesOwned'
      BY <2>1, <2>2, <1>1 DEF OpenersAlone, Opening, WatchesOwned, closeVars
    <2>4. CloseInv'
      <3>1. \A s \in stopped : cached[s] \in Watches
        BY <2>1, <1>6 DEF CloseInv, TypeOK
      <3> QED BY <2>1, <3>1, <1>1, <1>4 DEF CloseInv, closeVars, Cached
    <2> QED BY <2>3, <2>4
  <1> QED BY <1>2, <1>3, <1>7, <1>8

\* The cache that goes into the dictionary has loaded; without a race its place
\* there was free.
LEMMA CacheStoredIInv ==
  ASSUME IInv, NEW k \in Callers, CacheStored(k) PROVE IInv'
  <1> USE DEF IInv
  <1> DEFINE t == call[k].subject
             w == call[k].watch
             c == [call[k] EXCEPT !.at = "sending"]
  <1>1. /\ call' = [call EXCEPT ![k] = c] /\ call[k].at = "loading" /\ watch[w] = "ready"
        /\ cached' = [cached EXCEPT ![t] = w]
        /\ UNCHANGED <<watch, beatVars, closeVars, overlap>>
    BY DEF CacheStored
  <1>2. t \in Subjects /\ w \in Watches
    BY <1>1, CallShape
  <1>3. /\ c \in [at : {"loading", "sending"}, subject : Subjects, watch : Watches]
        /\ c.at = "sending" /\ c.watch = w
    BY <1>1, CallShape
  <1> HIDE DEF c, t, w
  <1>4. w # 0 /\ w \in 0 .. MaxWatches
    BY <1>2, TasksAssumption DEF Watches
  <1>5. TypeOK'
    <2>1. call' \in [Callers -> {Idle} \cup [at : {"asking"}, subject : Subjects]
                     \cup [at : {"loading", "sending"}, subject : Subjects, watch : Watches]]
      BY <1>1, <1>3 DEF TypeOK
    <2>2. cached' \in [Subjects -> 0 .. MaxWatches]
      BY <1>1, <1>4 DEF TypeOK
    <2> QED BY <2>1, <2>2, <1>1 DEF TypeOK, beatVars, closeVars
  <1>6. BeatInv'
    BY <1>1 DEF BeatInv, CloseEndsHeartbeats, beatVars, closeVars
  <1>7. \A j \in Callers : j # k => call'[j] = call[j]
    BY <1>1 DEF TypeOK
  <1>8. call'[k] = c
    BY <1>1 DEF TypeOK
  <1>9. cached'[t] = w /\ \A s \in Subjects \ {t} : cached'[s] = cached[s]
    BY <1>1, <1>2 DEF TypeOK
  <1>10. SendInv'
    BY <1>1, <1>3, <1>7, <1>8, <1>9 DEF SendInv, closeVars
  <1>11. RaceInv'
    <2> SUFFICES ASSUME ~overlap' PROVE (OpenersAlone /\ WatchesOwned /\ CloseInv)'
      BY DEF RaceInv
    <2>1. OpenersAlone /\ WatchesOwned /\ CloseInv
      BY <1>1 DEF RaceInv
    <2>2. /\ phase = "open" /\ cached[t] = 0
          /\ \A j \in Callers \ {k} : Opening(j) => call[j].subject # t
      BY <2>1, <1>1 DEF OpenersAlone, Opening, t
    <2>3. OpenersAlone'
      <3> SUFFICES ASSUME NEW j \in Callers, Opening(j)'
                   PROVE  /\ phase' = "open"
                          /\ cached'[call'[j].subject] = 0
                          /\ \A i \in Callers \ {j} : Opening(i)' => call'[i].subject # call'[j].subject
        BY DEF OpenersAlone
      <3>1. j # k /\ Opening(j) /\ call'[j] = call[j]
        BY <1>3, <1>7, <1>8 DEF Opening
      <3>2. call[j].subject \in Subjects \ {t}
        BY <2>2, <3>1, CallShape DEF Opening
      <3>3. \A i \in Callers \ {j} : Opening(i)' => i # k /\ Opening(i) /\ call'[i] = call[i]
        BY <1>3, <1>7, <1>8 DEF Opening
      <3> QED BY <2>1, <3>1, <3>2, <3>3, <1>1, <1>9 DEF OpenersAlone, closeVars
    <2>4. WatchesOwned'
      <3> SUFFICES ASSUME NEW v \in Running
                   PROVE  \/ \E s \in Subjects : cached'[s] = v
                          \/ \E j \in Callers : call'[j].at = "loading" /\ call'[j].watch = v
        BY <1>1 DEF WatchesOwned, Running
      <3>1. CASE v = w
        BY <3>1, <1>2, <1>9
      <3>2. CASE v # w
        <4>1. ASSUME NEW s \in Subjects, cached[s] = v PROVE cached'[s] = v
          <5>1. v # 0
            BY TasksAssumption DEF Running, Watches
          <5> QED BY <4>1, <5>1, <2>2, <1>9
        <4>2. ASSUME NEW j \in Callers, call[j].at = "loading", call[j].watch = v
              PROVE  call'[j].at = "loading" /\ call'[j].watch = v
          BY <4>2, <3>2, <1>7 DEF w
        <4> QED BY <4>1, <4>2, <2>1 DEF WatchesOwned
      <3> QED BY <3>1, <3>2
    <2>5. CloseInv'
      <3>1. stopped \subseteq Subjects \ {t}
        BY <2>1, <2>2 DEF CloseInv, TypeOK
      <3> QED BY <2>1, <2>2, <3>1, <1>1, <1>9 DEF CloseInv, closeVars
    <2> QED BY <2>3, <2>4, <2>5
  <1> QED BY <1>5, <1>6, <1>10, <1>11

LEMMA PublishEndsIInv ==
  ASSUME IInv, NEW k \in Callers, PublishEnds(k) PROVE IInv'
  <1> USE DEF IInv
  <1>1. /\ call' = [call EXCEPT ![k] = Idle] /\ call[k].at \in {"asking", "sending"}
        /\ UNCHANGED <<cached, watch, beatVars, closeVars, overlap>>
    BY DEF PublishEnds
  <1>2. TypeOK'
    <2>1. call' \in [Callers -> {Idle} \cup [at : {"asking"}, subject : Subjects]
                     \cup [at : {"loading", "sending"}, subject : Subjects, watch : Watches]]
      BY <1>1 DEF TypeOK
    <2> QED BY <2>1, <1>1 DEF TypeOK, beatVars, closeVars
  <1>3. BeatInv'
    BY <1>1 DEF BeatInv, CloseEndsHeartbeats, beatVars, closeVars
  <1>4. /\ \A j \in Callers : j # k => call'[j] = call[j]
        /\ call'[k].at = "idle"
    BY <1>1 DEF TypeOK, Idle
  <1>5. SendInv'
    BY <1>1, <1>4 DEF SendInv, closeVars
  <1>6. RaceInv'
    <2>1. OpenersAlone => OpenersAlone'
      BY <1>1, <1>4 DEF OpenersAlone, Opening, closeVars
    <2>2. WatchesOwned => WatchesOwned'
      BY <1>1, <1>4 DEF WatchesOwned, Running
    <2>3. CloseInv => CloseInv'
      BY <1>1 DEF CloseInv, closeVars, Cached
    <2> QED BY <2>1, <2>2, <2>3, <1>1 DEF RaceInv
  <1> QED BY <1>2, <1>3, <1>5, <1>6

-------------------------------------------------------------------------------
(* subscribe().                                                            *)

\* A step that leaves publish() and close() alone.
LEMMA BeatFrame ==
  ASSUME IInv, TypeOK', BeatInv', UNCHANGED <<pubVars, closeVars, overlap>>
  PROVE  IInv'
  <1>1. SendInv'
    BY DEF IInv, SendInv, pubVars, closeVars
  <1>2. RaceInv'
    BY DEF IInv, RaceInv, OpenersAlone, Opening, WatchesOwned, Running, CloseInv, Cached,
           pubVars, closeVars
  <1> QED BY <1>1, <1>2 DEF IInv

LEMMA SubscribeIInv ==
  ASSUME IInv, NEW d \in Durables, Subscribe(d) PROVE IInv'
  <1>1. TypeOK'
    BY DEF IInv, TypeOK, Subscribe, pubVars, closeVars
  <1>2. BeatInv'
    BY DEF IInv, BeatInv, CloseEndsHeartbeats, Subscribe, closeVars
  <1> QED BY <1>1, <1>2, BeatFrame DEF Subscribe

\* A heartbeat starts only while the client is open, and in the list.
LEMMA HeartbeatStartsIInv ==
  ASSUME IInv, NEW b \in Beats, HeartbeatStarts(b) PROVE IInv'
  <1>1. booting \in [at : {"registering", "consumer"}, durable : Durables]
    BY DEF HeartbeatStarts, IInv, TypeOK, NotBooting
  <1>2. phase = "open"
    BY DEF HeartbeatStarts, IInv, BeatInv, NotBooting
  <1>3. TypeOK'
    <2>1. tracked' \subseteq Durables \X Beats
      BY <1>1 DEF IInv, TypeOK, HeartbeatStarts
    <2>2. booting' \in [at : {"registering", "consumer"}, durable : Durables]
      BY <1>1 DEF HeartbeatStarts
    <2> QED BY <2>1, <2>2 DEF IInv, TypeOK, HeartbeatStarts, pubVars, closeVars
  <1>4. BeatInv'
    <2>1. b \in {t[2] : t \in tracked'}
      <3>1. <<booting.durable, b>> \in tracked'
        BY DEF HeartbeatStarts
      <3> QED BY <3>1
    <2>2. {t[2] : t \in tracked} \subseteq {t[2] : t \in tracked'}
      BY DEF HeartbeatStarts
    <2>3. beats' \subseteq {t[2] : t \in tracked'}
      BY <2>1, <2>2 DEF IInv, BeatInv, HeartbeatStarts
    <2>4. phase' = "open"
      BY <1>2 DEF HeartbeatStarts, closeVars
    <2> QED BY <2>3, <2>4 DEF BeatInv, CloseEndsHeartbeats
  <1> QED BY <1>3, <1>4, BeatFrame DEF HeartbeatStarts

LEMMA SubscribeEndsIInv == ASSUME IInv, SubscribeEnds PROVE IInv'
  <1>1. TypeOK'
    BY DEF IInv, TypeOK, SubscribeEnds, pubVars, closeVars
  <1>2. BeatInv'
    BY DEF IInv, BeatInv, CloseEndsHeartbeats, SubscribeEnds, closeVars
  <1> QED BY <1>1, <1>2, BeatFrame DEF SubscribeEnds

-------------------------------------------------------------------------------
(* close().                                                                *)

\* Either a first publish is under way, and that is a race, or none will be.
LEMMA CloseBeginsIInv == ASSUME IInv, CloseBegins PROVE IInv'
  <1> USE DEF IInv, CloseBegins, pubVars, beatVars
  <1>1. TypeOK'
    BY DEF TypeOK
  <1>2. BeatInv'
    BY DEF BeatInv, CloseEndsHeartbeats
  <1>3. SendInv'
    BY DEF SendInv
  <1>4. RaceInv'
    <2> SUFFICES ASSUME ~overlap' PROVE (OpenersAlone /\ WatchesOwned /\ CloseInv)'
      BY DEF RaceInv
    <2>1. WatchesOwned /\ CloseInv /\ \A k \in Callers : ~Opening(k)
      BY DEF RaceInv, TypeOK
    <2>2. OpenersAlone'
      BY <2>1 DEF OpenersAlone, Opening
    <2>3. WatchesOwned' /\ CloseInv'
      BY <2>1 DEF WatchesOwned, Running, CloseInv, Cached
    <2> QED BY <2>2, <2>3
  <1> QED BY <1>1, <1>2, <1>3, <1>4

\* Every task in the list is over, and no other task runs.
LEMMA TasksEndIInv == ASSUME IInv, TasksEnd PROVE IInv'
  <1> USE DEF IInv, TasksEnd, pubVars
  <1>1. TypeOK'
    <2>1. size' \in 0 .. Cardinality(Subjects)
      BY CachedSize
    <2> QED BY <2>1 DEF TypeOK
  <1>2. BeatInv'
    BY DEF BeatInv, CloseEndsHeartbeats
  <1>3. SendInv'
    BY DEF SendInv
  <1>4. RaceInv'
    <2> SUFFICES ASSUME ~overlap' PROVE (OpenersAlone /\ WatchesOwned /\ CloseInv)'
      BY DEF RaceInv
    <2>1. OpenersAlone /\ WatchesOwned /\ CloseInv
      BY DEF RaceInv
    <2>2. OpenersAlone' /\ WatchesOwned'
      BY <2>1 DEF OpenersAlone, Opening, WatchesOwned, Running
    <2>3. CloseInv'
      BY <2>1 DEF CloseInv, Cached
    <2> QED BY <2>2, <2>3
  <1> QED BY <1>1, <1>2, <1>3, <1>4

LEMMA StopCacheIInv ==
  ASSUME IInv, NEW s \in Subjects, StopCache(s) PROVE IInv'
  <1> USE DEF IInv
  <1> DEFINE w == cached[s]
  <1>1. /\ phase = "stopping" /\ s \in Cached
        /\ watch' = [watch EXCEPT ![w] = "stopped"]
        /\ stopped' = stopped \cup {s}
        /\ UNCHANGED <<cached, call, beatVars, phase, size, overlap>>
    BY DEF StopCache
  <1>2. w \in Watches
    BY <1>1, TasksAssumption DEF TypeOK, Watches, Cached
  <1>3. TypeOK'
    BY <1>1 DEF TypeOK, beatVars
  <1>4. BeatInv'
    BY <1>1 DEF BeatInv, CloseEndsHeartbeats, beatVars
  <1>5. watch'[w] = "stopped" /\ \A v \in Watches \ {w} : watch'[v] = watch[v]
    BY <1>1, <1>2 DEF TypeOK
  <1>6. \A t \in Subjects : cached[t] # 0 => cached[t] \in Watches
    BY TasksAssumption DEF TypeOK, Watches
  <1> HIDE DEF w
  <1>7. SendInv'
    <2>1. \A k \in Callers : call[k].at = "sending" => call[k].watch \in Watches
      BY CallShape
    <2> QED BY <2>1, <1>1, <1>5, <1>6 DEF SendInv
  <1>8. RaceInv'
    <2> SUFFICES ASSUME ~overlap' PROVE (OpenersAlone /\ WatchesOwned /\ CloseInv)'
      BY DEF RaceInv
    <2>1. OpenersAlone /\ WatchesOwned /\ CloseInv
      BY <1>1 DEF RaceInv
    <2>2. Running' \subseteq Running
      BY <1>5 DEF Running
    <2>3. OpenersAlone' /\ WatchesOwned'
      BY <2>1, <2>2, <1>1 DEF OpenersAlone, Opening, WatchesOwned
    <2>4. \A t \in stopped' : cached[t] # 0 /\ watch'[cached[t]] = "stopped"
      BY <2>1, <1>1, <1>5, <1>6 DEF CloseInv, Cached, w, TypeOK
    <2>5. CloseInv'
      BY <2>1, <2>4, <1>1 DEF CloseInv, Cached
    <2> QED BY <2>3, <2>5
  <1> QED BY <1>3, <1>4, <1>7, <1>8

\* Without a race the dictionary has the size it had, so the loop runs to its
\* end.
LEMMA CloseEndsIInv == ASSUME IInv, CloseEnds PROVE IInv'
  <1> USE DEF IInv, CloseEnds, pubVars, beatVars
  <1>1. TypeOK'
    BY DEF TypeOK
  <1>2. BeatInv'
    BY DEF BeatInv, CloseEndsHeartbeats
  <1>3. SendInv'
    BY DEF SendInv
  <1>4. RaceInv'
    <2> SUFFICES ASSUME ~overlap' PROVE (OpenersAlone /\ WatchesOwned /\ CloseInv)'
      BY DEF RaceInv
    <2>1. OpenersAlone /\ WatchesOwned /\ CloseInv
      BY DEF RaceInv
    <2>2. OpenersAlone' /\ WatchesOwned'
      BY <2>1 DEF OpenersAlone, Opening, WatchesOwned, Running
    <2>3. CloseInv'
      BY <2>1 DEF CloseInv, Cached
    <2> QED BY <2>2, <2>3
  <1> QED BY <1>1, <1>2, <1>3, <1>4

-------------------------------------------------------------------------------
LEMMA NextIInv == IInv /\ [Next]_vars => IInv'
  <1> SUFFICES ASSUME IInv, [Next]_vars PROVE IInv'
    OBVIOUS
  <1>1. ASSUME NEW k \in Callers, PublishStep(k) PROVE IInv'
    BY <1>1, PublishIInv, WatchStartsIInv, CacheStoredIInv, PublishEndsIInv DEF PublishStep
  <1>2. ASSUME NEW w \in Watches, SnapshotLoads(w) PROVE IInv'
    BY <1>2, SnapshotLoadsIInv
  <1>3. ASSUME NEW d \in Durables, Subscribe(d) PROVE IInv'
    BY <1>3, SubscribeIInv
  <1>4. ASSUME NEW b \in Beats, HeartbeatStarts(b) PROVE IInv'
    BY <1>4, HeartbeatStartsIInv
  <1>5. CASE SubscribeEnds
    BY <1>5, SubscribeEndsIInv
  <1>6. CASE CloseStep
    BY <1>6, CloseBeginsIInv, TasksEndIInv, StopCacheIInv, CloseEndsIInv DEF CloseStep
  <1>7. CASE UNCHANGED vars
    <2>1. TypeOK' /\ BeatInv'
      BY <1>7 DEF IInv, TypeOK, BeatInv, CloseEndsHeartbeats, vars, pubVars, beatVars, closeVars
    <2> QED BY <1>7, <2>1, BeatFrame DEF vars
  <1> QED BY <1>1, <1>2, <1>3, <1>4, <1>5, <1>6, <1>7 DEF Next

LEMMA InitIInv == Init => IInv
  <1> SUFFICES ASSUME Init PROVE IInv
    OBVIOUS
  <1>1. TypeOK
    <2>1. Cardinality(Subjects) \in Nat
      BY TasksAssumption, FS_CardinalityType
    <2>2. 0 \in 0 .. Cardinality(Subjects) /\ 0 \in 0 .. MaxWatches
      BY <2>1, TasksAssumption
    <2> QED BY <2>2 DEF Init, TypeOK
  <1>2. BeatInv
    BY DEF Init, BeatInv, CloseEndsHeartbeats
  <1>3. SendInv
    BY DEF Init, SendInv, Idle
  <1>4. RaceInv
    BY DEF Init, RaceInv, OpenersAlone, Opening, WatchesOwned, Running, CloseInv, Idle
  <1> QED BY <1>1, <1>2, <1>3, <1>4 DEF IInv

LEMMA InvariantHolds == Spec => []IInv
  BY InitIInv, NextIInv, PTL DEF Spec

-------------------------------------------------------------------------------
\* Every variable of the client keeps to its values.
THEOREM TypeCorrect == Spec => []TypeOK
  <1>1. IInv => TypeOK
    BY DEF IInv
  <1> QED BY <1>1, InvariantHolds, PTL

\* close() ends every heartbeat task, of repeated subscribe() calls too, before
\* it comes to the part of it that can raise.
THEOREM HeartbeatsEnd == Spec => []CloseEndsHeartbeats
  <1>1. IInv => CloseEndsHeartbeats
    BY DEF IInv, BeatInv
  <1> QED BY <1>1, InvariantHolds, PTL

\* publish() never encrypts from a cache that has not read the directory, and
\* while the client is open never from one that has stopped to follow it.
THEOREM SendsLoaded == Spec => []SendsFromLoadedCache
  <1>1. IInv => SendsFromLoadedCache
    <2> SUFFICES ASSUME IInv, NEW k \in Callers, call[k].at = "sending"
                 PROVE  watch[call[k].watch] \in
                            (IF phase = "open" THEN {"ready"} ELSE {"ready", "stopped"})
      BY DEF SendsFromLoadedCache
    <2>1. call[k].watch \in Watches
      BY CallShape DEF IInv
    <2> QED BY <2>1 DEF IInv, SendInv
  <1> QED BY <1>1, InvariantHolds, PTL

\* A watch or a connection that close() leaves behind is always due to a first
\* publish that overlapped another one of its subject or the close().
THEOREM LeftoversAreRaces == Spec => []LeftoversTakeARace
  <1>1. IInv => LeftoversTakeARace
    <2> SUFFICES ASSUME IInv, ~overlap
                 PROVE  /\ phase # "broken"
                        /\ phase = "closed" => Running = {}
                        /\ WatchesOwned
      BY DEF LeftoversTakeARace, WatchesOwned
    <2>1. OpenersAlone /\ WatchesOwned /\ CloseInv
      BY DEF IInv, RaceInv
    <2>2. ASSUME phase = "closed", NEW w \in Running PROVE FALSE
      <3>1. CASE \E s \in Subjects : cached[s] = w
        <4>1. PICK s \in Subjects : cached[s] = w
          BY <3>1
        <4>2. s \in Cached
          BY <4>1, TasksAssumption DEF Cached, Running, Watches
        <4> QED BY <2>1, <2>2, <4>1, <4>2 DEF CloseInv, Running
      <3>2. CASE \E k \in Callers : call[k].at = "loading" /\ call[k].watch = w
        BY <3>2, <2>1, <2>2 DEF OpenersAlone, Opening
      <3> QED BY <2>1, <3>1, <3>2 DEF WatchesOwned
    <2> QED BY <2>1, <2>2 DEF CloseInv
  <1> QED BY <1>1, InvariantHolds, PTL

===============================================================================
