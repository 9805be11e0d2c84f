------------------------ MODULE ServiceDirectoryProofs ------------------------
(***************************************************************************)
(* Proofs about ServiceDirectory, for any finite set of subscribers, any   *)
(* publishers, TTL and bounds.                                             *)
(*                                                                         *)
(* StaysRegistered needs BeatInv: the age of an entry is bounded by the    *)
(* beats that failed since it was written, plus the one under way.         *)
(* CacheFollows needs that a cache is empty before its watch starts        *)
(* (OffInv); the rest is what appending to a queue, and applying its head, *)
(* do to what the queue yields.                                            *)
(***************************************************************************)
EXTENDS ServiceDirectory, FiniteSetTheorems, TLAPS

Beat(s) == IF mode[s] = "beating" THEN 1 ELSE 0

KeyInv ==
    \A s \in Services : NoKey \notin late[s] /\ (mode[s] # "down" => epoch[s] # NoKey)

BeatInv ==
    \A s \in Services :
        Up(s) /\ ~removed[s] =>
            /\ entry[s] # NoKey => age[s] <= missed[s] + Beat(s)
            /\ entry[s] = NoKey => TTL <= missed[s] + Beat(s)

OffInv ==
    \A p \in Publishers : ~Watching(p) => queue[p] = <<>> /\ cache[p] = NoEntries

IInv == TypeOK /\ KeyInv /\ BeatInv /\ OffInv /\ CacheFollows

-------------------------------------------------------------------------------
(* What a queue yields.                                                    *)

Updates == Update \cup {CaughtUp}

LEMMA YieldsOwnLast ==
    ASSUME NEW q \in Seq(Updates), NEW u \in Updates, NEW old, NEW s, IsFor(u, s)
    PROVE  Yields(Append(q, u), old, s, u.key)
<1>1. /\ Len(Append(q, u)) = Len(q) + 1 /\ Len(q) \in Nat
      /\ Append(q, u)[Len(q) + 1] = u
  OBVIOUS
<1>2. QED
  BY <1>1 DEF Yields

LEMMA YieldsOtherLast ==
    ASSUME NEW q \in Seq(Updates), NEW u \in Updates, NEW old, NEW s, NEW k,
           ~IsFor(u, s), Yields(q, old, s, k)
    PROVE  Yields(Append(q, u), old, s, k)
<1>1. /\ Len(Append(q, u)) = Len(q) + 1 /\ Len(q) \in Nat
      /\ Append(q, u)[Len(q) + 1] = u
      /\ \A i \in 1 .. Len(q) : Append(q, u)[i] = q[i]
  OBVIOUS
<1>2. \A i \in 1 .. Len(q) + 1 : i \in 1 .. Len(q) \/ i = Len(q) + 1
  BY <1>1
<1>3. QED
  BY <1>1, <1>2 DEF Yields

LEMMA YieldsTail ==
    ASSUME NEW q \in Seq(Updates), q # <<>>, NEW old, NEW s, NEW k, Yields(q, old, s, k)
    PROVE  Yields(Tail(q), IF IsFor(Head(q), s) THEN Head(q).key ELSE old, s, k)
<1>1. /\ Len(q) \in Nat /\ Len(q) > 0
      /\ Len(Tail(q)) = Len(q) - 1
      /\ Head(q) = q[1]
      /\ \A i \in 1 .. Len(q) - 1 : Tail(q)[i] = q[i + 1]
  OBVIOUS
<1>2. CASE \A i \in 1 .. Len(q) : ~IsFor(q[i], s)
  <2>1. old = k
    BY <1>2, <1>1 DEF Yields
  <2>2. ~IsFor(Head(q), s) /\ \A i \in 1 .. Len(Tail(q)) : ~IsFor(Tail(q)[i], s)
    BY <1>1, <1>2
  <2>3. QED
    BY <2>1, <2>2 DEF Yields
<1>3. CASE ~(\A i \in 1 .. Len(q) : ~IsFor(q[i], s))
  <2>1. PICK i \in 1 .. Len(q) :
           /\ IsFor(q[i], s) /\ q[i].key = k
           /\ \A j \in 1 .. Len(q) : i < j => ~IsFor(q[j], s)
    BY <1>3 DEF Yields
  <2>2. CASE i = 1
    <3>1. \A j \in 1 .. Len(Tail(q)) : ~IsFor(Tail(q)[j], s)
      BY <1>1, <2>1, <2>2
    <3>2. QED
      BY <1>1, <2>1, <2>2, <3>1 DEF Yields
  <2>3. CASE i # 1
    <3>1. /\ i - 1 \in 1 .. Len(Tail(q)) /\ Tail(q)[i - 1] = q[i]
          /\ \A j \in 1 .. Len(Tail(q)) : i - 1 < j => ~IsFor(Tail(q)[j], s)
      BY <1>1, <2>1, <2>3
    <3>2. QED
      BY <2>1, <3>1 DEF Yields
  <2>4. QED
    BY <2>2, <2>3
<1>4. QED
  BY <1>2, <1>3

-------------------------------------------------------------------------------
(* The steps.                                                              *)

LEMMA InitIInv == Init => IInv
<1> SUFFICES ASSUME Init PROVE IInv
  OBVIOUS
<1>1. TypeOK
  BY DirectoryAssumption DEF Init, TypeOK, Keys, NoEntries, NoKey, Modes
<1>2. KeyInv /\ BeatInv
  BY DEF Init, KeyInv, BeatInv, Up
<1>3. OffInv /\ CacheFollows
  BY DEF Init, OffInv, CacheFollows, Watching
<1>4. QED
  BY <1>1, <1>2, <1>3 DEF IInv

\* A write to the bucket reaches every watch.
LEMMA NotifyKeeps ==
    ASSUME IInv, NEW u \in Update, Notify(u), entry' = [entry EXCEPT ![u.svc] = u.key]
    PROVE  /\ wst' = wst /\ cache' = cache
           /\ queue' \in [Publishers -> Seq(Updates)]
           /\ unseen' \in [Publishers -> SUBSET Services]
           /\ entry' \in [Services -> Keys]
           /\ OffInv' /\ CacheFollows'
<1>0. /\ u.svc \in Services /\ u.key \in Keys /\ u # CaughtUp
      /\ wst' = wst /\ cache' = cache
      /\ queue' = [p \in Publishers |->
                      IF Watching(p) THEN Append(queue[p], u) ELSE queue[p]]
      /\ unseen' = [p \in Publishers |-> unseen[p] \ {u.svc}]
  BY CaughtUpAssumption, DirectoryAssumption DEF Notify, Update, Keys, NoKey
<1>1. /\ queue \in [Publishers -> Seq(Updates)]
      /\ unseen \in [Publishers -> SUBSET Services]
      /\ entry \in [Services -> Keys]
  BY DEF IInv, TypeOK, Updates
<1>2. queue' \in [Publishers -> Seq(Updates)]
  <2>1. ASSUME NEW p \in Publishers PROVE Append(queue[p], u) \in Seq(Updates)
    BY <1>1 DEF Updates
  <2>2. QED
    BY <1>0, <1>1, <2>1
<1>3. unseen' \in [Publishers -> SUBSET Services] /\ entry' \in [Services -> Keys]
  BY <1>0, <1>1
<1>4. OffInv'
  BY <1>0 DEF IInv, OffInv, Watching
<1>5. CacheFollows'
  <2> SUFFICES ASSUME NEW p \in Publishers, NEW s \in Services, Watching(p)
               PROVE  Yields(queue'[p], cache[p][s], s,
                             IF s \in unseen'[p] THEN NoKey ELSE entry'[s])
    BY <1>0 DEF CacheFollows, Watching
  <2>1. /\ queue'[p] = Append(queue[p], u) /\ queue[p] \in Seq(Updates) /\ u \in Updates
        /\ unseen'[p] = unseen[p] \ {u.svc}
        /\ Yields(queue[p], cache[p][s], s, IF s \in unseen[p] THEN NoKey ELSE entry[s])
    BY <1>0, <1>1 DEF IInv, CacheFollows, Updates
  <2>2. CASE s = u.svc
    <3>1. IsFor(u, s) /\ s \notin unseen'[p] /\ entry'[s] = u.key
      BY <1>0, <1>1, <2>1, <2>2 DEF IsFor
    <3>2. Yields(queue'[p], cache[p][s], s, u.key)
      <4>1. Yields(Append(queue[p], u), cache[p][s], s, u.key)
        BY <2>1, <3>1, YieldsOwnLast, Zenon
      <4>2. QED
        BY <2>1, <4>1, Zenon
    <3>3. QED
      BY <3>1, <3>2
  <2>3. CASE s # u.svc
    <3>1. /\ ~IsFor(u, s) /\ entry'[s] = entry[s]
          /\ s \in unseen'[p] <=> s \in unseen[p]
      BY <1>0, <1>1, <2>1, <2>3 DEF IsFor
    <3>2. Yields(queue'[p], cache[p][s], s, IF s \in unseen[p] THEN NoKey ELSE entry[s])
      BY <2>1, <3>1, YieldsOtherLast
    <3>3. QED
      BY <3>1, <3>2
  <2>4. QED
    BY <2>2, <2>3
<1>6. QED
  BY <1>0, <1>2, <1>3, <1>4, <1>5

\* A step of the subscribers or of time that writes nothing.
LEMMA AwayFromBucket ==
    ASSUME IInv, UNCHANGED <<entry, cacheVars>> PROVE OffInv' /\ CacheFollows'
  BY DEF IInv, OffInv, CacheFollows, Watching, cacheVars, Yields

LEMMA PutUpdate ==
    ASSUME NEW s \in Services, NEW k \in Keys
    PROVE  [op |-> "PUT", svc |-> s, key |-> k] \in Update
  BY DEF Update

LEMMA RemoveUpdate ==
    ASSUME NEW s \in Services, NEW how \in {"DEL", "PURGE"}
    PROVE  [op |-> how, svc |-> s, key |-> NoKey] \in Update
  BY DEF Update

LEMMA PutKeeps ==
    ASSUME IInv, NEW s \in Services, NEW k \in Keys, Put(s, k)
    PROVE  /\ wst' = wst /\ cache' = cache
           /\ queue' \in [Publishers -> Seq(Updates)]
           /\ unseen' \in [Publishers -> SUBSET Services]
           /\ entry' \in [Services -> Keys]
           /\ OffInv' /\ CacheFollows'
<1> DEFINE u == [op |-> "PUT", svc |-> s, key |-> k]
<1>1. u \in Update /\ u.svc = s /\ u.key = k
  BY PutUpdate
<1>2. Notify(u) /\ entry' = [entry EXCEPT ![s] = k]
  BY DEF Put
<1> HIDE DEF u
<1>3. QED
  BY <1>1, <1>2, NotifyKeeps

LEMMA RemoveKeeps ==
    ASSUME IInv, NEW s \in Services, NEW how \in {"DEL", "PURGE"}, Remove(s, how)
    PROVE  /\ wst' = wst /\ cache' = cache
           /\ queue' \in [Publishers -> Seq(Updates)]
           /\ unseen' \in [Publishers -> SUBSET Services]
           /\ entry' \in [Services -> Keys]
           /\ OffInv' /\ CacheFollows'
<1> DEFINE u == [op |-> how, svc |-> s, key |-> NoKey]
<1>1. u \in Update /\ u.svc = s /\ u.key = NoKey
  BY RemoveUpdate
<1>2. Notify(u) /\ entry' = [entry EXCEPT ![s] = NoKey]
  BY DEF Remove
<1> HIDE DEF u
<1>3. QED
  BY <1>1, <1>2, NotifyKeeps

LEMMA ExpireStep ==
    ASSUME IInv, NEW s \in Services, Expire(s) PROVE IInv'
<1>0. Remove(s, "PURGE") /\ age[s] = TTL /\ UNCHANGED <<age, late, subVars>>
  BY DEF Expire
<1>1. /\ wst' = wst /\ cache' = cache
      /\ queue' \in [Publishers -> Seq(Updates)]
      /\ unseen' \in [Publishers -> SUBSET Services]
      /\ entry' \in [Services -> Keys]
      /\ OffInv' /\ CacheFollows'
  BY <1>0, RemoveKeeps
<1>2. TypeOK'
  BY <1>0, <1>1 DEF IInv, TypeOK, Updates, subVars
<1>3. KeyInv'
  BY <1>0 DEF IInv, KeyInv, subVars
<1>4. BeatInv'
  <2>1. /\ entry \in [Services -> Keys] /\ entry' = [entry EXCEPT ![s] = NoKey]
        /\ entry[s] # NoKey
    BY <1>0 DEF IInv, TypeOK, Remove
  <2>2. QED
    BY <1>0, <2>1 DEF IInv, BeatInv, Up, Beat, subVars
<1>5. QED
  BY <1>1, <1>2, <1>3, <1>4 DEF IInv

LEMMA DeregisterStep ==
    ASSUME IInv, NEW s \in Services, Deregister(s) PROVE IInv'
<1>0. /\ Remove(s, "DEL") /\ removed' = [removed EXCEPT ![s] = TRUE]
      /\ UNCHANGED <<age, late, mode, epoch, missed>>
  BY DEF Deregister
<1>1. /\ wst' = wst /\ cache' = cache
      /\ queue' \in [Publishers -> Seq(Updates)]
      /\ unseen' \in [Publishers -> SUBSET Services]
      /\ entry' \in [Services -> Keys]
      /\ OffInv' /\ CacheFollows'
  BY <1>0, RemoveKeeps
<1>2. TypeOK'
  BY <1>0, <1>1 DEF IInv, TypeOK, Updates
<1>3. KeyInv'
  BY <1>0 DEF IInv, KeyInv
<1>4. BeatInv'
  <2>1. /\ entry \in [Services -> Keys] /\ entry' = [entry EXCEPT ![s] = NoKey]
        /\ removed \in [Services -> BOOLEAN]
    BY <1>0 DEF IInv, TypeOK, Remove
  <2>2. QED
    BY <1>0, <2>1 DEF IInv, BeatInv, Up, Beat
<1>5. QED
  BY <1>1, <1>2, <1>3, <1>4 DEF IInv

LEMMA StartStep ==
    ASSUME IInv, NEW s \in Services, Start(s) PROVE IInv'
<1>0. /\ mode' = [mode EXCEPT ![s] = "first"]
      /\ epoch' = [epoch EXCEPT ![s] = @ + 1]
      /\ missed' = [missed EXCEPT ![s] = 0]
      /\ epoch[s] \in Nat /\ epoch[s] + 1 \in Keys /\ epoch[s] + 1 # NoKey
      /\ UNCHANGED <<entry, age, late, removed, cacheVars>>
  BY DirectoryAssumption DEF Start, IInv, TypeOK, Keys, NoKey, bucketVars
<1>1. TypeOK'
  <2>1. epoch' \in [Services -> Keys] /\ mode' \in [Services -> Modes]
    BY <1>0 DEF IInv, TypeOK, Modes
  <2>2. missed' \in [Services -> 0 .. TTL]
    BY <1>0, DirectoryAssumption DEF IInv, TypeOK
  <2>3. QED
    BY <1>0, <2>1, <2>2 DEF IInv, TypeOK, cacheVars
<1>2. KeyInv'
  BY <1>0 DEF IInv, KeyInv, TypeOK
<1>3. BeatInv'
  BY <1>0 DEF IInv, BeatInv, TypeOK, Up, Beat
<1>4. OffInv' /\ CacheFollows'
  BY <1>0, AwayFromBucket
<1>5. QED
  BY <1>1, <1>2, <1>3, <1>4 DEF IInv

LEMMA RegisteredStep ==
    ASSUME IInv, NEW s \in Services, Registered(s) PROVE IInv'
<1>0. /\ mode[s] \in {"first", "beating"} /\ Put(s, epoch[s])
      /\ mode' = [mode EXCEPT ![s] = "asleep"]
      /\ missed' = [missed EXCEPT ![s] = 0]
      /\ UNCHANGED <<late, epoch>>
  BY DEF Registered
<1>1. epoch[s] \in Keys /\ epoch[s] # NoKey
  BY <1>0 DEF IInv, TypeOK, KeyInv
<1>2. /\ wst' = wst /\ cache' = cache
      /\ queue' \in [Publishers -> Seq(Updates)]
      /\ unseen' \in [Publishers -> SUBSET Services]
      /\ entry' \in [Services -> Keys]
      /\ OffInv' /\ CacheFollows'
  BY <1>0, <1>1, PutKeeps
<1>3. /\ entry' = [entry EXCEPT ![s] = epoch[s]]
      /\ age' = [age EXCEPT ![s] = 0]
      /\ removed' = [removed EXCEPT ![s] = FALSE]
  BY <1>0 DEF Put
<1>4. TypeOK'
  <2>1. age' \in [Services -> 0 .. TTL] /\ missed' \in [Services -> 0 .. TTL]
    BY <1>0, <1>3, DirectoryAssumption DEF IInv, TypeOK
  <2>2. mode' \in [Services -> Modes] /\ removed' \in [Services -> BOOLEAN]
    BY <1>0, <1>3 DEF IInv, TypeOK, Modes
  <2>3. QED
    BY <1>0, <1>2, <2>1, <2>2 DEF IInv, TypeOK, Updates
<1>5. KeyInv'
  BY <1>0, <1>1 DEF IInv, KeyInv, TypeOK
<1>6. BeatInv'
  BY <1>0, <1>1, <1>3 DEF IInv, BeatInv, TypeOK, Up, Beat
<1>7. QED
  BY <1>2, <1>4, <1>5, <1>6 DEF IInv

\* The put of a running process that nobody waits for any more carries a key.
LEMMA AbandonKeeps ==
    ASSUME IInv, NEW s \in Services, mode[s] # "down", Abandon(s)
    PROVE  late' \in [Services -> SUBSET Keys] /\ \A t \in Services : NoKey \notin late'[t]
<1>1. epoch[s] \in Keys /\ epoch[s] # NoKey /\ late \in [Services -> SUBSET Keys]
  BY DEF IInv, TypeOK, KeyInv
<1>2. QED
  BY <1>1 DEF Abandon, IInv, KeyInv

\* A subscriber whose process ends, or fails to start, writes nothing.
LEMMA DownStep ==
    ASSUME IInv, NEW s \in Services, FirstFails(s) \/ Stop(s) PROVE IInv'
<1>0. /\ mode' = [mode EXCEPT ![s] = "down"]
      /\ UNCHANGED <<entry, age, epoch, missed, removed, cacheVars>>
  BY DEF FirstFails, Stop
<1>1. late' \in [Services -> SUBSET Keys] /\ \A t \in Services : NoKey \notin late'[t]
  <2>1. CASE late' = late
    BY <2>1 DEF IInv, TypeOK, KeyInv
  <2>2. CASE late' # late
    BY <2>2, AbandonKeeps DEF FirstFails, Stop
  <2>3. QED
    BY <2>1, <2>2
<1>2. TypeOK'
  <2>1. mode' \in [Services -> Modes]
    BY <1>0 DEF IInv, TypeOK, Modes
  <2>2. QED
    BY <1>0, <1>1, <2>1 DEF IInv, TypeOK, cacheVars
<1>3. KeyInv'
  BY <1>0, <1>1 DEF IInv, KeyInv, TypeOK
<1>4. BeatInv'
  BY <1>0 DEF IInv, BeatInv, TypeOK, Up, Beat
<1>5. OffInv' /\ CacheFollows'
  BY <1>0, AwayFromBucket
<1>6. QED
  BY <1>2, <1>3, <1>4, <1>5 DEF IInv

LEMMA BeatFailsStep ==
    ASSUME IInv, NEW s \in Services, BeatFails(s) PROVE IInv'
<1>0. /\ mode[s] = "beating" /\ mode' = [mode EXCEPT ![s] = "asleep"]
      /\ missed' = [missed EXCEPT ![s] = IF @ < TTL THEN @ + 1 ELSE @]
      /\ UNCHANGED <<entry, age, epoch, removed, cacheVars>>
  BY DEF BeatFails
<1>1. late' \in [Services -> SUBSET Keys] /\ \A t \in Services : NoKey \notin late'[t]
  BY <1>0, AbandonKeeps DEF BeatFails
<1>2. missed[s] \in 0 .. TTL /\ age[s] \in 0 .. TTL /\ TTL \in Nat
  BY DirectoryAssumption DEF IInv, TypeOK
<1>3. TypeOK'
  <2>1. missed' \in [Services -> 0 .. TTL]
    BY <1>0, <1>2 DEF IInv, TypeOK
  <2>2. mode' \in [Services -> Modes]
    BY <1>0 DEF IInv, TypeOK, Modes
  <2>3. QED
    BY <1>0, <1>1, <2>1, <2>2 DEF IInv, TypeOK, cacheVars
<1>4. KeyInv'
  BY <1>0, <1>1 DEF IInv, KeyInv, TypeOK
<1>5. BeatInv'
  BY <1>0, <1>2 DEF IInv, BeatInv, TypeOK, Up, Beat
<1>6. OffInv' /\ CacheFollows'
  BY <1>0, AwayFromBucket
<1>7. QED
  BY <1>3, <1>4, <1>5, <1>6 DEF IInv

LEMMA LatePutLandsStep ==
    ASSUME IInv, NEW s \in Services, NEW k \in late[s], LatePutLands(s, k) PROVE IInv'
<1>0. /\ late' = [late EXCEPT ![s] = @ \ {k}] /\ Put(s, k)
      /\ UNCHANGED <<mode, epoch, missed>>
  BY DEF LatePutLands
<1>1. k \in Keys /\ k # NoKey
  BY DEF IInv, TypeOK, KeyInv
<1>2. /\ wst' = wst /\ cache' = cache
      /\ queue' \in [Publishers -> Seq(Updates)]
      /\ unseen' \in [Publishers -> SUBSET Services]
      /\ entry' \in [Services -> Keys]
      /\ OffInv' /\ CacheFollows'
  BY <1>0, <1>1, PutKeeps
<1>3. /\ entry' = [entry EXCEPT ![s] = k]
      /\ age' = [age EXCEPT ![s] = 0]
      /\ removed' = [removed EXCEPT ![s] = FALSE]
  BY <1>0 DEF Put
<1>4. TypeOK'
  <2>1. age' \in [Services -> 0 .. TTL]
    BY <1>3, DirectoryAssumption DEF IInv, TypeOK
  <2>2. late' \in [Services -> SUBSET Keys] /\ removed' \in [Services -> BOOLEAN]
    BY <1>0, <1>3 DEF IInv, TypeOK
  <2>3. QED
    BY <1>0, <1>2, <2>1, <2>2 DEF IInv, TypeOK, Updates
<1>5. KeyInv'
  BY <1>0 DEF IInv, KeyInv, TypeOK
<1>6. BeatInv'
  <2>1. missed \in [Services -> 0 .. TTL] /\ TTL \in Nat
    BY DirectoryAssumption DEF IInv, TypeOK
  <2>2. QED
    BY <1>0, <1>1, <1>3, <2>1 DEF IInv, BeatInv, TypeOK, Up, Beat
<1>7. QED
  BY <1>2, <1>4, <1>5, <1>6 DEF IInv

LEMMA TickStep == ASSUME IInv, Tick PROVE IInv'
<1>0. /\ \A s \in Services : mode[s] \notin {"first", "beating"}
      /\ \A s \in Services : entry[s] # NoKey => age[s] < TTL
      /\ age' = [s \in Services |-> IF entry[s] = NoKey THEN age[s] ELSE age[s] + 1]
      /\ mode' = [s \in Services |-> IF mode[s] = "asleep" THEN "beating" ELSE mode[s]]
      /\ UNCHANGED <<entry, late, epoch, missed, removed, cacheVars>>
  BY DEF Tick
<1>1. TTL \in Nat /\ age \in [Services -> 0 .. TTL] /\ missed \in [Services -> 0 .. TTL]
  BY DirectoryAssumption DEF IInv, TypeOK
<1>2. TypeOK'
  <2>1. age' \in [Services -> 0 .. TTL]
    BY <1>0, <1>1
  <2>2. mode' \in [Services -> Modes]
    BY <1>0 DEF IInv, TypeOK, Modes
  <2>3. QED
    BY <1>0, <2>1, <2>2 DEF IInv, TypeOK, cacheVars
<1>3. KeyInv'
  BY <1>0 DEF IInv, KeyInv
<1>4. BeatInv'
  BY <1>0, <1>1 DEF IInv, BeatInv, Up, Beat
<1>5. OffInv' /\ CacheFollows'
  BY <1>0, AwayFromBucket
<1>6. QED
  BY <1>2, <1>3, <1>4, <1>5 DEF IInv

\* The first content of a watch yields the bucket, from an empty cache.
LEMMA SnapshotYields ==
    ASSUME IInv, NEW o \in Orders
    PROVE  /\ Snapshot(o) \in Seq(Updates)
           /\ \A s \in Services : Yields(Snapshot(o), NoKey, s, entry[s])
<1> DEFINE n == Cardinality(RegisteredSet)
           q == [i \in DOMAIN o |-> [op |-> "PUT", svc |-> o[i], key |-> entry[o[i]]]]
<1>1. n \in Nat
  <2>1. IsFiniteSet(RegisteredSet)
    BY FS_Subset, DirectoryAssumption DEF RegisteredSet
  <2>2. QED
    BY <2>1, FS_CardinalityType
<1>2. /\ o \in [1 .. n -> RegisteredSet] /\ DOMAIN o = 1 .. n
      /\ \A s \in RegisteredSet : \E i \in 1 .. n : o[i] = s
      /\ \A i, j \in 1 .. n : o[i] = o[j] => i = j
  BY DEF Orders
<1> HIDE DEF n
<1>3. \A i \in 1 .. n : o[i] \in Services /\ q[i] \in Update /\ q[i] # CaughtUp
                        /\ q[i].svc = o[i] /\ q[i].key = entry[o[i]]
  <2> SUFFICES ASSUME NEW i \in 1 .. n
               PROVE  o[i] \in Services /\ q[i] \in Update /\ q[i] # CaughtUp
                      /\ q[i].svc = o[i] /\ q[i].key = entry[o[i]]
    OBVIOUS
  <2>1. o[i] \in Services /\ entry[o[i]] \in Keys
    BY <1>2 DEF RegisteredSet, IInv, TypeOK
  <2>2. q[i] = [op |-> "PUT", svc |-> o[i], key |-> entry[o[i]]]
    BY <1>2
  <2>3. QED
    BY <2>1, <2>2, PutUpdate, CaughtUpAssumption
<1>4. q \in Seq(Updates) /\ Len(q) = n
  BY <1>1, <1>2, <1>3 DEF Updates
<1>5. Snapshot(o) = Append(q, CaughtUp)
  BY DEF Snapshot
<1>6. ASSUME NEW s \in Services PROVE Yields(q, NoKey, s, entry[s])
  <2>1. \A i \in 1 .. Len(q) : IsFor(q[i], s) <=> o[i] = s
    BY <1>3, <1>4 DEF IsFor
  <2>2. CASE s \in RegisteredSet
    <3>1. PICK i \in 1 .. n : o[i] = s
      BY <1>2, <2>2
    <3>2. /\ i \in 1 .. Len(q) /\ IsFor(q[i], s) /\ q[i].key = entry[s]
          /\ \A j \in 1 .. Len(q) : i < j => ~IsFor(q[j], s)
      BY <1>1, <1>2, <1>3, <1>4, <2>1, <3>1
    <3>3. QED
      BY <3>2 DEF Yields
  <2>3. CASE s \notin RegisteredSet
    <3>1. entry[s] = NoKey
      BY <2>3 DEF RegisteredSet
    <3>2. \A i \in 1 .. n : o[i] # s
      <4>1. \A i \in 1 .. n : o[i] \in RegisteredSet
        BY <1>2
      <4>2. QED
        BY <4>1, <2>3
    <3>3. \A i \in 1 .. Len(q) : ~IsFor(q[i], s)
      <4> HIDE DEF q
      <4>1. QED
        BY <1>4, <2>1, <3>2
    <3>4. QED
      BY <3>1, <3>3 DEF Yields
  <2>4. QED
    BY <2>2, <2>3
<1>7. CaughtUp \in Updates /\ \A s : ~IsFor(CaughtUp, s)
  BY DEF Updates, IsFor
<1> HIDE DEF q
<1>8. ASSUME NEW s \in Services PROVE Yields(Snapshot(o), NoKey, s, entry[s])
  <2>1. Yields(Append(q, CaughtUp), NoKey, s, entry[s])
    BY <1>4, <1>6, <1>7, YieldsOtherLast, Zenon
  <2>2. QED
    BY <1>5, <2>1, Zenon
<1>9. Snapshot(o) \in Seq(Updates)
  BY <1>4, <1>5, <1>7
<1>10. QED
  BY <1>8, <1>9

LEMMA StartWatchStep ==
    ASSUME IInv, NEW p \in Publishers, StartWatch(p) PROVE IInv'
<1>0. /\ ~Watching(p) /\ wst' = [wst EXCEPT ![p] = "starting"]
      /\ UNCHANGED <<cache, entry, age, late, subVars>>
      /\ cache[p] = NoEntries
  BY DEF StartWatch, Watching, IInv, OffInv, bucketVars
<1>1. PICK q \in Seq(Updates), U \in SUBSET Services :
         /\ queue' = [queue EXCEPT ![p] = q] /\ unseen' = [unseen EXCEPT ![p] = U]
         /\ \A s \in Services : Yields(q, NoKey, s, IF s \in U THEN NoKey ELSE entry[s])
  <2>1. CASE \E o \in Orders : queue' = [queue EXCEPT ![p] = Snapshot(o)]
             /\ unseen' = [unseen EXCEPT ![p] = {}]
    <3>1. PICK o \in Orders : queue' = [queue EXCEPT ![p] = Snapshot(o)]
                              /\ unseen' = [unseen EXCEPT ![p] = {}]
      BY <2>1
    <3>2. /\ Snapshot(o) \in Seq(Updates)
          /\ \A s \in Services : Yields(Snapshot(o), NoKey, s,
                                        IF s \in {} THEN NoKey ELSE entry[s])
      BY SnapshotYields
    <3>3. {} \in SUBSET Services
      OBVIOUS
    <3>4. QED
      BY <3>1, <3>2, <3>3, Zenon
  <2>2. CASE queue' = [queue EXCEPT ![p] = <<CaughtUp>>]
             /\ unseen' = [unseen EXCEPT ![p] = RegisteredSet]
    <3>1. <<CaughtUp>> \in Seq(Updates) /\ RegisteredSet \in SUBSET Services
      BY DEF Updates, RegisteredSet
    <3>2. \A s \in Services :
             Yields(<<CaughtUp>>, NoKey, s,
                    IF s \in RegisteredSet THEN NoKey ELSE entry[s])
      BY DEF Yields, IsFor, RegisteredSet
    <3>3. QED
      BY <2>2, <3>1, <3>2
  <2>3. QED
    BY <2>1, <2>2 DEF StartWatch
<1>2. TypeOK'
  <2>1. /\ queue' \in [Publishers -> Seq(Updates)]
        /\ unseen' \in [Publishers -> SUBSET Services]
    BY <1>1 DEF IInv, TypeOK, Updates
  <2>2. wst' \in [Publishers -> {"off", "starting", "ready"}]
    BY <1>0 DEF IInv, TypeOK
  <2>3. QED
    BY <1>0, <2>1, <2>2 DEF IInv, TypeOK, Updates, subVars
<1>3. KeyInv' /\ BeatInv'
  BY <1>0 DEF IInv, KeyInv, BeatInv, Up, Beat, subVars
<1>4. OffInv'
  BY <1>0, <1>1 DEF IInv, TypeOK, OffInv, Watching
<1>5. CacheFollows'
  <2> SUFFICES ASSUME NEW r \in Publishers, NEW s \in Services, wst'[r] # "off"
               PROVE  Yields(queue'[r], cache[r][s], s,
                             IF s \in unseen'[r] THEN NoKey ELSE entry[s])
    BY <1>0 DEF CacheFollows, Watching
  <2>1. CASE r = p
    <3>1. queue'[r] = q /\ unseen'[r] = U /\ cache[r][s] = NoKey
      BY <1>0, <1>1, <2>1 DEF IInv, TypeOK, NoEntries
    <3>2. QED
      BY <1>1, <3>1, Zenon
  <2>2. CASE r # p
    <3>1. queue'[r] = queue[r] /\ unseen'[r] = unseen[r] /\ Watching(r)
      BY <1>0, <1>1, <2>2 DEF IInv, TypeOK, Watching
    <3>2. QED
      BY <3>1 DEF IInv, CacheFollows
  <2>3. QED
    BY <2>1, <2>2
<1>6. QED
  BY <1>2, <1>3, <1>4, <1>5 DEF IInv

LEMMA ConsumeStep ==
    ASSUME IInv, NEW p \in Publishers, Consume(p) PROVE IInv'
<1> DEFINE u == Head(queue[p])
<1>0. /\ queue[p] \in Seq(Updates) /\ queue[p] # <<>> /\ u \in Updates
      /\ Tail(queue[p]) \in Seq(Updates)
      /\ queue' = [queue EXCEPT ![p] = Tail(@)]
      /\ UNCHANGED <<unseen, bucketVars, subVars>>
      /\ Watching(p)
  BY DEF Consume, IInv, TypeOK, Updates, OffInv
<1>1. /\ wst' \in [Publishers -> {"off", "starting", "ready"}]
      /\ \A r \in Publishers : wst'[r] # "off" <=> Watching(r)
  BY <1>0 DEF Consume, IInv, TypeOK, Watching
<1>2. /\ cache' \in [Publishers -> [Services -> Keys]]
      /\ \A r \in Publishers, s \in Services :
            cache'[r][s] = IF r = p /\ IsFor(u, s) THEN u.key ELSE cache[r][s]
      /\ \A r \in Publishers : r # p => cache'[r] = cache[r]
  <2>1. CASE u = CaughtUp
    <3>1. UNCHANGED cache
      BY <2>1 DEF Consume
    <3>2. QED
      BY <2>1, <3>1 DEF IsFor, IInv, TypeOK
  <2>2. CASE u # CaughtUp
    <3>1. /\ u.svc \in Services /\ u.key \in Keys
          /\ u.op \in {"DEL", "PURGE"} => u.key = NoKey
      BY <1>0, <2>2, DirectoryAssumption DEF Updates, Update, Keys, NoKey
    <3>2. cache' = [cache EXCEPT ![p][u.svc] = u.key]
      BY <2>2, <3>1 DEF Consume
    <3>3. QED
      BY <2>2, <3>1, <3>2 DEF IsFor, IInv, TypeOK
  <2>3. QED
    BY <2>1, <2>2
<1>3. TypeOK'
  <2>1. queue' \in [Publishers -> Seq(Updates)]
    BY <1>0 DEF IInv, TypeOK, Updates
  <2>2. QED
    BY <1>0, <1>1, <1>2, <2>1 DEF IInv, TypeOK, Updates, bucketVars, subVars
<1>4. KeyInv' /\ BeatInv'
  BY <1>0 DEF IInv, KeyInv, BeatInv, Up, Beat, bucketVars, subVars
<1>5. OffInv'
  <2>1. \A r \in Publishers : r # p => queue'[r] = queue[r]
    BY <1>0 DEF IInv, TypeOK
  <2>2. QED
    BY <1>0, <1>1, <1>2, <2>1 DEF IInv, OffInv, Watching
<1>6. CacheFollows'
  <2> SUFFICES ASSUME NEW r \in Publishers, NEW s \in Services, Watching(r)
               PROVE  Yields(queue'[r], cache'[r][s], s,
                             IF s \in unseen[r] THEN NoKey ELSE entry[s])
    BY <1>0, <1>1 DEF CacheFollows, Watching, bucketVars
  <2> DEFINE k == IF s \in unseen[r] THEN NoKey ELSE entry[s]
  <2>0. Yields(queue[r], cache[r][s], s, k)
    BY DEF IInv, CacheFollows
  <2> HIDE DEF k
  <2>1. CASE r = p
    <3>1. /\ queue'[r] = Tail(queue[r])
          /\ cache'[r][s] = IF IsFor(Head(queue[r]), s) THEN Head(queue[r]).key
                            ELSE cache[r][s]
      BY <1>0, <1>2, <2>1 DEF IInv, TypeOK
    <3>2. Yields(Tail(queue[r]),
                 IF IsFor(Head(queue[r]), s) THEN Head(queue[r]).key ELSE cache[r][s], s, k)
      BY <1>0, <2>0, <2>1, YieldsTail
    <3>3. QED
      BY <3>1, <3>2, Zenon DEF k
  <2>2. CASE r # p
    <3>1. queue'[r] = queue[r] /\ cache'[r] = cache[r]
      BY <1>0, <1>2, <2>2 DEF IInv, TypeOK
    <3>2. QED
      BY <2>0, <3>1 DEF k
  <2>3. QED
    BY <2>1, <2>2
<1>7. QED
  BY <1>3, <1>4, <1>5, <1>6 DEF IInv

LEMMA StopWatchStep ==
    ASSUME IInv, NEW p \in Publishers, StopWatch(p) PROVE IInv'
<1>0. /\ wst' = [wst EXCEPT ![p] = "off"]
      /\ queue' = [queue EXCEPT ![p] = <<>>]
      /\ cache' = [cache EXCEPT ![p] = NoEntries]
      /\ unseen' = [unseen EXCEPT ![p] = {}]
      /\ UNCHANGED <<bucketVars, subVars>>
  BY DEF StopWatch
<1>1. TypeOK'
  <2>1. NoEntries \in [Services -> Keys]
    BY DirectoryAssumption DEF NoEntries, Keys, NoKey
  <2>2. /\ queue' \in [Publishers -> Seq(Updates)]
        /\ cache' \in [Publishers -> [Services -> Keys]]
    BY <1>0, <2>1 DEF IInv, TypeOK, Updates
  <2>3. /\ wst' \in [Publishers -> {"off", "starting", "ready"}]
        /\ unseen' \in [Publishers -> SUBSET Services]
    BY <1>0 DEF IInv, TypeOK
  <2>4. QED
    BY <1>0, <2>2, <2>3 DEF IInv, TypeOK, Updates, bucketVars, subVars
<1>2. KeyInv' /\ BeatInv'
  BY <1>0 DEF IInv, KeyInv, BeatInv, Up, Beat, bucketVars, subVars
<1>3. \A r \in Publishers :
         /\ r = p => wst'[r] = "off" /\ queue'[r] = <<>> /\ cache'[r] = NoEntries
         /\ r # p => /\ wst'[r] = wst[r] /\ queue'[r] = queue[r]
                     /\ cache'[r] = cache[r] /\ unseen'[r] = unseen[r]
  BY <1>0 DEF IInv, TypeOK
<1>4. OffInv'
  BY <1>3 DEF IInv, OffInv, Watching
<1>5. CacheFollows'
  BY <1>0, <1>3 DEF IInv, CacheFollows, Watching, bucketVars
<1>6. QED
  BY <1>1, <1>2, <1>4, <1>5 DEF IInv

LEMMA NextIInv == IInv /\ [Next]_vars => IInv'
<1> SUFFICES ASSUME IInv, [Next]_vars PROVE IInv'
  OBVIOUS
<1>1. CASE Tick
  BY <1>1, TickStep
<1>2. ASSUME NEW s \in Services, ServiceStep(s) PROVE IInv'
  BY <1>2, StartStep, RegisteredStep, DownStep, BeatFailsStep, ExpireStep, DeregisterStep,
     LatePutLandsStep DEF ServiceStep
<1>3. ASSUME NEW p \in Publishers, PublisherStep(p) PROVE IInv'
  BY <1>3, StartWatchStep, ConsumeStep, StopWatchStep DEF PublisherStep
<1>4. CASE UNCHANGED vars
  <2>1. OffInv' /\ CacheFollows'
    BY <1>4, AwayFromBucket DEF vars, bucketVars
  <2>2. TypeOK' /\ KeyInv' /\ BeatInv'
    BY <1>4 DEF IInv, TypeOK, KeyInv, BeatInv, Up, Beat, vars, bucketVars, subVars, cacheVars
  <2>3. QED
    BY <2>1, <2>2 DEF IInv
<1>5. QED
  BY <1>1, <1>2, <1>3, <1>4 DEF Next

THEOREM Invariance == Spec => []IInv
  BY InitIInv, NextIInv, PTL DEF Spec

\* The variables keep to their types.
THEOREM TypeCorrect == Spec => []TypeOK
<1>1. IInv => TypeOK
  BY DEF IInv
<1>2. QED
  BY <1>1, Invariance, PTL

\* RecipientCache._consume: the cache is the bucket, some updates ago.
THEOREM CacheCorrect == Spec => []CacheFollows
<1>1. IInv => CacheFollows
  BY DEF IInv
<1>2. QED
  BY <1>1, Invariance, PTL

\* heartbeat(): fewer than TTL - 1 missed beats in a row never cost a running
\* subscriber its registration, for every ratio of TTL to heartbeat interval.
THEOREM HeartbeatCorrect == Spec => []StaysRegistered
<1>1. IInv => StaysRegistered
  <2> SUFFICES ASSUME IInv, NEW s \in Services,
                      Up(s), ~removed[s], missed[s] + 1 < TTL, entry[s] = NoKey
               PROVE  FALSE
    BY DEF StaysRegistered
  <2>1. missed[s] \in 0 .. TTL /\ TTL \in Nat
    BY DirectoryAssumption DEF IInv, TypeOK
  <2>2. TTL <= missed[s] + Beat(s)
    BY DEF IInv, BeatInv
  <2>3. QED
    BY <2>1, <2>2 DEF Beat
<1>2. QED
  BY <1>1, Invariance, PTL

===============================================================================
