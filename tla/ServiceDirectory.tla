--------------------------- MODULE ServiceDirectory ---------------------------
(***************************************************************************)
(* The service-directory registry of libs/jetcore/jetcore/registry.py, for *)
(* one subject: the heartbeat of every subscriber, the JetStream KV bucket *)
(* whose entries expire, and the watch-fed RecipientCache of every         *)
(* publisher.                                                              *)
(*                                                                         *)
(* A subscriber makes a new encryption key pair at every start             *)
(* (BusClient.connect_as_adapter), so its public key is the number of that *)
(* start: epoch[s].  NoKey = 0 stands for an absent entry.  Time advances  *)
(* in heartbeat intervals (20 s); TTL is the bucket's TTL (60 s) counted   *)
(* in them.                                                                *)
(***************************************************************************)
EXTENDS Naturals, Sequences, FiniteSets

CONSTANTS
    Services,    \* the adapters that subscribe to the subject
    Publishers,  \* the BusClients that publish to it
    TTL,         \* lifetime of an entry, in heartbeat intervals
    IndexLag,    \* TRUE iff a new watch may see a stale, empty index
    CaughtUp,    \* the None a watcher yields when it reaches live data
    MaxEpoch,    \* bound: starts of one subscriber
    MaxQueue     \* bound: updates on their way to one cache

ASSUME DirectoryAssumption ==
    /\ IsFiniteSet(Services)
    /\ TTL \in Nat /\ TTL >= 2
    /\ IndexLag \in BOOLEAN
    /\ MaxEpoch \in Nat /\ MaxQueue \in Nat

VARIABLES
    \* the bucket
    entry,    \* entry[s]: the key registered for s, or NoKey
    age,      \* age[s]: heartbeat intervals since entry[s] was written
    late,     \* late[s]: keys of puts still in flight that nobody awaits
    \* the subscribers
    mode,     \* mode[s]: where the subscriber is in heartbeat()
    epoch,    \* epoch[s]: number of starts = current encryption key
    missed,   \* missed[s]: beats that failed since the last success, up to TTL
    removed,  \* removed[s]: deregistered by hand since the last put
    \* the publishers
    wst,      \* wst[p]: state of p's RecipientCache
    queue,    \* queue[p]: updates the watch has still to yield
    cache,    \* cache[p]: RecipientCache._entries
    unseen    \* unseen[p]: registered services a stale snapshot left out

bucketVars == <<entry, age, late>>
subVars == <<mode, epoch, missed, removed>>
cacheVars == <<wst, queue, cache, unseen>>
vars == <<bucketVars, subVars, cacheVars>>

NoKey == 0
Keys == 0 .. MaxEpoch
NoEntries == [s \in Services |-> NoKey]

\* "first": awaiting the register() of subscribe(); "asleep": in the sleep of
\* the loop; "beating": awaiting the loop's own register().
Modes == {"down", "first", "asleep", "beating"}

Update ==
    [op : {"PUT"}, svc : Services, key : Keys]
        \cup [op : {"DEL", "PURGE"}, svc : Services, key : {NoKey}]

ASSUME CaughtUpAssumption == CaughtUp \notin Update

Up(s) == mode[s] \in {"asleep", "beating"}

-------------------------------------------------------------------------------
(* The bucket.  A put and a removal reach the watch of every cache in the  *)
(* order the bucket applied them.                                          *)

Watching(p) == wst[p] # "off"

Room == \A p \in Publishers : Len(queue[p]) < MaxQueue

Notify(u) ==
    /\ Room
    /\ queue' = [p \in Publishers |->
                    IF Watching(p) THEN Append(queue[p], u) ELSE queue[p]]
    /\ unseen' = [p \in Publishers |-> unseen[p] \ {u.svc}]
    /\ UNCHANGED <<wst, cache>>

\* Mutant of Put: KeyValue.create(), which leaves an existing entry alone.
PutIfAbsent(s, k) ==
    IF entry[s] = NoKey
    THEN /\ entry' = [entry EXCEPT ![s] = k]
         /\ age' = [age EXCEPT ![s] = 0]
         /\ removed' = [removed EXCEPT ![s] = FALSE]
         /\ Notify([op |-> "PUT", svc |-> s, key |-> k])
    ELSE UNCHANGED <<entry, age, removed, cacheVars>>

\* KeyValue.put: last write wins, and every write restarts the TTL.
Put(s, k) ==
    /\ entry' = [entry EXCEPT ![s] = k]
    /\ age' = [age EXCEPT ![s] = 0]
    /\ removed' = [removed EXCEPT ![s] = FALSE]
    /\ Notify([op |-> "PUT", svc |-> s, key |-> k])

Remove(s, how) ==
    /\ entry[s] # NoKey
    /\ entry' = [entry EXCEPT ![s] = NoKey]
    /\ Notify([op |-> how, svc |-> s, key |-> NoKey])

\* The server purges an entry that nobody refreshed for TTL.
Expire(s) ==
    /\ age[s] = TTL
    /\ Remove(s, "PURGE")
    /\ UNCHANGED <<age, late, subVars>>

\* deregister(), used by the operator's tool and not by an adapter.
Deregister(s) ==
    /\ Remove(s, "DEL")
    /\ removed' = [removed EXCEPT ![s] = TRUE]
    /\ UNCHANGED <<age, late, mode, epoch, missed>>

-------------------------------------------------------------------------------
(* A subscriber: subscribe() and the heartbeat task.                       *)

\* The process starts with a fresh key pair and sends its first register().
Start(s) ==
    /\ mode[s] = "down"
    /\ epoch[s] < MaxEpoch
    /\ mode' = [mode EXCEPT ![s] = "first"]
    /\ epoch' = [epoch EXCEPT ![s] = @ + 1]
    /\ missed' = [missed EXCEPT ![s] = 0]
    /\ UNCHANGED <<removed, bucketVars, cacheVars>>

\* The awaited put is applied and acknowledged; the loop goes (back) to sleep.
Registered(s) ==
    /\ mode[s] \in {"first", "beating"}
    /\ Put(s, epoch[s])
    /\ mode' = [mode EXCEPT ![s] = "asleep"]
    /\ missed' = [missed EXCEPT ![s] = 0]
    /\ UNCHANGED <<late, epoch>>

\* A put whose sender stopped waiting is lost, or stays in flight.
Abandon(s) ==
    \/ late' = late
    \/ late' = [late EXCEPT ![s] = @ \cup {epoch[s]}]

\* The first register() raises out of subscribe(): the adapter does not start.
FirstFails(s) ==
    /\ mode[s] = "first"
    /\ Abandon(s)
    /\ mode' = [mode EXCEPT ![s] = "down"]
    /\ UNCHANGED <<entry, age, epoch, missed, removed, cacheVars>>

\* Mutant of BeatFails: the exception ends the heartbeat task.
BeatFailureEndsLoop(s) ==
    /\ mode[s] = "beating"
    /\ Abandon(s)
    /\ mode' = [mode EXCEPT ![s] = "ended"]
    /\ UNCHANGED <<entry, age, epoch, missed, removed, cacheVars>>

\* A failed beat is logged; the loop sleeps another interval.
BeatFails(s) ==
    /\ mode[s] = "beating"
    /\ Abandon(s)
    /\ mode' = [mode EXCEPT ![s] = "asleep"]
    /\ missed' = [missed EXCEPT ![s] = IF @ < TTL THEN @ + 1 ELSE @]
    /\ UNCHANGED <<entry, age, epoch, removed, cacheVars>>

\* close() or a crash.  Neither deregisters, and cancelling the task does not
\* retract a put that is already on its way.
Stop(s) ==
    /\ mode[s] # "down"
    /\ IF mode[s] = "asleep" THEN late' = late ELSE Abandon(s)
    /\ mode' = [mode EXCEPT ![s] = "down"]
    /\ UNCHANGED <<entry, age, epoch, missed, removed, cacheVars>>

\* An abandoned put lands after all.
LatePutLands(s, k) ==
    /\ k \in late[s]
    /\ late' = [late EXCEPT ![s] = @ \ {k}]
    /\ Put(s, k)
    /\ UNCHANGED <<mode, epoch, missed>>

\* One heartbeat interval passes: every sleep of a loop is over, every entry
\* is older.  Requests have a timeout far below the interval, so none is
\* outstanding; the server has purged what was due.
Tick ==
    /\ \A s \in Services : mode[s] \notin {"first", "beating"}
    /\ \A s \in Services : entry[s] # NoKey => age[s] < TTL
    /\ age' = [s \in Services |-> IF entry[s] = NoKey THEN age[s] ELSE age[s] + 1]
    /\ mode' = [s \in Services |-> IF mode[s] = "asleep" THEN "beating" ELSE mode[s]]
    /\ UNCHANGED <<entry, late, epoch, missed, removed, cacheVars>>

-------------------------------------------------------------------------------
(* A publisher's RecipientCache.                                           *)

RegisteredSet == {s \in Services : entry[s] # NoKey}

\* The registered services, each once, in any order (the bucket's own order).
Orders ==
    {o \in [1 .. Cardinality(RegisteredSet) -> RegisteredSet] :
        /\ \A s \in RegisteredSet : \E i \in DOMAIN o : o[i] = s
        /\ \A i, j \in DOMAIN o : o[i] = o[j] => i = j}

\* The latest value of every registered service, then the marker.
Snapshot(o) ==
    Append([i \in DOMAIN o |-> [op |-> "PUT", svc |-> o[i], key |-> entry[o[i]]]],
           CaughtUp)

\* start(): the watch is created and _consume() runs; start() waits for ready.
StartWatch(p) ==
    /\ wst[p] = "off"
    /\ wst' = [wst EXCEPT ![p] = "starting"]
    /\ \/ /\ \E o \in Orders : queue' = [queue EXCEPT ![p] = Snapshot(o)]
          /\ unseen' = [unseen EXCEPT ![p] = {}]
       \/ /\ IndexLag
          /\ queue' = [queue EXCEPT ![p] = <<CaughtUp>>]
          /\ unseen' = [unseen EXCEPT ![p] = RegisteredSet]
    /\ UNCHANGED <<cache, bucketVars, subVars>>

\* Mutant of Consume: only an explicit delete removes an entry, not the purge
\* of an expired one.
ConsumeIgnoresPurge(p) ==
    /\ queue[p] # <<>>
    /\ queue' = [queue EXCEPT ![p] = Tail(@)]
    /\ LET u == Head(queue[p]) IN
       IF u = CaughtUp
       THEN wst' = [wst EXCEPT ![p] = "ready"] /\ UNCHANGED cache
       ELSE /\ cache' = IF u.op = "PURGE" THEN cache
                        ELSE [cache EXCEPT ![p][u.svc] = u.key]
            /\ UNCHANGED wst
    /\ UNCHANGED <<unseen, bucketVars, subVars>>

\* Mutant of Consume: a key already in the cache is not replaced.
ConsumeKeepsFirst(p) ==
    /\ queue[p] # <<>>
    /\ queue' = [queue EXCEPT ![p] = Tail(@)]
    /\ LET u == Head(queue[p]) IN
       IF u = CaughtUp
       THEN wst' = [wst EXCEPT ![p] = "ready"] /\ UNCHANGED cache
       ELSE /\ cache' = IF u.op = "PUT" /\ cache[p][u.svc] # NoKey THEN cache
                        ELSE [cache EXCEPT ![p][u.svc] = u.key]
            /\ UNCHANGED wst
    /\ UNCHANGED <<unseen, bucketVars, subVars>>

\* One turn of _consume() that got something from updates().
Consume(p) ==
    /\ queue[p] # <<>>
    /\ queue' = [queue EXCEPT ![p] = Tail(@)]
    /\ LET u == Head(queue[p]) IN
       \/ /\ u = CaughtUp
          /\ wst' = [wst EXCEPT ![p] = "ready"]
          /\ UNCHANGED cache
       \/ /\ u # CaughtUp
          /\ u.op \in {"DEL", "PURGE"}
          /\ cache' = [cache EXCEPT ![p][u.svc] = NoKey]
          /\ UNCHANGED wst
       \/ /\ u # CaughtUp
          /\ u.op = "PUT"
          /\ cache' = [cache EXCEPT ![p][u.svc] = u.key]
          /\ UNCHANGED wst
    /\ UNCHANGED <<unseen, bucketVars, subVars>>

\* stop(), or the end of the publisher's process.
StopWatch(p) ==
    /\ wst[p] # "off"
    /\ wst' = [wst EXCEPT ![p] = "off"]
    /\ queue' = [queue EXCEPT ![p] = <<>>]
    /\ cache' = [cache EXCEPT ![p] = NoEntries]
    /\ unseen' = [unseen EXCEPT ![p] = {}]
    /\ UNCHANGED <<bucketVars, subVars>>

-------------------------------------------------------------------------------
Init ==
    /\ entry = NoEntries
    /\ age = [s \in Services |-> 0]
    /\ late = [s \in Services |-> {}]
    /\ mode = [s \in Services |-> "down"]
    /\ epoch = [s \in Services |-> 0]
    /\ missed = [s \in Services |-> 0]
    /\ removed = [s \in Services |-> FALSE]
    /\ wst = [p \in Publishers |-> "off"]
    /\ queue = [p \in Publishers |-> <<>>]
    /\ cache = [p \in Publishers |-> NoEntries]
    /\ unseen = [p \in Publishers |-> {}]

ServiceStep(s) ==
    \/ Start(s)
    \/ Registered(s)
    \/ FirstFails(s)
    \/ BeatFails(s)
    \/ Stop(s)
    \/ Expire(s)
    \/ Deregister(s)
    \/ \E k \in late[s] : LatePutLands(s, k)

PublisherStep(p) == StartWatch(p) \/ Consume(p) \/ StopWatch(p)

Next ==
    \/ Tick
    \/ \E s \in Services : ServiceStep(s)
    \/ \E p \in Publishers : PublisherStep(p)

Spec == Init /\ [][Next]_vars

\* Time passes, the server purges, a cache's task runs; and a subscriber's put
\* succeeds again and again when it is tried again and again.
Fairness ==
    /\ WF_vars(Tick)
    /\ \A s \in Services : WF_vars(Expire(s)) /\ SF_vars(Registered(s))
    /\ \A p \in Publishers : WF_vars(Consume(p))

FairSpec == Spec /\ Fairness

-------------------------------------------------------------------------------
(* Properties.                                                             *)

\* The values every variable keeps to.
TypeOK ==
    /\ entry \in [Services -> Keys]
    /\ age \in [Services -> 0 .. TTL]
    /\ late \in [Services -> SUBSET Keys]
    /\ mode \in [Services -> Modes]
    /\ epoch \in [Services -> Keys]
    /\ missed \in [Services -> 0 .. TTL]
    /\ removed \in [Services -> BOOLEAN]
    /\ wst \in [Publishers -> {"off", "starting", "ready"}]
    /\ queue \in [Publishers -> Seq(Update \cup {CaughtUp})]
    /\ cache \in [Publishers -> [Services -> Keys]]
    /\ unseen \in [Publishers -> SUBSET Services]

IsFor(u, s) == u # CaughtUp /\ u.svc = s

\* Applying the updates of q to a cache that has old for s leaves k there.
Yields(q, old, s, k) ==
    \/ /\ \A i \in 1 .. Len(q) : ~IsFor(q[i], s)
       /\ old = k
    \/ \E i \in 1 .. Len(q) :
          /\ IsFor(q[i], s)
          /\ q[i].key = k
          /\ \A j \in 1 .. Len(q) : i < j => ~IsFor(q[j], s)

\* RecipientCache._consume loses and reorders nothing: applying what is still
\* in its queue turns the cache into the bucket, for every service but those
\* a stale first snapshot left out and that were not written since.
CacheFollows ==
    \A p \in Publishers, s \in Services :
        Watching(p) =>
            Yields(queue[p], cache[p][s], s,
                   IF s \in unseen[p] THEN NoKey ELSE entry[s])

\* The loop of heartbeat(): a running subscriber that did not miss TTL - 1
\* beats in a row stays registered, whatever fails, restarts and expires
\* around it, unless an operator removes it by hand.
StaysRegistered ==
    \A s \in Services :
        Up(s) /\ ~removed[s] /\ missed[s] + 1 < TTL => entry[s] # NoKey

\* A subscriber that stays up is found by a publisher that stays up: its
\* current key is in the cache again and again, whatever stale put, failed
\* beat, deregistration or stale snapshot had put another value there.
RegistrationHeals ==
    \A p \in Publishers, s \in Services :
        <>[](Up(s) /\ wst[p] = "ready") => []<>(cache[p][s] = epoch[s])

\* A subscriber that is gone for good leaves every cache for good, with no
\* deregister(): the TTL's PURGE is enough.
DeadIsForgotten ==
    \A p \in Publishers, s \in Services :
        <>[](mode[s] = "down" /\ wst[p] = "ready") => <>[](cache[p][s] = NoKey)

===============================================================================
