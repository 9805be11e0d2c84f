------------------------------ MODULE ClientTasks -----------------------------
(***************************************************************************)
(* One BusClient (libs/jetcore/jetcore/bus_client.py) as the object that   *)
(* the tasks of a process share: the dictionary of RecipientCaches that    *)
(* publish() fills on first use, the list of heartbeat tasks, and close(), *)
(* which the finally of every entrypoint calls while the other parts of a  *)
(* failed gather() still run.  One step is what runs between two awaits.   *)
(***************************************************************************)
EXTENDS Naturals, FiniteSets

CONSTANTS
    Subjects,    \* the subjects published to
    Callers,     \* tasks that call publish(), each one call at a time
    Durables,    \* the durable consumers subscribed to
    MaxWatches,  \* bound: watches of the service-directory bucket
    MaxBeats     \* bound: calls of subscribe() that register

ASSUME TasksAssumption == IsFiniteSet(Subjects) /\ MaxWatches \in Nat /\ MaxBeats \in Nat

VARIABLES
    phase,       \* "open", "cancelling", "stopping", "closed", or "broken":
                 \* close() has raised and left the connection open
    cached,      \* _recipient_caches: the watch stored for a subject, or 0
    watch,       \* watch[w]: "none", "loading", "ready" or "stopped"
    call,        \* call[k]: where the publish() of k is, and for what
    booting,     \* the subscribe() of the entrypoint that is under way
    beats,       \* heartbeat tasks that run
    tracked,     \* _background_tasks: <<durable, task>>
    stopped,     \* subjects whose cache close() has stopped
    size,        \* the size of _recipient_caches when close() began to iterate
    overlap      \* a first publish met another one of its subject, or a close()

pubVars == <<cached, watch, call>>
beatVars == <<booting, beats, tracked>>
closeVars == <<phase, stopped, size>>
vars == <<pubVars, beatVars, closeVars, overlap>>

Watches == 1 .. MaxWatches
Beats == 1 .. MaxBeats
Idle == [at |-> "idle"]
NotBooting == [at |-> "no"]

Cached == {s \in Subjects : cached[s] # 0}
Running == {w \in Watches : watch[w] \in {"loading", "ready"}}
Opening(k) == call[k].at \in {"asking", "loading"}

-------------------------------------------------------------------------------
(* publish().                                                              *)

\* _cache_for() finds the cache, and publish() goes on to the stream with what
\* current() returns; or it awaits a watch of its own.
Publish(k, s) ==
    /\ call[k] = Idle
    /\ call' = [call EXCEPT ![k] = IF cached[s] = 0 THEN [at |-> "asking", subject |-> s]
                                   ELSE [at |-> "sending", subject |-> s, watch |-> cached[s]]]
    /\ overlap' = (overlap \/ (cached[s] = 0 /\
                      (phase # "open" \/ \E j \in Callers : Opening(j) /\ call[j].subject = s)))
    /\ UNCHANGED <<cached, watch, beatVars, closeVars>>

\* kv.watch() has answered: start() creates the task of _consume() and waits
\* for its first snapshot, without a timeout.
WatchStarts(k, w) ==
    /\ call[k].at = "asking" /\ phase # "closed"
    /\ watch[w] = "none"
    /\ watch' = [watch EXCEPT ![w] = "loading"]
    /\ call' = [call EXCEPT ![k] = [at |-> "loading", subject |-> @.subject, watch |-> w]]
    /\ UNCHANGED <<cached, beatVars, closeVars, overlap>>

\* Mutant of SnapshotLoads: the marker for "caught up" is skipped.
SnapshotUnnoticed(w) == watch[w] = "loading" /\ UNCHANGED vars

\* _consume() comes to the end of the snapshot and sets _ready.
SnapshotLoads(w) ==
    /\ watch[w] = "loading"
    /\ watch' = [watch EXCEPT ![w] = "ready"]
    /\ UNCHANGED <<cached, call, beatVars, closeVars, overlap>>

\* Mutant of CacheStored: the cache is stored before its snapshot has loaded.
CacheStoredEarly(k) ==
    /\ call[k].at = "loading"
    /\ cached' = [cached EXCEPT ![call[k].subject] = call[k].watch]
    /\ call' = [call EXCEPT ![k].at = "sending"]
    /\ UNCHANGED <<watch, beatVars, closeVars, overlap>>

\* start() returns: the cache goes into the dictionary, in the place of any
\* that is there by now, and publish() goes on.
CacheStored(k) ==
    /\ call[k].at = "loading" /\ watch[call[k].watch] = "ready"
    /\ cached' = [cached EXCEPT ![call[k].subject] = call[k].watch]
    /\ call' = [call EXCEPT ![k].at = "sending"]
    /\ UNCHANGED <<watch, beatVars, closeVars, overlap>>

\* The stream answers, or kv.watch() or the stream raises.
PublishEnds(k) ==
    /\ call[k].at \in {"asking", "sending"}
    /\ call' = [call EXCEPT ![k] = Idle]
    /\ UNCHANGED <<cached, watch, beatVars, closeVars, overlap>>

-------------------------------------------------------------------------------
(* subscribe(), called by the entrypoint before its loops start and, on a   *)
(* reconnect, again for the same durable.                                   *)

Subscribe(d) ==
    /\ phase = "open" /\ booting = NotBooting
    /\ booting' = [at |-> "registering", durable |-> d]
    /\ UNCHANGED <<pubVars, beats, tracked, closeVars, overlap>>

\* Mutant of HeartbeatStarts: one task is kept per durable.
HeartbeatReplaces(b) ==
    /\ booting.at = "registering"
    /\ b \notin beats
    /\ beats' = beats \cup {b}
    /\ tracked' = {t \in tracked : t[1] # booting.durable} \cup {<<booting.durable, b>>}
    /\ booting' = [booting EXCEPT !.at = "consumer"]
    /\ UNCHANGED <<pubVars, closeVars, overlap>>

\* The first register() is done: a heartbeat task of this call, in the list.
HeartbeatStarts(b) ==
    /\ booting.at = "registering"
    /\ b \notin beats
    /\ beats' = beats \cup {b}
    /\ tracked' = tracked \cup {<<booting.durable, b>>}
    /\ booting' = [booting EXCEPT !.at = "consumer"]
    /\ UNCHANGED <<pubVars, closeVars, overlap>>

\* pull_subscribe() answers or raises, or the first register() raised.
SubscribeEnds ==
    /\ booting # NotBooting
    /\ booting' = NotBooting
    /\ UNCHANGED <<pubVars, beats, tracked, closeVars, overlap>>

-------------------------------------------------------------------------------
(* close().                                                                *)

CloseBegins ==
    /\ phase = "open" /\ booting = NotBooting
    /\ phase' = "cancelling"
    /\ overlap' = (overlap \/ \E k \in Callers : Opening(k))
    /\ UNCHANGED <<pubVars, beatVars, stopped, size>>

\* Every task of the list has been cancelled and awaited.
TasksEnd ==
    /\ phase = "cancelling"
    /\ beats' = beats \ {t[2] : t \in tracked}
    /\ phase' = "stopping"
    /\ size' = Cardinality(Cached)
    /\ UNCHANGED <<pubVars, booting, tracked, stopped, overlap>>

\* Mutant of StopCache: the task is cancelled when it is not needed any more.
StopCacheIfUnused(s) ==
    /\ phase = "stopping" /\ Cardinality(Cached) = size
    /\ s \in Cached \ stopped
    /\ watch' = IF \E k \in Callers : call[k].at = "sending" /\ call[k].subject = s THEN watch
                ELSE [watch EXCEPT ![cached[s]] = "stopped"]
    /\ stopped' = stopped \cup {s}
    /\ UNCHANGED <<cached, call, beatVars, phase, size, overlap>>

\* One turn of the loop over the dictionary's values.
StopCache(s) ==
    /\ phase = "stopping" /\ Cardinality(Cached) = size
    /\ s \in Cached \ stopped
    /\ watch' = [watch EXCEPT ![cached[s]] = "stopped"]
    /\ stopped' = stopped \cup {s}
    /\ UNCHANGED <<cached, call, beatVars, phase, size, overlap>>

\* Mutant of CloseEnds: close() waits for the calls of publish() under way.
CloseAwaitsPublishes ==
    /\ phase = "stopping" /\ Cardinality(Cached) = size /\ Cached = stopped
    /\ \A k \in Callers : call[k] = Idle
    /\ phase' = "closed"
    /\ UNCHANGED <<pubVars, beatVars, stopped, size, overlap>>

\* The loop is over and the connection is closed; or a publish() has stored a
\* cache since the loop began: "dictionary changed size during iteration".
CloseEnds ==
    /\ phase = "stopping"
    /\ \/ Cardinality(Cached) = size /\ Cached = stopped /\ phase' = "closed"
       \/ Cardinality(Cached) # size /\ phase' = "broken"
    /\ UNCHANGED <<pubVars, beatVars, stopped, size, overlap>>

-------------------------------------------------------------------------------
Init ==
    /\ phase = "open"
    /\ cached = [s \in Subjects |-> 0]
    /\ watch = [w \in Watches |-> "none"]
    /\ call = [k \in Callers |-> Idle]
    /\ booting = NotBooting
    /\ beats = {} /\ tracked = {}
    /\ stopped = {} /\ size = 0
    /\ overlap = FALSE

PublishStep(k) ==
    \/ \E s \in Subjects : Publish(k, s)
    \/ \E w \in Watches : WatchStarts(k, w)
    \/ CacheStored(k)
    \/ PublishEnds(k)

CloseStep == CloseBegins \/ TasksEnd \/ (\E s \in Subjects : StopCache(s)) \/ CloseEnds

Next ==
    \/ \E k \in Callers : PublishStep(k)
    \/ \E w \in Watches : SnapshotLoads(w)
    \/ \E d \in Durables : Subscribe(d)
    \/ \E b \in Beats : HeartbeatStarts(b)
    \/ SubscribeEnds
    \/ CloseStep

Spec == Init /\ [][Next]_vars

\* The event loop runs every task that can go on, awaits on the server end (as
\* long as the connection is open, with an answer), and close() is not stopped.
Fairness ==
    /\ \A k \in Callers : WF_vars(CacheStored(k)) /\ WF_vars(PublishEnds(k))
    /\ \A w \in Watches : WF_vars(phase # "closed" /\ SnapshotLoads(w))
    /\ WF_vars(TasksEnd) /\ WF_vars((\E s \in Subjects : StopCache(s)) \/ CloseEnds)

FairSpec == Spec /\ Fairness

-------------------------------------------------------------------------------
(* Properties.                                                             *)

\* The values every variable keeps to.
TypeOK ==
    /\ phase \in {"open", "cancelling", "stopping", "closed", "broken"}
    /\ cached \in [Subjects -> 0 .. MaxWatches]
    /\ watch \in [Watches -> {"none", "loading", "ready", "stopped"}]
    /\ call \in [Callers -> {Idle} \cup [at : {"asking"}, subject : Subjects]
                     \cup [at : {"loading", "sending"}, subject : Subjects, watch : Watches]]
    /\ booting \in {NotBooting} \cup [at : {"registering", "consumer"}, durable : Durables]
    /\ beats \subseteq Beats
    /\ tracked \subseteq Durables \X Beats
    /\ stopped \subseteq Subjects
    /\ size \in 0 .. Cardinality(Subjects)
    /\ overlap \in BOOLEAN

\* subscribe() is "safe to call again": every call starts a heartbeat task, a
\* repeated one too, and close() ends them all before anything else of it can
\* fail.  One left behind would go on registering a key that nobody reads with.
CloseEndsHeartbeats ==
    phase \in {"stopping", "closed", "broken"} => beats = {}

\* "current() is accurate as soon as start() returns": however first publishes
\* overlap, no event is encrypted from a cache that has not read the directory;
\* and while the client is open each cache in use follows the directory, the
\* one that lost its place in the dictionary too.
SendsFromLoadedCache ==
    \A k \in Callers : call[k].at = "sending" =>
        watch[call[k].watch] \in (IF phase = "open" THEN {"ready"} ELSE {"ready", "stopped"})

\* What close() leaves behind, a watch that runs on or a connection that stays
\* open, takes a race to leave: a first publish that met another one of its
\* subject or the close().  Until then there is one watch for each subject.
LeftoversTakeARace ==
    ~overlap =>
        /\ phase # "broken"
        /\ phase = "closed" => Running = {}
        /\ \A w \in Running : \/ \E s \in Subjects : cached[s] = w
                             \/ \E k \in Callers : call[k].at = "loading" /\ call[k].watch = w

\* close() comes to its end, whatever publish() calls are stuck in.
CloseCompletes == phase = "cancelling" ~> phase \in {"closed", "broken"}

\* No publish() waits for good while its client is open, although the wait for
\* the first snapshot has no timeout.
PublishProgresses ==
    \A k \in Callers : call[k].at # "idle" ~> call[k].at = "idle" \/ phase = "closed"

===============================================================================
