------------------------------- MODULE DbAdapter ------------------------------
(***************************************************************************)
(* The Database Adapter (adapters/db_adapter_mysql): the write path that   *)
(* upserts every OrderCreated and publishes OrderPersisted, the CDC thread *)
(* that publishes every change of the orders table, and the entrypoint     *)
(* that runs, stops and abandons the two.                                  *)
(*                                                                         *)
(* Events are the OrderCreated events in stream order; the content of a    *)
(* row is the event that wrote it.  The durable consumer is the one of     *)
(* EventBus; a publish() that raises has landed or is lost.                *)
(***************************************************************************)
EXTENDS Naturals, Sequences, FiniteSets

CONSTANTS
    N,           \* the number of OrderCreated events
    Orders,
    Malformed,   \* a payload decode_order_created() refuses
    None,        \* no such row
    Outside,     \* the content of a row that was not written by the adapter
    MaxDeliver,  \* MAX_DELIVER_ATTEMPTS
    Batch,       \* FETCH_BATCH
    MaxStarts    \* bound: starts of the adapter; the last one does not fail

ASSUME DbAssumption ==
    /\ N \in Nat
    /\ Malformed \notin Orders
    /\ None # Outside /\ {None, Outside} \cap Nat = {}
    /\ {MaxDeliver, Batch, MaxStarts} \subseteq Nat \ {0}

VARIABLES
    \* the bus
    arrived,  \* events 1 .. arrived are in the stream
    orderOf,  \* orderOf[e]: the order e is about, or Malformed
    encFor,   \* encFor[e]: the start of the adapter e was encrypted for
    status,   \* status[e]: the durable's view of e
    num,      \* num[e]: deliveries of e so far
    replied,  \* replied[e]: OrderPersisted events published for e
    mirror,   \* the table as a reader of the RowChanged events knows it
    out,      \* positions of the binlog that were published at least once
    \* MySQL
    row,      \* row[o]: content of the row of o, or None
    binlog,   \* the row changes, oldest first
    touched,  \* orders written or deleted by someone else (bound: once each)
    stored,   \* events whose upsert was committed
    \* the process
    phase,    \* "up", "closing" (past the finally of main()) or "down"
    start,    \* its starts so far
    stopping, \* the asyncio.Event of main()
    told,     \* the threading.Event of CdcWatcher
    writer,   \* the task of _run_write_loop()
    batch,    \* events run_once() has still to handle
    job,      \* the event in _handle() and the await it is at, or Idle
    cdc,      \* the thread of _run_stream()
    pos       \* changes the thread is done with

busVars == <<arrived, orderOf, encFor, status, num, replied>>
changeVars == <<mirror, out>>
tableVars == <<row, binlog, touched, stored>>
writeVars == <<writer, batch, job>>
cdcVars == <<cdc, pos>>
procVars == <<phase, start, stopping, told>>
vars == <<busVars, changeVars, tableVars, writeVars, cdcVars, procVars>>

Events == 1 .. N
Contents == Events \cup {None, Outside}
Idle == [ev |-> 0, at |-> "idle"]
NoRows == [o \in Orders |-> None]

Failing == start < MaxStarts

-------------------------------------------------------------------------------
(* MySQL.                                                                  *)

\* A statement that leaves a row as it was makes no entry in the binlog.
SetRow(o, c) ==
    /\ row' = [row EXCEPT ![o] = c]
    /\ binlog' = IF row[o] = c THEN binlog
                 ELSE Append(binlog, [order |-> o, content |-> c])

\* The upsert of _handle().
Upsert(e) == SetRow(orderOf[e], e) /\ stored' = stored \cup {e}

NoUpsert == UNCHANGED <<row, binlog, stored>>

\* A direct SQL write that bypasses the bus, or a delete.
WrittenOutside(o, c) ==
    /\ o \notin touched
    /\ row[o] # c
    /\ SetRow(o, c)
    /\ touched' = touched \cup {o}
    /\ UNCHANGED <<busVars, changeVars, stored, writeVars, cdcVars, procVars>>

-------------------------------------------------------------------------------
(* The durable consumer of OrderCreated.                                   *)

\* An event with any payload, encrypted for the process that registered last.
Arrive(o) ==
    /\ arrived < N
    /\ arrived' = arrived + 1
    /\ orderOf' = [orderOf EXCEPT ![arrived + 1] = o]
    /\ encFor' = [encFor EXCEPT ![arrived + 1] = start]
    /\ UNCHANGED <<status, num, replied, changeVars, tableVars, writeVars, cdcVars, procVars>>

Again(e) == IF num[e] < MaxDeliver THEN "redo" ELSE "dead"

AckWaitExpires(e) ==
    /\ status[e] = "out"
    /\ status' = [status EXCEPT ![e] = Again(e)]
    /\ UNCHANGED <<arrived, orderOf, encFor, num, replied, changeVars, tableVars, writeVars,
                   cdcVars, procVars>>

Deliverable == {e \in 1 .. arrived : status[e] \in {"new", "redo"}}

\* New events come in stream order, redeliveries in any order.
InOrder(B) ==
    \A e \in B, d \in Deliverable :
        status[e] = "new" /\ status[d] = "new" /\ d < e => d \in B

-------------------------------------------------------------------------------
(* The write path.                                                         *)

\* The loop looks at the shutdown event and calls run_once().
Poll ==
    /\ phase = "up" /\ writer = "run" /\ batch = {} /\ job = Idle
    /\ writer' = IF stopping THEN "done" ELSE "polling"
    /\ UNCHANGED <<busVars, changeVars, tableVars, batch, job, cdcVars, procVars>>

\* fetch() drops, unacked, what it cannot decrypt, whose signature it refuses and
\* whose signing key it fails to look up; or it times out.
Fetch(B) ==
    /\ phase = "up" /\ writer = "polling"
    /\ B \subseteq Deliverable /\ Cardinality(B) <= Batch /\ InOrder(B)
    /\ writer' = "run"
    /\ batch' \in SUBSET {e \in B : encFor[e] = start}
    /\ status' = [e \in Events |-> IF e \in B THEN "out" ELSE status[e]]
    /\ num' = [e \in Events |-> IF e \in B THEN num[e] + 1 ELSE num[e]]
    /\ UNCHANGED <<arrived, orderOf, encFor, replied, changeVars, tableVars, job, cdcVars, procVars>>

\* Mutant of NextOfBatch: the batch is handled in any order.
AnyOfBatch(e) == e \in batch

\* The loop of run_once() follows the order of delivery.
NextOfBatch(e) ==
    /\ e \in batch
    /\ \A d \in batch : num[d] = 1 /\ num[e] = 1 => e <= d

\* _handle() decodes the payload; a malformed one is only acked.
Take(e) ==
    /\ phase = "up" /\ writer = "run" /\ job = Idle
    /\ NextOfBatch(e)
    /\ batch' = batch \ {e}
    /\ job' = [ev |-> e, at |-> IF orderOf[e] = Malformed THEN "ack" ELSE "upsert"]
    /\ UNCHANGED <<busVars, changeVars, tableVars, writer, cdcVars, procVars>>

At(step) == phase = "up" /\ writer = "run" /\ job.at = step

UpsertSucceeds ==
    /\ At("upsert")
    /\ Upsert(job.ev)
    /\ job' = [job EXCEPT !.at = "publish"]
    /\ UNCHANGED <<busVars, changeVars, touched, writer, batch, cdcVars, procVars>>

\* Mutant of UpsertFails: the handler goes on as if the row had been written.
UpsertFailureIgnored ==
    /\ At("upsert")
    /\ job' = [job EXCEPT !.at = "publish"]
    /\ UNCHANGED <<busVars, changeVars, tableVars, writer, batch, cdcVars, procVars>>

\* A DBAPIError, before or after the commit took effect: nak().
UpsertFails ==
    /\ At("upsert")
    /\ Upsert(job.ev) \/ NoUpsert
    /\ status' = [status EXCEPT ![job.ev] = IF @ = "out" THEN Again(job.ev) ELSE @]
    /\ job' = Idle
    /\ UNCHANGED <<arrived, orderOf, encFor, num, replied, changeVars, touched, writer, batch,
                   cdcVars, procVars>>

PublishSucceeds ==
    /\ At("publish")
    /\ replied' = [replied EXCEPT ![job.ev] = @ + 1]
    /\ job' = [job EXCEPT !.at = "ack"]
    /\ UNCHANGED <<arrived, orderOf, encFor, status, num, changeVars, tableVars, writer, batch,
                   cdcVars, procVars>>

AckJob ==
    /\ At("ack")
    /\ status' = [status EXCEPT ![job.ev] = "acked"]
    /\ job' = Idle
    /\ UNCHANGED <<arrived, orderOf, encFor, num, replied, changeVars, tableVars, writer, batch,
                   cdcVars, procVars>>

\* What the write path had on its way when it was cut off may have its effect.
MaybeUpserted == NoUpsert \/ (job.at = "upsert" /\ Upsert(job.ev))
MaybeReplied ==
    \/ UNCHANGED replied
    \/ job.at = "publish" /\ replied' = [replied EXCEPT ![job.ev] = @ + 1]

\* Whatever else fetch(), the upsert, publish(), ack() or nak() raise ends the task.
WriterRaises ==
    /\ Failing
    /\ phase = "up" /\ writer \in {"run", "polling"}
    /\ writer = "polling" \/ job # Idle
    /\ writer' = "dead" /\ batch' = {} /\ job' = Idle
    /\ MaybeUpserted /\ MaybeReplied
    /\ UNCHANGED <<arrived, orderOf, encFor, status, num, changeVars, touched, cdcVars, procVars>>

-------------------------------------------------------------------------------
(* The CDC thread.                                                         *)

\* RowChanged for position i reaches the bus.
Announce(i) ==
    /\ mirror' = [mirror EXCEPT ![binlog[i].order] = binlog[i].content]
    /\ out' = out \cup {i}

Behind == pos < Len(binlog)

CdcPublishes ==
    /\ phase = "up" /\ cdc = "run" /\ Behind
    /\ Announce(pos + 1)
    /\ pos' = pos + 1
    /\ UNCHANGED <<busVars, tableVars, writeVars, cdc, procVars>>

\* Mutant of CdcFails: a failed publish is logged and the thread goes on.
CdcFailureIgnored ==
    /\ Failing
    /\ cdc = "run" /\ Behind
    /\ pos' = pos + 1
    /\ UNCHANGED <<busVars, changeVars, tableVars, writeVars, cdc, procVars>>

\* The reader loses MySQL, or future.result() raises what publish() raised.
CdcFails ==
    /\ Failing
    /\ cdc = "run"
    /\ cdc' = "dead"
    /\ UNCHANGED changeVars \/ (phase = "up" /\ Behind /\ Announce(pos + 1))
    /\ UNCHANGED <<busVars, tableVars, writeVars, pos, procVars>>

\* A change that comes after client.close() cannot be published any more.
CdcFindsClientClosed ==
    /\ phase = "closing" /\ cdc = "run" /\ Behind
    /\ cdc' = "dead"
    /\ UNCHANGED <<busVars, changeVars, tableVars, writeVars, pos, procVars>>

\* The thread sees its event between two changes, or wakes from its wait.
CdcStops ==
    /\ cdc = "run" /\ told
    /\ cdc' = "done"
    /\ UNCHANGED <<busVars, changeVars, tableVars, writeVars, pos, procVars>>

-------------------------------------------------------------------------------
(* The entrypoint.                                                         *)

Sigterm ==
    /\ Failing
    /\ phase # "down" /\ ~stopping
    /\ stopping' = TRUE
    /\ UNCHANGED <<busVars, changeVars, tableVars, writeVars, cdcVars, phase, start, told>>

\* Mutant of BridgeShutdown: the thread's event is never set.
BridgeForgets ==
    /\ phase = "up" /\ stopping /\ ~told
    /\ UNCHANGED vars

BridgeShutdown ==
    /\ phase = "up" /\ stopping /\ ~told
    /\ told' = TRUE
    /\ UNCHANGED <<busVars, changeVars, tableVars, writeVars, cdcVars, phase, start, stopping>>

\* gather() is over: with the first exception of one of its parts, or with the
\* end of all.  run() and main() clean up, asyncio.run() cancels what is left
\* and waits for the thread.  A signal that came before has reached the bridge
\* by then.
Teardown ==
    /\ phase = "up"
    /\ "dead" \in {writer, cdc} \/ {writer, cdc} = {"done"}
    /\ stopping => told
    /\ phase' = "closing"
    /\ writer' = IF writer = "done" THEN "done" ELSE "dead"
    /\ batch' = {} /\ job' = Idle
    /\ MaybeUpserted /\ MaybeReplied
    /\ UNCHANGED <<arrived, orderOf, encFor, status, num, changeVars, touched, cdcVars, start,
                   stopping, told>>

\* The process can end when the thread has.
Exit ==
    /\ phase = "closing" /\ cdc # "run"
    /\ phase' = "down"
    /\ UNCHANGED <<busVars, changeVars, tableVars, writeVars, cdcVars, start, stopping, told>>

Crash ==
    /\ Failing
    /\ phase # "down"
    /\ phase' = "down"
    /\ writer' = "dead" /\ batch' = {} /\ job' = Idle /\ cdc' = "dead"
    /\ MaybeUpserted /\ MaybeReplied
    /\ \/ UNCHANGED changeVars
       \/ phase = "up" /\ cdc = "run" /\ Behind /\ Announce(pos + 1)
    /\ UNCHANGED <<arrived, orderOf, encFor, status, num, touched, pos, start, stopping, told>>

Up ==
    /\ phase = "down" /\ start < MaxStarts
    /\ phase' = "up"
    /\ start' = start + 1
    /\ stopping' = FALSE /\ told' = FALSE
    /\ writer' = "run" /\ cdc' = "run"
    /\ UNCHANGED <<busVars, changeVars, tableVars, batch, job>>

\* Mutant of StartProcess: the reader starts at the end of the binlog.
StartFromNow == Up /\ pos' = Len(binlog)

\* A new process reads the binlog from its beginning.
StartProcess == Up /\ pos' = 0

-------------------------------------------------------------------------------
Init ==
    /\ arrived = 0
    /\ orderOf = [e \in Events |-> Malformed]
    /\ encFor = [e \in Events |-> 0]
    /\ status = [e \in Events |-> "new"]
    /\ num = [e \in Events |-> 0]
    /\ replied = [e \in Events |-> 0]
    /\ mirror = NoRows /\ out = {}
    /\ row = NoRows /\ binlog = <<>> /\ touched = {} /\ stored = {}
    /\ phase = "down" /\ start = 0 /\ stopping = FALSE /\ told = FALSE
    /\ writer = "dead" /\ batch = {} /\ job = Idle
    /\ cdc = "dead" /\ pos = 0

WriterStep ==
    \/ Poll
    \/ \E B \in SUBSET Events : Fetch(B)
    \/ \E e \in Events : Take(e)
    \/ UpsertSucceeds
    \/ UpsertFails
    \/ PublishSucceeds
    \/ AckJob

CdcStep == CdcPublishes \/ CdcFindsClientClosed \/ CdcStops

ProcessStep == BridgeShutdown \/ Teardown \/ Exit \/ StartProcess

Environment ==
    \/ \E o \in Orders \cup {Malformed} : Arrive(o)
    \/ \E o \in Orders, c \in {None, Outside} : WrittenOutside(o, c)
    \/ WriterRaises
    \/ CdcFails
    \/ Sigterm
    \/ Crash

Next ==
    \/ WriterStep
    \/ CdcStep
    \/ ProcessStep
    \/ Environment
    \/ \E e \in Events : AckWaitExpires(e)

Spec == Init /\ [][Next]_vars

\* The event loop, the thread and the server go on; a process that has ended is
\* started again, by Compose or by the operator who stopped it.
Fairness ==
    /\ WF_vars(WriterStep)
    /\ WF_vars(CdcPublishes) /\ WF_vars(CdcFindsClientClosed) /\ WF_vars(CdcStops)
    /\ WF_vars(BridgeShutdown) /\ WF_vars(Teardown) /\ WF_vars(Exit)
    /\ WF_vars(StartProcess)
    /\ \A e \in Events : WF_vars(AckWaitExpires(e))

FairSpec == Spec /\ Fairness

-------------------------------------------------------------------------------
(* Properties.                                                             *)

\* The values every variable keeps to.
TypeOK ==
    /\ arrived \in 0 .. N
    /\ orderOf \in [Events -> Orders \cup {Malformed}]
    /\ encFor \in [Events -> 0 .. MaxStarts]
    /\ status \in [Events -> {"new", "out", "redo", "acked", "dead"}]
    /\ num \in [Events -> 0 .. MaxDeliver]
    /\ replied \in [Events -> Nat]
    /\ mirror \in [Orders -> Contents]
    /\ row \in [Orders -> Contents]
    /\ binlog \in Seq([order : Orders, content : Contents])
    /\ out \subseteq 1 .. Len(binlog)
    /\ touched \subseteq Orders
    /\ stored \subseteq Events
    /\ phase \in {"up", "closing", "down"}
    /\ start \in 0 .. MaxStarts
    /\ stopping \in BOOLEAN /\ told \in BOOLEAN
    /\ writer \in {"run", "polling", "dead", "done"}
    /\ batch \subseteq Events
    /\ job \in {Idle} \cup [ev : Events, at : {"upsert", "publish", "ack"}]
    /\ cdc \in {"run", "dead", "done"}
    /\ pos \in 0 .. Len(binlog)

\* _handle() upserts, then publishes, then acks: whatever is cut off, naked or
\* delivered again in between, an OrderPersisted is only sent for an order that
\* is in the table's history, at most once per delivery, and an event is only
\* acked after its OrderPersisted, unless its payload is malformed.
AckedIsPersisted ==
    \A e \in Events :
        /\ replied[e] > 0 => e \in stored
        /\ replied[e] <= num[e] /\ num[e] <= MaxDeliver
        /\ status[e] = "acked" => orderOf[e] = Malformed \/ replied[e] > 0

\* The events of one order take effect in stream order as long as none of them
\* is delivered twice and nobody else writes the row.
NoRetryNoReorder ==
    \A o \in Orders :
        LET E == {e \in Events : orderOf[e] = o} IN
        o \notin touched /\ (\A e \in E : num[e] <= 1) =>
            \/ E \cap stored = {} /\ row[o] = None
            \/ row[o] \in E \cap stored /\ \A e \in E \cap stored : e <= row[o]

\* CDC: a reader that applies the RowChanged events in stream order has the
\* table whenever the thread is at the end of the binlog, replays after a
\* restart and publishes that failed half-way included.
MirrorConverges ==
    phase = "up" /\ cdc = "run" /\ ~Behind => mirror = row

\* Every change of the table is published, those made while the adapter was
\* down, hung or had just lost the bus included: again and again there is none
\* left.
EveryChangePublished == []<>(out = 1 .. Len(binlog))

\* SIGTERM ends the process, whatever the loop and the thread wait for.
StopCompletes == phase = "up" /\ stopping ~> phase = "down"

\* docker-compose.yml: "Compose restarting a crashed container until it
\* succeeds is the chosen mechanism" - a process whose write loop was ended by
\* an exception ends, so that it can be restarted.
CrashedIsRestarted == writer = "dead" /\ phase # "down" ~> phase = "down"

===============================================================================
