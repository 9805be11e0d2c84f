------------------------------ MODULE FileCommands ----------------------------
(***************************************************************************)
(* The command side of the File Storage Adapter                            *)
(* (adapters/file_storage_adapter): the write, read, list and delete       *)
(* handlers, each with a durable consumer and a loop of its own, on a      *)
(* directory others use too, and the entrypoint.  CreateWatch adds the     *)
(* watch, which reads `added` and `marked`.                                *)
(*                                                                         *)
(* A command is a kind and a path.  watch_dir is flat, a command's content *)
(* has one byte, and a file is known by who created it, who wrote it last  *)
(* and its size.  A command is encrypted for the process that runs when it *)
(* is sent; a publish() or an ack cut off half-way has landed or is lost.  *)
(***************************************************************************)
EXTENDS Integers, Sequences, FiniteSets

CONSTANTS
    N,           \* the number of commands
    Workloads,   \* the sequences of commands [kind, path] that are tried
    Paths,       \* the names of files in watch_dir
    Root,        \* watch_dir itself
    Malformed,   \* a payload that does not decode to a path
    Escaping,    \* a path that resolves to somewhere outside watch_dir
    Absent,      \* no file
    Outside,     \* whoever else writes into watch_dir
    MaxDeliver,  \* MAX_DELIVER_ATTEMPTS
    Batch,       \* FETCH_BATCH
    MaxOutside,  \* bound: files created or removed from outside, per path
    MaxStarts    \* bound: starts of the adapter; the last one does not fail

Kinds == {"write", "read", "list", "delete"}
Targets == Paths \cup {Root, Malformed, Escaping}

ASSUME FileAssumption ==
    /\ {N, MaxDeliver, Batch, MaxStarts} \subseteq Nat \ {0} /\ MaxOutside \in Nat
    /\ Workloads \subseteq [1 .. N -> [kind : Kinds, path : Targets]]
    /\ Root # Malformed /\ Root # Escaping /\ Malformed # Escaping
    /\ {Root, Malformed, Escaping} \cap Paths = {}
    /\ Outside \notin 1 .. N
    /\ Absent \notin [born : 1 .. N \cup {Outside}, by : 1 .. N \cup {Outside}, size : {0, 1}]

VARIABLES
    \* the bus
    arrived,  \* commands 1 .. arrived are in the stream
    cmd,      \* cmd[e]: command e
    encFor,   \* encFor[e]: the start of the adapter e was encrypted for
    status,   \* status[e]: the durable's view of e
    num,      \* num[e]: deliveries of e so far
    said,     \* said[e]: the answers published with e as correlation_id
    \* the directory
    file,     \* file[p]: the file at p, or Absent
    did,      \* commands whose content was written, or whose file was deleted
    outside,  \* outside[p]: creations and removals at p by others
    \* the process
    phase,    \* "up" or "down"
    start,    \* its starts so far
    stopping, \* the shutdown event
    loop,     \* loop[k]: "polling" in fetch(), "busy" with a batch, or "done"
    batch,    \* batch[k]: commands run_once() has still to handle
    job,      \* job[k]: the command in _handle(), the await it is at, its answer
    linked,   \* the file the write handler has open is still in the directory
    added,    \* creations the watcher has collected
    marked    \* the paths in RecentWrites

sentVars == <<arrived, cmd, encFor>>
durableVars == <<status, num>>
diskVars == <<file, did, outside>>
loopVars == <<loop, batch, job, linked>>
sharedVars == <<added, marked>>
procVars == <<phase, start, stopping>>
commandVars == <<sentVars, durableVars, said, diskVars, loopVars, sharedVars, procVars>>

Commands == 1 .. N
Writers == Commands \cup {Outside}
Sizes == {0, 1}
File == [born : Writers, by : Writers, size : Sizes]
Idle == [ev |-> 0, at |-> "idle", says |-> "nothing"]
Answers == {"created", "written", "read", "listed", "deleted", "not_found", "not_a_directory"}

Of(k) == {e \in 1 .. arrived : cmd[e].kind = k}
Failing == start < MaxStarts

-------------------------------------------------------------------------------
(* The directory.                                                          *)

\* The watcher collects the creation of a file, not its later changes.
Notice(p) == added' = IF phase = "up" THEN added \cup {p} ELSE added

\* The file that open(p, "wb") by command e leaves: truncated or new.
Opened(p, e) ==
    [born |-> IF file[p] = Absent THEN e ELSE file[p].born, by |-> e, size |-> 0]

\* The file at p is unlinked; a write handler that has it open writes on into
\* a file nobody can see.
Unlink(p) ==
    /\ file' = [file EXCEPT ![p] = Absent]
    /\ linked' = (linked /\ ~(job["write"].at = "write" /\ cmd[job["write"].ev].path = p))

OutsideCreates(p) ==
    /\ file[p] = Absent /\ outside[p] < MaxOutside
    /\ file' = [file EXCEPT ![p] = [born |-> Outside, by |-> Outside, size |-> 0]]
    /\ outside' = [outside EXCEPT ![p] = @ + 1]
    /\ Notice(p)
    /\ UNCHANGED <<sentVars, durableVars, said, did, loopVars, marked, procVars>>

OutsideRemoves(p) ==
    /\ file[p] # Absent /\ outside[p] < MaxOutside
    /\ Unlink(p)
    /\ outside' = [outside EXCEPT ![p] = @ + 1]
    /\ UNCHANGED <<sentVars, durableVars, said, did, loop, batch, job, sharedVars, procVars>>

-------------------------------------------------------------------------------
(* The durable consumers.                                                  *)

Arrive ==
    /\ arrived < N
    /\ arrived' = arrived + 1
    /\ encFor' = [encFor EXCEPT ![arrived + 1] = start]
    /\ UNCHANGED <<cmd, durableVars, said, diskVars, loopVars, sharedVars, procVars>>

\* Delivered again unless max_deliver is reached.
Again(e) == IF num[e] < MaxDeliver THEN "redo" ELSE "dead"

AckWaitExpires(e) ==
    /\ status[e] = "out"
    /\ status' = [status EXCEPT ![e] = Again(e)]
    /\ UNCHANGED <<sentVars, num, said, diskVars, loopVars, sharedVars, procVars>>

Deliverable(k) == {e \in Of(k) : status[e] \in {"new", "redo"}}

InOrder(k, B) ==
    \A e \in B, d \in Deliverable(k) :
        status[e] = "new" /\ status[d] = "new" /\ d < e => d \in B

-------------------------------------------------------------------------------
(* The command loops.                                                      *)

\* run_once() goes on with the batch; after it the loop looks at the shutdown
\* event and, in the same turn, calls fetch() again.
After(left) ==
    IF left # {} THEN "busy" ELSE IF stopping THEN "done" ELSE "polling"

\* fetch() drops, unacked, what it cannot decrypt, whose signature it refuses and
\* whose signing key it fails to look up; or it times out.
Fetch(k, B) ==
    /\ phase = "up" /\ loop[k] = "polling"
    /\ B \subseteq Deliverable(k) /\ Cardinality(B) <= Batch /\ InOrder(k, B)
    /\ \E R \in SUBSET {e \in B : encFor[e] = start} :
          /\ batch' = [batch EXCEPT ![k] = R]
          /\ loop' = [loop EXCEPT ![k] = After(R)]
    /\ status' = [e \in Commands |-> IF e \in B THEN "out" ELSE status[e]]
    /\ num' = [e \in Commands |-> IF e \in B THEN num[e] + 1 ELSE num[e]]
    /\ UNCHANGED <<sentVars, said, diskVars, job, linked, sharedVars, procVars>>

\* Mutant of NextOfBatch: the batch is handled in any order.
AnyOfBatch(k, e) == e \in batch[k]

NextOfBatch(k, e) ==
    /\ e \in batch[k]
    /\ \A d \in batch[k] : num[d] = 1 /\ num[e] = 1 => e <= d

\* _handle() takes e out of the batch.
Taken(k, e) ==
    /\ phase = "up" /\ job[k] = Idle
    /\ NextOfBatch(k, e)
    /\ batch' = [batch EXCEPT ![k] = @ \ {e}]

\* _handle() of e gets as far as the await `at`, with the answer `says`.
Begin(k, e, at, says) ==
    /\ Taken(k, e)
    /\ job' = [job EXCEPT ![k] = [ev |-> e, at |-> at, says |-> says]]
    /\ UNCHANGED <<sentVars, durableVars, said, outside, loop, sharedVars, procVars>>

Decodes(e) == cmd[e].path # Malformed
ResolvesWithin(e) == cmd[e].path # Escaping
Accepted(e) == Decodes(e) /\ ResolvesWithin(e)

\* The payload does not decode or the path escapes: nothing is done but the ack.
TakeBad(k, e) ==
    /\ ~Accepted(e)
    /\ Begin(k, e, "ack", "nothing")
    /\ UNCHANGED <<file, did, linked>>

At(k, step) == phase = "up" /\ job[k].at = step
Path(k) == cmd[job[k].ev].path
Goto(k, step) == job' = [job EXCEPT ![k].at = step]

\* _handle() of the job of k is over and leaves the command as s.
Leave(k, s) ==
    /\ job' = [job EXCEPT ![k] = Idle]
    /\ loop' = [loop EXCEPT ![k] = After(batch[k])]
    /\ status' = [status EXCEPT ![job[k].ev] = s]
    /\ linked' = IF k = "write" THEN TRUE ELSE linked
    /\ UNCHANGED <<sentVars, num, said, diskVars, batch, sharedVars, procVars>>

Naked(e) == IF status[e] = "out" THEN Again(e) ELSE status[e]

\* Mutant of PublishAnswer: the answer is sent twice.
PublishAnswerTwice(k) ==
    /\ At(k, "publish")
    /\ said' = [said EXCEPT ![job[k].ev] = Append(@, job[k].says)]
    /\ job' \in {job, [job EXCEPT ![k].at = "ack"]}
    /\ UNCHANGED <<sentVars, durableVars, diskVars, loop, batch, linked, sharedVars, procVars>>

PublishAnswer(k) ==
    /\ At(k, "publish")
    /\ said' = [said EXCEPT ![job[k].ev] = Append(@, job[k].says)]
    /\ Goto(k, "ack")
    /\ UNCHANGED <<sentVars, durableVars, diskVars, loop, batch, linked, sharedVars, procVars>>

\* The ack is not confirmed: it reaches the server or is lost with a connection.
AckJob(k) ==
    /\ At(k, "ack")
    /\ \E s \in {"acked", status[job[k].ev]} : Leave(k, s)

-------------------------------------------------------------------------------
(* The write handler.                                                      *)

Exists(p) == IF p = Root THEN TRUE ELSE file[p] # Absent
IsFile(p) == p # Root /\ Exists(p)

TakeWrite(e) ==
    /\ Accepted(e)
    /\ Begin("write", e, "open", IF Exists(cmd[e].path) THEN "written" ELSE "created")
    /\ UNCHANGED <<file, did, linked>>

WriteOpens ==
    /\ At("write", "open") /\ Path("write") # Root
    /\ file' = [file EXCEPT ![Path("write")] = Opened(Path("write"), job["write"].ev)]
    /\ IF file[Path("write")] = Absent THEN Notice(Path("write")) ELSE UNCHANGED added
    /\ Goto("write", "write")
    /\ UNCHANGED <<sentVars, durableVars, said, did, outside, loop, batch, linked, marked,
                   procVars>>

\* The content reaches the file the handler has open.
Fill ==
    /\ file' = IF linked THEN [file EXCEPT ![Path("write")].by = job["write"].ev,
                                           ![Path("write")].size = 1]
               ELSE file
    /\ did' = did \cup {job["write"].ev}

WriteFills ==
    /\ At("write", "write")
    /\ Fill
    /\ Goto("write", "mark")
    /\ UNCHANGED <<sentVars, durableVars, said, outside, loop, batch, linked, sharedVars,
                   procVars>>

\* Mutant of WriteFails: the command is given up, as a malformed one is.
WriteFailsAndAcks ==
    /\ At("write", "open") \/ At("write", "write")
    /\ Leave("write", "acked")

\* An OSError of open() or write(), always where the path is a directory: nak().
\* A file that was truncated stays so.
WriteFails ==
    /\ At("write", "open") \/ At("write", "write")
    /\ Leave("write", Naked(job["write"].ev))

\* RecentWrites.mark(), once aiofiles has closed the file.
WriteMarks ==
    /\ At("write", "mark")
    /\ marked' = marked \cup {Path("write")}
    /\ Goto("write", "publish")
    /\ UNCHANGED <<sentVars, durableVars, said, diskVars, loop, batch, linked, added, procVars>>

-------------------------------------------------------------------------------
(* The read, delete and list handlers.                                     *)

TakeRead(e) ==
    /\ Accepted(e)
    /\ IF IsFile(cmd[e].path) THEN Begin("read", e, "read", "read")
       ELSE Begin("read", e, "publish", "not_found")
    /\ UNCHANGED <<file, did, linked>>

\* The file is opened and read later than is_file() looked.
ReadReads ==
    /\ At("read", "read") /\ Exists(Path("read"))
    /\ Goto("read", "publish")
    /\ UNCHANGED <<sentVars, durableVars, said, diskVars, loop, batch, linked, sharedVars,
                   procVars>>

\* An OSError, always when the file is gone by now: nak().
ReadFails ==
    /\ At("read", "read")
    /\ Leave("read", Naked(job["read"].ev))

\* is_file() and unlink() happen in one turn of the event loop.
TakeDelete(e) ==
    /\ Accepted(e)
    /\ \/ /\ IsFile(cmd[e].path)
          /\ Unlink(cmd[e].path)
          /\ did' = did \cup {e}
          /\ Begin("delete", e, "publish", "deleted")
       \/ /\ ~IsFile(cmd[e].path)
          /\ Begin("delete", e, "publish", "not_found")
          /\ UNCHANGED <<file, did, linked>>

TakeList(e) ==
    /\ Accepted(e)
    /\ Begin("list", e, "publish",
             IF ~Exists(cmd[e].path) THEN "not_found"
             ELSE IF cmd[e].path # Root THEN "not_a_directory" ELSE "listed")
    /\ UNCHANGED <<file, did, linked>>

\* An OSError of unlink() or of the listing, in the turn that takes e: nak().
TakeFails(k, e) ==
    /\ Accepted(e)
    /\ \/ k = "delete" /\ IsFile(cmd[e].path)
       \/ k = "list" /\ cmd[e].path = Root
    /\ Taken(k, e)
    /\ loop' = [loop EXCEPT ![k] = After(batch'[k])]
    /\ status' = [status EXCEPT ![e] = Naked(e)]
    /\ UNCHANGED <<sentVars, num, said, diskVars, job, linked, sharedVars, procVars>>

-------------------------------------------------------------------------------
(* The entrypoint.                                                         *)

Sigterm ==
    /\ Failing
    /\ phase = "up" /\ ~stopping
    /\ stopping' = TRUE
    /\ UNCHANGED <<sentVars, durableVars, said, diskVars, loopVars, sharedVars, phase, start>>

\* gather() returns when its parts have.
Exit ==
    /\ phase = "up" /\ \A k \in Kinds : loop[k] = "done"
    /\ phase' = "down"
    /\ added' = {} /\ marked' = {}
    /\ UNCHANGED <<sentVars, durableVars, said, diskVars, loopVars, start, stopping>>

\* The operation the write handler had given to a thread has its effect or not.
MaybeWritten ==
    \/ UNCHANGED <<file, did>>
    \/ /\ job["write"].at = "open" /\ Path("write") # Root
       /\ file' = [file EXCEPT ![Path("write")] = Opened(Path("write"), job["write"].ev)]
       /\ UNCHANGED did
    \/ job["write"].at = "write" /\ Fill

\* The process is killed, or a part of gather() raises what it does not catch
\* (fetch(), publish(), ack()): main() closes the client and the process ends.
\* What was being published has landed or is lost.
Crash ==
    /\ Failing
    /\ phase = "up"
    /\ phase' = "down"
    /\ \E L \in SUBSET {job[k].ev : k \in {j \in Kinds : job[j].at = "publish"}} :
          said' = [e \in Commands |->
              IF e \in L THEN Append(said[e], job[cmd[e].kind].says) ELSE said[e]]
    /\ MaybeWritten
    /\ loop' = [k \in Kinds |-> "done"] /\ batch' = [k \in Kinds |-> {}]
    /\ job' = [k \in Kinds |-> Idle] /\ linked' = TRUE
    /\ added' = {} /\ marked' = {}
    /\ UNCHANGED <<sentVars, durableVars, outside, start, stopping>>

\* main(): a fresh key, the four durables of before, an empty RecentWrites.
StartProcess ==
    /\ phase = "down" /\ start < MaxStarts
    /\ phase' = "up" /\ start' = start + 1 /\ stopping' = FALSE
    /\ loop' = [k \in Kinds |-> "polling"]
    /\ UNCHANGED <<sentVars, durableVars, said, diskVars, batch, job, linked, sharedVars>>

-------------------------------------------------------------------------------
CommandInit ==
    /\ arrived = 0
    /\ cmd \in Workloads
    /\ encFor = [e \in Commands |-> 0]
    /\ status = [e \in Commands |-> "new"]
    /\ num = [e \in Commands |-> 0]
    /\ said = [e \in Commands |-> <<>>]
    /\ file = [p \in Paths |-> Absent] /\ did = {} /\ outside = [p \in Paths |-> 0]
    /\ phase = "down" /\ start = 0 /\ stopping = FALSE
    /\ loop = [k \in Kinds |-> "done"] /\ batch = [k \in Kinds |-> {}]
    /\ job = [k \in Kinds |-> Idle] /\ linked = TRUE
    /\ added = {} /\ marked = {}

FetchStep(k) == \E B \in SUBSET Of(k) : Fetch(k, B)

\* A step of the handler of k.
HandlerStep(k) ==
    \/ \E e \in batch[k] :
          \/ TakeBad(k, e)
          \/ TakeFails(k, e)
          \/ k = "write" /\ TakeWrite(e)
          \/ k = "read" /\ TakeRead(e)
          \/ k = "delete" /\ TakeDelete(e)
          \/ k = "list" /\ TakeList(e)
    \/ k = "write" /\ (WriteOpens \/ WriteFills \/ WriteFails \/ WriteMarks)
    \/ k = "read" /\ (ReadReads \/ ReadFails)
    \/ PublishAnswer(k)
    \/ AckJob(k)

LoopStep == \E k \in Kinds : FetchStep(k) \/ HandlerStep(k)

CommandStep ==
    \/ LoopStep
    \/ Arrive
    \/ \E e \in Commands : AckWaitExpires(e)
    \/ \E p \in Paths : OutsideCreates(p) \/ OutsideRemoves(p)
    \/ Sigterm

CommandNext == CommandStep \/ Exit \/ Crash \/ StartProcess

CommandSpec == CommandInit /\ [][CommandNext]_commandVars

-------------------------------------------------------------------------------
(* Properties.                                                             *)

\* The values every variable keeps to.
CommandTypeOK ==
    /\ arrived \in 0 .. N
    /\ cmd \in [Commands -> [kind : Kinds, path : Targets]]
    /\ encFor \in [Commands -> 0 .. MaxStarts]
    /\ status \in [Commands -> {"new", "out", "redo", "acked", "dead"}]
    /\ num \in [Commands -> 0 .. MaxDeliver]
    /\ said \in [Commands -> Seq(Answers)]
    /\ file \in [Paths -> File \cup {Absent}]
    /\ did \subseteq Commands
    /\ outside \in [Paths -> 0 .. MaxOutside]
    /\ phase \in {"up", "down"} /\ start \in 0 .. MaxStarts /\ stopping \in BOOLEAN
    /\ loop \in [Kinds -> {"polling", "busy", "done"}]
    /\ batch \in [Kinds -> SUBSET Commands]
    /\ job \in [Kinds -> {Idle} \cup [ev : Commands, says : Answers \cup {"nothing"},
                    at : {"open", "write", "mark", "read", "publish", "ack"}]]
    /\ linked \in BOOLEAN
    /\ added \subseteq Paths /\ marked \subseteq Paths

\* Whatever fails, is cut off, lost or redelivered on the way, an answer is
\* true when it is sent - a FileCreateCompleted or FileWriteCompleted has its
\* content written, a FileDeleteCompleted its file unlinked - a command gets at
\* most one answer per delivery, and is acked only with an answer, unless it is
\* malformed.  Only a delete that is delivered twice can have deleted the file
\* and answer that there was none.
AnswersAreTrue ==
    \A e \in Commands :
        /\ \A i \in 1 .. Len(said[e]) :
              said[e][i] \in {"created", "written", "deleted"} => e \in did
        /\ Len(said[e]) <= num[e]
        /\ status[e] = "acked" => ~Accepted(e) \/ said[e] # <<>>
        /\ e \in did /\ num[e] = 1 =>
              \A i \in 1 .. Len(said[e]) : said[e][i] # "not_found"

\* A file that a command truncated and did not fill belongs to a command that
\* is not acked: the failure is retried until max_deliver, never taken for done.
AckedLeavesWhole ==
    \A p \in Paths :
        file[p] # Absent /\ file[p].by \in Commands /\ file[p].size = 0
            => status[file[p].by] # "acked"

\* Only the write handler works on p, and no write of p is delivered twice.
WriterAlone(p) ==
    /\ outside[p] = 0
    /\ \A e \in 1 .. arrived : cmd[e].path = p => cmd[e].kind # "delete" /\ num[e] <= 1

\* Where nothing else touches the path and nothing is redelivered, the writes
\* of one path take effect in stream order: what an earlier one wrote never
\* replaces a later one's, though a later one that fails may leave the file
\* truncated; and exactly the one that created the file is told so.
WritesInOrder ==
    \A p \in Paths, e \in Of("write") : WriterAlone(p) /\ cmd[e].path = p =>
        /\ e \in did => file[p] # Absent /\ e <= file[p].by
        /\ \A i \in 1 .. Len(said[e]) : (said[e][i] = "created") = (file[p].born = e)

===============================================================================
