--------------------------- MODULE FileStorageProofs --------------------------
(***************************************************************************)
(* Proofs about the File Storage Adapter: FileCommands by itself, and with *)
(* the watch of CreateWatch beside it, for any number of commands, paths   *)
(* and bounds.                                                             *)
(*                                                                         *)
(* The inductive invariant CommandIInv:                                    *)
(*   BusInv: a command is "new" until it is delivered, and the new         *)
(*   commands of one kind are delivered in stream order.                   *)
(*   JobInv: for each loop, what is in its batch and in _handle() is of    *)
(*   its kind, not acked, and has a delivery to its name that was not      *)
(*   answered yet; _handle() gets to an await only with what comes before  *)
(*   it done.                                                              *)
(*   FileInv: a file is known to be whose it is, what the write handler    *)
(*   has open is in the directory unless somebody unlinked it, and what it *)
(*   has closed is whole.                                                  *)
(*   OrderInv: WritesInOrder, and the commands that are still to be        *)
(*   written to a path are later than the one in the file.                 *)
(***************************************************************************)
EXTENDS CreateWatch, SequenceTheorems, TLAPS

BusInv ==
    /\ \A e \in Commands :
          /\ e > arrived => status[e] = "new"
          /\ status[e] = "new" => num[e] = 0
          /\ num[e] = 0 => status[e] = "new"
          /\ status[e] = "redo" => num[e] < MaxDeliver
    /\ \A d, e \in Commands :
          cmd[d].kind = cmd[e].kind /\ num[d] > 0 /\ num[e] = 0 => d < e

Unanswered(e) == Len(said[e]) < num[e] /\ status[e] # "acked"

LoopInv(k) ==
    /\ phase = "down" => loop[k] # "busy"
    /\ loop[k] # "busy" => batch[k] = {} /\ job[k] = Idle
    /\ job[k].ev \notin batch[k]
    /\ \A e \in batch[k] : cmd[e].kind = k /\ Unanswered(e) /\ (num[e] = 1 => e \notin did)

\* What holds of command e in _handle() of kind k, at an await, with an answer.
AtInv(k, e, at, says) ==
    /\ cmd[e].kind = k /\ status[e] # "acked" /\ num[e] > 0
    /\ at \in {"open", "write", "mark"} => k = "write"
    /\ at = "read" => k = "read" /\ says = "read"
    /\ at # "ack" => Accepted(e) /\ Unanswered(e)
    /\ at # "ack" /\ k = "write" => says \in {"created", "written"}
    /\ at \in {"write", "mark"} => cmd[e].path # Root
    /\ at = "mark" => e \in did
    /\ at = "publish" =>
          /\ says \in Answers
          /\ says \in {"created", "written", "deleted"} => e \in did
          /\ says = "not_found" /\ num[e] = 1 => e \notin did
    /\ at = "ack" => ~Accepted(e) \/ said[e] # <<>>

JobInv ==
    \A k \in Kinds :
        LoopInv(k) /\ (job[k] # Idle => AtInv(k, job[k].ev, job[k].at, job[k].says))

DidInv == \A e \in did : num[e] > 0

Owned(p) ==
    file[p] # Absent /\ file[p].by \in Commands =>
        /\ cmd[file[p].by].kind = "write" /\ cmd[file[p].by].path = p
        /\ num[file[p].by] > 0
        /\ file[p].size = 0 => status[file[p].by] # "acked"

FileInv ==
    /\ \A p \in Paths : Owned(p)
    /\ ~linked => job["write"].at \in {"write", "mark", "publish", "ack"}
    /\ job["write"].at = "write" =>
          IF linked THEN file[Path("write")] # Absent
          ELSE file[Path("write")] = Absent \/ file[Path("write")].by # job["write"].ev
    /\ job["write"].at \in {"mark", "publish", "ack"} =>
          \A p \in Paths : file[p] # Absent /\ file[p].by = job["write"].ev => file[p].size = 1

WritesOf(p) == {e \in Commands : cmd[e].kind = "write" /\ cmd[e].path = p}

PathCore(p) ==
    /\ file[p] # Absent =>
          file[p].born \in Commands /\ file[p].by \in Commands /\ file[p].born <= file[p].by
    /\ \A e \in WritesOf(p) :
          /\ e \in did => file[p] # Absent /\ e <= file[p].by
          /\ \A i \in 1 .. Len(said[e]) :
                file[p] # Absent /\ (said[e][i] = "created") = (file[p].born = e)

PathBatch(p) ==
    \A e \in WritesOf(p) : e \in batch["write"] =>
        /\ file[p] # Absent => file[p].by < e
        /\ job["write"].ev \in WritesOf(p) => job["write"].ev < e

PathJob(p) ==
    job["write"].ev \in WritesOf(p) =>
        /\ job["write"].at = "open" =>
              /\ file[p] # Absent => file[p].by < job["write"].ev
              /\ (job["write"].says = "created") = (file[p] = Absent)
        /\ job["write"].at \in {"write", "mark", "publish"} =>
              /\ file[p] # Absent /\ file[p].by = job["write"].ev
              /\ (job["write"].says = "created") = (file[p].born = job["write"].ev)
        /\ job["write"].at = "write" => linked

PathInv(p) == PathCore(p) /\ PathBatch(p) /\ PathJob(p)

OrderInv == \A p \in Paths : WriterAlone(p) => PathInv(p)

CommandIInv ==
    CommandTypeOK /\ BusInv /\ JobInv /\ DidInv /\ FileInv /\ AnswersAreTrue /\ OrderInv

Handled == [ev : Commands, says : Answers \cup {"nothing"},
            at : {"open", "write", "mark", "read", "publish", "ack"}]

-------------------------------------------------------------------------------
(* Shapes.                                                                 *)

LEMMA CommandsAreNat == 0 \notin Commands /\ Commands \subseteq Nat \ {0}
  BY FileAssumption DEF Commands

LEMMA KindsShape ==
  /\ "write" \in Kinds /\ "read" \in Kinds /\ "list" \in Kinds /\ "delete" \in Kinds
  /\ \A k \in Kinds : k \in {"write", "read", "list", "delete"}
  BY DEF Kinds

LEMMA JobShape ==
  ASSUME CommandTypeOK, NEW k \in Kinds
  PROVE  /\ job[k] = Idle \/ job[k] \in Handled
         /\ job[k] # Idle <=> job[k] \in Handled
         /\ job[k] # Idle <=> job[k].ev \in Commands
         /\ job[k] = Idle => job[k].ev = 0 /\ job[k].at = "idle"
         /\ job[k] \in Handled =>
               /\ job[k].ev \in Commands
               /\ job[k].at \in {"open", "write", "mark", "read", "publish", "ack"}
               /\ job[k].says \in Answers \cup {"nothing"}
         /\ job[k].at = "idle" => job[k] = Idle
  <1>1. job[k] = Idle \/ job[k] \in Handled
    BY DEF CommandTypeOK, Handled
  <1>2. Idle.ev = 0 /\ Idle.at = "idle"
    BY DEF Idle
  <1>3. ASSUME NEW j \in Handled
        PROVE  /\ j.ev \in Commands
               /\ j.at \in {"open", "write", "mark", "read", "publish", "ack"}
               /\ j.says \in Answers \cup {"nothing"}
    BY DEF Handled
  <1> QED BY <1>1, <1>2, <1>3, CommandsAreNat

LEMMA AcceptedPath ==
  ASSUME CommandTypeOK, NEW e \in Commands
  PROVE  /\ Accepted(e) /\ cmd[e].path # Root => cmd[e].path \in Paths
         /\ cmd[e].path \in Paths => Accepted(e) /\ cmd[e].path # Root
         /\ cmd[e].kind \in Kinds
  <1>1. cmd[e].path \in Targets /\ cmd[e].kind \in Kinds
    BY DEF CommandTypeOK
  <1> QED BY <1>1, FileAssumption DEF Targets, Accepted, Decodes, ResolvesWithin

\* The state of the command in _handle(), from JobInv.
LEMMA AtJob ==
  ASSUME CommandIInv, NEW k \in Kinds, job[k].at # "idle"
  PROVE  job[k] \in Handled /\ job[k].ev \in Commands /\ AtInv(k, job[k].ev, job[k].at, job[k].says)
  BY JobShape DEF CommandIInv, JobInv

LEMMA FileShape ==
  ASSUME CommandTypeOK, NEW p \in Paths
  PROVE  /\ file[p] # Absent => file[p] \in File
         /\ file[p] # Absent =>
               file[p].born \in Writers /\ file[p].by \in Writers /\ file[p].size \in {0, 1}
  BY DEF CommandTypeOK, File, Sizes

LEMMA OpenedShape ==
  ASSUME CommandTypeOK, NEW p \in Paths, NEW e \in Commands
  PROVE  /\ Opened(p, e) \in File /\ Opened(p, e) # Absent
         /\ Opened(p, e).by = e /\ Opened(p, e).size = 0
         /\ file[p] = Absent => Opened(p, e).born = e
         /\ file[p] # Absent => Opened(p, e).born = file[p].born
  <1>1. Absent \notin File
    BY FileAssumption DEF File, Writers, Commands, Sizes
  <1>2. (IF file[p] = Absent THEN e ELSE file[p].born) \in Writers /\ e \in Writers /\ 0 \in Sizes
    BY FileShape DEF Writers, Sizes
  <1>3. Opened(p, e) \in File
    BY <1>2 DEF Opened, File
  <1> QED BY <1>1, <1>3 DEF Opened

\* What Fill does to a file that is in the directory.
Filled(p, w, s) == [file EXCEPT ![p].by = w, ![p].size = s]

LEMMA FillShape ==
  ASSUME CommandTypeOK, NEW p \in Paths, NEW w \in Writers, NEW s \in Sizes, file[p] # Absent,
         file' = Filled(p, w, s)
  PROVE  /\ file' \in [Paths -> File \cup {Absent}]
         /\ \A q \in Paths : q # p => file'[q] = file[q]
         /\ file'[p] \in File /\ file'[p] # Absent
         /\ file'[p].born = file[p].born /\ file'[p].by = w /\ file'[p].size = s
  <1> DEFINE x == [file[p] EXCEPT !.by = w]
             y == [x EXCEPT !.size = s]
             f == [file EXCEPT ![p] = x]
  <1>1. file[p] \in File
    BY FileShape
  <1>2. x \in File /\ x.born = file[p].born /\ x.by = w
    BY <1>1 DEF File
  <1>3. y \in File /\ y.born = x.born /\ y.by = x.by /\ y.size = s
    <2> HIDE DEF x
    <2> QED BY <1>2 DEF File
  <1>4. f \in [Paths -> File \cup {Absent}] /\ f[p] = x /\ \A q \in Paths : q # p => f[q] = file[q]
    BY <1>2 DEF CommandTypeOK
  <1>5. file' = [f EXCEPT ![p] = [f[p] EXCEPT !.size = s]]
    BY DEF Filled
  <1>6. Absent \notin File
    BY FileAssumption DEF File, Writers, Commands, Sizes
  <1> HIDE DEF f
  <1>7. file' = [f EXCEPT ![p] = y]
    BY <1>4, <1>5
  <1> HIDE DEF x, y
  <1> QED BY <1>2, <1>3, <1>4, <1>6, <1>7

-------------------------------------------------------------------------------
(* The parts of a step.                                                    *)

\* A step of the handler of kind k on command e leaves the other loops what they
\* have.
LEMMA JobStep ==
  ASSUME CommandIInv, NEW k \in Kinds, NEW e \in Commands, cmd[e].kind = k,
         UNCHANGED <<cmd, num, phase>>,
         \A d \in Commands : d # e =>
            status'[d] = status[d] /\ said'[d] = said[d] /\ (d \in did' <=> d \in did),
         \A j \in Kinds : j # k =>
            job'[j] = job[j] /\ batch'[j] = batch[j] /\ loop'[j] = loop[j],
         LoopInv(k)',
         job'[k] # Idle => AtInv(k, job[k].ev, job[k].at, job[k].says)'
  PROVE  JobInv'
  <1> SUFFICES ASSUME NEW j \in Kinds, j # k
               PROVE  /\ LoopInv(j)'
                      /\ job'[j] # Idle => AtInv(j, job[j].ev, job[j].at, job[j].says)'
    BY DEF JobInv
  <1>1. LoopInv(j)'
    <2>1. LoopInv(j) /\ batch[j] \subseteq Commands
      BY DEF CommandIInv, JobInv, CommandTypeOK
    <2>2. \A d \in batch[j] : d # e
      BY <2>1 DEF LoopInv
    <2> QED BY <2>1, <2>2 DEF LoopInv, Unanswered
  <1>2. ASSUME job[j] # Idle PROVE AtInv(j, job[j].ev, job[j].at, job[j].says)'
    <2>1. job[j].ev \in Commands /\ AtInv(j, job[j].ev, job[j].at, job[j].says)
      BY <1>2, JobShape DEF CommandIInv, JobInv
    <2>2. job[j].ev # e
      BY <2>1 DEF AtInv
    <2> QED BY <2>1, <2>2 DEF AtInv, Unanswered, Accepted, Decodes, ResolvesWithin
  <1> QED BY <1>1, <1>2

\* What is published is the answer of a command in _handle().
LEMMA AnswersStep ==
  ASSUME CommandIInv, UNCHANGED <<cmd, num>>,
         \A e \in Commands : said'[e] = said[e] \/
            \E k \in Kinds : /\ job[k].at = "publish" /\ job[k].ev = e
                             /\ said'[e] = Append(said[e], job[k].says),
         did \subseteq did',
         \A e \in Commands : e \in did' => e \in did \/ (Unanswered(e) /\ said'[e] = said[e]),
         \A e \in Commands : status'[e] = "acked" =>
            status[e] = "acked" \/ ~Accepted(e) \/ said[e] # <<>>
  PROVE  /\ AnswersAreTrue'
         /\ \A e \in Commands : said'[e] \in Seq(Answers) /\ Len(said'[e]) >= Len(said[e])
  <1> SUFFICES ASSUME NEW e \in Commands
               PROVE  /\ said'[e] \in Seq(Answers) /\ Len(said'[e]) >= Len(said[e])
                      /\ \A i \in 1 .. Len(said'[e]) :
                            said'[e][i] \in {"created", "written", "deleted"} => e \in did'
                      /\ Len(said'[e]) <= num[e]
                      /\ status'[e] = "acked" => ~Accepted(e)' \/ said'[e] # <<>>
                      /\ e \in did' /\ num[e] = 1 =>
                            \A i \in 1 .. Len(said'[e]) : said'[e][i] # "not_found"
    BY DEF AnswersAreTrue
  <1>1. Accepted(e)' = Accepted(e)
    BY DEF Accepted, Decodes, ResolvesWithin
  <1>2. said[e] \in Seq(Answers) /\ Len(said[e]) \in Nat /\ num[e] \in Nat
    BY FileAssumption DEF CommandIInv, CommandTypeOK
  <1>3. /\ \A i \in 1 .. Len(said[e]) :
              said[e][i] \in {"created", "written", "deleted"} => e \in did
        /\ Len(said[e]) <= num[e]
        /\ status[e] = "acked" => ~Accepted(e) \/ said[e] # <<>>
        /\ e \in did /\ num[e] = 1 =>
              \A i \in 1 .. Len(said[e]) : said[e][i] # "not_found"
    BY DEF CommandIInv, AnswersAreTrue
  <1>4. CASE said'[e] = said[e]
    <2>1. e \in did' /\ num[e] = 1 =>
            \A i \in 1 .. Len(said[e]) : said[e][i] # "not_found"
      <3>1. CASE e \in did
        BY <3>1, <1>3
      <3>2. CASE Unanswered(e)
        BY <3>2, <1>2 DEF Unanswered
      <3> QED BY <3>1, <3>2
    <2> QED BY <1>1, <1>2, <1>3, <1>4, <2>1
  <1>5. ASSUME NEW k \in Kinds, job[k].at = "publish", job[k].ev = e,
               said'[e] = Append(said[e], job[k].says)
        PROVE  /\ said'[e] \in Seq(Answers) /\ Len(said'[e]) >= Len(said[e])
               /\ \A i \in 1 .. Len(said'[e]) :
                     said'[e][i] \in {"created", "written", "deleted"} => e \in did'
               /\ Len(said'[e]) <= num[e]
               /\ status'[e] = "acked" => ~Accepted(e)' \/ said'[e] # <<>>
               /\ e \in did' /\ num[e] = 1 =>
                     \A i \in 1 .. Len(said'[e]) : said'[e][i] # "not_found"
    <2> DEFINE a == job[k].says
    <2>1. AtInv(k, e, "publish", a)
      BY <1>5, AtJob
    <2>2. /\ a \in Answers /\ Unanswered(e)
          /\ a \in {"created", "written", "deleted"} => e \in did
          /\ a = "not_found" /\ num[e] = 1 => e \notin did
      BY <2>1 DEF AtInv
    <2> HIDE DEF a
    <2>3. /\ said'[e] \in Seq(Answers) /\ Len(said'[e]) = Len(said[e]) + 1
          /\ said'[e][Len(said[e]) + 1] = a
          /\ \A i \in 1 .. Len(said[e]) : said'[e][i] = said[e][i]
      BY <1>2, <1>5, <2>2 DEF a
    <2>4. \A i \in 1 .. Len(said'[e]) : i \in 1 .. Len(said[e]) \/ i = Len(said[e]) + 1
      BY <1>2, <2>3
    <2>5. said'[e] # <<>> /\ said'[e] # said[e]
      BY <1>2, <2>3
    <2>6. e \in did' => e \in did
      BY <2>5
    <2>7. Len(said'[e]) <= num[e]
      BY <1>2, <2>2, <2>3 DEF Unanswered
    <2>8. Len(said'[e]) >= Len(said[e])
      BY <1>2, <2>3
    <2> QED BY <1>3, <2>2, <2>3, <2>4, <2>5, <2>6, <2>7, <2>8
  <1> QED BY <1>4, <1>5

LEMMA FileFrame ==
  ASSUME CommandIInv, CommandTypeOK', UNCHANGED <<cmd, file>>,
         \A e \in Commands : num[e] > 0 => num'[e] > 0,
         \A e \in Commands : status'[e] = "acked" =>
            \/ status[e] = "acked"
            \/ \A p \in Paths : file[p] # Absent /\ file[p].by = e => file[p].size = 1,
         \/ linked' = linked /\ job'["write"] = job["write"]
         \/ linked' /\ job'["write"].at \in {"idle", "open"}
         \/ /\ linked' = linked /\ job'["write"].ev = job["write"].ev
            /\ job["write"].at \in {"mark", "publish"} /\ job'["write"].at \in {"publish", "ack"}
         \/ /\ linked' /\ job'["write"].ev \in Commands /\ ~Accepted(job'["write"].ev)
            /\ job'["write"].at = "ack"
  PROVE  FileInv'
  <1> USE DEF CommandIInv
  <1>1. \A p \in Paths : Owned(p)'
    <2> SUFFICES ASSUME NEW p \in Paths, file[p] # Absent, file[p].by \in Commands
                 PROVE  /\ cmd[file[p].by].kind = "write" /\ cmd[file[p].by].path = p
                        /\ num'[file[p].by] > 0
                        /\ file[p].size = 0 => status'[file[p].by] # "acked"
      BY DEF Owned
    <2>1. /\ cmd[file[p].by].kind = "write" /\ cmd[file[p].by].path = p
          /\ num[file[p].by] > 0
          /\ file[p].size = 0 => status[file[p].by] # "acked"
      BY DEF FileInv, Owned
    <2> QED BY <2>1
  <1>2. \A p \in Paths : file[p] # Absent /\ file[p].by \in Commands => Accepted(file[p].by)
    BY AcceptedPath DEF FileInv, Owned
  <1> QED BY <1>1, <1>2 DEF FileInv, Path

\* A path with one writer has had one all along.
LEMMA AloneBefore ==
  ASSUME CommandTypeOK, CommandTypeOK', NEW p \in Paths, UNCHANGED cmd,
         outside'[p] >= outside[p], arrived' >= arrived,
         \A e \in Commands : num'[e] >= num[e],
         WriterAlone(p)'
  PROVE  WriterAlone(p)
  <1>1. outside[p] \in Nat /\ outside'[p] \in Nat
    BY FileAssumption DEF CommandTypeOK
  <1>2. arrived \in 0 .. N /\ arrived' \in 0 .. N
    BY DEF CommandTypeOK
  <1>3. \A e \in 1 .. arrived : e \in 1 .. arrived' /\ e \in Commands
    BY <1>2, FileAssumption DEF Commands
  <1>4. \A e \in Commands : num[e] \in Nat /\ num'[e] \in Nat
    BY FileAssumption DEF CommandTypeOK
  <1>5. outside[p] = 0
    BY <1>1 DEF WriterAlone
  <1>6. \A e \in 1 .. arrived : cmd[e].path = p => cmd[e].kind # "delete" /\ num[e] <= 1
    BY <1>3, <1>4 DEF WriterAlone
  <1> QED BY <1>5, <1>6 DEF WriterAlone

\* What is delivered has arrived, so a path with one writer shows it once.
LEMMA AloneOnce ==
  ASSUME CommandIInv, NEW p \in Paths, WriterAlone(p), NEW e \in Commands, num[e] > 0,
         cmd[e].path = p
  PROVE  num[e] = 1 /\ cmd[e].kind # "delete"
  <1>1. num[e] \in Nat /\ status[e] # "new"
    BY FileAssumption DEF CommandIInv, CommandTypeOK, BusInv
  <1>2. ~(e > arrived)
    BY <1>1 DEF CommandIInv, BusInv
  <1>3. e \in 1 .. arrived
    BY <1>2, FileAssumption DEF Commands, CommandIInv, CommandTypeOK
  <1> QED BY <1>1, <1>3 DEF WriterAlone

\* A step that does nothing to the paths with one writer, except that their
\* write handler may go on after the file is closed, or be done.
LEMMA OrderFrame ==
  ASSUME CommandIInv, UNCHANGED cmd,
         \A p \in Paths : WriterAlone(p)' => WriterAlone(p) /\ file'[p] = file[p],
         \A e \in Commands : cmd[e].kind = "write" =>
            said'[e] = said[e] /\ (e \in did' => e \in did),
         \/ batch'["write"] \subseteq batch["write"]
         \/ \A p \in Paths : WriterAlone(p)' => PathBatch(p)',
         \/ /\ job'["write"] = job["write"]
            /\ job["write"].at = "write" => linked' = linked \/ ~WriterAlone(Path("write"))'
         \/ /\ job'["write"].ev = job["write"].ev /\ job'["write"].says = job["write"].says
            /\ job'["write"].at \in {"publish", "ack"}
            /\ job["write"].at \in {"mark", "publish"} \/ job'["write"].at = "ack"
         \/ \A p \in Paths : job'["write"].ev \notin WritesOf(p)
  PROVE  OrderInv'
  <1> SUFFICES ASSUME NEW p \in Paths, WriterAlone(p)' PROVE PathInv(p)'
    BY DEF OrderInv
  <1>1. WriterAlone(p) /\ file'[p] = file[p] /\ PathInv(p)
    BY DEF CommandIInv, OrderInv
  <1>2. WritesOf(p)' = WritesOf(p) /\ WritesOf(p) \subseteq Commands
    BY DEF WritesOf
  <1>3. PathCore(p)'
    BY <1>1, <1>2 DEF PathInv, PathCore, WritesOf
  <1>4. PathBatch(p)'
    BY <1>1, <1>2 DEF PathInv, PathBatch
  <1>5. PathJob(p)'
    <2>1. CASE /\ job'["write"] = job["write"]
               /\ job["write"].at = "write" => linked' = linked \/ ~WriterAlone(Path("write"))'
      <3>1. job["write"].ev \in WritesOf(p) => Path("write") = p /\ Path("write")' = p
        BY <2>1 DEF WritesOf, Path
      <3>2. job["write"].ev \in WritesOf(p) /\ job["write"].at = "write" => linked' = linked
        BY <2>1, <3>1
      <3> QED BY <1>1, <1>2, <2>1, <3>2 DEF PathInv, PathJob
    <2>2. CASE /\ job'["write"].ev = job["write"].ev /\ job'["write"].says = job["write"].says
               /\ job'["write"].at \in {"publish", "ack"}
               /\ job["write"].at \in {"mark", "publish"} \/ job'["write"].at = "ack"
      BY <1>1, <1>2, <2>2 DEF PathInv, PathJob
    <2>3. CASE \A q \in Paths : job'["write"].ev \notin WritesOf(q)
      BY <1>2, <2>3 DEF PathJob
    <2> QED BY <2>1, <2>2, <2>3
  <1> QED BY <1>3, <1>4, <1>5 DEF PathInv

\* A step of the entrypoint or of the watch that only moves the loops.
LEMMA QuietIInv ==
  ASSUME CommandIInv, CommandTypeOK',
         UNCHANGED <<sentVars, durableVars, said, diskVars, batch, job, linked>>,
         \A k \in Kinds :
            /\ phase' = "down" => loop'[k] # "busy"
            /\ loop'[k] # "busy" => batch[k] = {} /\ job[k] = Idle
  PROVE  CommandIInv'
  <1> USE DEF CommandIInv, sentVars, durableVars, diskVars
  <1>1. BusInv' /\ DidInv' /\ AnswersAreTrue'
    BY DEF BusInv, DidInv, AnswersAreTrue, Accepted, Decodes, ResolvesWithin
  <1>2. JobInv'
    BY DEF JobInv, LoopInv, AtInv, Unanswered, Accepted, Decodes, ResolvesWithin
  <1>3. FileInv'
    BY FileFrame
  <1>4. \A p \in Paths : WriterAlone(p)' => WriterAlone(p)
    BY DEF WriterAlone
  <1>5. OrderInv'
    BY <1>4, OrderFrame
  <1> QED BY <1>1, <1>2, <1>3, <1>5

LEMMA SigtermIInv == ASSUME CommandIInv, Sigterm PROVE CommandIInv'
  <1>1. CommandTypeOK'
    BY DEF CommandIInv, CommandTypeOK, Sigterm, sentVars, durableVars, diskVars, loopVars, sharedVars
  <1>2. \A k \in Kinds : LoopInv(k)
    BY DEF CommandIInv, JobInv
  <1> QED BY <1>1, <1>2, QuietIInv DEF Sigterm, LoopInv, loopVars

LEMMA ExitIInv == ASSUME CommandIInv, Exit PROVE CommandIInv'
  <1>1. CommandTypeOK'
    BY DEF CommandIInv, CommandTypeOK, Exit, sentVars, durableVars, diskVars, loopVars
  <1>2. \A k \in Kinds : LoopInv(k)
    BY DEF CommandIInv, JobInv
  <1> QED BY <1>1, <1>2, QuietIInv DEF Exit, LoopInv, loopVars

LEMMA StartProcessIInv == ASSUME CommandIInv, StartProcess PROVE CommandIInv'
  <1>1. CommandTypeOK'
    <2>1. start' \in 0 .. MaxStarts
      BY FileAssumption DEF CommandIInv, CommandTypeOK, StartProcess
    <2>2. loop' \in [Kinds -> {"polling", "busy", "done"}]
      BY DEF StartProcess
    <2> QED BY <2>1, <2>2 DEF CommandIInv, CommandTypeOK, StartProcess, sentVars, durableVars, diskVars,
                              sharedVars
  <1>2. \A k \in Kinds : LoopInv(k)
    BY DEF CommandIInv, JobInv
  <1> QED BY <1>1, <1>2, QuietIInv DEF StartProcess, LoopInv

-------------------------------------------------------------------------------
(* The durable consumers.                                                  *)

LEMMA ArriveIInv == ASSUME CommandIInv, Arrive PROVE CommandIInv'
  <1> USE DEF CommandIInv
  <1>1. /\ arrived' = arrived + 1 /\ arrived < N
        /\ UNCHANGED <<cmd, durableVars, said, diskVars, loopVars, sharedVars, procVars>>
    BY DEF Arrive
  <1>2. arrived \in 0 .. N /\ arrived + 1 \in 0 .. N /\ arrived + 1 \in Commands
    BY <1>1, FileAssumption DEF CommandTypeOK, Commands
  <1>3. CommandTypeOK'
    <2>1. encFor' \in [Commands -> 0 .. MaxStarts]
      BY <1>2 DEF CommandTypeOK, Arrive
    <2> QED BY <1>1, <1>2, <2>1 DEF CommandTypeOK, durableVars, diskVars, loopVars, sharedVars, procVars
  <1>4. BusInv'
    <2>1. \A e \in Commands : e > arrived' => e > arrived
      BY <1>1, <1>2, CommandsAreNat
    <2> QED BY <1>1, <2>1 DEF BusInv, durableVars
  <1>5. JobInv' /\ DidInv' /\ AnswersAreTrue'
    BY <1>1 DEF JobInv, LoopInv, AtInv, Unanswered, Accepted, Decodes, ResolvesWithin, DidInv,
                AnswersAreTrue, durableVars, diskVars, loopVars, procVars
  <1>6. FileInv'
    BY <1>1, <1>3, FileFrame DEF durableVars, diskVars, loopVars
  <1>7. OrderInv'
    <2>1. \A p \in Paths : WriterAlone(p)' => WriterAlone(p)
      <3> SUFFICES ASSUME NEW p \in Paths, WriterAlone(p)' PROVE WriterAlone(p)
        OBVIOUS
      <3>1. \A e \in 1 .. arrived : e \in 1 .. arrived'
        BY <1>1, <1>2
      <3> QED BY <1>1, <3>1 DEF WriterAlone, durableVars, diskVars
    <2> QED BY <1>1, <2>1, OrderFrame DEF diskVars, loopVars
  <1> QED BY <1>3, <1>4, <1>5, <1>6, <1>7

\* A delivery that is given back is redelivered, unless it was the last one.
LEMMA AgainStep ==
  ASSUME CommandTypeOK, BusInv, NEW e \in Commands, num[e] > 0,
         NEW s \in {"out", "redo", "acked", "dead"}, s = "redo" => num[e] < MaxDeliver,
         status' = [status EXCEPT ![e] = s], UNCHANGED <<arrived, cmd, num>>
  PROVE  status' \in [Commands -> {"new", "out", "redo", "acked", "dead"}] /\ BusInv'
  <1>1. status' \in [Commands -> {"new", "out", "redo", "acked", "dead"}]
    BY DEF CommandTypeOK
  <1>2. status'[e] = s /\ \A d \in Commands : d # e => status'[d] = status[d]
    BY DEF CommandTypeOK
  <1>3. num[e] \in Nat
    BY FileAssumption DEF CommandTypeOK
  <1>4. ~(e > arrived) /\ num[e] # 0
    BY <1>3 DEF BusInv
  <1> QED BY <1>1, <1>2, <1>4 DEF BusInv

LEMMA AckWaitExpiresIInv ==
  ASSUME CommandIInv, NEW e \in Commands, AckWaitExpires(e) PROVE CommandIInv'
  <1> USE DEF CommandIInv
  <1>1. /\ status[e] = "out" /\ status' = [status EXCEPT ![e] = Again(e)]
        /\ UNCHANGED <<sentVars, num, said, diskVars, loopVars, sharedVars, procVars>>
    BY DEF AckWaitExpires
  <1>2. num[e] > 0 /\ Again(e) \in {"redo", "dead"} /\ (Again(e) = "redo" => num[e] < MaxDeliver)
    BY <1>1, FileAssumption DEF Again, BusInv, CommandTypeOK
  <1>3. status' \in [Commands -> {"new", "out", "redo", "acked", "dead"}] /\ BusInv'
    BY <1>1, <1>2, AgainStep DEF sentVars
  <1>4. \A d \in Commands : status'[d] = "acked" <=> status[d] = "acked"
    BY <1>1, <1>2 DEF CommandTypeOK
  <1>5. CommandTypeOK'
    BY <1>1, <1>3 DEF CommandTypeOK, sentVars, diskVars, loopVars, sharedVars, procVars
  <1>6. JobInv'
    <2> SUFFICES ASSUME NEW k \in Kinds
                 PROVE  /\ LoopInv(k)'
                        /\ job[k] # Idle => AtInv(k, job[k].ev, job[k].at, job[k].says)'
      BY <1>1 DEF JobInv, loopVars
    <2>1. LoopInv(k)'
      <3>1. LoopInv(k) /\ batch[k] \subseteq Commands
        BY DEF JobInv, CommandTypeOK
      <3> QED BY <1>1, <1>4, <3>1 DEF LoopInv, Unanswered, sentVars, diskVars, loopVars, procVars
    <2>2. ASSUME job[k] # Idle PROVE AtInv(k, job[k].ev, job[k].at, job[k].says)'
      <3>1. job[k].ev \in Commands /\ AtInv(k, job[k].ev, job[k].at, job[k].says)
        BY <2>2, JobShape DEF JobInv
      <3> QED BY <1>1, <1>4, <3>1 DEF AtInv, Unanswered, Accepted, Decodes, ResolvesWithin,
                                     sentVars, diskVars, loopVars
    <2> QED BY <2>1, <2>2
  <1>7. DidInv' /\ AnswersAreTrue'
    BY <1>1, <1>4 DEF DidInv, AnswersAreTrue, Accepted, Decodes, ResolvesWithin, sentVars, diskVars
  <1>8. FileInv'
    BY <1>1, <1>4, <1>5, FileFrame DEF sentVars, diskVars, loopVars
  <1>9. OrderInv'
    <2>1. \A p \in Paths : WriterAlone(p)' => WriterAlone(p)
      BY <1>1 DEF WriterAlone, sentVars, diskVars
    <2> QED BY <1>1, <2>1, OrderFrame DEF sentVars, diskVars, loopVars
  <1> QED BY <1>3, <1>5, <1>6, <1>7, <1>8, <1>9

\* New commands that are fetched are later than those of their kind before.
LEMMA FetchIInv ==
  ASSUME CommandIInv, NEW k \in Kinds, NEW B \in SUBSET Of(k), Fetch(k, B) PROVE CommandIInv'
  <1> USE DEF CommandIInv
  <1>1. PICK R :
        /\ R \subseteq B
        /\ phase = "up" /\ loop[k] = "polling" /\ B \subseteq Deliverable(k) /\ InOrder(k, B)
        /\ batch' = [batch EXCEPT ![k] = R]
        /\ loop' = [loop EXCEPT ![k] = After(R)]
        /\ status' = [e \in Commands |-> IF e \in B THEN "out" ELSE status[e]]
        /\ num' = [e \in Commands |-> IF e \in B THEN num[e] + 1 ELSE num[e]]
        /\ UNCHANGED <<sentVars, said, diskVars, job, linked, sharedVars, procVars>>
    BY DEF Fetch
  <1>2. R \subseteq B
    BY <1>1
  <1>3. job[k] = Idle /\ batch[k] = {}
    BY <1>1 DEF JobInv, LoopInv
  <1>4. B \subseteq Commands /\ \A e \in B : e \in 1 .. arrived /\ cmd[e].kind = k
    BY FileAssumption DEF Of, CommandTypeOK, Commands
  <1>5. \A e \in Commands : num[e] \in Nat
    BY FileAssumption DEF CommandTypeOK
  <1>6. \A e \in B : status[e] \in {"new", "redo"} /\ num[e] < MaxDeliver
    BY <1>1, <1>4, FileAssumption DEF Deliverable, BusInv, CommandTypeOK
  <1>7. /\ num' \in [Commands -> 0 .. MaxDeliver]
        /\ status' \in [Commands -> {"new", "out", "redo", "acked", "dead"}]
    BY <1>1, <1>5, <1>6, FileAssumption DEF CommandTypeOK
  <1>8. After(R) \in {"polling", "busy", "done"} /\ (After(R) # "busy" => R = {})
    BY DEF After
  <1>9. CommandTypeOK'
    <2>1. batch' \in [Kinds -> SUBSET Commands] /\ loop' \in [Kinds -> {"polling", "busy", "done"}]
      BY <1>1, <1>2, <1>4, <1>8 DEF CommandTypeOK
    <2> QED BY <1>1, <1>7, <2>1 DEF CommandTypeOK, sentVars, diskVars, sharedVars, procVars
  <1>10. BusInv'
    <2>1. ASSUME NEW e \in Commands
          PROVE  /\ e > arrived' => status'[e] = "new"
                 /\ status'[e] = "new" => num'[e] = 0
                 /\ num'[e] = 0 => status'[e] = "new"
                 /\ status'[e] = "redo" => num'[e] < MaxDeliver
      <3>1. CASE e \in B
        <4>1. status'[e] = "out" /\ num'[e] = num[e] + 1 /\ ~(e > arrived)
          BY <3>1, <1>1, <1>4 DEF CommandTypeOK
        <4> QED BY <4>1, <1>1, <1>5 DEF sentVars
      <3>2. CASE e \notin B
        BY <3>2, <1>1 DEF BusInv, sentVars
      <3> QED BY <3>1, <3>2
    <2>2. ASSUME NEW d \in Commands, NEW e \in Commands,
                 cmd[d].kind = cmd[e].kind, num'[d] > 0, num'[e] = 0
          PROVE  d < e
      <3>1. e \notin B /\ num[e] = 0
        BY <2>2, <1>1, <1>5
      <3>2. CASE num[d] > 0
        BY <2>2, <3>1, <3>2 DEF BusInv
      <3>3. CASE d \in B /\ num[d] = 0
        <4>1. status[d] = "new" /\ status[e] = "new" /\ d # e
          BY <3>1, <3>3 DEF BusInv
        <4>2. ASSUME e < d PROVE FALSE
          <5>1. e \in Deliverable(k)
            BY <2>2, <4>1, <4>2, <1>4, <3>3 DEF Deliverable, Of, Commands, CommandTypeOK
          <5> QED BY <1>1, <3>1, <3>3, <4>1, <4>2, <5>1 DEF InOrder
        <4> QED BY <4>1, <4>2 DEF Commands
      <3> QED BY <2>2, <3>2, <3>3, <1>1, <1>5
    <2> QED BY <1>1, <2>1, <2>2 DEF BusInv, sentVars
  <1>11. \A e \in Commands : num'[e] >= num[e] /\ (num[e] > 0 => num'[e] > 0)
    BY <1>1, <1>5
  <1>12. \A e \in Commands : status'[e] = "acked" => status[e] = "acked"
    BY <1>1
  <1>13. \A e \in Commands : Len(said[e]) <= num[e] /\ Len(said[e]) \in Nat
    BY DEF AnswersAreTrue, CommandTypeOK
  <1>14. JobInv'
    <2> SUFFICES ASSUME NEW j \in Kinds
                 PROVE  /\ LoopInv(j)'
                        /\ job[j] # Idle => AtInv(j, job[j].ev, job[j].at, job[j].says)'
      BY <1>1 DEF JobInv
    <2>1. CASE j = k
      <3>1. batch'[k] = R /\ loop'[k] = After(R)
        BY <1>1 DEF CommandTypeOK
      <3>2. \A e \in R : cmd'[e].kind = k /\ Unanswered(e)' /\ (num'[e] = 1 => e \notin did')
        <4> SUFFICES ASSUME NEW e \in R
                     PROVE  cmd[e].kind = k /\ Unanswered(e)' /\ (num'[e] = 1 => e \notin did)
          BY <1>1 DEF sentVars, diskVars
        <4>1. e \in Commands /\ cmd[e].kind = k /\ num'[e] = num[e] + 1 /\ status'[e] = "out"
          BY <1>1, <1>2, <1>4
        <4>2. Unanswered(e)'
          BY <4>1, <1>1, <1>5, <1>13 DEF Unanswered
        <4>3. num'[e] = 1 => ~(num[e] > 0)
          BY <4>1, <1>5
        <4> QED BY <4>1, <4>2, <4>3 DEF DidInv
      <3>3. job'[k] = Idle /\ job'[k].ev \notin R
        BY <1>1, <1>2, <1>3, <1>4, JobShape, CommandsAreNat
      <3>4. LoopInv(k)'
        BY <1>1, <1>8, <3>1, <3>2, <3>3 DEF LoopInv, procVars
      <3> QED BY <2>1, <1>3, <3>4
    <2>2. CASE j # k
      <3>1. batch'[j] = batch[j] /\ loop'[j] = loop[j] /\ batch[j] \subseteq Commands
        BY <2>2, <1>1 DEF CommandTypeOK
      <3>2. \A e \in Commands : cmd[e].kind = j => num'[e] = num[e] /\ status'[e] = status[e]
        BY <2>2, <1>1, <1>4
      <3>3. LoopInv(j)'
        BY <1>1, <3>1, <3>2 DEF JobInv, LoopInv, Unanswered, sentVars, diskVars, procVars
      <3>4. ASSUME job[j] # Idle PROVE AtInv(j, job[j].ev, job[j].at, job[j].says)'
        <4>1. job[j].ev \in Commands /\ AtInv(j, job[j].ev, job[j].at, job[j].says)
          BY <3>4, JobShape DEF JobInv
        <4>2. num'[job[j].ev] = num[job[j].ev] /\ status'[job[j].ev] = status[job[j].ev]
          BY <4>1, <3>2 DEF AtInv
        <4> QED BY <4>1, <4>2, <1>1 DEF AtInv, Unanswered, Accepted, Decodes, ResolvesWithin,
                                         sentVars, diskVars
      <3> QED BY <3>3, <3>4
    <2> QED BY <2>1, <2>2
  <1>15. DidInv'
    BY <1>1, <1>11 DEF DidInv, CommandTypeOK, diskVars
  <1>16. AnswersAreTrue'
    <2> SUFFICES ASSUME NEW e \in Commands
                 PROVE  /\ Len(said[e]) <= num'[e]
                        /\ status'[e] = "acked" => status[e] = "acked"
                        /\ e \in did /\ num'[e] = 1 => num[e] = 1
      BY <1>1 DEF AnswersAreTrue, Accepted, Decodes, ResolvesWithin, sentVars, diskVars
    <2>1. Len(said[e]) <= num'[e]
      BY <1>5, <1>7, <1>11, <1>13
    <2>2. e \in did /\ num'[e] = 1 => num[e] = 1
      BY <1>1, <1>5 DEF DidInv
    <2> QED BY <1>12, <2>1, <2>2
  <1>17. FileInv'
    BY <1>1, <1>9, <1>11, <1>12, FileFrame DEF sentVars, diskVars
  <1>18. OrderInv'
    <2>1. \A p \in Paths : WriterAlone(p)' => WriterAlone(p)
      <3> SUFFICES ASSUME NEW p \in Paths, WriterAlone(p)' PROVE WriterAlone(p)
        OBVIOUS
      <3>1. outside'[p] >= outside[p] /\ arrived' >= arrived
        BY <1>1, FileAssumption DEF CommandTypeOK, sentVars, diskVars
      <3> QED BY <1>1, <1>9, <1>11, <3>1, AloneBefore DEF sentVars
    <2>2. ASSUME k = "write", NEW p \in Paths, WriterAlone(p)' PROVE PathBatch(p)'
      <3> SUFFICES ASSUME NEW e \in WritesOf(p), e \in R
                   PROVE  file[p] # Absent => file[p].by < e
        <4>1. batch'["write"] = R
          BY <1>1, <2>2 DEF CommandTypeOK
        <4>2. job'["write"].ev \notin WritesOf(p)
          BY <1>1, <1>3, <2>2, JobShape DEF WritesOf
        <4> QED BY <1>1, <4>1, <4>2 DEF PathBatch, WritesOf, sentVars, diskVars
      <3>1. WriterAlone(p) /\ PathCore(p)
        BY <2>1, <2>2 DEF OrderInv, PathInv
      <3>2. e \in Commands /\ e \in B /\ e \in 1 .. arrived /\ cmd[e].path = p /\ cmd[e].kind = "write"
        BY <1>2, <1>4 DEF WritesOf
      <3>3. num'[e] <= 1 /\ num'[e] = num[e] + 1
        BY <1>1, <2>2, <3>2 DEF WriterAlone, sentVars
      <3>4. num[e] = 0
        BY <1>5, <3>2, <3>3
      <3>5. ASSUME file[p] # Absent PROVE file[p].by < e
        <4>1. file[p].by \in Commands
          BY <3>1, <3>5 DEF PathCore
        <4>2. cmd[file[p].by].kind = "write" /\ num[file[p].by] > 0
          BY <3>5, <4>1 DEF FileInv, Owned
        <4> QED BY <3>2, <3>4, <4>1, <4>2 DEF BusInv
      <3> QED BY <3>5
    <2>3. \/ batch'["write"] \subseteq batch["write"]
          \/ \A p \in Paths : WriterAlone(p)' => PathBatch(p)'
      <3>1. k # "write" => batch'["write"] = batch["write"]
        BY <1>1, KindsShape DEF CommandTypeOK
      <3> QED BY <2>2, <3>1
    <2> QED BY <1>1, <2>1, <2>3, OrderFrame DEF sentVars, diskVars
  <1> QED BY <1>9, <1>10, <1>14, <1>15, <1>16, <1>17, <1>18

-------------------------------------------------------------------------------
(* _handle() takes a command.                                              *)

LEMMA BatchFacts ==
  ASSUME CommandIInv, NEW k \in Kinds, NEW e \in batch[k]
  PROVE  /\ e \in Commands /\ cmd[e].kind = k /\ Unanswered(e) /\ num[e] > 0
         /\ num[e] = 1 => e \notin did
         /\ loop[k] = "busy" /\ phase # "down"
  <1>1. e \in Commands /\ cmd[e].kind = k /\ Unanswered(e) /\ (num[e] = 1 => e \notin did)
    BY DEF CommandIInv, CommandTypeOK, JobInv, LoopInv
  <1>2. num[e] > 0
    BY <1>1, FileAssumption DEF CommandIInv, CommandTypeOK, Unanswered
  <1> QED BY <1>1, <1>2 DEF CommandIInv, JobInv, LoopInv

\* The write handler without a command has no file open.
LEMMA IdleLinked == ASSUME CommandIInv, job["write"] = Idle PROVE linked = TRUE
  <1>1. job["write"].at = "idle"
    BY DEF Idle
  <1> QED BY <1>1 DEF CommandIInv, FileInv, CommandTypeOK

LEMMA BeginStep ==
  ASSUME CommandIInv, NEW k \in Kinds, NEW e \in batch[k],
         NEW at \in {"open", "write", "mark", "read", "publish", "ack"},
         NEW says \in Answers \cup {"nothing"}, Begin(k, e, at, says),
         file' \in [Paths -> File \cup {Absent}], linked' \in BOOLEAN,
         did \subseteq did', did' \subseteq did \cup {e}, AtInv(k, e, at, says)'
  PROVE  /\ CommandTypeOK' /\ BusInv' /\ JobInv' /\ DidInv' /\ AnswersAreTrue'
         /\ job[k] = Idle /\ job'[k] = [ev |-> e, at |-> at, says |-> says]
         /\ \A j \in Kinds : j # k => job'[j] = job[j] /\ batch'[j] = batch[j]
         /\ batch'[k] = batch[k] \ {e}
  <1> USE DEF CommandIInv
  <1>1. /\ job[k] = Idle
        /\ batch' = [batch EXCEPT ![k] = batch[k] \ {e}]
        /\ job' = [job EXCEPT ![k] = [ev |-> e, at |-> at, says |-> says]]
        /\ UNCHANGED <<sentVars, durableVars, said, outside, loop, sharedVars, procVars>>
    BY DEF Begin, Taken
  <1>2. /\ e \in Commands /\ cmd[e].kind = k /\ Unanswered(e) /\ num[e] > 0
        /\ loop[k] = "busy" /\ phase # "down"
    BY BatchFacts
  <1>3. /\ [ev |-> e, at |-> at, says |-> says] \in Handled
        /\ [ev |-> e, at |-> at, says |-> says] # Idle
    BY <1>2, CommandsAreNat DEF Handled, Idle
  <1>4. /\ job' \in [Kinds -> {Idle} \cup Handled] /\ batch' \in [Kinds -> SUBSET Commands]
        /\ job'[k] = [ev |-> e, at |-> at, says |-> says]
        /\ \A j \in Kinds : j # k => job'[j] = job[j] /\ batch'[j] = batch[j]
        /\ batch'[k] = batch[k] \ {e}
    BY <1>1, <1>3 DEF CommandTypeOK, Handled
  <1>5. did' \subseteq Commands
    BY <1>2 DEF CommandTypeOK
  <1>6. CommandTypeOK'
    BY <1>1, <1>4, <1>5 DEF CommandTypeOK, Handled, sentVars, durableVars, sharedVars, procVars
  <1>7. BusInv' /\ DidInv'
    BY <1>1, <1>2 DEF BusInv, DidInv, sentVars, durableVars
  <1>8. JobInv'
    <2>1. job'[k].ev = e /\ job'[k].at = at /\ job'[k].says = says
      BY <1>4
    <2>2. LoopInv(k)'
      <3>1. LoopInv(k)
        BY DEF JobInv
      <3> QED BY <1>1, <1>2, <1>4, <2>1, <3>1
              DEF LoopInv, Unanswered, sentVars, durableVars, procVars
    <2>3. AtInv(k, job[k].ev, job[k].at, job[k].says)'
      BY <2>1 DEF AtInv, Unanswered, Accepted, Decodes, ResolvesWithin
    <2> QED BY <1>1, <1>2, <1>4, <2>2, <2>3, JobStep DEF sentVars, durableVars, procVars
  <1>9. AnswersAreTrue'
    BY <1>1, <1>2, AnswersStep DEF sentVars, durableVars
  <1> QED BY <1>1, <1>4, <1>6, <1>7, <1>8, <1>9

\* A command that the read, list or delete handler takes, or that is only acked.
LEMMA BeginElsewhere ==
  ASSUME CommandIInv, NEW k \in Kinds, NEW e \in batch[k],
         NEW at \in {"read", "publish", "ack"}, NEW says \in Answers \cup {"nothing"},
         Begin(k, e, at, says), UNCHANGED <<file, did, linked>>,
         k # "write" \/ (at = "ack" /\ ~Accepted(e)),
         AtInv(k, e, at, says)'
  PROVE  CommandIInv'
  <1>1. /\ CommandTypeOK' /\ BusInv' /\ JobInv' /\ DidInv' /\ AnswersAreTrue'
        /\ job[k] = Idle /\ job'[k] = [ev |-> e, at |-> at, says |-> says]
        /\ \A j \in Kinds : j # k => job'[j] = job[j] /\ batch'[j] = batch[j]
        /\ batch'[k] = batch[k] \ {e}
    <2>1. file' \in [Paths -> File \cup {Absent}] /\ linked' \in BOOLEAN
      BY DEF CommandIInv, CommandTypeOK
    <2> QED BY <2>1, BeginStep
  <1>2. e \in Commands
    BY BatchFacts
  <1>3. UNCHANGED <<sentVars, durableVars, said, outside>>
    BY DEF Begin
  <1>4. k # "write" => job'["write"] = job["write"] /\ batch'["write"] = batch["write"]
    BY <1>1, KindsShape
  <1>5. k = "write" => /\ job'["write"].ev = e /\ job'["write"].at = "ack" /\ ~Accepted(e)
                       /\ linked' /\ batch'["write"] \subseteq batch["write"]
    <2> SUFFICES ASSUME k = "write"
                 PROVE  /\ job'["write"].ev = e /\ job'["write"].at = "ack" /\ ~Accepted(e)
                        /\ linked' /\ batch'["write"] \subseteq batch["write"]
      OBVIOUS
    <2>1. linked'
      BY <1>1, IdleLinked
    <2>2. at = "ack" /\ ~Accepted(e)
      OBVIOUS
    <2>3. job'["write"] = [ev |-> e, at |-> "ack", says |-> says]
      BY <1>1, <2>2
    <2>4. batch'["write"] \subseteq batch["write"]
      BY <1>1
    <2> QED BY <2>1, <2>2, <2>3, <2>4
  <1>6. FileInv'
    BY <1>1, <1>2, <1>3, <1>4, <1>5, FileFrame DEF sentVars, durableVars
  <1>7. OrderInv'
    <2>1. \A p \in Paths : WriterAlone(p)' => WriterAlone(p)
      BY <1>3 DEF WriterAlone, sentVars, durableVars
    <2>2. k = "write" => \A p \in Paths : job'["write"].ev \notin WritesOf(p)
      BY <1>5, AcceptedPath DEF WritesOf, CommandIInv
    <2> QED BY <1>3, <1>4, <1>5, <2>1, <2>2, OrderFrame DEF sentVars
  <1> QED BY <1>1, <1>6, <1>7 DEF CommandIInv

LEMMA TakeBadIInv ==
  ASSUME CommandIInv, NEW k \in Kinds, NEW e \in batch[k], TakeBad(k, e) PROVE CommandIInv'
  <1>1. ~Accepted(e) /\ Begin(k, e, "ack", "nothing") /\ UNCHANGED <<file, did, linked>>
    BY DEF TakeBad
  <1>2. AtInv(k, e, "ack", "nothing")'
    <2>1. cmd[e].kind = k /\ Unanswered(e) /\ num[e] > 0
      BY BatchFacts
    <2> QED BY <1>1, <2>1 DEF AtInv, Unanswered, Begin, sentVars, durableVars, Accepted, Decodes,
                              ResolvesWithin
  <1> QED BY <1>1, <1>2, BeginElsewhere

LEMMA TakeReadIInv ==
  ASSUME CommandIInv, NEW e \in batch["read"], TakeRead(e) PROVE CommandIInv'
  <1>1. /\ Accepted(e) /\ UNCHANGED <<file, did, linked>>
        /\ Begin("read", e, "read", "read") \/ Begin("read", e, "publish", "not_found")
    BY DEF TakeRead
  <1>2. UNCHANGED <<sentVars, durableVars, said>>
    BY <1>1 DEF Begin
  <1>3. cmd[e].kind = "read" /\ Unanswered(e) /\ num[e] > 0 /\ (num[e] = 1 => e \notin did)
    BY BatchFacts, KindsShape
  <1>4. AtInv("read", e, "read", "read")' /\ AtInv("read", e, "publish", "not_found")'
    BY <1>1, <1>2, <1>3 DEF AtInv, Unanswered, sentVars, durableVars, Accepted, Decodes,
                            ResolvesWithin, Answers
  <1> QED BY <1>1, <1>4, KindsShape, BeginElsewhere DEF Answers

LEMMA TakeListIInv ==
  ASSUME CommandIInv, NEW e \in batch["list"], TakeList(e) PROVE CommandIInv'
  <1>1. PICK a \in {"not_found", "not_a_directory", "listed"} :
           Accepted(e) /\ UNCHANGED <<file, did, linked>> /\ Begin("list", e, "publish", a)
    BY DEF TakeList
  <1>2. UNCHANGED <<sentVars, durableVars, said>>
    BY <1>1 DEF Begin
  <1>3. cmd[e].kind = "list" /\ Unanswered(e) /\ num[e] > 0 /\ (num[e] = 1 => e \notin did)
    BY BatchFacts, KindsShape
  <1>4. AtInv("list", e, "publish", a)'
    BY <1>1, <1>2, <1>3 DEF AtInv, Unanswered, sentVars, durableVars, Accepted, Decodes,
                            ResolvesWithin, Answers
  <1> QED BY <1>1, <1>4, KindsShape, BeginElsewhere DEF Answers

\* The command with the lowest number of the batch goes first, as long as they
\* are first deliveries.
LEMMA TakeWriteIInv ==
  ASSUME CommandIInv, NEW e \in batch["write"], TakeWrite(e) PROVE CommandIInv'
  <1> USE KindsShape
  <1>1. PICK a \in {"created", "written"} :
           /\ Accepted(e) /\ UNCHANGED <<file, did, linked>> /\ Begin("write", e, "open", a)
           /\ (a = "created") = ~Exists(cmd[e].path)
    BY DEF TakeWrite
  <1>2. UNCHANGED <<sentVars, durableVars, said, outside>> /\ NextOfBatch("write", e)
    BY <1>1 DEF Begin, Taken
  <1>3. /\ e \in Commands /\ cmd[e].kind = "write" /\ Unanswered(e) /\ num[e] > 0
        /\ num[e] = 1 => e \notin did
    BY BatchFacts
  <1>4. AtInv("write", e, "open", a)'
    BY <1>1, <1>2, <1>3 DEF AtInv, Unanswered, sentVars, durableVars, Accepted, Decodes,
                            ResolvesWithin
  <1>5. /\ CommandTypeOK' /\ BusInv' /\ JobInv' /\ DidInv' /\ AnswersAreTrue'
        /\ job["write"] = Idle /\ job'["write"] = [ev |-> e, at |-> "open", says |-> a]
        /\ batch'["write"] = batch["write"] \ {e}
    <2>1. file' \in [Paths -> File \cup {Absent}] /\ linked' \in BOOLEAN
      BY <1>1 DEF CommandIInv, CommandTypeOK
    <2>2. a \in Answers \cup {"nothing"} /\ did \subseteq did' /\ did' \subseteq did \cup {e}
      BY <1>1 DEF Answers
    <2> QED BY <1>1, <1>4, <2>1, <2>2, BeginStep
  <1>6. job'["write"].ev = e /\ job'["write"].at = "open" /\ job'["write"].says = a
    BY <1>5
  <1>7. FileInv'
    BY <1>1, <1>2, <1>5, <1>6, IdleLinked, FileFrame DEF sentVars, durableVars
  <1>8. OrderInv'
    <2> SUFFICES ASSUME NEW p \in Paths, WriterAlone(p) PROVE PathInv(p)'
      BY <1>2 DEF OrderInv, WriterAlone, sentVars, durableVars
    <2>1. PathInv(p)
      BY DEF CommandIInv, OrderInv
    <2>2. WritesOf(p)' = WritesOf(p) /\ WritesOf(p) \subseteq Commands
      BY <1>2 DEF WritesOf, sentVars
    <2>3. PathCore(p)'
      BY <1>1, <1>2, <2>1, <2>2 DEF PathInv, PathCore
    <2>4. PathBatch(p)'
      <3> SUFFICES ASSUME NEW d \in WritesOf(p), d \in batch["write"], d # e
                   PROVE  /\ file[p] # Absent => file[p].by < d
                          /\ e \in WritesOf(p) => e < d
        BY <1>1, <1>5, <1>6, <2>2 DEF PathBatch
      <3>1. file[p] # Absent => file[p].by < d
        BY <2>1 DEF PathInv, PathBatch
      <3>2. ASSUME e \in WritesOf(p) PROVE e < d
        <4>1. num[d] = 1 /\ num[e] = 1
          BY <1>3, <3>2, <2>2, AloneOnce, BatchFacts DEF WritesOf
        <4>2. e <= d
          BY <1>2, <4>1 DEF NextOfBatch
        <4>3. d \in Commands /\ e \in Commands
          BY <1>3, <2>2
        <4>4. d \in Nat /\ e \in Nat
          BY <4>3, CommandsAreNat
        <4> QED BY <4>2, <4>4
      <3> QED BY <3>1, <3>2
    <2>5. PathJob(p)'
      <3> SUFFICES ASSUME e \in WritesOf(p)
                   PROVE  /\ file[p] # Absent => file[p].by < e
                          /\ (a = "created") = (file[p] = Absent)
        BY <1>1, <1>6, <2>2 DEF PathJob
      <3>1. file[p] # Absent => file[p].by < e
        BY <2>1 DEF PathInv, PathBatch
      <3>2. cmd[e].path = p /\ p # Root
        BY <1>3, AcceptedPath DEF WritesOf, CommandIInv
      <3> QED BY <1>1, <3>1, <3>2 DEF Exists
    <2> QED BY <2>3, <2>4, <2>5 DEF PathInv
  <1> QED BY <1>5, <1>7, <1>8 DEF CommandIInv

\* A file is unlinked, by the delete handler or by others.
LEMMA UnlinkStep ==
  ASSUME CommandIInv, NEW p \in Paths, Unlink(p),
         UNCHANGED <<cmd, status, num>>, job'["write"] = job["write"]
  PROVE  /\ file' \in [Paths -> File \cup {Absent}] /\ linked' \in BOOLEAN
         /\ \A q \in Paths : q # p => file'[q] = file[q]
         /\ job["write"].at = "write" => linked' = linked \/ Path("write") = p
         /\ FileInv'
  <1> USE DEF CommandIInv
  <1>1. /\ file' \in [Paths -> File \cup {Absent}]
        /\ file'[p] = Absent /\ \A q \in Paths : q # p => file'[q] = file[q]
    BY DEF Unlink, CommandTypeOK
  <1>2. /\ linked' \in BOOLEAN
        /\ linked' <=> linked /\ ~(job["write"].at = "write" /\ Path("write") = p)
    BY DEF Unlink, CommandTypeOK, Path
  <1>3. \A q \in Paths : Owned(q)'
    BY <1>1 DEF FileInv, Owned
  <1>4. job["write"].at = "write" => Path("write") \in Paths
    <2> SUFFICES ASSUME job["write"].at = "write" PROVE Path("write") \in Paths
      OBVIOUS
    <2>1. job["write"].ev \in Commands /\ AtInv("write", job["write"].ev, "write", job["write"].says)
      BY KindsShape, AtJob
    <2> QED BY <2>1, AcceptedPath DEF AtInv, Path
  <1>5. Path("write")' = Path("write")
    BY DEF Path
  <1>6. FileInv'
    <2>1. ~linked' => job'["write"].at \in {"write", "mark", "publish", "ack"}
      BY <1>2 DEF FileInv
    <2>2. job'["write"].at = "write" =>
            IF linked' THEN file'[Path("write")] # Absent
            ELSE file'[Path("write")] = Absent \/ file'[Path("write")].by # job["write"].ev
      BY <1>1, <1>2, <1>4 DEF FileInv
    <2>3. job'["write"].at \in {"mark", "publish", "ack"} =>
            \A q \in Paths : file'[q] # Absent /\ file'[q].by = job["write"].ev => file'[q].size = 1
      BY <1>1 DEF FileInv
    <2> QED BY <1>3, <1>5, <2>1, <2>2, <2>3 DEF FileInv
  <1> QED BY <1>1, <1>2, <1>6 DEF CommandTypeOK

LEMMA TakeDeleteIInv ==
  ASSUME CommandIInv, NEW e \in batch["delete"], TakeDelete(e) PROVE CommandIInv'
  <1> USE KindsShape
  <1>1. /\ e \in Commands /\ cmd[e].kind = "delete" /\ Unanswered(e) /\ num[e] > 0
        /\ num[e] = 1 => e \notin did
    BY BatchFacts
  <1>2. Accepted(e)
    BY DEF TakeDelete
  <1>3. CASE ~IsFile(cmd[e].path) /\ Begin("delete", e, "publish", "not_found")
             /\ UNCHANGED <<file, did, linked>>
    <2>1. UNCHANGED <<sentVars, durableVars, said>>
      BY <1>3 DEF Begin
    <2>2. AtInv("delete", e, "publish", "not_found")'
      BY <1>1, <1>2, <1>3, <2>1 DEF AtInv, Unanswered, sentVars, durableVars, Accepted, Decodes,
                                    ResolvesWithin, Answers
    <2> QED BY <1>3, <2>2, BeginElsewhere DEF Answers
  <1>4. CASE /\ IsFile(cmd[e].path) /\ Unlink(cmd[e].path) /\ did' = did \cup {e}
             /\ Begin("delete", e, "publish", "deleted")
    <2>1. PICK p \in Paths : cmd[e].path = p /\ Unlink(p)
      BY <1>1, <1>2, <1>4, AcceptedPath DEF IsFile, CommandIInv
    <2>2. UNCHANGED <<sentVars, durableVars, said, outside>>
      BY <1>4 DEF Begin
    <2>3. job'["write"] = job["write"]
      BY <1>4 DEF Begin, CommandIInv, CommandTypeOK
    <2>4. /\ file' \in [Paths -> File \cup {Absent}] /\ linked' \in BOOLEAN
          /\ \A q \in Paths : q # p => file'[q] = file[q]
          /\ job["write"].at = "write" => linked' = linked \/ Path("write") = p
          /\ FileInv'
      BY <2>1, <2>2, <2>3, UnlinkStep DEF sentVars, durableVars
    <2>5. AtInv("delete", e, "publish", "deleted")'
      BY <1>1, <1>2, <1>4, <2>2 DEF AtInv, Unanswered, sentVars, durableVars, Accepted, Decodes,
                                    ResolvesWithin, Answers
    <2>6. /\ CommandTypeOK' /\ BusInv' /\ JobInv' /\ DidInv' /\ AnswersAreTrue'
          /\ batch'["write"] = batch["write"]
      <3>1. "deleted" \in Answers \cup {"nothing"} /\ did \subseteq did' /\ did' \subseteq did \cup {e}
        BY <1>4 DEF Answers
      <3>2. Begin("delete", e, "publish", "deleted")
        BY <1>4
      <3>3. file' \in [Paths -> File \cup {Absent}] /\ linked' \in BOOLEAN
        BY <2>4
      <3>4. /\ CommandTypeOK' /\ BusInv' /\ JobInv' /\ DidInv' /\ AnswersAreTrue'
            /\ \A j \in Kinds : j # "delete" => job'[j] = job[j] /\ batch'[j] = batch[j]
        BY <2>5, <3>1, <3>2, <3>3, BeginStep
      <3> QED BY <3>4
    <2>7. \A q \in Paths : WriterAlone(q)' => WriterAlone(q) /\ q # p
      <3>1. \A q \in Paths : WriterAlone(q)' => WriterAlone(q)
        BY <2>2 DEF WriterAlone, sentVars, durableVars
      <3>2. ~WriterAlone(p)
        BY <1>1, <2>1, AloneOnce
      <3> QED BY <3>1, <3>2
    <2>8. OrderInv'
      <3>1. \A d \in Commands : cmd[d].kind = "write" =>
               said'[d] = said[d] /\ (d \in did' => d \in did)
        BY <1>1, <1>4, <2>2
      <3>2. job["write"].at = "write" => linked' = linked \/ ~WriterAlone(Path("write"))'
        <4>1. Path("write")' = Path("write")
          BY <2>2, <2>3 DEF Path, sentVars
        <4>2. ~WriterAlone(p)'
          BY <2>7
        <4> QED BY <2>4, <4>1, <4>2
      <3> QED BY <2>2, <2>3, <2>4, <2>6, <2>7, <3>1, <3>2, OrderFrame DEF sentVars
    <2> QED BY <2>4, <2>6, <2>8 DEF CommandIInv
  <1> QED BY <1>3, <1>4 DEF TakeDelete

-------------------------------------------------------------------------------
(* Others in the directory.                                                *)

LEMMA DiskFrame ==
  ASSUME CommandIInv, UNCHANGED <<sentVars, durableVars, said, did, loop, batch, job, procVars>>
  PROVE  BusInv' /\ JobInv' /\ DidInv' /\ AnswersAreTrue'
  <1> USE DEF CommandIInv, sentVars, durableVars, procVars
  <1>1. BusInv' /\ DidInv' /\ AnswersAreTrue'
    BY DEF BusInv, DidInv, AnswersAreTrue, Accepted, Decodes, ResolvesWithin
  <1>2. JobInv'
    BY DEF JobInv, LoopInv, AtInv, Unanswered, Accepted, Decodes, ResolvesWithin
  <1> QED BY <1>1, <1>2

\* A file that others write is not taken for what the write handler has open.
LEMMA OutsideFileInv ==
  ASSUME CommandIInv, NEW p \in Paths, UNCHANGED <<cmd, status, num, job, linked>>,
         \A q \in Paths : q # p => file'[q] = file[q],
         file'[p] # Absent, file'[p].by = Outside
  PROVE  FileInv'
  <1> USE DEF CommandIInv
  <1>1. Outside \notin Commands
    BY FileAssumption DEF Commands
  <1>2. \A q \in Paths : Owned(q)'
    BY <1>1 DEF FileInv, Owned
  <1>3. job["write"].at \in {"write", "mark", "publish", "ack"} => job["write"].ev \in Commands
    BY KindsShape, JobShape
  <1>4. job["write"].at = "write" => Path("write") \in Paths
    <2> SUFFICES ASSUME job["write"].at = "write" PROVE Path("write") \in Paths
      OBVIOUS
    <2>1. job["write"].ev \in Commands /\ AtInv("write", job["write"].ev, "write", job["write"].says)
      BY KindsShape, AtJob
    <2> QED BY <2>1, AcceptedPath DEF AtInv, Path
  <1>5. Path("write")' = Path("write")
    BY DEF Path
  <1>6. ~linked' => job'["write"].at \in {"write", "mark", "publish", "ack"}
    BY DEF FileInv
  <1>7. job["write"].at = "write" =>
          IF linked THEN file'[Path("write")] # Absent
          ELSE file'[Path("write")] = Absent \/ file'[Path("write")].by # job["write"].ev
    BY <1>1, <1>3, <1>4 DEF FileInv
  <1>8. job["write"].at \in {"mark", "publish", "ack"} =>
          \A q \in Paths : file'[q] # Absent /\ file'[q].by = job["write"].ev => file'[q].size = 1
    BY <1>1, <1>3 DEF FileInv
  <1> QED BY <1>2, <1>5, <1>6, <1>7, <1>8 DEF FileInv

LEMMA OutsideCountStep ==
  ASSUME CommandTypeOK, CommandTypeOK', NEW p \in Paths, UNCHANGED <<arrived, cmd, num>>,
         outside' = [outside EXCEPT ![p] = @ + 1]
  PROVE  \A q \in Paths : WriterAlone(q)' => WriterAlone(q) /\ q # p
  <1>1. outside[p] \in Nat /\ outside'[p] = outside[p] + 1
    BY FileAssumption DEF CommandTypeOK
  <1>2. \A q \in Paths : q # p => outside'[q] = outside[q]
    BY DEF CommandTypeOK
  <1> QED BY <1>1, <1>2 DEF WriterAlone

LEMMA OutsideCreatesIInv ==
  ASSUME CommandIInv, NEW p \in Paths, OutsideCreates(p) PROVE CommandIInv'
  <1> USE DEF CommandIInv
  <1> DEFINE f == [born |-> Outside, by |-> Outside, size |-> 0]
  <1>1. /\ outside[p] < MaxOutside /\ file' = [file EXCEPT ![p] = f]
        /\ outside' = [outside EXCEPT ![p] = @ + 1]
        /\ UNCHANGED <<sentVars, durableVars, said, did, loopVars, marked, procVars>>
        /\ added' = added \cup {p} \/ added' = added
    BY DEF OutsideCreates, Notice
  <1>2. f \in File /\ f # Absent
    BY FileAssumption DEF File, Writers, Commands, Sizes
  <1>3. f.by = Outside
    OBVIOUS
  <1> HIDE DEF f
  <1>4. /\ file' \in [Paths -> File \cup {Absent}]
        /\ file'[p] = f /\ \A q \in Paths : q # p => file'[q] = file[q]
    BY <1>1, <1>2 DEF CommandTypeOK
  <1>5. outside' \in [Paths -> 0 .. MaxOutside]
    BY <1>1, FileAssumption DEF CommandTypeOK
  <1>6. CommandTypeOK'
    BY <1>1, <1>4, <1>5 DEF CommandTypeOK, sentVars, durableVars, loopVars, procVars
  <1>7. BusInv' /\ JobInv' /\ DidInv' /\ AnswersAreTrue'
    BY <1>1, DiskFrame DEF loopVars
  <1>8. FileInv'
    BY <1>1, <1>2, <1>3, <1>4, OutsideFileInv DEF sentVars, durableVars, loopVars
  <1>9. \A q \in Paths : WriterAlone(q)' => WriterAlone(q) /\ q # p
    BY <1>1, <1>6, OutsideCountStep DEF sentVars, durableVars
  <1>10. OrderInv'
    BY <1>1, <1>4, <1>9, OrderFrame DEF sentVars, loopVars
  <1> QED BY <1>6, <1>7, <1>8, <1>10

LEMMA OutsideRemovesIInv ==
  ASSUME CommandIInv, NEW p \in Paths, OutsideRemoves(p) PROVE CommandIInv'
  <1> USE DEF CommandIInv
  <1>1. /\ outside[p] < MaxOutside /\ Unlink(p)
        /\ outside' = [outside EXCEPT ![p] = @ + 1]
        /\ UNCHANGED <<sentVars, durableVars, said, did, loop, batch, job, sharedVars, procVars>>
    BY DEF OutsideRemoves
  <1>2. /\ file' \in [Paths -> File \cup {Absent}] /\ linked' \in BOOLEAN
        /\ \A q \in Paths : q # p => file'[q] = file[q]
        /\ job["write"].at = "write" => linked' = linked \/ Path("write") = p
        /\ FileInv'
    BY <1>1, UnlinkStep DEF sentVars, durableVars
  <1>3. outside' \in [Paths -> 0 .. MaxOutside]
    BY <1>1, FileAssumption DEF CommandTypeOK
  <1>4. CommandTypeOK'
    BY <1>1, <1>2, <1>3 DEF CommandTypeOK, sentVars, durableVars, sharedVars, procVars
  <1>5. BusInv' /\ JobInv' /\ DidInv' /\ AnswersAreTrue'
    BY <1>1, DiskFrame
  <1>6. \A q \in Paths : WriterAlone(q)' => WriterAlone(q) /\ q # p
    BY <1>1, <1>4, OutsideCountStep DEF sentVars, durableVars
  <1>7. OrderInv'
    <2>1. job["write"].at = "write" => linked' = linked \/ ~WriterAlone(Path("write"))'
      <3>1. Path("write")' = Path("write")
        BY <1>1 DEF Path, sentVars
      <3>2. ~WriterAlone(p)'
        BY <1>6
      <3> QED BY <1>2, <3>1, <3>2
    <2> QED BY <1>1, <1>2, <1>6, <2>1, OrderFrame DEF sentVars
  <1> QED BY <1>2, <1>4, <1>5, <1>7

\* Only files that others created are written on from outside.
LEMMA OutsideWritesIInv ==
  ASSUME CommandIInv, NEW p \in Paths, OutsideWrites(p) PROVE CommandIInv'
  <1> USE DEF CommandIInv
  <1>1. PICK s \in Sizes :
          /\ file[p] # Absent /\ file[p].born = Outside
          /\ file' = [file EXCEPT ![p].by = Outside, ![p].size = s]
          /\ UNCHANGED <<sentVars, durableVars, said, did, outside, loopVars, sharedVars, procVars>>
    BY DEF OutsideWrites
  <1>2. /\ file' \in [Paths -> File \cup {Absent}]
        /\ \A q \in Paths : q # p => file'[q] = file[q]
        /\ file'[p] # Absent /\ file'[p].by = Outside
    <2>1. Outside \in Writers
      BY DEF Writers
    <2>2. file' = Filled(p, Outside, s)
      BY <1>1, Zenon DEF Filled
    <2>3. s \in Sizes /\ file[p] # Absent
      BY <1>1
    <2> QED BY <2>1, <2>2, <2>3, FillShape, Zenon
  <1>3. CommandTypeOK'
    BY <1>1, <1>2 DEF CommandTypeOK, sentVars, durableVars, loopVars, sharedVars, procVars
  <1>4. BusInv' /\ JobInv' /\ DidInv' /\ AnswersAreTrue'
    BY <1>1, DiskFrame DEF loopVars
  <1>5. FileInv'
    BY <1>1, <1>2, OutsideFileInv DEF sentVars, durableVars, loopVars
  <1>6. \A q \in Paths : WriterAlone(q)' => WriterAlone(q) /\ q # p
    <2>1. \A q \in Paths : WriterAlone(q)' => WriterAlone(q)
      BY <1>1 DEF WriterAlone, sentVars, durableVars
    <2>2. Outside \notin Commands
      BY FileAssumption DEF Commands
    <2>3. ~WriterAlone(p)
      BY <1>1, <2>2 DEF OrderInv, PathInv, PathCore
    <2> QED BY <2>1, <2>3
  <1>7. OrderInv'
    BY <1>1, <1>2, <1>6, OrderFrame DEF sentVars, loopVars
  <1> QED BY <1>3, <1>4, <1>5, <1>7

-------------------------------------------------------------------------------
(* _handle() is over.                                                      *)

LEMMA NakedShape ==
  ASSUME CommandIInv, NEW e \in Commands, num[e] > 0, status[e] # "acked"
  PROVE  /\ Naked(e) \in {"redo", "dead"} /\ (Naked(e) = "redo" => num[e] < MaxDeliver)
         /\ status[e] \in {"out", "redo", "dead"} /\ (status[e] = "redo" => num[e] < MaxDeliver)
  <1>1. num[e] # 0
    BY FileAssumption DEF CommandIInv, CommandTypeOK
  <1>2. status[e] \in {"out", "redo", "dead"} /\ (status[e] = "redo" => num[e] < MaxDeliver)
    BY <1>1 DEF CommandIInv, BusInv, CommandTypeOK
  <1> QED BY <1>2 DEF Naked, Again

LEMMA AfterShape ==
  ASSUME NEW B
  PROVE  After(B) \in {"polling", "busy", "done"} /\ (After(B) # "busy" => B = {})
  BY DEF After

LEMMA LeaveStep ==
  ASSUME CommandIInv, NEW k \in Kinds, job[k].at # "idle",
         NEW s \in {"out", "redo", "acked", "dead"},
         s = "redo" => num[job[k].ev] < MaxDeliver,
         s = "acked" => job[k].at = "ack",
         Leave(k, s)
  PROVE  CommandIInv'
  <1> USE DEF CommandIInv
  <1>1. PICK e \in Commands : e = job[k].ev /\ AtInv(k, e, job[k].at, job[k].says)
    BY AtJob
  <1>2. /\ job' = [job EXCEPT ![k] = Idle] /\ loop' = [loop EXCEPT ![k] = After(batch[k])]
        /\ status' = [status EXCEPT ![e] = s]
        /\ linked' = (IF k = "write" THEN TRUE ELSE linked)
        /\ UNCHANGED <<sentVars, num, said, diskVars, batch, sharedVars, procVars>>
    BY <1>1 DEF Leave
  <1>3. cmd[e].kind = k /\ num[e] > 0 /\ (s = "acked" => ~Accepted(e) \/ said[e] # <<>>)
    BY <1>1 DEF AtInv
  <1>4. status' \in [Commands -> {"new", "out", "redo", "acked", "dead"}] /\ BusInv'
    BY <1>1, <1>2, <1>3, AgainStep DEF sentVars
  <1>5. /\ status'[e] = s /\ \A d \in Commands : d # e => status'[d] = status[d]
        /\ job'[k] = Idle /\ loop'[k] = After(batch[k])
        /\ \A j \in Kinds : j # k => job'[j] = job[j] /\ loop'[j] = loop[j]
    BY <1>2 DEF CommandTypeOK
  <1>6. CommandTypeOK'
    <2>1. job' \in [Kinds -> {Idle} \cup Handled] /\ loop' \in [Kinds -> {"polling", "busy", "done"}]
      BY <1>2, AfterShape DEF CommandTypeOK, Handled
    <2>2. linked' \in BOOLEAN
      BY <1>2 DEF CommandTypeOK
    <2> QED BY <1>2, <1>4, <2>1, <2>2 DEF CommandTypeOK, Handled, sentVars, diskVars, sharedVars, procVars
  <1>7. JobInv'
    <2>1. LoopInv(k) /\ batch[k] \subseteq Commands /\ job[k] # Idle
      BY JobShape DEF JobInv, CommandTypeOK
    <2>2. loop[k] = "busy" /\ phase # "down" /\ e \notin batch[k]
      BY <1>1, <2>1 DEF LoopInv
    <2>3. job'[k].ev \notin batch[k]
      BY <1>5, <2>1, CommandsAreNat DEF Idle
    <2>4. \A d \in batch[k] : cmd[d].kind = k /\ Unanswered(d)' /\ (num[d] = 1 => d \notin did)
      BY <1>2, <1>5, <2>1, <2>2 DEF LoopInv, Unanswered
    <2>5. LoopInv(k)'
      BY <1>2, <1>5, <2>2, <2>3, <2>4, AfterShape DEF LoopInv, sentVars, diskVars, procVars
    <2> QED BY <1>2, <1>3, <1>5, <2>5, JobStep DEF sentVars, diskVars, procVars
  <1>8. DidInv'
    BY <1>2 DEF DidInv, diskVars
  <1>9. AnswersAreTrue'
    BY <1>2, <1>3, <1>5, AnswersStep DEF sentVars, diskVars
  <1>10. k = "write" => linked' = TRUE /\ job'["write"].ev = 0 /\ job'["write"].at = "idle"
    <2>1. Idle.ev = 0 /\ Idle.at = "idle"
      BY DEF Idle
    <2> QED BY <1>2, <1>5, <2>1
  <1>11. k # "write" => linked' = linked /\ job'["write"] = job["write"]
    BY <1>2, <1>5, KindsShape
  <1>12. FileInv'
    <2>1. s = "acked" => \A p \in Paths : file[p] # Absent /\ file[p].by = e => file[p].size = 1
      <3> SUFFICES ASSUME s = "acked", NEW p \in Paths, file[p] # Absent, file[p].by = e
                   PROVE  file[p].size = 1
        OBVIOUS
      <3>1. cmd[e].kind = "write"
        BY DEF FileInv, Owned
      <3>2. k = "write" /\ job["write"].at = "ack" /\ job["write"].ev = e
        BY <1>1, <1>3, <3>1
      <3> QED BY <3>2 DEF FileInv
    <2>2. \A d \in Commands : status'[d] = "acked" =>
            \/ status[d] = "acked"
            \/ \A p \in Paths : file[p] # Absent /\ file[p].by = d => file[p].size = 1
      BY <1>5, <2>1
    <2>3. \/ linked' = linked /\ job'["write"] = job["write"]
          \/ linked' /\ job'["write"].at \in {"idle", "open"}
      BY <1>10, <1>11
    <2> QED BY <1>2, <1>6, <2>2, <2>3, FileFrame DEF sentVars, diskVars
  <1>13. OrderInv'
    <2>1. \A p \in Paths : WriterAlone(p)' => WriterAlone(p)
      BY <1>2 DEF WriterAlone, sentVars, diskVars
    <2>2. \/ linked' = linked /\ job'["write"] = job["write"]
          \/ \A p \in Paths : job'["write"].ev \notin WritesOf(p)
      BY <1>10, <1>11, CommandsAreNat DEF WritesOf
    <2> QED BY <1>2, <2>1, <2>2, OrderFrame DEF sentVars, diskVars
  <1> QED BY <1>4, <1>6, <1>7, <1>8, <1>9, <1>12, <1>13

LEMMA AckJobIInv == ASSUME CommandIInv, NEW k \in Kinds, AckJob(k) PROVE CommandIInv'
  <1>1. PICK s \in {"acked", status[job[k].ev]} : Leave(k, s)
    BY DEF AckJob
  <1>2. job[k].at = "ack"
    BY DEF AckJob, At
  <1>3. job[k].ev \in Commands /\ AtInv(k, job[k].ev, job[k].at, job[k].says)
    BY <1>2, AtJob
  <1>4. /\ status[job[k].ev] \in {"out", "redo", "dead"}
        /\ status[job[k].ev] = "redo" => num[job[k].ev] < MaxDeliver
    BY <1>3, NakedShape DEF AtInv
  <1>5. s \in {"out", "redo", "acked", "dead"} /\ (s = "redo" => num[job[k].ev] < MaxDeliver)
    BY <1>1, <1>4
  <1> QED BY <1>1, <1>2, <1>5, LeaveStep

\* nak(), of a command that was not answered.
LEMMA NakStep ==
  ASSUME CommandIInv, NEW k \in Kinds, job[k].at # "idle", Leave(k, Naked(job[k].ev))
  PROVE  CommandIInv'
  <1>1. job[k].ev \in Commands /\ AtInv(k, job[k].ev, job[k].at, job[k].says)
    BY AtJob
  <1>2. /\ Naked(job[k].ev) \in {"redo", "dead"}
        /\ Naked(job[k].ev) = "redo" => num[job[k].ev] < MaxDeliver
    BY <1>1, NakedShape DEF AtInv
  <1>3. PICK s \in {"redo", "dead"} : s = Naked(job[k].ev)
    BY <1>2
  <1>4. s \in {"out", "redo", "acked", "dead"} /\ s # "acked" /\ Leave(k, s)
    BY <1>3
  <1> QED BY <1>2, <1>3, <1>4, LeaveStep

LEMMA WriteFailsIInv == ASSUME CommandIInv, WriteFails PROVE CommandIInv'
  BY KindsShape, NakStep DEF WriteFails, At

LEMMA ReadFailsIInv == ASSUME CommandIInv, ReadFails PROVE CommandIInv'
  BY KindsShape, NakStep DEF ReadFails, At

LEMMA TakeFailsIInv ==
  ASSUME CommandIInv, NEW k \in Kinds, NEW e \in batch[k], TakeFails(k, e) PROVE CommandIInv'
  <1> USE DEF CommandIInv
  <1>1. /\ e \in Commands /\ cmd[e].kind = k /\ Unanswered(e) /\ num[e] > 0
        /\ loop[k] = "busy" /\ phase # "down"
    BY BatchFacts
  <1>2. PICK s \in {"redo", "dead"} : s = Naked(e) /\ (s = "redo" => num[e] < MaxDeliver)
    BY <1>1, NakedShape DEF Unanswered
  <1>3. /\ job[k] = Idle /\ batch' = [batch EXCEPT ![k] = batch[k] \ {e}]
        /\ loop' = [loop EXCEPT ![k] = After(batch'[k])]
        /\ status' = [status EXCEPT ![e] = s]
        /\ UNCHANGED <<sentVars, num, said, diskVars, job, linked, sharedVars, procVars>>
    BY <1>2 DEF TakeFails, Taken
  <1>4. status' \in [Commands -> {"new", "out", "redo", "acked", "dead"}] /\ BusInv'
    BY <1>1, <1>2, <1>3, AgainStep DEF sentVars
  <1>5. /\ status'[e] = s /\ \A d \in Commands : d # e => status'[d] = status[d]
        /\ batch'[k] = batch[k] \ {e} /\ batch' \in [Kinds -> SUBSET Commands]
        /\ \A j \in Kinds : j # k => batch'[j] = batch[j]
    BY <1>3 DEF CommandTypeOK
  <1>6. /\ loop' \in [Kinds -> {"polling", "busy", "done"}] /\ loop'[k] = After(batch'[k])
        /\ \A j \in Kinds : j # k => loop'[j] = loop[j]
    BY <1>3, AfterShape DEF CommandTypeOK
  <1>7. CommandTypeOK'
    BY <1>3, <1>4, <1>5, <1>6 DEF CommandTypeOK, sentVars, diskVars, sharedVars, procVars
  <1>8. JobInv'
    <2>1. LoopInv(k) /\ batch[k] \subseteq Commands
      BY DEF JobInv, CommandTypeOK
    <2>2. \A d \in batch'[k] : cmd[d].kind = k /\ Unanswered(d)' /\ (num[d] = 1 => d \notin did)
      BY <1>3, <1>5, <2>1 DEF LoopInv, Unanswered
    <2>3. LoopInv(k)'
      BY <1>1, <1>3, <1>5, <1>6, <2>1, <2>2, AfterShape DEF LoopInv, sentVars, diskVars, procVars
    <2> QED BY <1>1, <1>3, <1>5, <1>6, <2>3, JobStep DEF sentVars, diskVars, procVars
  <1>9. DidInv'
    BY <1>3 DEF DidInv, diskVars
  <1>10. AnswersAreTrue'
    BY <1>2, <1>3, <1>5, AnswersStep DEF sentVars, diskVars
  <1>11. FileInv'
    BY <1>2, <1>3, <1>5, <1>7, FileFrame DEF sentVars, diskVars
  <1>12. OrderInv'
    <2>1. \A p \in Paths : WriterAlone(p)' => WriterAlone(p)
      BY <1>3 DEF WriterAlone, sentVars, diskVars
    <2>2. batch'["write"] \subseteq batch["write"]
      BY <1>5, KindsShape
    <2> QED BY <1>3, <2>1, <2>2, OrderFrame DEF sentVars, diskVars
  <1> QED BY <1>4, <1>7, <1>8, <1>9, <1>10, <1>11, <1>12

-------------------------------------------------------------------------------
(* The write handler.                                                      *)

\* _handle() gets from one await to the next.
LEMMA GotoStep ==
  ASSUME CommandIInv, NEW k \in Kinds, job[k].at # "idle",
         NEW e \in Commands, e = job[k].ev, NEW a, a = job[k].says,
         NEW step \in {"open", "write", "mark", "read", "publish", "ack"}, Goto(k, step),
         UNCHANGED <<arrived, cmd, status, num, loop, batch, phase>>,
         \A d \in Commands : d # e => said'[d] = said[d] /\ (d \in did' <=> d \in did),
         did' \subseteq Commands,
         AtInv(k, e, step, a)'
  PROVE  /\ job' \in [Kinds -> {Idle} \cup Handled]
         /\ job'[k].ev = e /\ job'[k].at = step /\ job'[k].says = a
         /\ \A j \in Kinds : j # k => job'[j] = job[j]
         /\ BusInv' /\ JobInv' /\ DidInv'
  <1> USE DEF CommandIInv
  <1> DEFINE h == [job[k] EXCEPT !.at = step]
  <1>1. job[k] \in Handled /\ AtInv(k, e, job[k].at, a)
    BY AtJob
  <1>2. h \in Handled /\ h.ev = e /\ h.at = step /\ h.says = a
    BY <1>1 DEF Handled
  <1>3. job' = [job EXCEPT ![k] = h]
    BY DEF Goto
  <1> HIDE DEF h
  <1>4. /\ job' \in [Kinds -> {Idle} \cup Handled] /\ job'[k] = h
        /\ \A j \in Kinds : j # k => job'[j] = job[j]
    BY <1>2, <1>3 DEF CommandTypeOK, Handled
  <1>5. BusInv'
    BY DEF BusInv
  <1>6. cmd[e].kind = k /\ num[e] > 0
    BY <1>1 DEF AtInv
  <1>7. DidInv'
    BY <1>6 DEF DidInv
  <1>8. LoopInv(k)'
    <2>1. LoopInv(k) /\ batch[k] \subseteq Commands /\ job[k] # Idle
      BY JobShape DEF JobInv, CommandTypeOK
    <2>2. loop[k] = "busy" /\ e \notin batch[k]
      BY <2>1 DEF LoopInv
    <2>3. \A d \in batch[k] : cmd[d].kind = k /\ Unanswered(d)' /\ (num[d] = 1 => d \notin did')
      BY <2>1, <2>2 DEF LoopInv, Unanswered
    <2> QED BY <1>2, <1>4, <2>1, <2>2, <2>3 DEF LoopInv
  <1>9. AtInv(k, job[k].ev, job[k].at, job[k].says)'
    BY <1>2, <1>4 DEF AtInv, Unanswered, Accepted, Decodes, ResolvesWithin
  <1>10. JobInv'
    BY <1>4, <1>6, <1>8, <1>9, JobStep
  <1> QED BY <1>2, <1>4, <1>5, <1>7, <1>10

\* What open(), and then write(), of the write handler do to the directory.
LEMMA OpenStep ==
  ASSUME CommandIInv, UNCHANGED <<cmd, status, num>>,
         job["write"].at = "open", Path("write") # Root,
         file' = [file EXCEPT ![Path("write")] = Opened(Path("write"), job["write"].ev)]
  PROVE  \E p \in Paths, e \in Commands :
            /\ p = Path("write") /\ e = job["write"].ev /\ e \in WritesOf(p)
            /\ file' \in [Paths -> File \cup {Absent}]
            /\ file'[p] = Opened(p, e) /\ \A q \in Paths : q # p => file'[q] = file[q]
            /\ \A q \in Paths : Owned(q)'
  <1> USE DEF CommandIInv
  <1>1. PICK e \in Commands : e = job["write"].ev /\ AtInv("write", e, "open", job["write"].says)
    BY KindsShape, AtJob
  <1>2. Accepted(e) /\ cmd[e].kind = "write" /\ status[e] # "acked" /\ num[e] > 0
    BY <1>1 DEF AtInv
  <1>3. PICK p \in Paths : p = cmd[e].path
    BY <1>1, <1>2, AcceptedPath DEF Path
  <1>4. p = Path("write") /\ e \in WritesOf(p) /\ file' = [file EXCEPT ![p] = Opened(p, e)]
    BY <1>1, <1>2, <1>3 DEF Path, WritesOf
  <1>5. /\ Opened(p, e) \in File /\ Opened(p, e) # Absent
        /\ Opened(p, e).by = e /\ Opened(p, e).size = 0
    BY OpenedShape
  <1>6. /\ file' \in [Paths -> File \cup {Absent}] /\ file'[p] = Opened(p, e)
        /\ \A q \in Paths : q # p => file'[q] = file[q]
    BY <1>4, <1>5 DEF CommandTypeOK
  <1>7. \A q \in Paths : Owned(q)'
    BY <1>2, <1>3, <1>5, <1>6 DEF FileInv, Owned
  <1> QED BY <1>1, <1>4, <1>6, <1>7

LEMMA FillStep ==
  ASSUME CommandIInv, UNCHANGED <<cmd, status, num>>, job["write"].at = "write", Fill
  PROVE  \E p \in Paths, e \in Commands :
            /\ p = Path("write") /\ e = job["write"].ev /\ e \in WritesOf(p)
            /\ file' \in [Paths -> File \cup {Absent}]
            /\ did' = did \cup {e}
            /\ \A q \in Paths : q # p => file'[q] = file[q]
            /\ linked => /\ file'[p] # Absent /\ file'[p].by = e
                         /\ file'[p].born = file[p].born
            /\ \A q \in Paths : Owned(q)'
            /\ \A q \in Paths : file'[q] # Absent /\ file'[q].by = e => file'[q].size = 1
  <1> USE DEF CommandIInv
  <1>1. PICK e \in Commands : e = job["write"].ev /\ AtInv("write", e, "write", job["write"].says)
    BY KindsShape, AtJob
  <1>2. Accepted(e) /\ cmd[e].kind = "write" /\ status[e] # "acked" /\ num[e] > 0 /\ cmd[e].path # Root
    BY <1>1 DEF AtInv
  <1>3. PICK p \in Paths : p = cmd[e].path
    BY <1>1, <1>2, AcceptedPath
  <1>4. /\ p = Path("write") /\ e \in WritesOf(p) /\ did' = did \cup {e}
        /\ file' = IF linked THEN [file EXCEPT ![p].by = e, ![p].size = 1] ELSE file
    BY <1>1, <1>2, <1>3 DEF Path, WritesOf, Fill
  <1>5. IF linked THEN file[p] # Absent ELSE file[p] = Absent \/ file[p].by # e
    BY <1>1, <1>4 DEF FileInv
  <1>6. \A q \in Paths : file[q] # Absent /\ file[q].by = e => q = p
    BY <1>3 DEF FileInv, Owned
  <1>7. CASE linked
    <2>1. /\ file' \in [Paths -> File \cup {Absent}]
          /\ \A q \in Paths : q # p => file'[q] = file[q]
          /\ file'[p] \in File /\ file'[p] # Absent
          /\ file'[p].born = file[p].born /\ file'[p].by = e /\ file'[p].size = 1
      <3>1. e \in Writers /\ 1 \in Sizes /\ file[p] # Absent
            /\ file' = [file EXCEPT ![p].by = e, ![p].size = 1]
        BY <1>4, <1>5, <1>7 DEF Writers, Sizes
      <3>2. file' = Filled(p, e, 1)
        BY <3>1, Zenon DEF Filled
      <3>3. CommandTypeOK /\ e \in Writers /\ 1 \in Sizes /\ file[p] # Absent
        BY <3>1
      <3> QED BY <3>2, <3>3, FillShape
    <2>2. \A q \in Paths : Owned(q)'
      BY <1>2, <1>3, <2>1 DEF FileInv, Owned
    <2>3. \A q \in Paths : file'[q] # Absent /\ file'[q].by = e => file'[q].size = 1
      BY <1>6, <2>1
    <2>4. p = Path("write") /\ e \in WritesOf(p) /\ did' = did \cup {e} /\ e = job["write"].ev
      BY <1>1, <1>4
    <2>5. linked => file'[p] # Absent /\ file'[p].by = e /\ file'[p].born = file[p].born
      BY <2>1
    <2>6. file' \in [Paths -> File \cup {Absent}] /\ \A q \in Paths : q # p => file'[q] = file[q]
      BY <2>1
    <2> QED BY <2>2, <2>3, <2>4, <2>5, <2>6
  <1>8. CASE ~linked
    <2>1. file' = file
      BY <1>4, <1>8
    <2>2. \A q \in Paths : Owned(q)'
      BY <2>1 DEF FileInv, Owned
    <2>3. \A q \in Paths : file'[q] # Absent /\ file'[q].by = e => file'[q].size = 1
      BY <1>5, <1>6, <1>8, <2>1
    <2>4. file' \in [Paths -> File \cup {Absent}]
      BY <2>1 DEF CommandTypeOK
    <2> QED BY <1>1, <1>4, <1>8, <2>1, <2>2, <2>3, <2>4
  <1> QED BY <1>7, <1>8

\* A path with one writer, when the handler opens, fills or answers for it.
LEMMA CoreStep ==
  ASSUME CommandIInv, NEW p \in Paths, WriterAlone(p), UNCHANGED cmd,
         NEW e, e = job["write"].ev,
         \A d \in WritesOf(p) :
            \/ said'[d] = said[d]
            \/ /\ job["write"].at = "publish" /\ d = e
               /\ said'[d] = Append(said[d], job["write"].says),
         \/ file'[p] = file[p] /\ \A d \in WritesOf(p) : d \in did' => d \in did
         \/ /\ job["write"].at = "open" /\ e \in WritesOf(p)
            /\ file'[p] = Opened(p, e) /\ did' = did
         \/ /\ job["write"].at = "write" /\ e \in WritesOf(p) /\ did' = did \cup {e}
            /\ linked => file'[p] # Absent /\ file'[p].by = e /\ file'[p].born = file[p].born
  PROVE  PathCore(p)'
  <1> USE DEF CommandIInv
  <1>1. PathCore(p) /\ PathJob(p)
    BY DEF OrderInv, PathInv
  <1>2. WritesOf(p)' = WritesOf(p) /\ WritesOf(p) \subseteq Commands
    BY DEF WritesOf
  <1>3. \A d \in Commands : d \in Nat
    BY CommandsAreNat
  <1>4. CASE file'[p] = file[p] /\ \A d \in WritesOf(p) : d \in did' => d \in did
    <2>1. ASSUME NEW d \in WritesOf(p), NEW i \in 1 .. Len(said'[d])
          PROVE  file'[p] # Absent /\ (said'[d][i] = "created") = (file'[p].born = d)
      <3>1. CASE said'[d] = said[d]
        BY <1>1, <1>4, <2>1, <3>1 DEF PathCore
      <3>2. CASE /\ job["write"].at = "publish" /\ d = e
                 /\ said'[d] = Append(said[d], job["write"].says)
        <4>1. file[p] # Absent /\ (job["write"].says = "created") = (file[p].born = e)
          BY <1>1, <2>1, <3>2 DEF PathJob
        <4>2. said[d] \in Seq(Answers) /\ d \in Commands
          BY <1>2 DEF CommandTypeOK
        <4>3. i \in 1 .. Len(said[d]) \/ i = Len(said[d]) + 1
          <5>1. Len(said'[d]) = Len(said[d]) + 1 /\ Len(said[d]) \in Nat
            BY <3>2, <4>2
          <5> QED BY <2>1, <5>1
        <4>4. CASE i \in 1 .. Len(said[d])
          <5>1. said'[d][i] = said[d][i]
            BY <3>2, <4>2, <4>4
          <5> QED BY <1>1, <1>4, <4>4, <5>1 DEF PathCore
        <4>5. CASE i = Len(said[d]) + 1
          <5>1. said'[d][i] = job["write"].says
            BY <3>2, <4>2, <4>5
          <5> QED BY <1>4, <3>2, <4>1, <5>1
        <4> QED BY <4>3, <4>4, <4>5
      <3> QED BY <3>1, <3>2
    <2>2. file'[p] # Absent =>
            file'[p].born \in Commands /\ file'[p].by \in Commands /\ file'[p].born <= file'[p].by
      BY <1>1, <1>4 DEF PathCore
    <2>3. \A d \in WritesOf(p) : d \in did' => file'[p] # Absent /\ d <= file'[p].by
      BY <1>1, <1>4 DEF PathCore
    <2> QED BY <1>2, <2>1, <2>2, <2>3 DEF PathCore
  <1>5. CASE /\ job["write"].at = "open" /\ e \in WritesOf(p)
             /\ file'[p] = Opened(p, e) /\ did' = did
    <2>1. e \in Commands /\ (file[p] # Absent => file[p].by < e)
      BY <1>1, <1>2, <1>5 DEF PathJob
    <2>2. /\ file'[p] # Absent /\ file'[p].by = e
          /\ file[p] = Absent => file'[p].born = e
          /\ file[p] # Absent => file'[p].born = file[p].born
      BY <1>5, <2>1, OpenedShape
    <2>3. file'[p].born \in Commands /\ file'[p].by \in Commands /\ file'[p].born <= file'[p].by
      <3>1. CASE file[p] = Absent
        BY <1>3, <2>1, <2>2, <3>1
      <3>2. CASE file[p] # Absent
        <4>1. file[p].born \in Commands /\ file[p].by \in Commands /\ file[p].born <= file[p].by
          BY <1>1, <3>2 DEF PathCore
        <4>2. file[p].born \in Nat /\ file[p].by \in Nat /\ e \in Nat
          BY <1>3, <2>1, <4>1
        <4> QED BY <2>1, <2>2, <3>2, <4>1, <4>2
      <3> QED BY <3>1, <3>2
    <2>4. ASSUME NEW d \in WritesOf(p)
          PROVE  /\ d \in did' => file'[p] # Absent /\ d <= file'[p].by
                 /\ \A i \in 1 .. Len(said'[d]) :
                       file'[p] # Absent /\ (said'[d][i] = "created") = (file'[p].born = d)
      <3>1. said'[d] = said[d]
        BY <1>5
      <3>2. ASSUME d \in did PROVE d <= e
        <4>1. file[p] # Absent /\ d <= file[p].by /\ file[p].by \in Commands
          BY <1>1, <3>2 DEF PathCore
        <4>2. d \in Nat /\ e \in Nat /\ file[p].by \in Nat
          BY <1>2, <1>3, <2>1, <4>1
        <4> QED BY <2>1, <4>1, <4>2
      <3>3. ASSUME NEW i \in 1 .. Len(said[d])
            PROVE  (said[d][i] = "created") = (file'[p].born = d)
        BY <1>1, <2>2 DEF PathCore
      <3> QED BY <1>5, <2>2, <3>1, <3>2, <3>3
    <2> QED BY <1>2, <2>3, <2>4 DEF PathCore
  <1>6. CASE /\ job["write"].at = "write" /\ e \in WritesOf(p) /\ did' = did \cup {e}
             /\ linked => file'[p] # Absent /\ file'[p].by = e /\ file'[p].born = file[p].born
    <2>1. linked /\ file[p] # Absent /\ file[p].by = e
      BY <1>1, <1>6 DEF PathJob
    <2>2. file'[p] # Absent /\ file'[p].by = file[p].by /\ file'[p].born = file[p].born
      BY <1>6, <2>1
    <2>3. ASSUME NEW d \in WritesOf(p)
          PROVE  /\ d \in did' => file'[p] # Absent /\ d <= file'[p].by
                 /\ \A i \in 1 .. Len(said'[d]) :
                       file'[p] # Absent /\ (said'[d][i] = "created") = (file'[p].born = d)
      <3>1. said'[d] = said[d]
        BY <1>6
      <3>2. d \in did' => d <= e
        BY <1>1, <1>2, <1>3, <1>6, <2>1 DEF PathCore
      <3>3. \A i \in 1 .. Len(said[d]) : (said[d][i] = "created") = (file'[p].born = d)
        BY <1>1, <2>2 DEF PathCore
      <3> QED BY <2>1, <2>2, <3>1, <3>2, <3>3
    <2> QED BY <1>1, <1>2, <2>1, <2>2, <2>3 DEF PathCore
  <1> QED BY <1>4, <1>5, <1>6

LEMMA WriteOpensIInv == ASSUME CommandIInv, WriteOpens PROVE CommandIInv'
  <1> USE KindsShape DEF CommandIInv
  <1>1. /\ job["write"].at = "open" /\ Path("write") # Root
        /\ file' = [file EXCEPT ![Path("write")] = Opened(Path("write"), job["write"].ev)]
        /\ Goto("write", "write")
        /\ UNCHANGED <<sentVars, durableVars, said, did, outside, loop, batch, linked, marked,
                       procVars>>
    BY DEF WriteOpens, At
  <1>2. UNCHANGED <<arrived, cmd, status, num, phase>>
    BY <1>1 DEF sentVars, durableVars, procVars
  <1>3. PICK p \in Paths, e \in Commands :
            /\ p = Path("write") /\ e = job["write"].ev /\ e \in WritesOf(p)
            /\ file' \in [Paths -> File \cup {Absent}]
            /\ file'[p] = Opened(p, e) /\ \A q \in Paths : q # p => file'[q] = file[q]
            /\ \A q \in Paths : Owned(q)'
    BY <1>1, <1>2, OpenStep
  <1>4. PICK a : a = job["write"].says
    OBVIOUS
  <1>5. AtInv("write", e, "open", a) /\ cmd[e].path = p
    BY <1>1, <1>3, <1>4, AtJob DEF WritesOf
  <1>6. AtInv("write", e, "write", a)'
    <2>1. p # Root
      BY <1>3, <1>1
    <2> QED BY <1>1, <1>2, <1>5, <2>1 DEF AtInv, Unanswered, Accepted, Decodes, ResolvesWithin
  <1>7. /\ job' \in [Kinds -> {Idle} \cup Handled]
        /\ job'["write"].ev = e /\ job'["write"].at = "write" /\ job'["write"].says = a
        /\ \A j \in Kinds : j # "write" => job'[j] = job[j]
        /\ BusInv' /\ JobInv' /\ DidInv'
    <2>1. did' \subseteq Commands
      BY <1>1 DEF CommandTypeOK
    <2> QED BY <1>1, <1>2, <1>3, <1>4, <1>6, <2>1, GotoStep
  <1>8. added' \subseteq Paths
    BY <1>3 DEF WriteOpens, Notice, CommandTypeOK
  <1>9. CommandTypeOK'
    BY <1>1, <1>3, <1>7, <1>8 DEF CommandTypeOK, Handled, sentVars, durableVars, procVars
  <1>10. AnswersAreTrue'
    BY <1>1, <1>2, AnswersStep
  <1>11. file'[p] # Absent /\ file'[p].by = e
         /\ (file[p] = Absent => file'[p].born = e)
         /\ (file[p] # Absent => file'[p].born = file[p].born)
    BY <1>3, OpenedShape
  <1>12. linked
    BY <1>1 DEF FileInv
  <1>13. FileInv'
    <2>1. Path("write")' = p
      BY <1>2, <1>5, <1>7 DEF Path
    <2> QED BY <1>1, <1>3, <1>7, <1>11, <1>12, <2>1 DEF FileInv
  <1>14. OrderInv'
    <2> SUFFICES ASSUME NEW q \in Paths, WriterAlone(q)' PROVE PathInv(q)'
      BY DEF OrderInv
    <2>1. WriterAlone(q) /\ PathInv(q)
      BY <1>1, <1>2 DEF OrderInv, WriterAlone
    <2>2. WritesOf(q)' = WritesOf(q) /\ (e \in WritesOf(q) <=> q = p) /\ WritesOf(q) \subseteq Commands
      BY <1>2, <1>3 DEF WritesOf
    <2>3. PathCore(q)'
      BY <1>1, <1>2, <1>3, <2>1, <2>2, CoreStep
    <2>4. PathBatch(q)'
      <3>1. CASE q = p
        BY <1>1, <1>3, <1>7, <1>11, <2>1, <2>2, <3>1 DEF PathInv, PathBatch
      <3>2. CASE q # p
        BY <1>1, <1>3, <1>7, <2>1, <2>2, <3>2 DEF PathInv, PathBatch
      <3> QED BY <3>1, <3>2
    <2>5. PathJob(q)'
      <3>1. CASE q = p
        <4>1. /\ file[p] # Absent => file[p].by < e
              /\ (a = "created") = (file[p] = Absent)
          BY <1>1, <1>3, <1>4, <2>1, <3>1 DEF PathInv, PathJob
        <4>2. (a = "created") = (file'[p].born = e)
          <5>1. CASE file[p] = Absent
            BY <4>1, <5>1, <1>11
          <5>2. CASE file[p] # Absent
            <6>1. file[p].born \in Commands /\ file[p].by \in Commands /\ file[p].born <= file[p].by
              BY <2>1, <3>1, <5>2 DEF PathInv, PathCore
            <6>2. file[p].born \in Nat /\ file[p].by \in Nat /\ e \in Nat
              BY <6>1, CommandsAreNat
            <6>3. file[p].born # e
              BY <4>1, <5>2, <6>1, <6>2
            <6> QED BY <4>1, <5>2, <6>3, <1>11
          <5> QED BY <5>1, <5>2
        <4> QED BY <1>1, <1>7, <1>11, <1>12, <2>2, <3>1, <4>2 DEF PathJob
      <3>2. CASE q # p
        BY <1>7, <2>2, <3>2 DEF PathJob
      <3> QED BY <3>1, <3>2
    <2> QED BY <2>3, <2>4, <2>5 DEF PathInv
  <1> QED BY <1>7, <1>9, <1>10, <1>13, <1>14

LEMMA WriteFillsIInv == ASSUME CommandIInv, WriteFills PROVE CommandIInv'
  <1> USE KindsShape DEF CommandIInv
  <1>1. /\ job["write"].at = "write" /\ Fill /\ Goto("write", "mark")
        /\ UNCHANGED <<sentVars, durableVars, said, outside, loop, batch, linked, sharedVars,
                       procVars>>
    BY DEF WriteFills, At
  <1>2. UNCHANGED <<arrived, cmd, status, num, phase>>
    BY <1>1 DEF sentVars, durableVars, procVars
  <1>3. PICK p \in Paths, e \in Commands :
            /\ p = Path("write") /\ e = job["write"].ev /\ e \in WritesOf(p)
            /\ file' \in [Paths -> File \cup {Absent}]
            /\ did' = did \cup {e}
            /\ \A q \in Paths : q # p => file'[q] = file[q]
            /\ linked => /\ file'[p] # Absent /\ file'[p].by = e
                         /\ file'[p].born = file[p].born
            /\ \A q \in Paths : Owned(q)'
            /\ \A q \in Paths : file'[q] # Absent /\ file'[q].by = e => file'[q].size = 1
    BY <1>1, <1>2, FillStep
  <1>4. PICK a : a = job["write"].says
    OBVIOUS
  <1>5. AtInv("write", e, "write", a) /\ cmd[e].path = p
    BY <1>1, <1>3, <1>4, AtJob DEF WritesOf
  <1>6. AtInv("write", e, "mark", a)'
    BY <1>1, <1>2, <1>3, <1>5 DEF AtInv, Unanswered, Accepted, Decodes, ResolvesWithin
  <1>7. /\ job' \in [Kinds -> {Idle} \cup Handled]
        /\ job'["write"].ev = e /\ job'["write"].at = "mark" /\ job'["write"].says = a
        /\ \A j \in Kinds : j # "write" => job'[j] = job[j]
        /\ BusInv' /\ JobInv' /\ DidInv'
    <2>1. did' \subseteq Commands /\ \A d \in Commands : d # e => (d \in did' <=> d \in did)
      BY <1>3 DEF CommandTypeOK
    <2> QED BY <1>1, <1>2, <1>3, <1>4, <1>6, <2>1, GotoStep
  <1>8. did' \subseteq Commands
    BY <1>3 DEF CommandTypeOK
  <1>9. CommandTypeOK'
    BY <1>1, <1>3, <1>7, <1>8 DEF CommandTypeOK, Handled, sentVars, durableVars, procVars, sharedVars
  <1>10. AnswersAreTrue'
    <2>1. Unanswered(e)
      BY <1>5 DEF AtInv
    <2>2. did \subseteq did' /\ \A d \in Commands : d \in did' => d \in did \/ Unanswered(d)
      BY <1>3, <2>1
    <2> QED BY <1>1, <1>2, <2>2, AnswersStep
  <1>11. FileInv'
    <2>1. linked => job'["write"].at # "write"
      BY <1>7
    <2> QED BY <1>1, <1>3, <1>7, <2>1 DEF FileInv
  <1>12. OrderInv'
    <2> SUFFICES ASSUME NEW q \in Paths, WriterAlone(q)' PROVE PathInv(q)'
      BY DEF OrderInv
    <2>1. WriterAlone(q) /\ PathInv(q)
      BY <1>1, <1>2 DEF OrderInv, WriterAlone
    <2>2. WritesOf(q)' = WritesOf(q) /\ (e \in WritesOf(q) <=> q = p) /\ WritesOf(q) \subseteq Commands
      BY <1>2, <1>3 DEF WritesOf
    <2>3. PathCore(q)'
      <3>1. CASE q = p
        BY <1>1, <1>2, <1>3, <2>1, <2>2, <3>1, CoreStep
      <3>2. CASE q # p
        <4>1. file'[q] = file[q] /\ \A d \in WritesOf(q) : d \in did' => d \in did
          BY <1>3, <2>2, <3>2
        <4> QED BY <1>1, <1>2, <1>3, <2>1, <4>1, CoreStep
      <3> QED BY <3>1, <3>2
    <2>4. q = p => /\ file[p] # Absent /\ file[p].by = e /\ linked
                   /\ (a = "created") = (file[p].born = e)
      BY <1>1, <1>3, <1>4, <2>1 DEF PathInv, PathJob
    <2>5. PathBatch(q)'
      <3>1. file'[q] # Absent => file[q] # Absent /\ file'[q].by = file[q].by
        BY <1>3, <2>4
      <3> QED BY <1>1, <1>3, <1>7, <2>1, <2>2, <3>1 DEF PathInv, PathBatch
    <2>6. PathJob(q)'
      BY <1>3, <1>7, <2>2, <2>4 DEF PathJob
    <2> QED BY <2>3, <2>5, <2>6 DEF PathInv
  <1> QED BY <1>7, <1>9, <1>10, <1>11, <1>12

\* _handle() goes on without touching the directory.
LEMMA GotoOnly ==
  ASSUME CommandIInv, NEW k \in Kinds, job[k].at # "idle",
         NEW step \in {"publish", "ack"}, Goto(k, step),
         NEW e \in Commands, e = job[k].ev, NEW a, a = job[k].says,
         UNCHANGED <<sentVars, durableVars, said, diskVars, loop, batch, linked, added, procVars>>,
         marked' \subseteq Paths,
         k = "write" => job["write"].at \in {"mark", "publish"},
         AtInv(k, e, step, a)'
  PROVE  CommandIInv'
  <1> USE KindsShape DEF CommandIInv
  <1>1. UNCHANGED <<arrived, cmd, status, num, phase, file, did, outside>>
    BY DEF sentVars, durableVars, procVars, diskVars
  <1>2. /\ job' \in [Kinds -> {Idle} \cup Handled]
        /\ job'[k].ev = e /\ job'[k].at = step /\ job'[k].says = a
        /\ \A j \in Kinds : j # k => job'[j] = job[j]
        /\ BusInv' /\ JobInv' /\ DidInv'
    <2>1. did' \subseteq Commands
      BY <1>1 DEF CommandTypeOK
    <2> QED BY <1>1, <2>1, GotoStep
  <1>3. CommandTypeOK'
    BY <1>2 DEF CommandTypeOK, Handled, sentVars, durableVars, procVars, diskVars
  <1>4. AnswersAreTrue'
    BY <1>1, AnswersStep
  <1>5. FileInv'
    BY <1>1, <1>2, <1>3, FileFrame
  <1>6. OrderInv'
    <2>1. \A p \in Paths : WriterAlone(p)' => WriterAlone(p)
      BY <1>1 DEF WriterAlone
    <2> QED BY <1>1, <1>2, <2>1, OrderFrame
  <1> QED BY <1>2, <1>3, <1>4, <1>5, <1>6

LEMMA WriteMarksIInv == ASSUME CommandIInv, WriteMarks PROVE CommandIInv'
  <1> USE KindsShape
  <1>1. /\ job["write"].at = "mark" /\ Goto("write", "publish")
        /\ marked' = marked \cup {Path("write")}
        /\ UNCHANGED <<sentVars, durableVars, said, diskVars, loop, batch, linked, added, procVars>>
    BY DEF WriteMarks, At
  <1>2. PICK e \in Commands : e = job["write"].ev /\ AtInv("write", e, "mark", job["write"].says)
    BY <1>1, AtJob
  <1>3. PICK a : a = job["write"].says
    OBVIOUS
  <1>4. AtInv("write", e, "publish", a)'
    BY <1>1, <1>2, <1>3 DEF AtInv, Unanswered, Accepted, Decodes, ResolvesWithin, Answers,
                            sentVars, durableVars, diskVars
  <1>5. marked' \subseteq Paths
    <2>1. Path("write") \in Paths
      BY <1>2, AcceptedPath DEF AtInv, Path, CommandIInv
    <2> QED BY <1>1, <2>1 DEF CommandIInv, CommandTypeOK
  <1> QED BY <1>1, <1>2, <1>3, <1>4, <1>5, GotoOnly

LEMMA ReadReadsIInv == ASSUME CommandIInv, ReadReads PROVE CommandIInv'
  <1> USE KindsShape
  <1>1. /\ job["read"].at = "read" /\ Goto("read", "publish")
        /\ UNCHANGED <<sentVars, durableVars, said, diskVars, loop, batch, linked, sharedVars, procVars>>
    BY DEF ReadReads, At
  <1>2. PICK e \in Commands : e = job["read"].ev /\ AtInv("read", e, "read", job["read"].says)
    BY <1>1, AtJob
  <1>3. PICK a : a = job["read"].says
    OBVIOUS
  <1>4. AtInv("read", e, "publish", a)'
    BY <1>1, <1>2, <1>3 DEF AtInv, Unanswered, Accepted, Decodes, ResolvesWithin, Answers,
                            sentVars, durableVars, diskVars
  <1>5. marked' \subseteq Paths /\ UNCHANGED added
    BY <1>1 DEF CommandIInv, CommandTypeOK, sharedVars
  <1> QED BY <1>1, <1>2, <1>3, <1>4, <1>5, GotoOnly

LEMMA PublishAnswerIInv == ASSUME CommandIInv, NEW k \in Kinds, PublishAnswer(k) PROVE CommandIInv'
  <1> USE KindsShape DEF CommandIInv
  <1>1. /\ job[k].at = "publish" /\ Goto(k, "ack")
        /\ said' = [said EXCEPT ![job[k].ev] = Append(@, job[k].says)]
        /\ UNCHANGED <<sentVars, durableVars, diskVars, loop, batch, linked, sharedVars, procVars>>
    BY DEF PublishAnswer, At
  <1>2. PICK e \in Commands : e = job[k].ev /\ AtInv(k, e, "publish", job[k].says)
    BY <1>1, AtJob
  <1>3. PICK a : a = job[k].says
    OBVIOUS
  <1>4. UNCHANGED <<arrived, cmd, status, num, phase, file, did, outside>>
    BY <1>1 DEF sentVars, durableVars, procVars, diskVars
  <1>5. /\ a \in Answers /\ said[e] \in Seq(Answers) /\ DOMAIN said = Commands
        /\ said' = [said EXCEPT ![e] = Append(said[e], a)]
    BY <1>1, <1>2, <1>3 DEF AtInv, CommandTypeOK
  <1>6. /\ said'[e] = Append(said[e], a) /\ \A d \in Commands : d # e => said'[d] = said[d]
        /\ said' \in [Commands -> Seq(Answers)]
    BY <1>5 DEF CommandTypeOK
  <1>7. said'[e] # <<>>
    BY <1>5, <1>6
  <1>8. AtInv(k, e, "ack", a)'
    BY <1>2, <1>3, <1>4, <1>7 DEF AtInv, Accepted, Decodes, ResolvesWithin
  <1>9. /\ job' \in [Kinds -> {Idle} \cup Handled]
        /\ job'[k].ev = e /\ job'[k].at = "ack" /\ job'[k].says = a
        /\ \A j \in Kinds : j # k => job'[j] = job[j]
        /\ BusInv' /\ JobInv' /\ DidInv'
    <2>1. did' \subseteq Commands /\ UNCHANGED <<loop, batch>>
      BY <1>1, <1>4 DEF CommandTypeOK
    <2>2. \A d \in Commands : d # e => said'[d] = said[d] /\ (d \in did' <=> d \in did)
      BY <1>4, <1>6
    <2>3. job[k].at # "idle" /\ Goto(k, "ack") /\ e = job[k].ev /\ a = job[k].says
      BY <1>1, <1>2, <1>3
    <2> QED BY <1>4, <1>8, <2>1, <2>2, <2>3, GotoStep
  <1>10. CommandTypeOK'
    BY <1>1, <1>6, <1>9 DEF CommandTypeOK, Handled, sentVars, durableVars, procVars, sharedVars, diskVars
  <1>11. AnswersAreTrue'
    <2>1. \A d \in Commands : said'[d] = said[d] \/
            \E j \in Kinds : /\ job[j].at = "publish" /\ job[j].ev = d
                             /\ said'[d] = Append(said[d], job[j].says)
      BY <1>1, <1>2, <1>3, <1>6
    <2> QED BY <1>4, <2>1, AnswersStep
  <1>12. FileInv'
    BY <1>1, <1>2, <1>4, <1>9, <1>10, FileFrame
  <1>13. OrderInv'
    <2> SUFFICES ASSUME NEW q \in Paths, WriterAlone(q)' PROVE PathInv(q)'
      BY DEF OrderInv
    <2>1. WriterAlone(q) /\ PathInv(q)
      BY <1>4 DEF OrderInv, WriterAlone
    <2>2. WritesOf(q)' = WritesOf(q) /\ WritesOf(q) \subseteq Commands
      BY <1>4 DEF WritesOf
    <2>3. \A d \in WritesOf(q) :
            \/ said'[d] = said[d]
            \/ /\ job["write"].at = "publish" /\ d = job["write"].ev
               /\ said'[d] = Append(said[d], job["write"].says)
      <3>1. \A d \in WritesOf(q) : cmd[d].kind = "write"
        BY DEF WritesOf
      <3>2. cmd[e].kind = k
        BY <1>2 DEF AtInv
      <3> QED BY <1>1, <1>2, <1>3, <1>6, <2>2, <3>1, <3>2
    <2>4. PathCore(q)'
      BY <1>4, <2>1, <2>3, CoreStep
    <2>5. PathBatch(q)'
      <3>1. job'["write"].ev = job["write"].ev
        BY <1>2, <1>9
      <3> QED BY <1>1, <1>4, <2>1, <2>2, <3>1 DEF PathInv, PathBatch
    <2>6. PathJob(q)'
      <3>1. CASE k = "write"
        BY <1>9, <2>2, <3>1 DEF PathJob
      <3>2. CASE k # "write"
        BY <1>1, <1>4, <1>9, <2>1, <2>2, <3>2 DEF PathInv, PathJob
      <3> QED BY <3>1, <3>2
    <2> QED BY <2>4, <2>5, <2>6 DEF PathInv
  <1> QED BY <1>9, <1>10, <1>11, <1>12, <1>13

-------------------------------------------------------------------------------
(* The process is cut off.                                                 *)

LEMMA MaybeWrittenStep ==
  ASSUME CommandIInv, UNCHANGED <<cmd, status, num>>, MaybeWritten
  PROVE  /\ file' \in [Paths -> File \cup {Absent}] /\ did \subseteq did' /\ did' \subseteq Commands
         /\ \A q \in Paths : Owned(q)'
         /\ \A d \in Commands : d \in did' =>
               d \in did \/ (d = job["write"].ev /\ job["write"].at = "write")
         /\ \A q \in Paths :
               \/ file'[q] = file[q] /\ \A d \in WritesOf(q) : d \in did' => d \in did
               \/ /\ job["write"].at = "open" /\ job["write"].ev \in WritesOf(q)
                  /\ file'[q] = Opened(q, job["write"].ev) /\ did' = did
               \/ /\ job["write"].at = "write" /\ job["write"].ev \in WritesOf(q)
                  /\ did' = did \cup {job["write"].ev}
                  /\ linked => /\ file'[q] # Absent /\ file'[q].by = job["write"].ev
                               /\ file'[q].born = file[q].born
  <1> USE DEF CommandIInv
  <1>1. CASE UNCHANGED <<file, did>>
    <2>1. \A q \in Paths : Owned(q)'
      BY <1>1 DEF FileInv, Owned
    <2> QED BY <1>1, <2>1 DEF CommandTypeOK
  <1>2. CASE /\ job["write"].at = "open" /\ Path("write") # Root
             /\ file' = [file EXCEPT ![Path("write")] = Opened(Path("write"), job["write"].ev)]
             /\ UNCHANGED did
    <2>1. PICK p \in Paths, e \in Commands :
            /\ p = Path("write") /\ e = job["write"].ev /\ e \in WritesOf(p)
            /\ file' \in [Paths -> File \cup {Absent}]
            /\ file'[p] = Opened(p, e) /\ \A q \in Paths : q # p => file'[q] = file[q]
            /\ \A q \in Paths : Owned(q)'
      BY <1>2, OpenStep
    <2>2. did' = did /\ did \subseteq Commands /\ job["write"].at = "open"
      BY <1>2 DEF CommandTypeOK
    <2> QED BY <2>1, <2>2
  <1>3. CASE job["write"].at = "write" /\ Fill
    <2>1. PICK p \in Paths, e \in Commands :
            /\ p = Path("write") /\ e = job["write"].ev /\ e \in WritesOf(p)
            /\ file' \in [Paths -> File \cup {Absent}]
            /\ did' = did \cup {e}
            /\ \A q \in Paths : q # p => file'[q] = file[q]
            /\ linked => /\ file'[p] # Absent /\ file'[p].by = e
                         /\ file'[p].born = file[p].born
            /\ \A q \in Paths : Owned(q)'
      BY <1>3, FillStep
    <2>2. \A q \in Paths : q # p => \A d \in WritesOf(q) : d # e
      BY <2>1 DEF WritesOf
    <2>3. \A q \in Paths :
               \/ q # p /\ file'[q] = file[q] /\ \A d \in WritesOf(q) : d \in did' => d \in did
               \/ q = p
      BY <2>1, <2>2
    <2>4. did \subseteq did' /\ did' \subseteq Commands
      BY <2>1 DEF CommandTypeOK
    <2> QED BY <1>3, <2>1, <2>3, <2>4
  <1> QED BY <1>1, <1>2, <1>3 DEF MaybeWritten

LEMMA CrashIInv == ASSUME CommandIInv, Crash PROVE CommandIInv'
  <1> USE KindsShape DEF CommandIInv
  <1>1. PICK L \in SUBSET {job[k].ev : k \in {j \in Kinds : job[j].at = "publish"}} :
          said' = [e \in Commands |->
              IF e \in L THEN Append(said[e], job[cmd[e].kind].says) ELSE said[e]]
    BY DEF Crash
  <1>2. /\ phase' = "down" /\ MaybeWritten
        /\ loop' = [k \in Kinds |-> "done"] /\ batch' = [k \in Kinds |-> {}]
        /\ job' = [k \in Kinds |-> Idle] /\ linked' = TRUE
        /\ added' = {} /\ marked' = {}
        /\ UNCHANGED <<sentVars, durableVars, outside, start, stopping>>
    BY DEF Crash
  <1>3. UNCHANGED <<arrived, cmd, encFor, status, num>>
    BY <1>2 DEF sentVars, durableVars
  <1>4. /\ file' \in [Paths -> File \cup {Absent}] /\ did \subseteq did' /\ did' \subseteq Commands
        /\ \A q \in Paths : Owned(q)'
        /\ \A d \in Commands : d \in did' =>
              d \in did \/ (d = job["write"].ev /\ job["write"].at = "write")
    BY <1>2, <1>3, MaybeWrittenStep
  <1>5. ASSUME NEW e \in Commands
        PROVE  \/ said'[e] = said[e] /\ e \notin L
               \/ /\ job[cmd[e].kind].at = "publish" /\ job[cmd[e].kind].ev = e
                  /\ said'[e] = Append(said[e], job[cmd[e].kind].says)
    <2>1. CASE e \notin L
      BY <1>1, <2>1
    <2>2. CASE e \in L
      <3>1. PICK k \in Kinds : job[k].at = "publish" /\ job[k].ev = e
        BY <1>1, <2>2
      <3>2. cmd[e].kind = k
        BY <3>1, AtJob DEF AtInv
      <3> QED BY <1>1, <2>2, <3>1, <3>2
    <2> QED BY <2>1, <2>2
  <1>6. \A e \in Commands : cmd[e].kind \in Kinds
    BY DEF CommandTypeOK
  <1>7. /\ AnswersAreTrue'
        /\ \A e \in Commands : said'[e] \in Seq(Answers)
    <2>1. \A e \in Commands : said'[e] = said[e] \/
            \E k \in Kinds : /\ job[k].at = "publish" /\ job[k].ev = e
                             /\ said'[e] = Append(said[e], job[k].says)
      BY <1>5, <1>6
    <2>2. ASSUME NEW e \in Commands, e = job["write"].ev, job["write"].at = "write"
          PROVE  Unanswered(e) /\ said'[e] = said[e]
      <3>1. AtInv("write", e, "write", job["write"].says)
        BY <2>2, AtJob
      <3> QED BY <1>5, <2>2, <3>1 DEF AtInv
    <2>3. \A e \in Commands : e \in did' => e \in did \/ (Unanswered(e) /\ said'[e] = said[e])
      BY <1>4, <2>2
    <2> QED BY <1>3, <1>4, <2>1, <2>3, AnswersStep
  <1>8. CommandTypeOK'
    <2>1. said' \in [Commands -> Seq(Answers)]
      BY <1>1, <1>7
    <2>2. /\ loop' \in [Kinds -> {"polling", "busy", "done"}] /\ batch' \in [Kinds -> SUBSET Commands]
          /\ job' \in [Kinds -> {Idle} \cup Handled]
      BY <1>2
    <2> QED BY <1>2, <1>3, <1>4, <2>1, <2>2 DEF CommandTypeOK, Handled
  <1>9. BusInv'
    BY <1>3 DEF BusInv
  <1>10. \A k \in Kinds : /\ loop'[k] = "done" /\ batch'[k] = {} /\ job'[k] = Idle
                          /\ job'[k].ev = 0 /\ job'[k].at = "idle"
    BY <1>2 DEF Idle
  <1>11. JobInv'
    BY <1>10 DEF JobInv, LoopInv
  <1>12. DidInv'
    <2>1. job["write"].at = "write" => num[job["write"].ev] > 0
      BY AtJob DEF AtInv
    <2> QED BY <1>3, <1>4, <2>1 DEF DidInv, CommandTypeOK
  <1>13. FileInv'
    BY <1>2, <1>4, <1>10 DEF FileInv
  <1>14. OrderInv'
    <2> SUFFICES ASSUME NEW q \in Paths, WriterAlone(q)' PROVE PathInv(q)'
      BY DEF OrderInv
    <2>1. WriterAlone(q) /\ PathInv(q)
      BY <1>2, <1>3 DEF OrderInv, WriterAlone
    <2>2. WritesOf(q)' = WritesOf(q) /\ WritesOf(q) \subseteq Commands
      BY <1>3 DEF WritesOf
    <2>3. \A d \in WritesOf(q) :
            \/ said'[d] = said[d]
            \/ /\ job["write"].at = "publish" /\ d = job["write"].ev
               /\ said'[d] = Append(said[d], job["write"].says)
      BY <1>5 DEF WritesOf
    <2>4. PICK e : e = job["write"].ev
      OBVIOUS
    <2>5. \/ file'[q] = file[q] /\ \A d \in WritesOf(q) : d \in did' => d \in did
          \/ /\ job["write"].at = "open" /\ e \in WritesOf(q)
             /\ file'[q] = Opened(q, e) /\ did' = did
          \/ /\ job["write"].at = "write" /\ e \in WritesOf(q) /\ did' = did \cup {e}
             /\ linked => file'[q] # Absent /\ file'[q].by = e /\ file'[q].born = file[q].born
      BY <1>2, <1>3, <2>4, MaybeWrittenStep
    <2>6. PathCore(q)'
      BY <1>3, <2>1, <2>3, <2>4, <2>5, CoreStep
    <2>7. PathBatch(q)' /\ PathJob(q)'
      BY <1>10, <2>2, CommandsAreNat DEF PathBatch, PathJob
    <2> QED BY <2>6, <2>7 DEF PathInv
  <1> QED BY <1>7, <1>8, <1>9, <1>11, <1>12, <1>13, <1>14

-------------------------------------------------------------------------------
(* FileCommands by itself.                                                 *)

LEMMA CommandInitIInv == ASSUME CommandInit PROVE CommandIInv
  <1> USE KindsShape
  <1>1. cmd \in [Commands -> [kind : Kinds, path : Targets]]
    BY FileAssumption DEF CommandInit, Commands
  <1>2. CommandTypeOK
    <2>1. /\ encFor \in [Commands -> 0 .. MaxStarts] /\ num \in [Commands -> 0 .. MaxDeliver]
          /\ outside \in [Paths -> 0 .. MaxOutside] /\ start \in 0 .. MaxStarts /\ arrived \in 0 .. N
      BY FileAssumption DEF CommandInit
    <2>2. said \in [Commands -> Seq(Answers)]
      BY DEF CommandInit
    <2>3. job \in [Kinds -> {Idle} \cup Handled]
      BY DEF CommandInit
    <2> QED BY <1>1, <2>1, <2>2, <2>3 DEF CommandInit, CommandTypeOK, Handled
  <1>3. BusInv /\ DidInv /\ AnswersAreTrue
    BY <1>2 DEF CommandInit, BusInv, DidInv, AnswersAreTrue
  <1>4. \A k \in Kinds : job[k].ev = 0 /\ job[k].at = "idle" /\ job[k] = Idle /\ batch[k] = {}
    BY DEF CommandInit, Idle
  <1>5. JobInv
    BY <1>4 DEF CommandInit, JobInv, LoopInv
  <1>6. FileInv
    BY <1>4 DEF CommandInit, FileInv, Owned
  <1>7. OrderInv
    <2> SUFFICES ASSUME NEW p \in Paths PROVE PathInv(p)
      BY DEF OrderInv
    <2>1. PathCore(p)
      BY DEF CommandInit, PathCore, WritesOf
    <2>2. PathBatch(p) /\ PathJob(p)
      BY <1>4, CommandsAreNat DEF PathBatch, PathJob, WritesOf
    <2> QED BY <2>1, <2>2 DEF PathInv
  <1> QED BY <1>2, <1>3, <1>5, <1>6, <1>7 DEF CommandIInv

LEMMA CommandStepIInv == ASSUME CommandIInv, CommandStep PROVE CommandIInv'
  <1> USE KindsShape
  <1>1. ASSUME NEW k \in Kinds, FetchStep(k) PROVE CommandIInv'
    BY <1>1, FetchIInv DEF FetchStep
  <1>2. ASSUME NEW k \in Kinds, HandlerStep(k) PROVE CommandIInv'
    <2>1. ASSUME NEW e \in batch[k],
                 \/ TakeBad(k, e)
                 \/ TakeFails(k, e)
                 \/ k = "write" /\ TakeWrite(e)
                 \/ k = "read" /\ TakeRead(e)
                 \/ k = "delete" /\ TakeDelete(e)
                 \/ k = "list" /\ TakeList(e)
          PROVE  CommandIInv'
      BY <2>1, TakeBadIInv, TakeFailsIInv, TakeWriteIInv, TakeReadIInv, TakeDeleteIInv, TakeListIInv
    <2>2. CASE WriteOpens \/ WriteFills \/ WriteFails \/ WriteMarks
      BY <2>2, WriteOpensIInv, WriteFillsIInv, WriteFailsIInv, WriteMarksIInv
    <2>3. CASE ReadReads \/ ReadFails
      BY <2>3, ReadReadsIInv, ReadFailsIInv
    <2>4. CASE PublishAnswer(k) \/ AckJob(k)
      BY <2>4, PublishAnswerIInv, AckJobIInv
    <2> QED BY <1>2, <2>1, <2>2, <2>3, <2>4 DEF HandlerStep
  <1>3. CASE LoopStep
    BY <1>1, <1>2, <1>3 DEF LoopStep
  <1>4. CASE Arrive \/ Sigterm
    BY <1>4, ArriveIInv, SigtermIInv
  <1>5. ASSUME NEW e \in Commands, AckWaitExpires(e) PROVE CommandIInv'
    BY <1>5, AckWaitExpiresIInv
  <1>6. ASSUME NEW p \in Paths, OutsideCreates(p) \/ OutsideRemoves(p) PROVE CommandIInv'
    BY <1>6, OutsideCreatesIInv, OutsideRemovesIInv
  <1> QED BY <1>3, <1>4, <1>5, <1>6 DEF CommandStep

\* A step of others leaves all of it alone.
LEMMA StutterIInv == ASSUME CommandIInv, UNCHANGED commandVars PROVE CommandIInv'
  <1> USE DEF commandVars, sentVars, durableVars, diskVars, loopVars, sharedVars, procVars
  <1>1. CommandTypeOK'
    BY DEF CommandIInv, CommandTypeOK
  <1>2. \A k \in Kinds : LoopInv(k)
    BY DEF CommandIInv, JobInv
  <1>3. \A k \in Kinds :
            /\ phase' = "down" => loop'[k] # "busy"
            /\ loop'[k] # "busy" => batch[k] = {} /\ job[k] = Idle
    BY <1>2 DEF LoopInv
  <1> QED BY <1>1, <1>3, QuietIInv

LEMMA CommandInvariant == CommandSpec => []CommandIInv
  <1>1. CommandInit => CommandIInv
    BY CommandInitIInv
  <1>2. CommandIInv /\ [CommandNext]_commandVars => CommandIInv'
    BY CommandStepIInv, ExitIInv, CrashIInv, StartProcessIInv, StutterIInv DEF CommandNext
  <1> QED BY <1>1, <1>2, PTL DEF CommandSpec

LEMMA IInvImplies ==
  ASSUME CommandIInv
  PROVE  CommandTypeOK /\ AnswersAreTrue /\ AckedLeavesWhole /\ WritesInOrder
  <1> USE DEF CommandIInv
  <1>1. AckedLeavesWhole
    BY DEF FileInv, Owned, AckedLeavesWhole
  <1>2. WritesInOrder
    <2> SUFFICES ASSUME NEW p \in Paths, NEW e \in Of("write"), WriterAlone(p), cmd[e].path = p
                 PROVE  /\ e \in did => file[p] # Absent /\ e <= file[p].by
                        /\ \A i \in 1 .. Len(said[e]) : (said[e][i] = "created") = (file[p].born = e)
      BY DEF WritesInOrder
    <2>1. e \in WritesOf(p)
      BY FileAssumption DEF Of, WritesOf, Commands, CommandTypeOK
    <2> QED BY <2>1 DEF OrderInv, PathInv, PathCore
  <1> QED BY <1>1, <1>2

\* The commands, deliveries, answers, files and loops of the File Storage
\* Adapter keep to their types.
THEOREM CommandTypeCorrect == CommandSpec => []CommandTypeOK
  BY CommandInvariant, IInvImplies, PTL

\* commands.py: what is answered was done, at most one answer goes out per
\* delivery, and nothing but a malformed command is acked without an answer,
\* for any number of commands, crashes, redeliveries and other users of the
\* directory.
THEOREM AnswersTrue == CommandSpec => []AnswersAreTrue
  BY CommandInvariant, IInvImplies, PTL

\* _write_file(): a file that a write truncated and did not fill is never left
\* behind by a command that was acked.
THEOREM AckedWhole == CommandSpec => []AckedLeavesWhole
  BY CommandInvariant, IInvImplies, PTL

\* Without redeliveries or other users of the path the writes of one path take
\* effect in stream order, and only the one that created the file is told so.
THEOREM WritesOrdered == CommandSpec => []WritesInOrder
  BY CommandInvariant, IInvImplies, PTL

-------------------------------------------------------------------------------
(* The whole adapter, with the watch.                                      *)

Settling ==
    [path : Paths, at : {"poll", "publish"}, born : Writers, last : {-1} \cup Sizes,
     matches : 0 .. StableReads, seen : Seq(Sizes)]

\* wait_until_settled() has read `last` in the last `matches` + 1 turns.
SteadyInv ==
    settle # NoSettle =>
        /\ settle.at = "poll" => settle.matches < StableReads
        /\ settle.at = "publish" => settle.matches = StableReads /\ settle.last # -1
        /\ settle.last = -1 => settle.matches = 0 /\ settle.seen = <<>>
        /\ settle.last # -1 =>
              /\ settle.matches < Len(settle.seen) /\ Len(settle.seen) <= StableReads + 1
              /\ \A j \in 0 .. settle.matches : settle.seen[Len(settle.seen) - j] = settle.last

WatchInv ==
    /\ watch \in {"run", "done"} /\ changes \subseteq Paths
    /\ settle \in {NoSettle} \cup Settling
    /\ announced \subseteq [path : Paths, born : Writers]
    /\ SteadyInv

IInv == CommandIInv /\ WatchInv

LEMMA SettleShape ==
  ASSUME WatchInv
  PROVE  /\ settle.at \in {"poll", "publish"} <=> settle # NoSettle
         /\ settle # NoSettle => settle \in Settling
         /\ settle \in Settling =>
               /\ settle.path \in Paths /\ settle.born \in Writers
               /\ settle.last \in {-1} \cup Sizes
               /\ settle.matches \in 0 .. StableReads /\ settle.seen \in Seq(Sizes)
  <1>1. NoSettle.at = "idle"
    BY DEF NoSettle
  <1>2. ASSUME NEW s \in Settling
        PROVE  /\ s.at \in {"poll", "publish"} /\ s.path \in Paths /\ s.born \in Writers
               /\ s.last \in {-1} \cup Sizes
               /\ s.matches \in 0 .. StableReads /\ s.seen \in Seq(Sizes)
    BY DEF Settling
  <1> QED BY <1>1, <1>2 DEF WatchInv

\* The readings that are kept: the latest is s, and the ones before it are the
\* latest of before.
LEMMA ReadingsShape ==
  ASSUME NEW s \in Sizes, settle.seen \in Seq(Sizes), Len(settle.seen) <= StableReads + 1
  PROVE  /\ Readings(s) \in Seq(Sizes)
         /\ Len(Readings(s)) = IF Len(settle.seen) = StableReads + 1 THEN StableReads + 1
                               ELSE Len(settle.seen) + 1
         /\ Readings(s)[Len(Readings(s))] = s
         /\ \A j \in 1 .. Len(Readings(s)) - 1 :
               Readings(s)[Len(Readings(s)) - j] = settle.seen[Len(settle.seen) - (j - 1)]
  <1> DEFINE q == settle.seen
             r == Append(q, s)
  <1>1. StableReads \in Nat \ {0} /\ Len(q) \in Nat
    BY WatchAssumption, LenProperties
  <1>2. /\ r \in Seq(Sizes) /\ r # <<>> /\ Len(r) = Len(q) + 1 /\ r[Len(q) + 1] = s
        /\ \A i \in 1 .. Len(q) : r[i] = q[i]
    BY AppendProperties
  <1>3. Readings(s) = IF Len(r) > StableReads + 1 THEN Tail(r) ELSE r
    BY DEF Readings
  <1> HIDE DEF q, r
  <1>4. CASE Len(q) = StableReads + 1
    <2>1. Readings(s) = Tail(r)
      BY <1>1, <1>2, <1>3, <1>4
    <2>2. /\ Tail(r) \in Seq(Sizes) /\ Len(Tail(r)) = Len(r) - 1
          /\ \A i \in 1 .. Len(Tail(r)) : Tail(r)[i] = r[i + 1]
      BY <1>2, HeadTailProperties
    <2>3. Len(Tail(r)) = Len(q) /\ Len(q) \in 1 .. Len(Tail(r))
      BY <1>1, <1>2, <1>4, <2>2
    <2>4. Tail(r)[Len(Tail(r))] = s
      BY <1>2, <2>2, <2>3
    <2>5. ASSUME NEW j \in 1 .. Len(Tail(r)) - 1
          PROVE  Tail(r)[Len(Tail(r)) - j] = q[Len(q) - (j - 1)]
      <3>1. Len(q) - j \in 1 .. Len(Tail(r)) /\ Len(q) - j + 1 \in 1 .. Len(q)
        BY <1>1, <2>3
      <3>2. Tail(r)[Len(q) - j] = q[Len(q) - j + 1]
        BY <1>2, <2>2, <3>1
      <3>3. Len(q) - j + 1 = Len(q) - (j - 1)
        BY <1>1, <2>3
      <3> QED BY <2>3, <3>2, <3>3
    <2> QED BY <1>4, <2>1, <2>2, <2>3, <2>4, <2>5 DEF q
  <1>5. CASE Len(q) # StableReads + 1
    <2>1. Readings(s) = r
      BY <1>1, <1>2, <1>3, <1>5 DEF q
    <2>2. ASSUME NEW j \in 1 .. Len(r) - 1
          PROVE  r[Len(r) - j] = q[Len(q) - (j - 1)]
      <3>1. Len(r) - j \in 1 .. Len(q) /\ Len(r) - j = Len(q) - (j - 1)
        BY <1>1, <1>2
      <3> QED BY <1>2, <3>1
    <2> QED BY <1>2, <1>5, <2>1, <2>2 DEF q
  <1> QED BY <1>4, <1>5

LEMMA WatchPollsInv == ASSUME IInv, WatchPolls PROVE WatchInv'
  <1>1. /\ settle.at = "poll" /\ UNCHANGED <<watch, changes, announced>>
        /\ settle' = IF file[settle.path] = Absent THEN NoSettle
                     ELSE LET r == Reading(file[settle.path].size) IN
                          IF r.matches = StableReads THEN [r EXCEPT !.at = "publish"] ELSE r
    BY DEF WatchPolls
  <1>2. /\ settle # NoSettle /\ settle \in Settling /\ settle.path \in Paths
        /\ settle.last \in {-1} \cup Sizes
        /\ settle.matches \in 0 .. StableReads /\ settle.seen \in Seq(Sizes)
    BY <1>1, SettleShape DEF IInv
  <1>3. CASE settle' = NoSettle
    BY <1>1, <1>3 DEF IInv, WatchInv, SteadyInv
  <1>4. CASE file[settle.path] # Absent
    <2>1. PICK s \in Sizes : s = file[settle.path].size
      BY <1>2, <1>4, FileShape DEF IInv, CommandIInv, Sizes
    <2>2. PICK m : m = IF s = settle.last THEN settle.matches + 1 ELSE 0
      OBVIOUS
    <2>3. PICK q : q = Readings(s)
      OBVIOUS
    <2>4. Reading(s) = [settle EXCEPT !.matches = m, !.last = s, !.seen = q]
      BY <1>2, <2>2, <2>3 DEF Reading, Settling
    <2>5. /\ settle.matches < StableReads
          /\ settle.last = -1 => settle.matches = 0 /\ settle.seen = <<>>
          /\ settle.last # -1 =>
              /\ settle.matches < Len(settle.seen) /\ Len(settle.seen) <= StableReads + 1
              /\ \A j \in 0 .. settle.matches : settle.seen[Len(settle.seen) - j] = settle.last
      BY <1>1, <1>2 DEF IInv, WatchInv, SteadyInv
    <2>6. StableReads \in Nat \ {0} /\ Len(settle.seen) \in Nat /\ Len(settle.seen) <= StableReads + 1
      BY <1>2, <2>5, WatchAssumption, LenProperties
    <2>7. m \in 0 .. StableReads /\ s # -1
      BY <1>2, <2>2, <2>5, <2>6 DEF Sizes
    <2>8. /\ q \in Seq(Sizes)
          /\ Len(q) = IF Len(settle.seen) = StableReads + 1 THEN StableReads + 1
                      ELSE Len(settle.seen) + 1
          /\ q[Len(q)] = s
          /\ \A j \in 1 .. Len(q) - 1 : q[Len(q) - j] = settle.seen[Len(settle.seen) - (j - 1)]
      BY <1>2, <2>3, <2>6, ReadingsShape
    <2>9. m < Len(q) /\ Len(q) <= StableReads + 1 /\ Len(q) \in Nat
      BY <1>2, <2>2, <2>5, <2>6, <2>7, <2>8
    <2>10. ASSUME NEW j \in 0 .. m PROVE q[Len(q) - j] = s
      <3>1. CASE j = 0
        BY <2>8, <2>9, <3>1
      <3>2. CASE j # 0
        <4>1. s = settle.last /\ j - 1 \in 0 .. settle.matches /\ j \in 1 .. Len(q) - 1
          BY <1>2, <2>2, <2>7, <2>9, <3>2
        <4> QED BY <2>5, <2>7, <2>8, <4>1
      <3> QED BY <3>1, <3>2
    <2>11. PICK a \in {"poll", "publish"} :
              /\ settle' = [settle EXCEPT !.matches = m, !.last = s, !.seen = q, !.at = a]
              /\ a = "poll" => m # StableReads
              /\ a = "publish" => m = StableReads
      <3>1. Reading(s).matches = m /\ Reading(s).at = "poll"
        BY <1>1, <1>2, <2>4 DEF Settling
      <3>2. CASE m = StableReads
        <4>1. settle' = [Reading(s) EXCEPT !.at = "publish"]
          BY <1>1, <1>4, <2>1, <3>1, <3>2
        <4> QED BY <1>2, <2>4, <3>2, <4>1 DEF Settling
      <3>3. CASE m # StableReads
        <4>1. settle' = Reading(s)
          BY <1>1, <1>4, <2>1, <3>1, <3>3
        <4>2. Reading(s) = [settle EXCEPT !.matches = m, !.last = s, !.seen = q, !.at = "poll"]
          BY <1>1, <1>2, <2>4 DEF Settling
        <4> QED BY <3>3, <4>1, <4>2
      <3> QED BY <3>2, <3>3
    <2>12. /\ settle' \in Settling /\ settle'.at = a /\ settle'.matches = m /\ settle'.last = s
           /\ settle'.seen = q
      BY <1>2, <2>7, <2>8, <2>11 DEF Settling
    <2>13. SteadyInv'
      BY <2>6, <2>7, <2>9, <2>10, <2>11, <2>12 DEF SteadyInv
    <2> QED BY <1>1, <2>12, <2>13 DEF IInv, WatchInv
  <1> QED BY <1>1, <1>3, <1>4

LEMMA WatchLooksInv == ASSUME IInv, NEW p \in Paths, WatchLooks(p) PROVE WatchInv'
  <1>1. /\ changes' = changes \ {p} /\ UNCHANGED <<watch, announced>>
        /\ settle' = IF Exists(p) /\ p \notin marked
                     THEN [path |-> p, at |-> "poll", born |-> file[p].born, last |-> -1,
                           matches |-> 0, seen |-> <<>>]
                     ELSE NoSettle
    BY DEF WatchLooks
  <1>2. CASE settle' = NoSettle
    BY <1>1, <1>2 DEF IInv, WatchInv, SteadyInv
  <1>3. CASE /\ Exists(p)
             /\ settle' = [path |-> p, at |-> "poll", born |-> file[p].born, last |-> -1,
                           matches |-> 0, seen |-> <<>>]
    <2>1. p # Root /\ file[p].born \in Writers
      BY <1>3, FileAssumption, FileShape DEF Exists, IInv, CommandIInv
    <2>2. StableReads \in Nat \ {0} /\ <<>> \in Seq(Sizes)
      BY WatchAssumption
    <2>3. settle' \in Settling
      BY <1>3, <2>1, <2>2 DEF Settling
    <2>4. SteadyInv'
      BY <1>3, <2>2 DEF SteadyInv
    <2> QED BY <1>1, <2>3, <2>4 DEF IInv, WatchInv
  <1> QED BY <1>1, <1>2, <1>3

LEMMA AnnouncementShape ==
  ASSUME WatchInv, settle.at = "publish" PROVE Announcement \in [path : Paths, born : Writers]
  BY SettleShape DEF Announcement

LEMMA InitIInv == ASSUME Init PROVE IInv
  BY CommandInitIInv DEF Init, IInv, WatchInv, SteadyInv

LEMMA NextIInv == ASSUME IInv, [Next]_vars PROVE IInv'
  <1> USE DEF IInv
  <1>1. ASSUME UNCHANGED watchVars PROVE WatchInv'
    BY <1>1 DEF WatchInv, SteadyInv, watchVars
  <1>2. \A k \in Kinds : LoopInv(k)
    BY DEF CommandIInv, JobInv
  <1>3. CASE CommandStep /\ UNCHANGED watchVars
    BY <1>1, <1>3, CommandStepIInv
  <1>4. CASE WatchYields
    <2>1. UNCHANGED <<sentVars, durableVars, said, diskVars, loopVars, marked, procVars, watch,
                      settle, announced>> /\ changes' = added /\ added' = {}
      BY <1>4 DEF WatchYields
    <2>2. CommandTypeOK'
      BY <2>1 DEF CommandIInv, CommandTypeOK, sentVars, durableVars, diskVars, loopVars, procVars
    <2>3. CommandIInv'
      BY <1>2, <2>1, <2>2, QuietIInv DEF LoopInv, loopVars, procVars
    <2>4. WatchInv'
      BY <2>1 DEF WatchInv, SteadyInv, CommandIInv, CommandTypeOK
    <2> QED BY <2>3, <2>4
  <1>5. ASSUME NEW p \in Paths, WatchLooks(p) PROVE IInv'
    BY <1>5, WatchLooksInv, StutterIInv DEF WatchLooks
  <1>6. CASE WatchPolls
    BY <1>6, WatchPollsInv, StutterIInv DEF WatchPolls
  <1>7. CASE WatchPublishes
    <2>1. WatchInv'
      BY <1>7, AnnouncementShape DEF WatchPublishes, WatchInv, SteadyInv
    <2> QED BY <1>7, <2>1, StutterIInv DEF WatchPublishes
  <1>8. CASE WatchEnds
    <2>1. WatchInv'
      BY <1>8 DEF WatchEnds, WatchInv, SteadyInv
    <2> QED BY <1>8, <2>1, StutterIInv DEF WatchEnds
  <1>9. ASSUME NEW p \in Paths, OutsideWrites(p) PROVE IInv'
    BY <1>1, <1>9, OutsideWritesIInv DEF OutsideWrites
  <1>10. ASSUME NEW p \in Paths, MarkExpires(p) PROVE IInv'
    <2>1. UNCHANGED <<sentVars, durableVars, said, diskVars, loopVars, added, procVars, watchVars>>
          /\ marked' = marked \ {p}
      BY <1>10 DEF MarkExpires
    <2>2. CommandTypeOK'
      BY <2>1 DEF CommandIInv, CommandTypeOK, sentVars, durableVars, diskVars, loopVars, procVars
    <2>3. CommandIInv'
      BY <1>2, <2>1, <2>2, QuietIInv DEF LoopInv, loopVars, procVars
    <2> QED BY <1>1, <2>1, <2>3
  <1>11. CASE WatchStarts
    <2>1. WatchInv'
      BY <1>11 DEF WatchStarts, WatchInv, SteadyInv
    <2> QED BY <1>11, <2>1, StartProcessIInv DEF WatchStarts
  <1>12. CASE AllExit
    BY <1>1, <1>12, ExitIInv DEF AllExit
  <1>13. CASE AllCrash
    <2>1. announced' \subseteq [path : Paths, born : Writers]
      BY <1>13, AnnouncementShape DEF AllCrash, WatchInv
    <2>2. WatchInv'
      BY <1>13, <2>1 DEF AllCrash, WatchInv, SteadyInv
    <2> QED BY <1>13, <2>2, CrashIInv DEF AllCrash
  <1>14. CASE UNCHANGED vars
    BY <1>1, <1>14, StutterIInv DEF vars
  <1> QED BY <1>3, <1>4, <1>5, <1>6, <1>7, <1>8, <1>9, <1>10, <1>11, <1>12, <1>13, <1>14
          DEF Next, WatchStep

LEMMA Invariant == Spec => []IInv
  <1>1. Init => IInv
    BY InitIInv
  <1>2. IInv /\ [Next]_vars => IInv'
    BY NextIInv
  <1> QED BY <1>1, <1>2, PTL DEF Spec

\* The commands, the directory and the watch keep to their types.
THEOREM TypeCorrect == Spec => []TypeOK
  <1>1. IInv => TypeOK
    BY DEF IInv, CommandIInv, WatchInv, TypeOK, Settling
  <1> QED BY <1>1, Invariant, PTL

\* create_watch.py, wait_until_settled(): whatever is announced had one size in
\* StableReads + 1 readings in a row.
THEOREM SettledSteady == Spec => []SettledMeansSteady
  <1>1. ASSUME IInv, settle.at = "publish"
        PROVE  settle.seen = [i \in 1 .. StableReads + 1 |-> settle.last]
    <2>1. settle # NoSettle /\ settle.seen \in Seq(Sizes)
      BY <1>1, SettleShape DEF IInv
    <2>2. /\ StableReads < Len(settle.seen) /\ Len(settle.seen) <= StableReads + 1
          /\ \A j \in 0 .. StableReads : settle.seen[Len(settle.seen) - j] = settle.last
      BY <1>1, <2>1 DEF IInv, WatchInv, SteadyInv
    <2>3. Len(settle.seen) = StableReads + 1 /\ StableReads \in Nat
      BY <2>1, <2>2, WatchAssumption, LenProperties
    <2>4. ASSUME NEW i \in 1 .. StableReads + 1 PROVE settle.seen[i] = settle.last
      <3>1. StableReads + 1 - i \in 0 .. StableReads /\ (StableReads + 1) - (StableReads + 1 - i) = i
        BY <2>3
      <3> QED BY <2>2, <2>3, <3>1
    <2>5. settle.seen \in [1 .. StableReads + 1 -> Sizes]
      BY <2>1, <2>3, LenProperties
    <2> QED BY <2>4, <2>5
  <1>2. IInv => SettledMeansSteady
    BY <1>1 DEF SettledMeansSteady
  <1> QED BY <1>2, Invariant, PTL

\* The watch and writers outside do not cost the commands what they promise by
\* themselves.
THEOREM WholeAdapter == Spec => [](AnswersAreTrue /\ AckedLeavesWhole /\ WritesInOrder)
  <1>1. IInv => AnswersAreTrue /\ AckedLeavesWhole /\ WritesInOrder
    BY IInvImplies DEF IInv
  <1> QED BY <1>1, Invariant, PTL

===============================================================================
