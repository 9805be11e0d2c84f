---------------------------- MODULE DbAdapterProofs ---------------------------
(***************************************************************************)
(* Proofs about DbAdapter, for any number of events, orders and bounds.    *)
(*                                                                         *)
(* The inductive invariant:                                                *)
(*   BusInv: an event is "new" until it is delivered, new events are       *)
(*   delivered in stream order, and never more than MaxDeliver times.      *)
(*   JobInv: what run_once() still has to handle has a delivery to its     *)
(*   name that no OrderPersisted was sent for, and _handle() is at an      *)
(*   await only when what comes before it is done.                         *)
(*   RowInv, MirrorInv: a row is what the last change of the binlog made   *)
(*   it, and what a reader knows of it is what the last change that the    *)
(*   thread has passed made it.                                            *)
(*   OrderInv: NoRetryNoReorder, and no event in the batch or in _handle() *)
(*   is older than a stored one of its order.                              *)
(***************************************************************************)
EXTENDS DbAdapter, TLAPS

BusInv ==
    /\ \A e \in Events :
          /\ e > arrived => status[e] = "new"
          /\ status[e] = "new" => num[e] = 0
          /\ num[e] = 0 => status[e] = "new"
          /\ status[e] = "redo" => num[e] < MaxDeliver
    /\ \A d, e \in Events : num[d] > 0 /\ num[e] = 0 => d < e

Busy == {e \in Events : e \in batch \/ (e = job.ev /\ job.at \in {"upsert", "publish"})}

JobInv ==
    /\ phase # "up" \/ writer # "run" => batch = {} /\ job = Idle
    /\ job.ev \notin batch
    /\ \A e \in Busy : replied[e] < num[e]
    /\ job.at \in {"upsert", "publish"} => orderOf[job.ev] # Malformed
    /\ job.at = "publish" => job.ev \in stored
    /\ job.at = "ack" => /\ num[job.ev] > 0
                         /\ orderOf[job.ev] = Malformed \/ replied[job.ev] > 0

StoredInv == \A e \in stored : num[e] > 0

RowInv ==
    \A o \in Orders :
        \/ row[o] = None /\ \A i \in 1 .. Len(binlog) : binlog[i].order # o
        \/ \E i \in 1 .. Len(binlog) :
              /\ binlog[i].order = o /\ binlog[i].content = row[o]
              /\ \A j \in i + 1 .. Len(binlog) : binlog[j].order # o

MirrorInv ==
    /\ \A o \in Orders :
          (\A i \in 1 .. Len(binlog) : binlog[i].order # o) => mirror[o] = None
    /\ cdc = "run" => \A i \in 1 .. pos :
          (\A j \in i + 1 .. pos : binlog[j].order # binlog[i].order) =>
              mirror[binlog[i].order] = binlog[i].content

EventsOf(o) == {e \in Events : orderOf[e] = o}
Alone(o) == o \notin touched /\ \A e \in EventsOf(o) : num[e] <= 1

OrderInv ==
    \A o \in Orders : Alone(o) =>
        /\ \/ EventsOf(o) \cap stored = {} /\ row[o] = None
           \/ row[o] \in EventsOf(o) \cap stored
        /\ \A d \in EventsOf(o) \cap stored :
              /\ row[o] \in Events => d <= row[o]
              /\ \A e \in EventsOf(o) : e \in batch \/ e = job.ev => d <= e
        /\ \A e \in EventsOf(o) : e \in batch /\ job.ev \in EventsOf(o) => job.ev <= e

IInv ==
    /\ TypeOK /\ BusInv /\ JobInv /\ StoredInv /\ AckedIsPersisted
    /\ RowInv /\ MirrorInv /\ OrderInv

Change == [order : Orders, content : Contents]

\* The binlog only grows at its end.
LogGrows ==
    /\ Len(binlog) <= Len(binlog')
    /\ \A i \in 1 .. Len(binlog) : binlog'[i] = binlog[i]

-------------------------------------------------------------------------------
(* The parts of a step.                                                    *)

LEMMA JobShape ==
  ASSUME TypeOK
  PROVE  /\ job.ev \in Events \/ job = Idle
         /\ job.at \in {"idle", "upsert", "publish", "ack"}
         /\ job.at # "idle" => job.ev \in Events /\ job = [ev |-> job.ev, at |-> job.at]
         /\ job.at = "idle" => job = Idle
         /\ Idle.ev = 0 /\ Idle.at = "idle"
         /\ Idle.ev \notin Events
         /\ \A e \in Events : e \in Nat /\ e > 0
  <1>1. Idle.ev = 0 /\ Idle.at = "idle"
    BY DEF Idle
  <1>2. Idle.ev \notin Events /\ \A e \in Events : e \in Nat /\ e > 0
    BY <1>1, DbAssumption DEF Events
  <1>3. CASE job = Idle
    BY <1>1, <1>2, <1>3
  <1>4. CASE job \in [ev : Events, at : {"upsert", "publish", "ack"}]
    BY <1>1, <1>2, <1>4
  <1> QED BY <1>3, <1>4 DEF TypeOK

\* A statement that changes a row appends the change, any other leaves both.
LEMMA SetRowStep ==
  ASSUME TypeOK, RowInv, NEW o \in Orders, NEW c \in Contents, SetRow(o, c)
  PROVE  /\ row' \in [Orders -> Contents] /\ binlog' \in Seq(Change)
         /\ row'[o] = c /\ \A p \in Orders \ {o} : row'[p] = row[p]
         /\ LogGrows /\ RowInv'
  <1>1. /\ row' \in [Orders -> Contents]
        /\ row'[o] = c /\ \A p \in Orders \ {o} : row'[p] = row[p]
    BY DEF SetRow, TypeOK
  <1>2. binlog \in Seq(Change) /\ Len(binlog) \in Nat
    BY DEF TypeOK, Change
  <1>3. CASE row[o] = c
    <2>1. binlog' = binlog /\ \A p \in Orders : row'[p] = row[p]
      BY <1>1, <1>3 DEF SetRow
    <2> QED BY <1>1, <1>2, <2>1 DEF LogGrows, RowInv
  <1>4. CASE row[o] # c
    <2> DEFINE x == [order |-> o, content |-> c]
    <2>1. x \in Change /\ x.order = o /\ x.content = c
      BY DEF Change
    <2>2. binlog' = Append(binlog, x)
      BY <1>4 DEF SetRow
    <2> HIDE DEF x
    <2>3. /\ binlog' \in Seq(Change) /\ Len(binlog') = Len(binlog) + 1
          /\ binlog'[Len(binlog) + 1] = x
          /\ \A i \in 1 .. Len(binlog) : binlog'[i] = binlog[i]
      BY <1>2, <2>1, <2>2
    <2>4. LogGrows
      BY <1>2, <2>3 DEF LogGrows
    <2>5. RowInv'
      <3> SUFFICES ASSUME NEW p \in Orders
                   PROVE  \/ row'[p] = None /\ \A i \in 1 .. Len(binlog') : binlog'[i].order # p
                          \/ \E i \in 1 .. Len(binlog') :
                                /\ binlog'[i].order = p /\ binlog'[i].content = row'[p]
                                /\ \A j \in i + 1 .. Len(binlog') : binlog'[j].order # p
        BY DEF RowInv
      <3>1. CASE p = o
        <4>1. Len(binlog) + 1 \in 1 .. Len(binlog')
          BY <1>2, <2>3
        <4>2. \A j \in Len(binlog) + 1 + 1 .. Len(binlog') : binlog'[j].order # p
          BY <1>2, <2>3
        <4> QED BY <3>1, <4>1, <4>2, <1>1, <2>1, <2>3
      <3>2. CASE p # o
        <4>1. row'[p] = row[p]
          BY <3>2, <1>1
        <4>2. CASE row[p] = None /\ \A i \in 1 .. Len(binlog) : binlog[i].order # p
          BY <4>1, <4>2, <3>2, <1>2, <2>1, <2>3
        <4>3. CASE \E i \in 1 .. Len(binlog) :
                      /\ binlog[i].order = p /\ binlog[i].content = row[p]
                      /\ \A j \in i + 1 .. Len(binlog) : binlog[j].order # p
          <5>1. PICK i \in 1 .. Len(binlog) :
                      /\ binlog[i].order = p /\ binlog[i].content = row[p]
                      /\ \A j \in i + 1 .. Len(binlog) : binlog[j].order # p
            BY <4>3
          <5>2. i \in 1 .. Len(binlog') /\ binlog'[i] = binlog[i]
            BY <1>2, <2>3
          <5>3. \A j \in i + 1 .. Len(binlog') : binlog'[j].order # p
            BY <5>1, <3>2, <1>2, <2>1, <2>3
          <5> QED BY <5>1, <5>2, <5>3, <4>1
        <4> QED BY <4>2, <4>3 DEF RowInv
      <3> QED BY <3>1, <3>2
    <2> QED BY <1>1, <2>3, <2>4, <2>5
  <1> QED BY <1>3, <1>4

\* What the reader knows does not depend on changes the thread has not passed.
LEMMA MirrorFrame ==
  ASSUME TypeOK, MirrorInv, LogGrows, binlog' \in Seq(Change), UNCHANGED mirror,
         cdc' # "run" \/ pos' = 0 \/ (cdc = "run" /\ pos' = pos)
  PROVE  MirrorInv'
  <1>1. Len(binlog) \in Nat /\ Len(binlog') \in Nat /\ pos \in 0 .. Len(binlog)
    BY DEF TypeOK
  <1>2. \A o \in Orders :
          (\A i \in 1 .. Len(binlog') : binlog'[i].order # o) => mirror'[o] = None
    BY <1>1 DEF MirrorInv, LogGrows
  <1>3. ASSUME cdc' = "run", NEW i \in 1 .. pos',
               \A j \in i + 1 .. pos' : binlog'[j].order # binlog'[i].order
        PROVE  mirror'[binlog'[i].order] = binlog'[i].content
    <2>1. cdc = "run" /\ pos' = pos
      BY <1>3
    <2>2. \A j \in 1 .. pos : binlog'[j] = binlog[j]
      BY <1>1 DEF LogGrows
    <2> QED BY <1>1, <1>3, <2>1, <2>2 DEF MirrorInv
  <1> QED BY <1>2, <1>3 DEF MirrorInv

\* RowChanged for the next position.
LEMMA AnnounceStep ==
  ASSUME TypeOK, MirrorInv, Behind, Announce(pos + 1)
  PROVE  /\ mirror' \in [Orders -> Contents]
         /\ out' \subseteq 1 .. Len(binlog)
         /\ pos + 1 \in 1 .. Len(binlog)
         /\ \A o \in Orders :
              (\A i \in 1 .. Len(binlog) : binlog[i].order # o) => mirror'[o] = None
  <1>1. pos + 1 \in 1 .. Len(binlog) /\ binlog[pos + 1] \in Change
    <2>1. binlog \in Seq(Change) /\ Len(binlog) \in Nat /\ pos \in 0 .. Len(binlog)
      BY DEF TypeOK, Change
    <2>2. pos + 1 \in 1 .. Len(binlog)
      BY <2>1 DEF Behind
    <2> QED BY <2>1, <2>2
  <1>2. binlog[pos + 1].order \in Orders /\ binlog[pos + 1].content \in Contents
    BY <1>1 DEF Change
  <1>3. mirror' \in [Orders -> Contents] /\ out' \subseteq 1 .. Len(binlog)
    BY <1>1, <1>2 DEF Announce, TypeOK
  <1>4. \A o \in Orders : o # binlog[pos + 1].order => mirror'[o] = mirror[o]
    BY <1>2 DEF Announce, TypeOK
  <1> QED BY <1>1, <1>3, <1>4 DEF MirrorInv

\* The upsert of the event in _handle() comes after those of the stored ones.
LEMMA UpsertOrder ==
  ASSUME IInv, job.at = "upsert", Upsert(job.ev), UNCHANGED <<orderOf, touched, num>>,
         batch' \subseteq batch, job'.ev \in {job.ev, 0}
  PROVE  OrderInv'
  <1> DEFINE e == job.ev
             t == orderOf[e]
  <1>1. e \in Events /\ t \in Orders /\ e \in Contents
    BY JobShape DEF IInv, TypeOK, JobInv, Contents
  <1>2. /\ row'[t] = e /\ \A p \in Orders \ {t} : row'[p] = row[p]
        /\ stored' = stored \cup {e}
    BY <1>1, SetRowStep DEF IInv, Upsert
  <1> HIDE DEF e
  <1>3. \A d \in Events : d \in Nat
    BY JobShape DEF IInv
  <1>4. SUFFICES ASSUME NEW o \in Orders, Alone(o)'
                 PROVE  /\ \/ EventsOf(o)' \cap stored' = {} /\ row'[o] = None
                           \/ row'[o] \in EventsOf(o)' \cap stored'
                        /\ \A d \in EventsOf(o)' \cap stored' :
                              /\ row'[o] \in Events => d <= row'[o]
                              /\ \A b \in EventsOf(o)' : b \in batch' \/ b = job'.ev => d <= b
                        /\ \A b \in EventsOf(o)' :
                              b \in batch' /\ job'.ev \in EventsOf(o)' => job'.ev <= b
    BY DEF OrderInv
  <1>5. EventsOf(o)' = EventsOf(o) /\ Alone(o) /\ EventsOf(o) \subseteq Events
    BY <1>4 DEF EventsOf, Alone
  <1>6. /\ \/ EventsOf(o) \cap stored = {} /\ row[o] = None
           \/ row[o] \in EventsOf(o) \cap stored
        /\ \A d \in EventsOf(o) \cap stored :
              /\ row[o] \in Events => d <= row[o]
              /\ \A b \in EventsOf(o) : b \in batch \/ b = e => d <= b
        /\ \A b \in EventsOf(o) : b \in batch /\ e \in EventsOf(o) => e <= b
    BY <1>5 DEF IInv, OrderInv, e
  <1>7. job'.ev \in EventsOf(o) => job'.ev = e
    BY <1>3, <1>5, JobShape DEF IInv, e
  <1>8. CASE o = t
    <2>1. e \in EventsOf(o) /\ row'[o] = e
      BY <1>1, <1>2, <1>8 DEF EventsOf
    <2>2. \A d \in EventsOf(o) \cap stored' : d <= e
      BY <1>1, <1>2, <1>3, <1>5, <1>6, <2>1
    <2>3. \A b \in EventsOf(o) : b \in batch' \/ b = job'.ev => e <= b
      BY <1>1, <1>3, <1>5, <1>6, <1>7, <2>1
    <2>4. \A d \in EventsOf(o) \cap stored', b \in EventsOf(o) :
              b \in batch' \/ b = job'.ev => d <= b
      BY <1>1, <1>3, <1>5, <2>2, <2>3
    <2> QED BY <1>2, <1>5, <1>7, <2>1, <2>2, <2>3, <2>4
  <1>9. CASE o # t
    <2>1. e \notin EventsOf(o) /\ row'[o] = row[o]
      BY <1>2, <1>9 DEF EventsOf
    <2>2. EventsOf(o) \cap stored' = EventsOf(o) \cap stored
      BY <2>1, <1>2
    <2> QED BY <1>5, <1>6, <1>7, <2>1, <2>2
  <1> QED BY <1>8, <1>9

\* No step but an upsert or a fetch gives OrderInv anything to do.
LEMMA OrderFrame ==
  ASSUME IInv, UNCHANGED <<orderOf, touched, num, row, stored>>,
         batch' \subseteq batch, job'.ev \in {job.ev, 0}
  PROVE  OrderInv'
  <1>1. 0 \notin Events
    BY JobShape DEF IInv
  <1>2. \A o \in Orders : EventsOf(o)' = EventsOf(o) /\ Alone(o)' = Alone(o)
    BY DEF EventsOf, Alone
  <1> QED BY <1>1, <1>2 DEF IInv, OrderInv, EventsOf


\* A step that leaves the bus and the table alone.
LEMMA QuietIInv ==
  ASSUME IInv, TypeOK', UNCHANGED <<busVars, tableVars, mirror>>,
         \/ UNCHANGED <<batch, job>> /\ (phase' # "up" \/ writer' # "run" => batch = {} /\ job = Idle)
         \/ batch' = {} /\ job' = Idle,
         cdc' # "run" \/ pos' = 0 \/ (cdc = "run" /\ pos' = pos)
  PROVE  IInv'
  <1> USE DEF IInv, busVars, tableVars
  <1>1. BusInv' /\ StoredInv' /\ AckedIsPersisted' /\ RowInv'
    BY DEF BusInv, StoredInv, AckedIsPersisted, RowInv
  <1>2. JobInv'
    <2>1. CASE UNCHANGED <<batch, job>>
                 /\ (phase' # "up" \/ writer' # "run" => batch = {} /\ job = Idle)
      BY <2>1 DEF JobInv, Busy
    <2>2. CASE batch' = {} /\ job' = Idle
      BY <2>2, JobShape DEF JobInv, Busy
    <2> QED BY <2>1, <2>2
  <1>3. MirrorInv'
    <2>1. LogGrows /\ binlog' \in Seq(Change)
      BY DEF LogGrows, TypeOK, Change
    <2> QED BY <2>1, MirrorFrame
  <1>4. OrderInv'
    <2>1. batch' \subseteq batch /\ job'.ev \in {job.ev, 0}
      BY JobShape
    <2> QED BY <2>1, OrderFrame
  <1> QED BY <1>1, <1>2, <1>3, <1>4

LEMMA PollIInv == ASSUME IInv, Poll PROVE IInv'
  <1>1. TypeOK'
    BY DEF IInv, TypeOK, Poll, busVars, changeVars, tableVars, cdcVars, procVars
  <1>2. batch = {} /\ job = Idle /\ batch' = {} /\ job' = Idle
    BY DEF Poll
  <1> QED BY <1>1, <1>2, QuietIInv DEF IInv, TypeOK, Poll, changeVars, cdcVars

LEMMA CdcFindsClientClosedIInv == ASSUME IInv, CdcFindsClientClosed PROVE IInv'
  <1>1. TypeOK'
    BY DEF IInv, TypeOK, CdcFindsClientClosed, busVars, changeVars, tableVars, writeVars, procVars
  <1> QED BY <1>1, QuietIInv DEF IInv, JobInv, CdcFindsClientClosed, changeVars, writeVars, procVars

LEMMA CdcStopsIInv == ASSUME IInv, CdcStops PROVE IInv'
  <1>1. TypeOK'
    BY DEF IInv, TypeOK, CdcStops, busVars, changeVars, tableVars, writeVars, procVars
  <1> QED BY <1>1, QuietIInv DEF IInv, JobInv, CdcStops, changeVars, writeVars, procVars

LEMMA SigtermIInv == ASSUME IInv, Sigterm PROVE IInv'
  <1>1. TypeOK'
    BY DEF IInv, TypeOK, Sigterm, busVars, changeVars, tableVars, writeVars, cdcVars
  <1> QED BY <1>1, QuietIInv DEF IInv, JobInv, Sigterm, changeVars, writeVars, cdcVars

LEMMA BridgeShutdownIInv == ASSUME IInv, BridgeShutdown PROVE IInv'
  <1>1. TypeOK'
    BY DEF IInv, TypeOK, BridgeShutdown, busVars, changeVars, tableVars, writeVars, cdcVars
  <1> QED BY <1>1, QuietIInv DEF IInv, JobInv, BridgeShutdown, changeVars, writeVars, cdcVars

LEMMA ExitIInv == ASSUME IInv, Exit PROVE IInv'
  <1>1. TypeOK'
    BY DEF IInv, TypeOK, Exit, busVars, changeVars, tableVars, writeVars, cdcVars
  <1> QED BY <1>1, QuietIInv DEF IInv, JobInv, Exit, changeVars, writeVars, cdcVars

\* The new thread is at position 0, where it owes the reader nothing yet.
LEMMA StartProcessIInv == ASSUME IInv, StartProcess PROVE IInv'
  <1>1. TypeOK'
    <2>1. start' \in 0 .. MaxStarts
      BY DbAssumption DEF IInv, TypeOK, StartProcess, Up
    <2>2. pos' \in 0 .. Len(binlog')
      BY DEF IInv, TypeOK, StartProcess, Up, tableVars
    <2> QED BY <2>1, <2>2 DEF IInv, TypeOK, StartProcess, Up, busVars, changeVars, tableVars
  <1>2. batch = {} /\ job = Idle
    BY DEF IInv, JobInv, StartProcess, Up
  <1> QED BY <1>1, <1>2, QuietIInv DEF StartProcess, Up, changeVars

-------------------------------------------------------------------------------
(* The bus.                                                                *)

LEMMA ArriveIInv == ASSUME IInv, NEW o \in Orders \cup {Malformed}, Arrive(o) PROVE IInv'
  <1> USE DEF IInv
  <1> DEFINE a == arrived + 1
  <1>1. a \in Events /\ status[a] = "new" /\ num[a] = 0
    BY DbAssumption DEF TypeOK, BusInv, Arrive, Events
  <1>2. /\ arrived' = a
        /\ orderOf' \in [Events -> Orders \cup {Malformed}]
        /\ \A e \in Events : e # a => orderOf'[e] = orderOf[e]
        /\ encFor' \in [Events -> 0 .. MaxStarts]
        /\ UNCHANGED <<status, num, replied, changeVars, tableVars, writeVars, cdcVars, procVars>>
    BY <1>1 DEF Arrive, TypeOK
  <1>3. a \notin stored /\ a \notin batch /\ (job.at # "idle" => a # job.ev)
    <2>1. a \notin stored
      BY <1>1 DEF StoredInv
    <2>2. a \notin Busy
      BY <1>1 DEF JobInv, TypeOK
    <2>3. job.at = "ack" => a # job.ev
      BY <1>1 DEF JobInv
    <2> QED BY <1>1, <2>1, <2>2, <2>3, JobShape DEF Busy
  <1>4. arrived \in 0 .. N /\ a \in 0 .. N
    BY <1>1, DbAssumption DEF TypeOK, Events
  <1> HIDE DEF a
  <1>5. TypeOK'
    BY <1>2, <1>4 DEF TypeOK, changeVars, tableVars, writeVars, cdcVars, procVars
  <1>6. BusInv'
    <2>1. \A e \in Events : e > a => e > arrived
      BY <1>4 DEF a, Events
    <2> QED BY <1>2, <2>1 DEF BusInv
  <1>7. JobInv' /\ StoredInv'
    BY <1>2, <1>3, JobShape DEF JobInv, Busy, StoredInv, tableVars, writeVars, procVars
  <1>8. AckedIsPersisted'
    BY <1>1, <1>2 DEF AckedIsPersisted, tableVars
  <1>9. RowInv' /\ MirrorInv'
    BY <1>2 DEF RowInv, MirrorInv, changeVars, tableVars, cdcVars
  <1>10. OrderInv'
    <2> SUFFICES ASSUME NEW p \in Orders, Alone(p)'
                 PROVE  /\ \/ EventsOf(p)' \cap stored = {} /\ row[p] = None
                           \/ row[p] \in EventsOf(p)' \cap stored
                        /\ \A d \in EventsOf(p)' \cap stored :
                              /\ row[p] \in Events => d <= row[p]
                              /\ \A e \in EventsOf(p)' : e \in batch \/ e = job.ev => d <= e
                        /\ \A e \in EventsOf(p)' : e \in batch /\ job.ev \in EventsOf(p)' => job.ev <= e
      BY <1>2 DEF OrderInv, tableVars, writeVars
    <2>1. \A e \in Events : e # a => (e \in EventsOf(p)' <=> e \in EventsOf(p))
      BY <1>2 DEF EventsOf
    <2>2. Alone(p)
      BY <1>1, <1>2, <2>1 DEF Alone, EventsOf, tableVars
    <2>3. job.ev # a
      BY <1>1, <1>3, JobShape
    <2>4. EventsOf(p) \subseteq Events /\ EventsOf(p)' \subseteq Events
      BY DEF EventsOf
    <2> QED BY <1>1, <1>3, <2>1, <2>2, <2>3, <2>4 DEF OrderInv
  <1> QED BY <1>5, <1>6, <1>7, <1>8, <1>9, <1>10

\* A delivery that is given back is redelivered, unless it was the last one.
LEMMA AgainStep ==
  ASSUME TypeOK, BusInv, NEW e \in Events, status[e] = "out",
         status' = [status EXCEPT ![e] = Again(e)], UNCHANGED <<arrived, num>>
  PROVE  status' \in [Events -> {"new", "out", "redo", "acked", "dead"}] /\ BusInv'
  <1>1. Again(e) \in {"redo", "dead"} /\ (Again(e) = "redo" => num[e] < MaxDeliver)
    BY DEF Again
  <1>2. status' \in [Events -> {"new", "out", "redo", "acked", "dead"}]
    BY <1>1 DEF TypeOK
  <1>3. status'[e] = Again(e) /\ \A d \in Events : d # e => status'[d] = status[d]
    BY DEF TypeOK
  <1>4. e <= arrived /\ num[e] > 0
    BY DbAssumption DEF BusInv, TypeOK, Events
  <1> QED BY <1>1, <1>2, <1>3, <1>4 DEF BusInv

LEMMA AckWaitExpiresIInv == ASSUME IInv, NEW e \in Events, AckWaitExpires(e) PROVE IInv'
  <1> USE DEF IInv
  <1>1. /\ status[e] = "out" /\ status' = [status EXCEPT ![e] = Again(e)]
        /\ UNCHANGED <<arrived, orderOf, encFor, num, replied, changeVars, tableVars, writeVars,
                       cdcVars, procVars>>
    BY DEF AckWaitExpires
  <1>2. status' \in [Events -> {"new", "out", "redo", "acked", "dead"}] /\ BusInv'
    BY <1>1, AgainStep
  <1>3. \A d \in Events : status'[d] = "acked" => status[d] = "acked"
    BY <1>1 DEF TypeOK, Again
  <1>4. TypeOK'
    BY <1>1, <1>2 DEF TypeOK, changeVars, tableVars, writeVars, cdcVars, procVars
  <1>5. JobInv' /\ StoredInv' /\ AckedIsPersisted'
    BY <1>1, <1>3 DEF JobInv, Busy, StoredInv, AckedIsPersisted, tableVars, writeVars, procVars
  <1>6. RowInv' /\ MirrorInv'
    BY <1>1 DEF RowInv, MirrorInv, changeVars, tableVars, cdcVars
  <1>7. OrderInv'
    BY <1>1, OrderFrame DEF tableVars, writeVars
  <1> QED BY <1>2, <1>4, <1>5, <1>6, <1>7

-------------------------------------------------------------------------------
(* The write path.                                                         *)

\* New events that are fetched are later than everything stored so far.
LEMMA FetchIInv == ASSUME IInv, NEW B \in SUBSET Events, Fetch(B) PROVE IInv'
  <1> USE DEF IInv
  <1>1. /\ phase = "up" /\ writer = "polling" /\ B \subseteq Deliverable /\ InOrder(B)
        /\ writer' = "run" /\ batch' \subseteq B
        /\ status' = [e \in Events |-> IF e \in B THEN "out" ELSE status[e]]
        /\ num' = [e \in Events |-> IF e \in B THEN num[e] + 1 ELSE num[e]]
        /\ UNCHANGED <<arrived, orderOf, encFor, replied, changeVars, tableVars, job, cdcVars, procVars>>
    BY DEF Fetch
  <1>2. batch = {} /\ job = Idle
    BY <1>1 DEF JobInv
  <1>3. \A e \in Events : num[e] \in Nat
    BY DbAssumption DEF TypeOK
  <1>4. \A e \in B : e <= arrived /\ status[e] \in {"new", "redo"} /\ num[e] < MaxDeliver
    BY <1>1, DbAssumption DEF Deliverable, BusInv, TypeOK
  <1>5. num' \in [Events -> 0 .. MaxDeliver]
    BY <1>1, <1>3, <1>4, DbAssumption DEF TypeOK
  <1>6. TypeOK'
    BY <1>1, <1>5 DEF TypeOK, changeVars, tableVars, cdcVars, procVars
  <1>7. \A e \in Events : num'[e] > 0 => e \in B \/ num[e] > 0
    BY <1>1
  <1>8. BusInv'
    <2>1. \A e \in Events :
             /\ e > arrived' => status'[e] = "new"
             /\ status'[e] = "new" => num'[e] = 0
             /\ num'[e] = 0 => status'[e] = "new"
             /\ status'[e] = "redo" => num'[e] < MaxDeliver
      <3> SUFFICES ASSUME NEW e \in Events
                   PROVE  /\ e > arrived' => status'[e] = "new"
                          /\ status'[e] = "new" => num'[e] = 0
                          /\ num'[e] = 0 => status'[e] = "new"
                          /\ status'[e] = "redo" => num'[e] < MaxDeliver
        OBVIOUS
      <3>1. CASE e \in B
        <4>1. status'[e] = "out" /\ num'[e] = num[e] + 1
          BY <3>1, <1>1
        <4>2. ~(e > arrived)
          BY <3>1, <1>4 DEF Events, TypeOK
        <4> QED BY <4>1, <4>2, <1>1, <1>3
      <3>2. CASE e \notin B
        BY <3>2, <1>1 DEF BusInv
      <3> QED BY <3>1, <3>2
    <2>2. ASSUME NEW d \in Events, NEW e \in Events, num'[d] > 0, num'[e] = 0 PROVE d < e
      <3>1. e \notin B /\ num[e] = 0
        BY <2>2, <1>1, <1>3
      <3>2. CASE num[d] > 0
        BY <3>1, <3>2 DEF BusInv
      <3>3. CASE d \in B /\ num[d] = 0
        <4>1. status[d] = "new" /\ status[e] = "new" /\ d # e
          BY <3>1, <3>3 DEF BusInv
        <4>2. ASSUME e < d PROVE FALSE
          <5>1. e \in Deliverable
            BY <4>1, <4>2, <1>4, <3>3 DEF Deliverable, Events, TypeOK
          <5> QED BY <1>1, <3>1, <3>3, <4>1, <4>2, <5>1 DEF InOrder
        <4> QED BY <4>1, <4>2 DEF Events
      <3> QED BY <2>2, <3>2, <3>3, <1>3, <1>7
    <2> QED BY <2>1, <2>2 DEF BusInv
  <1>9. \A e \in Events : num'[e] >= num[e] /\ (e \in B => num'[e] > num[e])
    BY <1>1, <1>3
  <1>10. JobInv'
    <2>1. job' = Idle /\ job'.ev \notin batch' /\ job'.at = "idle"
      BY <1>1, <1>2, JobShape
    <2>2. \A e \in Busy' : replied'[e] < num'[e]
      <3> SUFFICES ASSUME NEW e \in Events, e \in batch' PROVE replied[e] < num'[e]
        BY <1>1, <2>1 DEF Busy
      <3>1. replied[e] <= num[e] /\ num'[e] > num[e]
        BY <1>1, <1>9 DEF AckedIsPersisted
      <3> QED BY <3>1, <1>3, <1>5 DEF TypeOK
    <2> QED BY <1>1, <2>1, <2>2 DEF JobInv, procVars
  <1>11. StoredInv'
    BY <1>1, <1>3, <1>9, <1>5 DEF StoredInv, TypeOK, tableVars
  <1>12. AckedIsPersisted'
    <2> SUFFICES ASSUME NEW e \in Events
                 PROVE  /\ replied[e] > 0 => e \in stored
                        /\ replied[e] <= num'[e] /\ num'[e] <= MaxDeliver
                        /\ status'[e] = "acked" => orderOf[e] = Malformed \/ replied[e] > 0
      BY <1>1 DEF AckedIsPersisted, tableVars
    <2>1. replied[e] <= num'[e]
      BY <1>3, <1>5, <1>9 DEF AckedIsPersisted, TypeOK
    <2>2. status'[e] = "acked" => status[e] = "acked"
      BY <1>1
    <2>3. num'[e] <= MaxDeliver
      BY <1>5, DbAssumption
    <2> QED BY <2>1, <2>2, <2>3 DEF AckedIsPersisted
  <1>13. RowInv' /\ MirrorInv'
    BY <1>1 DEF RowInv, MirrorInv, changeVars, tableVars, cdcVars
  <1>14. OrderInv'
    <2> SUFFICES ASSUME NEW p \in Orders, Alone(p)'
                 PROVE  /\ \/ EventsOf(p) \cap stored = {} /\ row[p] = None
                           \/ row[p] \in EventsOf(p) \cap stored
                        /\ \A d \in EventsOf(p) \cap stored :
                              /\ row[p] \in Events => d <= row[p]
                              /\ \A e \in EventsOf(p) : e \in batch' \/ e = job'.ev => d <= e
                        /\ \A e \in EventsOf(p) :
                              e \in batch' /\ job'.ev \in EventsOf(p) => job'.ev <= e
      BY <1>1 DEF OrderInv, EventsOf, tableVars
    <2>1. Alone(p)
      <3>1. EventsOf(p)' = EventsOf(p) /\ p \notin touched
        BY <1>1 DEF EventsOf, Alone, tableVars
      <3>2. \A e \in EventsOf(p) : num'[e] <= 1 /\ e \in Events
        BY <3>1 DEF Alone, EventsOf
      <3> QED BY <3>1, <3>2, <1>3, <1>5, <1>9 DEF Alone
    <2>2. job'.ev \notin Events
      BY <1>1, <1>2, JobShape
    <2>3. ASSUME NEW d \in EventsOf(p) \cap stored, NEW e \in EventsOf(p), e \in batch'
          PROVE  d <= e
      <3>1. d \in Events /\ e \in Events /\ num'[e] <= 1 /\ num'[e] = num[e] + 1
        BY <2>3, <1>1 DEF Alone, EventsOf
      <3>2. num[e] = 0 /\ num[d] > 0
        BY <3>1, <1>3 DEF StoredInv
      <3> QED BY <3>1, <3>2 DEF BusInv, Events
    <2> QED BY <2>1, <2>2, <2>3 DEF OrderInv, EventsOf
  <1> QED BY <1>6, <1>8, <1>10, <1>11, <1>12, <1>13, <1>14

\* The batch is handled in stream order as far as deliveries are first ones.
LEMMA TakeIInv == ASSUME IInv, NEW e \in Events, Take(e) PROVE IInv'
  <1> USE DEF IInv
  <1> DEFINE a == IF orderOf[e] = Malformed THEN "ack" ELSE "upsert"
  <1>1. /\ phase = "up" /\ writer = "run" /\ job = Idle /\ e \in batch /\ NextOfBatch(e)
        /\ batch' = batch \ {e} /\ job' = [ev |-> e, at |-> a]
        /\ UNCHANGED <<busVars, changeVars, tableVars, writer, cdcVars, procVars>>
    BY DEF Take, NextOfBatch
  <1>2. job'.ev = e /\ job'.at = a
    BY <1>1
  <1>3. a \in {"ack", "upsert"} /\ (a = "ack" <=> orderOf[e] = Malformed)
    OBVIOUS
  <1> HIDE DEF a
  <1>4. TypeOK'
    <2>1. job' \in [ev : Events, at : {"upsert", "publish", "ack"}]
      BY <1>1, <1>3
    <2> QED BY <2>1, <1>1 DEF TypeOK, busVars, changeVars, tableVars, cdcVars, procVars
  <1>5. BusInv' /\ StoredInv' /\ AckedIsPersisted' /\ RowInv' /\ MirrorInv'
    BY <1>1 DEF BusInv, StoredInv, AckedIsPersisted, RowInv, MirrorInv, busVars, changeVars,
                tableVars, cdcVars
  <1>6. JobInv'
    <2>1. Busy' \subseteq Busy
      BY <1>1, <1>2 DEF Busy
    <2>2. replied[e] < num[e]
      BY <1>1 DEF JobInv, Busy
    <2>3. num[e] > 0
      BY <2>2, DbAssumption DEF TypeOK
    <2> QED BY <1>1, <1>2, <1>3, <2>1, <2>3 DEF JobInv, busVars, procVars
  <1>7. OrderInv'
    <2> SUFFICES ASSUME NEW p \in Orders, Alone(p)
                 PROVE  /\ \A d \in EventsOf(p) \cap stored :
                              \A b \in EventsOf(p) : b \in batch' \/ b = e => d <= b
                        /\ \A b \in EventsOf(p) : b \in batch' /\ e \in EventsOf(p) => e <= b
      BY <1>1, <1>2 DEF OrderInv, Alone, EventsOf, busVars, tableVars
    <2>1. \A d \in EventsOf(p) \cap stored :
             \A b \in EventsOf(p) : b \in batch' \/ b = e => d <= b
      BY <1>1 DEF OrderInv
    <2>2. ASSUME NEW b \in EventsOf(p), b \in batch', e \in EventsOf(p) PROVE e <= b
      <3>1. /\ b \in Events /\ b \in batch
            /\ num[b] <= 1 /\ num[e] <= 1
            /\ replied[b] < num[b] /\ replied[e] < num[e]
        BY <2>2, <1>1 DEF EventsOf, Alone, JobInv, Busy
      <3>2. num[b] = 1 /\ num[e] = 1
        BY <3>1, DbAssumption DEF TypeOK
      <3> QED BY <1>1, <3>1, <3>2 DEF NextOfBatch
    <2> QED BY <2>1, <2>2
  <1> QED BY <1>4, <1>5, <1>6, <1>7

\* The upsert of _handle(): what it does to the table.
LEMMA UpsertStep ==
  ASSUME IInv, job.at = "upsert", Upsert(job.ev)
  PROVE  /\ row' \in [Orders -> Contents] /\ binlog' \in Seq(Change) /\ LogGrows /\ RowInv'
         /\ stored' = stored \cup {job.ev} /\ stored' \subseteq Events
         /\ num[job.ev] > 0
  <1>1. job.ev \in Events /\ orderOf[job.ev] \in Orders /\ job.ev \in Contents
    BY JobShape DEF IInv, TypeOK, JobInv, Contents
  <1>2. replied[job.ev] < num[job.ev]
    BY <1>1 DEF IInv, JobInv, Busy
  <1>3. num[job.ev] > 0
    BY <1>1, <1>2, DbAssumption DEF IInv, TypeOK
  <1> QED BY <1>1, <1>3, SetRowStep DEF Upsert, IInv, TypeOK

LEMMA UpsertSucceedsIInv == ASSUME IInv, UpsertSucceeds PROVE IInv'
  <1> USE DEF IInv
  <1>1. /\ phase = "up" /\ writer = "run" /\ job.at = "upsert" /\ Upsert(job.ev)
        /\ job' = [job EXCEPT !.at = "publish"]
        /\ UNCHANGED <<busVars, changeVars, touched, writer, batch, cdcVars, procVars>>
    BY DEF UpsertSucceeds, At
  <1>2. /\ job.ev \in Events /\ job'.ev = job.ev /\ job'.at = "publish"
        /\ job' \in [ev : Events, at : {"upsert", "publish", "ack"}]
    BY <1>1, JobShape
  <1>3. /\ row' \in [Orders -> Contents] /\ binlog' \in Seq(Change) /\ LogGrows /\ RowInv'
        /\ stored' = stored \cup {job.ev} /\ stored' \subseteq Events
        /\ num[job.ev] > 0
    BY <1>1, UpsertStep
  <1>4. TypeOK'
    <2>1. out' \subseteq 1 .. Len(binlog') /\ pos' \in 0 .. Len(binlog')
      BY <1>1, <1>3 DEF TypeOK, LogGrows, changeVars, cdcVars
    <2> QED BY <1>1, <1>2, <1>3, <2>1 DEF TypeOK, Change, busVars, changeVars, cdcVars, procVars
  <1>5. BusInv' /\ StoredInv' /\ AckedIsPersisted'
    BY <1>1, <1>3 DEF BusInv, StoredInv, AckedIsPersisted, busVars
  <1>6. JobInv'
    <2>1. Busy' = Busy
      BY <1>1, <1>2 DEF Busy
    <2> QED BY <1>1, <1>2, <1>3, <2>1 DEF JobInv, busVars, procVars
  <1>7. MirrorInv'
    <2>1. cdc' # "run" \/ (cdc = "run" /\ pos' = pos)
      BY <1>1 DEF cdcVars
    <2> QED BY <1>1, <1>3, <2>1, MirrorFrame DEF changeVars
  <1>8. OrderInv'
    BY <1>1, <1>2, UpsertOrder DEF busVars
  <1> QED BY <1>3, <1>4, <1>5, <1>6, <1>7, <1>8

\* _handle() is cut off: an upsert or a publish on its way may take effect, and
\* neither breaks the promise that is kept about them.
LEMMA CutOff ==
  ASSUME IInv, MaybeUpserted, MaybeReplied,
         UNCHANGED <<arrived, orderOf, encFor, num, touched>>,
         \A e \in Events : status'[e] = "acked" => status[e] = "acked",
         batch' \subseteq batch, job' = Idle,
         (phase' = "up" /\ writer' = "run") \/ batch' = {}
  PROVE  /\ row' \in [Orders -> Contents] /\ binlog' \in Seq(Change) /\ LogGrows
         /\ stored' \subseteq Events /\ replied' \in [Events -> Nat]
         /\ RowInv' /\ StoredInv' /\ AckedIsPersisted' /\ JobInv' /\ OrderInv'
  <1> USE DEF IInv
  <1>1. job'.ev = 0 /\ job'.at = "idle" /\ 0 \notin Events /\ batch' \subseteq Events
    BY JobShape DEF TypeOK
  <1>2. /\ row' \in [Orders -> Contents] /\ binlog' \in Seq(Change) /\ LogGrows /\ RowInv'
        /\ stored \subseteq stored' /\ stored' \subseteq Events
        /\ StoredInv' /\ OrderInv'
    <2>1. CASE NoUpsert
      <3>1. OrderInv'
        BY <2>1, <1>1, OrderFrame DEF NoUpsert
      <3>2. RowInv' /\ StoredInv' /\ LogGrows
        BY <2>1 DEF NoUpsert, RowInv, StoredInv, LogGrows, TypeOK
      <3> QED BY <2>1, <3>1, <3>2 DEF NoUpsert, TypeOK, Change
    <2>2. CASE job.at = "upsert" /\ Upsert(job.ev)
      BY <2>2, <1>1, UpsertStep, UpsertOrder DEF StoredInv
    <2> QED BY <2>1, <2>2 DEF MaybeUpserted
  <1>3. /\ replied' \in [Events -> Nat]
        /\ \A e \in Events : replied'[e] <= num[e] /\ replied'[e] >= replied[e]
        /\ \A e \in Events : replied'[e] > 0 => e \in stored
        /\ \A e \in batch : replied'[e] < num[e]
    <2>1. \A e \in Events : replied[e] \in Nat /\ num[e] \in Nat
      BY DbAssumption DEF TypeOK
    <2>2. \A e \in batch : e \in Events /\ replied[e] < num[e] /\ e # job.ev
      BY DEF JobInv, Busy, TypeOK
    <2>3. CASE UNCHANGED replied
      BY <2>1, <2>2, <2>3 DEF AckedIsPersisted, TypeOK
    <2>4. CASE job.at = "publish" /\ replied' = [replied EXCEPT ![job.ev] = @ + 1]
      <3>1. job.ev \in Events /\ job.ev \in stored /\ replied[job.ev] < num[job.ev]
        BY <2>4, JobShape DEF JobInv, Busy
      <3>2. /\ replied'[job.ev] = replied[job.ev] + 1
            /\ \A e \in Events : e # job.ev => replied'[e] = replied[e]
        BY <2>4, <3>1 DEF TypeOK
      <3>3. replied' \in [Events -> Nat]
        BY <2>1, <2>4, <3>1 DEF TypeOK
      <3> QED BY <2>1, <2>2, <3>1, <3>2, <3>3 DEF AckedIsPersisted
    <2> QED BY <2>3, <2>4 DEF MaybeReplied
  <1>4. AckedIsPersisted'
    <2> SUFFICES ASSUME NEW e \in Events
                 PROVE  /\ replied'[e] > 0 => e \in stored'
                        /\ replied'[e] <= num[e] /\ num[e] <= MaxDeliver
                        /\ status'[e] = "acked" => orderOf[e] = Malformed \/ replied'[e] > 0
      BY DEF AckedIsPersisted
    <2>1. replied[e] > 0 => replied'[e] > 0
      BY <1>3 DEF TypeOK
    <2> QED BY <2>1, <1>2, <1>3 DEF AckedIsPersisted
  <1>5. JobInv'
    <2>1. Busy' = batch'
      BY <1>1 DEF Busy
    <2> QED BY <1>1, <1>3, <2>1 DEF JobInv
  <1> QED BY <1>2, <1>3, <1>4, <1>5

LEMMA UpsertFailsIInv == ASSUME IInv, UpsertFails PROVE IInv'
  <1> USE DEF IInv
  <1> DEFINE e == job.ev
             s == IF status[e] = "out" THEN Again(e) ELSE status[e]
  <1>1. /\ phase = "up" /\ writer = "run" /\ job.at = "upsert"
        /\ MaybeUpserted /\ MaybeReplied
        /\ status' = [status EXCEPT ![e] = s]
        /\ job' = Idle
        /\ UNCHANGED <<arrived, orderOf, encFor, num, replied, changeVars, touched, writer, batch,
                       cdcVars, procVars>>
    BY DEF UpsertFails, At, MaybeUpserted, MaybeReplied
  <1>2. e \in Events
    BY <1>1, JobShape
  <1>3. /\ status' \in [Events -> {"new", "out", "redo", "acked", "dead"}] /\ BusInv'
        /\ \A d \in Events : status'[d] = "acked" => status[d] = "acked"
    <2>1. CASE status[e] = "out"
      <3>1. status' = [status EXCEPT ![e] = Again(e)]
        BY <1>1, <2>1
      <3>2. status' \in [Events -> {"new", "out", "redo", "acked", "dead"}] /\ BusInv'
        BY <1>1, <1>2, <2>1, <3>1, AgainStep
      <3> QED BY <3>1, <3>2 DEF Again, TypeOK
    <2>2. CASE status[e] # "out"
      <3>1. status' = status
        BY <1>1, <1>2, <2>2 DEF TypeOK
      <3> QED BY <1>1, <3>1 DEF BusInv, TypeOK
    <2> QED BY <2>1, <2>2
  <1>4. /\ row' \in [Orders -> Contents] /\ binlog' \in Seq(Change) /\ LogGrows
        /\ stored' \subseteq Events /\ replied' \in [Events -> Nat]
        /\ RowInv' /\ StoredInv' /\ AckedIsPersisted' /\ JobInv' /\ OrderInv'
    BY <1>1, <1>3, CutOff DEF procVars
  <1>5. TypeOK'
    <2>1. out' \subseteq 1 .. Len(binlog') /\ pos' \in 0 .. Len(binlog')
      BY <1>1, <1>4 DEF TypeOK, LogGrows, changeVars, cdcVars
    <2> QED BY <1>1, <1>3, <1>4, <2>1 DEF TypeOK, Change, changeVars, cdcVars, procVars
  <1>6. MirrorInv'
    BY <1>1, <1>4, MirrorFrame DEF changeVars, cdcVars
  <1> QED BY <1>3, <1>4, <1>5, <1>6

LEMMA PublishSucceedsIInv == ASSUME IInv, PublishSucceeds PROVE IInv'
  <1> USE DEF IInv
  <1> DEFINE e == job.ev
  <1>1. /\ phase = "up" /\ writer = "run" /\ job.at = "publish"
        /\ replied' = [replied EXCEPT ![e] = @ + 1]
        /\ job' = [job EXCEPT !.at = "ack"]
        /\ UNCHANGED <<arrived, orderOf, encFor, status, num, changeVars, tableVars, writer, batch,
                       cdcVars, procVars>>
    BY DEF PublishSucceeds, At
  <1>2. /\ e \in Events /\ job'.ev = e /\ job'.at = "ack"
        /\ job' \in [ev : Events, at : {"upsert", "publish", "ack"}]
    BY <1>1, JobShape
  <1>3. e \in stored /\ e \notin batch /\ replied[e] < num[e]
    BY <1>1, <1>2 DEF JobInv, Busy
  <1> HIDE DEF e
  <1>4. \A d \in Events : replied[d] \in Nat /\ num[d] \in Nat
    BY DbAssumption DEF TypeOK
  <1>5. /\ replied' \in [Events -> Nat] /\ replied'[e] = replied[e] + 1
        /\ \A d \in Events : d # e => replied'[d] = replied[d]
    BY <1>1, <1>2 DEF TypeOK
  <1>6. TypeOK'
    BY <1>1, <1>2, <1>5 DEF TypeOK, changeVars, tableVars, cdcVars, procVars
  <1>7. BusInv' /\ StoredInv' /\ RowInv' /\ MirrorInv'
    BY <1>1 DEF BusInv, StoredInv, RowInv, MirrorInv, changeVars, tableVars, cdcVars
  <1>8. AckedIsPersisted'
    BY <1>1, <1>3, <1>4, <1>5 DEF AckedIsPersisted, tableVars
  <1>9. JobInv'
    <2>1. Busy' \subseteq Busy \ {e}
      BY <1>1, <1>2, <1>3 DEF Busy
    <2>2. \A d \in Busy' : replied'[d] < num'[d]
      BY <1>1, <1>5, <2>1 DEF JobInv, Busy
    <2>3. num[e] > 0 /\ replied'[e] > 0
      BY <1>2, <1>3, <1>4, <1>5
    <2> QED BY <1>1, <1>2, <1>3, <2>2, <2>3 DEF JobInv, procVars
  <1>10. OrderInv'
    BY <1>1, <1>2, OrderFrame DEF tableVars, e
  <1> QED BY <1>6, <1>7, <1>8, <1>9, <1>10

LEMMA AckJobIInv == ASSUME IInv, AckJob PROVE IInv'
  <1> USE DEF IInv
  <1> DEFINE e == job.ev
  <1>1. /\ phase = "up" /\ writer = "run" /\ job.at = "ack"
        /\ status' = [status EXCEPT ![e] = "acked"]
        /\ job' = Idle
        /\ UNCHANGED <<arrived, orderOf, encFor, num, replied, changeVars, tableVars, writer, batch,
                       cdcVars, procVars>>
    BY DEF AckJob, At
  <1>2. e \in Events /\ job'.ev = 0 /\ job'.at = "idle" /\ 0 \notin Events
    BY <1>1, JobShape
  <1>3. num[e] > 0 /\ (orderOf[e] = Malformed \/ replied[e] > 0)
    BY <1>1 DEF JobInv
  <1> HIDE DEF e
  <1>4. /\ status' \in [Events -> {"new", "out", "redo", "acked", "dead"}]
        /\ status'[e] = "acked" /\ \A d \in Events : d # e => status'[d] = status[d]
    BY <1>1, <1>2 DEF TypeOK
  <1>5. TypeOK'
    BY <1>1, <1>4 DEF TypeOK, changeVars, tableVars, cdcVars, procVars
  <1>6. BusInv'
    <2>1. num[e] # 0 /\ status[e] # "new"
      BY <1>2, <1>3 DEF BusInv
    <2> QED BY <1>1, <1>2, <1>4, <2>1 DEF BusInv
  <1>7. StoredInv' /\ RowInv' /\ MirrorInv'
    BY <1>1 DEF StoredInv, RowInv, MirrorInv, changeVars, tableVars, cdcVars
  <1>8. AckedIsPersisted'
    BY <1>1, <1>3, <1>4 DEF AckedIsPersisted, tableVars
  <1>9. JobInv'
    <2>1. Busy' \subseteq Busy
      BY <1>1, <1>2 DEF Busy
    <2> QED BY <1>1, <1>2, <2>1 DEF JobInv, TypeOK, procVars
  <1>10. OrderInv'
    BY <1>1, <1>2, OrderFrame DEF tableVars
  <1> QED BY <1>5, <1>6, <1>7, <1>8, <1>9, <1>10

LEMMA WriterRaisesIInv == ASSUME IInv, WriterRaises PROVE IInv'
  <1> USE DEF IInv
  <1>1. /\ writer' = "dead" /\ batch' = {} /\ job' = Idle
        /\ MaybeUpserted /\ MaybeReplied
        /\ UNCHANGED <<arrived, orderOf, encFor, status, num, changeVars, touched, cdcVars, procVars>>
    BY DEF WriterRaises
  <1>2. /\ row' \in [Orders -> Contents] /\ binlog' \in Seq(Change) /\ LogGrows
        /\ stored' \subseteq Events /\ replied' \in [Events -> Nat]
        /\ RowInv' /\ StoredInv' /\ AckedIsPersisted' /\ JobInv' /\ OrderInv'
    BY <1>1, CutOff
  <1>3. TypeOK'
    <2>1. out' \subseteq 1 .. Len(binlog') /\ pos' \in 0 .. Len(binlog')
      BY <1>1, <1>2 DEF TypeOK, LogGrows, changeVars, cdcVars
    <2> QED BY <1>1, <1>2, <2>1 DEF TypeOK, Change, changeVars, cdcVars, procVars
  <1>4. BusInv'
    BY <1>1 DEF BusInv
  <1>5. MirrorInv'
    BY <1>1, <1>2, MirrorFrame DEF changeVars, cdcVars
  <1> QED BY <1>2, <1>3, <1>4, <1>5

LEMMA TeardownIInv == ASSUME IInv, Teardown PROVE IInv'
  <1> USE DEF IInv
  <1>1. /\ phase' = "closing" /\ writer' \in {"done", "dead"} /\ batch' = {} /\ job' = Idle
        /\ MaybeUpserted /\ MaybeReplied
        /\ UNCHANGED <<arrived, orderOf, encFor, status, num, changeVars, touched, cdcVars, start,
                       stopping, told>>
    BY DEF Teardown
  <1>2. /\ row' \in [Orders -> Contents] /\ binlog' \in Seq(Change) /\ LogGrows
        /\ stored' \subseteq Events /\ replied' \in [Events -> Nat]
        /\ RowInv' /\ StoredInv' /\ AckedIsPersisted' /\ JobInv' /\ OrderInv'
    BY <1>1, CutOff
  <1>3. TypeOK'
    <2>1. out' \subseteq 1 .. Len(binlog') /\ pos' \in 0 .. Len(binlog')
      BY <1>1, <1>2 DEF TypeOK, LogGrows, changeVars, cdcVars
    <2> QED BY <1>1, <1>2, <2>1 DEF TypeOK, Change, changeVars, cdcVars
  <1>4. BusInv'
    BY <1>1 DEF BusInv
  <1>5. MirrorInv'
    BY <1>1, <1>2, MirrorFrame DEF changeVars, cdcVars
  <1> QED BY <1>2, <1>3, <1>4, <1>5

\* With the process a RowChanged may go out as well; the next thread starts over.
LEMMA CrashIInv == ASSUME IInv, Crash PROVE IInv'
  <1> USE DEF IInv
  <1>1. /\ phase' = "down" /\ writer' = "dead" /\ batch' = {} /\ job' = Idle /\ cdc' = "dead"
        /\ MaybeUpserted /\ MaybeReplied
        /\ UNCHANGED changeVars \/ (Behind /\ Announce(pos + 1))
        /\ UNCHANGED <<arrived, orderOf, encFor, status, num, touched, pos, start, stopping, told>>
    BY DEF Crash
  <1>2. /\ row' \in [Orders -> Contents] /\ binlog' \in Seq(Change) /\ LogGrows
        /\ stored' \subseteq Events /\ replied' \in [Events -> Nat]
        /\ RowInv' /\ StoredInv' /\ AckedIsPersisted' /\ JobInv' /\ OrderInv'
    BY <1>1, CutOff
  <1>3. /\ mirror' \in [Orders -> Contents] /\ out' \subseteq 1 .. Len(binlog)
        /\ \A o \in Orders :
             (\A i \in 1 .. Len(binlog) : binlog[i].order # o) => mirror'[o] = None
    <2>1. CASE UNCHANGED changeVars
      BY <2>1 DEF changeVars, TypeOK, MirrorInv
    <2>2. CASE Behind /\ Announce(pos + 1)
      BY <2>2, AnnounceStep
    <2> QED BY <1>1, <2>1, <2>2
  <1>4. Len(binlog) \in Nat /\ Len(binlog') \in Nat
    BY <1>2 DEF TypeOK
  <1>5. TypeOK'
    <2>1. out' \subseteq 1 .. Len(binlog') /\ pos' \in 0 .. Len(binlog')
      BY <1>1, <1>2, <1>3, <1>4 DEF TypeOK, LogGrows
    <2> QED BY <1>1, <1>2, <1>3, <2>1 DEF TypeOK, Change
  <1>6. BusInv'
    BY <1>1 DEF BusInv
  <1>7. MirrorInv'
    BY <1>1, <1>2, <1>3, <1>4 DEF MirrorInv, LogGrows
  <1> QED BY <1>2, <1>5, <1>6, <1>7

-------------------------------------------------------------------------------
(* The CDC thread and the others who write the table.                      *)

LEMMA CdcPublishesIInv == ASSUME IInv, CdcPublishes PROVE IInv'
  <1> USE DEF IInv
  <1> DEFINE n == pos + 1
  <1>1. /\ cdc = "run" /\ Behind /\ Announce(n) /\ pos' = n
        /\ UNCHANGED <<busVars, tableVars, writeVars, cdc, procVars>>
    BY DEF CdcPublishes
  <1>2. /\ mirror' \in [Orders -> Contents] /\ out' \subseteq 1 .. Len(binlog)
        /\ n \in 1 .. Len(binlog)
        /\ \A o \in Orders :
             (\A i \in 1 .. Len(binlog) : binlog[i].order # o) => mirror'[o] = None
    BY <1>1, AnnounceStep
  <1>3. TypeOK'
    <2>1. pos' \in 0 .. Len(binlog)
      BY <1>1, <1>2 DEF TypeOK
    <2> QED BY <1>1, <1>2, <2>1 DEF TypeOK, busVars, tableVars, writeVars, procVars
  <1>4. BusInv' /\ JobInv' /\ StoredInv' /\ AckedIsPersisted' /\ RowInv'
    BY <1>1 DEF BusInv, JobInv, Busy, StoredInv, AckedIsPersisted, RowInv, busVars, tableVars,
                writeVars, procVars
  <1>5. MirrorInv'
    <2> DEFINE b == binlog[n]
    <2>1. binlog \in Seq(Change) /\ Len(binlog) \in Nat /\ pos \in Nat
      BY DEF TypeOK, Change
    <2>2. \A i \in 1 .. Len(binlog) : binlog[i].order \in Orders
      <3>1. \A i \in 1 .. Len(binlog) : binlog[i] \in Change
        BY <2>1
      <3> QED BY <3>1 DEF Change
    <2>3. /\ mirror'[b.order] = b.content
          /\ \A o \in Orders : o # b.order => mirror'[o] = mirror[o]
      BY <1>1, <1>2, <2>2 DEF Announce, TypeOK
    <2>4. ASSUME NEW i \in 1 .. n,
                 \A j \in i + 1 .. n : binlog[j].order # binlog[i].order
          PROVE  mirror'[binlog[i].order] = binlog[i].content
      <3>1. CASE i = n
        BY <3>1, <2>3
      <3>2. CASE i # n
        <4>1. i \in 1 .. pos /\ i \in 1 .. Len(binlog) /\ n \in i + 1 .. n
          BY <3>2, <2>1, <1>2
        <4>2. b.order # binlog[i].order
          BY <4>1, <2>4
        <4>3. \A j \in i + 1 .. pos : binlog[j].order # binlog[i].order
          BY <2>1, <2>4
        <4> QED BY <4>1, <4>2, <4>3, <1>1, <2>2, <2>3 DEF MirrorInv
      <3> QED BY <3>1, <3>2
    <2> HIDE DEF b, n
    <2> QED BY <1>1, <1>2, <2>4 DEF MirrorInv, tableVars
  <1>6. OrderInv'
    BY <1>1, OrderFrame DEF busVars, tableVars, writeVars
  <1> QED BY <1>3, <1>4, <1>5, <1>6

LEMMA CdcFailsIInv == ASSUME IInv, CdcFails PROVE IInv'
  <1> USE DEF IInv
  <1>1. /\ cdc' = "dead"
        /\ UNCHANGED changeVars \/ (Behind /\ Announce(pos + 1))
        /\ UNCHANGED <<busVars, tableVars, writeVars, pos, procVars>>
    BY DEF CdcFails
  <1>2. /\ mirror' \in [Orders -> Contents] /\ out' \subseteq 1 .. Len(binlog)
        /\ \A o \in Orders :
             (\A i \in 1 .. Len(binlog) : binlog[i].order # o) => mirror'[o] = None
    <2>1. CASE UNCHANGED changeVars
      BY <2>1 DEF changeVars, TypeOK, MirrorInv
    <2>2. CASE Behind /\ Announce(pos + 1)
      BY <2>2, AnnounceStep
    <2> QED BY <1>1, <2>1, <2>2
  <1>3. TypeOK'
    BY <1>1, <1>2 DEF TypeOK, busVars, tableVars, writeVars, procVars
  <1>4. BusInv' /\ JobInv' /\ StoredInv' /\ AckedIsPersisted' /\ RowInv'
    BY <1>1 DEF BusInv, JobInv, Busy, StoredInv, AckedIsPersisted, RowInv, busVars, tableVars,
                writeVars, procVars
  <1>5. MirrorInv'
    BY <1>1, <1>2 DEF MirrorInv, tableVars
  <1>6. OrderInv'
    BY <1>1, OrderFrame DEF busVars, tableVars, writeVars
  <1> QED BY <1>3, <1>4, <1>5, <1>6

LEMMA WrittenOutsideIInv ==
  ASSUME IInv, NEW o \in Orders, NEW c \in {None, Outside}, WrittenOutside(o, c) PROVE IInv'
  <1> USE DEF IInv
  <1>1. /\ SetRow(o, c) /\ touched' = touched \cup {o}
        /\ UNCHANGED <<busVars, changeVars, stored, writeVars, cdcVars, procVars>>
    BY DEF WrittenOutside
  <1>2. /\ row' \in [Orders -> Contents] /\ binlog' \in Seq(Change)
        /\ \A p \in Orders \ {o} : row'[p] = row[p]
        /\ LogGrows /\ RowInv'
    BY <1>1, SetRowStep DEF Contents
  <1>3. TypeOK'
    <2>1. out' \subseteq 1 .. Len(binlog') /\ pos' \in 0 .. Len(binlog')
      BY <1>1, <1>2 DEF TypeOK, LogGrows, changeVars, cdcVars
    <2> QED BY <1>1, <1>2, <2>1 DEF TypeOK, Change, busVars, changeVars, writeVars, cdcVars, procVars
  <1>4. BusInv' /\ JobInv' /\ StoredInv' /\ AckedIsPersisted'
    BY <1>1 DEF BusInv, JobInv, Busy, StoredInv, AckedIsPersisted, busVars, writeVars, procVars
  <1>5. MirrorInv'
    BY <1>1, <1>2, MirrorFrame DEF changeVars, cdcVars
  <1>6. OrderInv'
    <2>1. \A p \in Orders : EventsOf(p)' = EventsOf(p)
      BY <1>1 DEF EventsOf, busVars
    <2>2. \A p \in Orders : Alone(p)' => p # o /\ Alone(p) /\ row'[p] = row[p]
      BY <1>1, <1>2, <2>1 DEF Alone, busVars
    <2> QED BY <1>1, <2>1, <2>2 DEF OrderInv, writeVars
  <1> QED BY <1>2, <1>3, <1>4, <1>5, <1>6

-------------------------------------------------------------------------------
LEMMA NextIInv == IInv /\ [Next]_vars => IInv'
  <1> SUFFICES ASSUME IInv, [Next]_vars PROVE IInv'
    OBVIOUS
  <1>1. CASE WriterStep
    BY <1>1, PollIInv, FetchIInv, TakeIInv, UpsertSucceedsIInv, UpsertFailsIInv,
       PublishSucceedsIInv, AckJobIInv DEF WriterStep
  <1>2. CASE CdcStep
    BY <1>2, CdcPublishesIInv, CdcFindsClientClosedIInv, CdcStopsIInv DEF CdcStep
  <1>3. CASE ProcessStep
    BY <1>3, BridgeShutdownIInv, TeardownIInv, ExitIInv, StartProcessIInv DEF ProcessStep
  <1>4. CASE Environment
    BY <1>4, ArriveIInv, WrittenOutsideIInv, WriterRaisesIInv, CdcFailsIInv, SigtermIInv,
       CrashIInv DEF Environment
  <1>5. ASSUME NEW e \in Events, AckWaitExpires(e) PROVE IInv'
    BY <1>5, AckWaitExpiresIInv
  <1>6. CASE UNCHANGED vars
    <2>1. TypeOK'
      BY <1>6 DEF IInv, TypeOK, vars, busVars, changeVars, tableVars, writeVars, cdcVars, procVars
    <2> QED BY <1>6, <2>1, QuietIInv
            DEF IInv, JobInv, vars, changeVars, writeVars, cdcVars, procVars
  <1> QED BY <1>1, <1>2, <1>3, <1>4, <1>5, <1>6 DEF Next

LEMMA InitIInv == Init => IInv
  <1> SUFFICES ASSUME Init PROVE IInv
    OBVIOUS
  <1> USE DEF Init
  <1>1. TypeOK
    <2>1. 0 \in 0 .. N /\ 0 \in 0 .. MaxStarts /\ 0 \in 0 .. MaxDeliver
      BY DbAssumption
    <2>2. binlog \in Seq([order : Orders, content : Contents]) /\ Len(binlog) = 0
      OBVIOUS
    <2>3. NoRows \in [Orders -> Contents]
      BY DEF NoRows, Contents
    <2>4. /\ orderOf \in [Events -> Orders \cup {Malformed}]
          /\ encFor \in [Events -> 0 .. MaxStarts]
          /\ num \in [Events -> 0 .. MaxDeliver] /\ replied \in [Events -> Nat]
      BY <2>1
    <2>5. out \subseteq 1 .. Len(binlog) /\ pos \in 0 .. Len(binlog)
      BY <2>2
    <2> QED BY <2>1, <2>2, <2>3, <2>4, <2>5 DEF TypeOK
  <1>2. BusInv /\ StoredInv /\ AckedIsPersisted
    BY DbAssumption DEF BusInv, StoredInv, AckedIsPersisted
  <1>3. JobInv
    BY <1>1, JobShape DEF JobInv, Busy
  <1>4. RowInv /\ MirrorInv
    BY DEF RowInv, MirrorInv, NoRows
  <1>5. OrderInv
    BY JobShape, <1>1 DEF OrderInv, EventsOf, NoRows
  <1> QED BY <1>1, <1>2, <1>3, <1>4, <1>5 DEF IInv

LEMMA InvariantHolds == Spec => []IInv
  BY InitIInv, NextIInv, PTL DEF Spec

-------------------------------------------------------------------------------
\* Every variable of the adapter keeps to its values; in particular what the
\* thread has passed and published are positions of the binlog.
THEOREM TypeCorrect == Spec => []TypeOK
  <1>1. IInv => TypeOK
    BY DEF IInv
  <1> QED BY <1>1, InvariantHolds, PTL

\* However upserts fail, acks are late, the loop dies or the process crashes:
\* an OrderPersisted has its order in the table, there is at most one for each
\* delivery, and only malformed events are acked without.
THEOREM AckMeansPersisted == Spec => []AckedIsPersisted
  <1>1. IInv => AckedIsPersisted
    BY DEF IInv
  <1> QED BY <1>1, InvariantHolds, PTL

\* The upserts of an order that nobody else writes follow the stream as long as
\* none of its events is delivered twice, batches and cut-offs notwithstanding.
THEOREM FirstDeliveriesInOrder == Spec => []NoRetryNoReorder
  <1>1. IInv => NoRetryNoReorder
    <2> SUFFICES ASSUME IInv, NEW o \in Orders, Alone(o)
                 PROVE  \/ EventsOf(o) \cap stored = {} /\ row[o] = None
                        \/ /\ row[o] \in EventsOf(o) \cap stored
                           /\ \A e \in EventsOf(o) \cap stored : e <= row[o]
      BY DEF NoRetryNoReorder, Alone, EventsOf
    <2> QED BY DEF IInv, OrderInv, EventsOf
  <1> QED BY <1>1, InvariantHolds, PTL

\* A reader of the RowChanged events has the table whenever the thread has come
\* to the end of the binlog, however often it read it from the beginning.
THEOREM MirrorIsTable == Spec => []MirrorConverges
  <1>1. IInv => MirrorConverges
    <2> SUFFICES ASSUME IInv, cdc = "run", ~Behind PROVE mirror = row
      BY DEF MirrorConverges
    <2>1. pos = Len(binlog) /\ Len(binlog) \in Nat
      BY DEF IInv, TypeOK, Behind
    <2>2. ASSUME NEW o \in Orders PROVE mirror[o] = row[o]
      <3>1. CASE row[o] = None /\ \A i \in 1 .. Len(binlog) : binlog[i].order # o
        BY <3>1 DEF IInv, MirrorInv
      <3>2. CASE \E i \in 1 .. Len(binlog) :
                    /\ binlog[i].order = o /\ binlog[i].content = row[o]
                    /\ \A j \in i + 1 .. Len(binlog) : binlog[j].order # o
        <4>1. PICK i \in 1 .. Len(binlog) :
                    /\ binlog[i].order = o /\ binlog[i].content = row[o]
                    /\ \A j \in i + 1 .. Len(binlog) : binlog[j].order # o
          BY <3>2
        <4> QED BY <4>1, <2>1 DEF IInv, MirrorInv
      <3> QED BY <3>1, <3>2 DEF IInv, RowInv
    <2> QED BY <2>2 DEF IInv, TypeOK
  <1> QED BY <1>1, InvariantHolds, PTL

===============================================================================
