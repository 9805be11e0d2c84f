------------------------ MODULE IdentityDirectoryProofs -----------------------
(***************************************************************************)
(* Proofs about IdentityDirectory, for any processes, any lifetime and any *)
(* number of puts in flight.                                               *)
(*                                                                         *)
(* RecentConnectIsTrusted is not inductive by itself: the entry could have *)
(* any age, and Expire would drop it, or a put could still be on its way   *)
(* and replace it.  AgeInv extends the claim to the time between the put   *)
(* and the return of connect(), and says that the entry is no older than   *)
(* the call; RivalInv says that no other put is on its way while rival is  *)
(* FALSE.                                                                  *)
(***************************************************************************)
EXTENDS IdentityDirectory, TLAPS

Holds(p) ==
    mode[p] \in {"registered", "up"} /\ since[p] < Lifetime /\ ~rival[p]
        => trusted[ServiceOf[p]] = p /\ age[ServiceOf[p]] <= since[p]

AgeInv == \A p \in Procs : Holds(p)

RivalInv ==
    \A p \in Procs :
        mode[p] # "down" /\ ~rival[p] => \A q \in Others(p) : ~OnItsWay(q)

IInv == TypeOK /\ AgeInv /\ RivalInv

LEMMA ServiceOfProc == \A p \in Procs : ServiceOf[p] \in ServiceIds
  BY DEF ServiceIds

LEMMA OthersMutual == \A p, q \in Procs : q \in Others(p) <=> p \in Others(q)
  BY DEF Others

\* connect() marks every process that it may come to rival with, and looks for
\* what the others have on their way.
LEMMA ConnectIInv == ASSUME IInv, NEW p \in Procs, Connect(p) PROVE IInv'
  <1> USE DEF IInv
  <1>1. TypeOK'
    <2>1. mode' \in [Procs -> Modes] /\ since' \in [Procs -> 0 .. Lifetime]
      BY IdentityAssumption DEF TypeOK, Connect, Modes
    <2>2. rival' \in [Procs -> BOOLEAN]
      <3>1. ASSUME NEW q \in Procs
            PROVE  (IF q = p THEN \E o \in Others(p) : OnItsWay(o)
                    ELSE rival[q] \/ (q \in Others(p) /\ mode[q] # "down")) \in BOOLEAN
        BY Zenon DEF TypeOK
      <3> QED BY <3>1, Zenon DEF Connect
    <2> QED BY <2>1, <2>2 DEF TypeOK, Connect, bucketVars
  <1>2. /\ UNCHANGED <<trusted, age, late>> /\ mode[p] = "down"
        /\ mode'[p] = "registering" /\ rival'[p] = (\E o \in Others(p) : OnItsWay(o))
        /\ \A q \in Procs \ {p} :
              /\ mode'[q] = mode[q] /\ since'[q] = since[q]
              /\ rival'[q] = (rival[q] \/ (q \in Others(p) /\ mode[q] # "down"))
    BY DEF TypeOK, Connect, bucketVars
  <1>3. \A q \in Procs \ {p} : OnItsWay(q)' <=> OnItsWay(q)
    BY <1>2 DEF OnItsWay
  <1>4. AgeInv'
    BY <1>2 DEF AgeInv, Holds
  <1>5. RivalInv'
    <2> SUFFICES ASSUME NEW q \in Procs, mode'[q] # "down", ~rival'[q], NEW o \in Others(q)
                 PROVE  ~OnItsWay(o)'
      BY DEF RivalInv, Others
    <2>1. o \in Procs /\ o # q
      BY DEF Others
    <2>2. CASE q = p
      BY <1>2, <1>3, <2>1, <2>2
    <2>3. CASE q # p
      <3>1. ~rival[q] /\ mode[q] # "down" /\ q \notin Others(p)
        BY <1>2, <2>3
      <3>2. o # p
        BY <3>1, <2>1, OthersMutual
      <3> QED BY <3>1, <3>2, <2>1, <1>3 DEF RivalInv
    <2> QED BY <2>2, <2>3
  <1> QED BY <1>1, <1>4, <1>5

\* A put that is applied, awaited or late, makes the entry new and p's.  Nobody
\* else's claim survives it, because it was on its way.
LEMMA PutKeepsAge ==
  ASSUME IInv, NEW p \in Procs, OnItsWay(p), RegisterIdentity(p), UNCHANGED <<since, rival>>,
         \A q \in Procs \ {p} : mode'[q] = mode[q]
  PROVE  AgeInv' /\ trusted' \in [ServiceIds -> Procs \cup {Nobody}]
                 /\ age' \in [ServiceIds -> 0 .. Lifetime]
  <1> DEFINE s == ServiceOf[p]
  <1>1. /\ trusted' \in [ServiceIds -> Procs \cup {Nobody}]
        /\ age' \in [ServiceIds -> 0 .. Lifetime]
        /\ trusted'[s] = p /\ age'[s] = 0
        /\ \A t \in ServiceIds \ {s} : trusted'[t] = trusted[t] /\ age'[t] = age[t]
    BY ServiceOfProc, IdentityAssumption DEF IInv, TypeOK, RegisterIdentity
  <1>2. Holds(p)'
    <2>1. since[p] \in Nat
      BY IdentityAssumption DEF IInv, TypeOK
    <2> QED BY <1>1, <2>1 DEF Holds
  <1>3. ASSUME NEW q \in Procs \ {p} PROVE Holds(q)'
    <2>1. CASE q \in Others(p)
      <3>1. mode[q] # "down" => rival[q]
        BY <2>1, OthersMutual DEF IInv, RivalInv
      <3> QED BY <3>1 DEF Holds
    <2>2. CASE q \notin Others(p)
      <3>1. ServiceOf[q] \in ServiceIds \ {s}
        BY <2>2, ServiceOfProc DEF Others
      <3> QED BY <1>1, <3>1 DEF IInv, AgeInv, Holds
    <2> QED BY <2>1, <2>2
  <1> QED BY <1>1, <1>2, <1>3 DEF AgeInv

\* A step that puts nothing new on its way keeps RivalInv.
LEMMA FewerPuts ==
  ASSUME RivalInv,
         \A q \in Procs : OnItsWay(q)' => OnItsWay(q),
         \A q \in Procs : mode'[q] # "down" /\ ~rival'[q] => mode[q] # "down" /\ ~rival[q]
  PROVE  RivalInv'
  BY DEF RivalInv, Others

LEMMA PutLandsIInv == ASSUME IInv, NEW p \in Procs, PutLands(p) PROVE IInv'
  <1>1. /\ OnItsWay(p) /\ RegisterIdentity(p) /\ UNCHANGED <<since, rival, late>>
        /\ mode[p] = "registering" /\ mode'[p] = "registered" /\ mode' \in [Procs -> Modes]
        /\ \A q \in Procs \ {p} : mode'[q] = mode[q]
    BY DEF IInv, TypeOK, PutLands, OnItsWay, Modes
  <1>2. AgeInv' /\ TypeOK'
    BY <1>1, PutKeepsAge DEF IInv, TypeOK
  <1>3. RivalInv'
    BY <1>1, FewerPuts DEF IInv, OnItsWay
  <1> QED BY <1>2, <1>3 DEF IInv

LEMMA LatePutLandsIInv == ASSUME IInv, NEW p \in Procs, LatePutLands(p) PROVE IInv'
  <1>1. /\ OnItsWay(p) /\ RegisterIdentity(p) /\ UNCHANGED <<mode, since, rival>>
        /\ late' \in [Procs -> 0 .. MaxLate]
        /\ \A q \in Procs : late'[q] > 0 => late[q] > 0
    BY IdentityAssumption DEF IInv, TypeOK, LatePutLands, OnItsWay, procVars
  <1>2. AgeInv' /\ TypeOK'
    BY <1>1, PutKeepsAge DEF IInv, TypeOK
  <1>3. RivalInv'
    BY <1>1, FewerPuts DEF IInv, OnItsWay
  <1> QED BY <1>2, <1>3 DEF IInv

LEMMA ConnectReturnsIInv == ASSUME IInv, NEW p \in Procs, ConnectReturns(p) PROVE IInv'
  <1>1. /\ UNCHANGED <<trusted, age, late, since, rival>>
        /\ mode[p] = "registered" /\ mode'[p] = "up" /\ mode' \in [Procs -> Modes]
        /\ \A q \in Procs \ {p} : mode'[q] = mode[q]
    BY DEF IInv, TypeOK, ConnectReturns, bucketVars, Modes
  <1>2. TypeOK' /\ AgeInv'
    BY <1>1 DEF IInv, TypeOK, AgeInv, Holds
  <1>3. RivalInv'
    BY <1>1, FewerPuts DEF IInv, OnItsWay
  <1> QED BY <1>2, <1>3 DEF IInv

\* A process that goes down, with or without a put left in flight: that put
\* was on its way before.
LEMMA DownIInv ==
  ASSUME IInv, NEW p \in Procs, Down(p), UNCHANGED <<trusted, age>>,
         late' \in [Procs -> 0 .. MaxLate],
         \A q \in Procs : OnItsWay(q)' => OnItsWay(q)
  PROVE  IInv'
  <1>0. /\ mode' = [mode EXCEPT ![p] = "down"] /\ mode \in [Procs -> Modes]
        /\ since' = [since EXCEPT ![p] = 0] /\ since \in [Procs -> 0 .. Lifetime]
        /\ rival' = [rival EXCEPT ![p] = FALSE] /\ rival \in [Procs -> BOOLEAN]
        /\ 0 \in 0 .. Lifetime /\ "down" \in Modes
    BY IdentityAssumption DEF IInv, TypeOK, Down, Modes
  <1>1. /\ mode' \in [Procs -> Modes] /\ since' \in [Procs -> 0 .. Lifetime]
        /\ rival' \in [Procs -> BOOLEAN]
        /\ mode'[p] = "down"
        /\ \A q \in Procs \ {p} :
              mode'[q] = mode[q] /\ since'[q] = since[q] /\ rival'[q] = rival[q]
    BY <1>0, Zenon
  <1>2. AgeInv'
    BY <1>1 DEF IInv, AgeInv, Holds
  <1>3. RivalInv'
    BY <1>1, FewerPuts DEF IInv
  <1>4. TypeOK'
    BY <1>1 DEF IInv, TypeOK
  <1> QED BY <1>2, <1>3, <1>4 DEF IInv

LEMMA ConnectRaisesIInv == ASSUME IInv, NEW p \in Procs, ConnectRaises(p) PROVE IInv'
  <1>1. late' \in [Procs -> 0 .. MaxLate]
    BY IdentityAssumption DEF IInv, TypeOK, ConnectRaises
  <1>2. \A q \in Procs : OnItsWay(q)' => OnItsWay(q)
    BY DEF IInv, TypeOK, ConnectRaises, Down, OnItsWay
  <1> QED BY <1>1, <1>2, DownIInv DEF ConnectRaises

LEMMA CloseIInv == ASSUME IInv, NEW p \in Procs, Close(p) PROVE IInv'
  <1>1. late' \in [Procs -> 0 .. MaxLate] /\ \A q \in Procs : OnItsWay(q)' => OnItsWay(q)
    BY DEF IInv, TypeOK, Close, Down, OnItsWay, bucketVars
  <1> QED BY <1>1, DownIInv DEF Close, bucketVars

\* The server only drops entries of the full age, so none of a recent connect.
LEMMA ExpireIInv == ASSUME IInv, NEW s \in ServiceIds, Expire(s) PROVE IInv'
  <1>1. /\ UNCHANGED <<age, late, mode, since, rival>> /\ age[s] = Lifetime
        /\ trusted' \in [ServiceIds -> Procs \cup {Nobody}]
        /\ \A t \in ServiceIds \ {s} : trusted'[t] = trusted[t]
    BY DEF IInv, TypeOK, Expire, procVars
  <1>2. AgeInv'
    <2> SUFFICES ASSUME NEW p \in Procs PROVE Holds(p)'
      BY DEF AgeInv
    <2>1. since[p] \in Nat /\ Lifetime \in Nat /\ Holds(p)
      BY IdentityAssumption DEF IInv, TypeOK, AgeInv
    <2>2. CASE ServiceOf[p] = s
      BY <1>1, <2>1, <2>2 DEF Holds
    <2>3. CASE ServiceOf[p] # s
      BY <1>1, <2>1, <2>3, ServiceOfProc DEF Holds
    <2> QED BY <2>2, <2>3
  <1>3. RivalInv'
    BY <1>1, FewerPuts DEF IInv, OnItsWay
  <1> QED BY <1>1, <1>2, <1>3 DEF IInv, TypeOK

\* Entry and connect grow older at the same pace.
LEMMA TickIInv == ASSUME IInv, Tick PROVE IInv'
  <1>1. TypeOK'
    BY IdentityAssumption DEF IInv, TypeOK, Tick, Older
  <1>2. AgeInv'
    <2> SUFFICES ASSUME NEW p \in Procs PROVE Holds(p)'
      BY DEF AgeInv
    <2> DEFINE s == ServiceOf[p]
    <2>1. s \in ServiceIds /\ since[p] \in 0 .. Lifetime /\ age[s] \in 0 .. Lifetime /\ Holds(p)
      BY ServiceOfProc DEF IInv, TypeOK, AgeInv
    <2>2. /\ age'[s] = Older(age[s]) /\ UNCHANGED <<trusted, mode, rival>>
          /\ mode[p] # "down" => since'[p] = Older(since[p])
      BY <2>1 DEF Tick
    <2>3. mode[p] \in {"registered", "up"} => mode[p] # "down"
      OBVIOUS
    <2> QED BY <2>1, <2>2, <2>3, IdentityAssumption DEF Holds, Older
  <1>3. RivalInv'
    BY FewerPuts DEF IInv, OnItsWay, Tick
  <1> QED BY <1>1, <1>2, <1>3 DEF IInv

LEMMA NextIInv == IInv /\ [Next]_vars => IInv'
  <1> SUFFICES ASSUME IInv, [Next]_vars PROVE IInv'
    OBVIOUS
  <1>1. ASSUME NEW p \in Procs, ProcStep(p) PROVE IInv'
    BY <1>1, ConnectIInv, PutLandsIInv, ConnectReturnsIInv, ConnectRaisesIInv,
       LatePutLandsIInv, CloseIInv DEF ProcStep
  <1>2. ASSUME NEW s \in ServiceIds, Expire(s) PROVE IInv'
    BY <1>2, ExpireIInv
  <1>3. CASE Tick
    BY <1>3, TickIInv
  <1>4. CASE UNCHANGED vars
    BY <1>4 DEF IInv, TypeOK, AgeInv, Holds, RivalInv, OnItsWay, Others, vars, bucketVars, procVars
  <1> QED BY <1>1, <1>2, <1>3, <1>4 DEF Next

LEMMA InvariantHolds == Spec => []IInv
  <1>1. Init => IInv
    BY IdentityAssumption DEF Init, IInv, TypeOK, AgeInv, Holds, RivalInv, Modes
  <1> QED BY <1>1, NextIInv, PTL DEF Spec

-------------------------------------------------------------------------------
\* The identity bucket keeps one key or none for each serviceId, and no entry
\* outlives its TTL.
THEOREM TypeCorrect == Spec => []TypeOK
  <1>1. IInv => TypeOK
    BY DEF IInv
  <1> QED BY <1>1, InvariantHolds, PTL

\* Whatever processes share a serviceId and however they connect, fail to
\* connect, close, crash, have puts land late and let time pass:
\* lookup_signing_key() returns the key of a process whose connect() returned
\* and is not a lifetime old, unless another process of its serviceId connected
\* beside or after it.
THEOREM ConnectRefreshesTrust == Spec => []RecentConnectIsTrusted
  <1>1. IInv => RecentConnectIsTrusted
    BY DEF IInv, AgeInv, Holds, RecentConnectIsTrusted
  <1> QED BY <1>1, InvariantHolds, PTL

===============================================================================
