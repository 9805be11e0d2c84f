--------------------------- MODULE IdentityDirectory --------------------------
(***************************************************************************)
(* The service-identity bucket of libs/jetcore/jetcore/registry.py: every  *)
(* BusClient.connect() writes the process's signing key under its          *)
(* serviceId with a TTL of its own, and nothing else ever writes it.  The  *)
(* put of a connect() that raises is lost, or is applied later.            *)
(*                                                                         *)
(* A process stands for its signing key (stable across its restarts: it    *)
(* comes from the .creds file).  Two processes may be configured with one  *)
(* serviceId.  Time advances in units of which the entry lives Lifetime.   *)
(***************************************************************************)
EXTENDS Naturals

CONSTANTS
    Procs,      \* adapter processes, each also its signing key
    ServiceOf,  \* ServiceOf[p]: the serviceId p is configured with
    Nobody,     \* no entry
    Lifetime,   \* IDENTITY_TTL_SECONDS, in units of time
    MaxLate     \* bound: puts of one process in flight that nobody awaits

ASSUME IdentityAssumption ==
    /\ Nobody \notin Procs
    /\ Lifetime \in Nat \ {0}
    /\ MaxLate \in Nat

VARIABLES
    trusted,    \* trusted[s]: the key lookup_signing_key(s) returns, or Nobody
    age,        \* age[s]: time since the entry was written, up to Lifetime
    mode,       \* mode[p]: where connect() is, "up" when it has returned
    late,       \* late[p]: puts in flight whose connect() raised
    since,      \* since[p]: time since p called connect(), up to Lifetime
    rival       \* rival[p]: since then another process of p's serviceId had a
                \* put on its way

bucketVars == <<trusted, age, late>>
procVars == <<mode, since, rival>>
vars == <<bucketVars, procVars>>

ServiceIds == {ServiceOf[p] : p \in Procs}
Others(p) == {q \in Procs \ {p} : ServiceOf[q] = ServiceOf[p]}

\* "registering": awaiting register_identity(); "registered": its put is
\* applied, the acknowledgement still on its way.
Modes == {"down", "registering", "registered", "up"}

\* Mutant of RegisterIdentity: put-if-absent.
RegisterIfAbsent(p) ==
    IF trusted[ServiceOf[p]] = Nobody
    THEN /\ trusted' = [trusted EXCEPT ![ServiceOf[p]] = p]
         /\ age' = [age EXCEPT ![ServiceOf[p]] = 0]
    ELSE UNCHANGED <<trusted, age>>

\* The put of register_identity() is applied: register or refresh, the last
\* write wins.
RegisterIdentity(p) ==
    /\ trusted' = [trusted EXCEPT ![ServiceOf[p]] = p]
    /\ age' = [age EXCEPT ![ServiceOf[p]] = 0]

OnItsWay(q) == mode[q] = "registering" \/ late[q] > 0

\* connect() of a process that starts, up to the await of register_identity().
\* A dropped connection that the client library restores by itself does not
\* come here.
Connect(p) ==
    /\ mode[p] = "down"
    /\ mode' = [mode EXCEPT ![p] = "registering"]
    /\ since' = [since EXCEPT ![p] = 0]
    /\ rival' = [q \in Procs |->
                    IF q = p THEN \E o \in Others(p) : OnItsWay(o)
                    ELSE rival[q] \/ (q \in Others(p) /\ mode[q] # "down")]
    /\ UNCHANGED bucketVars

PutLands(p) ==
    /\ mode[p] = "registering"
    /\ RegisterIdentity(p)
    /\ mode' = [mode EXCEPT ![p] = "registered"]
    /\ UNCHANGED <<late, since, rival>>

ConnectReturns(p) ==
    /\ mode[p] = "registered"
    /\ mode' = [mode EXCEPT ![p] = "up"]
    /\ UNCHANGED <<bucketVars, since, rival>>

Down(p) ==
    /\ mode' = [mode EXCEPT ![p] = "down"]
    /\ since' = [since EXCEPT ![p] = 0]
    /\ rival' = [rival EXCEPT ![p] = FALSE]

\* The publish of register_identity() raises out of connect(), or the process
\* is killed: a put that is not applied yet is lost, or stays in flight.
ConnectRaises(p) ==
    /\ mode[p] \in {"registering", "registered"}
    /\ Down(p)
    /\ \/ UNCHANGED late
       \/ /\ mode[p] = "registering" /\ late[p] < MaxLate
          /\ late' = [late EXCEPT ![p] = @ + 1]
    /\ UNCHANGED <<trusted, age>>

LatePutLands(p) ==
    /\ late[p] > 0
    /\ late' = [late EXCEPT ![p] = @ - 1]
    /\ RegisterIdentity(p)
    /\ UNCHANGED procVars

\* close() or a crash: the entry stays.
Close(p) ==
    /\ mode[p] = "up"
    /\ Down(p)
    /\ UNCHANGED bucketVars

\* Mutant of Expire: the entry is written without a TTL.
ExpireNever(s) == FALSE

\* The server drops an entry whose TTL is over.
Expire(s) ==
    /\ trusted[s] # Nobody /\ age[s] = Lifetime
    /\ trusted' = [trusted EXCEPT ![s] = Nobody]
    /\ UNCHANGED <<age, late, procVars>>

Older(n) == IF n < Lifetime THEN n + 1 ELSE n

Tick ==
    /\ \A s \in ServiceIds : trusted[s] # Nobody => age[s] < Lifetime
    /\ age' = [s \in ServiceIds |-> Older(age[s])]
    /\ since' = [p \in Procs |-> IF mode[p] = "down" THEN 0 ELSE Older(since[p])]
    /\ UNCHANGED <<trusted, late, mode, rival>>

Init ==
    /\ trusted = [s \in ServiceIds |-> Nobody]
    /\ age = [s \in ServiceIds |-> 0]
    /\ mode = [p \in Procs |-> "down"]
    /\ late = [p \in Procs |-> 0]
    /\ since = [p \in Procs |-> 0]
    /\ rival = [p \in Procs |-> FALSE]

ProcStep(p) ==
    \/ Connect(p)
    \/ PutLands(p)
    \/ ConnectReturns(p)
    \/ ConnectRaises(p)
    \/ LatePutLands(p)
    \/ Close(p)

Next ==
    \/ \E p \in Procs : ProcStep(p)
    \/ \E s \in ServiceIds : Expire(s)
    \/ Tick

\* Time passes, the server expires what is due, and a put in flight
\* arrives.
Spec ==
    /\ Init /\ [][Next]_vars
    /\ WF_vars(Tick)
    /\ \A s \in ServiceIds : WF_vars(Expire(s))
    /\ \A p \in Procs : WF_vars(LatePutLands(p))

-------------------------------------------------------------------------------
\* The values every variable keeps to.
TypeOK ==
    /\ trusted \in [ServiceIds -> Procs \cup {Nobody}]
    /\ age \in [ServiceIds -> 0 .. Lifetime]
    /\ late \in [Procs -> 0 .. MaxLate]
    /\ mode \in [Procs -> Modes]
    /\ since \in [Procs -> 0 .. Lifetime]
    /\ rival \in [Procs -> BOOLEAN]

\* "Refreshed automatically on every real register_identity() call": a process
\* whose connect() returned, less than a lifetime after it was called, can be
\* verified - whoever had the serviceId before it, however old that entry was,
\* and whatever its own failed attempts left in flight - unless another process
\* of its serviceId called connect() after it, or had a put on its way when it
\* did, that of a connect() that had raised included.
RecentConnectIsTrusted ==
    \A p \in Procs :
        mode[p] = "up" /\ since[p] < Lifetime /\ ~rival[p] => trusted[ServiceOf[p]] = p

\* register_identity(): "a genuinely decommissioned one (never reconnects again)
\* eventually ages out on its own", with the puts that come late.
DecommissionedAgesOut ==
    \A s \in ServiceIds :
        <>[](\A p \in Procs : ServiceOf[p] = s => mode[p] = "down") => <>[](trusted[s] = Nobody)

===============================================================================
