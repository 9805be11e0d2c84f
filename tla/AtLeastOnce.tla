------------------------------ MODULE AtLeastOnce -----------------------------
(***************************************************************************)
(* What a durable consumer of the EVENTS stream promises, without keys,    *)
(* batches, processes or time: every event is in an append-only log; a     *)
(* consumer is handed it a bounded number of times; once acknowledged,     *)
(* which takes a hand-over, it is never handed out again; and one that     *)
(* nobody acknowledges may be dropped.                                     *)
(***************************************************************************)
EXTENDS Naturals, Sequences

CONSTANTS
    Event,      \* the events there can be
    Consumers,
    MaxHands,   \* how often a consumer is handed one event
    MaxEvents   \* bound: events in the log

VARIABLES
    log,        \* the events, in the order they were accepted
    handed,     \* handed[c][i]: how often c was handed event i
    outcome     \* outcome[c][i]: "open", "acked" or "dropped"

vars == <<log, handed, outcome>>
Places == 1 .. MaxEvents

Init ==
    /\ log = <<>>
    /\ handed = [c \in Consumers |-> [i \in Places |-> 0]]
    /\ outcome = [c \in Consumers |-> [i \in Places |-> "open"]]

Accept(d) ==
    /\ Len(log) < MaxEvents
    /\ log' = Append(log, d)
    /\ UNCHANGED <<handed, outcome>>

\* An event that was dropped may still be on its way to the handler.
HandOver(c, i) ==
    /\ i <= Len(log)
    /\ outcome[c][i] # "acked"
    /\ handed[c][i] < MaxHands
    /\ handed' = [handed EXCEPT ![c][i] = @ + 1]
    /\ UNCHANGED <<log, outcome>>

\* The handler's ack counts, even when it comes after the drop.
Acknowledge(c, i) ==
    /\ handed[c][i] > 0
    /\ outcome[c][i] # "acked"
    /\ outcome' = [outcome EXCEPT ![c][i] = "acked"]
    /\ UNCHANGED <<log, handed>>

Drop(c, i) ==
    /\ i <= Len(log)
    /\ outcome[c][i] = "open"
    /\ outcome' = [outcome EXCEPT ![c][i] = "dropped"]
    /\ UNCHANGED <<log, handed>>

Next ==
    \/ \E d \in Event : Accept(d)
    \/ \E c \in Consumers, i \in Places : HandOver(c, i) \/ Acknowledge(c, i) \/ Drop(c, i)

Spec == Init /\ [][Next]_vars

===============================================================================
