----------------------------- MODULE CommandLog ------------------------------
(***************************************************************************)
(* What the orchestration engine promises its clients: a command takes     *)
(* effect at most once, as one uninterrupted run of events in a log that   *)
(* only grows, and every successful answer it gets, however often it is    *)
(* sent and whatever crashes in between, is the position of that effect.   *)
(* There is no server process here, no queue and no read model.            *)
(***************************************************************************)
EXTENDS Naturals, Sequences

CONSTANTS CommandIds, Event

VARIABLES
  log,       \* the events, in order of their sequence numbers
  outcome,   \* per command: whether and how it was decided
  acks       \* successful answers given: pairs <<command id, sequence>>

vars == <<log, outcome, acks>>

Outcome == [status : {"none", "accepted", "rejected"}, sequence : Nat]

Undecided(c) == outcome[c].status = "none"
Accepted(c) == outcome[c].status = "accepted"

TypeOK ==
  /\ log \in Seq(Event)
  /\ \A i \in 1..Len(log) : log[i].cmd \in CommandIds
  /\ outcome \in [CommandIds -> Outcome]
  /\ acks \in SUBSET (CommandIds \X Nat)

Init ==
  /\ log = <<>>
  /\ outcome = [c \in CommandIds |-> [status |-> "none", sequence |-> 0]]
  /\ acks = {}

\* The log grows by a non-empty run of events of one undecided command.
Accept(c) ==
  /\ Undecided(c)
  /\ log' \in Seq(Event)
  /\ Len(log') > Len(log)
  /\ \A i \in 1..Len(log) : log'[i] = log[i]
  /\ \A i \in (Len(log) + 1)..Len(log') : log'[i].cmd = c
  /\ outcome' = [outcome EXCEPT ![c] = [status |-> "accepted", sequence |-> Len(log')]]
  /\ UNCHANGED acks

Reject(c) ==
  /\ Undecided(c)
  /\ \E n \in 0..Len(log) :
       outcome' = [outcome EXCEPT ![c] = [status |-> "rejected", sequence |-> n]]
  /\ UNCHANGED <<log, acks>>

Ack(c) ==
  /\ Accepted(c)
  /\ acks' = acks \cup {<<c, outcome[c].sequence>>}
  /\ UNCHANGED <<log, outcome>>

Next == \E c \in CommandIds : Accept(c) \/ Reject(c) \/ Ack(c)

Spec == Init /\ [][Next]_vars

-----------------------------------------------------------------------------

\* Every event belongs to a command that was accepted, and accepted at or after
\* that event: nothing of a rejected, failed or unfinished command is stored.
NoOrphanEvents ==
  \A i \in 1..Len(log) :
    Accepted(log[i].cmd) /\ i <= outcome[log[i].cmd].sequence

\* An accepted command's outcome points at its own last event.
OutcomePointsAtEffect ==
  \A c \in CommandIds :
    Accepted(c) => /\ outcome[c].sequence \in 1..Len(log)
                   /\ log[outcome[c].sequence].cmd = c

\* The events of a command are consecutive: it took effect once, undivided by
\* the effect of any other.
OneRunPerCommand ==
  \A i, k \in 1..Len(log) :
    log[i].cmd = log[k].cmd => \A j \in i..k : log[j].cmd = log[i].cmd

\* All successful answers to a command are the same, and name its effect.
AcksAgree ==
  \A a \in acks : Accepted(a[1]) /\ outcome[a[1]].sequence = a[2]

AtMostOnce == NoOrphanEvents /\ OutcomePointsAtEffect /\ OneRunPerCommand /\ AcksAgree

=============================================================================
