--------------------------- MODULE CommandLog_proof --------------------------
(* At-most-once, proved of the abstract command log for any commands and    *)
(* events.                                                                 *)
EXTENDS CommandLog, TLAPS

IInv == TypeOK /\ AtMostOnce

LEMMA CommandLogInit == Init => IInv
BY DEF Init, IInv, TypeOK, AtMostOnce, NoOrphanEvents, OutcomePointsAtEffect,
       OneRunPerCommand, AcksAgree, Accepted, Outcome

\* Accepting an undecided command keeps the invariant: none of the old events is
\* the command's own, so its run is exactly the new suffix.
LEMMA AcceptKeeps ==
  ASSUME IInv, NEW c \in CommandIds, Accept(c)
  PROVE  IInv'
<1> USE DEF IInv, AtMostOnce
<1> DEFINE n == Len(log)
           m == Len(log')
<1>1. /\ log \in Seq(Event) /\ log' \in Seq(Event)
      /\ n \in Nat /\ m \in Nat /\ n < m
      /\ \A i \in 1..n : log'[i] = log[i]
      /\ \A i \in (n + 1)..m : log'[i].cmd = c
  BY DEF Accept, TypeOK
<1>2. \A i \in 1..n : log[i].cmd \in CommandIds /\ log[i].cmd # c
  BY DEF Accept, TypeOK, NoOrphanEvents, Accepted, Undecided
<1>3. /\ outcome'[c] = [status |-> "accepted", sequence |-> m]
      /\ \A d \in CommandIds \ {c} : outcome'[d] = outcome[d]
      /\ ~ Accepted(c) /\ acks' = acks
  BY DEF Accept, TypeOK, Undecided, Accepted
<1> HIDE DEF n, m
<1>4. TypeOK'
  <2>1. outcome' \in [CommandIds -> Outcome]
    BY <1>1 DEF Accept, TypeOK, Outcome, m
  <2>2. \A i \in 1..m : log'[i].cmd \in CommandIds
    BY <1>1, <1>2
  <2> QED BY <1>1, <1>3, <2>1, <2>2 DEF TypeOK, m
<1>5. NoOrphanEvents'
  <2> SUFFICES ASSUME NEW i \in 1..m
               PROVE  (Accepted(log[i].cmd) /\ i <= outcome[log[i].cmd].sequence)'
    BY DEF NoOrphanEvents, m
  <2>1. CASE i \in 1..n
    BY <2>1, <1>1, <1>2, <1>3 DEF NoOrphanEvents, Accepted, n
  <2>2. CASE i \in (n + 1)..m
    BY <2>2, <1>1, <1>3 DEF Accepted
  <2> QED BY <1>1, <2>1, <2>2
<1>6. OutcomePointsAtEffect'
  <2> SUFFICES ASSUME NEW d \in CommandIds, Accepted(d)'
               PROVE  /\ outcome'[d].sequence \in 1..m
                      /\ log'[outcome'[d].sequence].cmd = d
    BY DEF OutcomePointsAtEffect, m
  <2>1. CASE d = c
    BY <2>1, <1>1, <1>3
  <2>2. CASE d # c
    BY <2>2, <1>1, <1>3 DEF OutcomePointsAtEffect, Accepted, n
  <2> QED BY <2>1, <2>2
<1>7. OneRunPerCommand'
  <2> SUFFICES ASSUME NEW i \in 1..m, NEW k \in 1..m, log'[i].cmd = log'[k].cmd,
                      NEW j \in i..k
               PROVE  log'[j].cmd = log'[i].cmd
    BY DEF OneRunPerCommand, m
  <2>1. CASE i \in 1..n /\ k \in 1..n
    BY <2>1, <1>1 DEF OneRunPerCommand, n
  <2>2. CASE i \in (n + 1)..m
    BY <2>2, <1>1
  <2>3. CASE i \in 1..n /\ k \in (n + 1)..m
    BY <2>3, <1>1, <1>2
  <2> QED BY <1>1, <2>1, <2>2, <2>3
<1>8. AcksAgree'
  BY <1>3 DEF AcksAgree, Accepted, TypeOK
<1> QED BY <1>4, <1>5, <1>6, <1>7, <1>8

LEMMA RejectKeeps ==
  ASSUME IInv, NEW c \in CommandIds, Reject(c)
  PROVE  IInv'
<1> USE DEF IInv, AtMostOnce
<1>1. /\ ~ Accepted(c) /\ ~ Accepted(c)'
      /\ \A d \in CommandIds \ {c} : outcome'[d] = outcome[d]
      /\ log' = log /\ acks' = acks
  BY DEF Reject, TypeOK, Accepted, Undecided
<1>2. TypeOK'
  BY DEF Reject, TypeOK, Outcome
<1>3. NoOrphanEvents'
  BY <1>1 DEF NoOrphanEvents, TypeOK, Accepted
<1>4. OutcomePointsAtEffect'
  BY <1>1 DEF OutcomePointsAtEffect, Accepted
<1>5. OneRunPerCommand'
  BY <1>1 DEF OneRunPerCommand
<1>6. AcksAgree'
  BY <1>1 DEF AcksAgree, Accepted, TypeOK
<1> QED BY <1>2, <1>3, <1>4, <1>5, <1>6

LEMMA AckKeeps ==
  ASSUME IInv, NEW c \in CommandIds, Ack(c)
  PROVE  IInv'
<1> USE DEF IInv, AtMostOnce
<1>1. log' = log /\ outcome' = outcome
  BY DEF Ack
<1>2. TypeOK' /\ AcksAgree'
  BY DEF Ack, TypeOK, AcksAgree, Outcome, Accepted
<1> QED
  BY <1>1, <1>2 DEF NoOrphanEvents, OutcomePointsAtEffect, OneRunPerCommand, Accepted

LEMMA CommandLogNext == IInv /\ [Next]_vars => IInv'
<1> SUFFICES ASSUME IInv, [Next]_vars PROVE IInv'
  OBVIOUS
<1>1. CASE Next
  BY <1>1, AcceptKeeps, RejectKeeps, AckKeeps DEF Next
<1>2. CASE UNCHANGED vars
  BY <1>2 DEF vars, IInv, TypeOK, AtMostOnce, NoOrphanEvents, OutcomePointsAtEffect,
              OneRunPerCommand, AcksAgree, Accepted
<1> QED BY <1>1, <1>2

\* A command takes effect at most once, as one run of events owned by it, and its
\* successful answers all name that effect: in every behaviour of the abstract log.
THEOREM AtMostOnceHolds == Spec => []AtMostOnce
<1>1. IInv => AtMostOnce
  BY DEF IInv
<1> QED BY CommandLogInit, CommandLogNext, <1>1, PTL DEF Spec

=============================================================================
