------------------------ MODULE DrainableWorker_proof ------------------------
(***************************************************************************)
(* What drain() waits for, proved for any number of items and of drains.   *)
(***************************************************************************)
EXTENDS DrainableWorker, Integers, TLAPS

\* Items leave the queue in the order of their numbers, so three counters say where
\* each of them is: the queue holds the last Len(queue) of those enqueued, the worker
\* the one before them, and all before that are done.
Taken == enqueued - Len(queue)

IInv ==
  /\ TypeOK
  /\ CounterExact
  /\ Len(queue) <= enqueued
  /\ \A i \in 1..Len(queue) : queue[i] = Taken + i
  /\ stage = "processing" => item = Taken /\ Taken > 0
  /\ done = 1..(IF stage = "processing" THEN Taken - 1 ELSE Taken)
  /\ \A d \in Drainers : drains[d].mark <= enqueued
  /\ DrainWaitsForAll

\* The initial state satisfies the invariant.
LEMMA DrainInit == Init => IInv
  BY DEF Init, IInv, TypeOK, CounterExact, DrainWaitsForAll, Taken, Drain

\* enqueue counts what it offers.
LEMMA EnqueueKeeps == IInv /\ Enqueue => IInv'
<1> SUFFICES ASSUME IInv, Enqueue PROVE IInv'
  OBVIOUS
<1> USE DEF IInv, TypeOK, Enqueue, worker
<1>1. /\ queue' \in Seq(Nat)
      /\ Len(queue') = Len(queue) + 1
      /\ \A i \in 1..Len(queue) : queue'[i] = queue[i]
      /\ queue'[Len(queue) + 1] = enqueued + 1
  OBVIOUS
<1>2. Taken' = Taken
  BY <1>1 DEF Taken
<1>3. TypeOK'
  BY <1>1
<1>4. CounterExact'
  BY <1>1 DEF CounterExact
<1>5. \A i \in 1..Len(queue') : queue'[i] = Taken' + i
  <2>1. Taken \in Int /\ Taken + Len(queue) + 1 = enqueued + 1
    BY DEF Taken
  <2>2. ASSUME NEW i \in 1..Len(queue') PROVE queue'[i] = Taken + i
    <3>1. CASE i \in 1..Len(queue)
      BY <1>1, <3>1
    <3>2. CASE i = Len(queue) + 1
      BY <1>1, <2>1, <3>2
    <3> QED
      BY <1>1, <3>1, <3>2
  <2> QED
    BY <1>2, <2>2
<1>6. DrainWaitsForAll'
  BY DEF DrainWaitsForAll
<1>7. \A d \in Drainers : drains'[d].mark <= enqueued'
  BY DEF Drain
<1> QED
  BY <1>1, <1>2, <1>3, <1>4, <1>5, <1>6, <1>7

\* Taking an item leaves it outstanding.
LEMMA TakeKeeps == IInv /\ Take => IInv'
<1> SUFFICES ASSUME IInv, Take PROVE IInv'
  OBVIOUS
<1> USE DEF IInv, TypeOK, Take
<1>1. /\ queue' \in Seq(Nat)
      /\ Len(queue') = Len(queue) - 1
      /\ Len(queue) > 0
      /\ \A i \in 1..Len(queue') : queue'[i] = queue[i + 1]
      /\ item' = queue[1]
  OBVIOUS
<1>2. Taken' = Taken + 1
  BY <1>1 DEF Taken
<1>3. TypeOK'
  BY <1>1
<1>4. CounterExact'
  BY <1>1 DEF CounterExact
<1>5. \A i \in 1..Len(queue') : queue'[i] = Taken' + i
  BY <1>1, <1>2 DEF Taken
<1>6. item' = Taken' /\ Taken' > 0
  BY <1>1, <1>2 DEF Taken
<1>7. DrainWaitsForAll'
  BY DEF DrainWaitsForAll
<1>8. done' = 1..(Taken' - 1)
  BY <1>2 DEF Taken
<1> QED
  BY <1>1, <1>3, <1>4, <1>5, <1>6, <1>7, <1>8

\* An item is counted off when it is through, well or badly.
LEMMA EndKeeps == IInv /\ (Finish \/ Die) => IInv'
<1> SUFFICES ASSUME IInv, Finish \/ Die PROVE IInv'
  OBVIOUS
<1> USE DEF IInv, TypeOK, Finish, Die
<1>1. Taken' = Taken /\ Taken \in Nat
  BY DEF Taken
<1>2. CounterExact' /\ outstanding' \in Nat
  BY DEF CounterExact
<1>3. done' = 1..Taken'
  <2>1. done = 1..(Taken - 1) /\ done' = done \cup {item} /\ item = Taken /\ Taken > 0
    OBVIOUS
  <2>2. ASSUME NEW n \in Nat, n > 0, NEW x PROVE x \in (1..(n - 1)) \cup {n} <=> x \in 1..n
    <3>1. CASE x \in Int
      BY <2>2, <3>1
    <3>2. CASE x \notin Int
      BY <2>2, <3>2
    <3> QED
      BY <3>1, <3>2
  <2> QED
    BY <1>1, <2>1, <2>2
<1>4. DrainWaitsForAll'
  BY DEF DrainWaitsForAll
<1>5. TypeOK'
  BY <1>2
<1> QED
  BY <1>1, <1>2, <1>3, <1>4, <1>5

\* A drain returns only when nothing is queued or held.
LEMMA DrainKeeps ==
  ASSUME NEW d \in Drainers, IInv, CallDrain(d) \/ ReturnDrain(d) PROVE IInv'
<1> USE DEF IInv, TypeOK, worker
<1>1. CASE CallDrain(d)
  BY <1>1 DEF CallDrain, CounterExact, DrainWaitsForAll, Drain, Taken
<1>2. CASE ReturnDrain(d)
  <2>1. Len(queue) = 0 /\ stage # "processing"
    BY <1>2 DEF ReturnDrain, CounterExact
  <2>2. 1..enqueued = done
    BY <2>1 DEF Taken
  <2>3. drains' \in [Drainers -> Drain]
    BY <1>2 DEF ReturnDrain, Drain
  <2>4. \A x \in Drainers : drains'[x].mark = drains[x].mark
    BY <1>2 DEF ReturnDrain, Drain
  <2>5. DrainWaitsForAll'
    <3>1. ASSUME NEW x \in Drainers, drains'[x].stage = "returned"
          PROVE 1..drains'[x].mark \subseteq done
      <4>1. CASE x = d
        <5>1. drains[x].mark \in Nat /\ drains[x].mark <= enqueued
          BY DEF Drain
        <5>2. 1..drains[x].mark \subseteq 1..enqueued
          BY <5>1
        <5> QED
          BY <2>2, <2>4, <5>2, Zenon
      <4>2. CASE x # d
        <5>1. drains'[x] = drains[x]
          BY <1>2, <4>2 DEF ReturnDrain
        <5> QED
          BY <3>1, <5>1 DEF DrainWaitsForAll
      <4> QED
        BY <4>1, <4>2
    <3> QED
      BY <1>2, <3>1 DEF DrainWaitsForAll, ReturnDrain
  <2> QED
    BY <1>2, <2>3, <2>4, <2>5 DEF ReturnDrain, CounterExact, Taken
<1> QED
  BY <1>1, <1>2

\* The invariant is inductive.
LEMMA DrainNext == IInv /\ [Next]_vars => IInv'
<1> SUFFICES ASSUME IInv, [Next]_vars PROVE IInv'
  OBVIOUS
<1>1. CASE UNCHANGED vars
  BY <1>1 DEF IInv, TypeOK, CounterExact, DrainWaitsForAll, Taken, vars, worker
<1> QED
  BY <1>1, EnqueueKeeps, TakeKeeps, EndKeeps, DrainKeeps DEF Next

\* The counter never loses or gains an item, and a drain that returned has waited for
\* everything enqueued before it, for any number of items and drains, and whether or
\* not the worker died.
THEOREM DrainIsSound == Spec => [](TypeOK /\ CounterExact /\ DrainWaitsForAll)
<1>1. IInv => TypeOK /\ CounterExact /\ DrainWaitsForAll
  BY DEF IInv
<1> QED
  BY DrainInit, DrainNext, <1>1, PTL DEF Spec

\* The variables keep their types: the counter, in particular, never goes below zero,
\* where drain would wait for ever.
THEOREM TypeCorrect == Spec => []TypeOK
<1>1. IInv => TypeOK
  BY DEF IInv
<1> QED
  BY DrainInit, DrainNext, <1>1, PTL DEF Spec

\* The counter is the number of items in the queue and in the worker's hands, also when
\* the worker died over one of them.
THEOREM CounterIsExact == Spec => []CounterExact
<1>1. IInv => CounterExact
  BY DEF IInv
<1> QED
  BY DrainInit, DrainNext, <1>1, PTL DEF Spec

=============================================================================
