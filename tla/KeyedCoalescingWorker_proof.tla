--------------------- MODULE KeyedCoalescingWorker_proof ---------------------
(***************************************************************************)
(* No value of the coalescing worker is lost, overtaken or stranded, for   *)
(* any set of keys and any number of enqueues.                             *)
(***************************************************************************)
EXTENDS KeyedCoalescingWorker, TLAPS

\* How the worker's own variables and activeKeys go together.
WorkerInv ==
  /\ stage = "idle" <=> key = None
  /\ activeKeys = (IF stage = "process" THEN {key} ELSE {})
  /\ stage # "process" => value = {}
  /\ stage = "process" => key \notin queuedKeys

IInv ==
  /\ TypeOK
  /\ WorkerInv
  /\ EnqueuesInOrder
  /\ NoValueStranded
  /\ \A k \in Keys : drains[k].mark <= enqueued[k]
  /\ DrainWaitsForKey

\* The initial state satisfies the invariant.
LEMMA KeyedInit == Init => IInv
  BY NoneIsNoKey DEF Init, IInv, TypeOK, WorkerInv, EnqueuesInOrder, NoValueStranded,
     DrainWaitsForKey, Held, InQueue, OnTheWay, Value, Drain

\* What appending a key does to the members of the queue.
LEMMA AppendMembers ==
  ASSUME NEW k \in Keys, queue \in Seq(Keys), queue' = Append(queue, k)
  PROVE  /\ queue' \in Seq(Keys)
         /\ Len(queue') = Len(queue) + 1
         /\ \A i \in 1..Len(queue) : queue'[i] = queue[i]
         /\ queue'[Len(queue) + 1] = k
         /\ \A x \in Keys : (InQueue(x))' <=> InQueue(x) \/ x = k
<1>1. /\ queue' \in Seq(Keys)
      /\ Len(queue') = Len(queue) + 1
      /\ \A i \in 1..Len(queue) : queue'[i] = queue[i]
      /\ queue'[Len(queue) + 1] = k
  OBVIOUS
<1>2. ASSUME NEW x \in Keys PROVE (InQueue(x))' <=> InQueue(x) \/ x = k
  BY <1>1 DEF InQueue
<1> QED
  BY <1>1, <1>2

\* Appending a key that is not in the queue keeps the queue free of repetitions.
LEMMA AppendDistinct ==
  ASSUME NEW k \in Keys, queue \in Seq(Keys), queue' = Append(queue, k), ~ InQueue(k),
         \A i, j \in 1..Len(queue) : queue[i] = queue[j] => i = j
  PROVE  \A i, j \in 1..Len(queue') : queue'[i] = queue'[j] => i = j
<1>1. SUFFICES ASSUME NEW i \in 1..Len(queue'), NEW j \in 1..Len(queue'),
                      queue'[i] = queue'[j]
               PROVE  i = j
  OBVIOUS
<1>2. CASE i \in 1..Len(queue) /\ j \in 1..Len(queue)
  BY <1>1, <1>2, AppendMembers
<1>3. CASE i = Len(queue) + 1 /\ j \in 1..Len(queue)
  BY <1>1, <1>3, AppendMembers DEF InQueue
<1>4. CASE i \in 1..Len(queue) /\ j = Len(queue) + 1
  BY <1>1, <1>4, AppendMembers DEF InQueue
<1>5. CASE i = Len(queue) + 1 /\ j = Len(queue) + 1
  BY <1>5
<1> QED
  BY <1>2, <1>3, <1>4, <1>5, AppendMembers

\* Enqueueing under a key adds its newest number to what waits for the key.
LEMMA EnqueueKeeps == ASSUME NEW k \in Keys, IInv, Enqueue(k) PROVE IInv'
<1> USE DEF Enqueue, worker
<1>1. TypeOK /\ WorkerInv /\ NoValueStranded /\ EnqueuesInOrder
  BY DEF IInv
<1>2. TypeOK'
  BY <1>1, AppendMembers DEF TypeOK, Value
<1>3. WorkerInv'
  BY <1>1 DEF WorkerInv, TypeOK
<1>4. EnqueuesInOrder'
  <2>1. SUFFICES ASSUME NEW x \in Keys
                 PROVE  /\ done[x] \cup Held(x) \cup latestByKey'[x] = 1..enqueued'[x]
                        /\ \A a \in done[x], b \in Held(x) \cup latestByKey'[x] : a < b
                        /\ \A a \in Held(x), b \in latestByKey'[x] : a < b
    BY DEF EnqueuesInOrder, Held
  <2>2. CASE x # k
    BY <1>1, <2>2 DEF EnqueuesInOrder, TypeOK
  <2>3. CASE x = k
    <3>1. /\ latestByKey'[k] = latestByKey[k] \cup {enqueued[k] + 1}
          /\ enqueued'[k] = enqueued[k] + 1
          /\ enqueued[k] \in Nat
      BY <1>1 DEF TypeOK
    <3>2. done[k] \cup Held(k) \cup latestByKey[k] = 1..enqueued[k]
      BY <1>1 DEF EnqueuesInOrder
    <3>3. \A a \in done[k] \cup Held(k) : a < enqueued[k] + 1
      BY <3>1, <3>2
    <3>4. 1..(enqueued[k] + 1) = (1..enqueued[k]) \cup {enqueued[k] + 1}
      BY <3>1
    <3>5. done[k] \cup Held(k) \cup latestByKey'[k] = 1..enqueued'[k]
      BY <3>1, <3>2, <3>4
    <3>6. \A a \in done[k], b \in Held(k) \cup latestByKey'[k] : a < b
      BY <1>1, <3>1, <3>3 DEF EnqueuesInOrder
    <3>7. \A a \in Held(k), b \in latestByKey'[k] : a < b
      BY <1>1, <3>1, <3>3 DEF EnqueuesInOrder
    <3> QED
      BY <2>3, <3>5, <3>6, <3>7
  <2> QED
    BY <2>2, <2>3
<1>5. NoValueStranded'
  <2>1. \A x \in Keys : latestByKey'[x] # {} <=> (latestByKey[x] # {} \/ x = k)
    BY <1>1 DEF TypeOK
  <2>2. CASE k \in queuedKeys \cup activeKeys
    BY <1>1, <2>1, <2>2 DEF NoValueStranded, InQueue, OnTheWay
  <2>3. CASE k \notin queuedKeys \cup activeKeys
    <3>1. queue' = Append(queue, k) /\ queuedKeys' = queuedKeys \cup {k} /\ queue \in Seq(Keys)
      BY <1>1, <2>3 DEF TypeOK
    <3>2. ~ InQueue(k) /\ ~ OnTheWay(k)
      BY <1>1, <2>3 DEF NoValueStranded
    <3>3. \A i, j \in 1..Len(queue') : queue'[i] = queue'[j] => i = j
      BY <1>1, <3>1, <3>2, AppendDistinct DEF NoValueStranded
    <3>4. \A x \in Keys : (InQueue(x))' <=> InQueue(x) \/ x = k
      BY <3>1, AppendMembers
    <3>5. \A x \in Keys : (OnTheWay(x))' <=> OnTheWay(x)
      BY DEF OnTheWay
    <3>6. \A x \in Keys :
            /\ x \in queuedKeys <=> InQueue(x) \/ OnTheWay(x)
            /\ ~ (InQueue(x) /\ OnTheWay(x))
            /\ x \in queuedKeys => latestByKey[x] # {}
            /\ latestByKey[x] # {} => x \in queuedKeys \cup activeKeys
      BY <1>1 DEF NoValueStranded
    <3>7. \A x \in Keys :
            /\ x \in queuedKeys' <=> (InQueue(x))' \/ (OnTheWay(x))'
            /\ ~ ((InQueue(x))' /\ (OnTheWay(x))')
            /\ x \in queuedKeys' => latestByKey'[x] # {}
            /\ latestByKey'[x] # {} => x \in queuedKeys' \cup activeKeys'
      BY <2>1, <3>1, <3>2, <3>4, <3>5, <3>6
    <3> QED
      BY <3>3, <3>7 DEF NoValueStranded
  <2> QED
    BY <2>2, <2>3
<1>6. DrainWaitsForKey'
  BY DEF IInv, DrainWaitsForKey
<1>7. \A x \in Keys : drains'[x].mark <= enqueued'[x]
  BY <1>1 DEF IInv, TypeOK, Drain
<1> QED
  BY <1>2, <1>3, <1>4, <1>5, <1>6, <1>7 DEF IInv

\* Taking a key moves it from the queue into the worker's hand.
LEMMA TakeKeeps == ASSUME IInv, Take PROVE IInv'
<1> USE DEF Take, state
<1>1. TypeOK /\ WorkerInv /\ NoValueStranded
  BY DEF IInv
<1>2. /\ queue' \in Seq(Keys)
      /\ Len(queue') = Len(queue) - 1
      /\ Len(queue) > 0
      /\ Len(queue) \in Nat
      /\ \A i \in 1..Len(queue') : queue'[i] = queue[i + 1]
      /\ key' = queue[1]
      /\ key' \in Keys
  BY <1>1 DEF TypeOK
<1>h. PICK h \in Keys : h = queue[1] /\ key' = h
  BY <1>2
<1>3. TypeOK'
  BY <1>1, <1>2 DEF TypeOK
<1>4. WorkerInv'
  BY <1>1, <1>2, NoneIsNoKey DEF WorkerInv
<1>5. EnqueuesInOrder'
  BY <1>1 DEF IInv, EnqueuesInOrder, Held, WorkerInv
<1>6. NoValueStranded'
  <2>1. \A i, j \in 1..Len(queue') : queue'[i] = queue'[j] => i = j
    BY <1>1, <1>2 DEF NoValueStranded
  <2>2. \A x \in Keys : ~ OnTheWay(x)
    BY DEF OnTheWay
  <2>3. \A x \in Keys : (OnTheWay(x))' <=> x = h
    BY <1>h DEF OnTheWay
  <2>4. InQueue(h) /\ ~ (InQueue(h))'
    <3>1. InQueue(h) /\ \A i, j \in 1..Len(queue) : queue[i] = queue[j] => i = j
      BY <1>1, <1>2, <1>h DEF NoValueStranded, InQueue
    <3>2. ASSUME NEW i \in 1..Len(queue') PROVE queue'[i] # h
      <4>1. i + 1 \in 1..Len(queue) /\ 1 \in 1..Len(queue) /\ i + 1 # 1
        BY <1>2
      <4> QED
        BY <1>2, <1>h, <3>1, <4>1
    <3> QED
      BY <3>1, <3>2 DEF InQueue
  <2>5. ASSUME NEW x \in Keys, x # h PROVE (InQueue(x))' <=> InQueue(x)
    <3>1. ASSUME InQueue(x) PROVE (InQueue(x))'
      <4>1. PICK i \in 1..Len(queue) : queue[i] = x
        BY <3>1 DEF InQueue
      <4>2. PICK n \in 1..Len(queue') : n + 1 = i
        <5>1. i # 1 /\ i \in Nat
          BY <1>h, <2>5, <4>1
        <5> QED
          BY <1>2, <4>1, <5>1
      <4>3. queue'[n] = x
        BY <1>2, <4>1, <4>2
      <4> QED
        BY <4>3 DEF InQueue
    <3>2. ASSUME (InQueue(x))' PROVE InQueue(x)
      <4>1. PICK i \in 1..Len(queue') : queue'[i] = x
        BY <3>2 DEF InQueue
      <4>2. i + 1 \in 1..Len(queue) /\ queue[i + 1] = x
        BY <1>2, <4>1
      <4> QED
        BY <4>2 DEF InQueue
    <3> QED
      BY <3>1, <3>2
  <2>6. \A x \in Keys :
          /\ x \in queuedKeys <=> InQueue(x) \/ OnTheWay(x)
          /\ x \in queuedKeys => latestByKey[x] # {}
          /\ latestByKey[x] # {} => x \in queuedKeys \cup activeKeys
    BY <1>1 DEF NoValueStranded
  <2>7. ASSUME NEW x \in Keys
        PROVE  /\ x \in queuedKeys' <=> (InQueue(x))' \/ (OnTheWay(x))'
               /\ ~ ((InQueue(x))' /\ (OnTheWay(x))')
               /\ x \in queuedKeys' => latestByKey'[x] # {}
               /\ latestByKey'[x] # {} => x \in queuedKeys' \cup activeKeys'
    BY <2>2, <2>3, <2>4, <2>5, <2>6
  <2> QED
    BY <2>1, <2>7 DEF NoValueStranded
<1> QED
  BY <1>3, <1>4, <1>5, <1>6 DEF IInv, DrainWaitsForKey

\* The taken key has a value, which goes to process.
LEMMA ActivateKeeps == ASSUME IInv, Activate PROVE IInv'
<1> USE DEF Activate
<1>1. TypeOK /\ WorkerInv /\ NoValueStranded /\ EnqueuesInOrder
  BY DEF IInv
<1>2. key \in Keys /\ OnTheWay(key)
  BY <1>1 DEF TypeOK, WorkerInv, OnTheWay
<1>3. latestByKey[key] # {} /\ key \in queuedKeys /\ ~ InQueue(key)
  BY <1>1, <1>2 DEF NoValueStranded
<1>4. /\ key' = key
      /\ stage' = "process"
      /\ latestByKey'[key] = {}
      /\ \A x \in Keys : x # key => latestByKey'[x] = latestByKey[x]
      /\ activeKeys = {}
      /\ activeKeys' = {key}
      /\ value = {}
  BY <1>1, <1>2, <1>3 DEF TypeOK, WorkerInv
<1>5. TypeOK'
  BY <1>1, <1>2, <1>3 DEF TypeOK, Value
<1>6. WorkerInv'
  BY <1>2, <1>3, <1>4, NoneIsNoKey DEF WorkerInv
<1>7. EnqueuesInOrder'
  BY <1>1, <1>2, <1>4 DEF EnqueuesInOrder, Held
<1>8. NoValueStranded'
  BY <1>1, <1>2, <1>3, <1>4 DEF NoValueStranded, InQueue, OnTheWay
<1> QED
  BY <1>5, <1>6, <1>7, <1>8 DEF IInv, DrainWaitsForKey

\* What process is given becomes done; the next value, if there is one, is in order
\* after it.
LEMMA ProcessAgainKeeps == ASSUME IInv, ProcessAgain PROVE IInv'
<1> USE DEF ProcessAgain
<1>1. TypeOK /\ WorkerInv /\ NoValueStranded /\ EnqueuesInOrder
  BY DEF IInv
<1>2. key \in Keys
  BY <1>1 DEF TypeOK, WorkerInv
<1>3. TypeOK'
  BY <1>1, <1>2 DEF TypeOK, Value
<1>4. WorkerInv'
  BY <1>1 DEF WorkerInv
<1>5. EnqueuesInOrder'
  <2>1. SUFFICES ASSUME NEW x \in Keys
                 PROVE  /\ done'[x] \cup (Held(x))' \cup latestByKey'[x] = 1..enqueued[x]
                        /\ \A a \in done'[x], b \in (Held(x))' \cup latestByKey'[x] : a < b
                        /\ \A a \in (Held(x))', b \in latestByKey'[x] : a < b
    BY DEF EnqueuesInOrder, Held
  <2>2. CASE x = key
    BY <1>1, <1>2, <2>2 DEF EnqueuesInOrder, Held, TypeOK
  <2>3. CASE x # key
    BY <1>1, <1>2, <2>3 DEF EnqueuesInOrder, Held, TypeOK
  <2> QED
    BY <2>2, <2>3
<1>6. NoValueStranded'
  BY <1>1, <1>2 DEF NoValueStranded, InQueue, OnTheWay, WorkerInv, TypeOK
<1>7. \A x \in Keys : done[x] \subseteq done'[x]
  BY <1>1, <1>2 DEF TypeOK
<1> QED
  BY <1>3, <1>4, <1>5, <1>6, <1>7 DEF IInv, DrainWaitsForKey

\* process ends and the key leaves the active set, with nothing left for it or, after
\* a failure, marked queued again.
LEMMA EndKeeps == ASSUME IInv, Finish \/ Fail PROVE IInv'
<1> USE DEF Finish, Fail
<1>1. TypeOK /\ WorkerInv /\ NoValueStranded /\ EnqueuesInOrder
  BY DEF IInv
<1>2. key \in Keys /\ stage = "process" /\ activeKeys = {key} /\ key \notin queuedKeys
  BY <1>1 DEF TypeOK, WorkerInv
<1>3. TypeOK'
  BY <1>1, <1>2 DEF TypeOK, Value
<1>4. WorkerInv'
  BY <1>1, <1>2, NoneIsNoKey DEF WorkerInv
<1>5. EnqueuesInOrder'
  <2>1. SUFFICES ASSUME NEW x \in Keys
                 PROVE  /\ done'[x] \cup (Held(x))' \cup latestByKey[x] = 1..enqueued[x]
                        /\ \A a \in done'[x], b \in (Held(x))' \cup latestByKey[x] : a < b
                        /\ \A a \in (Held(x))', b \in latestByKey[x] : a < b
    BY DEF EnqueuesInOrder, Held
  <2>2. (Held(x))' = {}
    BY DEF Held
  <2>3. CASE x = key
    <3>1. Held(x) = value /\ done'[x] = done[x] \cup value
      BY <1>1, <1>2, <2>3 DEF Held, TypeOK
    <3> QED
      BY <1>1, <2>2, <3>1 DEF EnqueuesInOrder
  <2>4. CASE x # key
    <3>1. Held(x) = {} /\ done'[x] = done[x]
      BY <1>1, <1>2, <2>4 DEF Held, TypeOK
    <3> QED
      BY <1>1, <2>2, <3>1 DEF EnqueuesInOrder
  <2> QED
    BY <2>3, <2>4
<1>6. NoValueStranded'
  <2>1. \A x \in Keys : (InQueue(x))' <=> InQueue(x)
    BY DEF InQueue
  <2>2. \A x \in Keys : ~ OnTheWay(x)
    BY <1>2 DEF OnTheWay
  <2>3. \A i, j \in 1..Len(queue') : queue'[i] = queue'[j] => i = j
    BY <1>1 DEF NoValueStranded
  <2>4. \A x \in Keys :
          /\ x \in queuedKeys <=> InQueue(x)
          /\ x \in queuedKeys => latestByKey[x] # {}
          /\ latestByKey[x] # {} => x \in queuedKeys \cup {key}
    BY <1>1, <1>2, <2>2 DEF NoValueStranded
  <2>5. CASE stage' = "requeue"
    <3>1. key' = key /\ queuedKeys' = queuedKeys \cup {key} /\ latestByKey[key] # {}
      BY <2>5
    <3>2. \A x \in Keys : (OnTheWay(x))' <=> x = key
      BY <2>5, <3>1 DEF OnTheWay
    <3>3. \A x \in Keys :
            /\ x \in queuedKeys' <=> (InQueue(x))' \/ (OnTheWay(x))'
            /\ ~ ((InQueue(x))' /\ (OnTheWay(x))')
            /\ x \in queuedKeys' => latestByKey[x] # {}
            /\ latestByKey[x] # {} => x \in queuedKeys' \cup activeKeys'
      BY <1>2, <2>1, <2>4, <3>1, <3>2
    <3> QED
      BY <2>3, <3>3 DEF NoValueStranded
  <2>6. CASE stage' = "idle"
    <3>1. queuedKeys' = queuedKeys /\ latestByKey[key] = {}
      BY <1>2, <2>6
    <3>2. \A x \in Keys : ~ (OnTheWay(x))'
      BY <2>6 DEF OnTheWay
    <3>3. \A x \in Keys :
            /\ x \in queuedKeys' <=> (InQueue(x))' \/ (OnTheWay(x))'
            /\ ~ ((InQueue(x))' /\ (OnTheWay(x))')
            /\ x \in queuedKeys' => latestByKey[x] # {}
            /\ latestByKey[x] # {} => x \in queuedKeys' \cup activeKeys'
      BY <1>2, <2>1, <2>4, <3>1, <3>2
    <3> QED
      BY <2>3, <3>3 DEF NoValueStranded
  <2> QED
    BY <2>5, <2>6
<1>7. \A x \in Keys : done[x] \subseteq done'[x]
  BY <1>1, <1>2 DEF TypeOK
<1> QED
  BY <1>3, <1>4, <1>5, <1>6, <1>7 DEF IInv, DrainWaitsForKey

\* The key marked queued after a failure reaches the queue.
LEMMA RequeueKeeps == ASSUME IInv, Requeue PROVE IInv'
<1> USE DEF Requeue, state
<1>1. TypeOK /\ WorkerInv /\ NoValueStranded
  BY DEF IInv
<1>2. key \in Keys /\ OnTheWay(key) /\ queue \in Seq(Keys) /\ queue' = Append(queue, key)
  BY <1>1 DEF TypeOK, WorkerInv, OnTheWay
<1>3. ~ InQueue(key)
  BY <1>1, <1>2 DEF NoValueStranded
<1>4. TypeOK'
  BY <1>1, <1>2, AppendMembers DEF TypeOK
<1>5. WorkerInv'
  BY <1>1 DEF WorkerInv
<1>6. EnqueuesInOrder'
  BY <1>1 DEF IInv, EnqueuesInOrder, Held, WorkerInv
<1>7. NoValueStranded'
  <2>1. \A i, j \in 1..Len(queue') : queue'[i] = queue'[j] => i = j
    BY <1>1, <1>2, <1>3, AppendDistinct DEF NoValueStranded
  <2>2. \A x \in Keys : (InQueue(x))' <=> InQueue(x) \/ x = key
    BY <1>2, AppendMembers
  <2>3. \A x \in Keys : ~ (OnTheWay(x))'
    BY DEF OnTheWay
  <2>4. \A x \in Keys : OnTheWay(x) <=> x = key
    BY DEF OnTheWay
  <2>5. \A x \in Keys :
          /\ x \in queuedKeys <=> InQueue(x) \/ OnTheWay(x)
          /\ x \in queuedKeys => latestByKey[x] # {}
          /\ latestByKey[x] # {} => x \in queuedKeys \cup activeKeys
    BY <1>1 DEF NoValueStranded
  <2>6. \A x \in Keys :
          /\ x \in queuedKeys' <=> (InQueue(x))' \/ (OnTheWay(x))'
          /\ ~ ((InQueue(x))' /\ (OnTheWay(x))')
          /\ x \in queuedKeys' => latestByKey'[x] # {}
          /\ latestByKey'[x] # {} => x \in queuedKeys' \cup activeKeys'
    BY <2>2, <2>3, <2>4, <2>5
  <2> QED
    BY <2>1, <2>6 DEF NoValueStranded
<1> QED
  BY <1>4, <1>5, <1>6, <1>7 DEF IInv, DrainWaitsForKey

\* A call of drainKey marks what it waits for, and returns when all of it is done.
LEMMA DrainKeyKeeps ==
  ASSUME NEW k \in Keys, IInv, CallDrain(k) \/ ReturnDrain(k) PROVE IInv'
<1> USE DEF CallDrain, ReturnDrain, state, worker
<1>1. TypeOK /\ WorkerInv /\ NoValueStranded /\ EnqueuesInOrder
  BY DEF IInv
<1>d. drains \in [Keys -> Drain] /\ enqueued \in [Keys -> Nat]
  BY <1>1 DEF TypeOK
<1>e. PICK r \in Drain : drains' = [drains EXCEPT ![k] = r] /\ r.mark <= enqueued[k]
  <2>1. CASE CallDrain(k)
    <3>1. /\ [stage |-> "waiting", mark |-> enqueued[k]] \in Drain
          /\ [stage |-> "waiting", mark |-> enqueued[k]].mark <= enqueued[k]
      BY <1>d DEF Drain
    <3>2. drains' = [drains EXCEPT ![k] = [stage |-> "waiting", mark |-> enqueued[k]]]
      BY <2>1
    <3> QED
      BY <3>1, <3>2, Zenon
  <2>2. CASE ReturnDrain(k)
    <3>1. drains' = [drains EXCEPT ![k] = [drains[k] EXCEPT !.stage = "returned"]]
      BY <2>2
    <3>2. drains[k] \in Drain /\ drains[k].mark <= enqueued[k]
      BY <1>d DEF IInv
    <3>3. [drains[k] EXCEPT !.stage = "returned"] \in Drain
      BY <3>2 DEF Drain
    <3>4. [drains[k] EXCEPT !.stage = "returned"].mark = drains[k].mark
      BY <3>2 DEF Drain
    <3> QED
      BY <3>1, <3>2, <3>3, <3>4
  <2> QED
    BY <2>1, <2>2
<1>f. UNCHANGED <<state, queue, worker, enqueued, done>>
  OBVIOUS
<1>2. TypeOK'
  BY <1>1, <1>d, <1>e, <1>f DEF TypeOK
<1>3. WorkerInv' /\ EnqueuesInOrder' /\ NoValueStranded'
  BY <1>1 DEF WorkerInv, EnqueuesInOrder, Held, NoValueStranded, InQueue, OnTheWay
<1>4. \A x \in Keys : drains'[x].mark <= enqueued[x]
  BY <1>d, <1>e DEF IInv
<1>5. ASSUME NEW x \in Keys, drains'[x].stage = "returned"
      PROVE  1..drains'[x].mark \subseteq done[x]
  <2>1. CASE x # k
    <3>1. drains'[x] = drains[x]
      BY <1>1, <2>1 DEF TypeOK
    <3> QED
      BY <1>5, <3>1 DEF IInv, DrainWaitsForKey
  <2>2. CASE x = k
    <3>1. ReturnDrain(k)
      BY <1>1, <1>5, <2>2 DEF TypeOK, Drain
    <3>2. Held(k) = {}
      BY <1>1, <3>1 DEF Held, WorkerInv
    <3>3. done[k] = 1..enqueued[k]
      BY <1>1, <3>1, <3>2 DEF EnqueuesInOrder
    <3>4. drains'[k].mark \in Nat /\ enqueued[k] \in Nat
      BY <1>2, <1>1 DEF TypeOK, Drain
    <3>5. 1..drains'[k].mark \subseteq 1..enqueued[k]
      BY <1>4, <3>4
    <3> QED
      BY <2>2, <3>3, <3>5, Zenon
  <2> QED
    BY <2>1, <2>2
<1>6. DrainWaitsForKey'
  BY <1>5 DEF DrainWaitsForKey
<1> QED
  BY <1>2, <1>3, <1>4, <1>6 DEF IInv

\* The invariant is inductive.
LEMMA KeyedNext == IInv /\ [Next]_vars => IInv'
<1> SUFFICES ASSUME IInv, [Next]_vars PROVE IInv'
  OBVIOUS
<1>1. CASE UNCHANGED vars
  BY <1>1 DEF vars, state, worker, IInv, TypeOK, WorkerInv, EnqueuesInOrder, Held,
     NoValueStranded, InQueue, OnTheWay, DrainWaitsForKey
<1> QED
  BY <1>1, EnqueueKeeps, TakeKeeps, ActivateKeeps, ProcessAgainKeeps, EndKeeps, RequeueKeeps,
     DrainKeyKeeps DEF Next, Process

LEMMA KeyedInvariant == Spec => []IInv
  BY KeyedInit, KeyedNext, PTL DEF Spec

\* Every enqueue is done, in process or waiting, in that order, whatever fails.
THEOREM NothingLostOrOvertaken == Spec => []EnqueuesInOrder
<1>1. IInv => EnqueuesInOrder
  BY DEF IInv
<1> QED
  BY KeyedInvariant, <1>1, PTL

\* A key with a value waiting is always one the worker will come to.
THEOREM NothingStranded == Spec => []NoValueStranded
<1>1. IInv => NoValueStranded
  BY DEF IInv
<1> QED
  BY KeyedInvariant, <1>1, PTL

\* drainKey returns only after everything enqueued before it was called is processed.
THEOREM DrainKeyIsSound == Spec => []DrainWaitsForKey
<1>1. IInv => DrainWaitsForKey
  BY DEF IInv
<1> QED
  BY KeyedInvariant, <1>1, PTL

=============================================================================
