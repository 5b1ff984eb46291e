------------------------ MODULE KeyedCoalescingWorker ------------------------
(***************************************************************************)
(* KeyedCoalescingWorker.ts: one worker fiber for many keys.  What is      *)
(* enqueued for a key that is queued or active is merged into that key's   *)
(* latest value and adds nothing to the queue.  The state is one TxRef;    *)
(* the queue is apart from it, and only enqueue changes both in one        *)
(* transaction.  A value is the set of the numbers of the enqueues of its  *)
(* key that were merged into it; no value is the empty set.                *)
(***************************************************************************)
EXTENDS Naturals, Sequences

CONSTANTS
  Keys,
  None,          \* no key
  MaxEnqueues    \* bound on the enqueues of one key

ASSUME NoneIsNoKey == None \notin Keys
ASSUME MaxEnqueuesIsNatural == MaxEnqueues \in Nat

VARIABLES
  \* stateRef
  latestByKey, queuedKeys, activeKeys,
  queue,
  \* the worker fiber
  stage,       \* in take; took a key; in process; owes the queue a key
  key,         \* the key it works on
  value,       \* the value given to process
  \* observation
  enqueued,    \* per key, the number of enqueues
  done,        \* per key, the enqueues whose value process has returned from or failed on
  drains       \* per key, a call of drainKey: its stage, and enqueued when it was made

state == <<latestByKey, queuedKeys, activeKeys>>
worker == <<stage, key, value>>
vars == <<state, queue, worker, enqueued, done, drains>>

Value == SUBSET Nat
Drain == [stage : {"none", "waiting", "returned"}, mark : Nat]

Init ==
  /\ latestByKey = [k \in Keys |-> {}]
  /\ queuedKeys = {}
  /\ activeKeys = {}
  /\ queue = <<>>
  /\ stage = "idle"
  /\ key = None
  /\ value = {}
  /\ enqueued = [k \in Keys |-> 0]
  /\ done = [k \in Keys |-> {}]
  /\ drains = [k \in Keys |-> [stage |-> "none", mark |-> 0]]

-----------------------------------------------------------------------------

\* Mutant: the next value replaces the current one, unmerged.
EnqueueReplacing(k) ==
  /\ enqueued[k] < MaxEnqueues
  /\ enqueued' = [enqueued EXCEPT ![k] = @ + 1]
  /\ latestByKey' = [latestByKey EXCEPT ![k] = {enqueued[k] + 1}]
  /\ IF k \in queuedKeys \cup activeKeys
       THEN UNCHANGED <<queuedKeys, queue>>
       ELSE queuedKeys' = queuedKeys \cup {k} /\ queue' = Append(queue, k)
  /\ UNCHANGED <<activeKeys, worker, done, drains>>

\* merge, or the first value; offer the key unless it is queued or active.
Enqueue(k) ==
  /\ enqueued[k] < MaxEnqueues
  /\ enqueued' = [enqueued EXCEPT ![k] = @ + 1]
  /\ latestByKey' = [latestByKey EXCEPT ![k] = @ \cup {enqueued[k] + 1}]
  /\ IF k \in queuedKeys \cup activeKeys
       THEN UNCHANGED <<queuedKeys, queue>>
       ELSE queuedKeys' = queuedKeys \cup {k} /\ queue' = Append(queue, k)
  /\ UNCHANGED <<activeKeys, worker, done, drains>>

Take ==
  /\ stage = "idle"
  /\ queue # <<>>
  /\ stage' = "taken"
  /\ key' = Head(queue)
  /\ queue' = Tail(queue)
  /\ UNCHANGED <<state, value, enqueued, done, drains>>

\* A second transaction takes the key's value and moves the key from queued to
\* active; a key without a value would be dropped.
Activate ==
  /\ stage = "taken"
  /\ queuedKeys' = queuedKeys \ {key}
  /\ value' = latestByKey[key]
  /\ latestByKey' = [latestByKey EXCEPT ![key] = {}]
  /\ IF latestByKey[key] = {}
       THEN stage' = "idle" /\ key' = None /\ UNCHANGED activeKeys
       ELSE stage' = "process" /\ activeKeys' = activeKeys \cup {key} /\ UNCHANGED key
  /\ UNCHANGED <<queue, enqueued, done, drains>>

\* process succeeded and a newer value has come: go on with the same key.
ProcessAgain ==
  /\ stage = "process"
  /\ latestByKey[key] # {}
  /\ done' = [done EXCEPT ![key] = @ \cup value]
  /\ value' = latestByKey[key]
  /\ latestByKey' = [latestByKey EXCEPT ![key] = {}]
  /\ UNCHANGED <<queuedKeys, activeKeys, queue, stage, key, enqueued, drains>>

\* Mutant: the key stays active.
FinishStayingActive ==
  /\ stage = "process"
  /\ latestByKey[key] = {}
  /\ done' = [done EXCEPT ![key] = @ \cup value]
  /\ stage' = "idle"
  /\ key' = None
  /\ value' = {}
  /\ UNCHANGED <<latestByKey, queuedKeys, activeKeys, queue, enqueued, drains>>

\* process succeeded and nothing newer has come.
Finish ==
  /\ stage = "process"
  /\ latestByKey[key] = {}
  /\ done' = [done EXCEPT ![key] = @ \cup value]
  /\ activeKeys' = activeKeys \ {key}
  /\ stage' = "idle"
  /\ key' = None
  /\ value' = {}
  /\ UNCHANGED <<latestByKey, queuedKeys, queue, enqueued, drains>>

\* Mutant: a failure forgets what came for the key in the meantime.
FailWithoutRequeue ==
  /\ stage = "process"
  /\ done' = [done EXCEPT ![key] = @ \cup value]
  /\ activeKeys' = activeKeys \ {key}
  /\ value' = {}
  /\ stage' = "idle"
  /\ key' = None
  /\ UNCHANGED <<latestByKey, queuedKeys, queue, enqueued, drains>>

\* process failed: cleanupFailedKey gives the value up, and marks the key queued
\* when a newer one is waiting ...
Fail ==
  /\ stage = "process"
  /\ done' = [done EXCEPT ![key] = @ \cup value]
  /\ activeKeys' = activeKeys \ {key}
  /\ value' = {}
  /\ IF latestByKey[key] # {} /\ key \notin queuedKeys
       THEN /\ queuedKeys' = queuedKeys \cup {key}
            /\ stage' = "requeue"
            /\ UNCHANGED key
       ELSE /\ stage' = "idle"
            /\ key' = None
            /\ UNCHANGED queuedKeys
  /\ UNCHANGED <<latestByKey, queue, enqueued, drains>>

\* Mutant: the key is marked queued and never offered.
RequeueForgotten ==
  /\ stage = "requeue"
  /\ stage' = "idle"
  /\ key' = None
  /\ UNCHANGED <<state, queue, value, enqueued, done, drains>>

\* ... but puts it on the queue after that transaction.
Requeue ==
  /\ stage = "requeue"
  /\ queue' = Append(queue, key)
  /\ stage' = "idle"
  /\ key' = None
  /\ UNCHANGED <<state, value, enqueued, done, drains>>

CallDrain(k) ==
  /\ drains[k].stage = "none"
  /\ drains' = [drains EXCEPT ![k] = [stage |-> "waiting", mark |-> enqueued[k]]]
  /\ UNCHANGED <<state, queue, worker, enqueued, done>>

\* Mutant: a key in process counts as drained.
ReturnDrainIgnoringActive(k) ==
  /\ drains[k].stage = "waiting"
  /\ latestByKey[k] = {}
  /\ k \notin queuedKeys
  /\ drains' = [drains EXCEPT ![k].stage = "returned"]
  /\ UNCHANGED <<state, queue, worker, enqueued, done>>

\* The transaction of drainKey retries while the key is anywhere in the state.
ReturnDrain(k) ==
  /\ drains[k].stage = "waiting"
  /\ latestByKey[k] = {}
  /\ k \notin queuedKeys
  /\ k \notin activeKeys
  /\ drains' = [drains EXCEPT ![k].stage = "returned"]
  /\ UNCHANGED <<state, queue, worker, enqueued, done>>

Process == ProcessAgain \/ Finish \/ Fail

Next ==
  \/ \E k \in Keys : Enqueue(k) \/ CallDrain(k) \/ ReturnDrain(k)
  \/ Take \/ Activate \/ Process \/ Requeue

Spec == Init /\ [][Next]_vars

\* The fiber runs, process ends in one way or another, and a drain whose condition
\* holds is woken.
FairSpec ==
  /\ Spec
  /\ WF_vars(Take \/ Activate \/ Process \/ Requeue)
  /\ \A k \in Keys : WF_vars(ReturnDrain(k))

-----------------------------------------------------------------------------

TypeOK ==
  /\ latestByKey \in [Keys -> Value]
  /\ queuedKeys \subseteq Keys
  /\ activeKeys \subseteq Keys
  /\ queue \in Seq(Keys)
  /\ stage \in {"idle", "taken", "process", "requeue"}
  /\ key \in Keys \cup {None}
  /\ value \in Value
  /\ enqueued \in [Keys -> Nat]
  /\ done \in [Keys -> Value]
  /\ drains \in [Keys -> Drain]

Held(k) == IF key = k THEN value ELSE {}

\* Every enqueue of a key is in exactly one place, and the places are in order:
\* first what is done, then what is in process, then what waits.  Nothing is lost
\* by merging or by a failure, and no older value is processed after a newer one.
EnqueuesInOrder ==
  \A k \in Keys :
    /\ done[k] \cup Held(k) \cup latestByKey[k] = 1..enqueued[k]
    /\ \A a \in done[k], b \in Held(k) \cup latestByKey[k] : a < b
    /\ \A a \in Held(k), b \in latestByKey[k] : a < b

InQueue(k) == \E i \in 1..Len(queue) : queue[i] = k
OnTheWay(k) == key = k /\ stage \in {"taken", "requeue"}

\* The queue and the state agree although they change apart: a key is marked queued
\* exactly when it is in the queue, once, or in the worker's hand between the two;
\* and a key with a value waiting is always queued or active, so that no value is
\* stranded by a merge, a failure or a newer value.
NoValueStranded ==
  /\ \A i, j \in 1..Len(queue) : queue[i] = queue[j] => i = j
  /\ \A k \in Keys :
       /\ k \in queuedKeys <=> InQueue(k) \/ OnTheWay(k)
       /\ ~ (InQueue(k) /\ OnTheWay(k))
       /\ k \in queuedKeys => latestByKey[k] # {}
       /\ latestByKey[k] # {} => k \in queuedKeys \cup activeKeys

\* When drainKey returns, everything enqueued for the key before it was called has
\* been processed.
DrainWaitsForKey ==
  \A k \in Keys : drains[k].stage = "returned" => 1..drains[k].mark \subseteq done[k]

\* Once enqueued, always processed, also after a failure of an earlier value.
EveryEnqueueProcessed ==
  \A k \in Keys : \A n \in 1..MaxEnqueues : enqueued[k] >= n ~> n \in done[k]

\* A call of drainKey returns once nothing more is enqueued.
DrainReturns == \A k \in Keys : drains[k].stage = "waiting" ~> drains[k].stage = "returned"

=============================================================================
