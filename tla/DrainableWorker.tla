--------------------------- MODULE DrainableWorker ---------------------------
(***************************************************************************)
(* DrainableWorker.ts: an unbounded queue, one worker fiber that processes *)
(* its items in order, and a counter of outstanding items that drain()     *)
(* waits on.  The four reactors of the server each run on one.  An item is *)
(* named by its number in the order of the calls of enqueue.               *)
(***************************************************************************)
EXTENDS Naturals, Sequences

CONSTANTS
  Drainers,   \* calls of drain
  MaxItems    \* bound on the number of items enqueued

ASSUME MaxItemsIsNatural == MaxItems \in Nat

VARIABLES
  queue,
  outstanding,
  stage,      \* the worker fiber: in take, processing its item, or dead
  item,       \* the item it took last
  enqueued,   \* number of items enqueued so far
  done,       \* items whose processing has ended, well or badly
  drains      \* per call of drain: its stage, and enqueued when it was made

worker == <<stage, item, done>>
vars == <<queue, outstanding, worker, enqueued, drains>>

Drain == [stage : {"none", "waiting", "returned"}, mark : Nat]

Init ==
  /\ queue = <<>>
  /\ outstanding = 0
  /\ stage = "idle"
  /\ item = 0
  /\ enqueued = 0
  /\ done = {}
  /\ drains = [d \in Drainers |-> [stage |-> "none", mark |-> 0]]

\* Mutant: the item is offered and not counted.
EnqueueUncounted ==
  /\ enqueued < MaxItems
  /\ enqueued' = enqueued + 1
  /\ queue' = Append(queue, enqueued + 1)
  /\ UNCHANGED <<outstanding, worker, drains>>

\* offer and count, in one transaction.
Enqueue ==
  /\ enqueued < MaxItems
  /\ enqueued' = enqueued + 1
  /\ queue' = Append(queue, enqueued + 1)
  /\ outstanding' = outstanding + 1
  /\ UNCHANGED <<worker, drains>>

\* Mutant: an item is counted off when it is taken.
TakeCountingOff ==
  /\ stage = "idle"
  /\ queue # <<>>
  /\ stage' = "processing"
  /\ item' = Head(queue)
  /\ queue' = Tail(queue)
  /\ outstanding' = outstanding - 1
  /\ UNCHANGED <<enqueued, done, drains>>

Take ==
  /\ stage = "idle"
  /\ queue # <<>>
  /\ stage' = "processing"
  /\ item' = Head(queue)
  /\ queue' = Tail(queue)
  /\ UNCHANGED <<outstanding, enqueued, done, drains>>

\* Mutant: an item is never counted off.
FinishUncounted ==
  /\ stage = "processing"
  /\ done' = done \cup {item}
  /\ stage' = "idle"
  /\ UNCHANGED <<queue, outstanding, item, enqueued, drains>>

\* process returns: every reactor turns its own errors into a warning.
Finish ==
  /\ stage = "processing"
  /\ done' = done \cup {item}
  /\ outstanding' = outstanding - 1
  /\ stage' = "idle"
  /\ UNCHANGED <<queue, item, enqueued, drains>>

\* Mutant: the item is counted off only when process succeeds.
DieUncounted ==
  /\ stage = "processing"
  /\ done' = done \cup {item}
  /\ stage' = "dead"
  /\ UNCHANGED <<queue, outstanding, item, enqueued, drains>>

\* process fails, which a reactor lets happen when the cause is interruption: the
\* item is counted off all the same, and forever is over for the fiber.
Die ==
  /\ stage = "processing"
  /\ done' = done \cup {item}
  /\ outstanding' = outstanding - 1
  /\ stage' = "dead"
  /\ UNCHANGED <<queue, item, enqueued, drains>>

CallDrain(d) ==
  /\ drains[d].stage = "none"
  /\ drains' = [drains EXCEPT ![d] = [stage |-> "waiting", mark |-> enqueued]]
  /\ UNCHANGED <<queue, outstanding, worker, enqueued>>

\* The transaction of drain retries until nothing is outstanding.
ReturnDrain(d) ==
  /\ drains[d].stage = "waiting"
  /\ outstanding = 0
  /\ drains' = [drains EXCEPT ![d].stage = "returned"]
  /\ UNCHANGED <<queue, outstanding, worker, enqueued>>

Next ==
  \/ Enqueue
  \/ Take \/ Finish \/ Die
  \/ \E d \in Drainers : CallDrain(d) \/ ReturnDrain(d)

Spec == Init /\ [][Next]_vars

\* The fiber takes and processes, and a drain whose condition holds is woken;
\* processing ends, one way or the other.
FairSpec ==
  /\ Spec
  /\ WF_vars(Take)
  /\ WF_vars(Finish \/ Die)
  /\ \A d \in Drainers : WF_vars(ReturnDrain(d))

-----------------------------------------------------------------------------

TypeOK ==
  /\ queue \in Seq(Nat)
  /\ outstanding \in Nat
  /\ stage \in {"idle", "processing", "dead"}
  /\ item \in Nat
  /\ enqueued \in Nat
  /\ done \in SUBSET Nat
  /\ drains \in [Drainers -> Drain]

\* The counter is the number of items enqueued and not yet through: those in the
\* queue and the one in the worker's hands.
CounterExact ==
  outstanding = Len(queue) + (IF stage = "processing" THEN 1 ELSE 0)

\* When drain returns, everything enqueued before it was called is through, the
\* item that had already left the queue included.
DrainWaitsForAll ==
  \A d \in Drainers : drains[d].stage = "returned" => 1..drains[d].mark \subseteq done

\* A drain returns, unless the worker died.
DrainReturns ==
  \A d \in Drainers :
    drains[d].stage = "waiting" ~> (drains[d].stage = "returned" \/ stage = "dead")

=============================================================================
