------------------------- MODULE ProjectionBootstrap --------------------------
(***************************************************************************)
(* How the SQL projectors of ProjectionPipeline.ts follow the event log    *)
(* over restarts and upgrades.  Each has a stored cursor.  When the server *)
(* starts, the projectors of the release read, one after the other, the    *)
(* events after their cursor, at most ReadLimit of them (the default limit *)
(* of readFromSequence); then the read model is taken from the tables, and *)
(* every event stored from then on is applied by all of them at once.      *)
(* Events are their sequence numbers: 1, 2, ... up to stored.              *)
(***************************************************************************)
EXTENDS Naturals, Sequences

CONSTANTS
  Projectors,
  Order,        \* all of them, in the order in which they are bootstrapped
  Required,     \* those the sequence of a snapshot is computed from
  Releases,     \* the sets of projectors that releases have
  ReadLimit,    \* DEFAULT_READ_FROM_SEQUENCE_LIMIT
  MaxEvents, MaxStarts    \* bounds on stored events and on starts of the server

ASSUME OrderListsProjectors ==
  Order \in Seq(Projectors) /\ \A p \in Projectors : \E i \in 1..Len(Order) : Order[i] = p
ASSUME ReleasesHaveProjectors ==
  Releases \subseteq SUBSET Projectors /\ \A r \in Releases : Required \cap r # {}
ASSUME LimitsAreNaturals == ReadLimit \in Nat /\ MaxEvents \in Nat /\ MaxStarts \in Nat

VARIABLES
  \* the store
  stored,             \* number of events in the log
  cursor,             \* projection_state.last_applied_sequence; 0 is no row
  applied,            \* per projector, the events it has applied, in order
  \* the process
  installed,          \* the projectors of the running release
  stage,              \* down, bootstrapping, or serving commands
  turn,               \* index in Order of the projector being bootstrapped
  budget,             \* events its stream may still emit
  snapshotSequence,   \* of the engine's read model
  published,          \* sequences put on the event bus in this life
  \* observation and bounds
  lag,                \* per projector, the furthest it was behind at a start
  bootSequence,       \* stored, when this life began
  starts

store == <<stored, cursor, applied>>
process == <<installed, stage, turn, budget, snapshotSequence, published>>
vars == <<store, process, lag, bootSequence, starts>>

Larger(a, b) == IF a > b THEN a ELSE b
Smaller(a, b) == IF a < b THEN a ELSE b

\* a + 1, ..., b.
Between(a, b) == [i \in 1..(b - a) |-> a + i]

Init ==
  /\ stored = 0
  /\ cursor = [p \in Projectors |-> 0]
  /\ applied = [p \in Projectors |-> <<>>]
  /\ installed = {}
  /\ stage = "down"
  /\ turn = 1
  /\ budget = 0
  /\ snapshotSequence = 0
  /\ published = <<>>
  /\ lag = [p \in Projectors |-> 0]
  /\ bootSequence = 0
  /\ starts = 0

-----------------------------------------------------------------------------

\* The server of some release starts.
Start(release) ==
  /\ stage = "down"
  /\ starts < MaxStarts
  /\ starts' = starts + 1
  /\ installed' = release
  /\ stage' = "bootstrap"
  /\ turn' = 1
  /\ budget' = ReadLimit
  /\ snapshotSequence' = 0
  /\ published' = <<>>
  /\ bootSequence' = stored
  /\ lag' = [p \in Projectors |->
               IF p \in release THEN Larger(lag[p], stored - cursor[p]) ELSE lag[p]]
  /\ UNCHANGED store

Bootstrapping(p) ==
  stage = "bootstrap" /\ turn <= Len(Order) /\ p = Order[turn]

\* Mutant: the cursor is moved in a later transaction, which a crash may prevent.
ReplayEventLeavingCursor(p) ==
  /\ Bootstrapping(p)
  /\ p \in installed
  /\ budget > 0
  /\ cursor[p] < stored
  /\ applied' = [applied EXCEPT ![p] = Append(@, cursor[p] + 1)]
  /\ cursor' \in {cursor, [cursor EXCEPT ![p] = @ + 1]}
  /\ budget' = budget - 1
  /\ UNCHANGED <<stored, installed, stage, turn, snapshotSequence, published, lag,
                 bootSequence, starts>>

\* runProjectorForEvent: one transaction applies the event and moves the cursor.
ReplayEvent(p) ==
  /\ Bootstrapping(p)
  /\ p \in installed
  /\ budget > 0
  /\ cursor[p] < stored
  /\ applied' = [applied EXCEPT ![p] = Append(@, cursor[p] + 1)]
  /\ cursor' = [cursor EXCEPT ![p] = @ + 1]
  /\ budget' = budget - 1
  /\ UNCHANGED <<stored, installed, stage, turn, snapshotSequence, published, lag,
                 bootSequence, starts>>

\* Mutant: one limit for all projectors together.
EndReplaySharingBudget(p) ==
  /\ Bootstrapping(p)
  /\ p \notin installed \/ budget = 0 \/ cursor[p] = stored
  /\ turn' = turn + 1
  /\ UNCHANGED <<store, installed, stage, budget, snapshotSequence, published, lag,
                 bootSequence, starts>>

\* Mutant: the bootstrap of p waits for the end of the log, whatever its stream does.
EndReplayAtEndOfLog(p) ==
  /\ Bootstrapping(p)
  /\ p \notin installed \/ cursor[p] = stored
  /\ turn' = turn + 1
  /\ budget' = ReadLimit
  /\ UNCHANGED <<store, installed, stage, snapshotSequence, published, lag, bootSequence,
                 starts>>

\* The stream of p ends, at the end of the log or at the limit.
EndReplay(p) ==
  /\ Bootstrapping(p)
  /\ p \notin installed \/ budget = 0 \/ cursor[p] = stored
  /\ turn' = turn + 1
  /\ budget' = ReadLimit
  /\ UNCHANGED <<store, installed, stage, snapshotSequence, published, lag, bootSequence,
                 starts>>

\* Mutant: the smallest cursor of all projectors ever known, not of this release's.
FloorOfAllProjectors(n) ==
  /\ \A p \in Required : n <= cursor[p]
  /\ Required # {} => \E p \in Required : n = cursor[p]
  /\ Required = {} => n = 0

\* computeSnapshotSequence: the smallest cursor of the required projectors.
SnapshotFloor(n) ==
  /\ \A p \in Required \cap installed : n <= cursor[p]
  /\ Required \cap installed # {} => \E p \in Required \cap installed : n = cursor[p]
  /\ Required \cap installed = {} => n = 0

\* All projectors had their turn: the engine takes its read model from the tables and
\* starts its worker.
Serve ==
  /\ stage = "bootstrap"
  /\ turn > Len(Order)
  /\ stage' = "serving"
  /\ \E n \in 0..stored : SnapshotFloor(n) /\ snapshotSequence' = n
  /\ UNCHANGED <<store, installed, turn, budget, published, lag, bootSequence, starts>>

\* A command is accepted: its transaction stores an event and applies every projector
\* of the release, whose cursor becomes the event's sequence whatever it was.
StoreEvent ==
  /\ stage = "serving"
  /\ stored < MaxEvents
  /\ stored' = stored + 1
  /\ applied' = [p \in Projectors |->
                   IF p \in installed THEN Append(applied[p], stored + 1) ELSE applied[p]]
  /\ cursor' = [p \in Projectors |-> IF p \in installed THEN stored + 1 ELSE cursor[p]]
  /\ snapshotSequence' = stored + 1
  /\ published' = Append(published, stored + 1)
  /\ UNCHANGED <<installed, stage, turn, budget, lag, bootSequence, starts>>

\* A command fails: the events after the read model's sequence, as many as the limit
\* lets through, are projected in memory and published.
FailCommand ==
  LET last == Smaller(stored, snapshotSequence + ReadLimit)
  IN /\ stage = "serving"
     /\ snapshotSequence < stored
     /\ published' = published \o Between(snapshotSequence, last)
     /\ snapshotSequence' = last
     /\ UNCHANGED <<store, installed, stage, turn, budget, lag, bootSequence, starts>>

\* A crash, or a failed bootstrap, which fails the start of the server.
Stop ==
  /\ stage # "down"
  /\ stage' = "down"
  /\ UNCHANGED <<store, installed, turn, budget, snapshotSequence, published, lag,
                 bootSequence, starts>>

BootstrapStep == (\E p \in Projectors : ReplayEvent(p) \/ EndReplay(p)) \/ Serve

Next ==
  \/ \E release \in Releases : Start(release)
  \/ BootstrapStep
  \/ StoreEvent \/ FailCommand
  \/ Stop

Spec == Init /\ [][Next]_vars

\* The bootstrap is one effect that runs to its end; nothing else is promised.
FairSpec == Spec /\ WF_vars(BootstrapStep)

-----------------------------------------------------------------------------

TypeOK ==
  /\ stored \in Nat
  /\ cursor \in [Projectors -> Nat]
  /\ applied \in [Projectors -> Seq(Nat)]
  /\ installed \in SUBSET Projectors
  /\ stage \in {"down", "bootstrap", "serving"}
  /\ turn \in Nat \ {0}
  /\ budget \in Nat
  /\ snapshotSequence \in Nat
  /\ published \in Seq(Nat)
  /\ lag \in [Projectors -> Nat]
  /\ bootSequence \in Nat
  /\ starts \in Nat

\* However often the server dies while it catches up, no projector applies an event
\* twice or out of order, and its cursor is the last event it applied.
EachEventOnceInOrder ==
  \A p \in Projectors :
    /\ \A i, j \in 1..Len(applied[p]) : i < j => applied[p][i] < applied[p][j]
    /\ cursor[p] = IF applied[p] = <<>> THEN 0 ELSE applied[p][Len(applied[p])]
    /\ cursor[p] <= stored

WithinLimit(p) == lag[p] <= ReadLimit

\* A projector that never was more than the limit behind at a start, over any number of
\* crashes, releases with it and releases without it, has skipped no event: it has
\* applied everything up to its cursor, and the whole log while the server serves.
NothingSkippedWithinLimit ==
  \A p \in Projectors : WithinLimit(p) =>
    /\ Len(applied[p]) = cursor[p]
    /\ stage = "serving" /\ p \in installed => cursor[p] = stored

\* The event bus carries events of this life only, once each and in order, also after a
\* command that failed, provided that the required projectors were within the limit.
BusCarriesNewEventsOnly ==
  stage = "serving" /\ (\A p \in Required \cap installed : WithinLimit(p)) =>
    published = Between(bootSequence, stored)

\* A bootstrap ends, however much there is to catch up with.
BootstrapEnds == stage = "bootstrap" ~> stage # "bootstrap"

\* What the pipeline's documentation and its tests say: once the server serves, its
\* projectors have replayed the persisted events.
BootstrapCatchesUp ==
  stage = "serving" => \A p \in installed : cursor[p] = stored /\ Len(applied[p]) = stored

=============================================================================
