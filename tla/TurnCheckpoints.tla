---------------------------- MODULE TurnCheckpoints ----------------------------
(***************************************************************************)
(* The checkpoints of one thread.  Turns run at a provider and edit the    *)
(* workspace.  ProviderRuntimeIngestion turns the provider's events into   *)
(* commands, among them placeholder checkpoints; CheckpointReactor         *)
(* captures the workspace into git refs numbered by a turn count and       *)
(* reverts to them.  Both read the engine's read model first and dispatch  *)
(* later; a dispatch updates the read model and projection_turns at once   *)
(* (OrchestrationEngine models how), by two different rules.               *)
(***************************************************************************)
EXTENDS Integers, Sequences, FiniteSets

CONSTANTS
  MaxTurns,       \* turns the user starts
  MaxEdits,       \* bound on edits of the workspace
  MaxDiffs,       \* bound on turn.diff.updated events of one turn
  MaxReverts,     \* bound on reverts the user asks for
  MaxTrouble,     \* bound on hasty actions of the user, failures of git or of the
                  \* provider, and crashes of the server, taken together
  MaxPending,     \* a hasty user acts with at most so many domain events pending
  None

ASSUME BoundsAreNaturals ==
  /\ MaxTurns \in Nat /\ MaxEdits \in Nat /\ MaxDiffs \in Nat
  /\ MaxReverts \in Nat /\ MaxTrouble \in Nat /\ MaxPending \in Nat

VARIABLES
  \* the workspace and its repository
  tree,           \* the files, as a number that names their contents
  refs,           \* checkpointRefForThreadTurn(thread, count) -> tree, where it exists
  \* the provider
  running,        \* its running turn
  started,        \* turns it has started
  conversation,   \* the turns it remembers
  session,        \* the server has a live session for the thread
  requests,       \* turn starts the command reactor has not carried out yet
  \* the engine
  checkpoints,    \* thread.checkpoints of the read model, by turn
  activeTurn,     \* thread.session.activeTurnId
  rows,           \* the checkpoint columns of projection_turns, by turn
  \* ProviderRuntimeIngestion
  ingestFeed,     \* runtime events not yet taken
  reading,        \* the event in hand, with what was read for it
  \* CheckpointReactor
  domainFeed, runtimeFeed, \* its two inputs
  work,           \* the input in hand
  \* observation and bounds
  treeAfter,      \* the files when a turn ended, by turn
  hasty,          \* how often the user acted before the system had settled
  edits, diffs, reverts, faults, crashes

disk == <<tree, refs>>
provider == <<running, started, conversation, session, requests>>
engine == <<checkpoints, activeTurn, rows>>
ingestion == <<ingestFeed, reading>>
reactor == <<domainFeed, runtimeFeed, work>>
ghosts == <<treeAfter, hasty>>
bounds == <<edits, diffs, reverts, faults, crashes>>
vars == <<disk, provider, engine, ingestion, reactor, ghosts, bounds>>

Turns == 1..MaxTurns
\* The commit at HEAD; the workspace starts with changes of the user on top.
HeadTree == 0
Trees == HeadTree..MaxEdits + 1

\* "error", a failed turn's, is captured and kept like "ready" and stands with it.
Statuses == {"ready", "missing"}
\* ref is "git" for checkpointRefForThreadTurn, "provider-diff" for a placeholder.
Checkpoint == [count : Nat, status : Statuses, ref : {"git", "provider-diff"}]
Table == [Turns -> Checkpoint \cup {None}]
ASSUME NoneIsNoCheckpoint == None \notin Checkpoint
States == {"completed", "interrupted"}

TurnStarted(t) == [type |-> "turn.started", turn |-> t, state |-> "completed"]
TurnDiffUpdated(t) == [type |-> "turn.diff.updated", turn |-> t, state |-> "completed"]
TurnCompleted(t, s) == [type |-> "turn.completed", turn |-> t, state |-> s]
RuntimeEvent ==
  [type : {"turn.started", "turn.diff.updated", "turn.completed"}, turn : Turns,
   state : States]
ASSUME NoneIsNothingElse == None \notin Nat \cup [event : RuntimeEvent, count : Nat]

\* A message-sent or turn-start-requested event; both ask for a baseline.
TurnRequested == [type |-> "turn-requested", turn |-> 0, count |-> 0, status |-> "missing"]
RevertRequested(n) ==
  [type |-> "revert-requested", turn |-> 0, count |-> n, status |-> "missing"]
TurnDiffCompleted(t, n, s) ==
  [type |-> "turn-diff-completed", turn |-> t, count |-> n, status |-> s]
DomainEvent ==
  [type : {"turn-requested", "revert-requested"}, turn : {0}, count : Nat, status : Statuses]
    \cup [type : {"turn-diff-completed"}, turn : Turns, count : Nat, status : Statuses]

CaptureStages == {"capture", "record"}
RevertStages == {"restore", "rollback", "delete", "reverted"}
\* turn, count and status of the checkpoint at hand; for a revert the refs found
\* stale and the number of turns to roll back.
Idle == [stage |-> "idle", turn |-> 0, count |-> 0, status |-> "missing", stale |-> {},
         back |-> 0, ref |-> "git"]
WorkIn(stages, turns) ==
  [stage : stages, turn : turns, count : Nat, status : Statuses, stale : SUBSET Nat,
   back : Nat, ref : {"git", "provider-diff"}]
Work ==
  WorkIn(CaptureStages, Turns) \cup WorkIn({"idle", "baseline"} \cup RevertStages, {0})

Init ==
  /\ tree = 1
  /\ refs = [n \in {} |-> HeadTree]
  /\ running = None /\ started = 0 /\ conversation = <<>> /\ session = FALSE
  /\ requests = 0
  /\ checkpoints = [t \in Turns |-> None]
  /\ activeTurn = None
  /\ rows = [t \in Turns |-> None]
  /\ ingestFeed = <<>> /\ reading = None
  /\ domainFeed = <<>> /\ runtimeFeed = <<>> /\ work = Idle
  /\ treeAfter = [t \in Turns |-> None]
  /\ hasty = 0
  /\ edits = 0 /\ diffs = [t \in Turns |-> 0]
  /\ reverts = 0 /\ faults = 0 /\ crashes = 0

-----------------------------------------------------------------------------
(* What the handlers compute from a thread they have read.                 *)

Held(table) == {t \in Turns : table[t] # None}
IsCaptured(table, t) == table[t] # None /\ table[t].status # "missing"

\* The reduce over checkpoints that yields currentTurnCount.
MaxCount(table) ==
  LET counts == {table[t].count : t \in Held(table)} \cup {0}
  IN CHOOSE n \in counts : \A m \in counts : m <= n

checkpointStatusFromRuntime(state) ==
  IF state = "interrupted" THEN "missing" ELSE "ready"

\* The user's view: nothing runs and nothing is on its way.
Settled ==
  /\ requests = 0 /\ running = None
  /\ ingestFeed = <<>> /\ reading = None
  /\ domainFeed = <<>> /\ runtimeFeed = <<>> /\ work.stage = "idle"

-----------------------------------------------------------------------------
(* The projections of the two events.                                      *)

\* Mutant: projector.ts without its guard.
TakeAnyCheckpoint(table, t, c) == [table EXCEPT ![t] = c]

\* projector.ts: a placeholder does not replace a captured checkpoint.
MemoryAfterDiff(table, t, c) ==
  IF IsCaptured(table, t) /\ c.status = "missing" THEN table
  ELSE [table EXCEPT ![t] = c]

\* Mutant: the other turns keep their numbers.
KeepConflicts(table, t, n) == table

\* ProjectionPipeline.ts: other turns lose a checkpoint of the same count, then
\* the turn's row takes the new one, whatever it held.
clearCheckpointTurnConflict(table, t, n) ==
  [u \in Turns |-> IF u # t /\ table[u] # None /\ table[u].count = n THEN None
                   ELSE table[u]]
\* Mutant: the first checkpoint of a turn stays in its row.
InsertOrIgnore(table, t, c) ==
  IF table[t] # None THEN table
  ELSE [clearCheckpointTurnConflict(table, t, c.count) EXCEPT ![t] = c]

RowsAfterDiff(table, t, c) ==
  [clearCheckpointTurnConflict(table, t, c.count) EXCEPT ![t] = c]

\* Mutant: one checkpoint too many is kept.
KeepOneMore(table, n) ==
  [t \in Turns |-> IF table[t] # None /\ table[t].count <= n + 1 THEN table[t] ELSE None]

AfterRevert(table, n) ==
  [t \in Turns |-> IF table[t] # None /\ table[t].count <= n THEN table[t] ELSE None]

\* thread.turn.diff.complete: both projections, and the event to the reactor.
DispatchTurnDiff(t, c) ==
  /\ checkpoints' = MemoryAfterDiff(checkpoints, t, c)
  /\ rows' = RowsAfterDiff(rows, t, c)
  /\ domainFeed' = Append(domainFeed, TurnDiffCompleted(t, c.count, c.status))

\* thread.revert.complete
DispatchReverted(n) ==
  /\ checkpoints' = AfterRevert(checkpoints, n)
  /\ rows' = AfterRevert(rows, n)

-----------------------------------------------------------------------------
(* The user, who may or may not wait for what the last request caused.     *)

Trouble == hasty + faults + crashes
Hurry ==
  \/ Settled /\ UNCHANGED hasty
  \/ /\ ~Settled /\ Len(domainFeed) <= MaxPending
     /\ Trouble < MaxTrouble
     /\ hasty' = hasty + 1

\* thread.turn.start: two events, both for the reactor; the second one also
\* makes the command reactor start a turn at the provider.
RequestTurn ==
  /\ started + requests < MaxTurns
  /\ requests' = requests + 1
  /\ domainFeed' = domainFeed \o <<TurnRequested, TurnRequested>>
  /\ Hurry
  /\ UNCHANGED <<disk, running, started, conversation, session, engine, ingestion,
                 runtimeFeed, work, treeAfter, bounds>>

\* thread.checkpoint.revert
RequestRevert(n) ==
  /\ reverts < MaxReverts
  /\ reverts' = reverts + 1
  /\ domainFeed' = Append(domainFeed, RevertRequested(n))
  /\ Hurry
  /\ UNCHANGED <<disk, provider, engine, ingestion, runtimeFeed, work, treeAfter, edits,
                 diffs, faults, crashes>>

-----------------------------------------------------------------------------
(* The provider, one turn at a time.                                       *)

\* Mutant: the request is not taken off the queue.
BeginTurnAgain ==
  /\ requests > 0 /\ running = None /\ started < MaxTurns
  /\ started' = started + 1
  /\ running' = started + 1
  /\ session' = TRUE
  /\ activeTurn' = IF session THEN activeTurn ELSE None
  /\ ingestFeed' = Append(ingestFeed, TurnStarted(started + 1))
  /\ runtimeFeed' = Append(runtimeFeed, TurnStarted(started + 1))
  /\ UNCHANGED <<disk, conversation, requests, checkpoints, rows, reading, domainFeed, work,
                 ghosts, bounds>>

\* The command reactor carries out a turn start.  Without a session it starts
\* one and binds it, which clears the active turn.
BeginTurn ==
  /\ requests > 0 /\ running = None
  /\ requests' = requests - 1
  /\ started' = started + 1
  /\ running' = started + 1
  /\ session' = TRUE
  /\ activeTurn' = IF session THEN activeTurn ELSE None
  /\ ingestFeed' = Append(ingestFeed, TurnStarted(started + 1))
  /\ runtimeFeed' = Append(runtimeFeed, TurnStarted(started + 1))
  /\ UNCHANGED <<disk, conversation, checkpoints, rows, reading, domainFeed, work, ghosts,
                 bounds>>

Edit ==
  /\ running # None
  /\ edits < MaxEdits
  /\ edits' = edits + 1
  /\ tree' = edits + 2
  /\ UNCHANGED <<refs, provider, engine, ingestion, reactor, ghosts, diffs, reverts, faults,
                 crashes>>

\* Codex reports the turn's diff while it runs; the reactor does not listen.
UpdateDiff ==
  /\ running # None
  /\ diffs[running] < MaxDiffs
  /\ diffs' = [diffs EXCEPT ![running] = @ + 1]
  /\ ingestFeed' = Append(ingestFeed, TurnDiffUpdated(running))
  /\ UNCHANGED <<disk, provider, engine, reading, reactor, ghosts, edits, reverts, faults,
                 crashes>>

CompleteTurn(state) ==
  /\ running # None
  /\ running' = None
  /\ conversation' = Append(conversation, running)
  /\ treeAfter' = [treeAfter EXCEPT ![running] = tree]
  /\ ingestFeed' = Append(ingestFeed, TurnCompleted(running, state))
  /\ runtimeFeed' = Append(runtimeFeed, TurnCompleted(running, state))
  /\ UNCHANGED <<disk, started, session, requests, engine, reading, domainFeed, work, hasty,
                 bounds>>

-----------------------------------------------------------------------------
(* ProviderRuntimeIngestion: one read of the thread, then the dispatch.    *)

\* The lifecycle guard for a turn's start and end: no other turn is active.  A
\* diff counts when the turn has no checkpoint.
Applies(e) ==
  IF e.type = "turn.diff.updated" THEN checkpoints[e.turn] = None
  ELSE activeTurn \in {None, e.turn}

\* An event that does not apply is dropped; a diff takes the next number.
IngestRead ==
  /\ reading = None /\ ingestFeed # <<>>
  /\ ingestFeed' = Tail(ingestFeed)
  /\ reading' = IF Applies(Head(ingestFeed))
                THEN [event |-> Head(ingestFeed), count |-> MaxCount(checkpoints) + 1]
                ELSE None
  /\ UNCHANGED <<disk, provider, engine, reactor, ghosts, bounds>>

InHand(type) == reading # None /\ reading.event.type = type

\* thread.session.set of turn.started and turn.completed.
IngestTurnLifecycle ==
  /\ InHand("turn.started") \/ InHand("turn.completed")
  /\ activeTurn' = IF reading.event.type = "turn.started" THEN reading.event.turn ELSE None
  /\ reading' = None
  /\ UNCHANGED <<disk, provider, checkpoints, rows, ingestFeed, reactor, ghosts, bounds>>

\* turn.diff.updated: a placeholder checkpoint.
IngestTurnDiff ==
  /\ InHand("turn.diff.updated")
  /\ DispatchTurnDiff(reading.event.turn,
       [count |-> reading.count, status |-> "missing", ref |-> "provider-diff"])
  /\ reading' = None
  /\ UNCHANGED <<disk, provider, activeTurn, ingestFeed, runtimeFeed, work, ghosts, bounds>>

-----------------------------------------------------------------------------
(* CheckpointReactor: taking an input.  Its worker's queue merges the two  *)
(* feeds, so the next input is the head of either.                         *)

TakesDomain(type) ==
  /\ work.stage = "idle"
  /\ domainFeed # <<>> /\ Head(domainFeed).type = type
  /\ domainFeed' = Tail(domainFeed)
  /\ UNCHANGED <<disk, provider, engine, ingestion, runtimeFeed, ghosts, bounds>>
TakesRuntime(type) ==
  /\ work.stage = "idle"
  /\ runtimeFeed # <<>> /\ Head(runtimeFeed).type = type
  /\ runtimeFeed' = Tail(runtimeFeed)
  /\ UNCHANGED <<disk, provider, engine, ingestion, domainFeed, ghosts, bounds>>

Baseline == [Idle EXCEPT !.stage = "baseline", !.count = MaxCount(checkpoints)]
Capture(t, n, s) ==
  [Idle EXCEPT !.stage = "capture", !.turn = t, !.count = n, !.status = s]

\* ensurePreTurnBaselineFromDomainTurnStart
BaselineOnRequest == TakesDomain("turn-requested") /\ work' = Baseline

\* ensurePreTurnBaselineFromTurnStart
BaselineOnStart == TakesRuntime("turn.started") /\ work' = Baseline

\* Mutant: a completed turn always takes a new number.
CaptureUnderNewNumber ==
  /\ TakesRuntime("turn.completed")
  /\ LET t == Head(runtimeFeed).turn
     IN work' = IF activeTurn \in {None, t} /\ ~IsCaptured(checkpoints, t)
                THEN Capture(t, MaxCount(checkpoints) + 1,
                             checkpointStatusFromRuntime(Head(runtimeFeed).state))
                ELSE work

\* captureCheckpointFromTurnCompletion: no other turn may be active, a captured
\* turn is left alone, a placeholder's number is used again.
CaptureOnCompletion ==
  /\ TakesRuntime("turn.completed")
  /\ LET t == Head(runtimeFeed).turn
         next == IF checkpoints[t] # None THEN checkpoints[t].count
                 ELSE MaxCount(checkpoints) + 1
     IN work' = IF activeTurn \in {None, t} /\ ~IsCaptured(checkpoints, t)
                THEN Capture(t, next, checkpointStatusFromRuntime(Head(runtimeFeed).state))
                ELSE work

\* captureCheckpointFromPlaceholder, whether the turn has ended or not.
CaptureOnPlaceholder ==
  /\ TakesDomain("turn-diff-completed")
  /\ LET e == Head(domainFeed)
     IN work' = IF e.status = "missing" /\ ~IsCaptured(checkpoints, e.turn)
                THEN Capture(e.turn, e.count, "ready")
                ELSE work

\* Two checkpoints of one number: find takes whichever comes first.
TargetRefs(n) ==
  IF n = 0 THEN {"git"}
  ELSE {checkpoints[t].ref : t \in {u \in Held(checkpoints) : checkpoints[u].count = n}}
StaleCheckpoints(n) == {t \in Held(checkpoints) : checkpoints[t].count > n}

\* handleRevertRequested, up to the last refusal before the restore.
StartRevert ==
  /\ TakesDomain("revert-requested")
  /\ LET n == Head(domainFeed).count
         stale == {t \in StaleCheckpoints(n) : checkpoints[t].ref = "git"}
     IN IF session /\ n <= MaxCount(checkpoints) /\ TargetRefs(n) # {}
        THEN \E r \in TargetRefs(n) :
               work' = [Idle EXCEPT !.stage = "restore", !.count = n, !.ref = r,
                                    !.stale = {checkpoints[t].count : t \in stale},
                                    !.back = MaxCount(checkpoints) - n]
        ELSE work' = work

-----------------------------------------------------------------------------
(* CheckpointReactor: carrying the input out.                              *)

HasRef(n) == n \in DOMAIN refs
\* update-ref, for a new ref or an old one.
WriteRef(n) ==
  refs' = [m \in DOMAIN refs \cup {n} |-> IF m = n THEN tree ELSE refs[m]]

\* Mutant: the baseline is captured over an existing ref.
RecaptureBaseline ==
  /\ work.stage = "baseline"
  /\ WriteRef(work.count)
  /\ work' = Idle
  /\ UNCHANGED <<tree, provider, engine, ingestion, domainFeed, runtimeFeed, ghosts, bounds>>

CaptureBaseline ==
  /\ work.stage = "baseline"
  /\ IF HasRef(work.count) THEN UNCHANGED refs ELSE WriteRef(work.count)
  /\ work' = Idle
  /\ UNCHANGED <<tree, provider, engine, ingestion, domainFeed, runtimeFeed, ghosts, bounds>>

CaptureCheckpoint ==
  /\ work.stage = "capture"
  /\ WriteRef(work.count)
  /\ work' = [work EXCEPT !.stage = "record"]
  /\ UNCHANGED <<tree, provider, engine, ingestion, domainFeed, runtimeFeed, ghosts, bounds>>

RecordCheckpoint ==
  /\ work.stage = "record"
  /\ DispatchTurnDiff(work.turn, [count |-> work.count, status |-> work.status,
                                  ref |-> "git"])
  /\ work' = Idle
  /\ UNCHANGED <<disk, provider, activeTurn, ingestion, runtimeFeed, ghosts, bounds>>

\* What restoreCheckpoint restores: a placeholder's ref never resolves, and only
\* the revert to 0 falls back to HEAD.
RestorableTrees ==
  IF work.ref = "git" /\ HasRef(work.count) THEN {refs[work.count]}
  ELSE IF work.count = 0 THEN {HeadTree} ELSE {}

RestoreCheckpoint ==
  /\ work.stage = "restore"
  /\ \/ /\ tree' \in RestorableTrees
        /\ work' = [work EXCEPT !.stage = "rollback"]
     \/ /\ RestorableTrees = {}
        /\ work' = Idle
        /\ UNCHANGED tree
  /\ UNCHANGED <<refs, provider, engine, ingestion, domainFeed, runtimeFeed, ghosts, bounds>>

\* What the provider remembers without its last n turns.
Without(n) == SubSeq(conversation, 1, IF n <= Len(conversation) THEN Len(conversation) - n ELSE 0)

\* Mutant: the turns to keep are taken for the turns to drop.
RollbackToLength ==
  /\ work.stage = "rollback"
  /\ conversation' = Without(work.count)
  /\ work' = [work EXCEPT !.stage = "delete"]
  /\ UNCHANGED <<disk, running, started, session, requests, engine, ingestion, domainFeed,
                 runtimeFeed, ghosts, bounds>>

\* No call when there is nothing to roll back.
RollbackConversation ==
  /\ work.stage = "rollback"
  /\ conversation' = Without(work.back)
  /\ work' = [work EXCEPT !.stage = "delete"]
  /\ UNCHANGED <<disk, running, started, session, requests, engine, ingestion, domainFeed,
                 runtimeFeed, ghosts, bounds>>

DeleteStaleRefs ==
  /\ work.stage = "delete"
  /\ refs' = [n \in DOMAIN refs \ work.stale |-> refs[n]]
  /\ work' = [work EXCEPT !.stage = "reverted"]
  /\ UNCHANGED <<tree, provider, engine, ingestion, domainFeed, runtimeFeed, ghosts, bounds>>

CompleteRevert ==
  /\ work.stage = "reverted"
  /\ DispatchReverted(work.count)
  /\ work' = Idle
  /\ UNCHANGED <<disk, provider, activeTurn, ingestion, domainFeed, runtimeFeed, ghosts,
                 bounds>>

\* A failed capture, restore or rollback is reported and the input dropped; a
\* restore may fail with the files already written.
StepFails ==
  /\ work.stage \in {"baseline", "capture", "restore", "rollback"}
  /\ work.stage = "rollback" => work.back > 0
  /\ Trouble < MaxTrouble
  /\ faults' = faults + 1
  /\ \/ UNCHANGED tree
     \/ work.stage = "restore" /\ tree' \in RestorableTrees
  /\ work' = Idle
  /\ UNCHANGED <<refs, provider, engine, ingestion, domainFeed, runtimeFeed, ghosts, edits,
                 diffs, reverts, crashes>>

\* The server dies and starts again: the read model comes back from the tables,
\* events on their way are gone, and so is the provider's running turn.
Crash ==
  /\ Trouble < MaxTrouble
  /\ crashes' = crashes + 1
  /\ running' = None /\ session' = FALSE /\ requests' = 0
  /\ checkpoints' = rows
  /\ ingestFeed' = <<>> /\ reading' = None
  /\ domainFeed' = <<>> /\ runtimeFeed' = <<>> /\ work' = Idle
  /\ UNCHANGED <<disk, started, conversation, activeTurn, rows, ghosts, edits, diffs,
                 reverts, faults>>

User == RequestTurn \/ \E n \in Turns \cup {0} : RequestRevert(n)
Provider == BeginTurn \/ Edit \/ UpdateDiff \/ \E s \in States : CompleteTurn(s)
Ingestion == IngestRead \/ IngestTurnLifecycle \/ IngestTurnDiff
ReactorTakes ==
  BaselineOnRequest \/ BaselineOnStart \/ CaptureOnCompletion \/ CaptureOnPlaceholder
    \/ StartRevert
ReactorActs ==
  CaptureBaseline \/ CaptureCheckpoint \/ RecordCheckpoint \/ RestoreCheckpoint
    \/ RollbackConversation \/ DeleteStaleRefs \/ CompleteRevert

Next ==
  User \/ Provider \/ Ingestion \/ ReactorTakes \/ ReactorActs \/ StepFails \/ Crash

Spec == Init /\ [][Next]_vars

-----------------------------------------------------------------------------
(* Properties.                                                             *)

TypeOK ==
  /\ tree \in Nat
  /\ DOMAIN refs \in SUBSET Nat /\ \A n \in DOMAIN refs : refs[n] \in Nat
  /\ running \in Turns \cup {None} /\ started \in 0..MaxTurns
  /\ conversation \in Seq(Turns) /\ session \in BOOLEAN
  /\ requests \in Nat /\ started + requests <= MaxTurns
  /\ checkpoints \in Table /\ rows \in Table
  /\ activeTurn \in Turns \cup {None}
  /\ ingestFeed \in Seq(RuntimeEvent)
  /\ reading \in [event : RuntimeEvent, count : Nat] \cup {None}
  /\ domainFeed \in Seq(DomainEvent) /\ runtimeFeed \in Seq(RuntimeEvent)
  /\ work \in Work
  /\ treeAfter \in [Turns -> Nat \cup {None}] /\ hasty \in Nat
  /\ edits \in 0..MaxEdits /\ diffs \in [Turns -> 0..MaxDiffs]
  /\ reverts \in 0..MaxReverts /\ faults \in Nat /\ crashes \in Nat

\* The user waited for the system each time, and nothing failed.
Undisturbed == hasty = 0 /\ faults = 0 /\ crashes = 0

\* No two rows of projection_turns carry the same checkpoint number, whatever
\* numbers the two dispatchers work out from what they read: the unique index of
\* migration 005 is never violated, so no transaction of the engine fails on it.
RowsDistinct ==
  \A t, u \in Held(rows) : rows[t].count = rows[u].count => t = u

\* A captured checkpoint of the read model is never replaced by a placeholder or
\* lost, except by a revert and by a restart.
CapturedStaysCaptured ==
  [][\A t \in Turns :
       IsCaptured(checkpoints, t) =>
         \/ IsCaptured(checkpoints', t)
         \/ work.stage = "reverted" /\ checkpoints[t].count > work.count
         \/ crashes' # crashes]_vars

\* A captured checkpoint has a git ref behind it, so it can be compared and
\* reverted to; only a revert on its way, or one that a crash cut off, lacks it.
CapturedHasRef ==
  work.stage # "reverted" /\ crashes = 0 =>
    \A t \in Turns : IsCaptured(checkpoints, t) => HasRef(checkpoints[t].count)

\* For a user who waits, the tables agree with the read model, and so a restart
\* changes nothing, but for a checkpoint that was captured before a late placeholder
\* was stored: its row has its number, and is a placeholder again.
TablesMatchMemory ==
  hasty = 0 =>
    \A t \in Turns :
      \/ rows[t] = checkpoints[t]
      \/ /\ IsCaptured(checkpoints, t)
         /\ rows[t] = [checkpoints[t] EXCEPT !.status = "missing", !.ref = "provider-diff"]

\* For a user who waits, every turn that ended is captured, interrupted ones on a
\* second pass, and the checkpoints are numbered like the turns the provider
\* remembers: a revert to n rolls back as many turns as it drops checkpoints.
CountsFollowConversation ==
  Settled /\ Undisturbed =>
    /\ Held(checkpoints) = {conversation[i] : i \in 1..Len(conversation)}
    /\ \A i \in 1..Len(conversation) :
         IsCaptured(checkpoints, conversation[i]) /\ checkpoints[conversation[i]].count = i

\* When a revert is recorded, the files are those of its checkpoint and the
\* provider remembers that many turns.
RevertLandsTogether ==
  [][work.stage = "reverted" /\ checkpoints' # checkpoints /\ Undisturbed =>
       /\ HasRef(work.count) => tree' = refs'[work.count]
       /\ Len(conversation') = work.count]_vars

\* For a user who waits, the ref behind a captured checkpoint is never written
\* again, only deleted by a revert: what a diff or a revert shows for a turn does
\* not change later.
CapturedRefsStand ==
  [][hasty' = 0 =>
       \A t \in Held(checkpoints) :
         /\ IsCaptured(checkpoints, t) /\ HasRef(checkpoints[t].count)
         /\ checkpoints[t].count \in DOMAIN refs'
         => refs'[checkpoints[t].count] = refs[checkpoints[t].count]]_vars

\* The files a turn left are the files its checkpoint holds, for a user who waits
\* and a turn that reported no diff while it ran.
TurnEndsInItsCheckpoint ==
  Settled /\ Undisturbed =>
    \A t \in Held(checkpoints) :
      diffs[t] = 0 => refs[checkpoints[t].count] = treeAfter[t]

\* The same for every turn: checkpoints are taken at the start and the end of turns.
CheckpointsAtTurnBoundaries ==
  Settled /\ Undisturbed =>
    \A t \in Held(checkpoints) : refs[checkpoints[t].count] = treeAfter[t]

=============================================================================
