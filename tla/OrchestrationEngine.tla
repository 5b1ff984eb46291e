------------------------- MODULE OrchestrationEngine -------------------------
(***************************************************************************)
(* OrchestrationEngine.ts: an unbounded queue of commands and one worker   *)
(* that looks a command up in the receipts, decides it against the         *)
(* in-memory read model, and stores its events, their SQL projection and   *)
(* the receipt in one transaction; then it installs the new read model,    *)
(* publishes the events and answers.  A failure is reconciled and answered *)
(* instead.  The process may crash at any point: the store (event log,     *)
(* receipts, projection tables) survives, everything else is lost.         *)
(***************************************************************************)
EXTENDS ReadModel

CONSTANTS
  Commands,       \* the commands clients have; one may be sent many times
  MaxDispatches,  \* bound on sends
  MaxQueued,      \* bound on the length of the unbounded queue
  MaxFaults,      \* bound on failures of the store
  MaxCrashes      \* bound on crashes

ASSUME CommandsAreCommands ==
  /\ Commands \subseteq Command
  /\ \A c, d \in Commands : c.id = d.id => c = d
ASSUME BoundsAreNaturals ==
  /\ MaxDispatches \in Nat /\ MaxQueued \in Nat
  /\ MaxFaults \in Nat /\ MaxCrashes \in Nat

VARIABLES
  \* the store
  log,            \* orchestration_events; an event's index is its sequence
  receipts,       \* orchestration_command_receipts
  db,             \* the projection tables
  \* the process
  readModel,      \* the committed in-memory read model
  queue,          \* commandQueue
  published,      \* sequences put on eventPubSub in this life, in order
  bootSequence,   \* readModel.snapshotSequence when this life began
  \* the worker, inside processEnvelope
  stage,
  command,        \* the command it holds
  startSequence,  \* dispatchStartSequence
  batch,          \* the planned events
  appended,       \* how many of them the open transaction has stored
  draft,          \* the transaction's uncommitted read model and tables
  outbox,         \* sequences still to publish
  failure,        \* why the command fails, or "none"
  \* observation and bounds
  acks,           \* successful answers: pairs <<command id, sequence>>
  blind,          \* a reconcile was lost while the store was ahead of memory
  dispatches, faults, crashes

store == <<log, receipts, db>>
worker == <<stage, command, startSequence, batch, appended, draft, outbox, failure>>
process == <<readModel, queue, published, bootSequence>>
bounds == <<dispatches, faults, crashes>>
vars == <<store, process, worker, acks, blind, bounds>>

\* A command without a receipt row has the status "none".
Receipt == [status : {"none", "accepted", "rejected"}, sequence : Nat]
Draft == [model : ReadModelType, sql : SqlType]
Stage == {"down", "idle", "transaction", "committed", "publish", "failed", "reconcile",
          "refuse"}

FreshTasks == Tasks \ {log[i].task : i \in {n \in 1..Len(log) : log[n].type = "task.created"}}

ClearWorker ==
  /\ command' = None
  /\ startSequence' = 0
  /\ batch' = <<>>
  /\ appended' = 0
  /\ draft' = [model |-> EmptyReadModel, sql |-> EmptySql]
  /\ outbox' = <<>>
  /\ failure' = "none"

Init ==
  /\ log = <<>>
  /\ receipts = [c \in CommandIds |-> [status |-> "none", sequence |-> 0]]
  /\ db = EmptySql
  /\ readModel = EmptyReadModel
  /\ queue = <<>>
  /\ published = <<>>
  /\ bootSequence = 0
  /\ stage = "idle"
  /\ command = None
  /\ startSequence = 0
  /\ batch = <<>>
  /\ appended = 0
  /\ draft = [model |-> EmptyReadModel, sql |-> EmptySql]
  /\ outbox = <<>>
  /\ failure = "none"
  /\ acks = {}
  /\ blind = FALSE
  /\ dispatches = 0 /\ faults = 0 /\ crashes = 0

-----------------------------------------------------------------------------
(* Clients.                                                                *)

\* dispatch: enqueue; the caller then waits for the answer.  The same command
\* may be sent again, answered or not.
Dispatch(c) ==
  /\ stage # "down"
  /\ dispatches < MaxDispatches
  /\ Len(queue) < MaxQueued
  /\ queue' = Append(queue, c)
  /\ dispatches' = dispatches + 1
  /\ UNCHANGED <<store, readModel, published, bootSequence, worker, acks, blind, faults,
                 crashes>>

-----------------------------------------------------------------------------
(* The worker: taking a command.                                           *)

HeadCommand(c) == stage = "idle" /\ queue # <<>> /\ c = Head(queue)

\* An accepted receipt answers with its sequence and runs nothing.
AnswerFromReceipt(c) ==
  /\ HeadCommand(c)
  /\ receipts[c.id].status = "accepted"
  /\ queue' = Tail(queue)
  /\ acks' = acks \cup {<<c.id, receipts[c.id].sequence>>}
  /\ UNCHANGED <<store, readModel, published, bootSequence, worker, blind, bounds>>

\* A rejected receipt fails the command again, without reconciling.
RefusePreviouslyRejected(c) ==
  /\ HeadCommand(c)
  /\ receipts[c.id].status = "rejected"
  /\ queue' = Tail(queue)
  /\ UNCHANGED <<store, readModel, published, bootSequence, worker, acks, blind, bounds>>

\* The receipt lookup fails.
LookupFails(c) ==
  /\ HeadCommand(c)
  /\ faults < MaxFaults
  /\ faults' = faults + 1
  /\ queue' = Tail(queue)
  /\ stage' = "failed"
  /\ failure' = "persistence"
  /\ command' = c
  /\ startSequence' = readModel.snapshotSequence
  /\ UNCHANGED <<store, readModel, published, bootSequence, batch, appended, draft, outbox,
                 acks, blind, dispatches, crashes>>

\* Mutant: commands are decided without looking at the receipts.
DecideWithoutLookup(c) ==
  /\ HeadCommand(c)
  /\ Accepts(c, readModel)
  /\ queue' = Tail(queue)
  /\ stage' = "transaction"
  /\ command' = c
  /\ startSequence' = readModel.snapshotSequence
  /\ batch' \in Plans(c, readModel, FreshTasks)
  /\ appended' = 0
  /\ draft' = [model |-> readModel, sql |-> db]
  /\ UNCHANGED <<store, readModel, published, bootSequence, outbox, failure, acks, blind,
                 bounds>>

\* No receipt, and the decider plans events: open the transaction.
Decide(c) ==
  /\ HeadCommand(c)
  /\ receipts[c.id].status = "none"
  /\ Accepts(c, readModel)
  /\ queue' = Tail(queue)
  /\ stage' = "transaction"
  /\ command' = c
  /\ startSequence' = readModel.snapshotSequence
  /\ batch' \in Plans(c, readModel, FreshTasks)
  /\ appended' = 0
  /\ draft' = [model |-> readModel, sql |-> db]
  /\ UNCHANGED <<store, readModel, published, bootSequence, outbox, failure, acks, blind,
                 bounds>>

\* No receipt, and the decider fails with OrchestrationCommandInvariantError.
DecideFails(c) ==
  /\ HeadCommand(c)
  /\ receipts[c.id].status = "none"
  /\ ~ Accepts(c, readModel)
  /\ queue' = Tail(queue)
  /\ stage' = "failed"
  /\ failure' = "invariant"
  /\ command' = c
  /\ startSequence' = readModel.snapshotSequence
  /\ UNCHANGED <<store, readModel, published, bootSequence, batch, appended, draft, outbox,
                 acks, blind, bounds>>

-----------------------------------------------------------------------------
(* The worker: the transaction, publication and the answer.                *)

\* Mutant: the projection is applied to the live read model, inside the transaction.
StoreEventInPlace ==
  /\ stage = "transaction"
  /\ appended < Len(batch)
  /\ LET e == batch[appended + 1]
         n == Len(log) + appended + 1
     IN /\ draft' = [model |-> ProjectEvent(draft.model, e, n),
                     sql |-> ProjectSql(draft.sql, e, n)]
        /\ readModel' = ProjectEvent(draft.model, e, n)
  /\ appended' = appended + 1
  /\ UNCHANGED <<store, queue, published, bootSequence, stage, command, startSequence,
                 batch, outbox, failure, acks, blind, bounds>>

\* append, then both projections of the next planned event.
StoreEvent ==
  /\ stage = "transaction"
  /\ appended < Len(batch)
  /\ LET e == batch[appended + 1]
         n == Len(log) + appended + 1
     IN draft' = [model |-> ProjectEvent(draft.model, e, n),
                  sql |-> ProjectSql(draft.sql, e, n)]
  /\ appended' = appended + 1
  /\ UNCHANGED <<store, process, stage, command, startSequence, batch, outbox, failure,
                 acks, blind, bounds>>

\* What COMMIT makes durable, all at once.
Store ==
  /\ log' = log \o batch
  /\ db' = draft.sql
  /\ receipts' = [receipts EXCEPT ![command.id] =
                    [status |-> "accepted", sequence |-> Len(log) + Len(batch)]]

Commit ==
  /\ stage = "transaction"
  /\ appended = Len(batch)
  /\ Store
  /\ stage' = "committed"
  /\ UNCHANGED <<process, command, startSequence, batch, appended, draft, outbox, failure,
                 acks, blind, bounds>>

\* Mutant: the projection tables are written outside the transaction.
TransactionFailsKeepingTables ==
  /\ stage = "transaction"
  /\ faults < MaxFaults
  /\ faults' = faults + 1
  /\ db' = draft.sql
  /\ stage' = "failed"
  /\ failure' = "persistence"
  /\ UNCHANGED <<log, receipts, process, command, startSequence, batch, appended, draft,
                 outbox, acks, blind, dispatches, crashes>>

\* Any statement of the transaction fails: it is rolled back whole.
TransactionFails ==
  /\ stage = "transaction"
  /\ faults < MaxFaults
  /\ faults' = faults + 1
  /\ stage' = "failed"
  /\ failure' = "persistence"
  /\ UNCHANGED <<store, process, command, startSequence, batch, appended, draft, outbox,
                 acks, blind, dispatches, crashes>>

\* The transaction is durable and is nevertheless reported as failed: the case
\* reconcileReadModelAfterDispatchFailure is written for.
CommitReportedFailed ==
  /\ stage = "transaction"
  /\ appended = Len(batch)
  /\ faults < MaxFaults
  /\ faults' = faults + 1
  /\ Store
  /\ stage' = "failed"
  /\ failure' = "persistence"
  /\ UNCHANGED <<process, command, startSequence, batch, appended, draft, outbox, acks,
                 blind, dispatches, crashes>>

\* Sequences a+1..b, as the list the worker walks to publish.
Sequences(a, b) == [i \in 1..(b - a) |-> a + i]

\* Mutant: only the last of a command's events is published.
InstallLastEvent ==
  /\ stage = "committed"
  /\ readModel' = draft.model
  /\ outbox' = <<Len(log)>>
  /\ stage' = "publish"
  /\ UNCHANGED <<store, queue, published, bootSequence, command, startSequence, batch,
                 appended, draft, failure, acks, blind, bounds>>

Install ==
  /\ stage = "committed"
  /\ readModel' = draft.model
  /\ outbox' = Sequences(Len(log) - Len(batch), Len(log))
  /\ stage' = "publish"
  /\ UNCHANGED <<store, queue, published, bootSequence, command, startSequence, batch,
                 appended, draft, failure, acks, blind, bounds>>

Publish ==
  /\ stage = "publish"
  /\ outbox # <<>>
  /\ published' = Append(published, Head(outbox))
  /\ outbox' = Tail(outbox)
  /\ UNCHANGED <<store, readModel, queue, bootSequence, stage, command, startSequence,
                 batch, appended, draft, failure, acks, blind, bounds>>

AnswerSuccess ==
  /\ stage = "publish"
  /\ outbox = <<>>
  /\ failure = "none"
  /\ acks' = acks \cup {<<command.id, Len(log)>>}
  /\ stage' = "idle"
  /\ ClearWorker
  /\ UNCHANGED <<store, process, blind, bounds>>

-----------------------------------------------------------------------------
(* The worker: failure.                                                    *)

\* reconcile: read the events stored after startSequence ...
StartReconcile ==
  /\ stage = "failed"
  /\ stage' = "reconcile"
  /\ draft' = [draft EXCEPT !.model = readModel]
  /\ UNCHANGED <<store, process, command, startSequence, batch, appended, outbox, failure,
                 acks, blind, bounds>>

\* ... project them one by one onto the read model ...
ReconcileEvent ==
  /\ stage = "reconcile"
  /\ draft.model.snapshotSequence < Len(log)
  /\ LET n == draft.model.snapshotSequence + 1
     IN draft' = [draft EXCEPT !.model = ProjectEvent(draft.model, log[n], n)]
  /\ UNCHANGED <<store, process, stage, command, startSequence, batch, appended, outbox,
                 failure, acks, blind, bounds>>

\* Mutant: the reconciled read model is not installed.
FinishReconcileUninstalled ==
  /\ stage = "reconcile"
  /\ draft.model.snapshotSequence >= Len(log)
  /\ outbox' = Sequences(startSequence, Len(log))
  /\ stage' = "publish"
  /\ UNCHANGED <<store, process, command, startSequence, batch, appended, draft, failure,
                 acks, blind, bounds>>

\* Mutant: the reconciled events are not published.
FinishReconcileSilently ==
  /\ stage = "reconcile"
  /\ draft.model.snapshotSequence >= Len(log)
  /\ readModel' = draft.model
  /\ stage' = "publish"
  /\ UNCHANGED <<store, queue, published, bootSequence, command, startSequence, batch,
                 appended, draft, outbox, failure, acks, blind, bounds>>

\* ... install the result and publish those events.
FinishReconcile ==
  /\ stage = "reconcile"
  /\ draft.model.snapshotSequence >= Len(log)
  /\ readModel' = draft.model
  /\ outbox' = Sequences(startSequence, Len(log))
  /\ stage' = "publish"
  /\ UNCHANGED <<store, queue, published, bootSequence, command, startSequence, batch,
                 appended, draft, failure, acks, blind, bounds>>

\* The read fails; the error is swallowed and memory stays as it is.
ReconcileFails ==
  /\ stage = "failed"
  /\ faults < MaxFaults
  /\ faults' = faults + 1
  /\ blind' = (blind \/ startSequence < Len(log))
  /\ stage' = "publish"
  /\ UNCHANGED <<store, process, command, startSequence, batch, appended, draft, outbox,
                 failure, acks, dispatches, crashes>>

\* Mutant: every failure leaves a rejected receipt.
RejectAnyFailure ==
  /\ stage = "publish"
  /\ outbox = <<>>
  /\ failure # "none"
  /\ receipts' = [receipts EXCEPT ![command.id] =
                    [status |-> "rejected", sequence |-> readModel.snapshotSequence]]
  /\ stage' = "refuse"
  /\ UNCHANGED <<log, db, process, command, startSequence, batch, appended, draft, outbox,
                 failure, acks, blind, bounds>>

\* An invariant error leaves a rejected receipt behind ...
RejectReceipt ==
  /\ stage = "publish"
  /\ outbox = <<>>
  /\ failure = "invariant"
  /\ receipts' = [receipts EXCEPT ![command.id] =
                    [status |-> "rejected", sequence |-> readModel.snapshotSequence]]
  /\ stage' = "refuse"
  /\ UNCHANGED <<log, db, process, command, startSequence, batch, appended, draft, outbox,
                 failure, acks, blind, bounds>>

\* ... unless that write fails, which is swallowed too.
RejectReceiptFails ==
  /\ stage = "publish"
  /\ outbox = <<>>
  /\ failure = "invariant"
  /\ faults < MaxFaults
  /\ faults' = faults + 1
  /\ stage' = "refuse"
  /\ UNCHANGED <<store, process, command, startSequence, batch, appended, draft, outbox,
                 failure, acks, blind, dispatches, crashes>>

\* Mutant: the failure ends the worker fiber instead of being answered.
AnswerFailureAndStop ==
  /\ stage = "refuse"
  /\ stage' = "down"
  /\ UNCHANGED <<store, process, command, startSequence, batch, appended, draft, outbox,
                 failure, acks, blind, bounds>>

\* Any other error leaves no receipt, so the command may be retried.
AnswerFailure ==
  /\ \/ stage = "refuse"
     \/ stage = "publish" /\ outbox = <<>> /\ failure = "persistence"
  /\ stage' = "idle"
  /\ ClearWorker
  /\ UNCHANGED <<store, process, acks, blind, bounds>>

-----------------------------------------------------------------------------
(* The process.                                                            *)

Crash ==
  /\ stage # "down"
  /\ crashes < MaxCrashes
  /\ crashes' = crashes + 1
  /\ stage' = "down"
  /\ ClearWorker
  /\ queue' = <<>>
  /\ published' = <<>>
  /\ readModel' = EmptyReadModel
  /\ bootSequence' = 0
  /\ UNCHANGED <<store, acks, blind, dispatches, faults>>

\* bootstrap finds every projector up to date (their cursors commit with the
\* events), so the read model is the snapshot of the tables.
Boot ==
  /\ stage = "down"
  /\ stage' = "idle"
  /\ readModel' = Snapshot(db)
  /\ bootSequence' = db.sequence
  /\ UNCHANGED <<store, queue, published, command, startSequence, batch, appended, draft,
                 outbox, failure, acks, blind, bounds>>

-----------------------------------------------------------------------------

TakeCommand ==
  \E c \in Commands :
    AnswerFromReceipt(c) \/ RefusePreviouslyRejected(c) \/ Decide(c) \/ DecideFails(c)

Fault ==
  \/ \E c \in Commands : LookupFails(c)
  \/ TransactionFails \/ CommitReportedFailed \/ ReconcileFails \/ RejectReceiptFails

WorkerStep ==
  \/ TakeCommand
  \/ StoreEvent \/ Commit \/ Install \/ Publish \/ AnswerSuccess
  \/ StartReconcile \/ ReconcileEvent \/ FinishReconcile
  \/ RejectReceipt \/ AnswerFailure

Next ==
  \/ \E c \in Commands : Dispatch(c)
  \/ WorkerStep
  \/ Fault
  \/ Crash
  \/ Boot

Spec == Init /\ [][Next]_vars

\* The worker fiber runs forever and the runtime schedules it; nothing obliges a
\* client to send, the store to fail, or the process to crash or come back.
FairSpec == Spec /\ WF_vars(WorkerStep)

-----------------------------------------------------------------------------
(* Correctness.                                                            *)

TypeOK ==
  /\ log \in Seq(Event)
  /\ receipts \in [CommandIds -> Receipt]
  /\ db \in SqlType
  /\ readModel \in ReadModelType
  /\ queue \in Seq(Commands)
  /\ published \in Seq(Nat)
  /\ bootSequence \in Nat
  /\ stage \in Stage
  /\ command \in Commands \cup {None}
  /\ startSequence \in Nat
  /\ batch \in Seq(Event)
  /\ appended \in Nat
  /\ draft \in Draft
  /\ outbox \in Seq(Nat)
  /\ failure \in {"none", "invariant", "persistence"}
  /\ acks \in SUBSET (CommandIds \X Nat)
  /\ blind \in BOOLEAN
  /\ dispatches \in Nat /\ faults \in Nat /\ crashes \in Nat

\* The receipts, the log and the answers are those of an at-most-once log.
CL == INSTANCE CommandLog WITH outcome <- receipts

\* Every behaviour of the engine, with its transactions, failures, retries and
\* crashes, is a behaviour of the at-most-once command log.
ImplementsCommandLog == CL!Spec

\* A command's events are stored once, together and only with its accepted
\* receipt, and all its successful answers name the last of them.
AtMostOnce == CL!AtMostOnce

\* Between commands the read model the decider will consult is the one the
\* committed tables hold, unless a reconcile was lost.
MemoryFollowsStore ==
  stage = "idle" /\ ~ blind =>
    /\ readModel.projects = db.projects
    /\ readModel.threads = db.threads
    /\ readModel.snapshotSequence = db.sequence
    /\ db.sequence = Len(log)

\* The tables after folding the projectors over the events of l, from nothing.
SqlOf(l) ==
  LET fold[n \in 0..Len(l)] ==
        IF n = 0 THEN EmptySql ELSE ProjectSql(fold[n - 1], l[n], n)
  IN fold[Len(l)]

\* In every state, crashed ones included, the projection tables are the fold of
\* the stored log: events and their projection become durable together.
TablesFollowLog == db = SqlOf(log)

\* Other fibers read the read model at any time: it never shows an event that
\* is not yet durable, and the bus never carries one.
NothingUncommittedVisible ==
  /\ readModel.snapshotSequence <= Len(log)
  /\ \A i \in 1..Len(published) : published[i] <= Len(log)

\* A subscriber present since boot receives every event stored in this life, once
\* each and in sequence order, and has them all when the worker is idle, unless a
\* reconcile was lost.
BusCarriesEveryEventInOrder ==
  stage # "down" /\ ~ blind =>
    /\ published = Sequences(bootSequence, bootSequence + Len(published))
    /\ stage = "idle" => bootSequence + Len(published) = Len(log)

\* The stored history is one a user could have produced: a thread is created
\* once, in a project created before it, and only events of existing threads
\* follow; archive and unarchive alternate.
HistoryWellFormed ==
  ~ blind => \A j \in 1..Len(log) :
    LET e == log[j]
        ofThread(i) == e.thread = log[i].thread
        createdBefore == \E i \in 1..(j - 1) :
                           log[i].type = "thread.created" /\ ofThread(i)
        lastSwitch == {i \in 1..(j - 1) :
                         /\ log[i].type \in {"thread.archived", "thread.unarchived"}
                         /\ ofThread(i)
                         /\ \A k \in (i + 1)..(j - 1) :
                              ~ (/\ log[k].type \in {"thread.archived", "thread.unarchived"}
                                 /\ ofThread(k))}
    IN IsThreadEvent(e) =>
         /\ (e.type = "thread.created") = ~ createdBefore
         /\ e.type = "thread.created" =>
              \E i \in 1..(j - 1) :
                log[i].type = "project.created" /\ log[i].project = e.project
         /\ e.type = "thread.archived" =>
              \A i \in lastSwitch : log[i].type = "thread.unarchived"
         /\ e.type = "thread.unarchived" =>
              \E i \in lastSwitch : log[i].type = "thread.archived"

\* When a project.deleted is stored, every thread created in that project so far
\* has been deleted: a forced deletion leaves no live thread behind.
DeletedProjectsAreEmpty ==
  ~ blind => \A j \in 1..Len(log) : log[j].type = "project.deleted" =>
    \A i \in 1..(j - 1) :
      log[i].type = "thread.created" /\ log[i].project = log[j].project =>
        \E k \in i..(j - 1) :
          log[k].type = "thread.deleted" /\ log[k].thread = log[i].thread

\* Between commands the tasks the decider knows are exactly those created in this
\* life of the process and not deleted since, each as its row has it.
TasksOfThisLife ==
  stage = "idle" /\ ~ blind =>
    \A k \in Tasks :
      LET createdSinceBoot == \E i \in (bootSequence + 1)..Len(log) :
                                log[i].type = "task.created" /\ log[i].task = k
      IN IF createdSinceBoot /\ db.tasks[k] # None
           THEN readModel.tasks[k] = [project |-> db.tasks[k].project,
                                      scrapped |-> db.tasks[k].scrapped]
           ELSE readModel.tasks[k] = None

Waiting(c) == c = command \/ \E i \in 1..Len(queue) : queue[i] = c

\* A failing command never stops the worker: what is sent is eventually answered,
\* as long as the process lives.
EveryDispatchAnswered == \A c \in Commands : Waiting(c) ~> ~ Waiting(c)

-----------------------------------------------------------------------------
(* What documents and messages of the program say, and it does not do.     *)

\* An archived task is refused a second archive.
ArchivedTaskNotArchivedAgain ==
  [][log' # log =>
       \A i \in (Len(log) + 1)..Len(log') :
         log'[i].type = "task.archived" =>
           ~ (db.tasks[log'[i].task] # None /\ db.tasks[log'[i].task].archived)]_vars

\* The read model holds the tasks the stored events created and did not delete.
ReadModelKeepsTasks ==
  stage = "idle" /\ ~ blind =>
    \A k \in Tasks : (readModel.tasks[k] # None) = (db.tasks[k] # None)

=============================================================================
