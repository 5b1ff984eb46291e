---------------------- MODULE OrchestrationEngine_proof ----------------------
(***************************************************************************)
(* The engine's theorems, for every set of commands, projects, threads and *)
(* tasks and for all bounds.  The invariant grows in steps:                *)
(*   IInv          types, the worker's stages, the log's sequence numbers; *)
(*   FollowInv     and memory and bus follow the log;                      *)
(*   RecordedInv   and the history is well formed;                         *)
(*   KnownInv      and the decider knows the tasks of this life;           *)
(*   FoldInv       and the tables are the fold of the stored events.       *)
(* The refinement of the at-most-once command log needs the first only.    *)
(* The later steps use the one before: the decider looks at memory only,   *)
(* so what it stores is right because memory follows the tables.           *)
(***************************************************************************)
EXTENDS OrchestrationEngine, FiniteSetTheorems, WellFoundedInduction, TLAPS

-----------------------------------------------------------------------------
(* The decider and the projectors.                                         *)

PlanOf(c, b) ==
  b \in Seq(Event) /\ b # <<>> /\ \A i \in 1..Len(b) : b[i].cmd = c.id

\* A forced deletion plans a non-empty run of events of its own command.
LEMMA DeletionPlans ==
  ASSUME NEW c \in Command, c.type = "project.delete",
         NEW m \in ReadModelType, NEW b \in DeletionBatches(c, m)
  PROVE  PlanOf(c, b)
<1> DEFINE active == ActiveThreads(m, c.project)
           n == Cardinality(active)
<1>1. active \subseteq Threads
  BY DEF ActiveThreads
<1>2. n \in Nat
  BY <1>1, ThreadsFinite, FS_Subset, FS_CardinalityType
<1>3. c.id \in CommandIds /\ c.project \in Projects
  BY DEF Command
<1>4. PICK order \in [1..n -> active] :
        b = [i \in 1..(n + 1) |->
               IF i \in 1..n
                 THEN [type |-> "thread.deleted", cmd |-> c.id, thread |-> order[i]]
                 ELSE [type |-> "project.deleted", cmd |-> c.id, project |-> c.project]]
  BY DEF DeletionBatches
<1> HIDE DEF active, n
<1>5. \A i \in 1..(n + 1) : b[i] \in Event /\ b[i].cmd = c.id
  <2> SUFFICES ASSUME NEW i \in 1..(n + 1) PROVE b[i] \in Event /\ b[i].cmd = c.id
    OBVIOUS
  <2>1. CASE i \in 1..n
    <3>1. order[i] \in Threads
      BY <2>1, <1>1, <1>4
    <3> QED BY <2>1, <3>1, <1>3, <1>4 DEF Event
  <2>2. CASE i \notin 1..n
    BY <2>2, <1>3, <1>4 DEF Event
  <2> QED BY <2>1, <2>2
<1>6. b \in [1..(n + 1) -> Event]
  BY <1>4, <1>5
<1>7. b \in Seq(Event) /\ Len(b) = n + 1
  BY <1>2, <1>6
<1> QED BY <1>2, <1>5, <1>7 DEF PlanOf

LEMMA SingleEventPlan ==
  ASSUME NEW c, NEW e \in Event, e.cmd = c.id
  PROVE  PlanOf(c, <<e>>)
BY DEF PlanOf

\* Whatever the decider plans is a non-empty run of events of its own command.
LEMMA PlansSound ==
  ASSUME NEW c \in Command, NEW m \in ReadModelType, NEW fresh \in SUBSET Tasks,
         NEW b \in Plans(c, m, fresh)
  PROVE  PlanOf(c, b)
<1>1. CASE c.type = "project.create"
  <2> DEFINE e == [type |-> "project.created", cmd |-> c.id, project |-> c.project]
  <2>1. b = <<e>>
    BY <1>1 DEF Plans, ThreadEventType, TaskEventType
  <2>2. e \in Event /\ e.cmd = c.id
    BY <1>1 DEF Command, Event
  <2> HIDE DEF e
  <2> QED BY <2>1, <2>2, SingleEventPlan
<1>2. CASE c.type = "project.delete"
  <2>1. b \in DeletionBatches(c, m)
    BY <1>2 DEF Plans, ThreadEventType, TaskEventType
  <2> QED BY <1>2, <2>1, DeletionPlans
<1>3. CASE c.type = "thread.create"
  <2> DEFINE e == [type |-> "thread.created", cmd |-> c.id, thread |-> c.thread,
                   project |-> c.project]
  <2>1. b = <<e>>
    BY <1>3 DEF Plans, ThreadEventType, TaskEventType
  <2>2. e \in Event /\ e.cmd = c.id
    BY <1>3 DEF Command, Event
  <2> HIDE DEF e
  <2> QED BY <2>1, <2>2, SingleEventPlan
<1>4. CASE c.type \in {"thread.delete", "thread.archive", "thread.unarchive",
                       "thread.meta.update"}
  <2> DEFINE e == [type |-> ThreadEventType[c.type], cmd |-> c.id, thread |-> c.thread]
  <2>1. b = <<e>>
    BY <1>4 DEF Plans, ThreadEventType, TaskEventType
  <2>2. ThreadEventType[c.type] \in {"thread.deleted", "thread.archived",
                                     "thread.unarchived", "thread.meta-updated"}
    BY <1>4 DEF ThreadEventType
  <2>3. e \in Event
    BY <1>4, <2>2 DEF Command, Event
  <2> HIDE DEF e
  <2>4. e.cmd = c.id
    BY DEF e
  <2> QED BY <2>1, <2>3, <2>4, SingleEventPlan
<1>5. CASE c.type = "task.create"
  <2>1. Plans(c, m, fresh) =
          {<<[type |-> "task.created", cmd |-> c.id, task |-> k, project |-> c.project,
              scrapped |-> c.scrapped]>> : k \in fresh}
    BY <1>5, Zenon DEF Plans, ThreadEventType, TaskEventType
  <2>2. PICK k \in fresh :
          b = <<[type |-> "task.created", cmd |-> c.id, task |-> k, project |-> c.project,
                 scrapped |-> c.scrapped]>>
    BY <2>1
  <2> DEFINE e == [type |-> "task.created", cmd |-> c.id, task |-> k,
                   project |-> c.project, scrapped |-> c.scrapped]
  <2>3. e \in Event /\ e.cmd = c.id
    BY <1>5 DEF Command, Event
  <2>4. b = <<e>>
    BY <2>2
  <2> HIDE DEF e
  <2> QED BY <2>3, <2>4, SingleEventPlan
<1>6. CASE c.type = "task.update"
  <2> DEFINE e == [type |-> "task.updated", cmd |-> c.id, task |-> c.task,
                   scrapped |-> c.scrapped]
  <2>1. b = <<e>>
    BY <1>6 DEF Plans, ThreadEventType, TaskEventType
  <2>2. e \in Event /\ e.cmd = c.id
    BY <1>6 DEF Command, Event
  <2> HIDE DEF e
  <2> QED BY <2>1, <2>2, SingleEventPlan
<1>7. CASE c.type \in {"task.delete", "task.archive", "task.unarchive"}
  <2> DEFINE e == [type |-> TaskEventType[c.type], cmd |-> c.id, task |-> c.task]
  <2>1. b = <<e>>
    BY <1>7 DEF Plans, ThreadEventType, TaskEventType
  <2>2. TaskEventType[c.type] \in {"task.deleted", "task.archived", "task.unarchived"}
    BY <1>7 DEF TaskEventType
  <2>3. e \in Event
    BY <1>7, <2>2 DEF Command, Event
  <2> HIDE DEF e
  <2>4. e.cmd = c.id
    BY DEF e
  <2> QED BY <2>1, <2>3, <2>4, SingleEventPlan
<1> QED
  BY <1>1, <1>2, <1>3, <1>4, <1>5, <1>6, <1>7 DEF Command

\* Applying an event to a read model, or to the tables, yields one again.
LEMMA NextRowsTyped ==
  ASSUME NEW e \in Event
  PROVE  /\ IsProjectEvent(e) => \A row \in ProjectRow : NextProject(row, e) \in ProjectRow
         /\ IsThreadEvent(e) => \A row \in ThreadRow : NextThread(row, e) \in ThreadRow
         /\ IsTaskEvent(e) => /\ \A row \in TaskEntry : NextTaskEntry(row, e) \in TaskEntry
                              /\ \A row \in TaskRow : NextTaskRow(row, e) \in TaskRow
<1>1. IsProjectEvent(e) => \A row \in ProjectRow : NextProject(row, e) \in ProjectRow
  BY DEF IsProjectEvent, NextProject, ProjectRow
<1>2. ASSUME IsThreadEvent(e), NEW row \in ThreadRow
      PROVE  NextThread(row, e) \in ThreadRow
  <2>1. e.type \in {"thread.created", "thread.deleted", "thread.archived",
                    "thread.unarchived", "thread.meta-updated"}
    BY <1>2 DEF IsThreadEvent, IsProjectEvent, IsTaskEvent, Event
  <2>2. e.type = "thread.created" => e.project \in Projects
    BY DEF Event
  <2>3. row # None => row \in [project : Projects, archived : BOOLEAN, deleted : BOOLEAN]
    BY <1>2 DEF ThreadRow
  <2> QED BY <2>1, <2>2, <2>3 DEF NextThread, ThreadRow
<1>3. ASSUME IsTaskEvent(e), NEW row \in TaskEntry
      PROVE  NextTaskEntry(row, e) \in TaskEntry
  <2>1. /\ e.type = "task.created" => e.project \in Projects /\ e.scrapped \in BOOLEAN
        /\ e.type = "task.updated" => e.scrapped \in BOOLEAN
    BY DEF Event
  <2> QED BY <1>3, <2>1 DEF NextTaskEntry, TaskEntry
<1>4. ASSUME IsTaskEvent(e), NEW row \in TaskRow
      PROVE  NextTaskRow(row, e) \in TaskRow
  <2>1. /\ e.type = "task.created" => e.project \in Projects /\ e.scrapped \in BOOLEAN
        /\ e.type = "task.updated" => e.scrapped \in BOOLEAN
    BY DEF Event
  <2> QED BY <1>4, <2>1 DEF NextTaskRow, TaskRow
<1> QED BY <1>1, <1>2, <1>3, <1>4

LEMMA ProjectionsTyped ==
  ASSUME NEW e \in Event, NEW n \in Nat, NEW m \in ReadModelType, NEW s \in SqlType
  PROVE  /\ ProjectEvent(m, e, n) \in ReadModelType
         /\ ProjectEvent(m, e, n).snapshotSequence = n
         /\ ProjectSql(s, e, n) \in SqlType
         /\ ProjectSql(s, e, n).sequence = n
<1>1. /\ m.projects \in [Projects -> ProjectRow] /\ s.projects \in [Projects -> ProjectRow]
      /\ m.threads \in [Threads -> ThreadRow] /\ s.threads \in [Threads -> ThreadRow]
      /\ m.tasks \in [Tasks -> TaskEntry] /\ s.tasks \in [Tasks -> TaskRow]
  BY DEF ReadModelType, SqlType
<1>2. /\ IsProjectEvent(e) => e.project \in Projects
      /\ IsThreadEvent(e) => e.thread \in Threads
      /\ IsTaskEvent(e) => e.task \in Tasks
  BY DEF Event, IsProjectEvent, IsThreadEvent, IsTaskEvent
<1> DEFINE pm == IF IsProjectEvent(e)
                   THEN [m.projects EXCEPT ![e.project] = NextProject(@, e)] ELSE m.projects
           ps == IF IsProjectEvent(e)
                   THEN [s.projects EXCEPT ![e.project] = NextProject(@, e)] ELSE s.projects
           tm == IF IsThreadEvent(e)
                   THEN [m.threads EXCEPT ![e.thread] = NextThread(@, e)] ELSE m.threads
           ts == IF IsThreadEvent(e)
                   THEN [s.threads EXCEPT ![e.thread] = NextThread(@, e)] ELSE s.threads
           km == IF IsTaskEvent(e)
                   THEN [m.tasks EXCEPT ![e.task] = NextTaskEntry(@, e)] ELSE m.tasks
           ks == IF IsTaskEvent(e)
                   THEN [s.tasks EXCEPT ![e.task] = NextTaskRow(@, e)] ELSE s.tasks
<1>3. pm \in [Projects -> ProjectRow] /\ ps \in [Projects -> ProjectRow]
  BY <1>1, <1>2, NextRowsTyped
<1>4. tm \in [Threads -> ThreadRow] /\ ts \in [Threads -> ThreadRow]
  BY <1>1, <1>2, NextRowsTyped
<1>5. km \in [Tasks -> TaskEntry] /\ ks \in [Tasks -> TaskRow]
  BY <1>1, <1>2, NextRowsTyped
<1>6. /\ ProjectEvent(m, e, n) =
           [projects |-> pm, threads |-> tm, tasks |-> km, snapshotSequence |-> n]
      /\ ProjectSql(s, e, n) =
           [projects |-> ps, threads |-> ts, tasks |-> ks, sequence |-> n]
  BY DEF ProjectEvent, ProjectSql
<1> HIDE DEF pm, ps, tm, ts, km, ks
<1> QED BY <1>3, <1>4, <1>5, <1>6 DEF ReadModelType, SqlType

LEMMA SnapshotTyped ==
  ASSUME NEW s \in SqlType
  PROVE  Snapshot(s) \in ReadModelType /\ Snapshot(s).snapshotSequence = s.sequence
BY DEF Snapshot, SqlType, ReadModelType, TaskEntry

LEMMA EmptyTyped ==
  /\ EmptyReadModel \in ReadModelType /\ EmptySql \in SqlType
  /\ EmptyReadModel.snapshotSequence = 0 /\ EmptySql.sequence = 0
BY DEF EmptyReadModel, EmptySql, ReadModelType, SqlType, ProjectRow, ThreadRow, TaskEntry,
       TaskRow

-----------------------------------------------------------------------------
(* The inductive invariant.  At-most-once rests on the receipt of the      *)
(* command in hand: nobody else can decide it between the lookup and the   *)
(* COMMIT, or between the invariant error and the rejected receipt.        *)

WorkerInv ==
  /\ stage \notin {"idle", "down"} => command \in Commands
  /\ stage \in {"idle", "down", "transaction", "committed"} => failure = "none"
  /\ stage \in {"failed", "reconcile", "refuse"} => failure # "none"
  /\ stage = "transaction" =>
       /\ receipts[command.id].status = "none"
       /\ PlanOf(command, batch)
       /\ appended <= Len(batch)
  /\ stage = "committed" \/ (stage = "publish" /\ failure = "none") =>
       receipts[command.id] = [status |-> "accepted", sequence |-> Len(log)]
  /\ failure = "invariant" /\ stage # "refuse" => receipts[command.id].status = "none"

\* No sequence anywhere in the process runs ahead of the stored log.
SequenceInv ==
  /\ readModel.snapshotSequence <= Len(log)
  /\ db.sequence <= Len(log)
  /\ startSequence <= Len(log)
  /\ \A k \in 1..Len(published) : published[k] <= Len(log)
  /\ \A k \in 1..Len(outbox) : outbox[k] <= Len(log)
  /\ stage = "transaction" =>
       /\ draft.model.snapshotSequence <= Len(log) + appended
       /\ draft.sql.sequence <= Len(log) + appended
  /\ stage = "committed" => Len(batch) <= Len(log)
  /\ stage \in {"committed", "reconcile"} => draft.model.snapshotSequence <= Len(log)

IInv == TypeOK /\ WorkerInv /\ SequenceInv

LEMMA EngineInit == Init => IInv
<1> SUFFICES ASSUME Init PROVE IInv
  OBVIOUS
<1>1. receipts \in [CommandIds -> Receipt]
  BY DEF Init, Receipt
<1>2. draft \in Draft
  BY EmptyTyped DEF Init, Draft
<1>3. TypeOK
  <2>1. log \in Seq(Event) /\ batch \in Seq(Event) /\ queue \in Seq(Commands)
        /\ published \in Seq(Nat) /\ outbox \in Seq(Nat)
    BY DEF Init
  <2>2. readModel \in ReadModelType /\ db \in SqlType
    BY EmptyTyped DEF Init
  <2> QED BY <1>1, <1>2, <2>1, <2>2 DEF Init, TypeOK, Stage
<1>4. WorkerInv
  BY DEF Init, WorkerInv
<1>5. SequenceInv
  BY EmptyTyped DEF Init, SequenceInv
<1> QED BY <1>3, <1>4, <1>5 DEF IInv

\* The command at the head of the queue, and what is left of the queue.
LEMMA HeadTyped ==
  ASSUME TypeOK, NEW c \in Commands, HeadCommand(c)
  PROVE  /\ Tail(queue) \in Seq(Commands)
         /\ c \in Command /\ c.id \in CommandIds
         /\ stage = "idle"
<1>1. Tail(queue) \in Seq(Commands)
  BY DEF TypeOK, HeadCommand
<1>2. c \in Command
  BY CommandsAreCommands
<1>3. c.id \in CommandIds
  BY <1>2 DEF Command
<1> QED BY <1>1, <1>2, <1>3 DEF HeadCommand

LEMMA SequencesTyped ==
  ASSUME NEW a \in Nat, NEW b \in Nat, a <= b
  PROVE  /\ Sequences(a, b) \in Seq(Nat)
         /\ Len(Sequences(a, b)) = b - a
         /\ \A k \in 1..(b - a) : Sequences(a, b)[k] <= b
<1>1. Sequences(a, b) \in [1..(b - a) -> Nat]
  BY DEF Sequences
<1>2. b - a \in Nat
  OBVIOUS
<1>3. Sequences(a, b) \in Seq(Nat) /\ Len(Sequences(a, b)) = b - a
  BY <1>1, <1>2
<1> QED BY <1>3 DEF Sequences

\* Leaving the worker clean is always typed and bounded.
LEMMA ClearedTyped ==
  ASSUME ClearWorker
  PROVE  /\ command' = None /\ startSequence' = 0 /\ batch' \in Seq(Event)
         /\ appended' \in Nat /\ draft' \in Draft /\ outbox' = <<>> /\ outbox' \in Seq(Nat)
         /\ failure' = "none"
BY EmptyTyped DEF ClearWorker, Draft

-----------------------------------------------------------------------------
(* Every step keeps the invariant: one lemma per part of the worker.       *)

LEMMA ClientAndTakeKeep ==
  ASSUME IInv, NEW c \in Commands,
         \/ Dispatch(c) \/ AnswerFromReceipt(c) \/ RefusePreviouslyRejected(c)
         \/ LookupFails(c) \/ Decide(c) \/ DecideFails(c)
  PROVE  IInv'
<1> USE DEF IInv
<1>1. CASE Dispatch(c)
  <2>1. TypeOK'
    BY <1>1 DEF Dispatch, TypeOK, store, worker
  <2>2. WorkerInv' /\ SequenceInv'
    BY <1>1 DEF Dispatch, WorkerInv, SequenceInv, store, worker
  <2> QED BY <2>1, <2>2
<1>2. CASE AnswerFromReceipt(c)
  <2>1. TypeOK'
    BY <1>2, HeadTyped DEF AnswerFromReceipt, TypeOK, store, worker, bounds, Receipt
  <2>2. WorkerInv' /\ SequenceInv'
    BY <1>2 DEF AnswerFromReceipt, WorkerInv, SequenceInv, store, worker
  <2> QED BY <2>1, <2>2
<1>3. CASE RefusePreviouslyRejected(c)
  <2>1. TypeOK'
    BY <1>3, HeadTyped DEF RefusePreviouslyRejected, TypeOK, store, worker, bounds
  <2>2. WorkerInv' /\ SequenceInv'
    BY <1>3 DEF RefusePreviouslyRejected, WorkerInv, SequenceInv, store, worker
  <2> QED BY <2>1, <2>2
<1>4. CASE LookupFails(c)
  <2>1. TypeOK'
    BY <1>4, HeadTyped DEF LookupFails, TypeOK, store, Stage, ReadModelType
  <2>2. WorkerInv' /\ SequenceInv'
    BY <1>4, HeadTyped DEF LookupFails, WorkerInv, SequenceInv, store
  <2> QED BY <2>1, <2>2
<1>5. CASE Decide(c)
  <2>1. FreshTasks \in SUBSET Tasks
    BY DEF FreshTasks
  <2>2. PlanOf(c, batch')
    BY <1>5, <2>1, HeadTyped, PlansSound DEF Decide, TypeOK
  <2>3. TypeOK'
    BY <1>5, <2>2, HeadTyped
       DEF Decide, TypeOK, store, bounds, Stage, ReadModelType, Draft, PlanOf
  <2>4. WorkerInv'
    BY <1>5, <2>2, <2>3, HeadTyped DEF Decide, WorkerInv, TypeOK, store, HeadCommand
  <2>5. SequenceInv'
    <3>1. /\ draft'.model.snapshotSequence = readModel.snapshotSequence
          /\ draft'.sql.sequence = db.sequence
          /\ appended' = 0 /\ stage' = "transaction"
      BY <1>5 DEF Decide
    <3>2. /\ readModel.snapshotSequence \in Nat /\ db.sequence \in Nat /\ Len(log) \in Nat
      BY DEF TypeOK, ReadModelType, SqlType
    <3> QED BY <1>5, <3>1, <3>2 DEF Decide, SequenceInv, store
  <2> QED BY <2>3, <2>4, <2>5
<1>6. CASE DecideFails(c)
  <2>1. TypeOK'
    BY <1>6, HeadTyped DEF DecideFails, TypeOK, store, bounds, Stage, ReadModelType
  <2>2. WorkerInv' /\ SequenceInv'
    BY <1>6, HeadTyped DEF DecideFails, WorkerInv, SequenceInv, store
  <2> QED BY <2>1, <2>2
<1> QED BY <1>1, <1>2, <1>3, <1>4, <1>5, <1>6

\* What a COMMIT writes: the receipt points at the end of the longer log.
LEMMA StoreTyped ==
  ASSUME IInv, stage = "transaction", appended = Len(batch), Store
  PROVE  /\ log' \in Seq(Event) /\ Len(log') = Len(log) + Len(batch)
         /\ Len(log) \in Nat /\ Len(batch) \in Nat /\ Len(batch) > 0
         /\ \A k \in 1..Len(log) : log'[k] = log[k]
         /\ \A k \in (Len(log) + 1)..Len(log') : log'[k].cmd = command.id
         /\ db' \in SqlType /\ db'.sequence <= Len(log')
         /\ receipts' \in [CommandIds -> Receipt]
         /\ command \in Commands /\ command.id \in CommandIds
         /\ receipts' = [receipts EXCEPT ![command.id] =
                           [status |-> "accepted", sequence |-> Len(log')]]
         /\ receipts'[command.id] = [status |-> "accepted", sequence |-> Len(log')]
<1> USE DEF IInv
<1>1. log \in Seq(Event) /\ batch \in Seq(Event) /\ batch # <<>>
  BY DEF TypeOK, WorkerInv, PlanOf
<1>2. command \in Commands /\ command.id \in CommandIds
  BY CommandsAreCommands DEF WorkerInv, Command
<1>3. log' = log \o batch
  BY DEF Store
<1>4. /\ log' \in Seq(Event) /\ Len(log') = Len(log) + Len(batch)
      /\ Len(log) \in Nat /\ Len(batch) \in Nat /\ Len(batch) > 0
      /\ \A k \in 1..Len(log) : log'[k] = log[k]
      /\ \A k \in (Len(log) + 1)..Len(log') : log'[k] = batch[k - Len(log)]
  BY <1>1, <1>3
<1>5. \A k \in (Len(log) + 1)..Len(log') : log'[k].cmd = command.id
  BY <1>4 DEF WorkerInv, PlanOf
<1>6. db' \in SqlType /\ db'.sequence <= Len(log')
  BY <1>4 DEF Store, TypeOK, Draft, SequenceInv
<1>7. /\ receipts' = [receipts EXCEPT ![command.id] =
                        [status |-> "accepted", sequence |-> Len(log')]]
      /\ receipts' \in [CommandIds -> Receipt]
      /\ receipts'[command.id] = [status |-> "accepted", sequence |-> Len(log')]
  BY <1>2, <1>4 DEF Store, TypeOK, Receipt
<1> QED BY <1>2, <1>4, <1>5, <1>6, <1>7

\* What is bounded by a number is bounded by a greater one.
LEMMA BoundedStill ==
  ASSUME NEW s \in Seq(Nat), NEW a \in Nat, NEW b \in Nat, a <= b,
         \A k \in 1..Len(s) : s[k] <= a
  PROVE  \A k \in 1..Len(s) : s[k] <= b
<1> TAKE k \in 1..Len(s)
<1>1. s[k] \in Nat /\ s[k] <= a
  OBVIOUS
<1> QED BY <1>1

\* The transaction's steps keep the invariant.
LEMMA TransactionKeeps ==
  ASSUME IInv, StoreEvent \/ Commit \/ TransactionFails \/ CommitReportedFailed
  PROVE  IInv'
<1> USE DEF IInv
<1>1. CASE StoreEvent
  <2> DEFINE e == batch[appended + 1]
             n == Len(log) + appended + 1
  <2>1. e \in Event /\ n \in Nat /\ appended + 1 <= Len(batch) /\ appended \in Nat
    BY <1>1 DEF StoreEvent, TypeOK
  <2>2. draft.model \in ReadModelType /\ draft.sql \in SqlType
    BY DEF TypeOK, Draft
  <2>3. draft' = [model |-> ProjectEvent(draft.model, e, n),
                  sql |-> ProjectSql(draft.sql, e, n)]
    BY <1>1 DEF StoreEvent
  <2> HIDE DEF e
  <2>4. /\ draft' \in Draft
        /\ draft'.model.snapshotSequence = n /\ draft'.sql.sequence = n
    BY <2>1, <2>2, <2>3, ProjectionsTyped DEF Draft
  <2>5. TypeOK'
    BY <1>1, <2>1, <2>4 DEF StoreEvent, TypeOK, store, process, bounds
  <2>6. WorkerInv'
    BY <1>1, <2>1 DEF StoreEvent, WorkerInv, store
  <2>7. SequenceInv'
    BY <1>1, <2>1, <2>4 DEF StoreEvent, SequenceInv, store, process, TypeOK
  <2> QED BY <2>5, <2>6, <2>7
<1>2. CASE Commit
  <2>1. stage = "transaction" /\ appended = Len(batch) /\ Store
    BY <1>2 DEF Commit
  <2>2. TypeOK'
    BY <1>2, <2>1, StoreTyped DEF Commit, TypeOK, process, bounds, Stage
  <2>3. WorkerInv'
    BY <1>2, <2>1, StoreTyped DEF Commit, WorkerInv
  <2>4. SequenceInv'
    <3>1. /\ Len(log) \in Nat /\ Len(log') \in Nat /\ Len(log) < Len(log')
          /\ Len(batch) <= Len(log') /\ Len(log') = Len(log) + Len(batch)
          /\ db'.sequence <= Len(log')
      BY <2>1, StoreTyped
    <3>2. /\ readModel' = readModel /\ startSequence' = startSequence
          /\ published' = published /\ outbox' = outbox /\ draft' = draft
          /\ batch' = batch /\ appended = Len(batch) /\ stage' # "transaction"
      BY <1>2 DEF Commit, process
    <3>3. /\ readModel.snapshotSequence \in Nat /\ startSequence \in Nat
          /\ published \in Seq(Nat) /\ outbox \in Seq(Nat)
          /\ draft.model.snapshotSequence \in Nat
      BY DEF TypeOK, ReadModelType, Draft
    <3>4. /\ \A k \in 1..Len(published) : published[k] <= Len(log')
          /\ \A k \in 1..Len(outbox) : outbox[k] <= Len(log')
      <4>1. /\ \A k \in 1..Len(published) : published[k] <= Len(log)
            /\ \A k \in 1..Len(outbox) : outbox[k] <= Len(log)
        BY DEF SequenceInv
      <4> HIDE DEF IInv
      <4>2. Len(log) <= Len(log')
        BY <3>1
      <4>3. \A k \in 1..Len(published) : published[k] <= Len(log')
        BY <3>1, <3>3, <4>1, <4>2, BoundedStill
      <4>4. \A k \in 1..Len(outbox) : outbox[k] <= Len(log')
        BY <3>1, <3>3, <4>1, <4>2, BoundedStill
      <4> QED BY <4>3, <4>4
    <3> QED BY <2>1, <3>1, <3>2, <3>3, <3>4 DEF SequenceInv
  <2> QED BY <2>2, <2>3, <2>4
<1>3. CASE TransactionFails
  <2>1. TypeOK'
    BY <1>3 DEF TransactionFails, TypeOK, store, process, Stage
  <2>2. WorkerInv' /\ SequenceInv'
    BY <1>3 DEF TransactionFails, WorkerInv, SequenceInv, store, process
  <2> QED BY <2>1, <2>2
<1>4. CASE CommitReportedFailed
  <2>1. stage = "transaction" /\ appended = Len(batch) /\ Store
    BY <1>4 DEF CommitReportedFailed
  <2>2. TypeOK'
    BY <1>4, <2>1, StoreTyped DEF CommitReportedFailed, TypeOK, process, Stage
  <2>3. WorkerInv'
    BY <1>4, <2>1, StoreTyped DEF CommitReportedFailed, WorkerInv
  <2>4. SequenceInv'
    <3>1. /\ Len(log) \in Nat /\ Len(log') \in Nat /\ Len(log) < Len(log')
          /\ Len(batch) <= Len(log') /\ Len(log') = Len(log) + Len(batch)
          /\ db'.sequence <= Len(log')
      BY <2>1, StoreTyped
    <3>2. /\ readModel' = readModel /\ startSequence' = startSequence
          /\ published' = published /\ outbox' = outbox /\ draft' = draft
          /\ batch' = batch /\ appended = Len(batch) /\ stage' # "transaction"
      BY <1>4 DEF CommitReportedFailed, process
    <3>3. /\ readModel.snapshotSequence \in Nat /\ startSequence \in Nat
          /\ published \in Seq(Nat) /\ outbox \in Seq(Nat)
          /\ draft.model.snapshotSequence \in Nat
      BY DEF TypeOK, ReadModelType, Draft
    <3>4. /\ \A k \in 1..Len(published) : published[k] <= Len(log')
          /\ \A k \in 1..Len(outbox) : outbox[k] <= Len(log')
      <4>1. /\ \A k \in 1..Len(published) : published[k] <= Len(log)
            /\ \A k \in 1..Len(outbox) : outbox[k] <= Len(log)
        BY DEF SequenceInv
      <4> HIDE DEF IInv
      <4>2. Len(log) <= Len(log')
        BY <3>1
      <4>3. \A k \in 1..Len(published) : published[k] <= Len(log')
        BY <3>1, <3>3, <4>1, <4>2, BoundedStill
      <4>4. \A k \in 1..Len(outbox) : outbox[k] <= Len(log')
        BY <3>1, <3>3, <4>1, <4>2, BoundedStill
      <4> QED BY <4>3, <4>4
    <3> QED BY <2>1, <3>1, <3>2, <3>3, <3>4 DEF SequenceInv
  <2> QED BY <2>2, <2>3, <2>4
<1> QED BY <1>1, <1>2, <1>3, <1>4

LEMMA AnswerKeeps ==
  ASSUME IInv, Install \/ Publish \/ AnswerSuccess
  PROVE  IInv'
<1> USE DEF IInv
<1>0. /\ Len(log) \in Nat /\ Len(batch) \in Nat
      /\ draft.model \in ReadModelType
  BY DEF TypeOK, Draft
<1>1. CASE Install
  <2>1. Len(batch) <= Len(log)
    BY <1>1 DEF Install, SequenceInv
  <2>2. /\ outbox' \in Seq(Nat)
        /\ \A k \in 1..Len(outbox') : outbox'[k] <= Len(log)
    <3> DEFINE first == Len(log) - Len(batch)
    <3>1. first \in Nat /\ first <= Len(log)
      BY <1>0, <2>1
    <3>2. outbox' = Sequences(first, Len(log))
      BY <1>1 DEF Install
    <3> HIDE DEF first
    <3> QED BY <1>0, <3>1, <3>2, SequencesTyped
  <2>3. TypeOK'
    BY <1>0, <1>1, <2>2 DEF Install, TypeOK, store, bounds, Stage
  <2>4. WorkerInv' /\ SequenceInv'
    BY <1>1, <2>2 DEF Install, WorkerInv, SequenceInv, store
  <2> QED BY <2>3, <2>4
<1>2. CASE Publish
  <2>1. /\ Head(outbox) \in Nat /\ Head(outbox) <= Len(log)
        /\ Tail(outbox) \in Seq(Nat) /\ Append(published, Head(outbox)) \in Seq(Nat)
        /\ \A k \in 1..Len(Tail(outbox)) : Tail(outbox)[k] <= Len(log)
        /\ \A k \in 1..Len(Append(published, Head(outbox))) :
             Append(published, Head(outbox))[k] <= Len(log)
    <3>1. outbox \in Seq(Nat) /\ outbox # <<>> /\ published \in Seq(Nat)
      BY <1>2 DEF Publish, TypeOK
    <3>2. /\ \A k \in 1..Len(outbox) : outbox[k] <= Len(log)
          /\ \A k \in 1..Len(published) : published[k] <= Len(log)
      BY DEF SequenceInv
    <3>3. Head(outbox) \in Nat /\ Head(outbox) <= Len(log) /\ Tail(outbox) \in Seq(Nat)
      BY <3>1, <3>2
    <3>4. \A k \in 1..Len(Tail(outbox)) : Tail(outbox)[k] <= Len(log)
      BY <3>1, <3>2
    <3>5. \A k \in 1..Len(Append(published, Head(outbox))) :
            Append(published, Head(outbox))[k] <= Len(log)
      BY <3>1, <3>2, <3>3
    <3> QED BY <3>1, <3>3, <3>4, <3>5
  <2>2. TypeOK'
    BY <1>2, <2>1 DEF Publish, TypeOK, store, bounds
  <2>3. WorkerInv'
    BY <1>2 DEF Publish, WorkerInv, store
  <2>4. SequenceInv'
    BY <1>2, <2>1 DEF Publish, SequenceInv, store
  <2> QED BY <2>2, <2>3, <2>4
<1>3. CASE AnswerSuccess
  <2>1. command \in Commands /\ command.id \in CommandIds
    BY <1>3, CommandsAreCommands DEF AnswerSuccess, WorkerInv, Command
  <2>2. TypeOK'
    <3>1. acks' = acks \cup {<<command.id, Len(log)>>}
      BY <1>3 DEF AnswerSuccess
    <3>2. acks' \in SUBSET (CommandIds \X Nat)
      BY <1>0, <2>1, <3>1 DEF TypeOK
    <3> QED
      BY <1>0, <1>3, <3>2, ClearedTyped
         DEF AnswerSuccess, TypeOK, store, process, bounds, Stage
  <2>3. WorkerInv'
    BY <1>3, ClearedTyped DEF AnswerSuccess, WorkerInv
  <2>4. SequenceInv'
    BY <1>0, <1>3, ClearedTyped DEF AnswerSuccess, SequenceInv, store, process
  <2> QED BY <2>2, <2>3, <2>4
<1> QED BY <1>1, <1>2, <1>3

LEMMA FailureKeeps ==
  ASSUME IInv,
         \/ StartReconcile \/ ReconcileEvent \/ FinishReconcile \/ ReconcileFails
         \/ RejectReceipt \/ RejectReceiptFails \/ AnswerFailure
  PROVE  IInv'
<1> USE DEF IInv
<1>0. /\ log \in Seq(Event) /\ Len(log) \in Nat
      /\ readModel \in ReadModelType /\ readModel.snapshotSequence \in Nat
      /\ draft.model \in ReadModelType /\ draft.model.snapshotSequence \in Nat
      /\ draft.sql \in SqlType /\ draft \in Draft
  BY DEF TypeOK, Draft, ReadModelType
<1>1. CASE StartReconcile
  <2>1. draft' \in Draft /\ draft'.model = readModel
    BY <1>0, <1>1 DEF StartReconcile, Draft
  <2>2. TypeOK'
    BY <1>1, <2>1 DEF StartReconcile, TypeOK, store, process, bounds, Stage
  <2>3. WorkerInv' /\ SequenceInv'
    BY <1>1, <2>1 DEF StartReconcile, WorkerInv, SequenceInv, store, process
  <2> QED BY <2>2, <2>3
<1>2. CASE ReconcileEvent
  <2> DEFINE n == draft.model.snapshotSequence + 1
  <2>1. n \in Nat /\ n <= Len(log) /\ log[n] \in Event
    BY <1>0, <1>2 DEF ReconcileEvent
  <2>2. draft' = [draft EXCEPT !.model = ProjectEvent(draft.model, log[n], n)]
    BY <1>2 DEF ReconcileEvent
  <2> HIDE DEF n
  <2>3. draft' \in Draft /\ draft'.model.snapshotSequence = n
    <3> DEFINE m == ProjectEvent(draft.model, log[n], n)
    <3>1. m \in ReadModelType /\ m.snapshotSequence = n
      BY <1>0, <2>1, ProjectionsTyped
    <3> HIDE DEF m, IInv
    <3> QED BY <1>0, <2>2, <3>1 DEF Draft, m
  <2>4. TypeOK'
    BY <1>2, <2>3 DEF ReconcileEvent, TypeOK, store, process, bounds
  <2>5. WorkerInv'
    BY <1>2 DEF ReconcileEvent, WorkerInv, store
  <2>6. SequenceInv'
    BY <1>2, <2>1, <2>3 DEF ReconcileEvent, SequenceInv, store, process
  <2> QED BY <2>4, <2>5, <2>6
<1>3. CASE FinishReconcile
  <2>1. startSequence \in Nat /\ startSequence <= Len(log)
    BY DEF TypeOK, SequenceInv
  <2>2. /\ outbox' = Sequences(startSequence, Len(log)) /\ outbox' \in Seq(Nat)
        /\ \A k \in 1..Len(outbox') : outbox'[k] <= Len(log)
    BY <1>0, <1>3, <2>1, SequencesTyped DEF FinishReconcile
  <2>3. TypeOK'
    BY <1>0, <1>3, <2>2 DEF FinishReconcile, TypeOK, store, bounds, Stage
  <2>4. WorkerInv' /\ SequenceInv'
    BY <1>3, <2>2 DEF FinishReconcile, WorkerInv, SequenceInv, store
  <2> QED BY <2>3, <2>4
<1>4. CASE ReconcileFails
  <2>1. blind' \in BOOLEAN
    BY <1>4 DEF ReconcileFails, TypeOK
  <2>2. TypeOK'
    BY <1>4, <2>1 DEF ReconcileFails, TypeOK, store, process, Stage
  <2>3. WorkerInv' /\ SequenceInv'
    BY <1>4 DEF ReconcileFails, WorkerInv, SequenceInv, store, process
  <2> QED BY <2>2, <2>3
<1>5. CASE RejectReceipt
  <2>1. receipts' \in [CommandIds -> Receipt]
    BY <1>0, <1>5 DEF RejectReceipt, TypeOK, Receipt
  <2>2. TypeOK'
    BY <1>5, <2>1 DEF RejectReceipt, TypeOK, process, bounds, Stage
  <2>3. WorkerInv' /\ SequenceInv'
    BY <1>5 DEF RejectReceipt, WorkerInv, SequenceInv, process
  <2> QED BY <2>2, <2>3
<1>6. CASE RejectReceiptFails
  <2>1. TypeOK'
    BY <1>6 DEF RejectReceiptFails, TypeOK, store, process, Stage
  <2>2. WorkerInv' /\ SequenceInv'
    BY <1>6 DEF RejectReceiptFails, WorkerInv, SequenceInv, store, process
  <2> QED BY <2>1, <2>2
<1>7. CASE AnswerFailure
  <2>1. TypeOK'
    BY <1>0, <1>7, ClearedTyped DEF AnswerFailure, TypeOK, store, process, bounds, Stage
  <2>2. WorkerInv'
    BY <1>7, ClearedTyped DEF AnswerFailure, WorkerInv
  <2>3. SequenceInv'
    BY <1>0, <1>7, ClearedTyped DEF AnswerFailure, SequenceInv, store, process
  <2> QED BY <2>1, <2>2, <2>3
<1> QED BY <1>1, <1>2, <1>3, <1>4, <1>5, <1>6, <1>7

LEMMA ProcessKeeps ==
  ASSUME IInv, Crash \/ Boot
  PROVE  IInv'
<1> USE DEF IInv
<1>0. Len(log) \in Nat /\ db \in SqlType /\ db.sequence \in Nat
  BY DEF TypeOK, SqlType
<1>1. CASE Crash
  <2>1. TypeOK'
    BY <1>1, ClearedTyped, EmptyTyped DEF Crash, TypeOK, store, Stage
  <2>2. WorkerInv'
    BY <1>1, ClearedTyped DEF Crash, WorkerInv
  <2>3. SequenceInv'
    BY <1>0, <1>1, ClearedTyped, EmptyTyped DEF Crash, SequenceInv, store
  <2> QED BY <2>1, <2>2, <2>3
<1>2. CASE Boot
  <2>1. readModel' \in ReadModelType /\ readModel'.snapshotSequence = db.sequence
    BY <1>0, <1>2, SnapshotTyped DEF Boot
  <2>2. TypeOK'
    BY <1>0, <1>2, <2>1 DEF Boot, TypeOK, store, bounds, Stage
  <2>3. WorkerInv' /\ SequenceInv'
    BY <1>0, <1>2, <2>1 DEF Boot, WorkerInv, SequenceInv, store
  <2> QED BY <2>2, <2>3
<1> QED BY <1>1, <1>2

LEMMA NextKeeps == IInv /\ [Next]_vars => IInv'
<1> SUFFICES ASSUME IInv, [Next]_vars PROVE IInv'
  OBVIOUS
<1>1. CASE \E c \in Commands : Dispatch(c)
  BY <1>1, ClientAndTakeKeep
<1>2. CASE WorkerStep
  BY <1>2, ClientAndTakeKeep, TransactionKeeps, AnswerKeeps, FailureKeeps
     DEF WorkerStep, TakeCommand
<1>3. CASE Fault
  BY <1>3, ClientAndTakeKeep, TransactionKeeps, FailureKeeps DEF Fault
<1>4. CASE Crash \/ Boot
  BY <1>4, ProcessKeeps
<1>5. CASE UNCHANGED vars
  BY <1>5 DEF vars, store, process, worker, bounds, IInv, TypeOK, WorkerInv, SequenceInv
<1> QED BY <1>1, <1>2, <1>3, <1>4, <1>5 DEF Next

LEMMA Invariant == Spec => []IInv
BY EngineInit, NextKeeps, PTL DEF Spec

-----------------------------------------------------------------------------
(* The results.                                                            *)

\* Every variable keeps its type, whatever the commands, faults and crashes.
THEOREM TypeCorrect == Spec => []TypeOK
<1>1. IInv => TypeOK
  BY DEF IInv
<1> QED BY Invariant, <1>1, PTL

\* Neither the read model other fibers consult nor the event bus ever shows
\* something a rollback could still take back.
THEOREM NoDirtyReads == Spec => []NothingUncommittedVisible
<1>1. IInv => NothingUncommittedVisible
  BY DEF IInv, SequenceInv, NothingUncommittedVisible
<1> QED BY Invariant, <1>1, PTL

\* The command log's own invariant, proved in CommandLog_proof, read here.
LOCAL CLP == INSTANCE CommandLog_proof WITH outcome <- receipts

LEMMA EventsOwned ==
  ASSUME NEW e \in Event PROVE e.cmd \in CommandIds
BY DEF Event

\* A step of the engine is a step of the command log, or leaves it alone: COMMIT
\* accepts, the rejected receipt rejects, the two successful answers acknowledge.
LEMMA StepRefines == IInv /\ [Next]_vars => [CL!Next]_(CL!vars)
<1> SUFFICES ASSUME IInv, [Next]_vars PROVE [CL!Next]_(CL!vars)
  OBVIOUS
<1> USE DEF IInv
<1>1. CASE stage = "transaction" /\ appended = Len(batch) /\ Store /\ UNCHANGED acks
  <2>1. command.id \in CommandIds /\ CL!Undecided(command.id)
    BY <1>1, StoreTyped DEF WorkerInv, CL!Undecided
  <2>2. CL!Accept(command.id)
    BY <1>1, <2>1, StoreTyped DEF CL!Accept
  <2> QED BY <2>1, <2>2 DEF CL!Next
<1>2. CASE RejectReceipt
  <2>1. command.id \in CommandIds /\ CL!Undecided(command.id)
    BY <1>2, CommandsAreCommands DEF RejectReceipt, WorkerInv, Command, CL!Undecided
  <2>2. readModel.snapshotSequence \in 0..Len(log)
    BY DEF TypeOK, ReadModelType, SequenceInv
  <2>3. CL!Reject(command.id)
    BY <1>2, <2>1, <2>2 DEF RejectReceipt, CL!Reject
  <2> QED BY <2>1, <2>3 DEF CL!Next
<1>3. CASE \E c \in Commands : AnswerFromReceipt(c)
  <2>1. PICK c \in Commands : AnswerFromReceipt(c)
    BY <1>3
  <2>2. c.id \in CommandIds
    BY CommandsAreCommands DEF Command
  <2>3. CL!Ack(c.id)
    BY <2>1 DEF AnswerFromReceipt, CL!Ack, CL!Accepted, store
  <2> QED BY <2>2, <2>3 DEF CL!Next
<1>4. CASE AnswerSuccess
  <2>1. /\ command.id \in CommandIds
        /\ receipts[command.id] = [status |-> "accepted", sequence |-> Len(log)]
    BY <1>4, CommandsAreCommands DEF AnswerSuccess, WorkerInv, Command
  <2>2. CL!Ack(command.id)
    BY <1>4, <2>1 DEF AnswerSuccess, CL!Ack, CL!Accepted, store
  <2> QED BY <2>1, <2>2 DEF CL!Next
<1>5. CASE UNCHANGED <<log, receipts, acks>>
  BY <1>5 DEF CL!vars
<1>6. CASE \E c \in Commands : Dispatch(c)
  BY <1>5, <1>6 DEF Dispatch, store
<1>7. CASE WorkerStep
  <2>1. CASE TakeCommand
    BY <1>3, <1>5, <2>1
       DEF TakeCommand, RefusePreviouslyRejected, Decide, DecideFails, store
  <2>2. CASE Commit
    BY <1>1, <2>2 DEF Commit
  <2>3. CASE StoreEvent \/ Install \/ Publish
    BY <1>5, <2>3 DEF StoreEvent, Install, Publish, store
  <2>4. CASE StartReconcile \/ ReconcileEvent \/ FinishReconcile \/ AnswerFailure
    BY <1>5, <2>4 DEF StartReconcile, ReconcileEvent, FinishReconcile, AnswerFailure, store
  <2> QED BY <1>2, <1>4, <1>7, <2>1, <2>2, <2>3, <2>4 DEF WorkerStep
<1>8. CASE Fault
  <2>1. CASE CommitReportedFailed
    BY <1>1, <2>1 DEF CommitReportedFailed
  <2>2. CASE \E c \in Commands : LookupFails(c)
    BY <1>5, <2>2 DEF LookupFails, store
  <2>3. CASE TransactionFails \/ ReconcileFails \/ RejectReceiptFails
    BY <1>5, <2>3 DEF TransactionFails, ReconcileFails, RejectReceiptFails, store
  <2> QED BY <1>8, <2>1, <2>2, <2>3 DEF Fault
<1>9. CASE Crash \/ Boot
  BY <1>5, <1>9 DEF Crash, Boot, store
<1>10. CASE UNCHANGED vars
  BY <1>5, <1>10 DEF vars, store
<1> QED BY <1>6, <1>7, <1>8, <1>9, <1>10 DEF Next

\* The engine, with its queue, transaction, failures, retries and crashes,
\* implements the at-most-once command log.
THEOREM Refinement == Spec => ImplementsCommandLog
<1>1. Init => CL!Init
  BY DEF Init, CL!Init
<1> QED
  BY Invariant, StepRefines, <1>1, PTL DEF Spec, CL!Spec, ImplementsCommandLog

\* At most once, for the engine: a stored event has an accepted receipt, an
\* accepted receipt points at its own last event, a command's events are
\* consecutive, and its successful answers agree.
THEOREM EngineAtMostOnce == Spec => []AtMostOnce
<1>1. CL!Init => CLP!IInv
  BY CLP!CommandLogInit DEF CL!Init, CLP!Init
<1>2. CLP!IInv /\ [CL!Next]_(CL!vars) => CLP!IInv'
  BY CLP!CommandLogNext
     DEF CL!Next, CL!vars, CL!Accept, CL!Reject, CL!Ack, CL!Undecided, CL!Accepted,
         CLP!Next, CLP!vars, CLP!Accept, CLP!Reject, CLP!Ack, CLP!Undecided, CLP!Accepted
<1>3. CLP!IInv => AtMostOnce
  BY DEF CLP!IInv, AtMostOnce, CL!AtMostOnce, CLP!AtMostOnce,
         CL!NoOrphanEvents, CL!OutcomePointsAtEffect, CL!OneRunPerCommand, CL!AcksAgree,
         CLP!NoOrphanEvents, CLP!OutcomePointsAtEffect, CLP!OneRunPerCommand,
         CLP!AcksAgree, CL!Accepted, CLP!Accepted
<1> QED
  BY <1>1, <1>2, <1>3, Refinement, PTL DEF ImplementsCommandLog, CL!Spec

-----------------------------------------------------------------------------
(* Memory and bus follow the log.  Projects and threads are projected the  *)
(* same way in memory and in the tables; a read model that lags behind is  *)
(* one from which the stored events lead to the tables.                    *)

Core(x) == [projects |-> x.projects, threads |-> x.threads]

CoreStep(r, e) ==
  [projects |-> IF IsProjectEvent(e)
                  THEN [r.projects EXCEPT ![e.project] = NextProject(@, e)]
                  ELSE r.projects,
   threads |-> IF IsThreadEvent(e)
                 THEN [r.threads EXCEPT ![e.thread] = NextThread(@, e)]
                 ELSE r.threads]

Current(m) == Core(m) = Core(db) /\ m.snapshotSequence = Len(log)

\* f holds projects and threads as they were after each sequence.
Leads(f, m) ==
  /\ f[m.snapshotSequence] = Core(m)
  /\ f[Len(log)] = Core(db)
  /\ \A i \in m.snapshotSequence..(Len(log) - 1) : f[i + 1] = CoreStep(f[i], log[i + 1])
CatchesUp(m) == \E f : Leads(f, m)

\* The same for the events the open transaction has appended so far.
Drafts(f) ==
  /\ f[Len(log)] = Core(db)
  /\ f[Len(log) + appended] = Core(draft.sql)
  /\ \A i \in 0..(appended - 1) :
       f[Len(log) + i + 1] = CoreStep(f[Len(log) + i], batch[i + 1])

MemoryInv ==
  /\ db.sequence = Len(log)
  /\ stage = "transaction" =>
       /\ draft.sql.sequence = Len(log) + appended
       /\ \E f : Drafts(f)
  /\ ~ blind =>
       /\ stage \in {"idle", "transaction", "publish", "refuse"} => Current(readModel)
       /\ stage = "transaction" =>
            /\ Core(draft.model) = Core(draft.sql)
            /\ draft.model.snapshotSequence = Len(log) + appended
            /\ startSequence = Len(log)
       /\ stage = "committed" => Current(draft.model)
       /\ stage = "failed" =>
            startSequence = readModel.snapshotSequence /\ CatchesUp(readModel)
       /\ stage = "reconcile" => CatchesUp(draft.model)

Carried == bootSequence + Len(published)

BusInv ==
  /\ stage = "down" => published = <<>>
  /\ stage # "publish" => outbox = <<>>
  /\ stage # "down" /\ ~ blind =>
       /\ published = Sequences(bootSequence, Carried)
       /\ stage \in {"idle", "transaction", "refuse"} => Carried = Len(log)
       /\ stage = "committed" => Carried = Len(log) - Len(batch)
       /\ stage = "publish" => Carried <= Len(log) /\ outbox = Sequences(Carried, Len(log))
       /\ stage \in {"failed", "reconcile"} => Carried = startSequence

FollowInv == IInv /\ MemoryInv /\ BusInv

\* What an event does to projects and threads does not depend on whether it is
\* projected in memory or in SQL.
LEMMA SameCore ==
  ASSUME NEW m, NEW s, NEW e, NEW n
  PROVE  /\ Core(ProjectEvent(m, e, n)) = CoreStep(Core(m), e)
         /\ Core(ProjectSql(s, e, n)) = CoreStep(Core(s), e)
         /\ ProjectEvent(m, e, n).snapshotSequence = n
         /\ ProjectSql(s, e, n).sequence = n
BY DEF Core, CoreStep, ProjectEvent, ProjectSql

\* A current read model needs no event to catch up.
LEMMA CurrentCatchesUp ==
  ASSUME NEW m, Current(m), Len(log) \in Nat PROVE CatchesUp(m)
<1> DEFINE f == [i \in Nat |-> Core(m)]
<1>1. Leads(f, m)
  BY DEF Leads, Current
<1> QED BY <1>1 DEF CatchesUp

LEMMA CaughtUpIsCurrent ==
  ASSUME NEW m, CatchesUp(m), m.snapshotSequence = Len(log) PROVE Current(m)
BY DEF CatchesUp, Leads, Current

\* The runs of sequences the bus and the outbox hold.
LEMMA SequencesRuns ==
  ASSUME NEW a \in Nat, NEW b \in Nat, a <= b
  PROVE  /\ Len(Sequences(a, b)) = b - a
         /\ Sequences(a, a) = <<>>
         /\ Sequences(a, b) = <<>> => a = b
         /\ Sequences(a, b + 1) = Append(Sequences(a, b), b + 1)
         /\ Sequences(a, b) # <<>> =>
              /\ a < b
              /\ Head(Sequences(a, b)) = a + 1
              /\ Tail(Sequences(a, b)) = Sequences(a + 1, b)
<1> DEFINE s == Sequences(a, b)
<1>1. s \in Seq(Nat) /\ Len(s) = b - a /\ \A i \in 1..(b - a) : s[i] = a + i
  BY SequencesTyped DEF Sequences
<1>2. Sequences(a, a) = <<>>
  <2>1. Sequences(a, a) \in Seq(Nat) /\ Len(Sequences(a, a)) = 0
    BY SequencesTyped
  <2> QED BY <2>1
<1>3. Sequences(a, b + 1) = Append(s, b + 1)
  <2> DEFINE t == Sequences(a, b + 1)
             u == Append(s, b + 1)
  <2>1. t \in Seq(Nat) /\ Len(t) = b + 1 - a /\ \A i \in 1..(b + 1 - a) : t[i] = a + i
    <3>1. b + 1 \in Nat /\ a <= b + 1
      OBVIOUS
    <3> QED BY <3>1, SequencesTyped DEF Sequences
  <2> HIDE DEF s, t
  <2>2. u \in Seq(Nat) /\ Len(u) = b + 1 - a /\ \A i \in 1..(b + 1 - a) : u[i] = a + i
    BY <1>1
  <2> HIDE DEF u
  <2> QED BY SMTT(20), <2>1, <2>2 DEF t, u, s
<1>4. ASSUME s # <<>>
      PROVE  a < b /\ Head(s) = a + 1 /\ Tail(s) = Sequences(a + 1, b)
  <2> HIDE DEF s
  <2>1. a < b /\ Head(s) = a + 1
    BY <1>1, <1>4
  <2> DEFINE t == Tail(s)
             u == Sequences(a + 1, b)
  <2>2. t \in Seq(Nat) /\ Len(t) = b - (a + 1) /\ \A i \in 1..(b - (a + 1)) : t[i] = a + 1 + i
    BY <1>1, <1>4, <2>1
  <2>3. u \in Seq(Nat) /\ Len(u) = b - (a + 1) /\ \A i \in 1..(b - (a + 1)) : u[i] = a + 1 + i
    <3>1. a + 1 \in Nat /\ a + 1 <= b
      BY <2>1
    <3> QED BY <3>1, SequencesTyped DEF Sequences
  <2> HIDE DEF t, u
  <2>4. t = u
    BY <2>2, <2>3
  <2> QED BY <2>1, <2>4 DEF t, u
<1>5. s = <<>> => a = b
  <2> HIDE DEF s
  <2> QED BY <1>1
<1> QED BY <1>1, <1>2, <1>3, <1>4, <1>5

LEMMA FollowInit == Init => MemoryInv /\ BusInv
<1> SUFFICES ASSUME Init PROVE MemoryInv /\ BusInv
  OBVIOUS
<1>1. log = <<>> /\ Len(log) = 0 /\ stage = "idle" /\ outbox = <<>> /\ published = <<>>
      /\ bootSequence = 0 /\ readModel = EmptyReadModel /\ db = EmptySql
  BY DEF Init
<1>2. Current(readModel) /\ db.sequence = Len(log)
  BY <1>1 DEF Current, Core, EmptyReadModel, EmptySql
<1>3. Sequences(0, 0) = <<>>
  BY SequencesRuns
<1> QED BY <1>1, <1>2, <1>3 DEF MemoryInv, BusInv, Carried

\* The numbers the arguments below compute with.
LEMMA FollowTypes ==
  ASSUME IInv
  PROVE  /\ log \in Seq(Event) /\ batch \in Seq(Event)
         /\ Len(log) \in Nat /\ Len(batch) \in Nat /\ appended \in Nat
         /\ startSequence \in Nat /\ startSequence <= Len(log)
         /\ bootSequence \in Nat /\ published \in Seq(Nat) /\ Len(published) \in Nat
         /\ Carried \in Nat
         /\ readModel.snapshotSequence \in Nat
         /\ draft.model.snapshotSequence \in Nat
BY DEF IInv, TypeOK, SequenceInv, Carried, ReadModelType, Draft

LEMMA FollowTake ==
  ASSUME FollowInv, NEW c \in Commands,
         \/ Dispatch(c) \/ AnswerFromReceipt(c) \/ RefusePreviouslyRejected(c)
         \/ LookupFails(c) \/ Decide(c) \/ DecideFails(c)
  PROVE  MemoryInv' /\ BusInv'
<1> USE DEF FollowInv
<1>0. /\ Len(log) \in Nat /\ startSequence \in Nat /\ Carried \in Nat
  BY FollowTypes
<1>1. CASE Dispatch(c) \/ AnswerFromReceipt(c) \/ RefusePreviouslyRejected(c)
  <2>1. UNCHANGED <<log, db, stage, draft, appended, batch, readModel, startSequence,
                    blind, published, bootSequence, outbox>>
    BY <1>1 DEF Dispatch, AnswerFromReceipt, RefusePreviouslyRejected, store, worker
  <2> QED
    BY ZenonT(40), <2>1 DEF MemoryInv, BusInv, Current, CatchesUp, Leads, Drafts, Core, Carried
<1>2. CASE LookupFails(c) \/ DecideFails(c)
  <2>1. /\ stage = "idle" /\ stage' = "failed"
        /\ startSequence' = readModel.snapshotSequence
        /\ UNCHANGED <<log, db, draft, readModel, blind, published, bootSequence, outbox>>
    BY <1>2 DEF LookupFails, DecideFails, HeadCommand, store
  <2>2. ~ blind => Current(readModel) /\ CatchesUp(readModel)
    BY <1>0, <2>1, CurrentCatchesUp DEF MemoryInv
  <2>3. MemoryInv'
    BY <2>1, <2>2 DEF MemoryInv, Current, CatchesUp, Leads, Core
  <2>4. BusInv'
    BY <2>1, <2>2 DEF BusInv, Current, Carried
  <2> QED BY <2>3, <2>4
<1>3. CASE Decide(c)
  <2>1. /\ stage = "idle" /\ stage' = "transaction"
        /\ startSequence' = readModel.snapshotSequence
        /\ appended' = 0
        /\ draft' = [model |-> readModel, sql |-> db]
        /\ UNCHANGED <<log, db, readModel, blind, published, bootSequence, outbox>>
    BY <1>3 DEF Decide, HeadCommand, store
  <2>2. Drafts([i \in Nat |-> Core(db)])'
    BY <1>0, <2>1 DEF Drafts, Core
  <2>3. MemoryInv'
    BY <1>0, <2>1, <2>2 DEF MemoryInv, Current, Core
  <2>4. BusInv'
    BY <2>1 DEF BusInv, Carried
  <2> QED BY <2>3, <2>4
<1> QED BY <1>1, <1>2, <1>3

\* The transaction builds the chain that a commit reported as failed leaves to catch up on.
LEMMA FollowTransaction ==
  ASSUME FollowInv, StoreEvent \/ Commit \/ TransactionFails \/ CommitReportedFailed
  PROVE  MemoryInv' /\ BusInv'
<1> USE DEF FollowInv
<1>0. /\ Len(log) \in Nat /\ startSequence \in Nat /\ Carried \in Nat /\ appended \in Nat
      /\ log \in Seq(Event) /\ batch \in Seq(Event) /\ Len(batch) \in Nat
  BY FollowTypes
<1>1. CASE StoreEvent
  <2> DEFINE e == batch[appended + 1]
             n == Len(log) + appended + 1
  <2>1. /\ stage = "transaction" /\ stage' = "transaction" /\ appended' = appended + 1
        /\ draft' = [model |-> ProjectEvent(draft.model, e, n),
                     sql |-> ProjectSql(draft.sql, e, n)]
        /\ UNCHANGED <<log, db, readModel, batch, startSequence, blind, published,
                       bootSequence, outbox>>
    BY <1>1 DEF StoreEvent, store, process
  <2>2. /\ Core(draft'.model) = CoreStep(Core(draft.model), e)
        /\ Core(draft'.sql) = CoreStep(Core(draft.sql), e)
        /\ draft'.model.snapshotSequence = n /\ draft'.sql.sequence = n
    <3> HIDE DEF e, n
    <3> QED BY <2>1, SameCore
  <2>3. PICK f : Drafts(f)
    BY <2>1 DEF MemoryInv
  <2> DEFINE g == [i \in Nat |-> IF i = n THEN Core(draft'.sql) ELSE f[i]]
  <2>4. /\ g[Len(log)] = Core(db)
        /\ g[Len(log) + appended'] = Core(draft'.sql)
        /\ \A i \in 0..(appended' - 1) :
             g[Len(log) + i + 1] = CoreStep(g[Len(log) + i], batch[i + 1])
    <3>0. n \in Nat /\ n = Len(log) + appended + 1 /\ Len(log) + appended' = n
      BY <1>0, <2>1
    <3>1. \A i \in 0..appended : g[Len(log) + i] = f[Len(log) + i]
      BY <1>0
    <3>2. g[n] = Core(draft'.sql)
      BY <3>0
    <3>3. f[Len(log)] = Core(db) /\ f[Len(log) + appended] = Core(draft.sql)
      BY <2>3 DEF Drafts
    <3>4. g[Len(log)] = Core(db)
      <4>1. g[Len(log) + 0] = f[Len(log) + 0]
        <5> HIDE DEF g
        <5> QED BY <1>0, <3>1
      <4> HIDE DEF g
      <4> QED BY <1>0, <3>3, <4>1
    <3>5. ASSUME NEW i \in 0..appended
          PROVE  g[Len(log) + i + 1] = CoreStep(g[Len(log) + i], batch[i + 1])
      <4>1. CASE i = appended
        <5>1. g[Len(log) + i] = Core(draft.sql)
          <6> HIDE DEF g
          <6> QED BY <1>0, <3>1, <3>3, <4>1
        <5>2. g[Len(log) + i + 1] = Core(draft'.sql)
          <6> HIDE DEF g
          <6> QED BY <3>0, <3>2, <4>1
        <5> HIDE DEF g
        <5> QED BY <2>2, <4>1, <5>1, <5>2
      <4>2. CASE i # appended
        <5>1. i \in 0..(appended - 1) /\ i + 1 \in 0..appended
          BY <1>0, <4>2
        <5>2. f[Len(log) + i + 1] = CoreStep(f[Len(log) + i], batch[i + 1])
          BY <2>3, <5>1 DEF Drafts
        <5>3. g[Len(log) + (i + 1)] = f[Len(log) + (i + 1)] /\ g[Len(log) + i] = f[Len(log) + i]
          <6> HIDE DEF g
          <6> QED BY <3>1, <5>1
        <5>4. Len(log) + (i + 1) = Len(log) + i + 1
          BY <1>0
        <5> HIDE DEF g
        <5> QED BY <5>2, <5>3, <5>4
      <4> QED BY <4>1, <4>2
    <3> HIDE DEF g, n
    <3> QED BY <1>0, <2>1, <3>0, <3>2, <3>4, <3>5
  <2> HIDE DEF g
  <2>5. PICK h : h = g
    OBVIOUS
  <2>6. Drafts(h)'
    BY <2>1, <2>4, <2>5 DEF Drafts, Core
  <2>7. MemoryInv'
    BY <1>0, <2>1, <2>2, <2>6 DEF MemoryInv, Current, Core
  <2>8. BusInv'
    BY <2>1 DEF BusInv, Carried
  <2> QED BY <2>7, <2>8
<1>2. ASSUME stage = "transaction", appended = Len(batch), Store
      PROVE  /\ db'.sequence = Len(log') /\ Len(log') = Len(log) + Len(batch)
             /\ Core(db') = Core(draft.sql)
             /\ CatchesUp(readModel)' \/ blind \/ readModel' # readModel
  <2>1. db' = draft.sql /\ log' = log \o batch /\ Len(log') = Len(log) + Len(batch)
    BY <1>0, <1>2 DEF Store
  <2>2. db'.sequence = Len(log')
    BY <1>2, <2>1 DEF MemoryInv
  <2>3. PICK f : Drafts(f)
    BY <1>2 DEF MemoryInv
  <2>4. ASSUME ~ blind, readModel' = readModel PROVE CatchesUp(readModel)'
    <3>1. Current(readModel)
      BY <1>2, <2>4 DEF MemoryInv
    <3>2. f[readModel'.snapshotSequence] = Core(readModel') /\ f[Len(log')] = Core(db')
      BY <1>2, <2>1, <2>3, <2>4, <3>1 DEF Drafts, Current
    <3>3. ASSUME NEW i \in readModel'.snapshotSequence..(Len(log') - 1)
          PROVE  f[i + 1] = CoreStep(f[i], log'[i + 1])
      <4>1. readModel'.snapshotSequence = Len(log)
        BY <2>4, <3>1 DEF Current
      <4>2. PICK k \in 0..(appended - 1) : i = Len(log) + k
        <5>1. i - Len(log) \in 0..(appended - 1) /\ i = Len(log) + (i - Len(log))
          BY <1>0, <1>2, <2>1, <4>1
        <5> QED BY <5>1
      <4>3. log'[i + 1] = batch[k + 1]
        <5>1. k + 1 \in 1..Len(batch) /\ i + 1 = Len(log) + (k + 1)
          BY <1>0, <1>2, <4>2
        <5> QED BY <1>0, <2>1, <5>1
      <4>4. f[Len(log) + k + 1] = CoreStep(f[Len(log) + k], batch[k + 1])
        BY <2>3, <4>2 DEF Drafts
      <4> QED BY <4>2, <4>3, <4>4
    <3> QED BY <3>2, <3>3 DEF CatchesUp, Leads, Core
  <2> QED BY <2>1, <2>2, <2>4 DEF Core
<1>3. CASE Commit
  <2>1. /\ stage = "transaction" /\ appended = Len(batch) /\ Store /\ stage' = "committed"
        /\ UNCHANGED <<draft, readModel, batch, appended, startSequence, blind, published,
                       bootSequence, outbox>>
    BY <1>3 DEF Commit, process
  <2>2. MemoryInv'
    BY <1>2, <2>1 DEF MemoryInv, Current, Core
  <2>3. BusInv'
    BY <1>0, <1>2, <2>1 DEF BusInv, Carried
  <2> QED BY <2>2, <2>3
<1>4. CASE TransactionFails
  <2>1. /\ stage = "transaction" /\ stage' = "failed"
        /\ UNCHANGED <<log, db, draft, readModel, batch, appended, startSequence, blind,
                       published, bootSequence, outbox>>
    BY <1>4 DEF TransactionFails, store, process
  <2>2. ~ blind => Current(readModel) /\ CatchesUp(readModel)
    BY <1>0, <2>1, CurrentCatchesUp DEF MemoryInv
  <2>3. MemoryInv'
    BY <2>1, <2>2 DEF MemoryInv, Current, CatchesUp, Leads, Core
  <2>4. BusInv'
    BY <2>1 DEF BusInv, MemoryInv, Carried
  <2> QED BY <2>3, <2>4
<1>5. CASE CommitReportedFailed
  <2>1. /\ stage = "transaction" /\ appended = Len(batch) /\ Store /\ stage' = "failed"
        /\ UNCHANGED <<draft, readModel, batch, appended, startSequence, blind, published,
                       bootSequence, outbox>>
    BY <1>5 DEF CommitReportedFailed, process
  <2>2. MemoryInv'
    BY <1>2, <2>1 DEF MemoryInv, Current
  <2>3. BusInv'
    BY <2>1 DEF BusInv, MemoryInv, Carried
  <2> QED BY <2>2, <2>3
<1> QED BY <1>1, <1>3, <1>4, <1>5

LEMMA FollowAnswer ==
  ASSUME FollowInv, Install \/ Publish \/ AnswerSuccess
  PROVE  MemoryInv' /\ BusInv'
<1> USE DEF FollowInv
<1>0. /\ Len(log) \in Nat /\ Carried \in Nat /\ bootSequence \in Nat
      /\ Len(published) \in Nat /\ Len(batch) \in Nat /\ published \in Seq(Nat)
  BY FollowTypes
<1>1. CASE Install
  <2>1. /\ stage = "committed" /\ stage' = "publish" /\ readModel' = draft.model
        /\ outbox' = Sequences(Len(log) - Len(batch), Len(log))
        /\ UNCHANGED <<log, db, blind, published, bootSequence>>
    BY <1>1 DEF Install, store
  <2>2. MemoryInv'
    BY <2>1 DEF MemoryInv, Current, Core
  <2>3. BusInv'
    BY <1>0, <2>1 DEF BusInv, Carried
  <2> QED BY <2>2, <2>3
<1>2. CASE Publish
  <2>1. /\ stage = "publish" /\ stage' = "publish" /\ outbox # <<>>
        /\ published' = Append(published, Head(outbox)) /\ outbox' = Tail(outbox)
        /\ UNCHANGED <<log, db, readModel, blind, bootSequence>>
    BY <1>2 DEF Publish, store
  <2>2. MemoryInv'
    BY <2>1 DEF MemoryInv, Current, Core
  <2>3. ASSUME ~ blind
        PROVE  /\ Carried' = Carried + 1 /\ Carried' <= Len(log)
               /\ published' = Sequences(bootSequence, Carried')
               /\ outbox' = Sequences(Carried', Len(log))
    <3>1. /\ published = Sequences(bootSequence, Carried)
          /\ Carried <= Len(log) /\ outbox = Sequences(Carried, Len(log))
      BY <2>1, <2>3 DEF BusInv
    <3>2. /\ Carried < Len(log) /\ Head(outbox) = Carried + 1
          /\ Tail(outbox) = Sequences(Carried + 1, Len(log))
      BY <1>0, <2>1, <3>1, SequencesRuns
    <3>3. Len(published') = Len(published) + 1
      BY <1>0, <2>1
    <3>4. Carried' = Carried + 1
      BY <1>0, <2>1, <3>3 DEF Carried
    <3>5. bootSequence <= Carried
      BY <1>0 DEF Carried
    <3>6. Sequences(bootSequence, Carried + 1) = Append(published, Carried + 1)
      BY <1>0, <3>1, <3>5, SequencesRuns
    <3> QED BY <1>0, <2>1, <3>2, <3>4, <3>6
  <2>4. BusInv'
    BY <1>0, <2>1, <2>3 DEF BusInv
  <2> QED BY <2>2, <2>4
<1>3. CASE AnswerSuccess
  <2>1. /\ stage = "publish" /\ outbox = <<>> /\ stage' = "idle" /\ outbox' = <<>>
        /\ UNCHANGED <<log, db, readModel, blind, published, bootSequence>>
    BY <1>3 DEF AnswerSuccess, ClearWorker, store, process
  <2>2. MemoryInv'
    BY <2>1 DEF MemoryInv, Current, Core
  <2>3. ~ blind => Carried = Len(log)
    BY <1>0, <2>1, SequencesRuns DEF BusInv
  <2>4. BusInv'
    BY <2>1, <2>3 DEF BusInv, Carried
  <2> QED BY <2>2, <2>4
<1> QED BY <1>1, <1>2, <1>3

LEMMA FollowFailure ==
  ASSUME FollowInv,
         \/ StartReconcile \/ ReconcileEvent \/ FinishReconcile \/ ReconcileFails
         \/ RejectReceipt \/ RejectReceiptFails \/ AnswerFailure
  PROVE  MemoryInv' /\ BusInv'
<1> USE DEF FollowInv
<1>0. /\ Len(log) \in Nat /\ Carried \in Nat /\ startSequence \in Nat
      /\ startSequence <= Len(log) /\ draft.model.snapshotSequence \in Nat
  BY FollowTypes
<1>1. CASE StartReconcile
  <2>1. /\ stage = "failed" /\ stage' = "reconcile"
        /\ draft' = [draft EXCEPT !.model = readModel]
        /\ UNCHANGED <<log, db, readModel, startSequence, blind, published, bootSequence,
                       outbox>>
    BY <1>1 DEF StartReconcile, store, process
  <2>2. draft'.model = readModel
    BY <2>1 DEF IInv, TypeOK, Draft
  <2>3. MemoryInv'
    BY ZenonT(40), <2>1, <2>2 DEF MemoryInv, CatchesUp, Leads, Core
  <2>4. BusInv'
    BY <2>1 DEF BusInv, Carried
  <2> QED BY <2>3, <2>4
<1>2. CASE ReconcileEvent
  <2> DEFINE n == draft.model.snapshotSequence
             m == ProjectEvent(draft.model, log[n + 1], n + 1)
  <2>1. /\ stage = "reconcile" /\ stage' = "reconcile" /\ n < Len(log)
        /\ draft' = [draft EXCEPT !.model = m]
        /\ UNCHANGED <<log, db, readModel, startSequence, blind, published, bootSequence,
                       outbox>>
    BY <1>2 DEF ReconcileEvent, store, process
  <2>2. /\ Core(m) = CoreStep(Core(draft.model), log[n + 1]) /\ m.snapshotSequence = n + 1
    BY SameCore
  <2>3. draft'.model = m
    <3> HIDE DEF m
    <3> QED BY <2>1 DEF IInv, TypeOK, Draft
  <2> HIDE DEF m
  <2>4. ASSUME ~ blind PROVE CatchesUp(draft.model)'
    <3>1. PICK f : Leads(f, draft.model)
      BY <2>1, <2>4 DEF MemoryInv, CatchesUp
    <3>2. f[n + 1] = CoreStep(f[n], log[n + 1]) /\ f[n] = Core(draft.model)
      BY <1>0, <2>1, <3>1 DEF Leads
    <3>3. f[n + 1] = Core(m)
      BY <2>2, <3>2
    <3>4. \A i \in (n + 1)..(Len(log) - 1) : f[i + 1] = CoreStep(f[i], log[i + 1])
      BY <1>0, <3>1 DEF Leads
    <3>5. Leads(f, draft.model)'
      BY <2>1, <2>2, <2>3, <3>1, <3>3, <3>4 DEF Leads, Core
    <3> QED BY <3>5 DEF CatchesUp
  <2>5. MemoryInv'
    BY <2>1, <2>4 DEF MemoryInv
  <2>6. BusInv'
    BY <2>1 DEF BusInv, Carried
  <2> QED BY <2>5, <2>6
<1>3. CASE FinishReconcile
  <2>1. /\ stage = "reconcile" /\ stage' = "publish"
        /\ draft.model.snapshotSequence >= Len(log) /\ readModel' = draft.model
        /\ outbox' = Sequences(startSequence, Len(log))
        /\ UNCHANGED <<log, db, blind, published, bootSequence>>
    BY <1>3 DEF FinishReconcile, store
  <2>2. draft.model.snapshotSequence = Len(log)
    BY <1>0, <2>1 DEF IInv, SequenceInv
  <2>3. ~ blind => Current(draft.model)
    BY <2>1, <2>2, CaughtUpIsCurrent DEF MemoryInv
  <2>4. MemoryInv'
    BY <2>1, <2>3 DEF MemoryInv, Current, Core
  <2>5. BusInv'
    BY <1>0, <2>1 DEF BusInv, Carried
  <2> QED BY <2>4, <2>5
<1>4. CASE ReconcileFails
  <2>1. /\ stage = "failed" /\ stage' = "publish"
        /\ blind' = (blind \/ startSequence < Len(log))
        /\ UNCHANGED <<log, db, readModel, published, bootSequence, outbox>>
    BY <1>4 DEF ReconcileFails, store, process
  <2>2. ASSUME ~ blind' PROVE ~ blind /\ startSequence = Len(log)
    <3>1. ~ blind /\ ~ (startSequence < Len(log))
      BY <2>1, <2>2, Zenon
    <3> QED BY <1>0, <3>1
  <2>3. ~ blind' => Current(readModel)
    BY <2>1, <2>2, CaughtUpIsCurrent DEF MemoryInv
  <2>4. MemoryInv'
    BY <2>1, <2>3 DEF MemoryInv, Current, Core
  <2>5. ~ blind' => outbox = Sequences(Carried, Len(log)) /\ Carried = Len(log)
    BY <1>0, <2>1, <2>2, SequencesRuns DEF BusInv
  <2>6. BusInv'
    BY <1>0, <2>1, <2>2, <2>5 DEF BusInv, Carried
  <2> QED BY <2>4, <2>6
<1>5. CASE RejectReceipt \/ RejectReceiptFails
  <2>1. /\ stage = "publish" /\ stage' = "refuse" /\ outbox = <<>>
        /\ UNCHANGED <<log, db, readModel, blind, published, bootSequence, outbox>>
    BY <1>5 DEF RejectReceipt, RejectReceiptFails, store, process
  <2>2. MemoryInv'
    BY <2>1 DEF MemoryInv, Current, Core
  <2>3. ~ blind => Carried = Len(log)
    BY <1>0, <2>1, SequencesRuns DEF BusInv
  <2>4. BusInv'
    BY <2>1, <2>3 DEF BusInv, Carried
  <2> QED BY <2>2, <2>4
<1>6. CASE AnswerFailure
  <2>1. /\ stage = "refuse" \/ (stage = "publish" /\ outbox = <<>>)
        /\ stage' = "idle" /\ outbox' = <<>>
        /\ UNCHANGED <<log, db, readModel, blind, published, bootSequence>>
    BY <1>6 DEF AnswerFailure, ClearWorker, store, process
  <2>2. MemoryInv'
    BY <2>1 DEF MemoryInv, Current, Core
  <2>3. ~ blind => Carried = Len(log)
    <3>1. CASE stage = "refuse"
      BY <3>1 DEF BusInv
    <3>2. CASE stage = "publish" /\ outbox = <<>>
      BY <1>0, <3>2, SequencesRuns DEF BusInv
    <3> QED BY <2>1, <3>1, <3>2
  <2>4. BusInv'
    BY <2>1, <2>3 DEF BusInv, Carried
  <2> QED BY <2>2, <2>4
<1> QED BY <1>1, <1>2, <1>3, <1>4, <1>5, <1>6

LEMMA FollowProcess ==
  ASSUME FollowInv, Crash \/ Boot
  PROVE  MemoryInv' /\ BusInv'
<1> USE DEF FollowInv
<1>0. Len(log) \in Nat
  BY FollowTypes
<1>1. CASE Crash
  BY <1>1 DEF Crash, ClearWorker, MemoryInv, BusInv, store
<1>2. CASE Boot
  <2>1. /\ stage = "down" /\ stage' = "idle" /\ readModel' = Snapshot(db)
        /\ bootSequence' = Len(log) /\ published' = <<>> /\ outbox' = <<>>
        /\ UNCHANGED <<log, db>>
    BY <1>2 DEF Boot, store, MemoryInv, BusInv
  <2>2. Current(readModel)' /\ db'.sequence = Len(log')
    BY <2>1 DEF MemoryInv, Current, Core, Snapshot
  <2>3. Carried' = Len(log) /\ published' = Sequences(bootSequence', Carried')
    BY <1>0, <2>1, SequencesRuns DEF Carried
  <2> QED BY <2>1, <2>2, <2>3 DEF MemoryInv, BusInv
<1> QED BY <1>1, <1>2

LEMMA FollowNext == FollowInv /\ [Next]_vars => FollowInv'
<1> SUFFICES ASSUME FollowInv, [Next]_vars PROVE MemoryInv' /\ BusInv'
  BY NextKeeps DEF FollowInv
<1>1. CASE \E c \in Commands : Dispatch(c)
  BY <1>1, FollowTake
<1>2. CASE WorkerStep
  BY <1>2, FollowTake, FollowTransaction, FollowAnswer, FollowFailure
     DEF WorkerStep, TakeCommand
<1>3. CASE Fault
  BY <1>3, FollowTake, FollowTransaction, FollowFailure DEF Fault
<1>4. CASE Crash \/ Boot
  BY <1>4, FollowProcess
<1>5. CASE UNCHANGED vars
  <2>1. UNCHANGED <<log, db, stage, draft, appended, batch, readModel, startSequence,
                    blind, published, bootSequence, outbox>>
    BY <1>5 DEF vars, store, process, worker
  <2> QED
    BY ZenonT(40), <2>1 DEF FollowInv, MemoryInv, BusInv, Current, CatchesUp, Leads, Drafts, Core,
                Carried
<1> QED BY <1>1, <1>2, <1>3, <1>4, <1>5 DEF Next

LEMMA Following == Spec => []FollowInv
<1>1. Init => FollowInv
  BY EngineInit, FollowInit DEF FollowInv
<1> QED BY <1>1, FollowNext, PTL DEF Spec

\* The decider never works on a model older or newer than the tables, unless a
\* reconcile was lost: not after a rollback, a commit reported as failed, or a restart.
THEOREM MemoryFollows == Spec => []MemoryFollowsStore
<1>1. FollowInv => MemoryFollowsStore
  BY DEF FollowInv, MemoryInv, MemoryFollowsStore, Current, Core
<1> QED BY Following, <1>1, PTL

\* A subscriber present since boot gets every event of this life, once and in order,
\* also those a reconcile publishes in the place of a failed dispatch.
THEOREM BusFollows == Spec => []BusCarriesEveryEventInOrder
<1>1. FollowInv => BusCarriesEveryEventInOrder
  BY DEF FollowInv, BusInv, BusCarriesEveryEventInOrder, Carried
<1> QED BY Following, <1>1, PTL

-----------------------------------------------------------------------------
(* The stored history is well formed.  The decider looks at rows only, so  *)
(* the invariant says what the rows know of the history they come from.    *)

CreatedAt(l, i, t) == l[i].type = "thread.created" /\ l[i].thread = t
DeletedAt(l, i, t) == l[i].type = "thread.deleted" /\ l[i].thread = t
SwitchedAt(l, i, t) ==
  l[i].type \in {"thread.archived", "thread.unarchived"} /\ l[i].thread = t

\* i is the last switch of t before j.
LastSwitch(l, j, i, t) ==
  SwitchedAt(l, i, t) /\ \A k \in (i + 1)..(j - 1) : ~ SwitchedAt(l, k, t)

WellFormedAt(l, j) ==
  IsThreadEvent(l[j]) =>
    /\ l[j].type = "thread.created" <=> ~ \E i \in 1..(j - 1) : CreatedAt(l, i, l[j].thread)
    /\ l[j].type = "thread.created" =>
         \E i \in 1..(j - 1) : l[i].type = "project.created" /\ l[i].project = l[j].project
    /\ l[j].type = "thread.archived" =>
         \A i \in 1..(j - 1) :
           LastSwitch(l, j, i, l[j].thread) => l[i].type = "thread.unarchived"
    /\ l[j].type = "thread.unarchived" =>
         \E i \in 1..(j - 1) :
           LastSwitch(l, j, i, l[j].thread) /\ l[i].type = "thread.archived"

EmptiedAt(l, j) ==
  l[j].type = "project.deleted" =>
    \A i \in 1..(j - 1) :
      l[i].type = "thread.created" /\ l[i].project = l[j].project =>
        \E k \in i..(j - 1) : DeletedAt(l, k, l[i].thread)

WellFormed(l) == \A j \in 1..Len(l) : WellFormedAt(l, j) /\ EmptiedAt(l, j)

\* What the row of a thread says of its history.
RowTells(l, row, t) ==
  /\ row = None => \A i \in 1..Len(l) : ~ CreatedAt(l, i, t) /\ ~ SwitchedAt(l, i, t)
  /\ row # None => \E i \in 1..Len(l) : CreatedAt(l, i, t)
  /\ row # None => \A i \in 1..Len(l) : CreatedAt(l, i, t) => l[i].project = row.project
  /\ row # None /\ row.deleted =>
       \A i \in 1..Len(l) : CreatedAt(l, i, t) => \E k \in i..Len(l) : DeletedAt(l, k, t)
  /\ row # None /\ row.archived =>
       \E i \in 1..Len(l) : LastSwitch(l, Len(l) + 1, i, t) /\ l[i].type = "thread.archived"
  /\ row # None /\ ~ row.archived =>
       \A i \in 1..Len(l) :
         LastSwitch(l, Len(l) + 1, i, t) => l[i].type = "thread.unarchived"

ProjectTells(l, row, p) ==
  row # "absent" =>
    \E i \in 1..Len(l) : l[i].type = "project.created" /\ l[i].project = p

RowsTell(l, r) ==
  /\ \A t \in Threads : RowTells(l, r.threads[t], t)
  /\ \A p \in Projects : ProjectTells(l, r.projects[p], p)

CoreType == [projects : [Projects -> ProjectRow], threads : [Threads -> ThreadRow]]

\* The rows allow this event as the next one.
Allowed(e, r) ==
  /\ e.type = "thread.created" =>
       r.threads[e.thread] = None /\ r.projects[e.project] # "absent"
  /\ e.type \in {"thread.deleted", "thread.archived", "thread.unarchived",
                 "thread.meta-updated"} => r.threads[e.thread] # None
  /\ e.type = "thread.archived" => ~ r.threads[e.thread].archived
  /\ e.type = "thread.unarchived" => r.threads[e.thread].archived
  /\ e.type = "project.deleted" =>
       \A t \in Threads :
         r.threads[t] # None /\ r.threads[t].project = e.project => r.threads[t].deleted

\* Only the events up to j matter for j.
LEMMA PrefixDecides ==
  ASSUME NEW l, NEW m, NEW j \in Nat, \A i \in 1..j : l[i] = m[i],
         WellFormedAt(l, j), EmptiedAt(l, j), j > 0
  PROVE  WellFormedAt(m, j) /\ EmptiedAt(m, j)
<1>1. \A i \in 1..j : \A t : LastSwitch(l, j, i, t) <=> LastSwitch(m, j, i, t)
  BY DEF LastSwitch, SwitchedAt
<1>2. l[j] = m[j]
  OBVIOUS
<1>3. WellFormedAt(m, j)
  BY <1>1, <1>2 DEF WellFormedAt, CreatedAt
<1>4. EmptiedAt(m, j)
  BY <1>2 DEF EmptiedAt, DeletedAt
<1> QED BY <1>3, <1>4

\* A thread's row, after one more event.
LEMMA RowStillTells ==
  ASSUME NEW l \in Seq(Event), NEW e \in Event, NEW r \in CoreType, RowsTell(l, r),
         Allowed(e, r), NEW t \in Threads
  PROVE  RowTells(Append(l, e), CoreStep(r, e).threads[t], t)
<1> DEFINE m == Append(l, e)
           n == Len(l) + 1
           row == r.threads[t]
           next == CoreStep(r, e).threads[t]
<1>1. /\ Len(l) \in Nat /\ Len(m) = n /\ m[n] = e /\ n \in Nat
      /\ \A i \in 1..Len(l) : m[i] = l[i]
      /\ \A i \in 1..n : i \in 1..Len(l) \/ i = n
      /\ \A i \in 1..Len(l) : i \in 1..n
      /\ n \in 1..n /\ Len(l) + 1 = n
  OBVIOUS
<1>2. RowTells(l, row, t)
  BY DEF RowsTell
<1>3. row \in ThreadRow /\ r.threads \in [Threads -> ThreadRow]
  BY DEF CoreType
<1>4. \A i \in 1..Len(l) :
        /\ CreatedAt(m, i, t) <=> CreatedAt(l, i, t)
        /\ SwitchedAt(m, i, t) <=> SwitchedAt(l, i, t)
        /\ DeletedAt(m, i, t) <=> DeletedAt(l, i, t)
  BY <1>1 DEF CreatedAt, SwitchedAt, DeletedAt
<1>5. \A i \in 1..Len(l) :
        LastSwitch(m, n + 1, i, t) <=> LastSwitch(l, n, i, t) /\ ~ SwitchedAt(m, n, t)
  BY <1>1, <1>4 DEF LastSwitch
<1>6. LastSwitch(m, n + 1, n, t) <=> SwitchedAt(m, n, t)
  BY <1>1 DEF LastSwitch
<1>7. IsThreadEvent(e) =>
        e.type \in {"thread.created", "thread.deleted", "thread.archived",
                    "thread.unarchived", "thread.meta-updated"} /\ e.thread \in Threads
  BY DEF IsThreadEvent, IsProjectEvent, IsTaskEvent, Event
<1>8. next = IF IsThreadEvent(e) /\ e.thread = t THEN NextThread(row, e) ELSE row
  BY <1>3, <1>7 DEF CoreStep
<1> SUFFICES RowTells(m, next, t)
  OBVIOUS
<1> HIDE DEF m, n, next
<1>9. CASE ~ (IsThreadEvent(e) /\ e.thread = t)
  <2>1. ~ CreatedAt(m, n, t) /\ ~ SwitchedAt(m, n, t) /\ ~ DeletedAt(m, n, t)
    BY <1>1, <1>9 DEF CreatedAt, SwitchedAt, DeletedAt, IsThreadEvent, IsProjectEvent,
                      IsTaskEvent
  <2>2. next = row
    BY <1>8, <1>9
  <2>3. \A i \in 1..Len(l) : LastSwitch(m, n + 1, i, t) <=> LastSwitch(l, n, i, t)
    BY <1>5, <2>1
  <2>4. ~ LastSwitch(m, n + 1, n, t)
    BY <1>6, <2>1
  <2> HIDE DEF row
  <2>5. row = None => \A i \in 1..n : ~ CreatedAt(m, i, t) /\ ~ SwitchedAt(m, i, t)
    BY <1>1, <1>2, <1>4, <2>1 DEF RowTells
  <2>6. row # None => \E i \in 1..n : CreatedAt(m, i, t)
    BY <1>1, <1>2, <1>4 DEF RowTells
  <2>7. row # None => \A i \in 1..n : CreatedAt(m, i, t) => m[i].project = row.project
    BY <1>1, <1>2, <1>4, <2>1 DEF RowTells
  <2>8. ASSUME row # None, row.deleted, NEW i \in 1..n, CreatedAt(m, i, t)
        PROVE  \E k \in i..n : DeletedAt(m, k, t)
    <3>1. i \in 1..Len(l) /\ CreatedAt(l, i, t)
      BY <1>1, <1>4, <2>1, <2>8
    <3>2. PICK k \in i..Len(l) : DeletedAt(l, k, t)
      BY <1>2, <2>8, <3>1 DEF RowTells
    <3>3. k \in 1..Len(l) /\ k \in i..n
      BY <1>1, <3>1 DEF n
    <3> QED BY <1>4, <3>2, <3>3
  <2>9. row # None /\ row.archived =>
          \E i \in 1..n : LastSwitch(m, n + 1, i, t) /\ m[i].type = "thread.archived"
    BY <1>1, <1>2, <2>3 DEF RowTells
  <2>10. row # None /\ ~ row.archived =>
           \A i \in 1..n : LastSwitch(m, n + 1, i, t) => m[i].type = "thread.unarchived"
    BY <1>1, <1>2, <2>3, <2>4 DEF RowTells
  <2> QED BY <1>1, <2>2, <2>5, <2>6, <2>7, <2>8, <2>9, <2>10 DEF RowTells
<1>10. CASE IsThreadEvent(e) /\ e.thread = t /\ e.type = "thread.created"
  <2>1. row = None /\ next = [project |-> e.project, archived |-> FALSE, deleted |-> FALSE]
    BY <1>8, <1>10 DEF Allowed, NextThread
  <2>2. next # None
    <3>1. e.project \in Projects
      BY <1>10 DEF Event
    <3>2. next \in [project : Projects, archived : BOOLEAN, deleted : BOOLEAN]
      BY <2>1, <3>1
    <3> QED BY <3>2, NoneIsNoRow
  <2>3. CreatedAt(m, n, t) /\ ~ SwitchedAt(m, n, t)
    BY <1>1, <1>10 DEF CreatedAt, SwitchedAt
  <2>4. \A i \in 1..Len(l) : ~ CreatedAt(m, i, t) /\ ~ SwitchedAt(m, i, t)
    BY <1>2, <1>4, <2>1 DEF RowTells
  <2>5. m[n].project = next.project /\ ~ next.archived /\ ~ next.deleted
    BY <1>1, <2>1
  <2>6. \A i \in 1..n : ~ LastSwitch(m, n + 1, i, t)
    BY <1>1, <2>3, <2>4 DEF LastSwitch
  <2> QED BY <1>1, <2>2, <2>3, <2>4, <2>5, <2>6 DEF RowTells
<1>11. CASE IsThreadEvent(e) /\ e.thread = t /\ e.type # "thread.created"
  <2>1. row # None
    BY <1>7, <1>11 DEF Allowed
  <2>2. /\ next = NextThread(row, e)
        /\ row \in [project : Projects, archived : BOOLEAN, deleted : BOOLEAN]
    BY <1>3, <1>8, <1>11, <2>1 DEF ThreadRow
  <2>3. /\ next \in [project : Projects, archived : BOOLEAN, deleted : BOOLEAN]
        /\ next.project = row.project
        /\ next.deleted = (IF e.type = "thread.deleted" THEN TRUE ELSE row.deleted)
        /\ next.archived = (CASE e.type = "thread.archived" -> TRUE
                              [] e.type = "thread.unarchived" -> FALSE
                              [] OTHER -> row.archived)
    BY <1>7, <1>11, <2>1, <2>2 DEF NextThread
  <2>4. next # None
    BY <2>3, NoneIsNoRow
  <2>5. ~ CreatedAt(m, n, t)
    BY <1>1, <1>11 DEF CreatedAt
  <2>6. \E i \in 1..n : CreatedAt(m, i, t)
    BY <1>1, <1>2, <1>4, <2>1 DEF RowTells
  <2>7. \A i \in 1..n : CreatedAt(m, i, t) => m[i].project = next.project
    BY <1>1, <1>2, <1>4, <2>1, <2>3, <2>5 DEF RowTells
  <2>8. ASSUME next.deleted, NEW i \in 1..n, CreatedAt(m, i, t)
        PROVE  \E k \in i..n : DeletedAt(m, k, t)
    <3>1. i \in 1..Len(l)
      BY <1>1, <2>5, <2>8
    <3>2. CASE e.type = "thread.deleted"
      <4>1. DeletedAt(m, n, t) /\ n \in i..n
        BY <1>1, <1>11, <3>1, <3>2 DEF DeletedAt
      <4> QED BY <4>1
    <3>3. CASE e.type # "thread.deleted"
      <4>1. row.deleted
        BY <2>3, <2>8, <3>3
      <4>2. PICK k \in i..Len(l) : DeletedAt(l, k, t)
        BY <1>2, <1>4, <2>1, <2>8, <3>1, <4>1 DEF RowTells
      <4>3. k \in 1..Len(l) /\ k \in i..n
        BY <1>1, <3>1 DEF n
      <4> QED BY <1>4, <4>2, <4>3
    <3> QED BY <3>2, <3>3
  <2>9. CASE SwitchedAt(m, n, t)
    <3>1. \A i \in 1..n : LastSwitch(m, n + 1, i, t) <=> i = n
      BY <1>1, <1>5, <1>6, <2>9
    <3>2. next.archived <=> m[n].type = "thread.archived"
      BY <1>1, <2>3, <2>9 DEF SwitchedAt
    <3>3. m[n].type \in {"thread.archived", "thread.unarchived"} /\ n \in 1..n
      BY <1>1, <2>9 DEF SwitchedAt, n
    <3> QED BY <1>1, <2>4, <2>6, <2>7, <2>8, <3>1, <3>2, <3>3 DEF RowTells
  <2>10. CASE ~ SwitchedAt(m, n, t)
    <3>1. next.archived = row.archived
      BY <1>1, <1>11, <2>3, <2>10 DEF SwitchedAt
    <3>2. \A i \in 1..Len(l) : LastSwitch(m, n + 1, i, t) <=> LastSwitch(l, n, i, t)
      BY <1>5, <2>10
    <3>3. ~ LastSwitch(m, n + 1, n, t)
      BY <1>6, <2>10
    <3>4. next.archived =>
            \E i \in 1..n : LastSwitch(m, n + 1, i, t) /\ m[i].type = "thread.archived"
      BY <1>1, <1>2, <2>1, <3>1, <3>2 DEF RowTells, n
    <3>5. ~ next.archived =>
            \A i \in 1..n : LastSwitch(m, n + 1, i, t) => m[i].type = "thread.unarchived"
      BY <1>1, <1>2, <2>1, <3>1, <3>2, <3>3 DEF RowTells, n
    <3> QED BY <1>1, <2>4, <2>6, <2>7, <2>8, <3>4, <3>5 DEF RowTells
  <2> QED BY <2>9, <2>10
<1> QED BY <1>9, <1>10, <1>11

\* One more event, allowed by the rows, keeps the history well formed and the rows
\* telling.
LEMMA AppendAllowed ==
  ASSUME NEW l \in Seq(Event), NEW e \in Event, NEW r \in CoreType,
         WellFormed(l), RowsTell(l, r), Allowed(e, r)
  PROVE  /\ WellFormed(Append(l, e)) /\ RowsTell(Append(l, e), CoreStep(r, e))
         /\ CoreStep(r, e) \in CoreType
<1> DEFINE m == Append(l, e)
           n == Len(l) + 1
<1>1. /\ Len(l) \in Nat /\ Len(m) = n /\ m[n] = e /\ n \in Nat /\ n > 0 /\ n - 1 = Len(l)
      /\ \A i \in 1..Len(l) : m[i] = l[i]
      /\ \A i \in 1..n : i \in 1..Len(l) \/ i = n
  OBVIOUS
<1>2. /\ IsThreadEvent(e) =>
           e.type \in {"thread.created", "thread.deleted", "thread.archived",
                       "thread.unarchived", "thread.meta-updated"} /\ e.thread \in Threads
      /\ IsProjectEvent(e) => e.project \in Projects
      /\ e.type = "thread.created" => e.project \in Projects
  BY DEF IsThreadEvent, IsProjectEvent, IsTaskEvent, Event
<1>3. /\ r.projects \in [Projects -> ProjectRow] /\ r.threads \in [Threads -> ThreadRow]
  BY DEF CoreType
<1>4. CoreStep(r, e) \in CoreType
  <2>1. /\ IsProjectEvent(e) => NextProject(r.projects[e.project], e) \in ProjectRow
        /\ IsThreadEvent(e) => NextThread(r.threads[e.thread], e) \in ThreadRow
    BY <1>2, <1>3, NextRowsTyped
  <2> QED BY <1>2, <1>3, <2>1 DEF CoreStep, CoreType
<1> HIDE DEF m, n
<1>5. \A t \in Threads : RowTells(m, CoreStep(r, e).threads[t], t)
  BY RowStillTells DEF m
<1>6. ASSUME NEW p \in Projects PROVE ProjectTells(m, CoreStep(r, e).projects[p], p)
  <2>1. ProjectTells(l, r.projects[p], p)
    BY DEF RowsTell
  <2>2. CASE r.projects[p] # "absent"
    BY <1>1, <2>1, <2>2 DEF ProjectTells
  <2>3. CASE r.projects[p] = "absent" /\ e.type = "project.created" /\ e.project = p
    BY <1>1, <2>3 DEF ProjectTells
  <2>4. CASE r.projects[p] = "absent" /\ ~ (e.type = "project.created" /\ e.project = p)
    <3>1. CoreStep(r, e).projects[p] = "absent"
      BY <1>2, <1>3, <2>4 DEF CoreStep, NextProject, IsProjectEvent
    <3> QED BY <3>1 DEF ProjectTells
  <2> QED BY <2>2, <2>3, <2>4
<1>7. RowsTell(m, CoreStep(r, e))
  BY <1>5, <1>6 DEF RowsTell
<1>8. WellFormedAt(m, n)
  <2> SUFFICES ASSUME IsThreadEvent(e) PROVE WellFormedAt(m, n)
    BY <1>1 DEF WellFormedAt
  <2> DEFINE t == e.thread
  <2>1. t \in Threads /\ RowTells(l, r.threads[t], t) /\ r.threads[t] \in ThreadRow
    BY <1>2, <1>3 DEF RowsTell
  <2> HIDE DEF t
  <2>2. \A i \in 1..Len(l) :
          /\ CreatedAt(m, i, t) <=> CreatedAt(l, i, t)
          /\ LastSwitch(m, n, i, t) <=> LastSwitch(l, n, i, t)
    BY <1>1 DEF CreatedAt, LastSwitch, SwitchedAt
  <2>3. e.type = "thread.created" <=> ~ \E i \in 1..Len(l) : CreatedAt(m, i, t)
    BY <1>2, <2>1, <2>2 DEF RowTells, Allowed, t
  <2>4. e.type = "thread.created" =>
          \E i \in 1..Len(l) : m[i].type = "project.created" /\ m[i].project = e.project
    <3> SUFFICES ASSUME e.type = "thread.created"
                 PROVE  \E i \in 1..Len(l) :
                          m[i].type = "project.created" /\ m[i].project = e.project
      OBVIOUS
    <3>1. ProjectTells(l, r.projects[e.project], e.project)
          /\ r.projects[e.project] # "absent"
      BY <1>2 DEF RowsTell, Allowed
    <3> QED BY <1>1, <3>1 DEF ProjectTells
  <2>5. e.type = "thread.archived" =>
          \A i \in 1..Len(l) : LastSwitch(m, n, i, t) => m[i].type = "thread.unarchived"
    BY <1>1, <1>2, <2>1, <2>2 DEF RowTells, Allowed, t, n
  <2>6. e.type = "thread.unarchived" =>
          \E i \in 1..Len(l) : LastSwitch(m, n, i, t) /\ m[i].type = "thread.archived"
    BY <1>1, <1>2, <2>1, <2>2 DEF RowTells, Allowed, t, n
  <2> QED BY <1>1, <2>3, <2>4, <2>5, <2>6 DEF WellFormedAt, t
<1>9. EmptiedAt(m, n)
  <2> SUFFICES ASSUME e.type = "project.deleted", NEW i \in 1..Len(l),
                      m[i].type = "thread.created", m[i].project = e.project
               PROVE  \E k \in i..Len(l) : DeletedAt(m, k, m[i].thread)
    BY <1>1 DEF EmptiedAt
  <2> DEFINE t == l[i].thread
  <2>1. l[i] = m[i] /\ l[i] \in Event /\ t \in Threads /\ CreatedAt(l, i, t)
    <3>1. l[i] = m[i] /\ l[i] \in Event
      BY <1>1
    <3> QED BY <3>1 DEF Event, CreatedAt
  <2>2. RowTells(l, r.threads[t], t) /\ r.threads[t] # None
    BY <2>1 DEF RowsTell, RowTells
  <2>3. r.threads[t].project = e.project
    BY <2>1, <2>2 DEF RowTells
  <2>4. r.threads[t].deleted
    BY <2>1, <2>2, <2>3 DEF Allowed
  <2>5. PICK k \in i..Len(l) : DeletedAt(l, k, t)
    BY <2>1, <2>2, <2>4 DEF RowTells
  <2> QED BY <1>1, <2>1, <2>5 DEF DeletedAt
<1>10. \A j \in 1..n : WellFormedAt(m, j) /\ EmptiedAt(m, j)
  <2>1. ASSUME NEW j \in 1..Len(l) PROVE WellFormedAt(m, j) /\ EmptiedAt(m, j)
    <3>1. WellFormedAt(l, j) /\ EmptiedAt(l, j)
      BY DEF WellFormed
    <3>2. j \in Nat /\ j > 0 /\ \A i \in 1..j : l[i] = m[i]
      BY <1>1
    <3> QED BY <3>1, <3>2, PrefixDecides
  <2> QED BY <1>1, <1>8, <1>9, <2>1
<1>11. WellFormed(m)
  BY <1>1, <1>10 DEF WellFormed
<1> QED BY <1>4, <1>7, <1>11 DEF m

-----------------------------------------------------------------------------
(* The engine: what is left of a planned batch is allowed by the rows the  *)
(* transaction has reached, and its events so far extend the log.          *)

BatchAllowed(b, k, r) ==
  \A i \in (k + 1)..Len(b) :
    /\ b[i].type = "thread.deleted" => r.threads[b[i].thread] # None
    /\ b[i].type = "project.deleted" =>
         /\ i = Len(b)
         /\ \A t \in Threads :
              /\ r.threads[t] # None /\ r.threads[t].project = b[i].project
              /\ ~ r.threads[t].deleted
              => \E j \in (k + 1)..(Len(b) - 1) : DeletedAt(b, j, t)
    /\ b[i].type \notin {"thread.deleted", "project.deleted"} =>
         Len(b) = 1 /\ Allowed(b[i], r)

Extended(l) ==
  /\ Len(l) = Len(log) + appended
  /\ \A i \in 1..Len(log) : l[i] = log[i]
  /\ \A i \in 1..appended : l[Len(log) + i] = batch[i]

HistoryInv ==
  ~ blind =>
    /\ WellFormed(log) /\ RowsTell(log, Core(db))
    /\ stage = "transaction" =>
         /\ BatchAllowed(batch, appended, Core(draft.sql))
         /\ \E l \in Seq(Event) :
              Extended(l) /\ WellFormed(l) /\ RowsTell(l, Core(draft.sql))

LEMMA OneAllowed ==
  ASSUME NEW e, NEW r, Allowed(e, r) PROVE BatchAllowed(<<e>>, 0, r)
<1> SUFFICES ASSUME NEW i \in 1..1
             PROVE  /\ e.type = "thread.deleted" => r.threads[e.thread] # None
                    /\ e.type = "project.deleted" =>
                         \A t \in Threads :
                           ~ (/\ r.threads[t] # None /\ r.threads[t].project = e.project
                              /\ ~ r.threads[t].deleted)
  BY DEF BatchAllowed
<1> QED BY DEF Allowed

\* Deleting a project plans a deletion for each of its live threads.
LEMMA DeletionAllowed ==
  ASSUME NEW c \in Command, c.type = "project.delete", NEW m \in ReadModelType,
         NEW b \in DeletionBatches(c, m)
  PROVE  BatchAllowed(b, 0, Core(m))
<1> DEFINE active == ActiveThreads(m, c.project)
           n == Cardinality(active)
<1>1. active \subseteq Threads /\ IsFiniteSet(active) /\ n \in Nat
  <2>1. active \subseteq Threads
    BY DEF ActiveThreads
  <2> QED BY <2>1, ThreadsFinite, FS_Subset, FS_CardinalityType
<1>2. PICK order \in [1..n -> active] :
        /\ \A i, j \in 1..n : order[i] = order[j] => i = j
        /\ b = [i \in 1..(n + 1) |->
                  IF i \in 1..n
                    THEN [type |-> "thread.deleted", cmd |-> c.id, thread |-> order[i]]
                    ELSE [type |-> "project.deleted", cmd |-> c.id, project |-> c.project]]
  BY DEF DeletionBatches
<1>3. \A t \in active : \E i \in 1..n : order[i] = t
  <2> HIDE DEF active, n
  <2>1. order \in Injection(1..n, active)
    BY <1>2 DEF Injection, IsInjective
  <2>2. IsFiniteSet(1..n) /\ Cardinality(1..n) = n
    BY <1>1, FS_Interval
  <2>3. Cardinality(1..n) = Cardinality(active)
    BY <2>2 DEF n
  <2>4. order \in Surjection(1..n, active)
    BY <1>1, <2>1, <2>3, FS_Injection
  <2> QED BY <2>4 DEF Surjection
<1>4. \A t \in active : m.threads[t] # None
  BY DEF ActiveThreads
<1>5. \A t \in Threads : m.threads[t] # None /\ m.threads[t].project = c.project
                         /\ ~ m.threads[t].deleted => t \in active
  BY DEF ActiveThreads
<1> HIDE DEF active, n
<1>6. /\ Len(b) = n + 1
      /\ \A i \in 1..n : b[i] = [type |-> "thread.deleted", cmd |-> c.id, thread |-> order[i]]
      /\ b[n + 1] = [type |-> "project.deleted", cmd |-> c.id, project |-> c.project]
  <2>1. b \in Seq(Event)
    BY DeletionPlans DEF PlanOf
  <2> QED BY <1>1, <1>2, <2>1
<1>7. Core(m).threads = m.threads
  BY DEF Core
<1>8. ASSUME NEW i \in 1..(n + 1)
      PROVE  /\ b[i].type = "thread.deleted" => m.threads[b[i].thread] # None
             /\ b[i].type = "project.deleted" =>
                  /\ i = n + 1
                  /\ \A t \in Threads :
                       /\ m.threads[t] # None /\ m.threads[t].project = b[i].project
                       /\ ~ m.threads[t].deleted
                       => \E j \in 1..n : DeletedAt(b, j, t)
             /\ b[i].type \in {"thread.deleted", "project.deleted"}
  <2>1. CASE i \in 1..n
    BY <1>2, <1>4, <1>6, <2>1
  <2>2. CASE i = n + 1
    <3>1. ASSUME NEW t \in active PROVE \E j \in 1..n : DeletedAt(b, j, t)
      <4>1. PICK j \in 1..n : order[j] = t
        BY <1>3
      <4>2. b[j] = [type |-> "thread.deleted", cmd |-> c.id, thread |-> t]
        BY <1>6, <4>1
      <4>3. DeletedAt(b, j, t)
        BY <4>2 DEF DeletedAt
      <4> QED BY <4>3
    <3> QED BY <1>5, <1>6, <2>2, <3>1
  <2> QED BY <1>1, <2>1, <2>2
<1> QED BY <1>1, <1>6, <1>7, <1>8 DEF BatchAllowed

\* Whatever the decider plans, the rows it looked at allow.
LEMMA PlansAllowed ==
  ASSUME NEW c \in Command, NEW m \in ReadModelType, NEW fresh \in SUBSET Tasks,
         NEW b \in Plans(c, m, fresh), Accepts(c, m)
  PROVE  BatchAllowed(b, 0, Core(m))
<1>0. Core(m).threads = m.threads /\ Core(m).projects = m.projects
  BY DEF Core
<1> DEFINE r == Core(m)
<1> HIDE DEF r
<1>1. CASE c.type = "project.create"
  <2> DEFINE e == [type |-> "project.created", cmd |-> c.id, project |-> c.project]
  <2>1. b = <<e>>
    BY <1>1 DEF Plans, ThreadEventType, TaskEventType
  <2>2. Allowed(e, r)
    BY DEF Allowed
  <2> HIDE DEF e
  <2> QED BY <2>1, <2>2, OneAllowed DEF r
<1>2. CASE c.type = "project.delete"
  <2>1. b \in DeletionBatches(c, m)
    BY <1>2 DEF Plans, ThreadEventType, TaskEventType
  <2> QED BY <1>2, <2>1, DeletionAllowed
<1>3. CASE c.type = "thread.create"
  <2> DEFINE e == [type |-> "thread.created", cmd |-> c.id, thread |-> c.thread,
                   project |-> c.project]
  <2>1. b = <<e>>
    BY <1>3 DEF Plans, ThreadEventType, TaskEventType
  <2>2. Allowed(e, r)
    BY <1>0, <1>3 DEF Allowed, Accepts, RequireThread, RequireProject, r
  <2> HIDE DEF e
  <2> QED BY <2>1, <2>2, OneAllowed DEF r
<1>4. CASE c.type \in {"thread.delete", "thread.archive", "thread.unarchive",
                       "thread.meta.update"}
  <2> DEFINE e == [type |-> ThreadEventType[c.type], cmd |-> c.id, thread |-> c.thread]
  <2>1. b = <<e>>
    BY <1>4 DEF Plans, ThreadEventType, TaskEventType
  <2>2. Allowed(e, r)
    BY <1>0, <1>4 DEF Allowed, Accepts, RequireThread, RequireThreadNotArchived,
                      RequireThreadArchived, ThreadEventType, r
  <2> HIDE DEF e
  <2> QED BY <2>1, <2>2, OneAllowed DEF r
<1>5. CASE c.type \in {"task.create", "task.update", "task.delete", "task.archive",
                       "task.unarchive"}
  <2>1. PICK e : b = <<e>> /\ e.type \in {"task.created", "task.updated", "task.deleted",
                                           "task.archived", "task.unarchived"}
    <3>1. CASE c.type = "task.create"
      BY <3>1 DEF Plans, ThreadEventType, TaskEventType
    <3>2. CASE c.type = "task.update"
      BY <3>2 DEF Plans, ThreadEventType, TaskEventType
    <3>3. CASE c.type \in {"task.delete", "task.archive", "task.unarchive"}
      BY <3>3 DEF Plans, ThreadEventType, TaskEventType
    <3> QED BY <1>5, <3>1, <3>2, <3>3
  <2>2. Allowed(e, r)
    BY <2>1 DEF Allowed
  <2> QED BY <2>1, <2>2, OneAllowed DEF r
<1> QED
  BY <1>1, <1>2, <1>3, <1>4, <1>5 DEF Command

\* The next event of a batch is allowed, and so is the rest after it.
LEMMA BatchStep ==
  ASSUME NEW b \in Seq(Event), NEW k \in Nat, k < Len(b), NEW r \in CoreType,
         BatchAllowed(b, k, r)
  PROVE  Allowed(b[k + 1], r) /\ BatchAllowed(b, k + 1, CoreStep(r, b[k + 1]))
<1> DEFINE e == b[k + 1]
           next == CoreStep(r, e)
<1>1. e \in Event /\ k + 1 \in (k + 1)..Len(b) /\ Len(b) \in Nat
  OBVIOUS
<1>2. r.threads \in [Threads -> ThreadRow]
  BY DEF CoreType
<1> HIDE DEF e, next
<1>3. CASE e.type \notin {"thread.deleted", "project.deleted"}
  <2>1. Len(b) = 1 /\ Allowed(e, r)
    BY <1>1, <1>3 DEF BatchAllowed, e
  <2> QED BY <1>1, <2>1 DEF BatchAllowed, e
<1>4. CASE e.type = "project.deleted"
  <2>1. /\ k + 1 = Len(b)
        /\ \A t \in Threads :
             ~ (/\ r.threads[t] # None /\ r.threads[t].project = e.project
                /\ ~ r.threads[t].deleted)
    BY <1>1, <1>4 DEF BatchAllowed, e
  <2>2. Allowed(e, r)
    BY <1>4, <2>1 DEF Allowed
  <2> QED BY <1>1, <2>1, <2>2 DEF BatchAllowed, e
<1>5. CASE e.type = "thread.deleted"
  <2>1. r.threads[e.thread] # None /\ e.thread \in Threads
    BY <1>1, <1>5 DEF BatchAllowed, e, Event
  <2>2. Allowed(e, r)
    BY <1>5, <2>1 DEF Allowed
  <2>3. next.threads = [r.threads EXCEPT ![e.thread] = [@ EXCEPT !.deleted = TRUE]]
    BY <1>2, <1>5, <2>1
       DEF next, CoreStep, NextThread, IsThreadEvent, IsProjectEvent, IsTaskEvent
  <2>4. r.threads[e.thread] \in [project : Projects, archived : BOOLEAN, deleted : BOOLEAN]
    BY <1>2, <2>1 DEF ThreadRow
  <2>5. /\ \A t \in Threads : t # e.thread => next.threads[t] = r.threads[t]
        /\ next.threads[e.thread] \in
             [project : Projects, archived : BOOLEAN, deleted : BOOLEAN]
        /\ next.threads[e.thread].deleted
    BY <1>2, <2>1, <2>3, <2>4
  <2>6. next.threads[e.thread] # None
    BY <2>5, NoneIsNoRow
  <2>7. ASSUME NEW i \in (k + 2)..Len(b)
        PROVE  /\ b[i].type = "thread.deleted" => next.threads[b[i].thread] # None
               /\ b[i].type = "project.deleted" =>
                    /\ i = Len(b)
                    /\ \A t \in Threads :
                         /\ next.threads[t] # None /\ next.threads[t].project = b[i].project
                         /\ ~ next.threads[t].deleted
                         => \E j \in (k + 2)..(Len(b) - 1) : DeletedAt(b, j, t)
               /\ b[i].type \in {"thread.deleted", "project.deleted"}
    <3>1. i \in (k + 1)..Len(b) /\ Len(b) # 1 /\ b[i] \in Event
      BY <1>1
    <3>2. ASSUME b[i].type = "thread.deleted" PROVE next.threads[b[i].thread] # None
      <4>1. b[i].thread \in Threads /\ r.threads[b[i].thread] # None
        BY <3>1, <3>2 DEF BatchAllowed, Event
      <4> QED BY <2>5, <2>6, <4>1
    <3>3. b[i].type \in {"thread.deleted", "project.deleted"}
      BY <3>1 DEF BatchAllowed
    <3>4. ASSUME b[i].type = "project.deleted", NEW t \in Threads,
                 next.threads[t] # None, next.threads[t].project = b[i].project,
                 ~ next.threads[t].deleted
          PROVE  \E j \in (k + 2)..(Len(b) - 1) : DeletedAt(b, j, t)
      <4>1. t # e.thread /\ next.threads[t] = r.threads[t]
        BY <2>5, <3>4
      <4>2. PICK j \in (k + 1)..(Len(b) - 1) : DeletedAt(b, j, t)
        BY <3>1, <3>4, <4>1 DEF BatchAllowed
      <4>3. j # k + 1
        BY <4>1, <4>2 DEF DeletedAt, e
      <4>4. j \in (k + 2)..(Len(b) - 1)
        BY <1>1, <4>3
      <4> QED BY <4>2, <4>4
    <3>5. b[i].type = "project.deleted" => i = Len(b)
      BY <3>1 DEF BatchAllowed
    <3> QED BY <3>2, <3>3, <3>4, <3>5
  <2>8. k + 1 + 1 = k + 2
    OBVIOUS
  <2>9. BatchAllowed(b, k + 1, next)
    BY <2>7, <2>8 DEF BatchAllowed
  <2> QED BY <2>2, <2>9 DEF e, next
<1> QED BY <1>3, <1>4, <1>5

RecordedInv == FollowInv /\ HistoryInv

LEMMA CoreTyped ==
  ASSUME IInv
  PROVE  /\ Core(db) \in CoreType /\ Core(draft.sql) \in CoreType
         /\ log \in Seq(Event) /\ batch \in Seq(Event) /\ Len(log) \in Nat
         /\ Len(batch) \in Nat /\ appended \in Nat
BY DEF IInv, TypeOK, Draft, SqlType, Core, CoreType

LEMMA HistoryInit == Init => HistoryInv
<1> SUFFICES ASSUME Init PROVE HistoryInv
  OBVIOUS
<1>1. log = <<>> /\ Len(log) = 0 /\ stage = "idle" /\ db = EmptySql
  BY DEF Init
<1>2. WellFormed(log)
  BY <1>1 DEF WellFormed
<1>3. RowsTell(log, Core(db))
  BY <1>1 DEF RowsTell, RowTells, ProjectTells, Core, EmptySql
<1> QED BY <1>1, <1>2, <1>3 DEF HistoryInv

LEMMA SameHistory ==
  ASSUME WellFormed(log), RowsTell(log, Core(db)), UNCHANGED <<log, db>>
  PROVE  WellFormed(log)' /\ RowsTell(log, Core(db))'
BY DEF WellFormed, WellFormedAt, EmptiedAt, RowsTell, RowTells, ProjectTells, Core, CreatedAt,
       DeletedAt, SwitchedAt, LastSwitch

\* Steps that store nothing and open or extend no transaction.
LEMMA HistoryUntouched ==
  ASSUME HistoryInv, UNCHANGED <<log, db>>, blind => blind',
         \/ stage' # "transaction"
         \/ stage = "transaction" /\ UNCHANGED <<batch, appended, draft>>
  PROVE  HistoryInv'
<1> SUFFICES ASSUME ~ blind' PROVE /\ WellFormed(log)' /\ RowsTell(log, Core(db))'
                                   /\ (stage' = "transaction" =>
                                        /\ BatchAllowed(batch, appended, Core(draft.sql))'
                                        /\ \E l \in Seq(Event) :
                                             /\ Extended(l)'
                                             /\ WellFormed(l)
                                             /\ RowsTell(l, Core(draft.sql))')
  BY DEF HistoryInv
<1>1. WellFormed(log)' /\ RowsTell(log, Core(db))'
  BY SameHistory DEF HistoryInv
<1>2. CASE stage' = "transaction"
  <2>1. stage = "transaction" /\ UNCHANGED <<batch, appended, draft>> /\ ~ blind
    BY <1>2
  <2>2. BatchAllowed(batch, appended, Core(draft.sql))
        /\ \E l \in Seq(Event) :
             Extended(l) /\ WellFormed(l) /\ RowsTell(l, Core(draft.sql))
    BY <2>1 DEF HistoryInv
  <2>3. BatchAllowed(batch, appended, Core(draft.sql))'
    BY <2>1, <2>2 DEF BatchAllowed, Core
  <2>4. PICK l \in Seq(Event) :
          Extended(l) /\ WellFormed(l) /\ RowsTell(l, Core(draft.sql))
    BY <2>2
  <2>5. Extended(l)' /\ RowsTell(l, Core(draft.sql))'
    BY <2>1, <2>4 DEF Extended, RowsTell, RowTells, ProjectTells, Core
  <2> QED BY <1>1, <2>3, <2>4, <2>5
<1> QED BY <1>1, <1>2

\* A decided batch is allowed by the tables, because the model it was decided on is
\* the one the tables hold.
LEMMA HistoryDecide ==
  ASSUME RecordedInv, NEW c \in Commands, Decide(c)
  PROVE  HistoryInv'
<1>1. /\ stage = "idle" /\ stage' = "transaction" /\ appended' = 0
      /\ Accepts(c, readModel) /\ batch' \in Plans(c, readModel, FreshTasks)
      /\ draft' = [model |-> readModel, sql |-> db]
      /\ UNCHANGED <<log, db, blind>>
  BY DEF Decide, HeadCommand, store
<1> SUFFICES ASSUME ~ blind PROVE HistoryInv'
  BY <1>1 DEF HistoryInv
<1>2. WellFormed(log) /\ RowsTell(log, Core(db)) /\ Core(readModel) = Core(db)
  BY <1>1 DEF RecordedInv, HistoryInv, FollowInv, MemoryInv, Current
<1>3. c \in Command /\ readModel \in ReadModelType /\ FreshTasks \in SUBSET Tasks
      /\ log \in Seq(Event) /\ Len(log) \in Nat
  BY CommandsAreCommands DEF RecordedInv, FollowInv, IInv, TypeOK, FreshTasks
<1>4. BatchAllowed(batch', 0, Core(db))
  BY <1>1, <1>2, <1>3, PlansAllowed
<1>5. Core(draft'.sql) = Core(db)
  BY <1>1 DEF Core
<1>6. Extended(log)'
  BY <1>1, <1>3 DEF Extended
<1>7. WellFormed(log)' /\ RowsTell(log, Core(db))'
  BY <1>1, <1>2, SameHistory
<1>8. BatchAllowed(batch, appended, Core(draft.sql))'
  BY <1>1, <1>4, <1>5 DEF BatchAllowed, Allowed, Core, DeletedAt
<1>9. \E l \in Seq(Event) :
        Extended(l)' /\ WellFormed(l) /\ RowsTell(l, Core(draft.sql))'
  <2>1. Len(log') = Len(log') + appended'
    BY <1>1, <1>3
  <2>2. PICK l \in Seq(Event) : l = log
    BY <1>3
  <2>3. Extended(l)'
    BY <1>1, <1>3, <2>2 DEF Extended
  <2>4. WellFormed(l) /\ RowsTell(l, Core(db))
    BY <1>2, <2>2
  <2>5. RowsTell(l, Core(draft.sql))'
    BY <1>5, <2>4 DEF RowsTell, Core
  <2> QED BY <2>3, <2>4, <2>5
<1> QED BY <1>7, <1>8, <1>9 DEF HistoryInv

\* Each event of the transaction extends the history that is to be stored.
LEMMA HistoryStoreEvent ==
  ASSUME RecordedInv, StoreEvent
  PROVE  HistoryInv'
<1> DEFINE e == batch[appended + 1]
           n == Len(log) + appended + 1
           r == Core(draft.sql)
<1>1. /\ stage = "transaction" /\ stage' = "transaction" /\ appended < Len(batch)
      /\ appended' = appended + 1
      /\ draft' = [model |-> ProjectEvent(draft.model, e, n),
                   sql |-> ProjectSql(draft.sql, e, n)]
      /\ UNCHANGED <<log, db, batch, blind>>
  BY DEF StoreEvent, store
<1> SUFFICES ASSUME ~ blind PROVE HistoryInv'
  BY <1>1 DEF HistoryInv
<1>2. /\ r \in CoreType /\ log \in Seq(Event) /\ batch \in Seq(Event)
      /\ Len(log) \in Nat /\ Len(batch) \in Nat /\ appended \in Nat /\ e \in Event
  BY <1>1, CoreTyped DEF RecordedInv, FollowInv
<1>3. WellFormed(log) /\ RowsTell(log, Core(db)) /\ BatchAllowed(batch, appended, r)
  BY <1>1 DEF RecordedInv, HistoryInv
<1>4. PICK l \in Seq(Event) : Extended(l) /\ WellFormed(l) /\ RowsTell(l, r)
  BY <1>1 DEF RecordedInv, HistoryInv
<1>5. Core(draft'.sql) = CoreStep(r, e)
  <2> HIDE DEF e, n
  <2> QED BY <1>1, SameCore
<1> HIDE DEF r
<1>6. Allowed(e, r) /\ BatchAllowed(batch, appended + 1, CoreStep(r, e))
  BY <1>1, <1>2, <1>3, BatchStep
<1>7. PICK m : m = Append(l, e)
  OBVIOUS
<1>8. m \in Seq(Event) /\ WellFormed(m) /\ RowsTell(m, CoreStep(r, e))
  <2> HIDE DEF e
  <2> QED BY <1>2, <1>4, <1>6, <1>7, AppendAllowed
<1>9. Extended(m)'
  <2>0. /\ Len(l) = Len(log) + appended /\ Len(m) = Len(l) + 1 /\ Len(l) \in Nat
        /\ m[Len(l) + 1] = e /\ \A i \in 1..Len(l) : m[i] = l[i]
    <3> HIDE DEF e
    <3> QED BY <1>2, <1>4, <1>7 DEF Extended
  <2>1. Len(m) = Len(log) + (appended + 1)
    BY <1>2, <2>0
  <2>2. \A i \in 1..Len(log) : m[i] = log[i]
    BY <1>2, <1>4, <2>0 DEF Extended
  <2>3. \A i \in 1..appended : m[Len(log) + i] = batch[i]
    BY <1>2, <1>4, <2>0 DEF Extended
  <2>4. m[Len(log) + (appended + 1)] = batch[appended + 1]
    BY <1>2, <1>4, <2>0 DEF Extended
  <2>5. ASSUME NEW i \in 1..(appended + 1) PROVE m[Len(log) + i] = batch[i]
    <3>1. CASE i \in 1..appended
      BY <2>3, <3>1
    <3>2. CASE i = appended + 1
      BY <2>4, <3>2
    <3> QED BY <1>2, <3>1, <3>2
  <2>6. log' = log /\ batch' = batch /\ appended' = appended + 1
    BY <1>1
  <2> QED BY <2>1, <2>2, <2>5, <2>6 DEF Extended
<1>10. WellFormed(log)' /\ RowsTell(log, Core(db))'
  BY <1>1, <1>3, SameHistory
<1>11. BatchAllowed(batch, appended, Core(draft.sql))'
  <2> DEFINE next == CoreStep(r, e)
  <2>1. BatchAllowed(batch, appended + 1, next)
    BY <1>6
  <2>2. Core(draft'.sql) = next
    BY <1>5
  <2>3. batch' = batch /\ appended' = appended + 1
    BY <1>1
  <2> HIDE DEF next
  <2> QED BY <2>1, <2>2, <2>3 DEF BatchAllowed, Allowed, Core, DeletedAt
<1>12. RowsTell(m, Core(draft.sql))'
  BY <1>5, <1>8 DEF RowsTell, Core
<1> QED BY <1>8, <1>9, <1>10, <1>11, <1>12 DEF HistoryInv

\* COMMIT stores that history, also when it is reported as failed.
LEMMA HistoryStore ==
  ASSUME RecordedInv, stage = "transaction", appended = Len(batch), Store,
         stage' # "transaction", UNCHANGED blind
  PROVE  HistoryInv'
<1> SUFFICES ASSUME ~ blind PROVE WellFormed(log)' /\ RowsTell(log, Core(db))'
  BY DEF HistoryInv
<1>1. /\ log \in Seq(Event) /\ batch \in Seq(Event) /\ Len(log) \in Nat /\ Len(batch) \in Nat
  BY CoreTyped DEF RecordedInv, FollowInv
<1>2. PICK l \in Seq(Event) :
        Extended(l) /\ WellFormed(l) /\ RowsTell(l, Core(draft.sql))
  BY DEF RecordedInv, HistoryInv
<1>3. log' = l
  <2>1. log' = log \o batch
    BY DEF Store
  <2>2. /\ log' \in Seq(Event) /\ Len(log') = Len(log) + Len(batch)
        /\ \A i \in 1..Len(log) : log'[i] = log[i]
        /\ \A i \in 1..Len(batch) : log'[Len(log) + i] = batch[i]
    BY <1>1, <2>1
  <2>3. /\ Len(l) = Len(log')
        /\ \A i \in 1..Len(log) : l[i] = log'[i]
        /\ \A i \in 1..Len(batch) : l[Len(log) + i] = log'[Len(log) + i]
    BY <1>2, <2>2 DEF Extended
  <2>4. ASSUME NEW i \in 1..Len(l) PROVE l[i] = log'[i]
    <3>1. CASE i <= Len(log)
      BY <1>1, <2>3, <3>1
    <3>2. CASE i > Len(log)
      <4>1. i - Len(log) \in 1..Len(batch) /\ Len(log) + (i - Len(log)) = i
        BY <1>1, <2>2, <2>3, <3>2
      <4> QED BY <2>3, <4>1
    <3> QED BY <1>1, <2>2, <2>3, <3>1, <3>2
  <2> QED BY <2>2, <2>3, <2>4
<1>4. Core(db') = Core(draft.sql)
  BY DEF Store, Core
<1>5. WellFormed(log')
  BY <1>2, <1>3
<1>6. RowsTell(log', Core(db'))
  BY <1>2, <1>3, <1>4
<1>7. WellFormed(log)'
  BY <1>5 DEF WellFormed, WellFormedAt, EmptiedAt, CreatedAt, DeletedAt, SwitchedAt, LastSwitch
<1>8. RowsTell(log, Core(db))'
  BY <1>6 DEF RowsTell, RowTells, ProjectTells, Core, CreatedAt, DeletedAt, SwitchedAt,
              LastSwitch
<1> QED BY <1>7, <1>8

LEMMA RecordedNext == RecordedInv /\ [Next]_vars => RecordedInv'
<1> SUFFICES ASSUME RecordedInv, [Next]_vars PROVE HistoryInv'
  BY FollowNext DEF RecordedInv
<1>0. HistoryInv
  BY DEF RecordedInv
<1>1. CASE \E c \in Commands :
             Dispatch(c) \/ AnswerFromReceipt(c) \/ RefusePreviouslyRejected(c)
  BY <1>0, <1>1, HistoryUntouched
     DEF Dispatch, AnswerFromReceipt, RefusePreviouslyRejected, HeadCommand, store, worker
<1>2. CASE \E c \in Commands : LookupFails(c) \/ DecideFails(c)
  BY <1>0, <1>2, HistoryUntouched DEF LookupFails, DecideFails, store
<1>3. CASE \E c \in Commands : Decide(c)
  BY <1>3, HistoryDecide
<1>4. CASE StoreEvent
  BY <1>4, HistoryStoreEvent
<1>5. CASE Commit \/ CommitReportedFailed
  <2>1. /\ stage = "transaction" /\ appended = Len(batch) /\ Store
        /\ stage' # "transaction" /\ UNCHANGED blind
    BY <1>5 DEF Commit, CommitReportedFailed
  <2> QED BY <2>1, HistoryStore
<1>6. CASE TransactionFails \/ Install \/ Publish \/ AnswerSuccess
  <2>1. /\ UNCHANGED <<log, db, blind>> /\ stage' # "transaction"
    BY <1>6 DEF TransactionFails, Install, Publish, AnswerSuccess, store
  <2> QED BY <1>0, <2>1, HistoryUntouched
<1>7. CASE \/ StartReconcile \/ ReconcileEvent \/ FinishReconcile
           \/ RejectReceipt \/ RejectReceiptFails \/ AnswerFailure
  <2>1. UNCHANGED <<log, db, blind>> /\ stage' # "transaction"
    BY <1>7 DEF StartReconcile, ReconcileEvent, FinishReconcile, RejectReceipt,
                RejectReceiptFails, AnswerFailure, store
  <2> QED BY <1>0, <2>1, HistoryUntouched
<1>8. CASE ReconcileFails
  <2>1. /\ UNCHANGED <<log, db>> /\ stage' = "publish"
        /\ blind' = (blind \/ startSequence < Len(log))
    BY <1>8 DEF ReconcileFails, store
  <2>2. blind => blind'
    BY <2>1, Zenon
  <2> QED BY <1>0, <2>1, <2>2, HistoryUntouched
<1>9. CASE Crash \/ Boot
  <2>1. UNCHANGED <<log, db, blind>> /\ stage' # "transaction"
    BY <1>9 DEF Crash, Boot, store
  <2> QED BY <1>0, <2>1, HistoryUntouched
<1>10. CASE UNCHANGED vars
  <2>1. UNCHANGED <<log, db, blind, stage, batch, appended, draft>>
    BY <1>10 DEF vars, store, worker
  <2> QED BY <1>0, <2>1, HistoryUntouched
<1> QED
  BY <1>1, <1>2, <1>3, <1>4, <1>5, <1>6, <1>7, <1>8, <1>9, <1>10
     DEF Next, WorkerStep, TakeCommand, Fault

LEMMA Recording == Spec => []RecordedInv
<1>1. Init => RecordedInv
  BY EngineInit, FollowInit, HistoryInit DEF RecordedInv, FollowInv
<1> QED BY <1>1, RecordedNext, PTL DEF Spec

\* What is stored is a history a user could have produced, although the decider only
\* ever looked at rows in memory: a thread is created once, in a project created
\* before, and its archiving and unarchiving alternate.
THEOREM HistoryIsWellFormed == Spec => []HistoryWellFormed
<1>1. RecordedInv => HistoryWellFormed
  BY DEF RecordedInv, HistoryInv, WellFormed, WellFormedAt, HistoryWellFormed, CreatedAt,
         SwitchedAt, LastSwitch
<1> QED BY Recording, <1>1, PTL

\* A project that is deleted, by force or not, has no live thread at that moment.
THEOREM DeletedAreEmpty == Spec => []DeletedProjectsAreEmpty
<1>1. RecordedInv => DeletedProjectsAreEmpty
  BY DEF RecordedInv, HistoryInv, WellFormed, EmptiedAt, DeletedAt, DeletedProjectsAreEmpty
<1> QED BY Recording, <1>1, PTL

-----------------------------------------------------------------------------
(* What the decider knows of tasks.  Tasks are projected differently in    *)
(* memory and in the tables, and memory starts without any: the invariant  *)
(* relates the two at every sequence since boot.                           *)

EntryStep(x, e) == IF IsTaskEvent(e) THEN [x EXCEPT ![e.task] = NextTaskEntry(@, e)] ELSE x
RowStep(x, e) == IF IsTaskEvent(e) THEN [x EXCEPT ![e.task] = NextTaskRow(@, e)] ELSE x

CreatedSince(l, a, n, k) ==
  \E i \in (a + 1)..n : l[i].type = "task.created" /\ l[i].task = k

\* After n events, those from a on being of this life, memory holds the tasks created
\* in this life as the rows have them, and no other.
Knows(l, a, n, entries, rows) ==
  \A k \in Tasks :
    IF CreatedSince(l, a, n, k) /\ rows[k] # None
      THEN entries[k] = [project |-> rows[k].project, scrapped |-> rows[k].scrapped]
      ELSE entries[k] = None

\* f holds the task rows as they were after each of the sequences from a to b.
RowsFrom(f, l, a, b) ==
  /\ \A i \in a..b : f[i] \in [Tasks -> TaskRow]
  /\ \A i \in a..(b - 1) : f[i + 1] = RowStep(f[i], l[i + 1])

\* The read model m may lag behind the log, and knows what it should where it is.
KnowsSoFar(m) ==
  /\ bootSequence <= m.snapshotSequence
  /\ \E f :
       /\ RowsFrom(f, log, m.snapshotSequence, Len(log))
       /\ f[Len(log)] = db.tasks
       /\ Knows(log, bootSequence, m.snapshotSequence, m.tasks, f[m.snapshotSequence])

KnowsAll(m) == Knows(log, bootSequence, Len(log), m.tasks, db.tasks)

DraftKnows ==
  \E f :
    /\ RowsFrom(f, log \o batch, Len(log), Len(log) + appended)
    /\ f[Len(log)] = db.tasks
    /\ f[Len(log) + appended] = draft.sql.tasks
    /\ Knows(log \o batch, bootSequence, Len(log) + appended, draft.model.tasks,
             draft.sql.tasks)

TaskInv ==
  stage # "down" /\ ~ blind =>
    /\ stage \in {"idle", "transaction", "publish", "refuse"} => KnowsAll(readModel)
    /\ stage = "transaction" => DraftKnows
    /\ stage = "committed" => KnowsAll(draft.model)
    /\ stage = "failed" => KnowsSoFar(readModel)
    /\ stage = "reconcile" => KnowsSoFar(draft.model)

\* Only the events up to n matter.
LEMMA KnowsPrefix ==
  ASSUME NEW l, NEW m, NEW a \in Nat, NEW n \in Nat, \A i \in 1..n : l[i] = m[i],
         NEW x, NEW y, Knows(l, a, n, x, y)
  PROVE  Knows(m, a, n, x, y)
<1>1. \A k : CreatedSince(l, a, n, k) <=> CreatedSince(m, a, n, k)
  BY DEF CreatedSince
<1> QED BY <1>1 DEF Knows

\* One more event, in memory and in the rows.
LEMMA KnowsStep ==
  ASSUME NEW l, NEW a \in Nat, NEW n \in Nat, a <= n, l[n + 1] \in Event,
         NEW x \in [Tasks -> TaskEntry], NEW y \in [Tasks -> TaskRow],
         Knows(l, a, n, x, y)
  PROVE  /\ Knows(l, a, n + 1, EntryStep(x, l[n + 1]), RowStep(y, l[n + 1]))
         /\ RowStep(y, l[n + 1]) \in [Tasks -> TaskRow]
<1> DEFINE e == l[n + 1]
           nx == EntryStep(x, e)
           ny == RowStep(y, e)
<1>1. IsTaskEvent(e) => e.task \in Tasks
  BY DEF IsTaskEvent, Event
<1>2. ny \in [Tasks -> TaskRow]
  BY <1>1, NextRowsTyped DEF RowStep
<1>3. \A k : CreatedSince(l, a, n + 1, k) <=>
               CreatedSince(l, a, n, k) \/ (e.type = "task.created" /\ e.task = k)
  <2>1. \A i \in (a + 1)..(n + 1) : i \in (a + 1)..n \/ i = n + 1
    OBVIOUS
  <2>2. n + 1 \in (a + 1)..(n + 1) /\ \A i \in (a + 1)..n : i \in (a + 1)..(n + 1)
    OBVIOUS
  <2> QED BY <2>1, <2>2 DEF CreatedSince
<1> HIDE DEF e, nx, ny
<1>4. ASSUME NEW k \in Tasks
      PROVE  IF CreatedSince(l, a, n + 1, k) /\ ny[k] # None
               THEN nx[k] = [project |-> ny[k].project, scrapped |-> ny[k].scrapped]
               ELSE nx[k] = None
  <2>1. IF CreatedSince(l, a, n, k) /\ y[k] # None
          THEN x[k] = [project |-> y[k].project, scrapped |-> y[k].scrapped]
          ELSE x[k] = None
    BY DEF Knows
  <2>2. y[k] \in TaskRow
    OBVIOUS
  <2>3. CASE ~ (IsTaskEvent(e) /\ e.task = k)
    <3>1. nx[k] = x[k] /\ ny[k] = y[k]
      BY <2>3 DEF nx, ny, EntryStep, RowStep
    <3>2. CreatedSince(l, a, n + 1, k) <=> CreatedSince(l, a, n, k)
      BY <1>3, <2>3 DEF IsTaskEvent
    <3> QED BY <2>1, <3>1, <3>2
  <2>4. CASE IsTaskEvent(e) /\ e.task = k
    <3>1. nx[k] = NextTaskEntry(x[k], e) /\ ny[k] = NextTaskRow(y[k], e)
      BY <1>1, <2>4 DEF nx, ny, EntryStep, RowStep
    <3>2. CASE e.type = "task.created"
      <4>1. /\ nx[k] = [project |-> e.project, scrapped |-> e.scrapped]
            /\ ny[k] = [project |-> e.project, scrapped |-> e.scrapped, archived |-> FALSE]
        BY <3>1, <3>2 DEF NextTaskEntry, NextTaskRow
      <4>2. CreatedSince(l, a, n + 1, k)
        BY <1>3, <2>4, <3>2
      <4>3. e.project \in Projects /\ e.scrapped \in BOOLEAN
        BY <3>2 DEF e, Event
      <4>4. ny[k] # None
        <5>1. ny[k] \in [project : Projects, scrapped : BOOLEAN, archived : BOOLEAN]
          BY <4>1, <4>3
        <5> QED BY <5>1, NoneIsNoRow
      <4> QED BY <4>1, <4>2, <4>4
    <3>3. CASE e.type = "task.deleted"
      BY <3>1, <3>3 DEF NextTaskEntry, NextTaskRow
    <3>4. CASE e.type \in {"task.updated", "task.archived", "task.unarchived"}
      <4>1. CreatedSince(l, a, n + 1, k) <=> CreatedSince(l, a, n, k)
        BY <1>3, <3>4
      <4>2. CASE y[k] = None
        <5>1. x[k] = None
          BY <2>1, <4>2
        <5>2. nx[k] = None /\ ny[k] = None
          BY <3>1, <3>4, <4>2, <5>1 DEF NextTaskEntry, NextTaskRow
        <5> QED BY <5>2
      <4>3. CASE y[k] # None
        <5>1. y[k] \in [project : Projects, scrapped : BOOLEAN, archived : BOOLEAN]
          BY <2>2, <4>3 DEF TaskRow
        <5>2. /\ ny[k] \in [project : Projects, scrapped : BOOLEAN, archived : BOOLEAN]
              /\ ny[k].project = y[k].project
              /\ ny[k].scrapped = (IF e.type = "task.updated" THEN e.scrapped
                                                              ELSE y[k].scrapped)
          <6>1. e.type = "task.updated" => e.scrapped \in BOOLEAN
            BY DEF e, Event
          <6> QED BY ZenonT(40), <3>1, <3>4, <4>3, <5>1, <6>1 DEF NextTaskRow
        <5>3. ny[k] # None
          BY <5>2, NoneIsNoRow
        <5>4. CASE CreatedSince(l, a, n, k)
          <6>1. x[k] = [project |-> y[k].project, scrapped |-> y[k].scrapped]
            BY <2>1, <4>3, <5>4
          <6>2. x[k] # None
            <7>1. x[k] \in [project : Projects, scrapped : BOOLEAN]
              BY <5>1, <6>1
            <7> QED BY <7>1, NoneIsNoRow
          <6>3. nx[k] = [project |-> ny[k].project, scrapped |-> ny[k].scrapped]
            BY <3>1, <3>4, <5>2, <6>1, <6>2 DEF NextTaskEntry
          <6> QED BY <4>1, <5>3, <5>4, <6>3
        <5>5. CASE ~ CreatedSince(l, a, n, k)
          <6>1. x[k] = None
            BY <2>1, <5>5
          <6>2. nx[k] = None
            BY <3>1, <3>4, <6>1 DEF NextTaskEntry
          <6> QED BY <4>1, <5>5, <6>2
        <5> QED BY <5>4, <5>5
      <4> QED BY <4>2, <4>3
    <3> QED BY <2>4, <3>2, <3>3, <3>4 DEF IsTaskEvent
  <2> QED BY <2>3, <2>4
<1>5. Knows(l, a, n + 1, nx, ny)
  BY <1>4 DEF Knows
<1> QED BY <1>2, <1>5 DEF nx, ny, e

\* The rows after one more event extend the rows so far.
LEMMA RowsFromStep ==
  ASSUME NEW f, NEW l, NEW a \in Nat, NEW b \in Nat, a <= b, RowsFrom(f, l, a, b),
         NEW y \in [Tasks -> TaskRow], y = RowStep(f[b], l[b + 1])
  PROVE  \E g : /\ RowsFrom(g, l, a, b + 1)
                /\ g[b + 1] = y
                /\ \A i \in a..b : g[i] = f[i]
<1> DEFINE g == [i \in Nat |-> IF i = b + 1 THEN y ELSE f[i]]
<1>1. g[b + 1] = y /\ \A i \in a..b : g[i] = f[i]
  OBVIOUS
<1> HIDE DEF g
<1>2. \A i \in a..(b + 1) : g[i] \in [Tasks -> TaskRow]
  <2>1. \A i \in a..(b + 1) : i \in a..b \/ i = b + 1
    OBVIOUS
  <2> QED BY <1>1, <2>1 DEF RowsFrom
<1>3. ASSUME NEW i \in a..b PROVE g[i + 1] = RowStep(g[i], l[i + 1])
  <2>1. CASE i = b
    BY <1>1, <2>1
  <2>2. CASE i # b
    <3>1. i \in a..(b - 1) /\ i + 1 \in a..b
      BY <2>2
    <3> QED BY <1>1, <3>1 DEF RowsFrom
  <2> QED BY <2>1, <2>2
<1>4. b + 1 - 1 = b
  OBVIOUS
<1> QED BY <1>1, <1>2, <1>3, <1>4 DEF RowsFrom

LEMMA SameTasks ==
  ASSUME NEW m, NEW s, NEW e, NEW n
  PROVE  /\ ProjectEvent(m, e, n).tasks = EntryStep(m.tasks, e)
         /\ ProjectSql(s, e, n).tasks = RowStep(s.tasks, e)
BY DEF ProjectEvent, ProjectSql, EntryStep, RowStep

KnownInv == FollowInv /\ TaskInv

LEMMA TaskTypes ==
  ASSUME IInv
  PROVE  /\ log \in Seq(Event) /\ batch \in Seq(Event) /\ log \o batch \in Seq(Event)
         /\ Len(log) \in Nat /\ Len(batch) \in Nat /\ appended \in Nat /\ bootSequence \in Nat
         /\ Len(log \o batch) = Len(log) + Len(batch)
         /\ \A i \in 1..Len(log) : (log \o batch)[i] = log[i]
         /\ db.tasks \in [Tasks -> TaskRow]
         /\ draft.model.tasks \in [Tasks -> TaskEntry]
         /\ draft.model.snapshotSequence \in Nat
<1>1. log \in Seq(Event) /\ batch \in Seq(Event)
  BY DEF IInv, TypeOK
<1>2. /\ log \o batch \in Seq(Event) /\ Len(log \o batch) = Len(log) + Len(batch)
      /\ \A i \in 1..Len(log) : (log \o batch)[i] = log[i]
  BY <1>1
<1> QED BY <1>1, <1>2 DEF IInv, TypeOK, SqlType, Draft, ReadModelType

\* A model that knows all is one that lags behind by nothing.
LEMMA AllIsSoFar ==
  ASSUME IInv, NEW m, KnowsAll(m), m.snapshotSequence = Len(log), bootSequence <= Len(log)
  PROVE  KnowsSoFar(m)
<1>0. Len(log) \in Nat /\ db.tasks \in [Tasks -> TaskRow]
  BY TaskTypes
<1> DEFINE f == [i \in Nat |-> db.tasks]
<1>1. f[Len(log)] = db.tasks /\ RowsFrom(f, log, Len(log), Len(log))
  BY <1>0 DEF RowsFrom
<1> QED BY <1>1 DEF KnowsSoFar, KnowsAll

\* Steps that change nothing the invariant speaks of, but the stage.
LEMMA TaskUntouched ==
  ASSUME TaskInv, UNCHANGED <<log, db, bootSequence, readModel, draft, batch, appended>>,
         blind => blind', stage # "down",
         \/ stage' = stage
         \/ stage' \in {"idle", "publish", "refuse"}
            /\ stage \in {"idle", "transaction", "publish", "refuse"}
         \/ stage' = "down"
  PROVE  TaskInv'
<1> SUFFICES ASSUME stage' # "down", ~ blind'
             PROVE  /\ stage' \in {"idle", "transaction", "publish", "refuse"} =>
                         KnowsAll(readModel)'
                    /\ stage' = "transaction" => DraftKnows'
                    /\ stage' = "committed" => KnowsAll(draft.model)'
                    /\ stage' = "failed" => KnowsSoFar(readModel)'
                    /\ stage' = "reconcile" => KnowsSoFar(draft.model)'
  BY DEF TaskInv
<1>1. /\ KnowsAll(readModel)' <=> KnowsAll(readModel)
      /\ KnowsAll(draft.model)' <=> KnowsAll(draft.model)
  BY DEF KnowsAll, Knows, CreatedSince
<1>2. /\ KnowsSoFar(readModel)' <=> KnowsSoFar(readModel)
      /\ KnowsSoFar(draft.model)' <=> KnowsSoFar(draft.model)
  BY DEF KnowsSoFar, RowsFrom, Knows, CreatedSince
<1>3. DraftKnows' <=> DraftKnows
  BY DEF DraftKnows, RowsFrom, Knows, CreatedSince
<1> QED BY <1>1, <1>2, <1>3 DEF TaskInv

LEMMA TaskBegin ==
  ASSUME KnownInv, NEW c \in Commands, LookupFails(c) \/ DecideFails(c) \/ Decide(c)
  PROVE  TaskInv'
<1>0. IInv /\ stage = "idle"
  BY DEF KnownInv, FollowInv, LookupFails, DecideFails, Decide, HeadCommand
<1>1. UNCHANGED <<log, db, readModel, blind, bootSequence>>
  BY DEF LookupFails, DecideFails, Decide, store
<1> SUFFICES ASSUME ~ blind PROVE TaskInv'
  BY <1>1 DEF TaskInv
<1>2. /\ KnowsAll(readModel) /\ readModel.snapshotSequence = Len(log)
      /\ bootSequence <= Len(log)
  <2>1. Current(readModel) /\ Carried = Len(log) /\ KnowsAll(readModel)
    BY <1>0 DEF KnownInv, FollowInv, MemoryInv, BusInv, TaskInv
  <2> QED BY <1>0, <2>1, FollowTypes DEF Current, Carried
<1>3. KnowsSoFar(readModel)
  BY <1>0, <1>2, AllIsSoFar
<1>4. CASE LookupFails(c) \/ DecideFails(c)
  <2>1. stage' = "failed"
    BY <1>4 DEF LookupFails, DecideFails
  <2>2. KnowsSoFar(readModel)'
    BY <1>1, <1>3 DEF KnowsSoFar, RowsFrom, Knows, CreatedSince
  <2> QED BY <2>1, <2>2 DEF TaskInv
<1>5. CASE Decide(c)
  <2>1. /\ stage' = "transaction" /\ appended' = 0
        /\ draft' = [model |-> readModel, sql |-> db]
    BY <1>5 DEF Decide
  <2>2. IInv'
    BY <1>5, ClientAndTakeKeep DEF KnownInv, FollowInv
  <2>3. /\ Len(log) \in Nat /\ db.tasks \in [Tasks -> TaskRow] /\ bootSequence \in Nat
        /\ \A i \in 1..Len(log) : log[i] = (log \o batch')[i]
    <3>1. /\ Len(log) \in Nat /\ db.tasks \in [Tasks -> TaskRow] /\ bootSequence \in Nat
          /\ log \in Seq(Event)
      BY <1>0, TaskTypes
    <3>2. batch' \in Seq(Event)
      BY <2>2 DEF IInv, TypeOK
    <3> QED BY <3>1, <3>2
  <2>4. KnowsAll(readModel)'
    BY <1>1, <1>2 DEF KnowsAll, Knows, CreatedSince
  <2>5. Knows(log \o batch', bootSequence, Len(log), readModel.tasks, db.tasks)
    BY <1>2, <2>3, KnowsPrefix DEF KnowsAll
  <2>6. PICK f : f = [i \in Nat |-> db.tasks]
    OBVIOUS
  <2>7. /\ RowsFrom(f, log \o batch', Len(log), Len(log))
        /\ f[Len(log)] = db.tasks
    BY <2>3, <2>6 DEF RowsFrom
  <2>8. Len(log) + 0 = Len(log) /\ draft'.sql = db /\ draft'.model = readModel
    BY <2>1, <2>3
  <2>9. DraftKnows'
    BY <1>1, <2>1, <2>5, <2>7, <2>8 DEF DraftKnows
  <2> QED BY <2>1, <2>4, <2>9 DEF TaskInv
<1> QED BY <1>4, <1>5

LEMMA TaskStoreEvent ==
  ASSUME KnownInv, StoreEvent
  PROVE  TaskInv'
<1> DEFINE e == batch[appended + 1]
           l == log \o batch
           n == Len(log) + appended
<1>1. /\ stage = "transaction" /\ stage' = "transaction" /\ appended < Len(batch)
      /\ appended' = appended + 1
      /\ draft' = [model |-> ProjectEvent(draft.model, e, Len(log) + appended + 1),
                   sql |-> ProjectSql(draft.sql, e, Len(log) + appended + 1)]
      /\ UNCHANGED <<log, db, batch, blind, readModel, bootSequence>>
  BY DEF StoreEvent, store, process
<1> SUFFICES ASSUME ~ blind PROVE TaskInv'
  BY <1>1 DEF TaskInv
<1>2. /\ log \in Seq(Event) /\ batch \in Seq(Event) /\ Len(log) \in Nat
      /\ Len(batch) \in Nat /\ appended \in Nat /\ bootSequence \in Nat
      /\ draft.model.tasks \in [Tasks -> TaskEntry]
  BY TaskTypes DEF KnownInv, FollowInv
<1>3. KnowsAll(readModel) /\ DraftKnows /\ bootSequence <= Len(log)
  <2>1. Carried = Len(log)
    BY <1>1 DEF KnownInv, FollowInv, BusInv
  <2>2. bootSequence <= Len(log)
    BY <2>1, FollowTypes DEF Carried, KnownInv, FollowInv
  <2> QED BY <1>1, <2>2 DEF KnownInv, TaskInv
<1>4. PICK f : /\ RowsFrom(f, l, Len(log), n)
               /\ f[Len(log)] = db.tasks /\ f[n] = draft.sql.tasks
               /\ Knows(l, bootSequence, n, draft.model.tasks, draft.sql.tasks)
  BY <1>3 DEF DraftKnows
<1>5. l[n + 1] = e /\ e \in Event /\ n \in Nat /\ Len(log) <= n /\ bootSequence <= n
  <2>1. appended + 1 \in 1..Len(batch) /\ n + 1 = Len(log) + (appended + 1)
    BY <1>1, <1>2
  <2> QED BY <1>2, <1>3, <2>1
<1>6. draft'.model.tasks = EntryStep(draft.model.tasks, e)
      /\ draft'.sql.tasks = RowStep(draft.sql.tasks, e)
  <2> HIDE DEF e, n, l
  <2> QED BY <1>1, SameTasks
<1> HIDE DEF e, l, n
<1>7. draft.sql.tasks \in [Tasks -> TaskRow]
  BY <1>2, <1>4, <1>5 DEF RowsFrom
<1>8. /\ Knows(l, bootSequence, n + 1, draft'.model.tasks, draft'.sql.tasks)
      /\ draft'.sql.tasks \in [Tasks -> TaskRow]
  <2>1. /\ Knows(l, bootSequence, n + 1, EntryStep(draft.model.tasks, l[n + 1]),
                 RowStep(draft.sql.tasks, l[n + 1]))
        /\ RowStep(draft.sql.tasks, l[n + 1]) \in [Tasks -> TaskRow]
    <3>1. /\ bootSequence \in Nat /\ n \in Nat /\ bootSequence <= n /\ l[n + 1] \in Event
          /\ draft.model.tasks \in [Tasks -> TaskEntry]
          /\ Knows(l, bootSequence, n, draft.model.tasks, draft.sql.tasks)
      BY <1>2, <1>4, <1>5
    <3> QED BY <3>1, <1>7, KnowsStep
  <2>2. /\ draft'.model.tasks = EntryStep(draft.model.tasks, l[n + 1])
        /\ draft'.sql.tasks = RowStep(draft.sql.tasks, l[n + 1])
    BY <1>5, <1>6
  <2> QED BY <2>1, <2>2
<1>9. PICK g : /\ RowsFrom(g, l, Len(log), n + 1)
               /\ g[n + 1] = draft'.sql.tasks
               /\ \A i \in Len(log)..n : g[i] = f[i]
  <2>1. /\ Len(log) \in Nat /\ n \in Nat /\ Len(log) <= n
        /\ RowsFrom(f, l, Len(log), n)
    BY <1>2, <1>4, <1>5
  <2>2. draft'.sql.tasks = RowStep(f[n], l[n + 1])
    BY <1>4, <1>5, <1>6
  <2>3. PICK y : y = draft'.sql.tasks
    OBVIOUS
  <2>4. y \in [Tasks -> TaskRow] /\ y = RowStep(f[n], l[n + 1])
    BY <1>8, <2>2, <2>3
  <2>5. \E g : /\ RowsFrom(g, l, Len(log), n + 1)
                /\ g[n + 1] = y
                /\ \A i \in Len(log)..n : g[i] = f[i]
    BY <2>1, <2>4, RowsFromStep
  <2> QED BY <2>3, <2>5
<1>10. g[Len(log)] = db.tasks
  BY <1>2, <1>4, <1>5, <1>9
<1>11. Len(log) + appended' = n + 1
  BY <1>1, <1>2 DEF n
<1>12. DraftKnows'
  BY <1>1, <1>8, <1>9, <1>10, <1>11 DEF DraftKnows, l
<1>13. KnowsAll(readModel)'
  BY <1>1, <1>3 DEF KnowsAll, Knows, CreatedSince
<1> QED BY <1>1, <1>12, <1>13 DEF TaskInv

\* What a COMMIT stores is what the draft knew; memory lags behind it by the batch.
LEMMA TaskStore ==
  ASSUME KnownInv, Commit \/ CommitReportedFailed
  PROVE  TaskInv'
<1>1. /\ stage = "transaction" /\ appended = Len(batch) /\ Store
      /\ UNCHANGED <<readModel, draft, blind, bootSequence>>
  BY DEF Commit, CommitReportedFailed, process
<1> SUFFICES ASSUME ~ blind PROVE TaskInv'
  BY <1>1 DEF TaskInv
<1>2. /\ log \in Seq(Event) /\ batch \in Seq(Event) /\ Len(log) \in Nat
      /\ Len(batch) \in Nat /\ bootSequence \in Nat /\ Len(log') = Len(log) + Len(batch)
      /\ log' = log \o batch /\ db' = draft.sql
      /\ \A i \in 1..Len(log) : log[i] = log'[i]
  <2>1. log' = log \o batch /\ db' = draft.sql
    BY <1>1 DEF Store
  <2> QED BY <2>1, TaskTypes DEF KnownInv, FollowInv
<1>3. /\ KnowsAll(readModel) /\ DraftKnows /\ readModel.snapshotSequence = Len(log)
      /\ bootSequence <= Len(log)
  <2>1. Carried = Len(log) /\ Current(readModel)
    BY <1>1 DEF KnownInv, FollowInv, BusInv, MemoryInv
  <2>2. bootSequence <= Len(log)
    BY <2>1, FollowTypes DEF Carried, KnownInv, FollowInv
  <2> QED BY <1>1, <2>1, <2>2 DEF KnownInv, TaskInv, Current
<1>4. PICK f : /\ RowsFrom(f, log', Len(log), Len(log'))
               /\ f[Len(log)] = db.tasks /\ f[Len(log')] = db'.tasks
               /\ Knows(log', bootSequence, Len(log'), draft.model.tasks, db'.tasks)
  BY <1>1, <1>2, <1>3 DEF DraftKnows
<1>5. KnowsAll(draft.model)'
  BY <1>1, <1>4 DEF KnowsAll
<1>6. Knows(log', bootSequence, Len(log), readModel.tasks, db.tasks)
  BY <1>2, <1>3, KnowsPrefix DEF KnowsAll
<1>7. KnowsSoFar(readModel)'
  BY <1>1, <1>3, <1>4, <1>6 DEF KnowsSoFar
<1> QED BY <1>5, <1>7 DEF TaskInv, Commit, CommitReportedFailed

LEMMA TaskFailure ==
  ASSUME KnownInv,
         TransactionFails \/ Install \/ StartReconcile \/ ReconcileEvent \/ FinishReconcile
         \/ ReconcileFails
  PROVE  TaskInv'
<1>0. IInv /\ Len(log) \in Nat /\ bootSequence \in Nat /\ log \in Seq(Event)
      /\ startSequence \in Nat /\ startSequence <= Len(log)
      /\ draft.model.snapshotSequence \in Nat /\ readModel.snapshotSequence \in Nat
      /\ draft.model.tasks \in [Tasks -> TaskEntry]
  BY TaskTypes, FollowTypes DEF KnownInv, FollowInv
<1>1. CASE TransactionFails
  <2>1. /\ stage = "transaction" /\ stage' = "failed"
        /\ UNCHANGED <<log, db, readModel, blind, bootSequence>>
    BY <1>1 DEF TransactionFails, store, process
  <2>2. ASSUME ~ blind PROVE KnowsSoFar(readModel)
    <3>1. Carried = Len(log) /\ Current(readModel) /\ KnowsAll(readModel)
      BY <2>1, <2>2 DEF KnownInv, FollowInv, BusInv, MemoryInv, TaskInv
    <3>2. bootSequence <= Len(log) /\ readModel.snapshotSequence = Len(log)
      BY <1>0, <3>1, FollowTypes DEF Carried, Current
    <3> QED BY <1>0, <3>1, <3>2, AllIsSoFar
  <2>3. ~ blind => KnowsSoFar(readModel)'
    BY <2>1, <2>2 DEF KnowsSoFar, RowsFrom, Knows, CreatedSince
  <2> QED BY <2>1, <2>3 DEF TaskInv
<1>2. CASE Install
  <2>1. /\ stage = "committed" /\ stage' = "publish" /\ readModel' = draft.model
        /\ UNCHANGED <<log, db, blind, bootSequence>>
    BY <1>2 DEF Install, store
  <2>2. ~ blind => KnowsAll(draft.model)
    BY <2>1 DEF KnownInv, TaskInv
  <2>3. ~ blind => KnowsAll(readModel)'
    BY <2>1, <2>2 DEF KnowsAll, Knows, CreatedSince
  <2> QED BY <2>1, <2>3 DEF TaskInv
<1>3. CASE StartReconcile
  <2>1. /\ stage = "failed" /\ stage' = "reconcile"
        /\ draft' = [draft EXCEPT !.model = readModel]
        /\ UNCHANGED <<log, db, blind, bootSequence>>
    BY <1>3 DEF StartReconcile, store, process
  <2>2. draft'.model = readModel
    BY <1>0, <2>1 DEF IInv, TypeOK, Draft
  <2>3. ~ blind => KnowsSoFar(readModel)
    BY <2>1 DEF KnownInv, TaskInv
  <2>4. ~ blind => KnowsSoFar(draft.model)'
    BY SMTT(20), <2>1, <2>2, <2>3 DEF KnowsSoFar, RowsFrom, Knows, CreatedSince
  <2> QED BY <2>1, <2>4 DEF TaskInv
<1>4. CASE ReconcileEvent
  <2> DEFINE n == draft.model.snapshotSequence
             m == ProjectEvent(draft.model, log[n + 1], n + 1)
  <2>1. /\ stage = "reconcile" /\ stage' = "reconcile" /\ n < Len(log)
        /\ draft' = [draft EXCEPT !.model = m]
        /\ UNCHANGED <<log, db, blind, bootSequence>>
    BY <1>4 DEF ReconcileEvent, store, process
  <2>2. m.snapshotSequence = n + 1 /\ m.tasks = EntryStep(draft.model.tasks, log[n + 1])
    BY SameTasks, SameCore
  <2>3. draft'.model = m
    <3> HIDE DEF m
    <3> QED BY <1>0, <2>1 DEF IInv, TypeOK, Draft
  <2> HIDE DEF m
  <2>4. ASSUME ~ blind PROVE KnowsSoFar(draft.model)'
    <3>1. /\ bootSequence <= n
          /\ \E f : /\ RowsFrom(f, log, n, Len(log)) /\ f[Len(log)] = db.tasks
                    /\ Knows(log, bootSequence, n, draft.model.tasks, f[n])
      BY <2>1, <2>4 DEF KnownInv, TaskInv, KnowsSoFar
    <3>2. PICK f : /\ RowsFrom(f, log, n, Len(log)) /\ f[Len(log)] = db.tasks
                   /\ Knows(log, bootSequence, n, draft.model.tasks, f[n])
      BY <3>1
    <3> HIDE DEF n
    <3>3. n \in Nat /\ log[n + 1] \in Event /\ bootSequence <= n + 1
      BY <1>0, <2>1, <3>1 DEF n
    <3>4. /\ f[n] \in [Tasks -> TaskRow] /\ f[n + 1] = RowStep(f[n], log[n + 1])
      BY <1>0, <2>1, <3>2, <3>3 DEF RowsFrom
    <3>5. Knows(log, bootSequence, n + 1, m.tasks, f[n + 1])
      BY SMTT(20), <1>0, <2>2, <3>1, <3>2, <3>3, <3>4, KnowsStep
    <3>6. RowsFrom(f, log, n + 1, Len(log))
      BY SMTT(20), <1>0, <3>2, <3>3 DEF RowsFrom
    <3> QED BY <2>1, <2>2, <2>3, <3>2, <3>3, <3>5, <3>6 DEF KnowsSoFar
  <2> QED BY <2>1, <2>4 DEF TaskInv
<1>5. CASE FinishReconcile
  <2>1. /\ stage = "reconcile" /\ stage' = "publish"
        /\ draft.model.snapshotSequence >= Len(log) /\ readModel' = draft.model
        /\ UNCHANGED <<log, db, blind, bootSequence>>
    BY <1>5 DEF FinishReconcile, store
  <2>2. draft.model.snapshotSequence = Len(log)
    BY <1>0, <2>1 DEF IInv, SequenceInv
  <2>3. ~ blind => KnowsAll(draft.model)
    BY <2>1, <2>2 DEF KnownInv, TaskInv, KnowsSoFar, KnowsAll
  <2>4. ~ blind => KnowsAll(readModel)'
    BY <2>1, <2>3 DEF KnowsAll, Knows, CreatedSince
  <2> QED BY <2>1, <2>4 DEF TaskInv
<1>6. CASE ReconcileFails
  <2>1. /\ stage = "failed" /\ stage' = "publish"
        /\ blind' = (blind \/ startSequence < Len(log))
        /\ UNCHANGED <<log, db, readModel, bootSequence>>
    BY <1>6 DEF ReconcileFails, store, process
  <2>2. ASSUME ~ blind' PROVE KnowsAll(readModel)
    <3>1. ~ blind /\ ~ (startSequence < Len(log))
      BY <2>1, <2>2, Zenon
    <3>2. readModel.snapshotSequence = Len(log)
      BY <1>0, <2>1, <3>1 DEF KnownInv, FollowInv, MemoryInv
    <3> QED BY <2>1, <3>1, <3>2 DEF KnownInv, TaskInv, KnowsSoFar, KnowsAll
  <2>3. ~ blind' => KnowsAll(readModel)'
    BY <2>1, <2>2 DEF KnowsAll, Knows, CreatedSince
  <2> QED BY <2>1, <2>3 DEF TaskInv
<1> QED BY <1>1, <1>2, <1>3, <1>4, <1>5, <1>6

LEMMA KnownNext == KnownInv /\ [Next]_vars => KnownInv'
<1> SUFFICES ASSUME KnownInv, [Next]_vars PROVE TaskInv'
  BY FollowNext DEF KnownInv
<1>0. TaskInv /\ IInv
  BY DEF KnownInv, FollowInv
<1>1. CASE \E c \in Commands :
             Dispatch(c) \/ AnswerFromReceipt(c) \/ RefusePreviouslyRejected(c)
  <2>1. /\ UNCHANGED <<log, db, bootSequence, readModel, draft, batch, appended, blind, stage>>
        /\ stage # "down"
    BY <1>1 DEF Dispatch, AnswerFromReceipt, RefusePreviouslyRejected, HeadCommand, store,
                worker
  <2> QED BY <1>0, <2>1, TaskUntouched
<1>2. CASE \E c \in Commands : LookupFails(c) \/ DecideFails(c) \/ Decide(c)
  BY <1>2, TaskBegin
<1>3. CASE StoreEvent
  BY <1>3, TaskStoreEvent
<1>4. CASE Commit \/ CommitReportedFailed
  BY <1>4, TaskStore
<1>5. CASE \/ TransactionFails \/ Install \/ StartReconcile \/ ReconcileEvent
           \/ FinishReconcile \/ ReconcileFails
  BY <1>5, TaskFailure
<1>6. CASE Publish \/ RejectReceipt \/ RejectReceiptFails
  <2>1. /\ UNCHANGED <<log, db, bootSequence, readModel, draft, batch, appended, blind>>
        /\ stage = "publish" /\ stage' \in {"publish", "refuse"}
    BY <1>6 DEF Publish, RejectReceipt, RejectReceiptFails, store, process
  <2> QED BY <1>0, <2>1, TaskUntouched
<1>7. CASE AnswerSuccess \/ AnswerFailure
  <2>1. /\ UNCHANGED <<log, db, bootSequence, readModel, blind>>
        /\ stage \in {"publish", "refuse"} /\ stage' = "idle"
    BY <1>7 DEF AnswerSuccess, AnswerFailure, store, process
  <2>2. ~ blind => KnowsAll(readModel)'
    BY <1>0, <2>1 DEF TaskInv, KnowsAll, Knows, CreatedSince
  <2> QED BY <2>1, <2>2 DEF TaskInv
<1>8. CASE Crash
  BY <1>8 DEF Crash, TaskInv
<1>9. CASE Boot
  <2>1. /\ stage' = "idle" /\ readModel' = Snapshot(db) /\ bootSequence' = Len(log)
        /\ UNCHANGED <<log, db>>
    BY <1>9 DEF Boot, store, KnownInv, FollowInv, MemoryInv
  <2>2. \A k : ~ CreatedSince(log, Len(log), Len(log), k)
    BY <1>0, TaskTypes DEF CreatedSince
  <2>3. readModel'.tasks = [k \in Tasks |-> None]
    BY <2>1 DEF Snapshot
  <2>4. KnowsAll(readModel)'
    BY <2>1, <2>2, <2>3 DEF KnowsAll, Knows
  <2> QED BY <2>1, <2>4 DEF TaskInv
<1>10. CASE UNCHANGED vars
  <2>1. UNCHANGED <<log, db, bootSequence, readModel, draft, batch, appended, blind, stage>>
    BY <1>10 DEF vars, store, process, worker
  <2>2. CASE stage # "down"
    BY <1>0, <2>1, <2>2, TaskUntouched
  <2>3. CASE stage = "down"
    BY <2>1, <2>3 DEF TaskInv
  <2> QED BY <2>2, <2>3
<1> QED
  BY <1>1, <1>2, <1>3, <1>4, <1>5, <1>6, <1>7, <1>8, <1>9, <1>10
     DEF Next, WorkerStep, TakeCommand, Fault

LEMMA Knowing == Spec => []KnownInv
<1>1. Init => TaskInv
  <2> SUFFICES ASSUME Init PROVE TaskInv
    OBVIOUS
  <2>1. /\ stage = "idle" /\ log = <<>> /\ bootSequence = 0
        /\ readModel.tasks = [k \in Tasks |-> None] /\ Len(log) = 0
    BY DEF Init, EmptyReadModel
  <2>2. \A k : ~ CreatedSince(log, 0, 0, k)
    BY DEF CreatedSince
  <2>3. KnowsAll(readModel)
    BY <2>1, <2>2 DEF KnowsAll, Knows
  <2> QED BY <2>1, <2>3 DEF TaskInv
<1>2. Init => KnownInv
  BY <1>1, EngineInit, FollowInit DEF KnownInv, FollowInv
<1> QED BY <1>2, KnownNext, PTL DEF Spec

\* Between commands the tasks the decider knows are exactly those created since the
\* last restart and not deleted, each as its row has it: what it forgets at a restart
\* it does not learn again, and nothing else is lost or left over.
THEOREM TasksAreOfThisLife == Spec => []TasksOfThisLife
<1>1. KnownInv => TasksOfThisLife
  BY DEF KnownInv, TaskInv, KnowsAll, Knows, CreatedSince, TasksOfThisLife
<1> QED BY Knowing, <1>1, PTL

-----------------------------------------------------------------------------
(* The tables are the fold of the log.  That a fold exists, and that there *)
(* is one only, are facts about every length: the first length at which    *)
(* one of them failed would be the successor of one at which it held.      *)

\* f holds the tables as they are after each of the first n events of l.
IsFold(f, l, n) ==
  f = [i \in 0..n |-> IF i = 0 THEN EmptySql ELSE ProjectSql(f[i - 1], l[i], i)]

\* A set of numbers that is not empty has a smallest one.
LEMMA LeastOf ==
  ASSUME NEW S, S \subseteq Nat, S # {}
  PROVE  \E n \in S : \A m \in S : ~ (m < n)
<1>1. S \subseteq Nat /\ S # {}
  OBVIOUS
<1>2. PICK n \in S : \A m \in S : ~ (<<m, n>> \in OpToRel(<, Nat))
  BY Zenon, <1>1, NatLessThanWellFounded, WFMin
<1> QED BY <1>1, <1>2 DEF OpToRel

\* One event more: the fold goes on, and only as the projectors say.
LEMMA FoldStep ==
  ASSUME NEW f, NEW l, NEW n \in Nat, IsFold(f, l, n)
  PROVE  \E g : IsFold(g, l, n + 1) /\ g[n + 1] = ProjectSql(f[n], l[n + 1], n + 1)
<1> DEFINE y == ProjectSql(f[n], l[n + 1], n + 1)
           g == [i \in 0..(n + 1) |-> IF i = n + 1 THEN y ELSE f[i]]
<1>1. \A i \in 0..n : i \in 0..(n + 1) /\ i # n + 1
  OBVIOUS
<1>2. \A i \in 0..(n + 1) : i # 0 => i - 1 \in 0..n
  OBVIOUS
<1>3. \A i \in 0..(n + 1) : i = n + 1 \/ i \in 0..n
  OBVIOUS
<1>4. \A i \in 0..n : f[i] = IF i = 0 THEN EmptySql ELSE ProjectSql(f[i - 1], l[i], i)
  BY DEF IsFold
<1>5. n + 1 \in 0..(n + 1) /\ n + 1 # 0 /\ (n + 1) - 1 = n
  OBVIOUS
<1> HIDE DEF y
<1>6. g[n + 1] = y /\ \A i \in 0..n : g[i] = f[i]
  BY <1>1, <1>5
<1>7. ASSUME NEW i \in 0..(n + 1)
      PROVE  g[i] = IF i = 0 THEN EmptySql ELSE ProjectSql(g[i - 1], l[i], i)
  <2> HIDE DEF g
  <2>1. CASE i = n + 1
    <3>1. g[i - 1] = f[n]
      BY <1>5, <1>6, <2>1
    <3>2. y = ProjectSql(g[i - 1], l[i], i)
      BY <2>1, <3>1 DEF y
    <3> QED BY <1>5, <1>6, <2>1, <3>2
  <2>2. CASE i \in 0..n
    <3>1. i # 0 => g[i - 1] = f[i - 1]
      BY <1>2, <1>6, <2>2
    <3> QED BY <1>4, <1>6, <2>2, <3>1
  <2> QED BY <1>3, <2>1, <2>2
<1>8. g = [i \in 0..(n + 1) |->
             IF i = 0 THEN EmptySql ELSE ProjectSql(g[i - 1], l[i], i)]
  <2>1. PICK h : h = g
    OBVIOUS
  <2>2. \A i \in 0..(n + 1) :
          h[i] = IF i = 0 THEN EmptySql ELSE ProjectSql(h[i - 1], l[i], i)
    <3> HIDE DEF g
    <3> QED BY <1>7, <2>1
  <2>3. h = [i \in 0..(n + 1) |-> h[i]]
    BY <2>1
  <2> HIDE DEF g
  <2>4. h = [i \in 0..(n + 1) |->
               IF i = 0 THEN EmptySql ELSE ProjectSql(h[i - 1], l[i], i)]
    BY <2>2, <2>3
  <2> QED BY <2>1, <2>4
<1> HIDE DEF g
<1>9. IsFold(g, l, n + 1) /\ g[n + 1] = y
  BY <1>6, <1>8 DEF IsFold
<1> QED BY <1>9 DEF y

LEMMA FoldExists ==
  ASSUME NEW l, NEW n \in Nat
  PROVE  \E f : IsFold(f, l, n)
<1> DEFINE S == {i \in Nat : ~ \E f : IsFold(f, l, i)}
<1>1. CASE S = {}
  BY <1>1
<1>2. CASE S # {}
  <2>1. PICK i \in S : \A j \in S : ~ (j < i)
    BY <1>2, LeastOf
  <2>2. CASE i = 0
    <3>1. PICK f : f = [j \in 0..0 |-> EmptySql]
      OBVIOUS
    <3>2. \A j \in 0..0 : j = 0
      OBVIOUS
    <3>3. f = [j \in 0..0 |-> IF j = 0 THEN EmptySql ELSE ProjectSql(f[j - 1], l[j], j)]
      BY <3>1, <3>2
    <3>4. IsFold(f, l, 0)
      BY <3>3 DEF IsFold
    <3> QED BY <2>1, <2>2, <3>4
  <2>3. CASE i # 0
    <3>1. i \in Nat /\ i - 1 \in Nat /\ i - 1 < i /\ (i - 1) + 1 = i
      BY <2>3
    <3>2. i - 1 \notin S
      BY <2>1, <3>1
    <3>3. PICK f : IsFold(f, l, i - 1)
      BY <3>1, <3>2
    <3>4. \E g : IsFold(g, l, i)
      BY <3>1, <3>3, FoldStep
    <3> QED BY <2>1, <3>4
  <2> QED BY <2>2, <2>3
<1> QED BY <1>1, <1>2

\* Folds agree for as long as the events they fold do.
LEMMA FoldsAgree ==
  ASSUME NEW f, NEW l, NEW a \in Nat, IsFold(f, l, a),
         NEW g, NEW m, NEW b \in Nat, IsFold(g, m, b),
         NEW n \in Nat, n <= a, n <= b, \A i \in 1..n : l[i] = m[i]
  PROVE  f[n] = g[n]
<1> DEFINE S == {i \in 0..n : f[i] # g[i]}
<1>1. /\ \A i \in 0..n : f[i] = IF i = 0 THEN EmptySql ELSE ProjectSql(f[i - 1], l[i], i)
      /\ \A i \in 0..n : g[i] = IF i = 0 THEN EmptySql ELSE ProjectSql(g[i - 1], m[i], i)
  <2>1. \A i \in 0..n : i \in 0..a /\ i \in 0..b
    OBVIOUS
  <2> QED BY <2>1 DEF IsFold
<1>2. CASE S = {}
  BY <1>2
<1>3. CASE S # {}
  <2>1. S \subseteq Nat
    OBVIOUS
  <2>2. PICK i \in S : \A j \in S : ~ (j < i)
    BY <1>3, <2>1, LeastOf
  <2>3. i \in 0..n /\ f[i] # g[i]
    OBVIOUS
  <2>4. i # 0
    BY <1>1, <2>3
  <2>5. i - 1 \in 0..n /\ i - 1 < i /\ i \in 1..n
    BY <2>3, <2>4
  <2>6. f[i - 1] = g[i - 1]
    BY <2>2, <2>5
  <2>7. l[i] = m[i]
    BY <2>5
  <2>8. f[i] = ProjectSql(f[i - 1], l[i], i) /\ g[i] = ProjectSql(g[i - 1], m[i], i)
    BY <1>1, <2>3, <2>4
  <2> QED BY <2>3, <2>6, <2>7, <2>8
<1> QED BY <1>2, <1>3

\* The tables a log folds to are the last of any fold of it.
LEMMA SqlIsFold ==
  ASSUME NEW l, Len(l) \in Nat, NEW g, IsFold(g, l, Len(l))
  PROVE  SqlOf(l) = g[Len(l)]
<1> DEFINE f == CHOOSE f : f = [i \in 0..Len(l) |->
                  IF i = 0 THEN EmptySql ELSE ProjectSql(f[i - 1], l[i], i)]
<1>1. SqlOf(l) = f[Len(l)]
  BY DEF SqlOf
<1>2. IsFold(f, l, Len(l))
  BY DEF IsFold
<1> HIDE DEF f
<1>3. f[Len(l)] = g[Len(l)]
  BY <1>2, FoldsAgree
<1> QED BY <1>1, <1>3

\* So do the tables of the open transaction, with the events it has stored.
FoldInv ==
  /\ TablesFollowLog
  /\ stage = "transaction" =>
       \E f : /\ IsFold(f, log \o batch, Len(log) + appended)
              /\ f[Len(log) + appended] = draft.sql

LEMMA FoldNext == IInv /\ FoldInv /\ [Next]_vars => FoldInv'
<1> SUFFICES ASSUME IInv, FoldInv, [Next]_vars PROVE FoldInv'
  OBVIOUS
<1>0. /\ log \in Seq(Event) /\ batch \in Seq(Event) /\ Len(log) \in Nat
      /\ Len(batch) \in Nat /\ appended \in Nat
  BY FollowTypes
<1>1. CASE \E c \in Commands : Decide(c)
  <2>1. /\ appended' = 0 /\ draft'.sql = db /\ UNCHANGED <<log, db>>
    BY <1>1 DEF Decide, store
  <2>2. batch' \in Seq(Event)
    BY <1>1, NextKeeps DEF IInv, TypeOK, Next, WorkerStep, TakeCommand
  <2>3. PICK f : IsFold(f, log \o batch', Len(log))
    BY <1>0, FoldExists
  <2>4. PICK g : IsFold(g, log, Len(log))
    BY <1>0, FoldExists
  <2>5. \A i \in 1..Len(log) : (log \o batch')[i] = log[i]
    BY <1>0, <2>2
  <2>6. f[Len(log)] = g[Len(log)]
    <3>1. PICK n \in Nat : n = Len(log)
      BY <1>0
    <3>2. PICK l : l = log \o batch'
      OBVIOUS
    <3>3. n <= n /\ IsFold(f, l, n) /\ IsFold(g, log, n) /\ \A i \in 1..n : l[i] = log[i]
      BY <2>3, <2>4, <2>5, <3>1, <3>2
    <3>4. f[n] = g[n]
      BY <3>3, FoldsAgree
    <3> QED BY <3>1, <3>4
  <2>7. f[Len(log)] = db
    BY <1>0, <2>4, <2>6, SqlIsFold DEF FoldInv, TablesFollowLog
  <2>8. Len(log) + 0 = Len(log)
    BY <1>0
  <2>9. TablesFollowLog'
    BY <2>1 DEF FoldInv, TablesFollowLog
  <2> QED BY <2>1, <2>3, <2>7, <2>8, <2>9 DEF FoldInv
<1>2. CASE StoreEvent
  <2> DEFINE n == Len(log) + appended
             l == log \o batch
             e == batch[appended + 1]
  <2>1. /\ stage = "transaction" /\ appended < Len(batch) /\ appended' = appended + 1
        /\ draft'.sql = ProjectSql(draft.sql, e, Len(log) + appended + 1)
        /\ UNCHANGED <<log, db, batch>>
    BY <1>2 DEF StoreEvent, store
  <2>2. PICK f : IsFold(f, l, n) /\ f[n] = draft.sql
    BY <2>1 DEF FoldInv
  <2>3. l[n + 1] = e /\ n \in Nat /\ Len(log) + appended' = n + 1
        /\ Len(log) + appended + 1 = n + 1
    <3>1. appended + 1 \in 1..Len(batch) /\ n + 1 = Len(log) + (appended + 1)
      BY <1>0, <2>1
    <3> QED BY <1>0, <2>1, <3>1
  <2> HIDE DEF e, n, l
  <2>4. PICK g : IsFold(g, l, n + 1) /\ g[n + 1] = ProjectSql(f[n], l[n + 1], n + 1)
    BY <2>2, <2>3, FoldStep
  <2>5. g[n + 1] = draft'.sql
    BY <2>1, <2>2, <2>3, <2>4
  <2>6. TablesFollowLog'
    BY <2>1 DEF FoldInv, TablesFollowLog
  <2> QED BY <2>1, <2>3, <2>4, <2>5, <2>6 DEF FoldInv, l
<1>3. CASE Commit \/ CommitReportedFailed
  <2>1. /\ stage = "transaction" /\ appended = Len(batch) /\ log' = log \o batch
        /\ db' = draft.sql /\ stage' # "transaction"
    BY <1>3 DEF Commit, CommitReportedFailed, Store
  <2>2. Len(log') = Len(log) + appended /\ Len(log') \in Nat
    BY <1>0, <2>1
  <2>3. PICK f : IsFold(f, log', Len(log')) /\ f[Len(log')] = db'
    BY <2>1, <2>2 DEF FoldInv
  <2>4. SqlOf(log') = db'
    BY <2>2, <2>3, SqlIsFold
  <2> QED BY <2>1, <2>4 DEF FoldInv, TablesFollowLog
<1>4. CASE \/ UNCHANGED <<log, db>> /\ stage' # "transaction"
           \/ UNCHANGED <<log, db, stage, batch, appended, draft>>
  BY <1>4 DEF FoldInv, TablesFollowLog
<1>5. ASSUME NEW c \in Commands,
             \/ Dispatch(c) \/ AnswerFromReceipt(c) \/ RefusePreviouslyRejected(c)
             \/ LookupFails(c) \/ DecideFails(c)
      PROVE  FoldInv'
  BY <1>4, <1>5 DEF Dispatch, AnswerFromReceipt, RefusePreviouslyRejected, LookupFails,
                    DecideFails, HeadCommand, store, worker
<1>6. CASE \/ TransactionFails \/ Install \/ Publish \/ AnswerSuccess \/ StartReconcile
           \/ ReconcileEvent \/ FinishReconcile \/ ReconcileFails
  BY <1>4, <1>6 DEF TransactionFails, Install, Publish, AnswerSuccess, StartReconcile,
                    ReconcileEvent, FinishReconcile, ReconcileFails, store
<1>7. CASE RejectReceipt \/ RejectReceiptFails \/ AnswerFailure \/ Crash \/ Boot
  BY <1>4, <1>7 DEF RejectReceipt, RejectReceiptFails, AnswerFailure, Crash, Boot, store
<1>8. CASE UNCHANGED vars
  BY <1>4, <1>8 DEF vars, store, worker
<1> QED
  BY <1>1, <1>2, <1>3, <1>5, <1>6, <1>7, <1>8 DEF Next, WorkerStep, TakeCommand, Fault

\* In every state, between the statements of a transaction and after every crash, the
\* projection tables are what folding the projectors over the stored events gives,
\* whatever the events are and however many.
THEOREM TablesFollow == Spec => []TablesFollowLog
<1>1. Init => FoldInv
  <2> SUFFICES ASSUME Init PROVE FoldInv
    OBVIOUS
  <2>1. log = <<>> /\ Len(log) = 0 /\ db = EmptySql /\ stage = "idle"
    BY DEF Init
  <2>2. PICK f : IsFold(f, log, 0)
    BY FoldExists
  <2>3. f[0] = EmptySql
    BY <2>2 DEF IsFold
  <2>4. SqlOf(log) = EmptySql
    BY <2>1, <2>2, <2>3, SqlIsFold
  <2> QED BY <2>1, <2>4 DEF FoldInv, TablesFollowLog
<1> QED BY <1>1, FoldNext, Invariant, PTL DEF Spec, FoldInv

==============================================================================
