------------------------------ MODULE ReadModel ------------------------------
(***************************************************************************)
(* The pure half of the orchestration core: which commands the decider     *)
(* accepts, the events it plans for them, and how one event changes the    *)
(* in-memory read model (projector.ts) and the SQL projection              *)
(* (ProjectionPipeline.ts).  Aggregates are projects, threads and tasks;   *)
(* of each, only what a command's precondition looks at is kept.           *)
(***************************************************************************)
EXTENDS Naturals, Sequences, FiniteSets

CONSTANTS
  CommandIds,   \* ids a client may put on a command
  Projects,
  Threads,
  Tasks,        \* task ids the decider may draw
  None          \* the absence of a row

ASSUME ThreadsFinite == IsFiniteSet(Threads)
ASSUME NoneIsNoRow ==
  /\ None \notin [project : Projects, archived : BOOLEAN, deleted : BOOLEAN]
  /\ None \notin [project : Projects, scrapped : BOOLEAN]
  /\ None \notin [project : Projects, scrapped : BOOLEAN, archived : BOOLEAN]

-----------------------------------------------------------------------------
(* Commands and events, as discriminated unions.                           *)

Command ==
  [type : {"project.create"}, id : CommandIds, project : Projects]
  \cup [type : {"project.delete"}, id : CommandIds, project : Projects, force : BOOLEAN]
  \cup [type : {"thread.create"}, id : CommandIds, thread : Threads, project : Projects]
  \cup [type : {"thread.delete", "thread.archive", "thread.unarchive", "thread.meta.update"},
        id : CommandIds, thread : Threads]
  \cup [type : {"task.create"}, id : CommandIds, project : Projects, scrapped : BOOLEAN]
  \cup [type : {"task.update"}, id : CommandIds, task : Tasks, scrapped : BOOLEAN]
  \cup [type : {"task.delete", "task.archive", "task.unarchive"},
        id : CommandIds, task : Tasks]

Event ==
  [type : {"project.created", "project.deleted"}, cmd : CommandIds, project : Projects]
  \cup [type : {"thread.created"}, cmd : CommandIds, thread : Threads, project : Projects]
  \cup [type : {"thread.deleted", "thread.archived", "thread.unarchived",
                "thread.meta-updated"}, cmd : CommandIds, thread : Threads]
  \cup [type : {"task.created"}, cmd : CommandIds, task : Tasks, project : Projects,
        scrapped : BOOLEAN]
  \cup [type : {"task.updated"}, cmd : CommandIds, task : Tasks, scrapped : BOOLEAN]
  \cup [type : {"task.deleted", "task.archived", "task.unarchived"},
        cmd : CommandIds, task : Tasks]

-----------------------------------------------------------------------------
(* Rows.  deletedAt and archivedAt are kept as the Booleans the code tests *)
(* them for; a task's status is kept as "is it scrapped".                  *)

ProjectRow == {"absent", "active", "deleted"}
ThreadRow == {None} \cup [project : Projects, archived : BOOLEAN, deleted : BOOLEAN]
TaskEntry == {None} \cup [project : Projects, scrapped : BOOLEAN]
TaskRow == {None} \cup [project : Projects, scrapped : BOOLEAN, archived : BOOLEAN]

\* OrchestrationReadModel, held in memory.
ReadModelType ==
  [projects : [Projects -> ProjectRow], threads : [Threads -> ThreadRow],
   tasks : [Tasks -> TaskEntry], snapshotSequence : Nat]

\* The projection tables; sequence is the cursor all projectors share.
SqlType ==
  [projects : [Projects -> ProjectRow], threads : [Threads -> ThreadRow],
   tasks : [Tasks -> TaskRow], sequence : Nat]

EmptyReadModel ==
  [projects |-> [p \in Projects |-> "absent"], threads |-> [t \in Threads |-> None],
   tasks |-> [k \in Tasks |-> None], snapshotSequence |-> 0]

EmptySql ==
  [projects |-> [p \in Projects |-> "absent"], threads |-> [t \in Threads |-> None],
   tasks |-> [k \in Tasks |-> None], sequence |-> 0]

-----------------------------------------------------------------------------
(* The decider.  A command the read model rules out fails with             *)
(* OrchestrationCommandInvariantError.                                     *)

ActiveThreads(m, p) ==
  {t \in Threads : m.threads[t] # None /\ m.threads[t].project = p /\ ~ m.threads[t].deleted}

\* Mutant: a deleted thread counts as absent.
RequireLiveThread(m, t) == m.threads[t] # None /\ ~ m.threads[t].deleted

RequireThread(m, t) == m.threads[t] # None
RequireThreadNotArchived(m, t) == RequireThread(m, t) /\ ~ m.threads[t].archived

\* Mutant: any existing thread can be unarchived.
RequireThreadToUnarchive(m, t) == RequireThread(m, t)

RequireThreadArchived(m, t) == RequireThread(m, t) /\ m.threads[t].archived
RequireTask(m, k) == m.tasks[k] # None
RequireProject(m, p) == m.projects[p] # "absent"

\* No precondition looks at a deletedAt, except the emptiness of a project.
Accepts(c, m) ==
  \/ c.type = "project.create" /\ ~ RequireProject(m, c.project)
  \/ /\ c.type = "project.delete" /\ RequireProject(m, c.project)
     /\ c.force \/ ActiveThreads(m, c.project) = {}
  \/ /\ c.type = "thread.create" /\ RequireProject(m, c.project)
     /\ ~ RequireThread(m, c.thread)
  \/ c.type \in {"thread.delete", "thread.meta.update"} /\ RequireThread(m, c.thread)
  \/ c.type = "thread.archive" /\ RequireThreadNotArchived(m, c.thread)
  \/ c.type = "thread.unarchive" /\ RequireThreadArchived(m, c.thread)
  \/ c.type = "task.create" /\ RequireProject(m, c.project)
  \/ c.type \in {"task.update", "task.delete", "task.unarchive"} /\ RequireTask(m, c.task)
  \/ c.type = "task.archive" /\ RequireTask(m, c.task) /\ ~ m.tasks[c.task].scrapped

\* Mutant: a forced deletion that forgets the project's threads.
DeletionWithoutThreads(c, m) ==
  {<<[type |-> "project.deleted", cmd |-> c.id, project |-> c.project]>>}

\* project.delete: one thread.deleted per active thread, in the order of the
\* read model's array (left open here), then project.deleted.
DeletionBatches(c, m) ==
  LET active == ActiveThreads(m, c.project)
      n == Cardinality(active)
  IN {[i \in 1..(n + 1) |->
         IF i \in 1..n
           THEN [type |-> "thread.deleted", cmd |-> c.id, thread |-> order[i]]
           ELSE [type |-> "project.deleted", cmd |-> c.id, project |-> c.project]] :
       order \in {f \in [1..n -> active] : \A i, j \in 1..n : f[i] = f[j] => i = j}}

ThreadEventType ==
  [t \in {"thread.delete", "thread.archive", "thread.unarchive", "thread.meta.update"} |->
     CASE t = "thread.delete" -> "thread.deleted"
       [] t = "thread.archive" -> "thread.archived"
       [] t = "thread.unarchive" -> "thread.unarchived"
       [] t = "thread.meta.update" -> "thread.meta-updated"]

TaskEventType ==
  [t \in {"task.delete", "task.archive", "task.unarchive"} |->
     CASE t = "task.delete" -> "task.deleted"
       [] t = "task.archive" -> "task.archived"
       [] t = "task.unarchive" -> "task.unarchived"]

\* The event batches the decider may plan for an accepted command: a choice only
\* where it draws a task id (fresh is the set of ids never drawn before) or
\* orders deletions.
Plans(c, m, fresh) ==
  CASE c.type = "project.create" ->
         {<<[type |-> "project.created", cmd |-> c.id, project |-> c.project]>>}
    [] c.type = "project.delete" -> DeletionBatches(c, m)
    [] c.type = "thread.create" ->
         {<<[type |-> "thread.created", cmd |-> c.id, thread |-> c.thread,
             project |-> c.project]>>}
    [] c.type \in DOMAIN ThreadEventType ->
         {<<[type |-> ThreadEventType[c.type], cmd |-> c.id, thread |-> c.thread]>>}
    [] c.type = "task.create" ->
         {<<[type |-> "task.created", cmd |-> c.id, task |-> k, project |-> c.project,
             scrapped |-> c.scrapped]>> : k \in fresh}
    [] c.type = "task.update" ->
         {<<[type |-> "task.updated", cmd |-> c.id, task |-> c.task,
             scrapped |-> c.scrapped]>>}
    [] c.type \in DOMAIN TaskEventType ->
         {<<[type |-> TaskEventType[c.type], cmd |-> c.id, task |-> c.task]>>}

-----------------------------------------------------------------------------
(* The projectors.  Projects and threads change the same way in memory and *)
(* in SQL; tasks do not: only SQL records an archive.                      *)

NextProject(row, e) ==
  CASE e.type = "project.created" -> "active"
    [] e.type = "project.deleted" -> IF row = "absent" THEN row ELSE "deleted"

NextThread(row, e) ==
  CASE e.type = "thread.created" ->
         [project |-> e.project, archived |-> FALSE, deleted |-> FALSE]
    [] e.type # "thread.created" /\ row = None -> None
    [] e.type = "thread.deleted" /\ row # None -> [row EXCEPT !.deleted = TRUE]
    [] e.type = "thread.archived" /\ row # None -> [row EXCEPT !.archived = TRUE]
    [] e.type = "thread.unarchived" /\ row # None -> [row EXCEPT !.archived = FALSE]
    [] e.type = "thread.meta-updated" /\ row # None -> row

\* Mutant: a deleted task stays in memory.
NextTaskEntryKeepingDeleted(entry, e) ==
  CASE e.type = "task.created" -> [project |-> e.project, scrapped |-> e.scrapped]
    [] e.type = "task.updated" /\ entry # None -> [entry EXCEPT !.scrapped = e.scrapped]
    [] OTHER -> entry

\* In memory, task.archived and task.unarchived change nothing.
NextTaskEntry(entry, e) ==
  CASE e.type = "task.created" -> [project |-> e.project, scrapped |-> e.scrapped]
    [] e.type = "task.deleted" -> None
    [] e.type = "task.updated" /\ entry # None -> [entry EXCEPT !.scrapped = e.scrapped]
    [] OTHER -> entry

NextTaskRow(row, e) ==
  CASE e.type = "task.created" ->
         [project |-> e.project, scrapped |-> e.scrapped, archived |-> FALSE]
    [] e.type = "task.deleted" -> None
    [] e.type = "task.updated" /\ row # None -> [row EXCEPT !.scrapped = e.scrapped]
    [] e.type = "task.archived" /\ row # None -> [row EXCEPT !.archived = TRUE]
    [] e.type = "task.unarchived" /\ row # None -> [row EXCEPT !.archived = FALSE]
    [] OTHER -> row

IsProjectEvent(e) == e.type \in {"project.created", "project.deleted"}
IsTaskEvent(e) ==
  e.type \in {"task.created", "task.updated", "task.deleted", "task.archived",
              "task.unarchived"}
IsThreadEvent(e) == ~ IsProjectEvent(e) /\ ~ IsTaskEvent(e)

\* projectEvent of projector.ts, for the event stored at sequence n.
ProjectEvent(m, e, n) ==
  [projects |-> IF IsProjectEvent(e)
                  THEN [m.projects EXCEPT ![e.project] = NextProject(@, e)]
                  ELSE m.projects,
   threads |-> IF IsThreadEvent(e)
                 THEN [m.threads EXCEPT ![e.thread] = NextThread(@, e)]
                 ELSE m.threads,
   tasks |-> IF IsTaskEvent(e)
               THEN [m.tasks EXCEPT ![e.task] = NextTaskEntry(@, e)]
               ELSE m.tasks,
   snapshotSequence |-> n]

\* projectEvent of ProjectionPipeline.ts: every projector in turn, each moving
\* its cursor to the event, whatever the event is.
ProjectSql(db, e, n) ==
  [projects |-> IF IsProjectEvent(e)
                  THEN [db.projects EXCEPT ![e.project] = NextProject(@, e)]
                  ELSE db.projects,
   threads |-> IF IsThreadEvent(e)
                 THEN [db.threads EXCEPT ![e.thread] = NextThread(@, e)]
                 ELSE db.threads,
   tasks |-> IF IsTaskEvent(e)
               THEN [db.tasks EXCEPT ![e.task] = NextTaskRow(@, e)]
               ELSE db.tasks,
   sequence |-> n]

\* Mutant: only rows that are not deleted are read.
SnapshotOfLiveRows(db) ==
  [projects |-> [p \in Projects |->
                   IF db.projects[p] = "deleted" THEN "absent" ELSE db.projects[p]],
   threads |-> db.threads,
   tasks |-> [k \in Tasks |-> None], snapshotSequence |-> db.sequence]

\* Mutant: the task rows are handed out as they are stored.
SnapshotWithRawTasks(db) ==
  [projects |-> db.projects, threads |-> db.threads,
   tasks |-> db.tasks, snapshotSequence |-> db.sequence]

\* getSnapshot: every project and thread row, deleted ones included, but the
\* task list is the empty literal.
Snapshot(db) ==
  [projects |-> db.projects, threads |-> db.threads,
   tasks |-> [k \in Tasks |-> None], snapshotSequence |-> db.sequence]

=============================================================================
