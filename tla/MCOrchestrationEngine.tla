----------------------- MODULE MCOrchestrationEngine -------------------------
(* Instances of OrchestrationEngine for TLC.                               *)
EXTENDS OrchestrationEngine, TLC

CONSTANTS p1, t1, t2, k1

CreateProject(i) == [type |-> "project.create", id |-> i, project |-> p1]
DeleteProject(i, f) == [type |-> "project.delete", id |-> i, project |-> p1, force |-> f]
CreateThread(i, t) == [type |-> "thread.create", id |-> i, thread |-> t, project |-> p1]
OnThread(i, type, t) == [type |-> type, id |-> i, thread |-> t]
CreateTask(i) == [type |-> "task.create", id |-> i, project |-> p1, scrapped |-> FALSE]
UpdateTask(i, s) == [type |-> "task.update", id |-> i, task |-> k1, scrapped |-> s]
OnTask(i, type) == [type |-> type, id |-> i, task |-> k1]

\* Creation, competing creations of one thread, and a forced deletion that
\* emits several events.
DeletionCommands ==
  {CreateProject(1), CreateThread(2, t1), CreateThread(3, t1), CreateThread(4, t2),
   DeleteProject(5, TRUE), DeleteProject(6, FALSE)}

DeletionAndTaskCommands ==
  DeletionCommands \cup
    {CreateTask(7), UpdateTask(8, TRUE), OnTask(9, "task.archive"),
     OnTask(10, "task.unarchive"), OnTask(11, "task.delete")}

\* One thread through its switches; every kind of thread command.
ThreadCommands ==
  {CreateProject(1), CreateThread(2, t1), OnThread(3, "thread.archive", t1),
   OnThread(4, "thread.unarchive", t1), OnThread(5, "thread.delete", t1),
   OnThread(6, "thread.meta.update", t1)}

TaskCommands ==
  {CreateProject(1), CreateTask(2), UpdateTask(3, TRUE), OnTask(4, "task.archive"),
   OnTask(5, "task.unarchive"), OnTask(6, "task.archive"), OnTask(7, "task.delete")}

=============================================================================
