---------------------------- MODULE ProviderSessions ----------------------------
(***************************************************************************)
(* The provider session of one thread.  ProviderService starts, recovers   *)
(* and stops it for four callers that do not wait for one another:         *)
(* ProviderCommandReactor's worker, the turns that worker sends off on     *)
(* their own, ThreadDeletionReactor and ProviderSessionReaper.  What they  *)
(* know of the session is kept three times: by the adapter (Claude's), in  *)
(* the persisted binding, and in thread.session, which                     *)
(* ProviderRuntimeIngestion updates from the adapter's events.             *)
(***************************************************************************)
EXTENDS Integers, Sequences, FiniteSets

CONSTANTS
  Modes,          \* RuntimeMode
  DefaultMode,    \* DEFAULT_RUNTIME_MODE, "full-access"
  MaxTurns,       \* turns the user asks for
  MaxRequests,    \* requests of the user in all
  MaxContexts,    \* bound on the adapter's sessions that exist at a time
  MaxTrouble,     \* bound on failures, exits of the provider, and ends of the server
  None

ASSUME DefaultIsAMode == DefaultMode \in Modes
ASSUME BoundsAreNaturals ==
  /\ MaxTurns \in Nat /\ MaxRequests \in Nat
  /\ MaxContexts \in Nat /\ MaxTrouble \in Nat

VARIABLES
  \* the thread, in the engine
  mode,           \* thread.runtimeMode
  record,         \* thread.session
  deleted,        \* thread.deletedAt is set
  \* the row of ProviderSessionDirectory
  binding,
  \* the adapter
  contexts,       \* its sessions that are not closed yet
  known,          \* sessions.get(threadId), 0 for none
  \* ProviderRuntimeIngestion
  feed,           \* the adapter's events
  reading,        \* the thread.session that follows from the event in hand
  \* the callers
  inbox,          \* queue of the command reactor's worker
  starting,       \* the turn the worker starts a session for, 0 for none
  calls,          \* what each caller is doing in ProviderService
  \* observation and bounds
  raced,          \* two of these calls overlapped
  turns, requests, trouble

thread == <<mode, record, deleted>>
adapter == <<contexts, known>>
ingestion == <<feed, reading>>
worker == <<inbox, starting>>
bounds == <<turns, requests, trouble>>
vars == <<thread, binding, adapter, ingestion, worker, calls, raced, bounds>>

Turns == 1..MaxTurns
Contexts == 1..MaxContexts
Reactor == <<"reactor", 0>>
Reaper == <<"reaper", 0>>
Deletion == <<"deletion", 0>>
Send(t) == <<"send", t>>
Callers == {Reactor, Reaper, Deletion} \cup {Send(t) : t \in Turns}

\* "running" is a "ready" session with an active turn.
Session == [status : {"ready", "stopped"}, mode : Modes, turn : Turns \cup {None}]
Ready(m, t) == [status |-> "ready", mode |-> m, turn |-> t]
Stopped(m) == [status |-> "stopped", mode |-> m, turn |-> None]
ASSUME NoneIsNoSession == None \notin Session

\* fresh: last seen within the inactivity threshold.
Binding == [status : {"running", "stopped"}, mode : Modes, fresh : BOOLEAN]
ASSUME NoneIsNoBinding == None \notin Binding

Context ==
  [mode : Modes, turn : Turns \cup {None}, phase : {"live", "closing", "exiting"}]
ASSUME NoneIsNoContext == None \notin Context

SessionStarted == [type |-> "session.started", turn |-> None]
SessionExited == [type |-> "session.exited", turn |-> None]
TurnStarted(t) == [type |-> "turn.started", turn |-> t]
TurnCompleted(t) == [type |-> "turn.completed", turn |-> t]
RuntimeEvent ==
  [type : {"session.started", "session.exited", "turn.started", "turn.completed"},
   turn : Turns \cup {None}]

Request == [type : {"turn-start", "mode-set", "session-stop"}, turn : 0..MaxTurns]
ModeSet == [type |-> "mode-set", turn |-> 0]
SessionStop == [type |-> "session-stop", turn |-> 0]
TurnStart(t) == [type |-> "turn-start", turn |-> t]

\* A start: begin, replace, open, record, started.  A stop: halt, close, note,
\* stopped.  A send: route, perhaps a start, send, sent.
StartStages == {"replace", "open", "record"}
StopStages == {"close", "note"}
Stages ==
  {"none", "begin", "halt", "started", "stopped", "route", "send", "sent", "failed"}
    \cup StartStages \cup StopStages
Call == [stage : Stages, mode : Modes, context : 0..MaxContexts]
NoCall == [stage |-> "none", mode |-> DefaultMode, context |-> 0]
CallOf(stage, m) == [stage |-> stage, mode |-> m, context |-> 0]

Init ==
  /\ mode = DefaultMode /\ record = None /\ deleted = FALSE
  /\ binding = None
  /\ contexts = [i \in Contexts |-> None] /\ known = 0
  /\ feed = <<>> /\ reading = None
  /\ inbox = <<>> /\ starting = 0
  /\ calls = [c \in Callers |-> NoCall]
  /\ raced = FALSE
  /\ turns = 0 /\ requests = 0 /\ trouble = 0

-----------------------------------------------------------------------------
(* The adapter.                                                            *)

\* hasSession, and the check of requireSession.
In(i, phase) == contexts[i] # None /\ contexts[i].phase = phase
HasSession == known # 0 /\ In(known, "live")

\* completeTurn, when there is a turn to complete.
Completion(i) ==
  IF contexts[i].turn = None THEN <<>> ELSE <<TurnCompleted(contexts[i].turn)>>

\* stopSessionInternal up to its first wait: the context takes no more turns.
BeginClosing(i, phase) ==
  /\ contexts' = [contexts EXCEPT ![i].phase = phase, ![i].turn = None]
  /\ feed' = feed \o Completion(i)

\* The rest of it: sessions.delete(threadId) drops whatever is there by now.
EndClosing(i) ==
  /\ contexts' = [contexts EXCEPT ![i] = None]
  /\ known' = 0

\* A call under way, with what the reactor does of it, or an exit.
UnderWay ==
  \/ \E c \in Callers : calls[c].stage \notin {"none", "begin", "halt", "route", "failed"}
  \/ \E i \in Contexts : In(i, "exiting")
NoteRace == raced' = (raced \/ UnderWay)

EndTurn(i) ==
  /\ In(i, "live") /\ contexts[i].turn # None
  /\ contexts' = [contexts EXCEPT ![i].turn = None]
  /\ feed' = feed \o Completion(i)
  /\ UNCHANGED <<thread, binding, known, reading, worker, calls, raced, bounds>>

\* handleStreamExit: the provider ended by itself.
BeginExit(i) ==
  /\ In(i, "live")
  /\ trouble < MaxTrouble
  /\ trouble' = trouble + 1
  /\ BeginClosing(i, "exiting")
  /\ NoteRace
  /\ UNCHANGED <<thread, binding, known, reading, worker, calls, turns, requests>>

EndExit(i) ==
  /\ In(i, "exiting")
  /\ EndClosing(i)
  /\ feed' = Append(feed, SessionExited)
  /\ UNCHANGED <<thread, binding, reading, worker, calls, raced, bounds>>

-----------------------------------------------------------------------------
(* ProviderService.startSession, and recoverSessionForThread.              *)

Goes(c, stage) == calls' = [calls EXCEPT ![c].stage = stage]

\* Mutant: the session there is stays.
StartBesideSession(c) ==
  /\ calls[c].stage = "begin"
  /\ Goes(c, "open")
  /\ NoteRace
  /\ UNCHANGED <<thread, binding, adapter, ingestion, worker, bounds>>

\* The adapter first closes the session it has for the thread, without an event.
StartBegins(c) ==
  /\ calls[c].stage = "begin"
  /\ IF HasSession
     THEN /\ BeginClosing(known, "closing")
          /\ calls' = [calls EXCEPT ![c].stage = "replace", ![c].context = known]
     ELSE Goes(c, "open") /\ UNCHANGED <<contexts, feed>>
  /\ NoteRace
  /\ UNCHANGED <<thread, binding, known, reading, worker, bounds>>

StartReplaces(c) ==
  /\ calls[c].stage = "replace"
  /\ EndClosing(calls[c].context)
  /\ calls' = [calls EXCEPT ![c].stage = "open", ![c].context = 0]
  /\ UNCHANGED <<thread, binding, ingestion, worker, raced, bounds>>

StartOpens(c) ==
  /\ calls[c].stage = "open"
  /\ \E i \in Contexts :
       /\ contexts[i] = None /\ \A j \in 1..(i - 1) : contexts[j] # None
       /\ contexts' = [contexts EXCEPT ![i] =
                          [mode |-> calls[c].mode, turn |-> None, phase |-> "live"]]
       /\ known' = i
  /\ feed' = Append(feed, SessionStarted)
  /\ Goes(c, "record")
  /\ UNCHANGED <<thread, binding, reading, worker, raced, bounds>>

\* Mutant: the mode is left out of the binding.
StartRecordsDefault(c) ==
  /\ calls[c].stage = "record"
  /\ binding' = [status |-> "running", mode |-> DefaultMode, fresh |-> TRUE]
  /\ Goes(c, "started")
  /\ UNCHANGED <<thread, adapter, ingestion, worker, raced, bounds>>

\* upsertSessionBinding
StartRecords(c) ==
  /\ calls[c].stage = "record"
  /\ binding' = [status |-> "running", mode |-> calls[c].mode, fresh |-> TRUE]
  /\ Goes(c, "started")
  /\ UNCHANGED <<thread, adapter, ingestion, worker, raced, bounds>>

StartFails(c) ==
  /\ calls[c].stage \in {"begin", "open"}
  /\ trouble < MaxTrouble
  /\ trouble' = trouble + 1
  /\ Goes(c, "failed")
  /\ UNCHANGED <<thread, binding, adapter, ingestion, worker, raced, turns, requests>>

-----------------------------------------------------------------------------
(* ProviderService.stopSession.  Only the command reactor minds how it     *)
(* ended; the others log a failure.                                        *)

Ended(c, stage) == IF c = Reactor THEN stage ELSE "none"

StopBegins(c) ==
  /\ calls[c].stage = "halt"
  /\ IF binding = None
     THEN Goes(c, Ended(c, "failed")) /\ UNCHANGED <<contexts, feed>>
     ELSE IF HasSession
     THEN /\ BeginClosing(known, "closing")
          /\ calls' = [calls EXCEPT ![c].stage = "close", ![c].context = known]
     ELSE Goes(c, "note") /\ UNCHANGED <<contexts, feed>>
  /\ NoteRace
  /\ UNCHANGED <<thread, binding, known, reading, worker, bounds>>

StopCloses(c) ==
  /\ calls[c].stage = "close"
  /\ EndClosing(calls[c].context)
  /\ feed' = Append(feed, SessionExited)
  /\ calls' = [calls EXCEPT ![c].stage = "note", ![c].context = 0]
  /\ UNCHANGED <<thread, binding, reading, worker, raced, bounds>>

StopNotes(c) ==
  /\ calls[c].stage = "note"
  /\ binding' = [binding EXCEPT !.status = "stopped", !.fresh = TRUE]
  /\ Goes(c, Ended(c, "stopped"))
  /\ UNCHANGED <<thread, adapter, ingestion, worker, raced, bounds>>

StopFails(c) ==
  /\ calls[c].stage \in {"halt", "note"}
  /\ trouble < MaxTrouble
  /\ trouble' = trouble + 1
  /\ Goes(c, Ended(c, "failed"))
  /\ UNCHANGED <<thread, binding, adapter, ingestion, worker, raced, turns, requests>>

-----------------------------------------------------------------------------
(* ProviderService.sendTurn, on a fiber of its own.                        *)

\* resolveRoutableSession; a recovery uses the mode of the binding.
SendRoutes(t) ==
  /\ calls[Send(t)].stage = "route"
  /\ calls' = [calls EXCEPT ![Send(t)] =
                 IF HasSession THEN CallOf("send", DefaultMode)
                 ELSE CallOf("begin", binding.mode)]
  /\ NoteRace
  /\ UNCHANGED <<thread, binding, adapter, ingestion, worker, bounds>>

\* The adapter completes a turn it still runs, then starts this one.
SendTurn(t) ==
  /\ calls[Send(t)].stage \in {"send", "started"}
  /\ IF HasSession
     THEN /\ contexts' = [contexts EXCEPT ![known].turn = t]
          /\ feed' = feed \o Append(Completion(known), TurnStarted(t))
          /\ Goes(Send(t), "sent")
     ELSE Goes(Send(t), "failed") /\ UNCHANGED <<contexts, feed>>
  /\ UNCHANGED <<thread, binding, known, reading, worker, raced, bounds>>

SendNotes(t) ==
  /\ calls[Send(t)].stage = "sent"
  /\ binding' = [binding EXCEPT !.status = "running", !.fresh = TRUE]
  /\ calls' = [calls EXCEPT ![Send(t)] = NoCall]
  /\ UNCHANGED <<thread, adapter, ingestion, worker, raced, bounds>>

\* setThreadSessionErrorOnTurnStartFailure
ClearTurn == IF record = None THEN None ELSE [record EXCEPT !.turn = None]

SendFails(t) ==
  /\ calls[Send(t)].stage = "failed"
  /\ record' = ClearTurn
  /\ calls' = [calls EXCEPT ![Send(t)] = NoCall]
  /\ UNCHANGED <<mode, deleted, binding, adapter, ingestion, worker, raced, bounds>>

-----------------------------------------------------------------------------
(* ProviderCommandReactor.                                                 *)

Takes(type) ==
  /\ calls[Reactor].stage = "none"
  /\ inbox # <<>> /\ Head(inbox).type = type
  /\ inbox' = Tail(inbox)

Running == record # None /\ record.status # "stopped"
\* ensureSessionForThread keeps the session there is.
KeepsSession == Running /\ known # 0 /\ record.mode = mode

TakeTurnStart ==
  /\ Takes("turn-start")
  /\ LET t == Head(inbox).turn
     IN IF KeepsSession
        THEN /\ calls' = [calls EXCEPT ![Send(t)] = CallOf("route", DefaultMode)]
             /\ UNCHANGED starting
        ELSE /\ calls' = [calls EXCEPT ![Reactor] = CallOf("begin", mode)]
             /\ starting' = t
  /\ UNCHANGED <<thread, binding, adapter, ingestion, raced, bounds>>

TakeModeSet ==
  /\ Takes("mode-set")
  /\ calls' = IF Running /\ ~KeepsSession
              THEN [calls EXCEPT ![Reactor] = CallOf("begin", mode)] ELSE calls
  /\ UNCHANGED <<thread, binding, adapter, ingestion, starting, raced, bounds>>

\* bindSessionToThread; a turn is then sent without waiting for it.
BindSession ==
  /\ calls[Reactor].stage = "started"
  /\ record' = Ready(calls[Reactor].mode, None)
  /\ calls' = [c \in Callers |->
                 IF c = Reactor THEN NoCall
                 ELSE IF c = Send(starting) THEN CallOf("route", DefaultMode)
                 ELSE calls[c]]
  /\ starting' = 0
  /\ UNCHANGED <<mode, deleted, binding, adapter, ingestion, inbox, raced, bounds>>

\* A session that is not running is not stopped, only recorded.
TakeSessionStop ==
  /\ Takes("session-stop")
  /\ LET m == IF record = None THEN DefaultMode ELSE record.mode
     IN IF Running
        THEN /\ calls' = [calls EXCEPT ![Reactor] = CallOf("halt", m)]
             /\ UNCHANGED record
        ELSE record' = Stopped(m) /\ UNCHANGED calls
  /\ UNCHANGED <<mode, deleted, binding, adapter, ingestion, starting, raced, bounds>>

RecordStop ==
  /\ calls[Reactor].stage = "stopped"
  /\ record' = Stopped(calls[Reactor].mode)
  /\ calls' = [calls EXCEPT ![Reactor] = NoCall]
  /\ UNCHANGED <<mode, deleted, binding, adapter, ingestion, worker, raced, bounds>>

\* A failed start clears the active turn when it was for a turn; other failures
\* are logged.
ReactorGivesUp ==
  /\ calls[Reactor].stage = "failed"
  /\ record' = IF starting # 0 THEN ClearTurn ELSE record
  /\ starting' = 0
  /\ calls' = [calls EXCEPT ![Reactor] = NoCall]
  /\ UNCHANGED <<mode, deleted, binding, adapter, ingestion, inbox, raced, bounds>>

-----------------------------------------------------------------------------
(* ProviderRuntimeIngestion: thread.session is read, then set.             *)

\* Every thread.session that is set for an event; None when the event is not for it.
SessionAfter(e, m, active) ==
  LET applies == active \in {None, e.turn}
  IN CASE e.type = "session.started" -> Ready(m, active)
       [] e.type = "session.exited" -> Stopped(m)
       [] e.type = "turn.started" -> IF applies THEN Ready(m, e.turn) ELSE None
       [] e.type = "turn.completed" -> IF applies THEN Ready(m, None) ELSE None

ShownTurn == IF record = None THEN None ELSE record.turn

IngestRead ==
  /\ reading = None /\ feed # <<>>
  /\ feed' = Tail(feed)
  /\ reading' =
       SessionAfter(Head(feed), IF record = None THEN DefaultMode ELSE record.mode, ShownTurn)
  /\ UNCHANGED <<thread, binding, adapter, worker, calls, raced, bounds>>

IngestSet ==
  /\ reading # None
  /\ record' = reading
  /\ reading' = None
  /\ UNCHANGED <<mode, deleted, binding, adapter, feed, worker, calls, raced, bounds>>

-----------------------------------------------------------------------------
(* ProviderSessionReaper, and time.                                        *)

Pending ==
  \/ inbox # <<>> \/ feed # <<>> \/ reading # None
  \/ \E c \in Callers \ {Reaper, Deletion} : calls[c].stage # "none"

\* The threshold is far longer than a call: it passes when nothing is on its way.
Age ==
  /\ binding # None /\ binding.fresh /\ ~Pending
  /\ binding' = [binding EXCEPT !.fresh = FALSE]
  /\ UNCHANGED <<thread, adapter, ingestion, worker, calls, raced, bounds>>

\* Mutant: only a thread whose session has ended is swept.
IdleWhenStopped ==
  /\ binding # None /\ binding.status # "stopped" /\ ~binding.fresh
  /\ record # None => record.status = "stopped"

\* What the sweep reads of the thread and of its binding; the stop follows later.
Idle ==
  /\ binding # None /\ binding.status # "stopped" /\ ~binding.fresh
  /\ record # None => record.turn = None

Sweep ==
  /\ calls[Reaper].stage = "none"
  /\ Idle
  /\ calls' = [calls EXCEPT ![Reaper] = CallOf("halt", DefaultMode)]
  /\ UNCHANGED <<thread, binding, adapter, ingestion, worker, raced, bounds>>

-----------------------------------------------------------------------------
(* The user, and the end of the server.                                    *)

Asks ==
  /\ ~deleted
  /\ requests < MaxRequests
  /\ requests' = requests + 1

RequestTurn ==
  /\ Asks
  /\ turns < MaxTurns
  /\ turns' = turns + 1
  /\ inbox' = Append(inbox, TurnStart(turns + 1))
  /\ UNCHANGED <<thread, binding, adapter, ingestion, starting, calls, raced, trouble>>

RequestMode(m) ==
  /\ Asks
  /\ m # mode
  /\ mode' = m
  /\ inbox' = Append(inbox, ModeSet)
  /\ UNCHANGED <<record, deleted, binding, adapter, ingestion, starting, calls, raced, turns,
                 trouble>>

\* thread.session.stop, which ws.ts also dispatches for an archived thread.
RequestStop ==
  /\ Asks
  /\ inbox' = Append(inbox, SessionStop)
  /\ UNCHANGED <<thread, binding, adapter, ingestion, starting, calls, raced, turns, trouble>>

\* thread.delete; ThreadDeletionReactor takes the event whenever it gets to it.
RequestDeletion ==
  /\ Asks
  /\ deleted' = TRUE
  /\ calls' = [calls EXCEPT ![Deletion] = CallOf("halt", DefaultMode)]
  /\ UNCHANGED <<mode, record, binding, adapter, ingestion, worker, raced, turns, trouble>>

\* A crash, or a shutdown, which notes the bindings as stopped.  The reactors hear
\* nothing of what was pending.
ServerEnds ==
  /\ trouble < MaxTrouble
  /\ trouble' = trouble + 1
  /\ \/ UNCHANGED binding
     \/ binding # None /\ binding' = [binding EXCEPT !.status = "stopped", !.fresh = TRUE]
  /\ record' = IF deleted THEN None ELSE record
  /\ contexts' = [i \in Contexts |-> None] /\ known' = 0
  /\ feed' = <<>> /\ reading' = None
  /\ inbox' = <<>> /\ starting' = 0
  /\ calls' = [c \in Callers |-> NoCall]
  /\ raced' = FALSE
  /\ UNCHANGED <<mode, deleted, turns, requests>>

User == RequestTurn \/ (\E m \in Modes : RequestMode(m)) \/ RequestStop \/ RequestDeletion

CallSteps(c) ==
  StartBegins(c) \/ StartReplaces(c) \/ StartOpens(c) \/ StartRecords(c)
    \/ StopBegins(c) \/ StopCloses(c) \/ StopNotes(c)
SendSteps(t) == SendRoutes(t) \/ SendTurn(t) \/ SendNotes(t) \/ SendFails(t)
WorkerSteps ==
  TakeTurnStart \/ TakeModeSet \/ BindSession \/ TakeSessionStop \/ RecordStop
    \/ ReactorGivesUp
IngestSteps == IngestRead \/ IngestSet
ContextSteps(i) == EndTurn(i) \/ EndExit(i)
Fault ==
  \/ \E c \in Callers : StartFails(c) \/ StopFails(c)
  \/ \E i \in Contexts : BeginExit(i)
  \/ ServerEnds

Next ==
  \/ User
  \/ \E c \in Callers : CallSteps(c)
  \/ \E t \in Turns : SendSteps(t)
  \/ WorkerSteps \/ IngestSteps
  \/ \E i \in Contexts : ContextSteps(i)
  \/ Age \/ Sweep
  \/ Fault

Spec == Init /\ [][Next]_vars

\* Fibers go on, a turn ends, the reaper's schedule repeats, and time passes.
FairSpec ==
  /\ Spec
  /\ \A c \in Callers : WF_vars(CallSteps(c))
  /\ \A t \in Turns : WF_vars(SendSteps(t))
  /\ WF_vars(WorkerSteps) /\ WF_vars(IngestSteps)
  /\ WF_vars(\E i \in Contexts : EndTurn(i))
  /\ WF_vars(\E i \in Contexts : EndExit(i))
  /\ WF_vars(Age) /\ WF_vars(Sweep)

-----------------------------------------------------------------------------
(* Properties.                                                             *)

TypeOK ==
  /\ mode \in Modes /\ record \in Session \cup {None} /\ deleted \in BOOLEAN
  /\ binding \in Binding \cup {None}
  /\ contexts \in [Contexts -> Context \cup {None}] /\ known \in 0..MaxContexts
  /\ feed \in Seq(RuntimeEvent) /\ reading \in Session \cup {None}
  /\ inbox \in Seq(Request) /\ starting \in 0..MaxTurns
  /\ calls \in [Callers -> Call]
  /\ raced \in BOOLEAN
  /\ turns \in 0..MaxTurns /\ requests \in 0..MaxRequests /\ trouble \in 0..MaxTrouble

\* While calls do not overlap, every session that lives is the one the adapter finds
\* for the thread: none runs on where no stop can reach it.
LiveSessionsAreKnown ==
  ~raced => \A i \in Contexts : In(i, "live") => known = i

Settled == ~Pending /\ ~UnderWay

\* When all has settled, nothing failed and no calls overlapped, the accounts of a
\* live session agree: it is bound as running in its mode, and the thread shows a
\* session with the turn it runs.
AccountsAgree ==
  Settled /\ ~raced /\ trouble = 0 /\ HasSession =>
    LET session == contexts[known]
    IN /\ binding.status = "running" /\ binding.mode = session.mode
       /\ record # None /\ record.status = "ready" /\ record.turn = session.turn

\* A session that is not used any more is stopped in the end, unless calls overlapped;
\* it may stay only when a failure or an end of the server left the thread showing a
\* turn, which the reaper takes for a running one.
SessionsReleased ==
  <>[](\/ raced
       \/ \A i \in Contexts : ~In(i, "live")
       \/ trouble > 0 /\ record # None /\ record.turn # None)

=============================================================================
