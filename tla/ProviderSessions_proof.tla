------------------------ MODULE ProviderSessions_proof ------------------------
(***************************************************************************)
(* For any number of turns, requests, sessions and failures: type          *)
(* correctness; that no session lives on unknown to the adapter while      *)
(* calls do not overlap; and that the accounts of a session agree in the   *)
(* end when, besides, nothing failed.                                      *)
(***************************************************************************)
EXTENDS ProviderSessions, SequenceTheorems, TLAPS

-----------------------------------------------------------------------------
(* The parts of the state.                                                 *)

LEMMA CallersDistinct ==
  /\ Reactor \in Callers /\ Reaper \in Callers /\ Deletion \in Callers
  /\ \A t \in Turns : Send(t) \in Callers /\ Send(t) # Reactor
  /\ Reaper # Reactor /\ Deletion # Reactor
BY DEF Reactor, Reaper, Deletion, Send, Callers

LEMMA EventsTyped ==
  ASSUME NEW t \in Turns
  PROVE  /\ SessionStarted \in RuntimeEvent /\ SessionExited \in RuntimeEvent
         /\ TurnStarted(t) \in RuntimeEvent /\ TurnCompleted(t) \in RuntimeEvent
BY DEF SessionStarted, SessionExited, TurnStarted, TurnCompleted, RuntimeEvent

LEMMA SessionEventsTyped ==
  SessionStarted \in RuntimeEvent /\ SessionExited \in RuntimeEvent
BY DEF SessionStarted, SessionExited, RuntimeEvent

\* Every live or closing session is a record of its type.
LEMMA ContextsTyped ==
  ASSUME TypeOK, NEW i \in Contexts, NEW phase, In(i, phase)
  PROVE  contexts[i] \in Context
BY DEF TypeOK, In

LEMMA CompletionTyped ==
  ASSUME TypeOK, NEW i \in Contexts, contexts[i] \in Context
  PROVE  Completion(i) \in Seq(RuntimeEvent)
<1>1. CASE contexts[i].turn = None
  BY <1>1 DEF Completion
<1>2. CASE contexts[i].turn # None
  <2>1. TurnCompleted(contexts[i].turn) \in RuntimeEvent
    BY <1>2 DEF Context, TurnCompleted, RuntimeEvent
  <2> QED BY <1>2, <2>1 DEF Completion
<1> QED BY <1>1, <1>2

LEMMA BeginClosingTyped ==
  ASSUME TypeOK, NEW i \in Contexts, contexts[i] \in Context,
         NEW phase \in {"closing", "exiting"}, BeginClosing(i, phase)
  PROVE  contexts' \in [Contexts -> Context \cup {None}] /\ feed' \in Seq(RuntimeEvent)
<1>1. contexts' \in [Contexts -> Context \cup {None}]
  BY DEF BeginClosing, TypeOK, Context
<1>2. feed' \in Seq(RuntimeEvent)
  BY CompletionTyped DEF BeginClosing, TypeOK
<1> QED BY <1>1, <1>2

LEMMA EndClosingTyped ==
  ASSUME TypeOK, NEW i, EndClosing(i)
  PROVE  contexts' \in [Contexts -> Context \cup {None}] /\ known' \in 0..MaxContexts
<1>1. contexts' \in [Contexts -> Context \cup {None}]
  BY DEF EndClosing, TypeOK
<1>2. known' \in 0..MaxContexts
  BY BoundsAreNaturals DEF EndClosing
<1> QED BY <1>1, <1>2

LEMMA KnownIsContext ==
  ASSUME TypeOK, HasSession PROVE known \in Contexts /\ contexts[known] \in Context
<1>1. known \in 0..MaxContexts /\ known # 0 /\ In(known, "live")
  BY DEF TypeOK, HasSession
<1>2. known \in Contexts
  BY <1>1, BoundsAreNaturals DEF Contexts
<1> QED BY <1>1, <1>2, ContextsTyped

LEMMA RaceTyped ==
  ASSUME TypeOK, NoteRace PROVE raced' \in BOOLEAN
BY DEF TypeOK, NoteRace

\* A caller's record stays one of its type when its stage, mode or context changes.
LEMMA GoesTyped ==
  ASSUME TypeOK, NEW c \in Callers, NEW stage \in Stages, Goes(c, stage)
  PROVE  calls' \in [Callers -> Call]
BY DEF Goes, TypeOK, Call

LEMMA HoldsTyped ==
  ASSUME TypeOK, NEW c \in Callers, NEW stage \in Stages, NEW i \in 0..MaxContexts
  PROVE  [calls EXCEPT ![c].stage = stage, ![c].context = i] \in [Callers -> Call]
<1>1. [calls[c] EXCEPT !.stage = stage, !.context = i] \in Call
  BY DEF TypeOK, Call
<1> QED BY <1>1 DEF TypeOK

LEMMA CallsTyped ==
  ASSUME TypeOK, NEW c \in Callers, NEW call \in Call
  PROVE  [calls EXCEPT ![c] = call] \in [Callers -> Call]
BY DEF TypeOK

LEMMA CallOfTyped ==
  ASSUME NEW stage \in Stages, NEW m \in Modes
  PROVE  CallOf(stage, m) \in Call
BY BoundsAreNaturals DEF CallOf, Call

LEMMA NoCallTyped == NoCall \in Call
BY BoundsAreNaturals, DefaultIsAMode DEF NoCall, Call, Stages

LEMMA ClearTurnTyped ==
  ASSUME TypeOK PROVE ClearTurn \in Session \cup {None}
BY DEF TypeOK, ClearTurn, Session

LEMMA SessionsTyped ==
  ASSUME NEW m \in Modes, NEW t \in Turns \cup {None}
  PROVE  Ready(m, t) \in Session /\ Stopped(m) \in Session
BY DEF Ready, Stopped, Session

-----------------------------------------------------------------------------
(* Without a binding only the reactor's first start is under way.          *)

BeforeBinding(c) ==
  IF c = Reactor THEN {"none", "begin", "replace", "open", "record", "halt", "failed"}
  ELSE {"none", "halt"}
BindingInv ==
  binding = None =>
    /\ \A c \in Callers : calls[c].stage \in BeforeBinding(c)
    /\ known # 0 => calls[Reactor].stage = "record"
TypeInv == TypeOK /\ BindingInv

LEMMA BoundBinding ==
  ASSUME TypeOK, binding # None PROVE binding \in Binding
BY DEF TypeOK

LEMMA InitTyped == Init => TypeInv
<1> SUFFICES ASSUME Init PROVE TypeInv
  OBVIOUS
<1>1. calls \in [Callers -> Call] /\ \A c \in Callers : calls[c].stage = "none"
  BY BoundsAreNaturals, DefaultIsAMode DEF Init, NoCall, Call, Stages
<1>2. /\ contexts \in [Contexts -> Context \cup {None}] /\ known \in 0..MaxContexts
      /\ starting \in 0..MaxTurns
      /\ turns \in 0..MaxTurns /\ requests \in 0..MaxRequests /\ trouble \in 0..MaxTrouble
  BY BoundsAreNaturals DEF Init
<1>3. feed \in Seq(RuntimeEvent) /\ inbox \in Seq(Request)
  BY DEF Init
<1>4. TypeOK
  BY <1>1, <1>2, <1>3, DefaultIsAMode DEF Init, TypeOK
<1>5. BindingInv
  BY <1>1 DEF Init, BindingInv, BeforeBinding
<1> QED BY <1>4, <1>5 DEF TypeInv

\* A start.
LEMMA StartTyped ==
  ASSUME TypeInv, NEW c \in Callers
  PROVE  StartBegins(c) \/ StartReplaces(c) \/ StartOpens(c) \/ StartRecords(c)
           \/ StartFails(c) => TypeOK'
<1> USE DEF TypeInv
<1>1. CASE StartBegins(c)
  <2>1. CASE HasSession
    <3>1. BeginClosing(known, "closing")
          /\ calls' = [calls EXCEPT ![c].stage = "replace", ![c].context = known]
      BY <1>1, <2>1 DEF StartBegins
    <3>2. contexts' \in [Contexts -> Context \cup {None}] /\ feed' \in Seq(RuntimeEvent)
      BY <2>1, <3>1, KnownIsContext, BeginClosingTyped
    <3>3. calls' \in [Callers -> Call]
      BY ZenonT(40), <3>1 DEF TypeOK, Call, Stages, StartStages
    <3> QED
      BY <1>1, <3>2, <3>3, RaceTyped
      DEF StartBegins, TypeOK, thread, worker, bounds
  <2>2. CASE ~HasSession
    <3>1. Goes(c, "open") /\ UNCHANGED <<contexts, feed>>
      BY <1>1, <2>2 DEF StartBegins
    <3>2. calls' \in [Callers -> Call]
      BY <3>1, GoesTyped DEF Stages, StartStages
    <3> QED
      BY <1>1, <3>1, <3>2, RaceTyped
      DEF StartBegins, TypeOK, thread, worker, bounds
  <2> QED BY <2>1, <2>2
<1>2. CASE StartReplaces(c)
  <2>1. calls' \in [Callers -> Call]
    <3>1. 0 \in 0..MaxContexts /\ "open" \in Stages
      BY BoundsAreNaturals DEF Stages, StartStages
    <3> QED BY <1>2, <3>1, HoldsTyped DEF StartReplaces
  <2>2. contexts' \in [Contexts -> Context \cup {None}] /\ known' \in 0..MaxContexts
    BY <1>2, EndClosingTyped DEF StartReplaces
  <2> QED
    BY <1>2, <2>1, <2>2 DEF StartReplaces, TypeOK, thread, ingestion, worker, bounds
<1>3. CASE StartOpens(c)
  <2>1. calls[c] \in Call
    BY DEF TypeOK
  <2>2. contexts' \in [Contexts -> Context \cup {None}] /\ known' \in 0..MaxContexts
    <3>1. PICK i \in Contexts :
            /\ contexts' = [contexts EXCEPT ![i] =
                              [mode |-> calls[c].mode, turn |-> None, phase |-> "live"]]
            /\ known' = i
      BY <1>3 DEF StartOpens
    <3>2. [mode |-> calls[c].mode, turn |-> None, phase |-> "live"] \in Context
      BY <2>1 DEF Call, Context
    <3>3. known' \in 0..MaxContexts
      BY <3>1, BoundsAreNaturals DEF Contexts
    <3> QED BY <3>1, <3>2, <3>3 DEF TypeOK
  <2>3. feed' \in Seq(RuntimeEvent)
    BY <1>3, SessionEventsTyped DEF StartOpens, TypeOK
  <2>4. calls' \in [Callers -> Call]
    BY <1>3, GoesTyped DEF StartOpens, Stages, StartStages
  <2> QED
    BY <1>3, <2>2, <2>3, <2>4 DEF StartOpens, TypeOK, thread, worker, bounds
<1>4. CASE StartRecords(c)
  <2>1. binding' \in Binding
    BY <1>4 DEF StartRecords, Binding, TypeOK, Call
  <2>2. calls' \in [Callers -> Call]
    BY <1>4, GoesTyped DEF StartRecords, Stages
  <2> QED
    BY <1>4, <2>1, <2>2
    DEF StartRecords, TypeOK, thread, adapter, ingestion, worker, bounds
<1>5. CASE StartFails(c)
  <2>1. calls' \in [Callers -> Call]
    BY <1>5, GoesTyped DEF StartFails, Stages
  <2>2. trouble' \in 0..MaxTrouble
    BY <1>5, BoundsAreNaturals DEF StartFails, TypeOK
  <2> QED
    BY <1>5, <2>1, <2>2
    DEF StartFails, TypeOK, thread, adapter, ingestion, worker, bounds
<1> QED BY <1>1, <1>2, <1>3, <1>4, <1>5

\* A stop.
LEMMA StopTyped ==
  ASSUME TypeInv, NEW c \in Callers
  PROVE  StopBegins(c) \/ StopCloses(c) \/ StopNotes(c) \/ StopFails(c) => TypeOK'
<1> USE DEF TypeInv
<1>0. Ended(c, "failed") \in Stages /\ Ended(c, "stopped") \in Stages
  BY DEF Ended, Stages
<1>1. CASE StopBegins(c)
  <2>1. CASE binding # None /\ HasSession
    <3>1. BeginClosing(known, "closing")
          /\ calls' = [calls EXCEPT ![c].stage = "close", ![c].context = known]
      BY <1>1, <2>1 DEF StopBegins
    <3>2. contexts' \in [Contexts -> Context \cup {None}] /\ feed' \in Seq(RuntimeEvent)
      BY <2>1, <3>1, KnownIsContext, BeginClosingTyped
    <3>3. calls' \in [Callers -> Call]
      BY ZenonT(40), <3>1 DEF TypeOK, Call, Stages, StopStages
    <3> QED
      BY <1>1, <3>2, <3>3, RaceTyped DEF StopBegins, TypeOK, thread, worker, bounds
  <2>2. CASE ~(binding # None /\ HasSession)
    <3>1. UNCHANGED <<contexts, feed>>
          /\ (Goes(c, Ended(c, "failed")) \/ Goes(c, "note"))
      BY <1>1, <2>2 DEF StopBegins
    <3>2. calls' \in [Callers -> Call]
      BY <1>0, <3>1, GoesTyped DEF Stages, StopStages
    <3> QED
      BY <1>1, <3>1, <3>2, RaceTyped DEF StopBegins, TypeOK, thread, worker, bounds
  <2> QED BY <2>1, <2>2
<1>2. CASE StopCloses(c)
  <2>1. calls' \in [Callers -> Call]
    <3>1. 0 \in 0..MaxContexts /\ "note" \in Stages
      BY BoundsAreNaturals DEF Stages, StopStages
    <3> QED BY <1>2, <3>1, HoldsTyped DEF StopCloses
  <2>2. contexts' \in [Contexts -> Context \cup {None}] /\ known' \in 0..MaxContexts
    BY <1>2, EndClosingTyped DEF StopCloses
  <2>3. feed' \in Seq(RuntimeEvent)
    BY <1>2, SessionEventsTyped DEF StopCloses, TypeOK
  <2> QED
    BY <1>2, <2>1, <2>2, <2>3 DEF StopCloses, TypeOK, thread, worker, bounds
<1>3. CASE StopNotes(c)
  <2>1. binding # None
    BY <1>3 DEF StopNotes, BindingInv, BeforeBinding
  <2>2. binding' \in Binding
    BY <1>3, <2>1, BoundBinding DEF StopNotes, Binding
  <2>3. calls' \in [Callers -> Call]
    BY <1>0, <1>3, GoesTyped DEF StopNotes
  <2> QED
    BY <1>3, <2>2, <2>3 DEF StopNotes, TypeOK, thread, adapter, ingestion, worker, bounds
<1>4. CASE StopFails(c)
  <2>1. calls' \in [Callers -> Call]
    BY <1>0, <1>4, GoesTyped DEF StopFails
  <2>2. trouble' \in 0..MaxTrouble
    BY <1>4, BoundsAreNaturals DEF StopFails, TypeOK
  <2> QED
    BY <1>4, <2>1, <2>2 DEF StopFails, TypeOK, thread, adapter, ingestion, worker, bounds
<1> QED BY <1>1, <1>2, <1>3, <1>4

\* A turn that is sent.
LEMMA SendTyped ==
  ASSUME TypeInv, NEW t \in Turns
  PROVE  SendSteps(t) => TypeOK'
<1> USE DEF TypeInv
<1>0. Send(t) \in Callers /\ Send(t) # Reactor
  BY CallersDistinct
<1>1. CASE SendRoutes(t)
  <2>1. binding \in Binding
    BY <1>0, <1>1, BoundBinding DEF SendRoutes, BindingInv, BeforeBinding
  <2>2. CallOf("send", DefaultMode) \in Call /\ CallOf("begin", binding.mode) \in Call
    BY <2>1, CallOfTyped, DefaultIsAMode DEF Stages, Binding
  <2>3. calls' \in [Callers -> Call]
    BY <1>0, <1>1, <2>2 DEF SendRoutes, TypeOK
  <2> QED
    BY <1>1, <2>3, RaceTyped DEF SendRoutes, TypeOK, thread, adapter, ingestion, worker, bounds
<1>2. CASE SendTurn(t)
  <2>1. CASE HasSession
    <3>0. known \in Contexts /\ contexts[known] \in Context
      BY <2>1, KnownIsContext
    <3>1. contexts' \in [Contexts -> Context \cup {None}]
      <4>1. [contexts[known] EXCEPT !.turn = t] \in Context
        BY <3>0 DEF Context
      <4>2. contexts' = [contexts EXCEPT ![known].turn = t]
        BY <1>2, <2>1 DEF SendTurn
      <4> QED BY <3>0, <4>1, <4>2 DEF TypeOK
    <3>2. Completion(known) \in Seq(RuntimeEvent) /\ TurnStarted(t) \in RuntimeEvent
      BY <3>0, CompletionTyped, EventsTyped
    <3>3. feed' \in Seq(RuntimeEvent)
      <4>1. feed' = feed \o Append(Completion(known), TurnStarted(t))
        BY <1>2, <2>1 DEF SendTurn
      <4> QED BY <3>2, <4>1 DEF TypeOK
    <3>4. calls' \in [Callers -> Call]
      BY <1>0, <1>2, <2>1, GoesTyped DEF SendTurn, Stages
    <3> QED
      BY <1>2, <3>1, <3>3, <3>4 DEF SendTurn, TypeOK, thread, worker, bounds
  <2>2. CASE ~HasSession
    <3>1. calls' \in [Callers -> Call]
      BY <1>0, <1>2, <2>2, GoesTyped DEF SendTurn, Stages
    <3> QED
      BY <1>2, <2>2, <3>1 DEF SendTurn, TypeOK, thread, worker, bounds
  <2> QED BY <2>1, <2>2
<1>3. CASE SendNotes(t)
  <2>1. binding \in Binding
    BY <1>0, <1>3, BoundBinding DEF SendNotes, BindingInv, BeforeBinding
  <2>2. binding' \in Binding
    BY <1>3, <2>1 DEF SendNotes, Binding
  <2>3. calls' \in [Callers -> Call]
    BY <1>3, NoCallTyped DEF SendNotes, TypeOK
  <2> QED
    BY <1>3, <2>2, <2>3 DEF SendNotes, TypeOK, thread, adapter, ingestion, worker, bounds
<1>4. CASE SendFails(t)
  <2>1. calls' \in [Callers -> Call]
    BY <1>4, NoCallTyped DEF SendFails, TypeOK
  <2> QED
    BY <1>4, <2>1, ClearTurnTyped
    DEF SendFails, TypeOK, adapter, ingestion, worker, bounds
<1> QED BY <1>1, <1>2, <1>3, <1>4 DEF SendSteps

\* The command reactor.
LEMMA WorkerTyped ==
  ASSUME TypeInv
  PROVE  WorkerSteps => TypeOK'
<1> USE DEF TypeInv
<1>0. Reactor \in Callers
  BY CallersDistinct
<1>1. ASSUME NEW type, Takes(type)
      PROVE  inbox' \in Seq(Request) /\ Head(inbox) \in Request
  BY <1>1 DEF Takes, TypeOK
<1>2. CASE TakeTurnStart
  <2>1. inbox' \in Seq(Request) /\ Head(inbox).turn \in 0..MaxTurns
    BY <1>1, <1>2 DEF TakeTurnStart, Request
  <2>2. CallOf("route", DefaultMode) \in Call /\ CallOf("begin", mode) \in Call
    BY CallOfTyped, DefaultIsAMode DEF TypeOK, Stages
  <2>3. calls' \in [Callers -> Call]
    BY <1>2, <2>2 DEF TakeTurnStart, TypeOK
  <2>4. starting' \in 0..MaxTurns
    BY <1>2, <2>1 DEF TakeTurnStart, TypeOK
  <2> QED
    BY <1>2, <2>1, <2>3, <2>4 DEF TakeTurnStart, TypeOK, thread, adapter, ingestion, bounds
<1>3. CASE TakeModeSet
  <2>1. inbox' \in Seq(Request)
    BY <1>1, <1>3 DEF TakeModeSet
  <2>2. CallOf("begin", mode) \in Call
    BY CallOfTyped DEF TypeOK, Stages
  <2>3. calls' \in [Callers -> Call]
    BY <1>3, <2>2 DEF TakeModeSet, TypeOK
  <2> QED
    BY <1>3, <2>1, <2>3 DEF TakeModeSet, TypeOK, thread, adapter, ingestion, bounds
<1>4. CASE BindSession
  <2>1. calls[Reactor] \in Call /\ CallOf("route", DefaultMode) \in Call /\ NoCall \in Call
    BY <1>0, CallOfTyped, NoCallTyped, DefaultIsAMode DEF TypeOK, Stages
  <2>2. record' \in Session
    BY <1>4, <2>1, SessionsTyped DEF BindSession, Call
  <2>3. calls' \in [Callers -> Call]
    BY <1>4, <2>1 DEF BindSession, TypeOK
  <2>4. starting' \in 0..MaxTurns
    BY <1>4, BoundsAreNaturals DEF BindSession
  <2> QED
    BY <1>4, <2>2, <2>3, <2>4 DEF BindSession, TypeOK, adapter, ingestion, bounds
<1>5. CASE TakeSessionStop
  <2> DEFINE m == IF record = None THEN DefaultMode ELSE record.mode
  <2>1. m \in Modes
    BY DefaultIsAMode DEF TypeOK, Session
  <2>2. inbox' \in Seq(Request)
    BY <1>1, <1>5 DEF TakeSessionStop
  <2>3. CallOf("halt", m) \in Call /\ Stopped(m) \in Session
    BY <2>1, CallOfTyped, SessionsTyped DEF Stages
  <2>4. calls' \in [Callers -> Call] /\ record' \in Session \cup {None}
    <3> HIDE DEF m
    <3>1. IF Running
          THEN calls' = [calls EXCEPT ![Reactor] = CallOf("halt", m)] /\ UNCHANGED record
          ELSE record' = Stopped(m) /\ UNCHANGED calls
      BY <1>5 DEF TakeSessionStop, m
    <3> QED BY <2>3, <3>1 DEF TypeOK
  <2> QED
    BY <1>5, <2>2, <2>4 DEF TakeSessionStop, TypeOK, adapter, ingestion, bounds
<1>6. CASE RecordStop
  <2>1. calls[Reactor].mode \in Modes
    BY <1>0 DEF TypeOK, Call
  <2>2. record' \in Session
    BY <1>6, <2>1, SessionsTyped DEF RecordStop
  <2>3. calls' \in [Callers -> Call]
    BY <1>6, NoCallTyped DEF RecordStop, TypeOK
  <2> QED
    BY <1>6, <2>2, <2>3 DEF RecordStop, TypeOK, adapter, ingestion, worker, bounds
<1>7. CASE ReactorGivesUp
  <2>1. record' \in Session \cup {None}
    BY <1>7, ClearTurnTyped DEF ReactorGivesUp, TypeOK
  <2>2. calls' \in [Callers -> Call]
    BY <1>7, NoCallTyped DEF ReactorGivesUp, TypeOK
  <2>3. starting' \in 0..MaxTurns
    BY <1>7, BoundsAreNaturals DEF ReactorGivesUp
  <2> QED
    BY <1>7, <2>1, <2>2, <2>3 DEF ReactorGivesUp, TypeOK, adapter, ingestion, bounds
<1> QED BY <1>2, <1>3, <1>4, <1>5, <1>6, <1>7 DEF WorkerSteps

\* The ingestion.
LEMMA IngestTyped ==
  ASSUME TypeInv
  PROVE  IngestSteps => TypeOK'
<1> USE DEF TypeInv
<1>1. CASE IngestRead
  <2> DEFINE m == IF record = None THEN DefaultMode ELSE record.mode
             e == Head(feed)
  <2>1. m \in Modes /\ ShownTurn \in Turns \cup {None}
    BY DefaultIsAMode DEF TypeOK, Session, ShownTurn
  <2>2. e \in RuntimeEvent /\ feed' \in Seq(RuntimeEvent)
    BY <1>1 DEF IngestRead, TypeOK
  <2>3. reading' = SessionAfter(e, m, ShownTurn)
    BY <1>1 DEF IngestRead
  <2> HIDE DEF m, e
  <2>4. SessionAfter(e, m, ShownTurn) \in Session \cup {None}
    <3>1. e.turn \in Turns \cup {None}
          /\ e.type \in {"session.started", "session.exited", "turn.started",
                         "turn.completed"}
      BY <2>2 DEF RuntimeEvent
    <3>2. /\ Ready(m, ShownTurn) \in Session /\ Stopped(m) \in Session
          /\ Ready(m, e.turn) \in Session /\ Ready(m, None) \in Session
      BY <2>1, <3>1, SessionsTyped
    <3> QED BY <3>1, <3>2 DEF SessionAfter
  <2> QED
    BY <1>1, <2>2, <2>3, <2>4 DEF IngestRead, TypeOK, thread, adapter, worker, bounds
<1>2. CASE IngestSet
  BY <1>2 DEF IngestSet, TypeOK, adapter, worker, bounds
<1> QED BY <1>1, <1>2 DEF IngestSteps

\* The provider's own steps.
LEMMA ContextTyped ==
  ASSUME TypeInv, NEW i \in Contexts
  PROVE  ContextSteps(i) \/ BeginExit(i) => TypeOK'
<1> USE DEF TypeInv
<1>1. CASE EndTurn(i)
  <2>1. contexts[i] \in Context
    BY <1>1, ContextsTyped DEF EndTurn
  <2>2. contexts' \in [Contexts -> Context \cup {None}]
    BY <1>1, <2>1 DEF EndTurn, TypeOK, Context
  <2>3. feed' \in Seq(RuntimeEvent)
    BY <1>1, <2>1, CompletionTyped DEF EndTurn, TypeOK
  <2> QED
    BY <1>1, <2>2, <2>3 DEF EndTurn, TypeOK, thread, worker, bounds
<1>2. CASE EndExit(i)
  <2>1. contexts' \in [Contexts -> Context \cup {None}] /\ known' \in 0..MaxContexts
    BY <1>2, EndClosingTyped DEF EndExit
  <2>2. feed' \in Seq(RuntimeEvent)
    BY <1>2, SessionEventsTyped DEF EndExit, TypeOK
  <2> QED
    BY <1>2, <2>1, <2>2 DEF EndExit, TypeOK, thread, worker, bounds
<1>3. CASE BeginExit(i)
  <2>1. contexts[i] \in Context
    BY <1>3, ContextsTyped DEF BeginExit
  <2>2. contexts' \in [Contexts -> Context \cup {None}] /\ feed' \in Seq(RuntimeEvent)
    BY <1>3, <2>1, BeginClosingTyped DEF BeginExit
  <2>3. trouble' \in 0..MaxTrouble
    BY <1>3, BoundsAreNaturals DEF BeginExit, TypeOK
  <2> QED
    BY <1>3, <2>2, <2>3, RaceTyped DEF BeginExit, TypeOK, thread, worker
<1> QED BY <1>1, <1>2, <1>3 DEF ContextSteps

\* The user, the reaper, time, and the end of the server.
LEMMA OutsideTyped ==
  ASSUME TypeInv
  PROVE  User \/ Age \/ Sweep \/ ServerEnds => TypeOK'
<1> USE DEF TypeInv
<1>0. CallOf("halt", DefaultMode) \in Call /\ NoCall \in Call
  BY CallOfTyped, NoCallTyped, DefaultIsAMode DEF Stages
<1>1. Asks => requests' \in 0..MaxRequests
  BY BoundsAreNaturals DEF Asks, TypeOK
<1>2. CASE RequestTurn
  <2>1. turns' \in 0..MaxTurns /\ TurnStart(turns + 1) \in Request
    BY <1>2, BoundsAreNaturals DEF RequestTurn, TypeOK, TurnStart, Request
  <2>2. inbox' \in Seq(Request)
    BY <1>2, <2>1 DEF RequestTurn, TypeOK
  <2> QED
    BY <1>1, <1>2, <2>1, <2>2 DEF RequestTurn, TypeOK, thread, adapter, ingestion
<1>3. ASSUME NEW m \in Modes, RequestMode(m) PROVE TypeOK'
  <2>1. inbox' \in Seq(Request)
    BY <1>3, BoundsAreNaturals DEF RequestMode, TypeOK, ModeSet, Request
  <2> QED
    BY <1>1, <1>3, <2>1 DEF RequestMode, TypeOK, adapter, ingestion
<1>4. CASE RequestStop
  <2>1. inbox' \in Seq(Request)
    BY <1>4, BoundsAreNaturals DEF RequestStop, TypeOK, SessionStop, Request
  <2> QED
    BY <1>1, <1>4, <2>1 DEF RequestStop, TypeOK, thread, adapter, ingestion
<1>5. CASE RequestDeletion
  <2>1. calls' \in [Callers -> Call]
    BY <1>0, <1>5 DEF RequestDeletion, TypeOK
  <2> QED
    BY <1>1, <1>5, <2>1 DEF RequestDeletion, TypeOK, adapter, ingestion, worker
<1>6. CASE Age
  <2>1. binding' \in Binding
    BY <1>6, BoundBinding DEF Age, Binding
  <2> QED
    BY <1>6, <2>1 DEF Age, TypeOK, thread, adapter, ingestion, worker, bounds
<1>7. CASE Sweep
  <2>1. calls' \in [Callers -> Call]
    BY <1>0, <1>7 DEF Sweep, TypeOK
  <2> QED
    BY <1>7, <2>1 DEF Sweep, TypeOK, thread, adapter, ingestion, worker, bounds
<1>8. CASE ServerEnds
  <2>1. binding' \in Binding \cup {None}
    <3>1. binding' = binding
            \/ (binding # None /\ binding' = [binding EXCEPT !.status = "stopped", !.fresh = TRUE])
      BY <1>8 DEF ServerEnds
    <3> QED BY <3>1, BoundBinding DEF Binding, TypeOK
  <2>2. trouble' \in 0..MaxTrouble
    BY <1>8, BoundsAreNaturals DEF ServerEnds, TypeOK
  <2>3. contexts' \in [Contexts -> Context \cup {None}] /\ known' \in 0..MaxContexts
        /\ starting' \in 0..MaxTurns
    BY <1>8, BoundsAreNaturals DEF ServerEnds
  <2>4. calls' \in [Callers -> Call] /\ feed' \in Seq(RuntimeEvent) /\ inbox' \in Seq(Request)
    BY <1>0, <1>8 DEF ServerEnds
  <2> QED
    BY <1>8, <2>1, <2>2, <2>3, <2>4 DEF ServerEnds, TypeOK
<1> QED BY <1>2, <1>3, <1>4, <1>5, <1>6, <1>7, <1>8 DEF User

-----------------------------------------------------------------------------
(* The binding.                                                            *)

\* A step that moves one caller to a stage it may have without a binding.
LEMMA MoveBinds ==
  ASSUME TypeInv, binding = None, NEW c \in Callers,
         \A d \in Callers : d # c => calls'[d] = calls[d],
         calls'[c].stage \in BeforeBinding(c),
         known' # 0 => calls'[Reactor].stage = "record"
  PROVE  BindingInv'
BY DEF TypeInv, BindingInv

LEMMA StartBinds ==
  ASSUME TypeInv, NEW c \in Callers, binding' = None
  PROVE  StartBegins(c) \/ StartReplaces(c) \/ StartOpens(c) \/ StartRecords(c)
           \/ StartFails(c) => BindingInv'
<1>0. calls \in [Callers -> Call]
  BY DEF TypeInv, TypeOK
<1>1. ASSUME binding = None, calls[c].stage \notin {"none", "halt"}
      PROVE  c = Reactor /\ (known # 0 => calls[c].stage = "record")
  BY <1>1 DEF TypeInv, BindingInv, BeforeBinding
<1>2. CASE StartBegins(c)
  <2>1. binding = None /\ calls[c].stage = "begin"
    BY <1>2 DEF StartBegins
  <2>2. c = Reactor /\ known = 0
    BY <1>1, <2>1
  <2>3. calls' = [calls EXCEPT ![c].stage = "open"] /\ known' = 0
    BY <1>2, <2>2 DEF StartBegins, HasSession, Goes
  <2> QED BY <1>0, <2>1, <2>2, <2>3, MoveBinds DEF Call, BeforeBinding
<1>3. CASE StartReplaces(c)
  <2>1. binding = None /\ calls[c].stage = "replace"
    BY <1>3 DEF StartReplaces
  <2>2. c = Reactor
    BY <1>1, <2>1
  <2>3. calls' = [calls EXCEPT ![c].stage = "open", ![c].context = 0] /\ known' = 0
    BY <1>3 DEF StartReplaces, EndClosing
  <2> QED BY <1>0, <2>1, <2>2, <2>3, MoveBinds DEF Call, BeforeBinding
<1>4. CASE StartOpens(c)
  <2>1. binding = None /\ calls[c].stage = "open"
    BY <1>4 DEF StartOpens
  <2>2. c = Reactor
    BY <1>1, <2>1
  <2>3. calls' = [calls EXCEPT ![c].stage = "record"]
    BY <1>4 DEF StartOpens, Goes
  <2> QED BY <1>0, <2>1, <2>2, <2>3, MoveBinds DEF Call, BeforeBinding
<1>5. CASE StartRecords(c)
  <2>1. binding' \in Binding
    BY <1>0, <1>5 DEF StartRecords, Binding, Call
  <2> QED BY <2>1, NoneIsNoBinding
<1>6. CASE StartFails(c)
  <2>1. binding = None /\ calls[c].stage \in {"begin", "open"} /\ known' = known
    BY <1>6 DEF StartFails, adapter
  <2>2. c = Reactor /\ known = 0
    BY <1>1, <2>1
  <2>3. calls' = [calls EXCEPT ![c].stage = "failed"]
    BY <1>6 DEF StartFails, Goes
  <2> QED BY <1>0, <2>1, <2>2, <2>3, MoveBinds DEF Call, BeforeBinding
<1> QED BY <1>2, <1>3, <1>4, <1>5, <1>6

LEMMA StopBinds ==
  ASSUME TypeInv, NEW c \in Callers, binding' = None
  PROVE  StopBegins(c) \/ StopCloses(c) \/ StopNotes(c) \/ StopFails(c) => BindingInv'
<1>0. calls \in [Callers -> Call]
  BY DEF TypeInv, TypeOK
<1>1. ASSUME binding = None
      PROVE  calls[c].stage \notin {"close", "note"}
             /\ (known # 0 => c # Reactor \/ calls[c].stage = "record")
             /\ (known # 0 => calls[Reactor].stage = "record")
  BY <1>1 DEF TypeInv, BindingInv, BeforeBinding
<1>2. Ended(c, "failed") \in BeforeBinding(c)
  BY DEF Ended, BeforeBinding
<1>3. CASE StopBegins(c) \/ StopFails(c)
  <2>1. binding = None /\ calls[c].stage \in {"halt", "note"} /\ known' = known
    BY <1>3 DEF StopBegins, StopFails, adapter
  <2>2. calls' = [calls EXCEPT ![c].stage = Ended(c, "failed")]
    BY <1>3, <2>1 DEF StopBegins, StopFails, Goes
  <2>3. known' # 0 => calls'[Reactor].stage = "record"
    BY <1>0, <1>1, <2>1, <2>2 DEF Call
  <2> QED BY <1>0, <1>2, <2>1, <2>2, <2>3, MoveBinds DEF Call
<1>4. CASE StopCloses(c)
  BY <1>1, <1>4 DEF StopCloses
<1>5. CASE StopNotes(c)
  <2>1. binding # None
    BY <1>1, <1>5 DEF StopNotes
  <2>2. binding' \in Binding
    BY <1>5, <2>1, BoundBinding DEF StopNotes, Binding, TypeInv
  <2> QED BY <2>2, NoneIsNoBinding
<1> QED BY <1>3, <1>4, <1>5

LEMMA SendBinds ==
  ASSUME TypeInv, NEW t \in Turns, binding' = None
  PROVE  SendSteps(t) => BindingInv'
<1>1. Send(t) \in Callers /\ Send(t) # Reactor
  BY CallersDistinct
<1>2. binding = None => calls[Send(t)].stage \in {"none", "halt"}
  BY <1>1 DEF TypeInv, BindingInv, BeforeBinding
<1>3. SendNotes(t) => binding' \in Binding
  <2>1. SendNotes(t) => binding # None
    BY <1>2 DEF SendNotes
  <2> QED BY <2>1, BoundBinding DEF SendNotes, Binding, TypeInv
<1> QED
  BY <1>2, <1>3, NoneIsNoBinding DEF SendSteps, SendRoutes, SendTurn, SendFails

LEMMA WorkerBinds ==
  ASSUME TypeInv, binding' = None
  PROVE  WorkerSteps => BindingInv'
<1>0. calls \in [Callers -> Call] /\ Reactor \in Callers
  BY CallersDistinct DEF TypeInv, TypeOK
<1> SUFFICES ASSUME WorkerSteps PROVE BindingInv'
  OBVIOUS
<1>1. binding = None /\ known' = known
  BY DEF WorkerSteps, TakeTurnStart, TakeModeSet, BindSession, TakeSessionStop, RecordStop,
         ReactorGivesUp, adapter
<1>2. calls[Reactor].stage \in BeforeBinding(Reactor)
      /\ (known # 0 => calls[Reactor].stage = "record")
  BY <1>0, <1>1 DEF TypeInv, BindingInv
<1>3. calls[Reactor].stage \notin {"started", "stopped"}
  BY <1>2 DEF BeforeBinding
<1>4. calls[Reactor].stage \in {"none", "failed"}
  BY <1>3 DEF WorkerSteps, TakeTurnStart, TakeModeSet, BindSession, TakeSessionStop, RecordStop,
              ReactorGivesUp, Takes
<1>5. known = 0
  BY <1>2, <1>4
<1>6. ASSUME NEW m, calls' = [calls EXCEPT ![Reactor] = CallOf("begin", m)]
                      \/ calls' = [calls EXCEPT ![Reactor] = CallOf("halt", m)]
                      \/ calls' = [calls EXCEPT ![Reactor] = NoCall]
      PROVE  BindingInv'
  <2>1. /\ CallOf("begin", m).stage \in BeforeBinding(Reactor)
        /\ CallOf("halt", m).stage \in BeforeBinding(Reactor)
        /\ NoCall.stage \in BeforeBinding(Reactor)
    BY DEF CallOf, NoCall, BeforeBinding
  <2>2. calls'[Reactor].stage \in BeforeBinding(Reactor)
    BY <1>0, <1>6, <2>1
  <2>3. \A d \in Callers : d # Reactor => calls'[d] = calls[d]
    BY <1>0, <1>6
  <2> QED BY <1>0, <1>1, <1>5, <2>2, <2>3, MoveBinds
<1>7. ASSUME UNCHANGED calls PROVE BindingInv'
  BY <1>1, <1>7 DEF TypeInv, BindingInv
<1>8. ~KeepsSession
  BY <1>5 DEF KeepsSession
<1>9. CASE TakeTurnStart
  BY <1>6, <1>8, <1>9 DEF TakeTurnStart
<1>10. CASE TakeModeSet
  BY <1>6, <1>7, <1>10 DEF TakeModeSet
<1>11. CASE TakeSessionStop
  BY <1>6, <1>7, <1>11 DEF TakeSessionStop
<1>12. CASE ReactorGivesUp
  BY <1>6, <1>12 DEF ReactorGivesUp
<1>13. CASE BindSession \/ RecordStop
  BY <1>3, <1>13 DEF BindSession, RecordStop
<1> QED BY <1>9, <1>10, <1>11, <1>12, <1>13 DEF WorkerSteps

LEMMA OthersBind ==
  ASSUME TypeInv, binding' = None
  PROVE  User \/ IngestSteps \/ Age \/ Sweep \/ ServerEnds
           \/ (\E i \in Contexts : ContextSteps(i) \/ BeginExit(i)) => BindingInv'
<1>0. calls \in [Callers -> Call] /\ Deletion \in Callers /\ Deletion # Reactor
      /\ Reactor \in Callers
  BY CallersDistinct DEF TypeInv, TypeOK
<1>1. ASSUME UNCHANGED <<binding, calls>>, known' \in {known, 0} PROVE BindingInv'
  BY <1>1 DEF TypeInv, BindingInv
<1>2. CASE IngestSteps
  BY <1>1, <1>2 DEF IngestSteps, IngestRead, IngestSet, adapter
<1>3. CASE \E i \in Contexts : ContextSteps(i) \/ BeginExit(i)
  BY <1>1, <1>3 DEF ContextSteps, EndTurn, EndExit, BeginExit, EndClosing
<1>4. CASE RequestTurn \/ (\E m \in Modes : RequestMode(m)) \/ RequestStop
  BY <1>1, <1>4 DEF RequestTurn, RequestMode, RequestStop, adapter
<1>5. CASE RequestDeletion
  <2>1. binding = None /\ known' = known
        /\ calls' = [calls EXCEPT ![Deletion] = CallOf("halt", DefaultMode)]
    BY <1>5 DEF RequestDeletion, adapter
  <2>2. CallOf("halt", DefaultMode).stage \in BeforeBinding(Deletion)
    BY <1>0 DEF CallOf, BeforeBinding
  <2>3. known' # 0 => calls'[Reactor].stage = "record"
    BY <1>0, <2>1 DEF TypeInv, BindingInv
  <2> QED BY <1>0, <2>1, <2>2, <2>3, MoveBinds
<1>6. CASE Age
  <2>1. binding' \in Binding
    BY <1>6, BoundBinding DEF Age, Binding, TypeInv
  <2> QED BY <2>1, NoneIsNoBinding
<1>7. CASE Sweep
  BY <1>7 DEF Sweep, Idle
<1>8. CASE ServerEnds
  <2>1. known' = 0 /\ \A c \in Callers : calls'[c].stage = "none"
    BY <1>8 DEF ServerEnds, NoCall
  <2> QED BY <2>1 DEF BindingInv, BeforeBinding
<1> QED BY <1>2, <1>3, <1>4, <1>5, <1>6, <1>7, <1>8 DEF User

LEMMA TypeInductive ==
  ASSUME TypeInv, [Next]_vars PROVE TypeInv'
<1>1. TypeOK'
  <2>1. CASE UNCHANGED vars
    BY <2>1 DEF TypeInv, TypeOK, vars, thread, adapter, ingestion, worker, bounds
  <2>2. CASE Next
    BY <2>2, StartTyped, StopTyped, SendTyped, WorkerTyped, IngestTyped, ContextTyped,
       OutsideTyped
    DEF Next, CallSteps, Fault
  <2> QED BY <2>1, <2>2
<1>2. BindingInv'
  <2>1. CASE binding' # None
    BY <2>1 DEF BindingInv
  <2>2. CASE UNCHANGED vars
    BY <2>2 DEF TypeInv, BindingInv, vars, adapter
  <2>3. CASE binding' = None /\ Next
    BY <2>3, StartBinds, StopBinds, SendBinds, WorkerBinds, OthersBind
    DEF Next, CallSteps, Fault
  <2> QED BY <2>1, <2>2, <2>3
<1> QED BY <1>1, <1>2 DEF TypeInv

\* The state of a session's callers, of the adapter, of the binding and of
\* thread.session keeps its type: no stop or send ever updates a binding that is
\* not there.
THEOREM TypeCorrect == Spec => []TypeOK
<1>1. Init => TypeInv
  BY InitTyped
<1>2. TypeInv /\ [Next]_vars => TypeInv'
  BY TypeInductive
<1>3. TypeInv => TypeOK
  BY DEF TypeInv
<1> QED BY <1>1, <1>2, <1>3, PTL DEF Spec

-----------------------------------------------------------------------------
(* While calls do not overlap.                                             *)

Busy(c) == calls[c].stage \notin {"none", "begin", "halt", "route", "failed"}
NoneLive == \A i \in Contexts : ~In(i, "live")

\* One call at a time is under way, or one exit; while it takes the session away
\* none is live.
OneUnderWay ==
  /\ \A c, d \in Callers : Busy(c) /\ Busy(d) => c = d
  /\ \A c \in Callers, i \in Contexts : Busy(c) => ~In(i, "exiting")
  /\ \A i, j \in Contexts : In(i, "exiting") /\ In(j, "exiting") => i = j
NoneLiveBetween ==
  /\ \A c \in Callers : calls[c].stage \in {"replace", "open", "close"} => NoneLive
  /\ \A i \in Contexts : In(i, "exiting") => NoneLive
AllKnown == \A i \in Contexts : In(i, "live") => known = i
Quiet == OneUnderWay /\ NoneLiveBetween /\ AllKnown
QuietInv == ~raced => Quiet

Taking == {"replace", "open", "close"}

\* A step under which no caller and no session gets further into a call.
LEMMA CalmStep ==
  ASSUME QuietInv, raced => raced',
         \A c \in Callers : Busy(c)' => Busy(c),
         \A c \in Callers : calls'[c].stage \in Taking => calls[c].stage \in Taking,
         \A i \in Contexts : In(i, "live")' => In(i, "live"),
         \A i \in Contexts : In(i, "exiting")' => In(i, "exiting"),
         known' = known \/ NoneLive'
  PROVE  QuietInv'
<1> SUFFICES ASSUME ~raced' PROVE Quiet'
  BY DEF QuietInv
<1>1. Quiet
  BY DEF QuietInv
<1>2. OneUnderWay'
  BY <1>1 DEF Quiet, OneUnderWay
<1>3. NoneLiveBetween'
  BY <1>1 DEF Quiet, NoneLiveBetween, NoneLive, Taking
<1>4. AllKnown'
  BY <1>1 DEF Quiet, AllKnown, NoneLive
<1> QED BY <1>2, <1>3, <1>4 DEF Quiet

\* A step that lets one caller begin a call that takes note of the others.
LEMMA NotedStep ==
  ASSUME QuietInv, NoteRace, NEW c \in Callers,
         \A d \in Callers : d # c => calls'[d] = calls[d],
         calls'[c].stage \in Taking => NoneLive',
         \A i \in Contexts : In(i, "live")' => In(i, "live"),
         \A i \in Contexts : In(i, "exiting")' => In(i, "exiting"),
         known' = known
  PROVE  QuietInv'
<1> SUFFICES ASSUME ~raced' PROVE Quiet'
  BY DEF QuietInv
<1>1. Quiet /\ ~UnderWay
  BY DEF QuietInv, NoteRace
<1>2. (\A d \in Callers : ~Busy(d)) /\ (\A i \in Contexts : ~In(i, "exiting"))
  BY <1>1 DEF UnderWay, Busy
<1>3. \A d \in Callers : d # c => ~Busy(d)'
  BY <1>2 DEF Busy
<1>4. \A i \in Contexts : ~In(i, "exiting")'
  BY <1>2
<1>5. OneUnderWay'
  BY <1>3, <1>4 DEF OneUnderWay
<1>6. NoneLiveBetween'
  <2>1. \A d \in Callers : d # c => calls'[d].stage \notin Taking
    BY <1>3 DEF Busy, Taking
  <2> QED BY <1>4, <2>1 DEF NoneLiveBetween, Taking
<1>7. AllKnown'
  BY <1>1 DEF Quiet, AllKnown
<1> QED BY <1>5, <1>6, <1>7 DEF Quiet

\* The phases after a session has been changed.
LEMMA PhaseSet ==
  ASSUME TypeOK, NEW i \in Contexts, contexts[i] \in Context,
         NEW phase, BeginClosing(i, phase)
  PROVE  \A j \in Contexts : \A q : In(j, q)' => IF j = i THEN q = phase ELSE In(j, q)
BY DEF TypeOK, Context, BeginClosing, In

LEMMA PhaseKept ==
  ASSUME TypeOK, NEW i \in Contexts, contexts[i] \in Context, NEW t,
         contexts' = [contexts EXCEPT ![i].turn = t]
  PROVE  \A j \in Contexts : \A q : In(j, q)' => In(j, q)
<1>1. contexts'[i] = [contexts[i] EXCEPT !.turn = t]
  BY DEF TypeOK
<1>2. ASSUME contexts'[i] # None PROVE contexts[i] # None /\ contexts'[i].phase = contexts[i].phase
  <2>1. contexts'[i].phase = contexts[i].phase
    BY <1>1 DEF Context
  <2>2. contexts[i] # None
    BY NoneIsNoContext
  <2> QED BY <2>1, <2>2
<1>3. \A j \in Contexts : j # i => contexts'[j] = contexts[j]
  BY DEF TypeOK
<1> QED BY <1>2, <1>3 DEF In

LEMMA PhaseGone ==
  ASSUME TypeOK, NEW i, EndClosing(i)
  PROVE  \A j \in Contexts : \A q : In(j, q)' => In(j, q)
BY DEF TypeOK, EndClosing, In

\* A caller that moves, and all the others.
LEMMA OneGoes ==
  ASSUME TypeOK, NEW c \in Callers, NEW stage, Goes(c, stage)
  PROVE  calls'[c].stage = stage /\ \A d \in Callers : d # c => calls'[d] = calls[d]
BY DEF TypeOK, Goes, Call

\* When the session found for the thread is taken, or there is none, none is live.
LEMMA TakenIsLast ==
  ASSUME TypeOK, AllKnown,
         \/ ~HasSession /\ UNCHANGED contexts
         \/ HasSession /\ BeginClosing(known, "closing")
  PROVE  NoneLive'
<1>1. \A i \in Contexts : In(i, "live") => HasSession
  BY BoundsAreNaturals DEF AllKnown, HasSession, Contexts
<1>2. CASE ~HasSession /\ UNCHANGED contexts
  BY <1>1, <1>2 DEF NoneLive, In
<1>3. CASE HasSession /\ BeginClosing(known, "closing")
  <2>1. known \in Contexts /\ contexts[known] \in Context
    BY <1>3, KnownIsContext
  <2>2. \A j \in Contexts : In(j, "live")' => j # known /\ In(j, "live")
    BY <1>3, <2>1, PhaseSet
  <2> QED BY <2>2 DEF NoneLive, AllKnown
<1> QED BY <1>2, <1>3

\* A caller that goes from one stage to another, with nothing else but the
\* adapter's sessions changed.
LEMMA CalmMove ==
  ASSUME TypeOK, QuietInv, NEW c \in Callers, raced' = raced,
         \A d \in Callers : d # c => calls'[d] = calls[d],
         Busy(c)' => Busy(c),
         calls'[c].stage \in Taking => calls[c].stage \in Taking,
         \A i \in Contexts : \A q : In(i, q)' => In(i, q),
         known' = known \/ NoneLive'
  PROVE  QuietInv'
<1>1. \A d \in Callers : Busy(d)' => Busy(d)
  BY DEF Busy
<1>2. \A d \in Callers : calls'[d].stage \in Taking => calls[d].stage \in Taking
  OBVIOUS
<1> QED BY <1>1, <1>2, CalmStep

LEMMA SameContexts ==
  ASSUME UNCHANGED contexts PROVE \A i \in Contexts : \A q : In(i, q)' => In(i, q)
BY DEF In

LEMMA NoneLiveStays ==
  ASSUME NoneLive, \A i \in Contexts : \A q : In(i, q)' => In(i, q) PROVE NoneLive'
BY DEF NoneLive

LEMMA BeginsQuiet ==
  ASSUME TypeInv, QuietInv, NEW c \in Callers, StartBegins(c) \/ StopBegins(c)
  PROVE  QuietInv'
<1> USE DEF TypeInv
<1>1. NoteRace /\ known' = known
  BY DEF StartBegins, StopBegins
<1> SUFFICES ASSUME ~raced' PROVE QuietInv'
  BY DEF QuietInv
<1>2. Quiet
  BY <1>1 DEF NoteRace, QuietInv
<1>3. CASE HasSession /\ BeginClosing(known, "closing")
           /\ \E stage \in {"replace", "close"} :
                calls' = [calls EXCEPT ![c].stage = stage, ![c].context = known]
  <2>1. known \in Contexts /\ contexts[known] \in Context
    BY <1>3, KnownIsContext
  <2>2. \A i \in Contexts : \A q : In(i, q)' => IF i = known THEN q = "closing" ELSE In(i, q)
    BY <1>3, <2>1, PhaseSet
  <2>3. NoneLive'
    BY <1>2, <1>3, TakenIsLast DEF Quiet
  <2>4. \A d \in Callers : d # c => calls'[d] = calls[d]
    BY <1>3 DEF TypeOK
  <2> QED BY <1>1, <2>2, <2>3, <2>4, NotedStep
<1>4. CASE UNCHANGED contexts
           /\ \E stage : Goes(c, stage) /\ (stage = "open" => ~HasSession)
                         /\ stage \in {"open", "note", "none", "failed"}
  <2>1. PICK stage : Goes(c, stage) /\ (stage = "open" => ~HasSession)
                     /\ stage \in {"open", "note", "none", "failed"}
    BY <1>4
  <2>2. calls'[c].stage = stage /\ \A d \in Callers : d # c => calls'[d] = calls[d]
    BY <2>1, OneGoes
  <2>3. calls'[c].stage \in Taking => NoneLive'
    BY <1>2, <1>4, <2>1, <2>2, TakenIsLast DEF Taking, Quiet
  <2> QED BY <1>1, <1>4, <2>2, <2>3, SameContexts, NotedStep
<1>5. CASE StartBegins(c)
  BY <1>3, <1>4, <1>5 DEF StartBegins
<1>6. CASE StopBegins(c)
  BY <1>3, <1>4, <1>6 DEF StopBegins, Ended
<1> QED BY <1>5, <1>6

LEMMA StartQuiet ==
  ASSUME TypeInv, QuietInv, NEW c \in Callers
  PROVE  StartReplaces(c) \/ StartOpens(c) \/ StartRecords(c) \/ StartFails(c) => QuietInv'
<1> USE DEF TypeInv
<1>1. CASE StartReplaces(c)
  <2>1. calls[c].stage = "replace" /\ calls'[c].stage = "open" /\ raced' = raced
        /\ \A d \in Callers : d # c => calls'[d] = calls[d]
    BY <1>1 DEF StartReplaces, TypeOK, Call
  <2>2. \A i \in Contexts : \A q : In(i, q)' => In(i, q)
    BY <1>1, PhaseGone DEF StartReplaces
  <2>3. ~raced => NoneLive'
    BY <2>1, <2>2, NoneLiveStays DEF QuietInv, Quiet, NoneLiveBetween
  <2>4. CASE ~raced
    BY <2>1, <2>2, <2>3, <2>4, CalmMove DEF Busy, Taking
  <2> QED BY <2>1, <2>4 DEF QuietInv
<1>2. CASE StartOpens(c)
  <2> SUFFICES ASSUME ~raced' PROVE Quiet'
    BY DEF QuietInv
  <2>1. calls[c].stage = "open" /\ calls'[c].stage = "record" /\ raced' = raced
        /\ \A d \in Callers : d # c => calls'[d] = calls[d]
    BY <1>2, OneGoes DEF StartOpens
  <2>2. Quiet
    BY <2>1 DEF QuietInv
  <2>3. NoneLive /\ Busy(c)
    BY <2>1, <2>2 DEF Quiet, NoneLiveBetween, Busy
  <2>4. PICK i \in Contexts :
          /\ contexts' = [contexts EXCEPT ![i] =
                            [mode |-> calls[c].mode, turn |-> None, phase |-> "live"]]
          /\ known' = i
    BY <1>2 DEF StartOpens
  <2>5. \A j \in Contexts : \A q : In(j, q)' => IF j = i THEN q = "live" ELSE In(j, q)
    BY <2>4 DEF In, TypeOK
  <2>6. \A j \in Contexts : ~In(j, "exiting")'
    <3>1. \A j \in Contexts : ~In(j, "exiting")
      BY <2>2, <2>3 DEF Quiet, OneUnderWay
    <3> QED BY <2>5, <3>1
  <2>7. \A d \in Callers : d # c => ~Busy(d) /\ ~Busy(d)'
    BY <2>1, <2>2, <2>3 DEF Quiet, OneUnderWay, Busy
  <2>8. OneUnderWay'
    BY <2>6, <2>7 DEF OneUnderWay
  <2>9. NoneLiveBetween'
    BY <2>1, <2>6, <2>7 DEF NoneLiveBetween, Busy
  <2>10. AllKnown'
    BY <2>3, <2>4, <2>5 DEF AllKnown, NoneLive
  <2> QED BY <2>8, <2>9, <2>10 DEF Quiet
<1>3. CASE StartRecords(c)
  <2>1. calls[c].stage = "record" /\ calls'[c].stage = "started" /\ raced' = raced
        /\ \A d \in Callers : d # c => calls'[d] = calls[d]
    BY <1>3, OneGoes DEF StartRecords
  <2> QED
    BY <1>3, <2>1, SameContexts, CalmMove DEF StartRecords, adapter, Busy, Taking
<1>4. CASE StartFails(c)
  <2>1. calls'[c].stage = "failed" /\ raced' = raced
        /\ \A d \in Callers : d # c => calls'[d] = calls[d]
    BY <1>4, OneGoes DEF StartFails
  <2> QED
    BY <1>4, <2>1, SameContexts, CalmMove DEF StartFails, adapter, Busy, Taking
<1> QED BY <1>1, <1>2, <1>3, <1>4

LEMMA StopQuiet ==
  ASSUME TypeInv, QuietInv, NEW c \in Callers
  PROVE  StopCloses(c) \/ StopNotes(c) \/ StopFails(c) => QuietInv'
<1> USE DEF TypeInv
<1>1. CASE StopCloses(c)
  <2>1. calls[c].stage = "close" /\ calls'[c].stage = "note" /\ raced' = raced
        /\ \A d \in Callers : d # c => calls'[d] = calls[d]
    BY <1>1 DEF StopCloses, TypeOK, Call
  <2>2. \A i \in Contexts : \A q : In(i, q)' => In(i, q)
    BY <1>1, PhaseGone DEF StopCloses
  <2>3. ~raced => NoneLive'
    BY <2>1, <2>2, NoneLiveStays DEF QuietInv, Quiet, NoneLiveBetween
  <2>4. CASE ~raced
    BY <2>1, <2>2, <2>3, <2>4, CalmMove DEF Busy, Taking
  <2> QED BY <2>1, <2>4 DEF QuietInv
<1>2. CASE StopNotes(c)
  <2>1. calls[c].stage = "note" /\ calls'[c].stage \in {"none", "stopped"} /\ raced' = raced
        /\ \A d \in Callers : d # c => calls'[d] = calls[d]
    BY <1>2, OneGoes DEF StopNotes, Ended
  <2> QED
    BY <1>2, <2>1, SameContexts, CalmMove DEF StopNotes, adapter, Busy, Taking
<1>3. CASE StopFails(c)
  <2>1. calls'[c].stage \in {"none", "failed"} /\ raced' = raced
        /\ \A d \in Callers : d # c => calls'[d] = calls[d]
    BY <1>3, OneGoes DEF StopFails, Ended
  <2> QED
    BY <1>3, <2>1, SameContexts, CalmMove DEF StopFails, adapter, Busy, Taking
<1> QED BY <1>1, <1>2, <1>3

LEMMA SendQuiet ==
  ASSUME TypeInv, QuietInv, NEW t \in Turns
  PROVE  SendSteps(t) => QuietInv'
<1> USE DEF TypeInv
<1>0. Send(t) \in Callers
  BY CallersDistinct
<1>1. CASE SendRoutes(t)
  <2>1. calls'[Send(t)].stage \in {"send", "begin"}
        /\ \A d \in Callers : d # Send(t) => calls'[d] = calls[d]
    BY <1>0, <1>1 DEF SendRoutes, CallOf, TypeOK
  <2> QED
    BY <1>0, <1>1, <2>1, SameContexts, NotedStep DEF SendRoutes, adapter, Taking
<1>2. CASE SendTurn(t)
  <2>1. calls[Send(t)].stage \in {"send", "started"}
        /\ calls'[Send(t)].stage \in {"sent", "failed"} /\ raced' = raced
        /\ \A d \in Callers : d # Send(t) => calls'[d] = calls[d]
    BY <1>0, <1>2, OneGoes DEF SendTurn
  <2>2. \A i \in Contexts : \A q : In(i, q)' => In(i, q)
    BY <1>2, KnownIsContext, PhaseKept, SameContexts DEF SendTurn
  <2> QED
    BY <1>0, <1>2, <2>1, <2>2, CalmMove DEF SendTurn, Busy, Taking
<1>3. CASE SendNotes(t) \/ SendFails(t)
  <2>1. calls'[Send(t)].stage = "none" /\ raced' = raced
        /\ UNCHANGED adapter /\ \A d \in Callers : d # Send(t) => calls'[d] = calls[d]
    BY <1>0, <1>3 DEF SendNotes, SendFails, NoCall, TypeOK
  <2> QED
    BY <1>0, <2>1, SameContexts, CalmMove DEF adapter, Busy, Taking
<1> QED BY <1>1, <1>2, <1>3 DEF SendSteps

LEMMA WorkerQuiet ==
  ASSUME TypeInv, QuietInv
  PROVE  WorkerSteps => QuietInv'
<1> SUFFICES ASSUME WorkerSteps PROVE QuietInv'
  OBVIOUS
<1>1. raced' = raced /\ UNCHANGED adapter
  BY DEF WorkerSteps, TakeTurnStart, TakeModeSet, BindSession, TakeSessionStop, RecordStop,
         ReactorGivesUp
<1>2. calls \in [Callers -> Call]
  BY DEF TypeInv, TypeOK
<1>3. \A c \in Callers : calls'[c] = calls[c]
                           \/ calls'[c].stage \in {"none", "begin", "halt", "route"}
  <2>1. CASE TakeTurnStart
    BY <1>2, <2>1 DEF TakeTurnStart, CallOf
  <2>2. CASE TakeModeSet
    BY <1>2, <2>2 DEF TakeModeSet, CallOf
  <2>3. CASE BindSession
    BY <1>2, <2>3 DEF BindSession, CallOf, NoCall
  <2>4. CASE TakeSessionStop
    BY <1>2, <2>4 DEF TakeSessionStop, CallOf
  <2>5. CASE RecordStop \/ ReactorGivesUp
    BY <1>2, <2>5 DEF RecordStop, ReactorGivesUp, NoCall
  <2> QED BY <2>1, <2>2, <2>3, <2>4, <2>5 DEF WorkerSteps
<1>4. /\ \A c \in Callers : Busy(c)' => Busy(c)
      /\ \A c \in Callers : calls'[c].stage \in Taking => calls[c].stage \in Taking
  BY <1>3 DEF Busy, Taking
<1> QED BY <1>1, <1>4, SameContexts, CalmStep DEF adapter

LEMMA ContextQuiet ==
  ASSUME TypeInv, QuietInv, NEW i \in Contexts
  PROVE  ContextSteps(i) \/ BeginExit(i) => QuietInv'
<1> USE DEF TypeInv
<1>1. CASE EndTurn(i)
  <2>1. \A j \in Contexts : \A q : In(j, q)' => In(j, q)
    BY <1>1, ContextsTyped, PhaseKept DEF EndTurn
  <2> QED
    BY <1>1, <2>1, CalmStep DEF EndTurn, Busy
<1>2. CASE EndExit(i)
  <2>1. \A j \in Contexts : \A q : In(j, q)' => In(j, q)
    BY <1>2, PhaseGone DEF EndExit
  <2>2. ~raced => NoneLive'
    BY <1>2, <2>1, NoneLiveStays DEF EndExit, QuietInv, Quiet, NoneLiveBetween
  <2>3. CASE ~raced
    BY <1>2, <2>1, <2>2, <2>3, CalmStep DEF EndExit, Busy
  <2> QED BY <1>2, <2>3 DEF EndExit, QuietInv
<1>3. CASE BeginExit(i)
  <2> SUFFICES ASSUME ~raced' PROVE Quiet'
    BY DEF QuietInv
  <2>1. Quiet /\ ~UnderWay
    BY <1>3 DEF BeginExit, NoteRace, QuietInv
  <2>2. (\A d \in Callers : ~Busy(d)) /\ (\A j \in Contexts : ~In(j, "exiting"))
    BY <2>1 DEF UnderWay, Busy
  <2>3. \A d \in Callers : ~Busy(d)'
    BY <1>3, <2>2 DEF BeginExit, Busy
  <2>4. \A j \in Contexts : \A q : In(j, q)' => IF j = i THEN q = "exiting" ELSE In(j, q)
    BY <1>3, ContextsTyped, PhaseSet DEF BeginExit
  <2>5. NoneLive'
    BY <1>3, <2>1, <2>4 DEF BeginExit, NoneLive, Quiet, AllKnown
  <2>6. OneUnderWay'
    BY <2>2, <2>3, <2>4 DEF OneUnderWay
  <2>7. NoneLiveBetween' /\ AllKnown'
    BY <2>5 DEF NoneLiveBetween, AllKnown, NoneLive
  <2> QED BY <2>6, <2>7 DEF Quiet
<1> QED BY <1>1, <1>2, <1>3 DEF ContextSteps

LEMMA OthersQuiet ==
  ASSUME TypeInv, QuietInv
  PROVE  User \/ IngestSteps \/ Age \/ Sweep \/ ServerEnds => QuietInv'
<1>0. calls \in [Callers -> Call]
  BY DEF TypeInv, TypeOK
<1>1. ASSUME UNCHANGED <<adapter, raced>>, NEW c \in Callers,
             \/ UNCHANGED calls
             \/ calls' = [calls EXCEPT ![c] = CallOf("halt", DefaultMode)]
      PROVE  QuietInv'
  <2>1. \A d \in Callers : calls'[d] = calls[d] \/ calls'[d].stage = "halt"
    BY <1>0, <1>1 DEF CallOf
  <2>2. /\ \A d \in Callers : Busy(d)' => Busy(d)
        /\ \A d \in Callers : calls'[d].stage \in Taking => calls[d].stage \in Taking
    BY <2>1 DEF Busy, Taking
  <2> QED BY <1>1, <2>2, SameContexts, CalmStep DEF adapter
<1>2. CASE IngestSteps \/ Age
  BY <1>1, <1>2, CallersDistinct DEF IngestSteps, IngestRead, IngestSet, Age
<1>3. CASE Sweep
  BY <1>1, <1>3, CallersDistinct DEF Sweep
<1>4. CASE User
  BY <1>1, <1>4, CallersDistinct
  DEF User, RequestTurn, RequestMode, RequestStop, RequestDeletion
<1>5. CASE ServerEnds
  <2>1. (\A c \in Callers : calls'[c].stage = "none") /\ (\A i \in Contexts : ~In(i, "live")')
        /\ (\A i \in Contexts : ~In(i, "exiting")')
    BY <1>5 DEF ServerEnds, NoCall, In
  <2> QED
    BY <2>1 DEF QuietInv, Quiet, OneUnderWay, NoneLiveBetween, AllKnown, Busy
<1> QED BY <1>2, <1>3, <1>4, <1>5

LEMMA InitQuiet == Init => QuietInv
<1> SUFFICES ASSUME Init PROVE QuietInv
  OBVIOUS
<1>1. (\A c \in Callers : calls[c].stage = "none") /\ (\A i \in Contexts : \A q : ~In(i, q))
  BY DEF Init, NoCall, In
<1> QED
  BY <1>1 DEF QuietInv, Quiet, OneUnderWay, NoneLiveBetween, AllKnown, Busy

LEMMA QuietInductive ==
  ASSUME TypeInv, QuietInv, [Next]_vars PROVE QuietInv'
<1>1. CASE UNCHANGED vars
  BY <1>1, SameContexts, CalmStep DEF vars, adapter, Busy
<1>2. CASE Next
  BY <1>2, BeginsQuiet, StartQuiet, StopQuiet, SendQuiet, WorkerQuiet, ContextQuiet, OthersQuiet
  DEF Next, CallSteps, Fault
<1> QED BY <1>1, <1>2

\* While calls do not overlap, no session lives where the adapter does not find it:
\* a start, a stop, a recovery, a sweep and an exit of the provider each leave the
\* session they made, or none.
THEOREM NoSessionLost == Spec => []LiveSessionsAreKnown
<1>1. Init => TypeInv /\ QuietInv
  BY InitTyped, InitQuiet
<1>2. TypeInv /\ QuietInv /\ [Next]_vars => (TypeInv /\ QuietInv)'
  BY TypeInductive, QuietInductive
<1>3. QuietInv => LiveSessionsAreKnown
  BY DEF QuietInv, Quiet, AllKnown, LiveSessionsAreKnown
<1> QED BY <1>1, <1>2, <1>3, PTL DEF Spec

-----------------------------------------------------------------------------
(* Each turn is sent once: a request waits in the inbox, then its session  *)
(* starts, then the turn has a call of its own.                            *)

TurnRequest(i) == inbox[i].type = "turn-start"
Asked(t) == \E i \in 1..Len(inbox) : TurnRequest(i) /\ inbox[i].turn = t
CallersInv ==
  /\ calls[Deletion].stage \in {"none", "halt"} \cup StopStages
  /\ \A t \in Turns :
       calls[Send(t)].stage # "none" => t <= turns /\ t # starting /\ ~Asked(t)
  /\ starting <= turns /\ ~Asked(starting)
  /\ \A i \in 1..Len(inbox) : TurnRequest(i) => inbox[i].turn \in 1..turns
  /\ \A i, j \in 1..Len(inbox) :
       TurnRequest(i) /\ TurnRequest(j) /\ inbox[i].turn = inbox[j].turn => i = j

LEMMA OtherCallers ==
  /\ Deletion \in Callers /\ Reactor \in Callers /\ Reaper \in Callers
  /\ Deletion # Reactor /\ Reaper # Deletion
  /\ \A t \in Turns : Send(t) \in Callers /\ Send(t) \notin {Reactor, Reaper, Deletion}
  /\ \A t, u : Send(t) = Send(u) => t = u
BY DEF Reactor, Reaper, Deletion, Send, Callers

\* A step of calls that are made already.
LEMMA CallersGoOn ==
  ASSUME CallersInv, UNCHANGED <<turns, starting, inbox>>,
         calls'[Deletion].stage \in {"none", "halt"} \cup StopStages,
         \A t \in Turns : calls'[Send(t)].stage # "none" => calls[Send(t)].stage # "none"
  PROVE  CallersInv'
BY DEF CallersInv, Asked, TurnRequest

LEMMA StepsGoOn ==
  ASSUME TypeInv, CallersInv, NEW c \in Callers
  PROVE  CallSteps(c) \/ StartFails(c) \/ StopFails(c) => CallersInv'
<1> SUFFICES ASSUME CallSteps(c) \/ StartFails(c) \/ StopFails(c) PROVE CallersInv'
  OBVIOUS
<1>1. UNCHANGED <<turns, starting, inbox>> /\ calls \in [Callers -> Call]
  BY DEF CallSteps, StartBegins, StartReplaces, StartOpens, StartRecords, StartFails, StopBegins,
         StopCloses, StopNotes, StopFails, worker, bounds, TypeInv, TypeOK
<1>2. calls[c].stage # "none" /\ \A d \in Callers : d # c => calls'[d] = calls[d]
  <2>1. \A stage : Goes(c, stage) => \A d \in Callers : d # c => calls'[d] = calls[d]
    BY <1>1 DEF Goes
  <2>2. CASE StartBegins(c)
    BY <1>1, <2>1, <2>2 DEF StartBegins
  <2>3. CASE StartReplaces(c)
    BY <1>1, <2>3 DEF StartReplaces
  <2>4. CASE StartOpens(c) \/ StartRecords(c) \/ StartFails(c) \/ StopNotes(c) \/ StopFails(c)
    BY <1>1, <2>1, <2>4 DEF StartOpens, StartRecords, StartFails, StopNotes, StopFails
  <2>5. CASE StopBegins(c)
    BY <1>1, <2>1, <2>5 DEF StopBegins
  <2>6. CASE StopCloses(c)
    BY <1>1, <2>6 DEF StopCloses
  <2> QED BY <2>2, <2>3, <2>4, <2>5, <2>6 DEF CallSteps
<1>3. c = Deletion => calls'[c].stage \in {"none", "halt"} \cup StopStages
  <2> SUFFICES ASSUME c = Deletion PROVE calls'[c].stage \in {"none", "halt"} \cup StopStages
    OBVIOUS
  <2>1. calls[c].stage \in {"halt", "close", "note"} /\ c # Reactor
    BY <1>2, OtherCallers DEF CallersInv, StopStages
  <2>2. StopBegins(c) \/ StopCloses(c) \/ StopNotes(c) \/ StopFails(c)
    BY <2>1 DEF CallSteps, StartBegins, StartReplaces, StartOpens, StartRecords, StartFails
  <2>3. \A stage : Goes(c, stage) => calls'[c].stage = stage
    BY <1>1 DEF Goes, Call
  <2>4. CASE StopBegins(c)
    <3>1. CASE calls' = [calls EXCEPT ![c].stage = "close", ![c].context = known]
      BY <1>1, <3>1 DEF Call, StopStages
    <3> QED BY <2>1, <2>3, <2>4, <3>1 DEF StopBegins, Ended, StopStages
  <2>5. CASE StopCloses(c)
    BY <1>1, <2>5 DEF StopCloses, Call, StopStages
  <2>6. CASE StopNotes(c) \/ StopFails(c)
    BY <2>1, <2>3, <2>6 DEF StopNotes, StopFails, Ended
  <2> QED BY <2>2, <2>4, <2>5, <2>6
<1>4. calls'[Deletion].stage \in {"none", "halt"} \cup StopStages
  BY <1>2, <1>3, OtherCallers DEF CallersInv
<1> QED BY <1>1, <1>2, <1>4, OtherCallers, CallersGoOn

LEMMA SendsGoOn ==
  ASSUME TypeInv, CallersInv, NEW t \in Turns
  PROVE  SendSteps(t) => CallersInv'
<1> SUFFICES ASSUME SendSteps(t) PROVE CallersInv'
  OBVIOUS
<1>1. UNCHANGED <<turns, starting, inbox>> /\ calls \in [Callers -> Call]
  BY DEF SendSteps, SendRoutes, SendTurn, SendNotes, SendFails, worker, bounds, TypeInv, TypeOK
<1>2. calls[Send(t)].stage # "none"
      /\ \A d \in Callers : d # Send(t) => calls'[d] = calls[d]
  BY <1>1 DEF SendSteps, SendRoutes, SendTurn, SendNotes, SendFails, Goes
<1> QED BY <1>1, <1>2, OtherCallers, CallersGoOn DEF CallersInv

\* What is taken from the inbox is not in it any more.
LEMMA TakenOnce ==
  ASSUME TypeInv, CallersInv, NEW type, Takes(type)
  PROVE  /\ Head(inbox) \in Request /\ Head(inbox).type = type
         /\ Len(inbox') = Len(inbox) - 1 /\ inbox' \in Seq(Request) /\ Len(inbox) \in Nat \ {0}
         /\ \A i \in 1..Len(inbox') : inbox'[i] = inbox[i + 1] /\ (i + 1) \in 1..Len(inbox)
         /\ \A t : Asked(t)' => Asked(t)
         /\ \A i \in 1..Len(inbox') : TurnRequest(i)' => inbox'[i].turn \in 1..turns
         /\ \A i, j \in 1..Len(inbox') :
              TurnRequest(i)' /\ TurnRequest(j)' /\ inbox'[i].turn = inbox'[j].turn => i = j
         /\ type = "turn-start" =>
              /\ Head(inbox).turn \in 1..turns
              /\ \A t : t = Head(inbox).turn => Asked(t) /\ ~Asked(t)'
<1>1. inbox \in Seq(Request) /\ inbox # <<>> /\ inbox' = Tail(inbox) /\ Head(inbox).type = type
  BY DEF Takes, TypeInv, TypeOK
<1>2. /\ Head(inbox) \in Request /\ Head(inbox) = inbox[1]
      /\ Len(inbox') = Len(inbox) - 1 /\ inbox' \in Seq(Request) /\ Len(inbox) \in Nat \ {0}
  BY <1>1, EmptySeq, HeadTailProperties
<1>3. \A i \in 1..Len(inbox') : inbox'[i] = inbox[i + 1] /\ (i + 1) \in 1..Len(inbox)
  BY <1>1, <1>2
<1>4. \A t : Asked(t)' => Asked(t)
  BY <1>3 DEF Asked, TurnRequest
<1>5. \A i \in 1..Len(inbox') : TurnRequest(i)' => inbox'[i].turn \in 1..turns
  BY <1>3 DEF CallersInv, TurnRequest
<1>6. \A i, j \in 1..Len(inbox') :
        TurnRequest(i)' /\ TurnRequest(j)' /\ inbox'[i].turn = inbox'[j].turn => i = j
  <2> SUFFICES ASSUME NEW i \in 1..Len(inbox'), NEW j \in 1..Len(inbox'),
                      TurnRequest(i)', TurnRequest(j)', inbox'[i].turn = inbox'[j].turn
               PROVE  i = j
    OBVIOUS
  <2>1. i + 1 = j + 1
    BY <1>3 DEF CallersInv, TurnRequest
  <2> QED BY <1>2, <2>1
<1>7. ASSUME type = "turn-start"
      PROVE  /\ Head(inbox).turn \in 1..turns
             /\ \A t : t = Head(inbox).turn => Asked(t) /\ ~Asked(t)'
  <2>1. 1 \in 1..Len(inbox) /\ TurnRequest(1)
    BY <1>1, <1>2, <1>7 DEF TurnRequest
  <2>2. Head(inbox).turn \in 1..turns /\ Asked(Head(inbox).turn)
    BY <1>2, <2>1 DEF CallersInv, Asked
  <2>3. ASSUME NEW i \in 1..Len(inbox'), TurnRequest(i)', inbox'[i].turn = Head(inbox).turn
        PROVE  FALSE
    <3>1. i + 1 = 1
      BY <1>2, <1>3, <2>1, <2>3 DEF CallersInv, TurnRequest
    <3> QED BY <1>2, <2>3, <3>1
  <2> QED BY <2>2, <2>3 DEF Asked
<1> QED BY <1>1, <1>2, <1>3, <1>4, <1>5, <1>6, <1>7

LEMMA WorkerGoesOn ==
  ASSUME TypeInv, CallersInv
  PROVE  WorkerSteps => CallersInv'
<1>0. calls \in [Callers -> Call] /\ turns \in Nat /\ starting \in Nat
  BY BoundsAreNaturals DEF TypeInv, TypeOK
<1>1. ASSUME NEW type, Takes(type), UNCHANGED <<turns, starting>>,
             \/ UNCHANGED calls
             \/ \E call : calls' = [calls EXCEPT ![Reactor] = call]
      PROVE  CallersInv'
  <2>1. \A d \in Callers : d # Reactor => calls'[d] = calls[d]
    BY <1>0, <1>1
  <2> QED BY <1>1, <2>1, OtherCallers, TakenOnce DEF CallersInv
<1>2. CASE TakeTurnStart
  <2>0. PICK t : t = Head(inbox).turn
    OBVIOUS
  <2>1. Takes("turn-start") /\ turns' = turns
    BY <1>2 DEF TakeTurnStart, bounds
  <2>2. t \in 1..turns /\ Asked(t) /\ ~Asked(t)'
    BY <2>0, <2>1, TakenOnce
  <2>3. t # starting /\ \A u \in Turns : u = t => calls[Send(u)].stage = "none"
    BY <2>2 DEF CallersInv
  <2>4. CASE calls' = [calls EXCEPT ![Send(t)] = CallOf("route", DefaultMode)]
             /\ UNCHANGED starting
    <3>1. \A d \in Callers : d # Send(t) => calls'[d] = calls[d]
      BY <1>0, <2>4
    <3>2. calls'[Deletion] = calls[Deletion]
      <4>1. Send(t) # Deletion
        BY DEF Send, Deletion
      <4> QED BY <3>1, <4>1, OtherCallers
    <3>3. \A u \in Turns : calls'[Send(u)].stage # "none" =>
                             u = t \/ calls[Send(u)].stage # "none"
      BY <3>1, OtherCallers
    <3>4. \A u \in Turns :
            calls'[Send(u)].stage # "none" => u <= turns /\ u # starting /\ ~Asked(u)'
      BY <1>0, <2>1, <2>2, <2>3, <3>3, TakenOnce DEF CallersInv
    <3> QED BY <2>1, <2>4, <3>2, <3>4, TakenOnce DEF CallersInv
  <2>5. CASE calls' = [calls EXCEPT ![Reactor] = CallOf("begin", mode)] /\ starting' = t
    <3>1. \A d \in Callers : d # Reactor => calls'[d] = calls[d]
      BY <1>0, <2>5
    <3>2. \A u \in Turns :
            calls'[Send(u)].stage # "none" => u <= turns /\ u # t /\ ~Asked(u)'
      BY <2>1, <2>3, <3>1, OtherCallers, TakenOnce DEF CallersInv
    <3>3. calls'[Deletion] = calls[Deletion] /\ t <= turns
      BY <1>0, <2>2, <3>1, OtherCallers
    <3> QED BY <2>1, <2>2, <2>5, <3>2, <3>3, TakenOnce DEF CallersInv
  <2> QED BY <1>2, <2>0, <2>4, <2>5 DEF TakeTurnStart
<1>3. CASE TakeModeSet
  BY <1>1, <1>3 DEF TakeModeSet, bounds
<1>4. CASE TakeSessionStop
  BY <1>1, <1>4 DEF TakeSessionStop, bounds
<1>5. ASSUME UNCHANGED <<turns, inbox>>, starting' = 0 \/ starting' = starting,
             NEW call, calls' = [calls EXCEPT ![Reactor] = call]
      PROVE  CallersInv'
  <2>1. \A d \in Callers : d # Reactor => calls'[d] = calls[d]
    BY <1>0, <1>5
  <2>2. \A t : Asked(t)' = Asked(t)
    BY <1>5 DEF Asked, TurnRequest
  <2>3. ~Asked(0) /\ 0 <= turns /\ \A t \in Turns : t # 0
    BY <1>0 DEF CallersInv, Asked, Turns
  <2>4. \A i : TurnRequest(i)' = TurnRequest(i)
    BY <1>5 DEF TurnRequest
  <2> QED BY <1>5, <2>1, <2>2, <2>3, <2>4, OtherCallers DEF CallersInv
<1>6. CASE RecordStop \/ ReactorGivesUp
  BY <1>5, <1>6 DEF RecordStop, ReactorGivesUp, worker, bounds
<1>7. CASE BindSession
  <2>1. UNCHANGED <<turns, inbox>> /\ starting' = 0
    BY <1>7 DEF BindSession, bounds
  <2>2. \A c \in Callers : calls'[c] = IF c = Reactor THEN NoCall
                                       ELSE IF c = Send(starting) THEN CallOf("route", DefaultMode)
                                       ELSE calls[c]
    BY <1>7 DEF BindSession
  <2>3. calls'[Deletion] = calls[Deletion]
    <3>1. Deletion # Send(starting)
      BY DEF Send, Deletion
    <3> QED BY <2>2, <3>1, OtherCallers
  <2>4. \A t : Asked(t)' = Asked(t)
    BY <2>1 DEF Asked, TurnRequest
  <2>5. \A i : TurnRequest(i)' = TurnRequest(i)
    BY <2>1 DEF TurnRequest
  <2>6. ~Asked(0) /\ 0 <= turns /\ \A t \in Turns : t # 0
    BY <1>0 DEF CallersInv, Asked, Turns
  <2>7. ASSUME NEW t \in Turns, calls'[Send(t)].stage # "none"
        PROVE  t <= turns /\ t # 0 /\ ~Asked(t)
    <3>1. CASE t = starting
      BY <2>6, <3>1 DEF CallersInv
    <3>2. CASE t # starting
      <4>1. calls'[Send(t)] = calls[Send(t)]
        BY <2>2, <3>2, OtherCallers
      <4> QED BY <2>6, <2>7, <4>1 DEF CallersInv
    <3> QED BY <3>1, <3>2
  <2> QED BY <2>1, <2>3, <2>4, <2>5, <2>6, <2>7 DEF CallersInv
<1> QED BY <1>2, <1>3, <1>4, <1>6, <1>7 DEF WorkerSteps

LEMMA RequestsGoOn ==
  ASSUME TypeInv, CallersInv, NEW r \in Request, inbox' = Append(inbox, r),
         UNCHANGED <<starting, calls>>,
         \/ r.type # "turn-start" /\ turns' = turns
         \/ r.type = "turn-start" /\ turns' = turns + 1 /\ r.turn = turns + 1
  PROVE  CallersInv'
<1>1. inbox \in Seq(Request) /\ turns \in Nat /\ turns' \in Nat /\ turns <= turns'
  BY BoundsAreNaturals DEF TypeInv, TypeOK
<1>2. /\ Len(inbox') = Len(inbox) + 1 /\ Len(inbox) \in Nat
      /\ \A i \in 1..Len(inbox) : inbox'[i] = inbox[i]
      /\ inbox'[Len(inbox) + 1] = r
  BY <1>1
<1>3. \A i \in 1..Len(inbox') : i \in 1..Len(inbox) \/ i = Len(inbox) + 1
  BY <1>2
<1>4. \A i \in 1..Len(inbox) : TurnRequest(i) => inbox[i].turn \in 1..turns
  BY DEF CallersInv
<1>5. ASSUME NEW t, Asked(t)' PROVE Asked(t) \/ t = turns + 1
  BY <1>2, <1>3, <1>5 DEF Asked, TurnRequest
<1>6. ~Asked(turns + 1)
  BY <1>1, <1>4 DEF Asked
<1>7. \A i \in 1..Len(inbox') : TurnRequest(i)' => inbox'[i].turn \in 1..turns'
  BY <1>1, <1>2, <1>3, <1>4 DEF TurnRequest
<1>8. ASSUME NEW i \in 1..Len(inbox'), NEW j \in 1..Len(inbox'),
             TurnRequest(i)', TurnRequest(j)', inbox'[i].turn = inbox'[j].turn
      PROVE  i = j
  <2>1. CASE i \in 1..Len(inbox) /\ j \in 1..Len(inbox)
    BY <1>2, <1>8, <2>1 DEF CallersInv, TurnRequest
  <2>2. ASSUME NEW m \in 1..Len(inbox), TurnRequest(m)', inbox'[m].turn = r.turn,
               r.type = "turn-start"
        PROVE  FALSE
    BY <1>1, <1>2, <1>4, <2>2 DEF TurnRequest
  <2>3. CASE i \in 1..Len(inbox) /\ j = Len(inbox) + 1
    BY <1>2, <1>8, <2>2, <2>3 DEF TurnRequest
  <2>4. CASE j \in 1..Len(inbox) /\ i = Len(inbox) + 1
    BY <1>2, <1>8, <2>2, <2>4 DEF TurnRequest
  <2> QED BY <1>3, <2>1, <2>3, <2>4
<1>9. starting <= turns' /\ ~Asked(starting)' /\ starting \in Nat /\ starting' = starting
  <2>1. starting \in Nat /\ starting <= turns
    BY BoundsAreNaturals DEF TypeInv, TypeOK, CallersInv
  <2>2. ASSUME Asked(starting)' PROVE FALSE
    <3>1. \A t : t = starting => ~Asked(t)'
      BY <1>1, <1>5, <2>1 DEF CallersInv
    <3> QED BY <2>2, <3>1
  <2> QED BY <1>1, <2>1, <2>2
<1>10. \A t \in Turns :
         calls'[Send(t)].stage # "none" => t <= turns' /\ t # starting /\ ~Asked(t)'
  BY <1>1, <1>5 DEF CallersInv, Turns
<1> QED BY <1>7, <1>8, <1>9, <1>10 DEF CallersInv

LEMMA OthersGoOn ==
  ASSUME TypeInv, CallersInv
  PROVE  User \/ IngestSteps \/ (\E i \in Contexts : ContextSteps(i) \/ BeginExit(i))
           \/ Age \/ Sweep \/ ServerEnds => CallersInv'
<1>0. calls \in [Callers -> Call] /\ turns \in Nat
  BY BoundsAreNaturals DEF TypeInv, TypeOK
<1>1. ASSUME UNCHANGED <<calls, turns, starting, inbox>> PROVE CallersInv'
  BY <1>1 DEF CallersInv, Asked, TurnRequest
<1>2. CASE RequestTurn
  <2>1. TurnStart(turns + 1) \in Request /\ TurnStart(turns + 1).type = "turn-start"
        /\ TurnStart(turns + 1).turn = turns + 1
    BY <1>0, <1>2, BoundsAreNaturals DEF RequestTurn, TurnStart, Request
  <2> QED BY <1>2, <2>1, RequestsGoOn DEF RequestTurn
<1>3. CASE (\E m \in Modes : RequestMode(m)) \/ RequestStop
  <2>1. ModeSet \in Request /\ ModeSet.type # "turn-start"
        /\ SessionStop \in Request /\ SessionStop.type # "turn-start"
    BY BoundsAreNaturals DEF ModeSet, SessionStop, Request
  <2> QED BY <1>3, <2>1, RequestsGoOn DEF RequestMode, RequestStop
<1>4. CASE RequestDeletion \/ Sweep
  <2>0. UNCHANGED <<turns, starting, inbox>>
        /\ \E c \in {Deletion, Reaper} :
             calls' = [calls EXCEPT ![c] = CallOf("halt", DefaultMode)]
    BY <1>4 DEF RequestDeletion, Sweep, worker, bounds
  <2>1. \A c \in Callers :
          calls'[c] = calls[c] \/ (c \in {Deletion, Reaper} /\ calls'[c].stage = "halt")
    BY <1>0, <2>0 DEF CallOf
  <2>2. \A t \in Turns : calls'[Send(t)] = calls[Send(t)]
    BY <2>1, OtherCallers
  <2>3. calls'[Deletion].stage \in {"none", "halt"} \cup StopStages
    BY <2>1, OtherCallers DEF CallersInv
  <2> QED BY <2>0, <2>2, <2>3, CallersGoOn
<1>5. CASE IngestSteps \/ Age \/ \E i \in Contexts : ContextSteps(i) \/ BeginExit(i)
  BY <1>1, <1>5
  DEF IngestSteps, IngestRead, IngestSet, Age, ContextSteps, EndTurn, EndExit, BeginExit, worker,
      bounds
<1>6. CASE ServerEnds
  <2>1. /\ inbox' = <<>> /\ starting' = 0 /\ turns' = turns
        /\ \A c \in Callers : calls'[c].stage = "none"
    BY <1>6 DEF ServerEnds, NoCall
  <2> QED BY <1>0, <2>1, OtherCallers DEF CallersInv, Asked
<1> QED BY <1>2, <1>3, <1>4, <1>5, <1>6 DEF User

LEMMA InitCallers == Init => CallersInv
<1> SUFFICES ASSUME Init PROVE CallersInv
  OBVIOUS
<1>1. inbox = <<>> /\ starting = 0 /\ turns = 0 /\ \A c \in Callers : calls[c].stage = "none"
  BY DEF Init, NoCall
<1> QED BY <1>1, OtherCallers DEF CallersInv, Asked

LEMMA CallersInductive ==
  ASSUME TypeInv, CallersInv, [Next]_vars PROVE CallersInv'
<1>1. CASE UNCHANGED vars
  BY <1>1 DEF CallersInv, Asked, TurnRequest, vars, worker, bounds
<1>2. CASE Next
  BY <1>2, StepsGoOn, SendsGoOn, WorkerGoesOn, OthersGoOn DEF Next, CallSteps, Fault
<1> QED BY <1>1, <1>2

-----------------------------------------------------------------------------
(* The events tell the turn.  An account with turn a that takes the events *)
(* of feed f one by one, each of which is for it, shows turn t at the end. *)

TurnAfter(a, f, i) ==
  IF i = 0 THEN a ELSE IF f[i].type = "turn.started" THEN f[i].turn ELSE None
IsFor(e, a) == a \in IF e.type = "turn.completed" THEN {None, e.turn} ELSE {None}
Tells(a, f, t) ==
  /\ \A i \in 1..Len(f) : IsFor(f[i], TurnAfter(a, f, i - 1))
  /\ TurnAfter(a, f, Len(f)) = t

LEMMA TellsMore ==
  ASSUME NEW f \in Seq(RuntimeEvent), NEW a, NEW t, Tells(a, f, t),
         NEW e \in RuntimeEvent, IsFor(e, t)
  PROVE  Tells(a, Append(f, e), IF e.type = "turn.started" THEN e.turn ELSE None)
<1> DEFINE g == Append(f, e)
<1>1. Len(g) = Len(f) + 1 /\ Len(f) \in Nat /\ g[Len(f) + 1] = e
      /\ \A i \in 1..Len(f) : g[i] = f[i]
  OBVIOUS
<1> HIDE DEF g
<1>2. \A i \in 0..Len(f) : TurnAfter(a, g, i) = TurnAfter(a, f, i)
  BY <1>1 DEF TurnAfter
<1>3. ASSUME NEW i \in 1..Len(g) PROVE IsFor(g[i], TurnAfter(a, g, i - 1))
  <2>1. CASE i \in 1..Len(f)
    <3>1. i - 1 \in 0..Len(f)
      BY <1>1, <2>1
    <3> QED BY <1>1, <1>2, <2>1, <3>1 DEF Tells
  <2>2. CASE i = Len(f) + 1
    <3>1. i - 1 = Len(f) /\ Len(f) \in 0..Len(f)
      BY <1>1, <2>2
    <3> QED BY <1>1, <1>2, <2>2, <3>1 DEF Tells
  <2> QED BY <1>1, <2>1, <2>2
<1>4. TurnAfter(a, g, Len(g)) = IF e.type = "turn.started" THEN e.turn ELSE None
  BY <1>1 DEF TurnAfter
<1> QED BY <1>3, <1>4 DEF Tells, g

LEMMA TellsRest ==
  ASSUME NEW f \in Seq(RuntimeEvent), f # <<>>, NEW a, NEW t, Tells(a, f, t)
  PROVE  /\ IsFor(Head(f), a)
         /\ Tells(IF Head(f).type = "turn.started" THEN Head(f).turn ELSE None, Tail(f), t)
<1> DEFINE b == IF Head(f).type = "turn.started" THEN Head(f).turn ELSE None
           g == Tail(f)
<1>1. /\ Len(f) \in Nat \ {0} /\ Len(g) = Len(f) - 1 /\ Head(f) = f[1]
      /\ \A i \in 1..Len(g) : g[i] = f[i + 1]
  BY EmptySeq, HeadTailProperties
<1>2. IsFor(Head(f), a)
  BY <1>1 DEF Tells, TurnAfter
<1> HIDE DEF g
<1>3. \A i \in 0..Len(g) : TurnAfter(b, g, i) = TurnAfter(a, f, i + 1)
  BY <1>1 DEF TurnAfter
<1>4. ASSUME NEW i \in 1..Len(g) PROVE IsFor(g[i], TurnAfter(b, g, i - 1))
  <2>1. i - 1 \in 0..Len(g) /\ i + 1 \in 1..Len(f) /\ (i - 1) + 1 = (i + 1) - 1
    BY <1>1
  <2> QED BY <1>1, <1>3, <2>1 DEF Tells
<1>5. TurnAfter(b, g, Len(g)) = t
  <2>1. Len(g) \in 0..Len(g) /\ Len(g) + 1 = Len(f)
    BY <1>1
  <2> QED BY <1>3, <2>1 DEF Tells
<1> QED BY <1>2, <1>4, <1>5 DEF Tells, g

\* An account that has lost its turn is told of it all the same, unless there is
\* nothing left to take.
LEMMA TellsAnew ==
  ASSUME NEW f \in Seq(RuntimeEvent), NEW a, NEW t, Tells(a, f, t), f = <<>> => t = None
  PROVE  Tells(None, f, t)
<1>1. Len(f) \in Nat /\ (Len(f) = 0 => f = <<>>)
  BY EmptySeq
<1>2. ASSUME NEW i \in 1..Len(f) PROVE IsFor(f[i], TurnAfter(None, f, i - 1))
  BY <1>1 DEF Tells, TurnAfter, IsFor
<1>3. TurnAfter(None, f, Len(f)) = t
  BY <1>1 DEF Tells, TurnAfter
<1> QED BY <1>2, <1>3 DEF Tells

-----------------------------------------------------------------------------
(* The accounts of a session while nothing fails and no calls overlap.     *)

Calm == ~raced /\ trouble = 0

\* What thread.session says, or will when the event in hand is set.
ActiveTurn == IF reading # None THEN reading.turn ELSE ShownTurn
ShowsReady ==
  IF reading # None THEN reading.status = "ready" ELSE record # None /\ record.status = "ready"
CurrentTurn == IF HasSession THEN contexts[known].turn ELSE None

\* What a call that is under way has left of the session.
CallAgrees(c) ==
  /\ calls[c].stage \in {"record", "started", "send"} => HasSession
  /\ calls[c].stage = "record" => contexts[known].mode = calls[c].mode
  /\ calls[c].stage \in {"note", "stopped"} => ~HasSession
StagesInv ==
  /\ \A c \in Callers : CallAgrees(c)
  /\ calls[Reactor].stage \in {"record", "started"} => CurrentTurn = None
  /\ starting # 0 => calls[Reactor].stage \in StartStages \cup {"begin", "started"}
  /\ \A t \in Turns : calls[Send(t)].stage # "failed"
NoneRecords == \A c \in Callers : calls[c].stage # "record"
BoundInv ==
  HasSession /\ NoneRecords =>
    binding.status = "running" /\ binding.mode = contexts[known].mode
\* The events on their way end in the turn the session runs, and in a session.
TurnsInv == Tells(ActiveTurn, feed, CurrentTurn)
ReadyInv ==
  HasSession => IF feed = <<>> THEN ShowsReady ELSE feed[Len(feed)].type # "session.exited"
Accounts == StagesInv /\ BoundInv /\ TurnsInv /\ ReadyInv

StoppedInv ==
  /\ record # None /\ record.status = "stopped" => record.turn = None
  /\ reading # None /\ reading.status = "stopped" => reading.turn = None
AccountsInv == StoppedInv /\ (Calm => Accounts)

LEMMA SessionKept ==
  ASSUME UNCHANGED adapter
  PROVE  /\ HasSession' = HasSession /\ CurrentTurn' = CurrentTurn
         /\ contexts'[known'] = contexts[known]
BY DEF adapter, HasSession, In, CurrentTurn

LEMMA AccountKept ==
  ASSUME UNCHANGED <<record, reading>>
  PROVE  ActiveTurn' = ActiveTurn /\ ShowsReady' = ShowsReady
BY DEF ActiveTurn, ShowsReady, ShownTurn

LEMMA StoryKept ==
  ASSUME TurnsInv, ReadyInv, UNCHANGED <<record, reading, feed>>,
         CurrentTurn' = CurrentTurn, HasSession' => HasSession
  PROVE  TurnsInv' /\ ReadyInv'
<1>1. ActiveTurn' = ActiveTurn /\ ShowsReady' = ShowsReady
  BY AccountKept
<1>2. TurnsInv'
  BY <1>1 DEF TurnsInv, Tells, TurnAfter, IsFor
<1> QED BY <1>1, <1>2 DEF ReadyInv

LEMMA StoryGoesOn ==
  ASSUME TypeOK, TurnsInv, UNCHANGED <<record, reading>>,
         NEW e \in RuntimeEvent, feed' = Append(feed, e), IsFor(e, CurrentTurn),
         CurrentTurn' = (IF e.type = "turn.started" THEN e.turn ELSE None),
         HasSession' => e.type # "session.exited"
  PROVE  TurnsInv' /\ ReadyInv'
<1>1. feed \in Seq(RuntimeEvent)
  BY DEF TypeOK
<1>2. Tells(ActiveTurn, Append(feed, e), IF e.type = "turn.started" THEN e.turn ELSE None)
  BY <1>1, TellsMore DEF TurnsInv
<1>3. TurnsInv'
  BY <1>2, AccountKept DEF TurnsInv, Tells, TurnAfter, IsFor
<1>4. feed' # <<>> /\ feed'[Len(feed')] = e
  BY <1>1
<1> QED BY <1>3, <1>4 DEF ReadyInv

\* A session that starts to close ends its turn.
LEMMA StoryEnds ==
  ASSUME TypeOK, TurnsInv, HasSession, BeginClosing(known, "closing"), known' = known,
         UNCHANGED <<record, reading>>
  PROVE  ~HasSession' /\ CurrentTurn' = None /\ TurnsInv' /\ ReadyInv'
<1>1. known \in Contexts /\ contexts[known] \in Context /\ CurrentTurn = contexts[known].turn
  BY KnownIsContext DEF CurrentTurn
<1>2. ~HasSession'
  BY <1>1, PhaseSet DEF HasSession
<1>3. CurrentTurn' = None
  BY <1>2 DEF CurrentTurn
<1>4. CASE CurrentTurn = None
  <2>1. Completion(known) = <<>> /\ feed \in Seq(RuntimeEvent)
    BY <1>1, <1>4 DEF Completion, TypeOK
  <2>2. feed' = feed
    BY <2>1 DEF BeginClosing
  <2>3. TurnsInv'
    BY <1>3, <1>4, <2>2, AccountKept DEF TurnsInv, Tells, TurnAfter, IsFor
  <2> QED BY <1>2, <1>3, <2>3 DEF ReadyInv
<1>5. CASE CurrentTurn # None
  <2> DEFINE e == TurnCompleted(CurrentTurn)
  <2>1. Completion(known) = <<e>> /\ feed \in Seq(RuntimeEvent) /\ e \in RuntimeEvent
    BY <1>1, <1>5, EventsTyped DEF Completion, TypeOK, Context
  <2>2. feed' = Append(feed, e)
    BY <2>1 DEF BeginClosing
  <2>3. e.type = "turn.completed" /\ IsFor(e, CurrentTurn)
    BY DEF TurnCompleted, IsFor
  <2> HIDE DEF e
  <2> QED BY <1>2, <1>3, <2>1, <2>2, <2>3, StoryGoesOn
<1> QED BY <1>4, <1>5

\* One caller moves, no other is under way.
LEMMA OneMoves ==
  ASSUME StagesInv, NEW c \in Callers, starting' = starting,
         \A d \in Callers : d # c => calls'[d] = calls[d] /\ ~Busy(d),
         CallAgrees(c)',
         c = Reactor => (calls[c].stage \in StartStages \cup {"begin", "started"} =>
                           calls'[c].stage \in StartStages \cup {"begin", "started"}),
         calls'[c].stage \in {"record", "started"} => CurrentTurn' = None \/ c # Reactor,
         calls'[c].stage = "failed" => c = Reactor
  PROVE  StagesInv'
<1>1. \A d \in Callers : d # c => CallAgrees(d)'
  BY DEF CallAgrees, Busy
<1>2. (calls[Reactor].stage \in {"record", "started"} => CurrentTurn = None)'
  BY CallersDistinct DEF Busy
<1>3. starting' # 0 => calls'[Reactor].stage \in StartStages \cup {"begin", "started"}
  BY CallersDistinct DEF StagesInv
<1>4. \A t \in Turns : calls'[Send(t)].stage # "failed"
  BY CallersDistinct DEF StagesInv
<1> QED BY <1>1, <1>2, <1>3, <1>4 DEF StagesInv

\* Callers stop, or get ready for a call.
LEMMA NoneMoves ==
  ASSUME StagesInv, UNCHANGED adapter,
         \A c \in Callers : calls'[c] = calls[c]
                              \/ calls'[c].stage \in {"none", "begin", "halt", "route"},
         starting' # 0 => calls'[Reactor].stage \in StartStages \cup {"begin", "started"}
  PROVE  StagesInv'
<1>1. ASSUME NEW c \in Callers PROVE CallAgrees(c)'
  BY <1>1, SessionKept DEF StagesInv, CallAgrees
<1>2. (calls[Reactor].stage \in {"record", "started"} => CurrentTurn = None)'
  BY CallersDistinct, SessionKept DEF StagesInv
<1>3. \A t \in Turns : calls'[Send(t)].stage # "failed"
  BY CallersDistinct DEF StagesInv
<1> QED BY <1>1, <1>2, <1>3 DEF StagesInv

LEMMA BoundKept ==
  ASSUME BoundInv, binding' = binding, NoneRecords' => NoneRecords,
         HasSession' => HasSession /\ contexts'[known'].mode = contexts[known].mode
  PROVE  BoundInv'
BY DEF BoundInv

\* A call that begins.
LEMMA BeginsAgree ==
  ASSUME TypeInv, QuietInv, Calm, Accounts, Calm', NEW c \in Callers,
         StartBegins(c) \/ StopBegins(c)
  PROVE  Accounts'
<1> USE DEF TypeInv
<1>1. /\ UNCHANGED <<record, reading, known, binding, starting>> /\ NoteRace
      /\ calls[c].stage \in {"begin", "halt"}
  BY DEF StartBegins, StopBegins, thread, worker
<1>2. \A d \in Callers : ~Busy(d)
  BY <1>1 DEF NoteRace, Calm, UnderWay, Busy
<1>3. CASE HasSession /\ BeginClosing(known, "closing")
           /\ \E stage \in {"replace", "close"} :
                /\ calls' = [calls EXCEPT ![c].stage = stage, ![c].context = known]
                /\ stage = "close" => calls[c].stage = "halt"
  <2>1. PICK stage \in {"replace", "close"} :
          /\ calls' = [calls EXCEPT ![c].stage = stage, ![c].context = known]
          /\ stage = "close" => calls[c].stage = "halt"
    BY <1>3
  <2>2. calls'[c].stage = stage /\ \A d \in Callers : d # c => calls'[d] = calls[d]
    BY <2>1 DEF TypeOK, Call
  <2>3. ~HasSession' /\ CurrentTurn' = None /\ TurnsInv' /\ ReadyInv'
    BY <1>1, <1>3, StoryEnds DEF Accounts
  <2>4. CallAgrees(c)'
    BY <2>2 DEF CallAgrees
  <2>5. StagesInv'
    BY <1>1, <1>2, <2>1, <2>2, <2>3, <2>4, OneMoves DEF Accounts, StartStages
  <2> QED BY <2>3, <2>5 DEF Accounts, BoundInv
<1>4. CASE UNCHANGED <<contexts, feed>>
           /\ \E stage : /\ Goes(c, stage) /\ stage \in {"open", "note", "none", "failed"}
                         /\ stage \in {"open", "note"} => ~HasSession
                         /\ stage # "open" => calls[c].stage = "halt"
                         /\ stage = "failed" => c = Reactor
  <2>1. PICK stage : /\ Goes(c, stage) /\ stage \in {"open", "note", "none", "failed"}
                     /\ stage \in {"open", "note"} => ~HasSession
                     /\ stage # "open" => calls[c].stage = "halt"
                     /\ stage = "failed" => c = Reactor
    BY <1>4
  <2>2. calls'[c].stage = stage /\ \A d \in Callers : d # c => calls'[d] = calls[d]
    BY <2>1, OneGoes
  <2>3. UNCHANGED adapter
    BY <1>1, <1>4 DEF adapter
  <2>4. CallAgrees(c)'
    BY <2>1, <2>2, <2>3, SessionKept DEF CallAgrees
  <2>5. StagesInv'
    BY <1>1, <1>2, <2>1, <2>2, <2>4, OneMoves DEF Accounts, StartStages
  <2>6. BoundInv'
    BY <1>1, <1>2, <2>3, SessionKept, BoundKept DEF Accounts, NoneRecords, Busy
  <2>7. TurnsInv' /\ ReadyInv'
    BY <1>1, <1>4, <2>3, SessionKept, StoryKept DEF Accounts
  <2> QED BY <2>5, <2>6, <2>7 DEF Accounts
<1>5. CASE StartBegins(c)
  BY <1>3, <1>4, <1>5 DEF StartBegins
<1>6. CASE StopBegins(c)
  <2>1. CASE binding = None
    BY <1>4, <1>6, <2>1 DEF StopBegins, Ended
  <2>2. CASE binding # None
    BY <1>3, <1>4, <1>6, <2>2 DEF StopBegins
  <2> QED BY <2>1, <2>2
<1> QED BY <1>5, <1>6

LEMMA StartsAgree ==
  ASSUME TypeInv, QuietInv, Calm, Accounts, NEW c \in Callers,
         StartReplaces(c) \/ StartOpens(c) \/ StartRecords(c)
  PROVE  Accounts'
<1> USE DEF TypeInv
<1>1. /\ UNCHANGED <<record, reading, starting>> /\ Quiet
      /\ calls[c].stage \in {"replace", "open", "record"}
  BY DEF StartReplaces, StartOpens, StartRecords, thread, worker, ingestion, QuietInv, Calm
<1>2. \A d \in Callers : d # c => ~Busy(d)
  BY <1>1 DEF Quiet, OneUnderWay, Busy
<1>3. ASSUME NoneLive PROVE ~HasSession /\ CurrentTurn = None
  BY <1>3, BoundsAreNaturals DEF NoneLive, HasSession, CurrentTurn, TypeOK, Contexts
<1>4. CASE StartReplaces(c)
  <2>1. calls'[c].stage = "open" /\ \A d \in Callers : d # c => calls'[d] = calls[d]
    BY <1>4 DEF StartReplaces, TypeOK, Call
  <2>2. ~HasSession /\ CurrentTurn = None
    BY <1>1, <1>3, <1>4 DEF StartReplaces, Quiet, NoneLiveBetween
  <2>3. ~HasSession' /\ CurrentTurn' = None /\ feed' = feed
    BY <1>4 DEF StartReplaces, EndClosing, HasSession, CurrentTurn, ingestion
  <2>4. CallAgrees(c)'
    BY <2>1 DEF CallAgrees
  <2>5. StagesInv'
    BY <1>1, <1>2, <2>1, <2>4, OneMoves DEF Accounts, StartStages
  <2>6. TurnsInv' /\ ReadyInv'
    BY <1>1, <2>2, <2>3, StoryKept DEF Accounts
  <2> QED BY <2>3, <2>5, <2>6 DEF Accounts, BoundInv
<1>5. CASE StartOpens(c)
  <2>1. calls'[c].stage = "record" /\ calls'[c].mode = calls[c].mode
        /\ \A d \in Callers : d # c => calls'[d] = calls[d]
    BY <1>5 DEF StartOpens, Goes, TypeOK, Call
  <2>2. ~HasSession /\ CurrentTurn = None
    BY <1>1, <1>3, <1>5 DEF StartOpens, Quiet, NoneLiveBetween
  <2>3. PICK i \in Contexts :
          /\ contexts' = [contexts EXCEPT ![i] =
                            [mode |-> calls[c].mode, turn |-> None, phase |-> "live"]]
          /\ known' = i
    BY <1>5 DEF StartOpens
  <2>4. i # 0 /\ contexts'[i] = [mode |-> calls[c].mode, turn |-> None, phase |-> "live"]
        /\ contexts'[i] \in Context
    <3>1. [mode |-> calls[c].mode, turn |-> None, phase |-> "live"] \in Context
      BY DEF TypeOK, Call, Context
    <3> QED BY <2>3, <3>1 DEF TypeOK, Contexts
  <2>5. HasSession' /\ CurrentTurn' = None /\ contexts'[known'].mode = calls'[c].mode
    BY <2>1, <2>3, <2>4, NoneIsNoContext DEF HasSession, CurrentTurn, In
  <2>6. CallAgrees(c)'
    BY <2>1, <2>5 DEF CallAgrees
  <2>7. StagesInv'
    BY <1>1, <1>2, <2>1, <2>5, <2>6, OneMoves DEF Accounts, StartStages
  <2>8. TurnsInv' /\ ReadyInv'
    <3>1. SessionStarted \in RuntimeEvent /\ SessionStarted.type = "session.started"
          /\ feed' = Append(feed, SessionStarted)
      BY <1>5, SessionEventsTyped DEF SessionStarted, StartOpens
    <3> QED BY <1>1, <2>2, <2>5, <3>1, StoryGoesOn DEF Accounts, IsFor
  <2>9. BoundInv'
    BY <2>1 DEF BoundInv, NoneRecords
  <2> QED BY <2>7, <2>8, <2>9 DEF Accounts
<1>6. CASE StartRecords(c)
  <2>1. calls'[c].stage = "started" /\ calls[c].stage = "record"
        /\ \A d \in Callers : d # c => calls'[d] = calls[d]
    BY <1>6, OneGoes DEF StartRecords
  <2>2. UNCHANGED <<adapter, feed>>
        /\ binding' = [status |-> "running", mode |-> calls[c].mode, fresh |-> TRUE]
    BY <1>6 DEF StartRecords, ingestion
  <2>3. HasSession /\ contexts[known].mode = calls[c].mode
        /\ (c = Reactor => CurrentTurn = None)
    BY <2>1 DEF Accounts, StagesInv, CallAgrees
  <2>4. CallAgrees(c)'
    BY <2>1, <2>2, <2>3, SessionKept DEF CallAgrees
  <2>5. StagesInv'
    BY <1>1, <1>2, <2>1, <2>2, <2>3, <2>4, SessionKept, OneMoves DEF Accounts, StartStages
  <2>6. BoundInv'
    BY <2>2, <2>3, SessionKept DEF BoundInv
  <2>7. TurnsInv' /\ ReadyInv'
    BY <1>1, <2>2, SessionKept, StoryKept DEF Accounts
  <2> QED BY <2>5, <2>6, <2>7 DEF Accounts
<1> QED BY <1>4, <1>5, <1>6

LEMMA StopsAgree ==
  ASSUME TypeInv, QuietInv, Calm, Accounts, NEW c \in Callers, StopCloses(c) \/ StopNotes(c)
  PROVE  Accounts'
<1> USE DEF TypeInv
<1>1. /\ UNCHANGED <<record, reading, starting>> /\ Quiet
      /\ calls[c].stage \in {"close", "note"}
  BY DEF StopCloses, StopNotes, thread, worker, ingestion, QuietInv, Calm
<1>2. \A d \in Callers : d # c => ~Busy(d)
  BY <1>1 DEF Quiet, OneUnderWay, Busy
<1>3. ~HasSession /\ CurrentTurn = None
  <2>1. NoneLive => ~HasSession
    BY BoundsAreNaturals DEF NoneLive, HasSession, TypeOK, Contexts
  <2> QED
    BY <1>1, <2>1 DEF Quiet, NoneLiveBetween, Accounts, StagesInv, CallAgrees, CurrentTurn
<1>4. ASSUME ~HasSession', calls'[c].stage \in {"note", "stopped", "none"},
             \A d \in Callers : d # c => calls'[d] = calls[d]
      PROVE  StagesInv' /\ BoundInv'
  <2>1. CallAgrees(c)'
    BY <1>4 DEF CallAgrees
  <2>2. StagesInv'
    BY <1>1, <1>2, <1>4, <2>1, OneMoves DEF Accounts, StartStages
  <2> QED BY <1>4, <2>2 DEF BoundInv
<1>5. CASE StopCloses(c)
  <2>1. calls'[c].stage = "note" /\ \A d \in Callers : d # c => calls'[d] = calls[d]
    BY <1>5 DEF StopCloses, TypeOK, Call
  <2>2. ~HasSession' /\ CurrentTurn' = None
    BY <1>5 DEF StopCloses, EndClosing, HasSession, CurrentTurn
  <2>3. SessionExited \in RuntimeEvent /\ SessionExited.type = "session.exited"
        /\ feed' = Append(feed, SessionExited)
    BY <1>5, SessionEventsTyped DEF SessionExited, StopCloses
  <2>4. TurnsInv' /\ ReadyInv'
    BY <1>1, <1>3, <2>2, <2>3, StoryGoesOn DEF Accounts, IsFor
  <2> QED BY <1>4, <2>1, <2>2, <2>4 DEF Accounts
<1>6. CASE StopNotes(c)
  <2>1. calls'[c].stage \in {"stopped", "none"}
        /\ \A d \in Callers : d # c => calls'[d] = calls[d]
    BY <1>6, OneGoes DEF StopNotes, Ended
  <2>2. UNCHANGED <<adapter, feed>>
    BY <1>6 DEF StopNotes, ingestion
  <2>3. TurnsInv' /\ ReadyInv'
    BY <1>1, <2>2, SessionKept, StoryKept DEF Accounts
  <2> QED BY <1>3, <1>4, <2>1, <2>2, <2>3, SessionKept DEF Accounts
<1> QED BY <1>5, <1>6

\* A turn that is sent finds its session, and its start is told.
LEMMA SendsAgree ==
  ASSUME TypeInv, QuietInv, Calm, Accounts, Calm', NEW t \in Turns, SendSteps(t)
  PROVE  Accounts'
<1> USE DEF TypeInv
<1>1. Send(t) \in Callers /\ Send(t) # Reactor /\ starting' = starting /\ reading' = reading
  BY CallersDistinct
  DEF SendSteps, SendRoutes, SendTurn, SendNotes, SendFails, worker, ingestion
<1>2. CASE SendRoutes(t)
  <2>1. calls'[Send(t)].stage \in {"send", "begin"}
        /\ (calls'[Send(t)].stage = "send" => HasSession)
        /\ \A d \in Callers : d # Send(t) => calls'[d] = calls[d]
    BY <1>1, <1>2 DEF SendRoutes, CallOf, TypeOK
  <2>2. \A d \in Callers : ~Busy(d)
    BY <1>2 DEF SendRoutes, NoteRace, Calm, UnderWay, Busy
  <2>3. UNCHANGED <<adapter, feed, record, binding>>
    BY <1>2 DEF SendRoutes, ingestion, thread
  <2>4. CallAgrees(Send(t))'
    BY <2>1, <2>3, SessionKept DEF CallAgrees
  <2>5. StagesInv'
    BY <1>1, <2>1, <2>2, <2>4, OneMoves DEF Accounts
  <2>6. BoundInv'
    BY <2>2, <2>3, SessionKept, BoundKept DEF Accounts, NoneRecords, Busy
  <2>7. TurnsInv' /\ ReadyInv'
    BY <1>1, <2>3, SessionKept, StoryKept DEF Accounts
  <2> QED BY <2>5, <2>6, <2>7 DEF Accounts
<1>3. CASE SendTurn(t)
  <2>1. calls[Send(t)].stage \in {"send", "started"} /\ HasSession
    BY <1>1, <1>3 DEF SendTurn, Accounts, StagesInv, CallAgrees
  <2>2. /\ contexts' = [contexts EXCEPT ![known].turn = t]
        /\ feed' = feed \o Append(Completion(known), TurnStarted(t))
        /\ Goes(Send(t), "sent") /\ UNCHANGED <<record, binding, known>>
    BY <1>3, <2>1 DEF SendTurn, thread
  <2>3. calls'[Send(t)].stage = "sent" /\ \A d \in Callers : d # Send(t) => calls'[d] = calls[d]
    BY <1>1, <2>2, OneGoes
  <2>4. \A d \in Callers : d # Send(t) => ~Busy(d)
    BY <1>1, <2>1 DEF QuietInv, Calm, Quiet, OneUnderWay, Busy
  <2>5. known \in Contexts /\ contexts[known] \in Context /\ CurrentTurn = contexts[known].turn
    BY <2>1, KnownIsContext DEF CurrentTurn
  <2>6. contexts'[known] = [contexts[known] EXCEPT !.turn = t]
    BY <2>2, <2>5 DEF TypeOK
  <2>7. /\ contexts'[known] \in Context /\ contexts'[known].turn = t
        /\ contexts'[known].mode = contexts[known].mode
        /\ contexts'[known].phase = contexts[known].phase
    BY <2>5, <2>6 DEF Context
  <2>8. HasSession' /\ CurrentTurn' = t
    BY <2>1, <2>2, <2>7, NoneIsNoContext DEF HasSession, CurrentTurn, In
  <2>9. StagesInv'
    <3>1. CallAgrees(Send(t))'
      BY <2>3 DEF CallAgrees
    <3> QED BY <1>1, <2>3, <2>4, <3>1, OneMoves DEF Accounts
  <2>10. BoundInv'
    <3>1. NoneRecords
      BY <2>1, <2>4 DEF NoneRecords, Busy
    <3> QED BY <2>1, <2>2, <2>7, <3>1, BoundKept DEF Accounts
  <2>11. TurnsInv' /\ ReadyInv'
    <3> DEFINE e == TurnStarted(t)
               f == feed \o Completion(known)
    <3>1. e \in RuntimeEvent /\ e.type = "turn.started" /\ e.turn = t
      BY EventsTyped DEF TurnStarted
    <3> HIDE DEF e
    <3>2. f \in Seq(RuntimeEvent) /\ feed \in Seq(RuntimeEvent) /\ feed' = Append(f, e)
      <4>1. feed \in Seq(RuntimeEvent) /\ Completion(known) \in Seq(RuntimeEvent)
        BY <2>5, CompletionTyped DEF TypeOK
      <4>2. feed \o Append(Completion(known), e) = Append(feed \o Completion(known), e)
        BY <3>1, <4>1
      <4>3. feed' = feed \o Append(Completion(known), e)
        BY <2>2 DEF e
      <4> QED BY <4>1, <4>2, <4>3
    <3>3. Tells(ActiveTurn, f, None)
      <4>1. CASE CurrentTurn = None
        BY <2>5, <3>2, <4>1 DEF Completion, Accounts, TurnsInv
      <4>2. CASE CurrentTurn # None
        <5> DEFINE d == TurnCompleted(CurrentTurn)
        <5>1. Completion(known) = <<d>> /\ d \in RuntimeEvent
          BY <2>5, <4>2, EventsTyped DEF Completion, Context
        <5>2. f = Append(feed, d)
          BY <3>2, <5>1
        <5>3. d.type = "turn.completed" /\ IsFor(d, CurrentTurn)
          BY DEF TurnCompleted, IsFor
        <5> HIDE DEF d
        <5> QED BY <3>2, <5>1, <5>2, <5>3, TellsMore DEF Accounts, TurnsInv
      <4> QED BY <4>1, <4>2
    <3> HIDE DEF f
    <3>4. Tells(ActiveTurn, Append(f, e), t)
      BY <3>1, <3>2, <3>3, TellsMore DEF IsFor
    <3>5. TurnsInv'
      BY <1>1, <2>2, <2>8, <3>2, <3>4, AccountKept DEF TurnsInv, Tells, TurnAfter, IsFor
    <3>6. feed' # <<>> /\ feed'[Len(feed')] = e
      BY <3>1, <3>2
    <3> QED BY <3>1, <3>5, <3>6 DEF ReadyInv
  <2> QED BY <2>9, <2>10, <2>11 DEF Accounts
<1>4. CASE SendNotes(t)
  <2>1. calls[Send(t)].stage = "sent" /\ calls'[Send(t)].stage = "none"
        /\ \A d \in Callers : d # Send(t) => calls'[d] = calls[d]
    BY <1>1, <1>4 DEF SendNotes, NoCall, TypeOK
  <2>2. UNCHANGED <<adapter, feed, record>>
    BY <1>4 DEF SendNotes, ingestion, thread
  <2>3. binding' = [binding EXCEPT !.status = "running", !.fresh = TRUE] /\ binding \in Binding
    BY <1>1, <1>4, <2>1, BoundBinding DEF SendNotes, BindingInv, BeforeBinding
  <2>4. binding'.status = "running" /\ binding'.mode = binding.mode
    BY <2>3 DEF Binding
  <2>5. StagesInv'
    BY <1>1, <2>1, <2>2, CallersDistinct, NoneMoves DEF Accounts, StagesInv
  <2>6. BoundInv'
    <3>1. NoneRecords' => NoneRecords
      BY <2>1 DEF NoneRecords
    <3> QED BY <2>2, <2>4, <3>1, SessionKept DEF Accounts, BoundInv
  <2>7. TurnsInv' /\ ReadyInv'
    BY <1>1, <2>2, SessionKept, StoryKept DEF Accounts
  <2> QED BY <2>5, <2>6, <2>7 DEF Accounts
<1>5. CASE SendFails(t)
  BY <1>5 DEF SendFails, Accounts, StagesInv
<1> QED BY <1>2, <1>3, <1>4, <1>5 DEF SendSteps

LEMMA CallersPrepare ==
  ASSUME Accounts, UNCHANGED <<adapter, binding>>,
         \A c \in Callers :
           \/ calls'[c] = calls[c]
           \/ /\ calls'[c].stage \in {"none", "begin", "halt", "route"}
              /\ calls[c].stage # "record",
         starting' # 0 => calls'[Reactor].stage \in StartStages \cup {"begin", "started"}
  PROVE  StagesInv' /\ BoundInv'
<1>1. StagesInv'
  BY NoneMoves DEF Accounts
<1>2. NoneRecords' => NoneRecords
  BY DEF NoneRecords
<1> QED BY <1>1, <1>2, SessionKept, BoundKept DEF Accounts

\* thread.session is set to a session without a turn.
LEMMA AccountReset ==
  ASSUME TypeOK, TurnsInv, ReadyInv, UNCHANGED <<adapter, feed, reading>>,
         record' # None, record'.turn = None, CurrentTurn = None,
         HasSession => record'.status = "ready"
  PROVE  TurnsInv' /\ ReadyInv'
<1>1. TurnsInv'
  <2>1. CASE reading # None
    <3>1. ActiveTurn' = ActiveTurn
      BY <2>1 DEF ActiveTurn
    <3> QED BY <3>1, SessionKept DEF TurnsInv, Tells, TurnAfter, IsFor
  <2>2. CASE reading = None
    <3>1. ActiveTurn' = None
      BY <2>2 DEF ActiveTurn, ShownTurn
    <3>2. Tells(None, feed, CurrentTurn)
      BY TellsAnew DEF TypeOK, TurnsInv
    <3> QED BY <3>1, <3>2, SessionKept DEF TurnsInv, Tells, TurnAfter, IsFor
  <2> QED BY <2>1, <2>2
<1>2. ReadyInv'
  BY SessionKept DEF ReadyInv, ShowsReady
<1> QED BY <1>1, <1>2

LEMMA WorkerAgrees ==
  ASSUME TypeInv, QuietInv, CallersInv, StoppedInv, Calm, Accounts, WorkerSteps
  PROVE  Accounts'
<1> USE DEF TypeInv
<1>0. calls \in [Callers -> Call] /\ Reactor \in Callers
  BY CallersDistinct DEF TypeOK
<1>1. UNCHANGED <<adapter, binding, feed, reading>>
  BY DEF WorkerSteps, TakeTurnStart, TakeModeSet, BindSession, TakeSessionStop, RecordStop,
         ReactorGivesUp, ingestion
<1>2. ASSUME calls[Reactor].stage = "none" PROVE starting = 0
  BY <1>2 DEF Accounts, StagesInv, StartStages
<1>3. ASSUME record' = record PROVE TurnsInv' /\ ReadyInv'
  BY <1>1, <1>3, SessionKept, StoryKept DEF Accounts
<1>4. ASSUME NEW call, calls' = [calls EXCEPT ![Reactor] = call], starting' = starting,
             calls[Reactor].stage = "none", call.stage \in {"begin", "halt"}
      PROVE  StagesInv' /\ BoundInv'
  <2>1. \A c \in Callers : calls'[c] = IF c = Reactor THEN call ELSE calls[c]
    BY <1>0, <1>4
  <2> QED BY <1>1, <1>2, <1>4, <2>1, CallersPrepare
<1>5. CASE TakeTurnStart
  <2>0. PICK t : t = Head(inbox).turn
    OBVIOUS
  <2>1. Takes("turn-start") /\ record' = record
    BY <1>5 DEF TakeTurnStart, thread
  <2>2. calls[Reactor].stage = "none" /\ \A u \in Turns : u = t => calls[Send(u)].stage = "none"
    <3>1. Asked(t)
      BY <2>0, <2>1, TakenOnce
    <3> QED BY <2>1, <3>1 DEF Takes, CallersInv
  <2>3. CASE calls' = [calls EXCEPT ![Send(t)] = CallOf("route", DefaultMode)]
             /\ UNCHANGED starting
    <3>1. \A c \in Callers : calls'[c] = IF c = Send(t) THEN CallOf("route", DefaultMode)
                                         ELSE calls[c]
      BY <1>0, <2>3
    <3>2. \A c \in Callers : c = Send(t) => calls[c].stage # "record"
      <4>1. \A c \in Callers : c = Send(t) => t \in Turns
        BY DEF Callers, Send, Reactor, Reaper, Deletion
      <4> QED BY <2>2, <4>1
    <3> QED BY <1>1, <1>2, <1>3, <2>1, <2>2, <2>3, <3>1, <3>2, CallersPrepare DEF CallOf, Accounts
  <2>4. CASE calls' = [calls EXCEPT ![Reactor] = CallOf("begin", mode)]
    <3>1. \A c \in Callers : calls'[c] = IF c = Reactor THEN CallOf("begin", mode) ELSE calls[c]
      BY <1>0, <2>4
    <3> QED BY <1>0, <1>1, <1>3, <2>1, <2>2, <3>1, CallersPrepare DEF CallOf, Accounts
  <2> QED BY <1>5, <2>0, <2>3, <2>4 DEF TakeTurnStart
<1>6. CASE TakeModeSet
  <2>1. calls[Reactor].stage = "none" /\ starting' = starting /\ record' = record
    BY <1>6 DEF TakeModeSet, Takes, thread
  <2>2. CASE calls' = calls
    BY <1>1, <1>2, <1>3, <2>1, <2>2, CallersPrepare DEF Accounts
  <2>3. CASE calls' = [calls EXCEPT ![Reactor] = CallOf("begin", mode)]
    <3>1. CallOf("begin", mode).stage = "begin"
      BY DEF CallOf
    <3> QED BY <1>3, <1>4, <2>1, <2>3, <3>1 DEF Accounts
  <2> QED BY <1>6, <2>2, <2>3 DEF TakeModeSet
<1>7. CASE BindSession
  <2>1. /\ calls[Reactor].stage = "started" /\ starting' = 0
        /\ record' = Ready(calls[Reactor].mode, None)
        /\ \A c \in Callers : calls'[c] = IF c = Reactor THEN NoCall
                                          ELSE IF c = Send(starting)
                                               THEN CallOf("route", DefaultMode) ELSE calls[c]
    BY <1>7 DEF BindSession
  <2>2. \A c \in Callers : calls[c].stage # "record"
    BY <1>0, <2>1 DEF QuietInv, Calm, Quiet, OneUnderWay, Busy
  <2>3. StagesInv' /\ BoundInv'
    BY <1>1, <2>1, <2>2, CallersPrepare DEF CallOf, NoCall
  <2>4. record' # None /\ record'.turn = None /\ record'.status = "ready"
    <3>1. record' \in Session
      BY <1>0, <2>1, SessionsTyped DEF Call
    <3> QED BY <2>1, <3>1, NoneIsNoSession DEF Ready
  <2>5. CurrentTurn = None
    BY <2>1 DEF Accounts, StagesInv
  <2> QED BY <1>1, <2>3, <2>4, <2>5, AccountReset DEF Accounts
<1>8. ASSUME NEW m \in Modes, record' = Stopped(m)
      PROVE  record' # None /\ record'.turn = None /\ record'.status = "stopped"
  <2>1. Stopped(m) \in Session
    BY SessionsTyped
  <2> QED BY <1>8, <2>1, NoneIsNoSession DEF Stopped
<1>9. CASE TakeSessionStop
  <2> DEFINE m == IF record = None THEN DefaultMode ELSE record.mode
  <2>0. m \in Modes
    BY DefaultIsAMode DEF TypeOK, Session
  <2> HIDE DEF m
  <2>1. calls[Reactor].stage = "none" /\ starting' = starting
    BY <1>9 DEF TakeSessionStop, Takes
  <2>2. CASE calls' = [calls EXCEPT ![Reactor] = CallOf("halt", m)] /\ record' = record
    <3>1. CallOf("halt", m).stage = "halt"
      BY DEF CallOf
    <3> QED BY <1>3, <1>4, <2>1, <2>2, <3>1 DEF Accounts
  <2>3. CASE ~Running /\ record' = Stopped(m) /\ calls' = calls
    <3>1. record' # None /\ record'.turn = None /\ record'.status = "stopped"
      BY <1>8, <2>0, <2>3
    <3>2. ShownTurn = None
      BY <2>3 DEF Running, ShownTurn, StoppedInv
    <3>3. ActiveTurn' = ActiveTurn
      BY <1>1, <3>1, <3>2 DEF ActiveTurn, ShownTurn
    <3>4. TurnsInv'
      BY <1>1, <3>3, SessionKept DEF Accounts, TurnsInv, Tells, TurnAfter, IsFor
    <3>5. ReadyInv'
      BY <1>1, <2>3, SessionKept DEF Accounts, ReadyInv, ShowsReady, Running
    <3>6. StagesInv' /\ BoundInv'
      BY <1>1, <1>2, <2>1, <2>3, CallersPrepare
    <3> QED BY <3>4, <3>5, <3>6 DEF Accounts
  <2> QED BY <1>9, <2>2, <2>3 DEF TakeSessionStop, m
<1>10. CASE RecordStop
  <2>1. /\ calls[Reactor].stage = "stopped" /\ starting' = starting
        /\ record' = Stopped(calls[Reactor].mode)
        /\ \A c \in Callers : calls'[c] = IF c = Reactor THEN NoCall ELSE calls[c]
    BY <1>0, <1>10 DEF RecordStop, worker
  <2>2. ~HasSession /\ CurrentTurn = None /\ starting = 0
    BY <1>0, <2>1 DEF Accounts, StagesInv, CallAgrees, CurrentTurn, StartStages
  <2>3. record' # None /\ record'.turn = None
    BY <1>0, <1>8, <2>1 DEF Call
  <2>4. StagesInv' /\ BoundInv'
    BY <1>1, <2>1, <2>2, CallersPrepare DEF NoCall
  <2> QED BY <1>1, <2>2, <2>3, <2>4, AccountReset DEF Accounts
<1>11. CASE ReactorGivesUp
  <2>1. /\ calls[Reactor].stage = "failed" /\ starting' = 0
        /\ \A c \in Callers : calls'[c] = IF c = Reactor THEN NoCall ELSE calls[c]
    BY <1>0, <1>11 DEF ReactorGivesUp
  <2>2. starting = 0
    BY <2>1 DEF Accounts, StagesInv, StartStages
  <2>3. record' = record
    BY <1>11, <2>2 DEF ReactorGivesUp
  <2>4. StagesInv' /\ BoundInv'
    BY <1>1, <2>1, CallersPrepare DEF NoCall
  <2> QED BY <1>3, <2>3, <2>4 DEF Accounts
<1> QED BY <1>5, <1>6, <1>7, <1>9, <1>10, <1>11 DEF WorkerSteps

\* Every event is for the account that takes it.
LEMMA IngestAgrees ==
  ASSUME TypeInv, Accounts, IngestSteps
  PROVE  Accounts'
<1> USE DEF TypeInv
<1>1. UNCHANGED <<adapter, binding, calls, starting>>
  BY DEF IngestSteps, IngestRead, IngestSet, worker
<1>2. StagesInv' /\ BoundInv'
  BY <1>1, CallersPrepare DEF Accounts, StagesInv
<1>3. CASE IngestRead
  <2> DEFINE e == Head(feed)
             m == IF record = None THEN DefaultMode ELSE record.mode
             t == IF e.type = "turn.started" THEN e.turn ELSE None
  <2>1. /\ reading = None /\ feed # <<>> /\ feed' = Tail(feed) /\ record' = record
        /\ reading' = SessionAfter(e, m, ShownTurn)
    BY <1>3 DEF IngestRead, thread
  <2>2. feed \in Seq(RuntimeEvent) /\ e \in RuntimeEvent
    BY <2>1 DEF TypeOK
  <2>3. m \in Modes
    BY DefaultIsAMode DEF TypeOK, Session
  <2>4. IsFor(e, ShownTurn) /\ Tells(t, Tail(feed), CurrentTurn)
    <3>1. Tells(ShownTurn, feed, CurrentTurn)
      BY <2>1 DEF Accounts, TurnsInv, ActiveTurn
    <3> QED BY <2>1, <2>2, <3>1, TellsRest
  <2> HIDE DEF e, m
  <2>5. /\ reading' # None /\ reading'.turn = t
        /\ e.type # "session.exited" => reading'.status = "ready"
    <3>1. Ready(m, None) \in Session /\ Stopped(m) \in Session
          /\ \A u \in Turns : Ready(m, u) \in Session
      BY <2>3, SessionsTyped
    <3>2. CASE e.type = "session.started"
      <4>1. SessionAfter(e, m, ShownTurn) = Ready(m, None)
        BY <2>4, <3>2 DEF SessionAfter, IsFor
      <4> QED BY <2>1, <3>1, <3>2, <4>1, NoneIsNoSession DEF Ready
    <3>3. CASE e.type = "session.exited"
      <4>1. SessionAfter(e, m, ShownTurn) = Stopped(m)
        BY <3>3 DEF SessionAfter
      <4> QED BY <2>1, <3>1, <3>3, <4>1, NoneIsNoSession DEF Stopped
    <3>4. CASE e.type = "turn.started"
      <4>1. SessionAfter(e, m, ShownTurn) = Ready(m, e.turn)
        BY <2>4, <3>4 DEF SessionAfter, IsFor
      <4>2. Ready(m, e.turn) \in Session
        BY <2>2, <2>3, SessionsTyped DEF RuntimeEvent
      <4> QED BY <2>1, <3>4, <4>1, <4>2, NoneIsNoSession DEF Ready
    <3>5. CASE e.type = "turn.completed"
      <4>1. SessionAfter(e, m, ShownTurn) = Ready(m, None)
        BY <2>4, <3>5 DEF SessionAfter, IsFor
      <4> QED BY <2>1, <3>1, <3>5, <4>1, NoneIsNoSession DEF Ready
    <3> QED BY <2>2, <3>2, <3>3, <3>4, <3>5 DEF RuntimeEvent
  <2>6. ActiveTurn' = t /\ (e.type # "session.exited" => ShowsReady')
    BY <2>5 DEF ActiveTurn, ShowsReady
  <2>7. TurnsInv'
    BY <1>1, <2>1, <2>4, <2>6, SessionKept DEF TurnsInv, Tells, TurnAfter, IsFor
  <2>8. ReadyInv'
    <3>1. Len(feed) \in Nat \ {0} /\ Len(Tail(feed)) = Len(feed) - 1
          /\ \A i \in 1..Len(Tail(feed)) : Tail(feed)[i] = feed[i + 1]
      BY <2>1, <2>2, EmptySeq, HeadTailProperties
    <3>2. HasSession => feed[Len(feed)].type # "session.exited"
      BY <2>1 DEF Accounts, ReadyInv
    <3>3. CASE feed' = <<>>
      <4>1. Len(feed) = 1
        BY <2>1, <3>1, <3>3
      <4>2. e = feed[Len(feed)]
        BY <2>2, <4>1 DEF e
      <4> QED BY <1>1, <2>6, <3>2, <3>3, <4>2, SessionKept DEF ReadyInv
    <3>4. CASE feed' # <<>>
      <4>1. Len(feed') = Len(feed) - 1 /\ Len(feed') \in 1..Len(feed')
        BY <2>1, <2>2, <3>1, <3>4, EmptySeq
      <4>2. feed'[Len(feed')] = feed[Len(feed)]
        BY <2>1, <3>1, <4>1
      <4> QED BY <1>1, <3>2, <3>4, <4>2, SessionKept DEF ReadyInv
    <3> QED BY <3>3, <3>4
  <2> QED BY <1>2, <2>7, <2>8 DEF Accounts
<1>4. CASE IngestSet
  <2>1. reading # None /\ record' = reading /\ reading' = None /\ feed' = feed
    BY <1>4 DEF IngestSet
  <2>2. ActiveTurn' = ActiveTurn /\ ShowsReady' = ShowsReady
    BY <2>1 DEF ActiveTurn, ShowsReady, ShownTurn
  <2>3. TurnsInv'
    BY <1>1, <2>1, <2>2, SessionKept DEF Accounts, TurnsInv, Tells, TurnAfter, IsFor
  <2>4. ReadyInv'
    BY <1>1, <2>1, <2>2, SessionKept DEF Accounts, ReadyInv
  <2> QED BY <1>2, <2>3, <2>4 DEF Accounts
<1> QED BY <1>3, <1>4 DEF IngestSteps

LEMMA ContextsAgree ==
  ASSUME TypeInv, QuietInv, Calm, Accounts, NEW i \in Contexts, ContextSteps(i)
  PROVE  Accounts'
<1> USE DEF TypeInv
<1>1. UNCHANGED <<record, reading, binding, calls, starting>> /\ Quiet
  BY DEF ContextSteps, EndTurn, EndExit, thread, worker, QuietInv, Calm
<1>2. CASE EndTurn(i)
  <2>1. In(i, "live") /\ known = i /\ i # 0 /\ contexts[i] \in Context /\ known' = known
    BY <1>1, <1>2, ContextsTyped DEF EndTurn, Quiet, AllKnown, Contexts
  <2>2. HasSession /\ CurrentTurn = contexts[i].turn /\ CurrentTurn # None
    BY <1>2, <2>1 DEF EndTurn, HasSession, CurrentTurn
  <2>3. contexts'[i] = [contexts[i] EXCEPT !.turn = None]
    BY <1>2 DEF EndTurn, TypeOK
  <2>4. /\ contexts'[i] \in Context /\ contexts'[i].turn = None
        /\ contexts'[i].mode = contexts[i].mode /\ contexts'[i].phase = contexts[i].phase
    BY <2>1, <2>3 DEF Context
  <2>5. HasSession' /\ CurrentTurn' = None
    BY <2>1, <2>4, NoneIsNoContext DEF HasSession, CurrentTurn, In
  <2>6. StagesInv'
    <3>1. \A c \in Callers : CallAgrees(c)'
      BY <1>1, <2>1, <2>2, <2>4, <2>5 DEF Accounts, StagesInv, CallAgrees
    <3> QED BY <1>1, <2>5, <3>1 DEF Accounts, StagesInv
  <2>7. BoundInv'
    BY <1>1, <2>1, <2>2, <2>4, BoundKept DEF Accounts, NoneRecords
  <2>8. TurnsInv' /\ ReadyInv'
    <3> DEFINE e == TurnCompleted(CurrentTurn)
    <3>1. Completion(i) = <<e>> /\ feed \in Seq(RuntimeEvent) /\ e \in RuntimeEvent
      BY <2>1, <2>2, EventsTyped DEF Completion, TypeOK, Context
    <3>2. feed' = Append(feed, e)
      BY <1>2, <3>1 DEF EndTurn
    <3>3. e.type = "turn.completed" /\ IsFor(e, CurrentTurn)
      BY DEF TurnCompleted, IsFor
    <3> HIDE DEF e
    <3> QED BY <1>1, <2>5, <3>1, <3>2, <3>3, StoryGoesOn DEF Accounts
  <2> QED BY <2>6, <2>7, <2>8 DEF Accounts
<1>3. CASE EndExit(i)
  <2>1. ~HasSession' /\ CurrentTurn' = None
    BY <1>3 DEF EndExit, EndClosing, HasSession, CurrentTurn
  <2>2. NoneLive /\ \A c \in Callers : ~Busy(c)
    BY <1>1, <1>3 DEF EndExit, Quiet, NoneLiveBetween, OneUnderWay
  <2>3. CurrentTurn = None
    BY <2>2, BoundsAreNaturals DEF NoneLive, HasSession, CurrentTurn, TypeOK, Contexts
  <2>4. \A c \in Callers : CallAgrees(c)'
    BY <1>1, <2>2 DEF CallAgrees, Busy
  <2>5. StagesInv'
    BY <1>1, <2>1, <2>4 DEF Accounts, StagesInv
  <2>6. SessionExited \in RuntimeEvent /\ SessionExited.type = "session.exited"
        /\ feed' = Append(feed, SessionExited)
    BY <1>3, SessionEventsTyped DEF SessionExited, EndExit
  <2>7. TurnsInv' /\ ReadyInv'
    BY <1>1, <2>1, <2>3, <2>6, StoryGoesOn DEF Accounts, IsFor
  <2> QED BY <2>1, <2>5, <2>7 DEF Accounts, BoundInv
<1> QED BY <1>2, <1>3 DEF ContextSteps

LEMMA OthersAgree ==
  ASSUME TypeInv, CallersInv, Accounts, User \/ Age \/ Sweep
  PROVE  Accounts'
<1>0. calls \in [Callers -> Call]
  BY DEF TypeInv, TypeOK
<1>1. UNCHANGED <<adapter, record, reading, feed, starting>>
  BY DEF User, RequestTurn, RequestMode, RequestStop, RequestDeletion, Age, Sweep, thread,
         ingestion, worker
<1>2. TurnsInv' /\ ReadyInv'
  BY <1>1, SessionKept, StoryKept DEF Accounts
<1>3. starting' # 0 => calls[Reactor].stage \in StartStages \cup {"begin", "started"}
  BY <1>1 DEF Accounts, StagesInv
<1>4. CASE UNCHANGED <<calls, binding>>
  BY <1>1, <1>2, <1>3, <1>4, CallersPrepare DEF Accounts
<1>5. CASE RequestDeletion \/ Sweep
  <2>1. PICK c \in {Deletion, Reaper} :
          calls' = [calls EXCEPT ![c] = CallOf("halt", DefaultMode)]
            /\ calls[c].stage # "record" /\ binding' = binding
    BY <1>5 DEF RequestDeletion, Sweep, CallersInv, StopStages
  <2>2. \A d \in Callers :
          calls'[d] = IF d = c THEN CallOf("halt", DefaultMode) ELSE calls[d]
    BY <1>0, <2>1
  <2> QED BY <1>1, <1>2, <1>3, <2>1, <2>2, CallersDistinct, CallersPrepare DEF CallOf, Accounts
<1>6. CASE Age
  <2>1. /\ binding \in Binding /\ binding' = [binding EXCEPT !.fresh = FALSE]
        /\ calls' = calls
    BY <1>6, BoundBinding DEF Age, TypeInv
  <2>2. binding'.status = binding.status /\ binding'.mode = binding.mode
    BY <2>1 DEF Binding
  <2>3. StagesInv'
    BY <1>1, <1>3, <2>1, NoneMoves DEF Accounts
  <2>4. BoundInv'
    BY <1>1, <2>1, <2>2, SessionKept DEF Accounts, BoundInv, NoneRecords
  <2> QED BY <1>2, <2>3, <2>4 DEF Accounts
<1> QED BY <1>4, <1>5, <1>6 DEF User, RequestTurn, RequestMode, RequestStop

\* What was not calm does not become so, but by an end of the server, which counts.
LEMMA CalmBefore ==
  ASSUME TypeOK, Next, Calm'
  PROVE  Calm /\ ~Fault
<1>1. trouble \in Nat
  BY BoundsAreNaturals DEF TypeOK
<1>0. NoteRace => (raced => raced')
  BY Zenon DEF NoteRace
<1>2. ASSUME Fault PROVE FALSE
  BY <1>1, <1>2 DEF Fault, StartFails, StopFails, BeginExit, ServerEnds, Calm
<1>3. ASSUME User \/ WorkerSteps \/ IngestSteps \/ Age \/ Sweep
      PROVE  raced' = raced /\ trouble' = trouble
  BY <1>3
  DEF User, RequestTurn, RequestMode, RequestStop, RequestDeletion, WorkerSteps, TakeTurnStart,
      TakeModeSet, BindSession, TakeSessionStop, RecordStop, ReactorGivesUp, IngestSteps,
      IngestRead, IngestSet, Age, Sweep, bounds
<1>4. ASSUME NEW c \in Callers, CallSteps(c)
      PROVE  (raced => raced') /\ trouble' = trouble
  BY <1>0, <1>4
  DEF CallSteps, StartBegins, StartReplaces, StartOpens, StartRecords, StopBegins, StopCloses,
      StopNotes, bounds
<1>5. ASSUME NEW t \in Turns, SendSteps(t)
      PROVE  (raced => raced') /\ trouble' = trouble
  BY <1>0, <1>5 DEF SendSteps, SendRoutes, SendTurn, SendNotes, SendFails, bounds
<1>6. ASSUME NEW i \in Contexts, ContextSteps(i)
      PROVE  raced' = raced /\ trouble' = trouble
  BY <1>6 DEF ContextSteps, EndTurn, EndExit, bounds
<1> QED BY <1>2, <1>3, <1>4, <1>5, <1>6 DEF Next, Calm

LEMMA StoppedKept ==
  ASSUME TypeInv, StoppedInv, [Next]_vars PROVE StoppedInv'
<1> DEFINE Off(r) == r # None /\ r.status = "stopped" => r.turn = None
<1>1. ASSUME UNCHANGED <<record, reading>> PROVE StoppedInv'
  BY <1>1 DEF StoppedInv
<1>2. Off(ClearTurn) /\ Off(None)
  BY DEF ClearTurn, StoppedInv, TypeInv, TypeOK, Session
<1>3. \A m, t : Off(Stopped(m)) /\ Off(Ready(m, t))
  BY DEF Stopped, Ready
<1>4. ASSUME Off(record)', Off(reading)' PROVE StoppedInv'
  BY <1>4 DEF StoppedInv
<1>5. Off(record) /\ Off(reading)
  BY DEF StoppedInv
<1>6. CASE ServerEnds
  BY <1>2, <1>4, <1>5, <1>6 DEF ServerEnds
<1>7. CASE WorkerSteps
  BY <1>2, <1>3, <1>4, <1>5, <1>7
  DEF WorkerSteps, TakeTurnStart, TakeModeSet, BindSession, TakeSessionStop, RecordStop,
      ReactorGivesUp, thread, ingestion
<1>8. CASE IngestSteps
  <2>1. CASE IngestRead
    <3>1. Head(feed) \in RuntimeEvent
      BY <2>1 DEF IngestRead, TypeInv, TypeOK
    <3>2. \A m : Off(SessionAfter(Head(feed), m, ShownTurn))
      BY <1>2, <1>3, <3>1 DEF SessionAfter, RuntimeEvent
    <3> QED BY <1>4, <1>5, <2>1, <3>2 DEF IngestRead, thread
  <2>2. CASE IngestSet
    BY <1>2, <1>4, <1>5, <2>2 DEF IngestSet
  <2> QED BY <1>8, <2>1, <2>2 DEF IngestSteps
<1>9. CASE \E t \in Turns : SendSteps(t)
  BY <1>1, <1>2, <1>4, <1>5, <1>9
  DEF SendSteps, SendRoutes, SendTurn, SendNotes, SendFails, thread, ingestion
<1>10. CASE \/ UNCHANGED vars \/ User \/ Age \/ Sweep
            \/ \E c \in Callers : CallSteps(c) \/ StartFails(c) \/ StopFails(c)
            \/ \E i \in Contexts : ContextSteps(i) \/ BeginExit(i)
  BY <1>1, <1>10
  DEF vars, User, RequestTurn, RequestMode, RequestStop, RequestDeletion, Age, Sweep, CallSteps,
      StartBegins, StartReplaces, StartOpens, StartRecords, StartFails, StopBegins, StopCloses,
      StopNotes, StopFails, ContextSteps, EndTurn, EndExit, BeginExit, thread, ingestion
<1> QED BY <1>6, <1>7, <1>8, <1>9, <1>10 DEF Next, Fault

LEMMA InitAccounts == Init => AccountsInv
<1> SUFFICES ASSUME Init PROVE AccountsInv
  OBVIOUS
<1>1. /\ \A c \in Callers : calls[c].stage = "none"
      /\ starting = 0 /\ ~HasSession /\ feed = <<>> /\ reading = None /\ record = None
  BY DEF Init, NoCall, HasSession
<1>2. StagesInv
  BY <1>1, CallersDistinct DEF StagesInv, CallAgrees
<1>3. TurnsInv
  BY <1>1 DEF TurnsInv, Tells, TurnAfter, ActiveTurn, ShownTurn, CurrentTurn
<1> QED BY <1>1, <1>2, <1>3 DEF AccountsInv, Accounts, BoundInv, ReadyInv, StoppedInv

LEMMA AccountsInductive ==
  ASSUME TypeInv, QuietInv, CallersInv, AccountsInv, [Next]_vars PROVE AccountsInv'
<1>1. StoppedInv'
  BY StoppedKept DEF AccountsInv
<1>2. ASSUME Calm', Next PROVE Accounts'
  <2>1. Calm /\ ~Fault /\ Accounts /\ StoppedInv
    BY <1>2, CalmBefore DEF TypeInv, AccountsInv
  <2>2. \/ User \/ WorkerSteps \/ IngestSteps \/ Age \/ Sweep
        \/ \E c \in Callers : CallSteps(c)
        \/ \E t \in Turns : SendSteps(t)
        \/ \E i \in Contexts : ContextSteps(i)
    BY <1>2, <2>1 DEF Next
  <2>3. ASSUME NEW c \in Callers, CallSteps(c) PROVE Accounts'
    BY <1>2, <2>1, <2>3, BeginsAgree, StartsAgree, StopsAgree DEF CallSteps
  <2> QED
    BY <1>2, <2>1, <2>2, <2>3, SendsAgree, WorkerAgrees, IngestAgrees, ContextsAgree, OthersAgree
<1>3. ASSUME Calm', UNCHANGED vars PROVE Accounts'
  <2>1. UNCHANGED <<adapter, binding, calls, starting, record, reading, feed>> /\ Calm
    BY <1>3 DEF vars, thread, ingestion, worker, bounds, Calm
  <2>2. Accounts
    BY <2>1 DEF AccountsInv
  <2>3. StagesInv' /\ BoundInv'
    BY <2>1, <2>2, CallersPrepare DEF Accounts, StagesInv
  <2> QED BY <2>1, <2>2, <2>3, SessionKept, StoryKept DEF Accounts
<1> QED BY <1>1, <1>2, <1>3 DEF AccountsInv

\* When all has settled, nothing failed and no calls overlapped, the adapter, the
\* persisted binding and thread.session agree on a session that lives: whatever
\* turns, restarts in another mode, stops and sweeps have followed one another.
THEOREM SessionAccountsAgree == Spec => []AccountsAgree
<1>1. Init => TypeInv /\ QuietInv /\ CallersInv /\ AccountsInv
  BY InitTyped, InitQuiet, InitCallers, InitAccounts
<1>2. TypeInv /\ QuietInv /\ CallersInv /\ AccountsInv /\ [Next]_vars
        => (TypeInv /\ QuietInv /\ CallersInv /\ AccountsInv)'
  BY TypeInductive, QuietInductive, CallersInductive, AccountsInductive
<1>3. ASSUME TypeInv, AccountsInv PROVE AccountsAgree
  <2> SUFFICES ASSUME Settled, ~raced, trouble = 0, HasSession
               PROVE  /\ binding.status = "running" /\ binding.mode = contexts[known].mode
                      /\ record # None /\ record.status = "ready"
                      /\ record.turn = contexts[known].turn
    BY DEF AccountsAgree
  <2>1. Accounts
    BY <1>3 DEF AccountsInv, Calm
  <2>2. NoneRecords
    BY DEF Settled, UnderWay, NoneRecords
  <2>3. feed = <<>> /\ reading = None
    BY DEF Settled, Pending
  <2>4. binding.status = "running" /\ binding.mode = contexts[known].mode
    BY <2>1, <2>2 DEF Accounts, BoundInv
  <2>5. record # None /\ record.status = "ready"
    BY <2>1, <2>3 DEF Accounts, ReadyInv, ShowsReady
  <2>6. record.turn = contexts[known].turn
    BY <2>1, <2>3, <2>5 DEF Accounts, TurnsInv, Tells, TurnAfter, ActiveTurn, ShownTurn,
      CurrentTurn
  <2> QED BY <2>4, <2>5, <2>6
<1> QED BY <1>1, <1>2, <1>3, PTL DEF Spec

=============================================================================
