---------------------------- MODULE ClientViews ------------------------------
(***************************************************************************)
(* What one client sees of the threads.  The server's side is ws.ts: a     *)
(* shell subscription for all threads and a detail subscription for each   *)
(* open thread, both a snapshot read from the tables followed by the live  *)
(* bus, which a subscription joins only after its snapshot was read.  The  *)
(* client's side is wsTransport.ts, which subscribes again when the        *)
(* connection broke, and store.ts, where both streams write.               *)
(*                                                                         *)
(* The engine is the log and how far it is published; the tables are what  *)
(* the log says (OrchestrationEngine shows both).  Rows and texts hold the *)
(* sequences of the events they show, in the place of their contents.      *)
(***************************************************************************)
EXTENDS Naturals, Sequences

CONSTANTS
  Threads, None,
  MaxEvents,    \* events ever stored
  MaxOpens,     \* times a thread is opened
  MaxTrouble    \* connections lost, restarts of the server and failing reads

ASSUME NoneIsNoRow == None \notin [title : Nat, session : Nat]
ASSUME BoundsAreNaturals == MaxEvents \in Nat /\ MaxOpens \in Nat /\ MaxTrouble \in Nat

VARIABLES
  log, published,
  shell,      \* the shell subscription, server side and wire
  detail,     \* the detail subscription of each thread
  shown,      \* threadShellById, threadSessionById: both streams write
  summary,    \* sidebarThreadSummaryById: the shell stream writes
  text,       \* messages: the detail stream writes
  gone,       \* observes: threads the client was told are no more
  byDetail,   \* observes: threads whose row the detail stream wrote last
  opens, faults, trouble

server == <<log, published>>
store == <<shown, summary, text, gone, byDetail>>
budget == <<opens, faults, trouble>>
vars == <<server, shell, detail, store, budget>>

EventTypes ==
  {"thread.created", "thread.meta-updated", "thread.session-set", "thread.message-sent",
   "thread.deleted"}
Event == [type : EventTypes, thread : Threads]

\* isThreadDetailEvent, of these types.
DetailTypes == {"thread.session-set", "thread.message-sent"}

-----------------------------------------------------------------------------
(* The tables.                                                             *)

EventsOf(t, types) == {i \in 1..Len(log) : log[i].thread = t /\ log[i].type \in types}
LastOf(t, types) ==
  IF EventsOf(t, types) = {} THEN 0
  ELSE CHOOSE i \in EventsOf(t, types) : \A j \in EventsOf(t, types) : j <= i

Created(t) == EventsOf(t, {"thread.created"}) # {}
Deleted(t) == EventsOf(t, {"thread.deleted"}) # {}

\* getActiveThreadRowById: 0 if there is no such row that is not deleted.
TitleOf(t) ==
  IF Deleted(t) THEN 0 ELSE LastOf(t, {"thread.created", "thread.meta-updated"})
SessionOf(t) == LastOf(t, {"thread.session-set"})

\* The messages among the first n events, in order.
MessagesUpTo(t, n) ==
  LET said[i \in 0..n] ==
        IF i = 0 THEN <<>>
        ELSE IF i \in EventsOf(t, {"thread.message-sent"}) THEN Append(said[i - 1], i)
        ELSE said[i - 1]
  IN said[n]
MessagesOf(t) == MessagesUpTo(t, Len(log))

RowOf(t) ==
  IF TitleOf(t) = 0 THEN None ELSE [title |-> TitleOf(t), session |-> SessionOf(t)]

-----------------------------------------------------------------------------
(* Subscriptions.  A subscription that is "asked" waits for its snapshot,  *)
(* also when the connection is down; one that has "read" it has not joined *)
(* the bus yet; one that has "ended" is never asked again.                 *)

ShellAsked ==
  [stage |-> "asked", inbox |-> <<>>, row |-> 0, wire |-> <<>>,
   at |-> 0, joined |-> 0, lost |-> {}]

NotSubscribed ==
  [stage |-> "none", title |-> 0, text |-> <<>>, wire |-> <<>>,
   titleAt |-> 0, textAt |-> 0, sessionAt |-> 0, joined |-> 0]

DetailAsked == [NotSubscribed EXCEPT !.stage = "asked"]

Init ==
  /\ log = <<>> /\ published = 0
  /\ shell = ShellAsked
  /\ detail = [t \in Threads |-> NotSubscribed]
  /\ shown = [t \in Threads |-> None] /\ summary = [t \in Threads |-> None]
  /\ text = [t \in Threads |-> <<>>]
  /\ gone = {} /\ byDetail = {}
  /\ opens = 0 /\ faults = 0 /\ trouble = 0

-----------------------------------------------------------------------------
(* The engine stores an event, then publishes it.                          *)

Trouble == trouble < MaxTrouble /\ trouble' = trouble + 1

Store(e) ==
  /\ Len(log) < MaxEvents /\ published = Len(log)
  /\ e.type = "thread.created" <=> ~ Created(e.thread)
  /\ log' = Append(log, e)
  /\ UNCHANGED <<published, shell, detail, store, budget>>

Publish ==
  /\ published < Len(log)
  /\ published' = published + 1
  /\ LET n == published + 1
         t == log[n].thread
     IN /\ shell' = IF shell.stage = "live"
                      THEN [shell EXCEPT !.inbox = Append(@, n)]
                      ELSE shell
        /\ detail' = IF detail[t].stage = "live" /\ log[n].type \in DetailTypes
                       THEN [detail EXCEPT ![t].wire =
                               Append(@, [kind |-> "event", sequence |-> n])]
                       ELSE detail
  /\ UNCHANGED <<log, store, budget>>

-----------------------------------------------------------------------------
(* The shell stream.                                                       *)

\* getShellSnapshot is one transaction.
ReadShellSnapshot ==
  /\ shell.stage = "asked"
  /\ shell' = [shell EXCEPT
                 !.stage = "read", !.at = Len(log),
                 !.wire = <<[kind |-> "snapshot", rows |-> [t \in Threads |-> RowOf(t)]]>>]
  /\ UNCHANGED <<server, detail, store, budget>>

\* Stream.concat comes to its second stream, which subscribes to the bus.
JoinShell ==
  /\ shell.stage = "read"
  /\ shell' = [shell EXCEPT !.stage = "live", !.joined = published]
  /\ UNCHANGED <<server, detail, store, budget>>

HasShellEvent == shell.stage = "live" /\ shell.inbox # <<>>

\* toShellStreamEvent: a deletion is passed on; for anything else the thread's row
\* is read, and what is no row any more is dropped.
MapDeletion ==
  /\ HasShellEvent /\ log[Head(shell.inbox)].type = "thread.deleted"
  /\ shell' = [shell EXCEPT
                 !.inbox = Tail(@),
                 !.wire = Append(@, [kind |-> "removed",
                                     thread |-> log[Head(shell.inbox)].thread])]
  /\ UNCHANGED <<server, detail, store, budget>>

\* getThreadShellById reads the thread's row first ...
ReadThreadRow ==
  /\ HasShellEvent /\ log[Head(shell.inbox)].type # "thread.deleted" /\ shell.row = 0
  /\ LET title == TitleOf(log[Head(shell.inbox)].thread)
     IN shell' = IF title = 0
                   THEN [shell EXCEPT !.inbox = Tail(@)]
                   ELSE [shell EXCEPT !.row = title]
  /\ UNCHANGED <<server, detail, store, budget>>

\* ... and its session in a query of its own.
ReadSessionRow ==
  /\ HasShellEvent /\ shell.row # 0
  /\ LET t == log[Head(shell.inbox)].thread
         row == [title |-> shell.row, session |-> SessionOf(t)]
     IN shell' = [shell EXCEPT
                    !.inbox = Tail(@), !.row = 0,
                    !.wire = Append(@, [kind |-> "upserted", thread |-> t, row |-> row])]
  /\ UNCHANGED <<server, detail, store, budget>>

\* A failing query: the event is dropped, and nobody hears of it.
ShellReadFails ==
  /\ Trouble /\ faults' = faults + 1
  /\ HasShellEvent /\ log[Head(shell.inbox)].type # "thread.deleted"
  /\ shell' = [shell EXCEPT !.inbox = Tail(@), !.row = 0,
                            !.lost = @ \cup {Head(shell.inbox)}]
  /\ UNCHANGED <<server, detail, store, opens>>

\* A snapshot that fails is an error of the subscription, which the client does not
\* take for one of the connection.
ShellSnapshotFails ==
  /\ Trouble /\ faults' = faults + 1
  /\ shell.stage = "asked"
  /\ shell' = [shell EXCEPT !.stage = "ended"]
  /\ UNCHANGED <<server, detail, store, opens>>

-----------------------------------------------------------------------------
(* The detail stream of a thread.  getThreadDetailById is no transaction:  *)
(* thread, messages and session are read one after the other.              *)

\* A thread that is not found ends the subscription like a failing query does.
ReadDetailThread(t) ==
  /\ detail[t].stage = "asked"
  /\ detail' = IF TitleOf(t) = 0
                 THEN [detail EXCEPT ![t] = [NotSubscribed EXCEPT !.stage = "ended"]]
                 ELSE [detail EXCEPT ![t] = [@ EXCEPT !.stage = "thread", !.title = TitleOf(t),
                                                      !.titleAt = Len(log)]]
  /\ UNCHANGED <<server, shell, store, budget>>

ReadDetailMessages(t) ==
  /\ detail[t].stage = "thread"
  /\ detail' = [detail EXCEPT ![t] = [@ EXCEPT !.stage = "messages", !.text = MessagesOf(t),
                                               !.textAt = Len(log)]]
  /\ UNCHANGED <<server, shell, store, budget>>

ReadDetailSession(t) ==
  /\ detail[t].stage = "messages"
  /\ LET row == [title |-> detail[t].title, session |-> SessionOf(t)]
         item == [kind |-> "snapshot", row |-> row, text |-> detail[t].text]
     IN detail' = [detail EXCEPT ![t] =
                     [@ EXCEPT !.stage = "read", !.sessionAt = Len(log),
                               !.title = 0, !.text = <<>>, !.wire = <<item>>]]
  /\ UNCHANGED <<server, shell, store, budget>>

JoinDetail(t) ==
  /\ detail[t].stage = "read"
  /\ detail' = [detail EXCEPT ![t] = [@ EXCEPT !.stage = "live", !.joined = published]]
  /\ UNCHANGED <<server, shell, store, budget>>

DetailReadFails(t) ==
  /\ Trouble /\ faults' = faults + 1
  /\ detail[t].stage \in {"asked", "thread", "messages"}
  /\ detail' = [detail EXCEPT ![t] = [NotSubscribed EXCEPT !.stage = "ended"]]
  /\ UNCHANGED <<server, shell, store, opens>>

-----------------------------------------------------------------------------
(* The client.                                                             *)

\* Mutant: the entry is deleted, its stream goes on.
DisposedWithoutUnsubscribing(ts) == detail

\* disposeThreadDetailSubscriptionByKey, of all threads of a set.
Disposed(ts) == [t \in Threads |-> IF t \in ts THEN NotSubscribed ELSE detail[t]]

\* Mutant: a snapshot is merged into what the store has.
TakeShellSnapshotMerging(rows) ==
  LET merged(old) == [t \in Threads |-> IF rows[t] = None THEN old[t] ELSE rows[t]]
  IN /\ shown' = merged(shown) /\ summary' = merged(summary)
     /\ byDetail' = {}
     /\ UNCHANGED <<text, gone, detail>>

\* syncServerShellSnapshot replaces what the shell stream owns, and the detail
\* subscriptions of threads that are not in it are disposed.
TakeShellSnapshot(rows) ==
  LET absent == {t \in Threads : rows[t] = None}
  IN /\ shown' = rows /\ summary' = rows
     /\ text' = [t \in Threads |-> IF t \in absent THEN <<>> ELSE text[t]]
     /\ gone' = gone \cup {t \in absent : shown[t] # None} /\ byDetail' = {}
     /\ detail' = Disposed(absent)

TakeUpserted(t, row) ==
  /\ shown' = [shown EXCEPT ![t] = row] /\ summary' = [summary EXCEPT ![t] = row]
  /\ byDetail' = byDetail \ {t}
  /\ UNCHANGED <<text, gone, detail>>

TakeRemoved(t) ==
  /\ shown' = [shown EXCEPT ![t] = None] /\ summary' = [summary EXCEPT ![t] = None]
  /\ text' = [text EXCEPT ![t] = <<>>]
  /\ gone' = gone \cup {t} /\ byDetail' = byDetail \ {t}
  /\ detail' = Disposed({t})

DeliverShell ==
  /\ shell.wire # <<>>
  /\ shell' = [shell EXCEPT !.wire = Tail(@)]
  /\ LET item == Head(shell.wire)
     IN \/ item.kind = "snapshot" /\ TakeShellSnapshot(item.rows)
        \/ item.kind = "upserted" /\ TakeUpserted(item.thread, item.row)
        \/ item.kind = "removed" /\ TakeRemoved(item.thread)
  /\ UNCHANGED <<server, budget>>

\* syncServerThreadDetail writes the thread's row as well as its messages.
TakeDetailSnapshot(t, row, said) ==
  /\ shown' = [shown EXCEPT ![t] = row]
  /\ text' = [text EXCEPT ![t] = said]
  /\ byDetail' = byDetail \cup {t}

\* updateThreadState: an event of a thread that is not shown is ignored; the text of
\* a message is appended to what there is.
TakeDetailEvent(t, n) ==
  /\ shown' = IF shown[t] # None /\ log[n].type = "thread.session-set"
                THEN [shown EXCEPT ![t].session = n] ELSE shown
  /\ text' = IF shown[t] # None /\ log[n].type = "thread.message-sent"
               THEN [text EXCEPT ![t] = Append(@, n)] ELSE text
  /\ byDetail' = IF shown'[t] # shown[t] THEN byDetail \cup {t} ELSE byDetail

DeliverDetail(t) ==
  /\ detail[t].wire # <<>>
  /\ detail' = [detail EXCEPT ![t].wire = Tail(@)]
  /\ LET item == Head(detail[t].wire)
     IN \/ item.kind = "snapshot" /\ TakeDetailSnapshot(t, item.row, item.text)
        \/ item.kind = "event" /\ TakeDetailEvent(t, item.sequence)
  /\ UNCHANGED <<server, shell, summary, gone, budget>>

\* Mutant: a thread is opened that the client was not told of.
OpenUnseen(t) ==
  /\ detail[t].stage = "none"
  /\ detail' = [detail EXCEPT ![t] = DetailAsked]
  /\ opens < MaxOpens /\ opens' = opens + 1
  /\ UNCHANGED <<server, shell, store, faults, trouble>>

\* retainThreadDetailSubscription: the routes and the sidebar retain threads they show.
Open(t) ==
  /\ detail[t].stage = "none" /\ shown[t] # None
  /\ detail' = [detail EXCEPT ![t] = DetailAsked]
  /\ opens < MaxOpens /\ opens' = opens + 1
  /\ UNCHANGED <<server, shell, store, faults, trouble>>

\* Released and evicted, by age or by the capacity of the cache.
Close(t) ==
  /\ detail[t].stage # "none"
  /\ detail' = Disposed({t})
  /\ UNCHANGED <<server, shell, store, budget>>

-----------------------------------------------------------------------------
(* The connection.                                                         *)

\* Mutant: the loop of a subscription that had received something returns.
ResubscribedUnlessServed ==
  /\ shell' = IF shell.stage \in {"read", "live"} THEN [ShellAsked EXCEPT !.stage = "none"]
              ELSE shell
  /\ detail' = [t \in Threads |->
                  IF detail[t].stage \in {"none", "ended"} THEN detail[t] ELSE DetailAsked]

\* The streams of the old connection are interrupted with all they had in flight;
\* subscribe's loop asks again, unless it had returned.
Resubscribed ==
  /\ shell' = IF shell.stage = "ended" THEN shell ELSE ShellAsked
  /\ detail' = [t \in Threads |->
                  IF detail[t].stage \in {"none", "ended"} THEN detail[t] ELSE DetailAsked]

Disconnect ==
  /\ Trouble
  /\ Resubscribed
  /\ UNCHANGED <<server, store, opens, faults>>

\* The server dies and starts again; what it had stored and not published never is.
Restart ==
  /\ Trouble
  /\ published' = Len(log)
  /\ Resubscribed
  /\ UNCHANGED <<log, store, opens, faults>>

ServeShell ==
  \/ ReadShellSnapshot \/ JoinShell \/ MapDeletion \/ ReadThreadRow \/ ReadSessionRow
ServeDetail(t) ==
  \/ ReadDetailThread(t) \/ ReadDetailMessages(t) \/ ReadDetailSession(t) \/ JoinDetail(t)

Next ==
  \/ \E e \in Event : Store(e)
  \/ Publish
  \/ ServeShell \/ ShellReadFails \/ ShellSnapshotFails
  \/ \E t \in Threads : ServeDetail(t) \/ DetailReadFails(t)
  \/ DeliverShell
  \/ \E t \in Threads : DeliverDetail(t) \/ Open(t) \/ Close(t)
  \/ Disconnect \/ Restart

Spec == Init /\ [][Next]_vars

\* The engine's worker, the server's stream fibers and the client's event loop go on.
Fairness ==
  /\ WF_vars(Publish) /\ WF_vars(ServeShell) /\ WF_vars(DeliverShell)
  /\ \A t \in Threads : WF_vars(ServeDetail(t)) /\ WF_vars(DeliverDetail(t))

FairSpec == Spec /\ Fairness

-----------------------------------------------------------------------------
(* Properties.                                                             *)

Row == [title : Nat, session : Nat]
Rows == [Threads -> Row \cup {None}]

ShellItem ==
  [kind : {"snapshot"}, rows : Rows] \cup [kind : {"removed"}, thread : Threads]
  \cup [kind : {"upserted"}, thread : Threads, row : Row]
DetailItem ==
  [kind : {"snapshot"}, row : Row, text : Seq(Nat)] \cup [kind : {"event"}, sequence : Nat]

TypeOK ==
  /\ log \in Seq(Event) /\ published \in 0..Len(log)
  /\ shell \in [stage : {"asked", "read", "live", "ended"}, inbox : Seq(1..Len(log)),
                row : Nat, wire : Seq(ShellItem), at : Nat, joined : Nat,
                lost : SUBSET Nat]
  /\ detail \in [Threads ->
       [stage : {"none", "asked", "thread", "messages", "read", "live", "ended"},
        title : Nat, text : Seq(Nat), wire : Seq(DetailItem),
        titleAt : Nat, textAt : Nat, sessionAt : Nat, joined : Nat]]
  /\ shown \in Rows /\ summary \in Rows /\ text \in [Threads -> Seq(Nat)]
  /\ gone \subseteq Threads /\ byDetail \subseteq Threads
  /\ opens \in Nat /\ faults \in Nat /\ trouble \in Nat

\* Everything stored has reached whoever it will reach.
Settled ==
  /\ published = Len(log)
  /\ shell.stage = "live" /\ shell.inbox = <<>> /\ shell.wire = <<>>
  /\ \A t \in Threads : detail[t].stage \in {"none", "live", "ended"} /\ detail[t].wire = <<>>

\* Events n that no snapshot showed and no stream delivered: those published between the
\* two, and those whose row could not be read.
LostByShell(n) == (shell.at < n /\ n <= shell.joined) \/ n \in shell.lost
MissedByDetail(t, n, read) == read < n /\ n <= detail[t].joined
TwiceInDetail(t, n) == detail[t].joined < n /\ n <= detail[t].textAt

Live(t) == detail[t].stage = "live"

\* The shell stream told the client how t stands now: neither its last event nor its
\* deletion was lost.
ToldOf(t) ==
  \A n \in EventsOf(t, EventTypes) :
    n = LastOf(t, EventTypes) \/ log[n].type = "thread.deleted" => ~ LostByShell(n)

\* The sidebar shows every thread as its row is.
SidebarAgrees(t) == ToldOf(t) => summary[t] = RowOf(t)

\* So does the thread's own view, but for what the detail stream wrote over it from a
\* snapshot read before the last change of the title, or of the session and then not
\* followed by it.
ViewAgrees(t) ==
  /\ ToldOf(t) /\ RowOf(t) # None
  /\ t \in byDetail =>
       /\ Live(t) /\ TitleOf(t) <= detail[t].titleAt
       /\ ~ MissedByDetail(t, SessionOf(t), detail[t].sessionAt)
  => shown[t] = RowOf(t)

\* An open conversation holds every message once, in order.
ConversationAgrees(t) ==
  shown[t] # None /\ Live(t)
  /\ (\A n \in EventsOf(t, {"thread.message-sent"}) :
        ~ MissedByDetail(t, n, detail[t].textAt) /\ ~ TwiceInDetail(t, n))
  => text[t] = MessagesOf(t)

ViewsFollowTables ==
  Settled => \A t \in Threads : SidebarAgrees(t) /\ ViewAgrees(t) /\ ConversationAgrees(t)

\* A thread the client was told is no more does not come back.
RemovedStaysRemoved == \A t \in gone : shown[t] = None /\ summary[t] = None

\* Giving up a detail subscription is final, so it must not hit a living thread.
GivesUpOnDeletedOnly ==
  faults = 0 => \A t \in Threads : detail[t].stage = "ended" => Deleted(t)

\* The client catches up again after every loss of the connection.
ClientSettles == [](shell.stage # "ended") => <>[]Settled

==============================================================================
