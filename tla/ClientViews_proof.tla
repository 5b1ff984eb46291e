-------------------------- MODULE ClientViews_proof --------------------------
(***************************************************************************)
(* For any number of threads and events and any trouble on the way: type   *)
(* correctness; a thread the client was told is no more does not come      *)
(* back; a detail subscription that is given up while no read failed is    *)
(* one of a deleted thread; and a client at rest shows what the tables     *)
(* hold, but for what the streams are known to lose or to send twice.      *)
(*                                                                         *)
(* The first argument is about the order of the shell stream.  Once a      *)
(* removal, or a snapshot without a thread that is shown, is on the wire,  *)
(* nothing behind it can bring the thread back, since rows are read after  *)
(* the deletion was stored (WireInv); and while the thread is gone no      *)
(* detail stream of it is left that could write (GoneInv).                 *)
(*                                                                         *)
(* The last one follows each stream on its own: what the detail stream has *)
(* brought and will still bring, thread by thread (OwnViewsInv), and what  *)
(* the shell stream will have said of a thread when its wire is empty, of  *)
(* the events it has come to (SidebarsInv).                                *)
(***************************************************************************)
EXTENDS ClientViews, SequenceTheorems, WellFoundedInduction, TLAPS

-----------------------------------------------------------------------------
(* The invariant.                                                          *)

\* Detail subscriptions have their fields; what values these have plays no part.
DetailRecord(S) ==
  [stage : S, title : S, text : S, wire : S, titleAt : S, textAt : S, sessionAt : S,
   joined : S]

Subscriptions(f) == \E S : f \in [Threads -> DetailRecord(S)]

ShellRecord ==
  [stage : {"asked", "read", "live", "ended"}, inbox : Seq(Nat), row : Nat,
   wire : Seq(ShellItem), at : Nat, joined : Nat, lost : SUBSET Nat]

\* What the argument needs of the types; what is in texts plays no part.
Shape ==
  /\ log \in Seq(Event) /\ published \in 0..Len(log)
  /\ shell \in ShellRecord
  /\ \A i \in 1..Len(shell.inbox) : shell.inbox[i] \in 1..published
  /\ Subscriptions(detail)
  /\ DOMAIN shown = Threads /\ DOMAIN summary = Threads
  /\ gone \subseteq Threads
  /\ faults \in Nat

\* A row is read for an event that waits and is no deletion.
RowInv ==
  shell.row # 0 =>
    /\ shell.stage = "live" /\ shell.inbox # <<>>
    /\ log[Head(shell.inbox)].type # "thread.deleted"

\* A detail subscription that is not there sends nothing.
QuietInv == \A t \in Threads : detail[t].stage = "none" => detail[t].wire = <<>>

\* The shell item would show t.
Brings(item, t) ==
  \/ item.kind = "upserted" /\ item.thread = t
  \/ item.kind = "snapshot" /\ item.rows[t] # None

\* What is shown, followed or on its way was created.
KnownInv ==
  /\ \A i \in 1..Len(log) : Created(log[i].thread)
  /\ \A t \in Threads : shown[t] # None \/ detail[t].stage # "none" => Created(t)
  /\ \A i \in 1..Len(shell.wire), t \in Threads : Brings(shell.wire[i], t) => Created(t)
  /\ \A t \in Threads : faults = 0 /\ detail[t].stage = "ended" => Deleted(t)

\* The row of t is being read.
Reading(t) == shell.row # 0 /\ log[Head(shell.inbox)].thread = t

\* t is deleted, and nothing behind item i of the wire brings it back.
Over(t, i) ==
  /\ Deleted(t) /\ ~ Reading(t)
  /\ \A j \in 1..Len(shell.wire) : j > i => ~ Brings(shell.wire[j], t)

Hidden(t) == shown[t] = None /\ detail[t].stage = "none"

WireInv ==
  \A i \in 1..Len(shell.wire) :
    /\ shell.wire[i].kind = "snapshot" =>
         /\ i = 1
         /\ \A t \in Threads : shell.wire[i].rows[t] = None => Hidden(t) \/ Over(t, 1)
    /\ \A t \in Threads :
         shell.wire[i].kind = "removed" /\ t = shell.wire[i].thread => Over(t, i)

GoneInv == \A t \in gone : Hidden(t) /\ summary[t] = None /\ Over(t, 0)

IInv == Shape /\ RowInv /\ QuietInv /\ KnownInv /\ WireInv /\ GoneInv

-----------------------------------------------------------------------------
(* The tables.                                                             *)

\* A set of numbers that is not empty has a smallest one.
LEMMA LeastOf ==
  ASSUME NEW S, S \subseteq Nat, S # {}
  PROVE  \E n \in S : \A m \in S : ~ (m < n)
<1>1. S \subseteq Nat /\ S # {}
  OBVIOUS
<1>2. PICK n \in S : \A m \in S : ~ (<<m, n>> \in OpToRel(<, Nat))
  BY Zenon, <1>1, NatLessThanWellFounded, WFMin
<1> QED BY <1>1, <1>2 DEF OpToRel

\* A non-empty set of event numbers has a last one.
LEMMA LastIsThere ==
  ASSUME log \in Seq(Event), NEW t, NEW types
  PROVE  /\ LastOf(t, types) \in Nat
         /\ EventsOf(t, types) # {} => LastOf(t, types) \in EventsOf(t, types)
         /\ \A j \in EventsOf(t, types) : j <= LastOf(t, types)
<1> DEFINE E == EventsOf(t, types)
           S == {Len(log) - i : i \in E}
<1>1. E \subseteq 1..Len(log) /\ Len(log) \in Nat
  BY DEF EventsOf
<1>2. CASE E = {}
  BY <1>2 DEF LastOf
<1>3. CASE E # {}
  <2>1. S \subseteq Nat /\ S # {}
    BY <1>1, <1>3
  <2>2. PICK n \in S : \A m \in S : ~ (m < n)
    BY <2>1, LeastOf
  <2>4. PICK i \in E : n = Len(log) - i
    OBVIOUS
  <2>5. \A j \in E : j <= i
    <3> SUFFICES ASSUME NEW j \in E PROVE j <= i
      OBVIOUS
    <3>1. Len(log) - j \in S
      OBVIOUS
    <3>2. ~ (Len(log) - j < n)
      BY <2>2, <3>1
    <3>3. i \in Nat /\ j \in Nat /\ Len(log) \in Nat
      BY <1>1, <2>4
    <3> HIDE DEF E, S
    <3> QED
      BY <2>4, <3>2, <3>3
  <2>6. LastOf(t, types) \in E /\ \A j \in E : j <= LastOf(t, types)
    BY <1>3, <2>4, <2>5 DEF LastOf
  <2> QED
    BY <1>1, <2>6
<1> QED
  BY <1>2, <1>3

\* A row that is not there is one of a thread that is deleted or was not created yet.
LEMMA NoTitle ==
  ASSUME log \in Seq(Event), NEW t
  PROVE  /\ TitleOf(t) \in Nat /\ SessionOf(t) \in Nat
         /\ Deleted(t) => TitleOf(t) = 0
         /\ TitleOf(t) = 0 /\ Created(t) => Deleted(t)
<1> DEFINE titles == {"thread.created", "thread.meta-updated"}
<1>1. LastOf(t, titles) \in Nat /\ SessionOf(t) \in Nat
  BY LastIsThere DEF SessionOf
<1>2. EventsOf(t, titles) # {} => LastOf(t, titles) \in 1..Len(log)
  BY LastIsThere DEF EventsOf
<1>3. Created(t) => EventsOf(t, titles) # {}
  BY DEF Created, EventsOf
<1> QED
  BY <1>1, <1>2, <1>3 DEF TitleOf

LEMMA RowsTyped ==
  ASSUME log \in Seq(Event)
  PROVE  /\ [t \in Threads |-> RowOf(t)] \in Rows
         /\ \A t \in Threads : RowOf(t) = None <=> TitleOf(t) = 0
<1>1. ASSUME NEW t \in Threads
      PROVE  RowOf(t) \in Row \cup {None} /\ (RowOf(t) = None <=> TitleOf(t) = 0)
  BY NoTitle, NoneIsNoRow DEF RowOf, Row
<1> QED
  BY <1>1 DEF Rows

\* What was created or deleted stays so, and stored events stay what they are.
LEMMA LogGrows ==
  ASSUME log \in Seq(Event), NEW e \in Event, log' = Append(log, e)
  PROVE  /\ log' \in Seq(Event) /\ Len(log') = Len(log) + 1
         /\ \A i \in 1..Len(log) : log'[i] = log[i]
         /\ log'[Len(log) + 1] = e
         /\ \A t \in Threads : (Created(t) => Created(t)') /\ (Deleted(t) => Deleted(t)')
<1>1. /\ log' \in Seq(Event) /\ Len(log') = Len(log) + 1
      /\ \A i \in 1..Len(log) : log'[i] = log[i]
      /\ log'[Len(log) + 1] = e
  OBVIOUS
<1>2. \A t \in Threads : (Created(t) => Created(t)') /\ (Deleted(t) => Deleted(t)')
  BY <1>1 DEF Created, Deleted, EventsOf
<1> QED
  BY <1>1, <1>2

\* What the shape says of the shell subscription.
LEMMA ShellTyped ==
  ASSUME Shape
  PROVE  /\ shell.inbox \in Seq(Nat) /\ shell.row \in Nat
         /\ shell.wire \in Seq(ShellItem)
         /\ shell = [stage |-> shell.stage, inbox |-> shell.inbox, row |-> shell.row,
                     wire |-> shell.wire, at |-> shell.at, joined |-> shell.joined,
                     lost |-> shell.lost]
         /\ shell.inbox # <<>> => /\ Head(shell.inbox) \in 1..Len(log)
                                 /\ log[Head(shell.inbox)] \in Event
<1>1. /\ shell.inbox \in Seq(Nat) /\ shell.row \in Nat /\ shell.wire \in Seq(ShellItem)
      /\ shell = [stage |-> shell.stage, inbox |-> shell.inbox, row |-> shell.row,
                  wire |-> shell.wire, at |-> shell.at, joined |-> shell.joined,
                  lost |-> shell.lost]
  BY DEF Shape, ShellRecord
<1>2. log \in Seq(Event) /\ published \in 0..Len(log)
  BY DEF Shape
<1>3. ASSUME shell.inbox # <<>>
      PROVE  /\ Head(shell.inbox) \in 1..Len(log)
             /\ log[Head(shell.inbox)] \in Event
  <2>1. Head(shell.inbox) = shell.inbox[1] /\ 1 \in 1..Len(shell.inbox)
    BY <1>1, <1>3
  <2>2. shell.inbox[1] \in 1..published
    BY <2>1 DEF Shape
  <2> QED
    BY <1>2, <2>1, <2>2
<1> QED
  BY <1>1, <1>3

\* One subscription changes.
LEMMA SubscriptionStep ==
  ASSUME Subscriptions(detail), NEW t \in Threads, NEW S, NEW d \in DetailRecord(S),
         detail' = [detail EXCEPT ![t] = d]
  PROVE  /\ Subscriptions(detail') /\ detail'[t] = d
         /\ \A u \in Threads : u # t => detail'[u] = detail[u]
<1>1. PICK S0 : detail \in [Threads -> DetailRecord(S0)]
  BY DEF Subscriptions
<1>2. DetailRecord(S) \subseteq DetailRecord(S \cup S0)
      /\ DetailRecord(S0) \subseteq DetailRecord(S \cup S0)
  BY DEF DetailRecord
<1>3. detail' \in [Threads -> DetailRecord(S \cup S0)]
  BY <1>1, <1>2
<1> QED
  BY <1>1, <1>3 DEF Subscriptions

LEMMA ItemTyped ==
  ASSUME NEW item \in ShellItem
  PROVE  /\ item.kind \in {"snapshot", "removed", "upserted"}
         /\ item.kind = "snapshot" => item.rows \in Rows
         /\ item.kind # "snapshot" => item.thread \in Threads
         /\ item.kind = "upserted" => item.row \in Row
  BY DEF ShellItem

LEMMA SameLog ==
  ASSUME UNCHANGED log
  PROVE  \A t : (Created(t)' <=> Created(t)) /\ (Deleted(t)' <=> Deleted(t))
  BY DEF Created, Deleted, EventsOf

\* A step that leaves the wire alone, shows nothing new of what is hidden and brings
\* nothing over back keeps what is known of the wire.
LEMMA WireStays ==
  ASSUME IInv, shell'.wire = shell.wire,
         \A t \in Threads : Hidden(t) => Hidden(t)',
         \A t \in Threads : \A i : Over(t, i) => Over(t, i)'
  PROVE  WireInv'
<1> SUFFICES ASSUME NEW i \in 1..Len(shell.wire)
             PROVE  /\ shell.wire[i].kind = "snapshot" =>
                         /\ i = 1
                         /\ \A t \in Threads :
                              shell.wire[i].rows[t] = None => Hidden(t)' \/ Over(t, 1)'
                    /\ \A t \in Threads :
                         shell.wire[i].kind = "removed" /\ t = shell.wire[i].thread
                           => Over(t, i)'
  <2>1. \A i \in 1..Len(shell.wire) :
          shell.wire[i].kind = "removed" => shell.wire[i].thread \in Threads
    BY ShellTyped, ItemTyped DEF IInv
  <2> QED
    BY <2>1 DEF WireInv, Over, Reading, Brings, Deleted, EventsOf
<1> QED
  BY DEF IInv, WireInv

LEMMA GoneStays ==
  ASSUME IInv, gone' \subseteq gone, summary' = summary,
         \A t \in Threads : Hidden(t) => Hidden(t)',
         \A t \in Threads : \A i : Over(t, i) => Over(t, i)'
  PROVE  GoneInv'
<1>1. \A t \in gone : t \in Threads /\ Hidden(t) /\ summary[t] = None /\ Over(t, 0)
  BY DEF IInv, GoneInv, Shape
<1> QED
  BY <1>1 DEF GoneInv

-----------------------------------------------------------------------------
(* What is said in a thread, message after message.  These are facts about *)
(* every number of events, shown by the first number at which they fail.   *)

\* f lists the numbers of E up to each number up to n.
Lists(f, E, n) ==
  f = [i \in 0..n |-> IF i = 0 THEN <<>>
                      ELSE IF i \in E THEN Append(f[i - 1], i) ELSE f[i - 1]]

LEMMA ListStep ==
  ASSUME NEW f, NEW E, NEW n \in Nat, Lists(f, E, n)
  PROVE  \E g : Lists(g, E, n + 1)
<1> DEFINE y == IF n + 1 \in E THEN Append(f[n], n + 1) ELSE f[n]
           g == [i \in 0..(n + 1) |-> IF i = n + 1 THEN y ELSE f[i]]
<1>1. \A i \in 0..n : i \in 0..(n + 1) /\ i # n + 1
  OBVIOUS
<1>2. \A i \in 0..(n + 1) : (i # 0 => i - 1 \in 0..n) /\ (i = n + 1 \/ i \in 0..n)
  OBVIOUS
<1>3. \A i \in 0..n : f[i] = IF i = 0 THEN <<>>
                             ELSE IF i \in E THEN Append(f[i - 1], i) ELSE f[i - 1]
  BY DEF Lists
<1>4. n + 1 \in 0..(n + 1) /\ n + 1 # 0 /\ (n + 1) - 1 = n /\ n \in 0..n
  OBVIOUS
<1> HIDE DEF y
<1>5. g[n + 1] = y /\ \A i \in 0..n : g[i] = f[i]
  BY <1>1, <1>4
<1>6. PICK h : h = g
  OBVIOUS
<1>7. h = [i \in 0..(n + 1) |-> h[i]]
  BY <1>6
<1> HIDE DEF g
<1>8. ASSUME NEW i \in 0..(n + 1)
      PROVE  h[i] = IF i = 0 THEN <<>>
                    ELSE IF i \in E THEN Append(h[i - 1], i) ELSE h[i - 1]
  <2>1. CASE i = n + 1
    <3>1. h[i] = y /\ h[i - 1] = f[n]
      BY <1>4, <1>5, <1>6, <2>1
    <3>2. y = IF i \in E THEN Append(h[i - 1], i) ELSE h[i - 1]
      BY <2>1, <3>1 DEF y
    <3> QED BY <1>4, <2>1, <3>1, <3>2
  <2>2. CASE i \in 0..n
    <3>1. h[i] = f[i] /\ (i # 0 => h[i - 1] = f[i - 1])
      BY <1>2, <1>5, <1>6, <2>2
    <3> QED BY <1>3, <2>2, <3>1
  <2> QED BY <1>2, <2>1, <2>2
<1>9. h = [i \in 0..(n + 1) |-> IF i = 0 THEN <<>>
                                ELSE IF i \in E THEN Append(h[i - 1], i) ELSE h[i - 1]]
  BY <1>7, <1>8
<1> QED BY <1>9 DEF Lists

LEMMA ListExists ==
  ASSUME NEW E, NEW n \in Nat
  PROVE  \E f : Lists(f, E, n)
<1> DEFINE S == {i \in Nat : ~ \E f : Lists(f, E, i)}
<1>1. CASE S = {}
  BY <1>1
<1>2. CASE S # {}
  <2>1. PICK i \in S : \A j \in S : ~ (j < i)
    BY <1>2, LeastOf
  <2>2. CASE i = 0
    <3>1. PICK f : f = [j \in 0..0 |-> <<>>]
      OBVIOUS
    <3>2. \A j \in 0..0 : j = 0
      OBVIOUS
    <3>3. f = [j \in 0..0 |-> IF j = 0 THEN <<>>
                              ELSE IF j \in E THEN Append(f[j - 1], j) ELSE f[j - 1]]
      BY <3>1, <3>2
    <3>4. Lists(f, E, 0)
      BY <3>3 DEF Lists
    <3> QED BY <2>1, <2>2, <3>4
  <2>3. CASE i # 0
    <3>1. i \in Nat /\ i - 1 \in Nat /\ i - 1 < i /\ (i - 1) + 1 = i
      BY <2>3
    <3>2. i - 1 \notin S
      BY <2>1, <3>1
    <3>3. PICK f : Lists(f, E, i - 1)
      BY <3>1, <3>2
    <3>4. \E g : Lists(g, E, i)
      BY <3>1, <3>3, ListStep
    <3> QED BY <2>1, <3>4
  <2> QED BY <2>2, <2>3
<1> QED BY <1>1, <1>2

\* Lists agree for as long as the sets they list do.
LEMMA ListsAgree ==
  ASSUME NEW f, NEW E, NEW a \in Nat, Lists(f, E, a),
         NEW g, NEW F, NEW b \in Nat, Lists(g, F, b),
         NEW n \in Nat, n <= a, n <= b, \A i \in 1..n : i \in E <=> i \in F
  PROVE  f[n] = g[n]
<1> DEFINE S == {i \in 0..n : f[i] # g[i]}
<1>1. \A i \in 0..n :
        /\ f[i] = IF i = 0 THEN <<>>
                  ELSE IF i \in E THEN Append(f[i - 1], i) ELSE f[i - 1]
        /\ g[i] = IF i = 0 THEN <<>>
                  ELSE IF i \in F THEN Append(g[i - 1], i) ELSE g[i - 1]
  <2>1. \A i \in 0..n : i \in 0..a /\ i \in 0..b
    OBVIOUS
  <2> QED BY <2>1 DEF Lists
<1>2. CASE S = {}
  BY <1>2
<1>3. CASE S # {}
  <2>1. S \subseteq Nat
    OBVIOUS
  <2>2. PICK i \in S : \A j \in S : ~ (j < i)
    BY <1>3, <2>1, LeastOf
  <2>3. i \in 0..n /\ f[i] # g[i]
    OBVIOUS
  <2>4. i # 0
    BY <1>1, <2>3
  <2>5. i - 1 \in 0..n /\ i - 1 < i /\ i \in 1..n
    BY <2>3, <2>4
  <2>6. f[i - 1] = g[i - 1]
    BY <2>2, <2>5
  <2>7. i \in E <=> i \in F
    BY <2>5
  <2> QED BY <1>1, <2>3, <2>4, <2>6, <2>7
<1> QED BY <1>2, <1>3

Said(t) == EventsOf(t, {"thread.message-sent"})

\* The numbers of E up to n, in order.
Texts(E, n) ==
  LET said[i \in 0..n] ==
        IF i = 0 THEN <<>> ELSE IF i \in E THEN Append(said[i - 1], i) ELSE said[i - 1]
  IN said[n]

LEMMA MessagesAreTexts ==
  \A t : \A n : MessagesUpTo(t, n) = Texts(Said(t), n)
BY DEF MessagesUpTo, Texts, Said

LEMMA TextsAreListed ==
  ASSUME NEW E, NEW n \in Nat, NEW g, Lists(g, E, n)
  PROVE  Texts(E, n) = g[n]
<1> DEFINE f == CHOOSE f : f = [i \in 0..n |->
                  IF i = 0 THEN <<>>
                  ELSE IF i \in E THEN Append(f[i - 1], i) ELSE f[i - 1]]
<1>1. Texts(E, n) = f[n]
  BY DEF Texts
<1>2. Lists(f, E, n)
  <2>1. g = [i \in 0..n |->
               IF i = 0 THEN <<>>
               ELSE IF i \in E THEN Append(g[i - 1], i) ELSE g[i - 1]]
    BY DEF Lists
  <2>2. f = [i \in 0..n |->
               IF i = 0 THEN <<>>
               ELSE IF i \in E THEN Append(f[i - 1], i) ELSE f[i - 1]]
    BY Zenon, <2>1
  <2> HIDE DEF f
  <2> QED BY <2>2 DEF Lists
<1> HIDE DEF f
<1>3. n <= n
  OBVIOUS
<1>4. f[n] = g[n]
  BY <1>2, <1>3, ListsAgree
<1> QED BY <1>1, <1>4

\* Texts agree when they are of the same numbers.
LEMMA TextsAgree ==
  ASSUME NEW E, NEW F, NEW n \in Nat, \A i \in 1..n : i \in E <=> i \in F
  PROVE  Texts(E, n) = Texts(F, n)
<1>1. PICK f : Lists(f, E, n)
  BY ListExists
<1>2. PICK g : Lists(g, F, n)
  BY ListExists
<1>3. n <= n
  OBVIOUS
<1>4. f[n] = g[n]
  BY <1>1, <1>2, <1>3, ListsAgree
<1> QED BY <1>1, <1>2, <1>4, TextsAreListed

\* There is no text at first; a number of E adds itself, and no other does.
LEMMA TextsStep ==
  ASSUME NEW E
  PROVE  /\ Texts(E, 0) = <<>>
         /\ \A n \in Nat : Texts(E, n + 1) =
              IF n + 1 \in E THEN Append(Texts(E, n), n + 1) ELSE Texts(E, n)
<1>1. Texts(E, 0) = <<>>
  <2>1. PICK f : Lists(f, E, 0)
    BY ListExists
  <2>2. f[0] = <<>>
    BY <2>1 DEF Lists
  <2> QED BY <2>1, <2>2, TextsAreListed
<1>2. ASSUME NEW n \in Nat
      PROVE  Texts(E, n + 1) =
               IF n + 1 \in E THEN Append(Texts(E, n), n + 1) ELSE Texts(E, n)
  <2>1. PICK f : Lists(f, E, n + 1)
    BY ListExists
  <2>2. PICK g : Lists(g, E, n)
    BY ListExists
  <2>3. f[n + 1] = IF n + 1 \in E THEN Append(f[n], n + 1) ELSE f[n]
    <3>1. n + 1 \in 0..(n + 1) /\ n + 1 # 0 /\ (n + 1) - 1 = n
      OBVIOUS
    <3> QED BY <2>1, <3>1 DEF Lists
  <2>4. f[n] = g[n]
    <3>1. n + 1 \in Nat /\ n <= n + 1 /\ n <= n
      OBVIOUS
    <3> QED BY <2>1, <2>2, <3>1, ListsAgree
  <2>5. Texts(E, n + 1) = f[n + 1] /\ Texts(E, n) = g[n]
    BY <2>1, <2>2, TextsAreListed
  <2> QED BY <2>3, <2>4, <2>5
<1> QED BY <1>1, <1>2

\* Numbers that are not of E add nothing.
LEMMA TextsGap ==
  ASSUME NEW E, NEW a \in Nat, NEW b \in Nat, a <= b, \A i \in E : ~ (a < i /\ i <= b)
  PROVE  Texts(E, b) = Texts(E, a)
<1> DEFINE S == {i \in a..b : Texts(E, i) # Texts(E, a)}
<1>1. CASE S = {}
  BY <1>1
<1>2. CASE S # {}
  <2>0. S \subseteq Nat
    OBVIOUS
  <2>1. PICK i \in S : \A j \in S : ~ (j < i)
    BY <1>2, <2>0, LeastOf
  <2>2. i \in a..b /\ Texts(E, i) # Texts(E, a) /\ i # a
    BY <2>1
  <2>3. i - 1 \in a..b /\ i - 1 \in Nat /\ i - 1 < i /\ (i - 1) + 1 = i /\ a < i /\ i <= b
    BY <2>2
  <2>4. Texts(E, i - 1) = Texts(E, a)
    BY <2>1, <2>3
  <2>5. i \notin E
    BY <2>3
  <2>6. Texts(E, (i - 1) + 1) = Texts(E, i - 1)
    BY <2>3, <2>5, TextsStep
  <2> QED BY <2>2, <2>3, <2>4, <2>6
<1> QED BY <1>1, <1>2

\* The next number of E is added.
LEMMA TextsNext ==
  ASSUME NEW E, NEW a \in Nat, NEW n \in E, n \in Nat, a < n,
         \A i \in E : ~ (a < i /\ i < n)
  PROVE  Texts(E, n) = Append(Texts(E, a), n)
<1>1. n - 1 \in Nat /\ a <= n - 1 /\ (n - 1) + 1 = n
  OBVIOUS
<1>2. \A i \in E : ~ (a < i /\ i <= n - 1)
  BY <1>1
<1>3. Texts(E, n - 1) = Texts(E, a)
  BY <1>1, <1>2, TextsGap
<1>4. Texts(E, (n - 1) + 1) = Append(Texts(E, n - 1), (n - 1) + 1)
  BY <1>1, TextsStep
<1> QED BY <1>1, <1>3, <1>4

LEMMA MessagesTyped ==
  ASSUME NEW t, NEW n \in Nat
  PROVE  MessagesUpTo(t, n) \in Seq(Nat)
<1>0. \A i \in Nat : MessagesUpTo(t, i) = Texts(Said(t), i)
  BY MessagesAreTexts
<1> DEFINE S == {i \in Nat : MessagesUpTo(t, i) \notin Seq(Nat)}
<1>1. CASE S = {}
  BY <1>1
<1>2. CASE S # {}
  <2>1. PICK i \in S : \A j \in S : ~ (j < i)
    BY <1>2, LeastOf
  <2>2. i # 0
    <3>1. MessagesUpTo(t, 0) = <<>>
      BY <1>0, TextsStep
    <3>2. <<>> \in Seq(Nat)
      OBVIOUS
    <3> QED BY <2>1, <3>1, <3>2
  <2>3. PICK j \in Nat : i = j + 1
    <3>1. i \in Nat /\ i - 1 \in Nat /\ i = (i - 1) + 1
      BY <2>2
    <3> QED BY <3>1
  <2>4. MessagesUpTo(t, j) \in Seq(Nat)
    BY <2>1, <2>3
  <2>5. Append(MessagesUpTo(t, j), i) \in Seq(Nat)
    BY <2>3, <2>4
  <2>6. MessagesUpTo(t, i) \in Seq(Nat)
    <3>1. Texts(Said(t), j + 1) \in {Append(Texts(Said(t), j), j + 1), Texts(Said(t), j)}
      BY TextsStep
    <3>2. MessagesUpTo(t, j) = Texts(Said(t), j) /\ MessagesUpTo(t, i) = Texts(Said(t), j + 1)
      BY <1>0, <2>3
    <3> QED BY <2>3, <2>4, <2>5, <3>1, <3>2
  <2> QED BY <2>1, <2>6
<1> QED BY <1>1, <1>2

-----------------------------------------------------------------------------
(* The engine.                                                             *)

LEMMA ViewsInit == Init => IInv
<1> SUFFICES ASSUME Init PROVE IInv
  OBVIOUS
<1> USE DEF Init
<1>1. Shape
  <2>1. NotSubscribed \in DetailRecord({"none", 0, <<>>})
    BY DEF NotSubscribed, DetailRecord
  <2>2. Subscriptions(detail)
    BY <2>1 DEF Subscriptions
  <2> QED
    BY <2>2 DEF Shape, ShellRecord, ShellAsked
<1>2. RowInv /\ QuietInv /\ WireInv /\ GoneInv
  BY DEF RowInv, QuietInv, WireInv, GoneInv, ShellAsked, NotSubscribed
<1>3. KnownInv
  BY DEF KnownInv, ShellAsked, NotSubscribed
<1> QED
  BY <1>1, <1>2, <1>3 DEF IInv

\* A stored event changes no row that is being read and revives no thread.
LEMMA StoreKeeps ==
  ASSUME IInv, NEW e \in Event, Store(e)
  PROVE  IInv'
<1> USE DEF Store, store, budget
<1>1. log \in Seq(Event) /\ log' = Append(log, e)
  BY DEF IInv, Shape
<1>2. /\ log' \in Seq(Event) /\ Len(log') = Len(log) + 1
      /\ \A i \in 1..Len(log) : log'[i] = log[i]
      /\ log'[Len(log) + 1] = e
      /\ \A t \in Threads : (Created(t) => Created(t)') /\ (Deleted(t) => Deleted(t)')
  BY <1>1, LogGrows
<1>3. Shape'
  BY <1>2 DEF IInv, Shape
<1>4. shell.row # 0 => log'[Head(shell.inbox)] = log[Head(shell.inbox)]
  BY <1>2, ShellTyped DEF IInv, RowInv
<1>5. RowInv' /\ QuietInv'
  BY <1>4 DEF IInv, RowInv, QuietInv
<1>6. Created(e.thread)'
  <2>1. CASE Created(e.thread)
    BY <1>2, <2>1 DEF Event
  <2>2. CASE ~ Created(e.thread)
    BY <1>1, <1>2, <2>2 DEF Created, EventsOf
  <2> QED
    BY <2>1, <2>2
<1>7. (\A i \in 1..Len(log) : Created(log[i].thread))'
  <2> SUFFICES ASSUME NEW i \in 1..Len(log') PROVE Created(log[i].thread)'
    OBVIOUS
  <2>1. CASE i \in 1..Len(log)
    <3>1. log[i].thread \in Threads
      <4>1. log[i] \in Event
        BY <1>1, <2>1
      <4> QED
        BY <4>1 DEF Event
    <3>2. Created(log[i].thread)
      BY <2>1 DEF IInv, KnownInv
    <3>3. log'[i] = log[i]
      BY <1>2, <2>1
    <3>4. PICK t \in Threads : t = log[i].thread
      BY <3>1
    <3>5. Created(t)'
      BY <1>2, <3>2, <3>4
    <3> QED
      BY <3>3, <3>4, <3>5 DEF Created, EventsOf
  <2>2. CASE i = Len(log) + 1
    BY <1>2, <1>6, <2>2
  <2> QED
    BY <1>1, <1>2, <2>1, <2>2
<1>8. KnownInv'
  BY <1>2, <1>7 DEF IInv, KnownInv, Brings
<1>9. \A t \in Threads : \A i : Over(t, i) => Over(t, i)'
  BY <1>2, <1>4 DEF Over, Reading, Brings
<1>10. WireInv' /\ GoneInv'
  <2>1. \A t \in Threads : Hidden(t) => Hidden(t)'
    BY DEF Hidden
  <2> QED
    BY <1>9, <2>1, WireStays, GoneStays
<1> QED
  BY <1>3, <1>5, <1>8, <1>10 DEF IInv

\* Publishing hands event numbers to the subscriptions that follow the bus.
LEMMA PublishKeeps ==
  ASSUME IInv, Publish
  PROVE  IInv'
<1> DEFINE n == published + 1
           t == log[n].thread
<1>1. /\ log' = log /\ n \in 1..Len(log) /\ published' = n
      /\ UNCHANGED <<shown, summary, gone, faults>>
  BY DEF IInv, Shape, Publish, store, budget
<1>2. /\ shell.inbox \in Seq(Nat) /\ shell.row \in Nat /\ log[n] \in Event /\ t \in Threads
  <2>1. log[n] \in Event
    BY <1>1 DEF IInv, Shape
  <2> QED
    BY <2>1, ShellTyped DEF IInv, Event
<1>3. /\ \/ shell' = [shell EXCEPT !.inbox = Append(@, n)] /\ shell.stage = "live"
         \/ shell' = shell
      /\ \/ detail' = [detail EXCEPT ![t].wire =
                         Append(@, [kind |-> "event", sequence |-> n])]
            /\ detail[t].stage = "live"
         \/ detail' = detail
  BY DEF Publish
<1>4. /\ shell'.wire = shell.wire /\ shell'.row = shell.row /\ shell'.stage = shell.stage
      /\ shell.inbox # <<>> => shell'.inbox # <<>> /\ Head(shell'.inbox) = Head(shell.inbox)
  BY <1>2, <1>3, ShellTyped DEF IInv
<1>5. /\ Subscriptions(detail')
      /\ \A u \in Threads :
           /\ detail'[u].stage = detail[u].stage
           /\ detail[u].stage = "none" => detail'[u].wire = detail[u].wire
  <2>1. PICK S : detail \in [Threads -> DetailRecord(S)]
    BY DEF IInv, Shape, Subscriptions
  <2>2. CASE detail' = detail
    BY <2>1, <2>2 DEF Subscriptions
  <2>3. CASE detail' # detail
    <3> DEFINE w == Append(detail[t].wire, [kind |-> "event", sequence |-> n])
               d == [detail[t] EXCEPT !.wire = w]
    <3>1. detail' = [detail EXCEPT ![t] = d] /\ detail[t].stage = "live"
      BY <1>3, <2>3
    <3>2. d \in DetailRecord(S \cup {w}) /\ d.stage = detail[t].stage
      <4> HIDE DEF w
      <4> QED
        BY <1>2, <2>1 DEF DetailRecord
    <3> HIDE DEF d, w
    <3>3. Subscriptions(detail)
      BY <2>1 DEF Subscriptions
    <3>4. t \in Threads
      BY <1>2
    <3> HIDE DEF t
    <3>5. /\ Subscriptions(detail') /\ detail'[t] = d
          /\ \A u \in Threads : u # t => detail'[u] = detail[u]
      BY <3>1, <3>2, <3>3, <3>4, SubscriptionStep
    <3> QED
      BY <3>1, <3>2, <3>5
  <2> QED
    BY <2>2, <2>3
<1>6. Shape'
  <2>1. published \in Nat /\ \A i \in 1..Len(shell.inbox) : shell.inbox[i] \in 1..published
    BY DEF IInv, Shape
  <2>2. shell'.inbox \in Seq(Nat)
        /\ \A i \in 1..Len(shell'.inbox) : shell'.inbox[i] \in 1..published'
    <3>1. CASE shell'.inbox = shell.inbox
      BY <1>1, <1>2, <2>1, <3>1
    <3>2. CASE shell'.inbox = Append(shell.inbox, n)
      <4>1. Len(shell'.inbox) = Len(shell.inbox) + 1 /\ shell'.inbox \in Seq(Nat)
        BY <1>2, <2>1, <3>2
      <4>2. \A i \in 1..Len(shell'.inbox) :
              shell'.inbox[i] = IF i \in 1..Len(shell.inbox) THEN shell.inbox[i] ELSE n
        BY <1>2, <3>2
      <4>3. n \in 1..published' /\ \A i \in 1..Len(shell.inbox) : shell.inbox[i] \in 1..published'
        BY <1>1, <2>1
      <4> QED
        BY <4>1, <4>2, <4>3
    <3> QED
      BY <1>3, <3>1, <3>2, ShellTyped DEF IInv
  <2>3. shell' \in ShellRecord
    BY <1>2, <1>3, <2>2 DEF IInv, Shape, ShellRecord
  <2> QED
    BY <1>1, <1>5, <2>2, <2>3 DEF IInv, Shape
<1>7. RowInv' /\ QuietInv'
  BY <1>1, <1>4, <1>5 DEF IInv, RowInv, QuietInv
<1>8. KnownInv'
  BY <1>1, <1>4, <1>5, SameLog DEF IInv, KnownInv
<1>9. \A u, i : Over(u, i) => Over(u, i)'
  BY <1>1, <1>4, SameLog DEF Over, Reading, IInv, RowInv
<1>10. WireInv' /\ GoneInv'
  <2>1. \A u \in Threads : Hidden(u) => Hidden(u)'
    BY <1>1, <1>5 DEF Hidden
  <2> QED
    BY <1>1, <1>4, <1>9, <2>1, WireStays, GoneStays
<1> QED
  BY <1>6, <1>7, <1>8, <1>10 DEF IInv

-----------------------------------------------------------------------------
(* The shell stream.                                                       *)

\* A step of the stream that sends nothing and reads no row of a deleted thread.
LEMMA ShellSilent ==
  ASSUME IInv, UNCHANGED <<log, published, detail, shown, summary, gone>>,
         faults' \in {faults, faults + 1},
         shell' \in ShellRecord, RowInv', shell'.wire = shell.wire,
         \A i \in 1..Len(shell'.inbox) : shell'.inbox[i] \in 1..published,
         \A t \in Threads : Reading(t)' => Reading(t) \/ ~ Deleted(t)
  PROVE  IInv'
<1>1. faults' \in Nat /\ (faults' = 0 => faults = 0)
  BY DEF IInv, Shape
<1>2. Shape'
  BY <1>1 DEF IInv, Shape
<1>3. QuietInv'
  BY DEF IInv, QuietInv
<1>4. KnownInv'
  BY <1>1, SameLog DEF IInv, KnownInv
<1>5. \A t \in Threads : \A i : Over(t, i) => Over(t, i)'
  BY SameLog DEF Over
<1>6. \A t \in Threads : Hidden(t) => Hidden(t)'
  BY DEF Hidden
<1>7. WireInv' /\ GoneInv'
  BY <1>5, <1>6, WireStays, GoneStays
<1> QED
  BY <1>2, <1>3, <1>4, <1>7 DEF IInv

\* The rest of the inbox.
LEMMA InboxTail ==
  ASSUME Shape, shell.inbox # <<>>
  PROVE  /\ Tail(shell.inbox) \in Seq(Nat)
         /\ \A i \in 1..Len(Tail(shell.inbox)) : Tail(shell.inbox)[i] \in 1..published
<1>1. shell.inbox \in Seq(Nat)
      /\ \A i \in 1..Len(shell.inbox) : shell.inbox[i] \in 1..published
  BY ShellTyped DEF Shape
<1>2. /\ Tail(shell.inbox) \in Seq(Nat) /\ Len(Tail(shell.inbox)) = Len(shell.inbox) - 1
      /\ \A i \in 1..Len(Tail(shell.inbox)) : Tail(shell.inbox)[i] = shell.inbox[i + 1]
  BY <1>1
<1>3. \A i \in 1..Len(Tail(shell.inbox)) : i + 1 \in 1..Len(shell.inbox)
  BY <1>1, <1>2
<1> QED
  BY <1>1, <1>2, <1>3

LEMMA JoinShellKeeps ==
  ASSUME IInv, JoinShell
  PROVE  IInv'
<1> USE DEF JoinShell, server, store, budget
<1>1. /\ shell' = [shell EXCEPT !.stage = "live", !.joined = published]
      /\ shell \in ShellRecord /\ published \in Nat /\ shell.stage = "read"
      /\ \A i \in 1..Len(shell.inbox) : shell.inbox[i] \in 1..published
  BY DEF IInv, Shape
<1>2. /\ shell' \in ShellRecord /\ shell'.inbox = shell.inbox
      /\ shell'.row = shell.row /\ shell'.wire = shell.wire
  BY <1>1 DEF ShellRecord
<1>3. RowInv'
  BY <1>1, <1>2 DEF IInv, RowInv
<1>4. \A t \in Threads : Reading(t)' => Reading(t)
  BY <1>2 DEF Reading
<1> QED
  BY <1>1, <1>2, <1>3, <1>4, ShellSilent

LEMMA ReadThreadRowKeeps ==
  ASSUME IInv, ReadThreadRow
  PROVE  IInv'
<1> DEFINE t == log[Head(shell.inbox)].thread
<1> USE DEF server, store, budget
<1>1. /\ shell.stage = "live" /\ shell.inbox # <<>>
      /\ log[Head(shell.inbox)].type # "thread.deleted" /\ shell.row = 0
      /\ \/ TitleOf(t) = 0 /\ shell' = [shell EXCEPT !.inbox = Tail(@)]
         \/ TitleOf(t) # 0 /\ shell' = [shell EXCEPT !.row = TitleOf(t)]
      /\ UNCHANGED <<log, published, detail, shown, summary, gone, faults>>
  BY DEF ReadThreadRow, HasShellEvent
<1>2. /\ shell \in ShellRecord
      /\ \A i \in 1..Len(shell.inbox) : shell.inbox[i] \in 1..published
      /\ log \in Seq(Event)
  BY DEF IInv, Shape
<1>3. TitleOf(t) \in Nat /\ (TitleOf(t) # 0 => ~ Deleted(t))
  BY <1>2, NoTitle
<1>4. /\ Tail(shell.inbox) \in Seq(Nat)
      /\ \A i \in 1..Len(Tail(shell.inbox)) : Tail(shell.inbox)[i] \in 1..published
  BY <1>1, InboxTail DEF IInv
<1>5. CASE TitleOf(t) = 0
  <2>1. /\ shell' \in ShellRecord /\ shell'.inbox = Tail(shell.inbox)
        /\ shell'.row = 0 /\ shell'.wire = shell.wire
    BY <1>1, <1>2, <1>4, <1>5 DEF ShellRecord
  <2> QED
    BY <1>1, <1>4, <2>1, ShellSilent DEF RowInv, Reading
<1>6. CASE TitleOf(t) # 0
  <2>1. /\ shell' \in ShellRecord /\ shell'.inbox = shell.inbox
        /\ shell'.stage = "live" /\ shell'.wire = shell.wire
    BY <1>1, <1>2, <1>3, <1>6 DEF ShellRecord
  <2>2. RowInv'
    BY <1>1, <2>1 DEF RowInv
  <2>3. \A u \in Threads : Reading(u)' => u = t
    BY <1>1, <2>1 DEF Reading
  <2> QED
    BY <1>1, <1>2, <1>3, <1>6, <2>1, <2>2, <2>3, ShellSilent
<1> QED
  BY <1>5, <1>6

LEMMA ShellFailureKeeps ==
  ASSUME IInv, ShellReadFails \/ ShellSnapshotFails
  PROVE  IInv'
<1> USE DEF server, store, budget
<1>1. /\ shell \in ShellRecord /\ published \in 0..Len(log) /\ log \in Seq(Event)
      /\ \A i \in 1..Len(shell.inbox) : shell.inbox[i] \in 1..published
      /\ faults \in Nat
  BY DEF IInv, Shape
<1>2. CASE ShellReadFails
  <2>1. shell.inbox # <<>> /\ shell' = [shell EXCEPT !.inbox = Tail(@), !.row = 0,
                                      !.lost = @ \cup {Head(shell.inbox)}]
        /\ UNCHANGED <<log, published, detail, shown, summary, gone>> /\ faults' = faults + 1
    BY <1>2 DEF ShellReadFails, HasShellEvent
  <2>2. /\ Tail(shell.inbox) \in Seq(Nat) /\ Head(shell.inbox) \in Nat
        /\ \A i \in 1..Len(Tail(shell.inbox)) : Tail(shell.inbox)[i] \in 1..published
    BY <2>1, InboxTail, ShellTyped DEF IInv
  <2>3. /\ shell' \in ShellRecord /\ shell'.inbox = Tail(shell.inbox)
        /\ shell'.row = 0 /\ shell'.wire = shell.wire
    BY <1>1, <2>1, <2>2 DEF ShellRecord
  <2> QED
    BY <2>1, <2>2, <2>3, ShellSilent DEF RowInv, Reading
<1>3. CASE ShellSnapshotFails
  <2>1. shell.stage = "asked" /\ shell' = [shell EXCEPT !.stage = "ended"]
        /\ UNCHANGED <<log, published, detail, shown, summary, gone>> /\ faults' = faults + 1
    BY <1>3 DEF ShellSnapshotFails
  <2>2. /\ shell' \in ShellRecord /\ shell'.inbox = shell.inbox
        /\ shell'.row = shell.row /\ shell'.wire = shell.wire
    BY <1>1, <2>1 DEF ShellRecord
  <2>3. shell.row = 0
    BY <2>1 DEF IInv, RowInv
  <2> QED
    BY <1>1, <2>1, <2>2, <2>3, ShellSilent DEF RowInv, Reading
<1> QED
  BY <1>2, <1>3

\* A step that sends an item of its event: a row only of the thread being read, a
\* removal only of a deleted one.
LEMMA ShellSends ==
  ASSUME IInv, UNCHANGED <<log, published, detail, shown, summary, gone, faults>>,
         NEW item \in ShellItem, shell' \in ShellRecord,
         shell'.wire = Append(shell.wire, item), shell'.row = 0,
         \A i \in 1..Len(shell'.inbox) : shell'.inbox[i] \in 1..published,
         item.kind # "snapshot",
         \A t \in Threads : Brings(item, t) => Created(t) /\ Reading(t),
         item.kind = "removed" => Deleted(item.thread)
  PROVE  IInv'
<1> DEFINE n == Len(shell.wire)
<1>1. /\ n \in Nat /\ Len(shell'.wire) = n + 1 /\ shell'.wire[n + 1] = item
      /\ \A i \in 1..n : shell'.wire[i] = shell.wire[i]
  BY ShellTyped DEF IInv
<1>2. Shape'
  BY DEF IInv, Shape
<1>3. RowInv' /\ QuietInv'
  BY DEF IInv, RowInv, QuietInv
<1> HIDE DEF n
<1>4. \A i \in 1..(n + 1), t \in Threads : Brings(shell'.wire[i], t) => Created(t)
  <2> SUFFICES ASSUME NEW i \in 1..(n + 1), NEW t \in Threads, Brings(shell'.wire[i], t)
               PROVE  Created(t)
    OBVIOUS
  <2>1. CASE i = n + 1
    BY <1>1, <2>1
  <2>2. CASE i \in 1..n
    BY <1>1, <2>2 DEF IInv, KnownInv, n
  <2> QED
    BY <1>1, <2>1, <2>2
<1>5. KnownInv'
  BY <1>1, <1>4, SameLog DEF IInv, KnownInv, Brings
<1>6. \A t \in Threads : \A i : Over(t, i) => Over(t, i)'
  <2> SUFFICES ASSUME NEW t \in Threads, NEW i, Over(t, i) PROVE Over(t, i)'
    OBVIOUS
  <2>1. Deleted(t)' /\ ~ Reading(t)'
    BY SameLog DEF Over, Reading
  <2>2. ~ Brings(item, t)
    BY DEF Over
  <2>3. ASSUME NEW j \in 1..(n + 1), j > i PROVE ~ Brings(shell'.wire[j], t)
    <3>1. CASE j = n + 1
      BY <1>1, <2>2, <3>1
    <3>2. CASE j \in 1..n
      BY <1>1, <2>3, <3>2 DEF Over, n
    <3> QED
      BY <1>1, <3>1, <3>2
  <2> QED
    BY <1>1, <2>1, <2>3 DEF Over, Brings
<1>7. ASSUME item.kind = "removed", NEW i, i = n + 1 PROVE Over(item.thread, i)'
  <2>1. Deleted(item.thread)'
    BY <1>7, SameLog
  <2>2. ~ \E j \in 1..(n + 1) : j > i
    BY <1>1, <1>7
  <2> QED
    BY <1>1, <2>1, <2>2 DEF Over, Reading
<1>8. WireInv'
  <2> SUFFICES ASSUME NEW i \in 1..(n + 1)
               PROVE  /\ shell'.wire[i].kind = "snapshot" =>
                           /\ i = 1
                           /\ \A t \in Threads :
                                shell'.wire[i].rows[t] = None => Hidden(t)' \/ Over(t, 1)'
                      /\ \A t \in Threads :
                           shell'.wire[i].kind = "removed" /\ t = shell'.wire[i].thread
                             => Over(t, i)'
    BY <1>1 DEF WireInv
  <2>1. CASE i = n + 1
    BY <1>1, <1>7, <2>1 DEF Over, Reading, Brings, Deleted, EventsOf
  <2>2. CASE i \in 1..n
    <3>1. shell'.wire[i] = shell.wire[i] /\ i \in 1..Len(shell.wire)
      BY <1>1, <2>2 DEF n
    <3> QED
      BY <1>6, <3>1 DEF IInv, WireInv, Hidden
  <2> QED
    BY <1>1, <2>1, <2>2
<1>9. GoneInv'
  BY <1>6, GoneStays DEF Hidden
<1> QED
  BY <1>2, <1>3, <1>5, <1>8, <1>9 DEF IInv

LEMMA MapDeletionKeeps ==
  ASSUME IInv, MapDeletion
  PROVE  IInv'
<1> DEFINE e == log[Head(shell.inbox)]
           item == [kind |-> "removed", thread |-> e.thread]
<1> USE DEF server, store, budget
<1>1. /\ shell.inbox # <<>> /\ e.type = "thread.deleted"
      /\ shell' = [shell EXCEPT !.inbox = Tail(@), !.wire = Append(@, item)]
      /\ UNCHANGED <<log, published, detail, shown, summary, gone, faults>>
  BY DEF MapDeletion, HasShellEvent
<1>2. /\ shell \in ShellRecord /\ Head(shell.inbox) \in 1..Len(log) /\ e \in Event
      /\ shell.wire \in Seq(ShellItem) /\ shell.row = 0
  BY <1>1, ShellTyped DEF IInv, Shape, RowInv
<1>3. item \in ShellItem /\ item.kind = "removed" /\ item.thread = e.thread
  BY <1>2 DEF ShellItem, Event
<1>4. /\ Tail(shell.inbox) \in Seq(Nat)
      /\ \A i \in 1..Len(Tail(shell.inbox)) : Tail(shell.inbox)[i] \in 1..published
  BY <1>1, InboxTail DEF IInv
<1> HIDE DEF item
<1>5. /\ shell' \in ShellRecord /\ shell'.inbox = Tail(shell.inbox)
      /\ shell'.row = 0 /\ shell'.wire = Append(shell.wire, item)
  <2>1. Append(shell.wire, item) \in Seq(ShellItem)
    BY <1>2, <1>3
  <2> HIDE DEF ShellItem
  <2> QED
    BY <1>1, <1>2, <1>4, <2>1 DEF ShellRecord
<1>6. Deleted(item.thread)
  BY <1>1, <1>2, <1>3 DEF Deleted, EventsOf
<1>7. \A t \in Threads : ~ Brings(item, t)
  BY <1>3 DEF Brings
<1> QED
  BY <1>1, <1>3, <1>4, <1>5, <1>6, <1>7, ShellSends

LEMMA ReadSessionRowKeeps ==
  ASSUME IInv, ReadSessionRow
  PROVE  IInv'
<1> DEFINE t == log[Head(shell.inbox)].thread
           row == [title |-> shell.row, session |-> SessionOf(t)]
           item == [kind |-> "upserted", thread |-> t, row |-> row]
<1> USE DEF server, store, budget
<1>1. /\ shell.inbox # <<>> /\ shell.row # 0
      /\ shell' = [shell EXCEPT !.inbox = Tail(@), !.row = 0, !.wire = Append(@, item)]
      /\ UNCHANGED <<log, published, detail, shown, summary, gone, faults>>
  BY DEF ReadSessionRow, HasShellEvent
<1>2. /\ shell \in ShellRecord /\ Head(shell.inbox) \in 1..Len(log) /\ t \in Threads
      /\ shell.wire \in Seq(ShellItem) /\ shell.row \in Nat /\ log \in Seq(Event)
  BY <1>1, ShellTyped DEF IInv, Shape, Event
<1>3. row \in Row
  BY <1>2, NoTitle DEF Row
<1>4. item \in ShellItem /\ item.kind = "upserted" /\ item.thread = t
  BY <1>2, <1>3 DEF ShellItem
<1>5. /\ Tail(shell.inbox) \in Seq(Nat)
      /\ \A i \in 1..Len(Tail(shell.inbox)) : Tail(shell.inbox)[i] \in 1..published
  BY <1>1, InboxTail DEF IInv
<1> HIDE DEF item
<1>6. /\ shell' \in ShellRecord /\ shell'.inbox = Tail(shell.inbox)
      /\ shell'.row = 0 /\ shell'.wire = Append(shell.wire, item)
  <2>1. Append(shell.wire, item) \in Seq(ShellItem)
    BY <1>2, <1>4
  <2> HIDE DEF ShellItem
  <2> QED
    BY <1>1, <1>2, <1>5, <2>1 DEF ShellRecord
<1>7. \A u \in Threads : Brings(item, u) => Created(u) /\ Reading(u)
  <2>1. Created(t) /\ Reading(t)
    BY <1>1, <1>2 DEF IInv, KnownInv, Reading
  <2> QED
    BY <1>4, <2>1 DEF Brings
<1> QED
  BY <1>1, <1>4, <1>5, <1>6, <1>7, ShellSends

\* A snapshot leaves out what is deleted, and what nobody has seen yet.
LEMMA ReadShellSnapshotKeeps ==
  ASSUME IInv, ReadShellSnapshot
  PROVE  IInv'
<1> DEFINE rows == [t \in Threads |-> RowOf(t)]
           item == [kind |-> "snapshot", rows |-> rows]
<1> USE DEF server, store, budget
<1>1. /\ shell.stage = "asked"
      /\ shell' = [shell EXCEPT !.stage = "read", !.at = Len(log), !.wire = <<item>>]
      /\ UNCHANGED <<log, published, detail, shown, summary, gone, faults>>
  BY DEF ReadShellSnapshot
<1>2. /\ shell \in ShellRecord /\ log \in Seq(Event) /\ shell.row = 0
      /\ \A i \in 1..Len(shell.inbox) : shell.inbox[i] \in 1..published
  BY <1>1 DEF IInv, Shape, RowInv
<1>3. /\ rows \in Rows
      /\ \A t \in Threads : rows[t] = None <=> TitleOf(t) = 0
  BY <1>2, RowsTyped
<1>4. item \in ShellItem /\ item.kind = "snapshot" /\ item.rows = rows
  BY <1>3 DEF ShellItem
<1>5. \A t \in Threads :
        /\ Deleted(t) => rows[t] = None
        /\ rows[t] = None => Deleted(t) \/ ~ Created(t)
  BY <1>2, <1>3, NoTitle
<1> HIDE DEF item, rows
<1>6. /\ shell' \in ShellRecord /\ shell'.inbox = shell.inbox
      /\ shell'.row = 0 /\ shell'.wire = <<item>>
  <2> DEFINE w == <<item>>
  <2>1. w \in Seq(ShellItem) /\ Len(log) \in Nat
    BY <1>2, <1>4
  <2>2. shell' = [shell EXCEPT !.stage = "read", !.at = Len(log), !.wire = w]
    BY <1>1
  <2> HIDE DEF w
  <2>3. /\ shell' \in ShellRecord /\ shell'.inbox = shell.inbox
        /\ shell'.row = 0 /\ shell'.wire = w
    BY <1>2, <2>1, <2>2 DEF ShellRecord
  <2> QED
    BY <2>3 DEF w
<1>7. Len(shell'.wire) = 1 /\ shell'.wire[1] = item
  BY <1>6
<1>8. Shape'
  BY <1>1, <1>2, <1>6 DEF IInv, Shape
<1>9. RowInv' /\ QuietInv'
  BY <1>1, <1>6 DEF IInv, RowInv, QuietInv
<1>10. \A t \in Threads : ~ Created(t) => rows[t] = None /\ Hidden(t)
  <2>1. \A t \in Threads : ~ Created(t) => Hidden(t)
    BY DEF IInv, KnownInv, Hidden
  <2>2. \A t \in Threads : ~ Created(t) => rows[t] = None
    <3> SUFFICES ASSUME NEW t \in Threads, ~ Created(t) PROVE rows[t] = None
      OBVIOUS
    <3>1. \A i \in 1..Len(log) : log[i].thread # t
      BY DEF IInv, KnownInv
    <3>2. EventsOf(t, {"thread.created", "thread.meta-updated"}) = {}
      BY <3>1 DEF EventsOf
    <3> QED
      BY <1>3, <3>2 DEF TitleOf, LastOf
  <2> QED
    BY <2>1, <2>2
<1>11. KnownInv'
  <2>1. \A i \in 1..Len(shell'.wire), t \in Threads : Brings(shell'.wire[i], t) => Created(t)
    BY <1>4, <1>7, <1>10 DEF Brings
  <2> QED
    BY <1>1, <2>1, SameLog DEF IInv, KnownInv, Brings
<1>12. \A t \in Threads : Deleted(t) => Over(t, 0)' /\ Over(t, 1)'
  <2> SUFFICES ASSUME NEW t \in Threads, Deleted(t) PROVE Over(t, 0)' /\ Over(t, 1)'
    OBVIOUS
  <2>1. Deleted(t)'
    BY <1>1, SameLog
  <2>2. \A j \in 1..Len(shell'.wire) : ~ Brings(shell'.wire[j], t)
    BY <1>4, <1>5, <1>7 DEF Brings
  <2> QED
    BY <1>6, <2>1, <2>2 DEF Over, Reading, Brings
<1>13. WireInv'
  <2>1. \A t \in Threads : rows[t] = None => Hidden(t)' \/ Over(t, 1)'
    BY <1>1, <1>5, <1>10, <1>12 DEF Hidden
  <2> QED
    BY <1>4, <1>7, <2>1 DEF WireInv
<1>14. GoneInv'
  <2>1. \A t \in gone : t \in Threads /\ Hidden(t) /\ summary[t] = None /\ Deleted(t)
    BY DEF IInv, Shape, GoneInv, Over
  <2> QED
    BY <1>1, <1>12, <2>1 DEF GoneInv, Hidden
<1> QED
  BY <1>8, <1>9, <1>11, <1>13, <1>14 DEF IInv

-----------------------------------------------------------------------------
(* The detail streams.                                                     *)

\* A step of a stream that is there changes what is shown of its own thread only, and
\* gives up a deleted thread or after a failure.
LEMMA DetailStays ==
  ASSUME IInv, UNCHANGED <<log, published, shell, summary, gone>>,
         NEW t \in Threads, NEW S, NEW d \in DetailRecord(S),
         detail' = [detail EXCEPT ![t] = d],
         detail[t].stage # "none", d.stage # "none",
         faults' \in {faults, faults + 1},
         faults' = 0 /\ d.stage = "ended" => Deleted(t),
         DOMAIN shown' = Threads,
         \A u \in Threads : u # t => shown'[u] = shown[u]
  PROVE  IInv'
<1>1. /\ Subscriptions(detail') /\ detail'[t] = d
      /\ \A u \in Threads : u # t => detail'[u] = detail[u]
  BY SubscriptionStep DEF IInv, Shape
<1>2. faults' \in Nat /\ (faults' = 0 => faults = 0)
  BY DEF IInv, Shape
<1>3. Shape'
  BY <1>1, <1>2 DEF IInv, Shape
<1>4. RowInv' /\ QuietInv'
  BY <1>1 DEF IInv, RowInv, QuietInv
<1>5. Created(t)
  BY DEF IInv, KnownInv
<1>6. KnownInv'
  BY <1>1, <1>2, <1>5, SameLog DEF IInv, KnownInv
<1>7. \A u \in Threads : Hidden(u) => Hidden(u)'
  BY <1>1 DEF Hidden
<1>8. \A u \in Threads : \A i : Over(u, i) => Over(u, i)'
  BY SameLog DEF Over, Reading
<1>9. WireInv' /\ GoneInv'
  BY <1>7, <1>8, WireStays, GoneStays
<1> QED
  BY <1>3, <1>4, <1>6, <1>9 DEF IInv

\* A subscription as it was asked for, or given up.
LEMMA NewSubscription ==
  \E S :
    /\ NotSubscribed \in DetailRecord(S) /\ DetailAsked \in DetailRecord(S)
    /\ [NotSubscribed EXCEPT !.stage = "ended"] \in DetailRecord(S)
<1> DEFINE S == {"none", "asked", "ended", 0, <<>>}
<1>1. NotSubscribed \in DetailRecord(S)
  BY DEF NotSubscribed, DetailRecord
<1>2. /\ DetailAsked \in DetailRecord(S)
      /\ [NotSubscribed EXCEPT !.stage = "ended"] \in DetailRecord(S)
  BY <1>1 DEF DetailAsked, DetailRecord
<1> QED
  BY <1>1, <1>2

LEMMA NewStages ==
  /\ NotSubscribed.stage = "none" /\ NotSubscribed.wire = <<>>
  /\ DetailAsked.stage = "asked" /\ DetailAsked.wire = <<>>
  /\ [NotSubscribed EXCEPT !.stage = "ended"].stage = "ended"
  BY DEF NotSubscribed, DetailAsked

\* The three reads, the join and a failure.
LEMMA ServeDetailKeeps ==
  ASSUME IInv, NEW t \in Threads, ServeDetail(t) \/ DetailReadFails(t)
  PROVE  IInv'
<1> USE DEF server, store, budget
<1>1. PICK S : /\ detail \in [Threads -> DetailRecord(S)]
               /\ log \in Seq(Event) /\ DOMAIN shown = Threads /\ faults \in Nat
  BY DEF IInv, Shape, Subscriptions
<1>2. ASSUME NEW T, NEW d \in DetailRecord(T), detail' = [detail EXCEPT ![t] = d],
             detail[t].stage # "none", d.stage # "none",
             UNCHANGED <<log, published, shell, shown, summary, gone>>,
             faults' \in {faults, faults + 1},
             faults' = 0 /\ d.stage = "ended" => Deleted(t)
      PROVE  IInv'
  BY <1>1, <1>2, DetailStays
<1>3. CASE ReadDetailThread(t)
  <2>1. /\ detail[t].stage = "asked" /\ UNCHANGED <<log, published, shell, shown, summary, gone>>
        /\ faults' = faults
    BY <1>3 DEF ReadDetailThread
  <2>2. CASE TitleOf(t) = 0
    <3>1. detail' = [detail EXCEPT ![t] = [NotSubscribed EXCEPT !.stage = "ended"]]
      BY <1>3, <2>2 DEF ReadDetailThread
    <3>2. Created(t)
      BY <2>1 DEF IInv, KnownInv
    <3>3. Deleted(t)
      BY <1>1, <2>2, <3>2, NoTitle
    <3> QED
      BY <1>2, <2>1, <3>1, <3>3, NewSubscription, NewStages
  <2>3. CASE TitleOf(t) # 0
    <3> DEFINE d == [detail[t] EXCEPT !.stage = "thread", !.title = TitleOf(t),
                                      !.titleAt = Len(log)]
    <3>1. detail' = [detail EXCEPT ![t] = d]
      BY <1>3, <2>3 DEF ReadDetailThread
    <3>2. d \in DetailRecord(S \cup {"thread", TitleOf(t), Len(log)})
         /\ d.stage = "thread"
      BY <1>1 DEF DetailRecord
    <3> HIDE DEF d
    <3> QED
      BY <1>2, <2>1, <3>1, <3>2
  <2> QED
    BY <2>2, <2>3
<1>4. CASE ReadDetailMessages(t)
  <2> DEFINE d == [detail[t] EXCEPT !.stage = "messages", !.text = MessagesOf(t),
                                    !.textAt = Len(log)]
  <2>1. /\ detail[t].stage = "thread" /\ UNCHANGED <<log, published, shell, shown, summary, gone>>
        /\ faults' = faults /\ detail' = [detail EXCEPT ![t] = d]
    BY <1>4 DEF ReadDetailMessages
  <2>2. d \in DetailRecord(S \cup {"messages", MessagesOf(t), Len(log)})
       /\ d.stage = "messages"
    BY <1>1 DEF DetailRecord
  <2> HIDE DEF d
  <2> QED
    BY <1>2, <2>1, <2>2
<1>5. CASE ReadDetailSession(t)
  <2> DEFINE item == [kind |-> "snapshot",
                      row |-> [title |-> detail[t].title, session |-> SessionOf(t)],
                      text |-> detail[t].text]
             d == [detail[t] EXCEPT !.stage = "read", !.sessionAt = Len(log),
                                    !.title = 0, !.text = <<>>, !.wire = <<item>>]
  <2>1. /\ detail[t].stage = "messages"
        /\ UNCHANGED <<log, published, shell, shown, summary, gone>>
        /\ faults' = faults /\ detail' = [detail EXCEPT ![t] = d]
    BY <1>5 DEF ReadDetailSession
  <2> HIDE DEF item
  <2>2. d \in DetailRecord(S \cup {"read", 0, <<>>, Len(log), <<item>>})
       /\ d.stage = "read"
    BY <1>1 DEF DetailRecord
  <2> HIDE DEF d
  <2> QED
    BY <1>2, <2>1, <2>2
<1>6. CASE JoinDetail(t)
  <2> DEFINE d == [detail[t] EXCEPT !.stage = "live", !.joined = published]
  <2>1. /\ detail[t].stage = "read" /\ UNCHANGED <<log, published, shell, shown, summary, gone>>
        /\ faults' = faults /\ detail' = [detail EXCEPT ![t] = d]
    BY <1>6 DEF JoinDetail
  <2>2. d \in DetailRecord(S \cup {"live", published})
        /\ d.stage = "live"
    BY <1>1 DEF DetailRecord
  <2> HIDE DEF d
  <2> QED
    BY <1>2, <2>1, <2>2
<1>7. CASE DetailReadFails(t)
  <2>1. /\ detail[t].stage # "none" /\ UNCHANGED <<log, published, shell, shown, summary, gone>>
        /\ faults' = faults + 1
        /\ detail' = [detail EXCEPT ![t] = [NotSubscribed EXCEPT !.stage = "ended"]]
    BY <1>7 DEF DetailReadFails
  <2>2. PICK T : [NotSubscribed EXCEPT !.stage = "ended"] \in DetailRecord(T)
    BY NewSubscription
  <2>3. faults' # 0 /\ [NotSubscribed EXCEPT !.stage = "ended"].stage # "none"
    BY <1>1, <2>1, NewStages
  <2> QED
    BY <1>2, <2>1, <2>2, <2>3
<1> QED
  BY <1>3, <1>4, <1>5, <1>6, <1>7 DEF ServeDetail

-----------------------------------------------------------------------------
(* The client.                                                             *)

LEMMA DeliverDetailKeeps ==
  ASSUME IInv, NEW t \in Threads, DeliverDetail(t)
  PROVE  IInv'
<1> DEFINE d == [detail[t] EXCEPT !.wire = Tail(@)]
<1>1. /\ detail[t].wire # <<>> /\ detail' = [detail EXCEPT ![t] = d]
      /\ UNCHANGED <<log, published, shell, summary, gone, faults>>
  BY DEF DeliverDetail, server, budget
<1>2. PICK S : detail \in [Threads -> DetailRecord(S)] /\ DOMAIN shown = Threads
  BY DEF IInv, Shape, Subscriptions
<1>3. d \in DetailRecord(S \cup {Tail(detail[t].wire)}) /\ d.stage = detail[t].stage
  BY <1>2 DEF DetailRecord
<1>4. detail[t].stage # "none"
  BY <1>1 DEF IInv, QuietInv
<1>5. faults' = 0 /\ d.stage = "ended" => Deleted(t)
  BY <1>1, <1>3 DEF IInv, KnownInv
<1>6. DOMAIN shown' = Threads /\ \A u \in Threads : u # t => shown'[u] = shown[u]
  BY <1>2 DEF DeliverDetail, TakeDetailSnapshot, TakeDetailEvent
<1> HIDE DEF d
<1> QED
  BY <1>1, <1>3, <1>4, <1>5, <1>6, DetailStays

LEMMA OpenKeeps ==
  ASSUME IInv, NEW t \in Threads, Open(t)
  PROVE  IInv'
<1>1. /\ detail[t].stage = "none" /\ shown[t] # None
      /\ detail' = [detail EXCEPT ![t] = DetailAsked]
      /\ UNCHANGED <<log, published, shell, shown, summary, gone, faults>>
  BY DEF Open, server, store
<1>2. /\ Subscriptions(detail') /\ detail'[t] = DetailAsked
      /\ \A u \in Threads : u # t => detail'[u] = detail[u]
  <2>1. Subscriptions(detail) /\ \E S : DetailAsked \in DetailRecord(S)
    BY NewSubscription DEF IInv, Shape
  <2> QED
    BY <1>1, <2>1, SubscriptionStep
<1>3. Shape'
  BY <1>1, <1>2 DEF IInv, Shape
<1>4. RowInv' /\ QuietInv'
  BY <1>1, <1>2, NewStages DEF IInv, RowInv, QuietInv
<1>5. KnownInv'
  <2>1. \A u \in Threads : shown[u] # None \/ detail'[u].stage # "none" => Created(u)
    BY <1>1, <1>2 DEF IInv, KnownInv
  <2>2. \A u \in Threads : faults = 0 /\ detail'[u].stage = "ended" => Deleted(u)
    BY <1>2, NewStages DEF IInv, KnownInv
  <2> QED
    BY <1>1, <2>1, <2>2, SameLog DEF IInv, KnownInv
<1>6. \A u \in Threads : Hidden(u) => Hidden(u)'
  BY <1>1, <1>2 DEF Hidden
<1>7. \A u \in Threads : \A i : Over(u, i) => Over(u, i)'
  BY <1>1, SameLog DEF Over, Reading
<1>8. WireInv' /\ GoneInv'
  BY <1>1, <1>6, <1>7, WireStays, GoneStays
<1> QED
  BY <1>3, <1>4, <1>5, <1>8 DEF IInv

\* A disposed subscription is not there and sends nothing.
LEMMA DisposedTyped ==
  ASSUME Subscriptions(detail), NEW ts \in SUBSET Threads, detail' = Disposed(ts)
  PROVE  /\ Subscriptions(detail')
         /\ \A t \in ts : detail'[t].stage = "none" /\ detail'[t].wire = <<>>
         /\ \A t \in Threads \ ts : detail'[t] = detail[t]
<1>1. PICK S0 : detail \in [Threads -> DetailRecord(S0)]
  BY DEF Subscriptions
<1>2. PICK S : NotSubscribed \in DetailRecord(S)
  BY NewSubscription
<1>3. DetailRecord(S) \subseteq DetailRecord(S \cup S0)
      /\ DetailRecord(S0) \subseteq DetailRecord(S \cup S0)
  BY DEF DetailRecord
<1>4. detail' \in [Threads -> DetailRecord(S \cup S0)]
  BY <1>1, <1>2, <1>3 DEF Disposed
<1>5. \A t \in Threads : detail'[t] = IF t \in ts THEN NotSubscribed ELSE detail[t]
  BY DEF Disposed
<1> QED
  BY <1>4, <1>5, NewStages DEF Subscriptions

LEMMA CloseKeeps ==
  ASSUME IInv, NEW t \in Threads, Close(t)
  PROVE  IInv'
<1>1. /\ detail' = Disposed({t})
      /\ UNCHANGED <<log, published, shell, shown, summary, gone, faults>>
  BY DEF Close, server, store, budget
<1>2. /\ Subscriptions(detail') /\ detail'[t].stage = "none" /\ detail'[t].wire = <<>>
      /\ \A u \in Threads : u # t => detail'[u] = detail[u]
  <2>1. Subscriptions(detail) /\ {t} \in SUBSET Threads
    BY DEF IInv, Shape
  <2>2. /\ Subscriptions(detail')
        /\ \A u \in {t} : detail'[u].stage = "none" /\ detail'[u].wire = <<>>
        /\ \A u \in Threads \ {t} : detail'[u] = detail[u]
    BY <1>1, <2>1, DisposedTyped
  <2> QED
    BY <2>2
<1>3. Shape'
  BY <1>1, <1>2 DEF IInv, Shape
<1>4. RowInv' /\ QuietInv'
  BY <1>1, <1>2 DEF IInv, RowInv, QuietInv
<1>5. KnownInv'
  <2>1. \A u \in Threads : shown[u] # None \/ detail'[u].stage # "none" => Created(u)
    BY <1>2 DEF IInv, KnownInv
  <2>2. \A u \in Threads : faults = 0 /\ detail'[u].stage = "ended" => Deleted(u)
    BY <1>2 DEF IInv, KnownInv
  <2> QED
    BY <1>1, <2>1, <2>2, SameLog DEF IInv, KnownInv
<1>6. \A u \in Threads : Hidden(u) => Hidden(u)'
  BY <1>1, <1>2 DEF Hidden
<1>7. \A u \in Threads : \A i : Over(u, i) => Over(u, i)'
  BY <1>1, SameLog DEF Over, Reading
<1>8. WireInv' /\ GoneInv'
  BY <1>1, <1>6, <1>7, WireStays, GoneStays
<1> QED
  BY <1>3, <1>4, <1>5, <1>8 DEF IInv

\* The first item leaves the wire; what is known of the others moves up with them.
LEMMA WireMovesUp ==
  ASSUME IInv, shell.wire # <<>>, shell' = [shell EXCEPT !.wire = Tail(@)], UNCHANGED log
  PROVE  /\ shell' \in ShellRecord /\ shell'.inbox = shell.inbox
         /\ RowInv' /\ WireInv'
         /\ \A i \in 1..Len(shell'.wire), t \in Threads :
              Brings(shell'.wire[i], t) => Created(t)
         /\ \A t \in Threads : Over(t, 0) \/ Over(t, 1) => Over(t, 0)'
<1> DEFINE w == Tail(shell.wire)
<1>1. shell \in ShellRecord /\ shell.wire \in Seq(ShellItem)
  BY ShellTyped DEF IInv, Shape
<1>2. /\ w \in Seq(ShellItem) /\ Len(w) \in Nat /\ Len(shell.wire) = Len(w) + 1
      /\ \A i \in 1..Len(w) : w[i] = shell.wire[i + 1] /\ i + 1 \in 1..Len(shell.wire)
  BY <1>1
<1> HIDE DEF w
<1>3. /\ shell' \in ShellRecord /\ shell'.inbox = shell.inbox /\ shell'.wire = w
      /\ shell'.row = shell.row /\ shell'.stage = shell.stage
  <2>1. shell' = [shell EXCEPT !.wire = w]
    BY DEF w
  <2> HIDE DEF ShellItem
  <2> QED
    BY <1>1, <1>2, <2>1 DEF ShellRecord
<1>4. RowInv'
  BY <1>3 DEF IInv, RowInv
<1>5. \A i \in 1..Len(w), t \in Threads : Brings(w[i], t) => Created(t)
  <2> SUFFICES ASSUME NEW i \in 1..Len(w), NEW t \in Threads, Brings(w[i], t)
               PROVE  Created(t)
    OBVIOUS
  <2>1. PICK k \in 1..Len(shell.wire) : w[i] = shell.wire[k]
    BY <1>2
  <2>2. Brings(shell.wire[k], t)
    BY <2>1
  <2> QED
    BY <2>2 DEF IInv, KnownInv
<1>6. ASSUME NEW t \in Threads, NEW i \in Nat, NEW k, k = i + 1 \/ k = i, Over(t, k)
      PROVE  Over(t, i)'
  <2>1. Deleted(t)' /\ ~ Reading(t)'
    BY <1>3, <1>6, SameLog DEF Over, Reading
  <2>2. ASSUME NEW j \in 1..Len(w), j > i PROVE ~ Brings(w[j], t)
    <3>1. w[j] = shell.wire[j + 1] /\ j + 1 \in 1..Len(shell.wire) /\ j + 1 > k
      BY <1>2, <1>6, <2>2
    <3>2. ~ Brings(shell.wire[j + 1], t)
      BY <1>6, <3>1 DEF Over
    <3> QED
      BY <3>1, <3>2
  <2> QED
    BY <1>3, <2>1, <2>2 DEF Over, Brings
<1>7. WireInv'
  <2> SUFFICES ASSUME NEW i \in 1..Len(w)
               PROVE  /\ w[i].kind # "snapshot"
                      /\ \A t \in Threads :
                           w[i].kind = "removed" /\ t = w[i].thread => Over(t, i)'
    BY <1>3 DEF WireInv
  <2>1. PICK k \in 1..Len(shell.wire) : k = i + 1 /\ w[i] = shell.wire[k]
    BY <1>2
  <2>2. w[i].kind # "snapshot"
    BY <1>2, <2>1 DEF IInv, WireInv
  <2>3. ASSUME NEW t \in Threads, w[i].kind = "removed", t = w[i].thread
        PROVE  Over(t, i)'
    <3>1. Over(t, k)
      BY <2>1, <2>3 DEF IInv, WireInv
    <3> QED
      BY <1>2, <1>6, <2>1, <3>1
  <2> QED
    BY <2>2, <2>3
<1>8. \A t \in Threads : Over(t, 0) \/ Over(t, 1) => Over(t, 0)'
  BY <1>6
<1> QED
  BY <1>3, <1>4, <1>5, <1>7, <1>8

LEMMA DeliverShellKeeps ==
  ASSUME IInv, DeliverShell
  PROVE  IInv'
<1> DEFINE item == Head(shell.wire)
<1>1. /\ shell.wire # <<>> /\ shell' = [shell EXCEPT !.wire = Tail(@)]
      /\ UNCHANGED <<log, published, faults>>
      /\ \/ item.kind = "snapshot" /\ TakeShellSnapshot(item.rows)
         \/ item.kind = "upserted" /\ TakeUpserted(item.thread, item.row)
         \/ item.kind = "removed" /\ TakeRemoved(item.thread)
  BY DEF DeliverShell, server, budget
<1>2. /\ shell' \in ShellRecord /\ shell'.inbox = shell.inbox
      /\ RowInv' /\ WireInv'
      /\ \A i \in 1..Len(shell'.wire), t \in Threads :
           Brings(shell'.wire[i], t) => Created(t)
      /\ \A t \in Threads : Over(t, 0) \/ Over(t, 1) => Over(t, 0)'
  BY <1>1, WireMovesUp
<1>3. item \in ShellItem /\ 1 \in 1..Len(shell.wire) /\ item = shell.wire[1]
  BY <1>1, ShellTyped DEF IInv
<1> HIDE DEF item
<1>4. \A t \in Threads : Brings(item, t) => Created(t) /\ t \notin gone
  <2>1. \A t \in Threads : Brings(item, t) => Created(t)
    BY <1>3 DEF IInv, KnownInv
  <2>2. \A t \in Threads : Over(t, 0) => ~ Brings(item, t)
    BY <1>3 DEF Over
  <2> QED
    BY <2>1, <2>2 DEF IInv, GoneInv
<1>5. /\ Subscriptions(detail) /\ gone \subseteq Threads
      /\ DOMAIN shown = Threads /\ DOMAIN summary = Threads
      /\ \A t \in Threads : shown[t] # None \/ detail[t].stage # "none" => Created(t)
      /\ \A t \in Threads : faults = 0 /\ detail[t].stage = "ended" => Deleted(t)
      /\ \A t \in Threads : detail[t].stage = "none" => detail[t].wire = <<>>
      /\ \A t \in gone : Hidden(t) /\ summary[t] = None /\ Over(t, 0)
  BY DEF IInv, Shape, KnownInv, QuietInv, GoneInv
\* What is left to show, whatever the item.
<1>6. ASSUME Subscriptions(detail'), DOMAIN shown' = Threads, DOMAIN summary' = Threads,
             gone' \subseteq Threads,
             \A t \in Threads :
               /\ detail'[t] # detail[t] => detail'[t].stage = "none" /\ detail'[t].wire = <<>>
               /\ shown'[t] # None => Created(t)
               /\ t \in gone' => /\ shown'[t] = None /\ detail'[t].stage = "none"
                                 /\ summary'[t] = None /\ (Over(t, 0) \/ Over(t, 1))
      PROVE  IInv'
  <2>1. Shape'
    BY <1>1, <1>2, <1>6 DEF IInv, Shape
  <2>2. QuietInv'
    BY <1>5, <1>6 DEF QuietInv
  <2>3. KnownInv'
    <3>1. \A t \in Threads : shown'[t] # None \/ detail'[t].stage # "none" => Created(t)
      BY <1>5, <1>6
    <3>2. \A t \in Threads : faults = 0 /\ detail'[t].stage = "ended" => Deleted(t)
      BY <1>5, <1>6
    <3> QED
      BY <1>1, <1>2, <3>1, <3>2, SameLog DEF IInv, KnownInv, Brings
  <2>4. GoneInv'
    BY <1>2, <1>6 DEF GoneInv, Hidden
  <2> QED
    BY <1>2, <2>1, <2>2, <2>3, <2>4 DEF IInv
<1>7. CASE item.kind = "snapshot"
  <2> DEFINE rows == item.rows
             absent == {t \in Threads : rows[t] = None}
  <2>1. rows \in Rows
    BY <1>3, <1>7, ItemTyped
  <2>2. /\ shown' = rows /\ summary' = rows /\ detail' = Disposed(absent)
        /\ gone' = gone \cup {t \in absent : shown[t] # None}
    BY <1>1, <1>7 DEF TakeShellSnapshot
  <2>3. \A t \in Threads : rows[t] # None => Created(t) /\ t \notin gone
    BY <1>4, <1>7 DEF Brings
  <2>4. \A t \in absent : Hidden(t) \/ Over(t, 1)
    BY <1>3, <1>7 DEF IInv, WireInv
  <2>5. absent \in SUBSET Threads
    OBVIOUS
  <2>6. /\ Subscriptions(detail')
        /\ \A t \in absent : detail'[t].stage = "none" /\ detail'[t].wire = <<>>
        /\ \A t \in Threads \ absent : detail'[t] = detail[t]
    <3> HIDE DEF absent
    <3> QED
      BY <1>5, <2>2, <2>5, DisposedTyped
  <2>7. DOMAIN rows = Threads
    BY <2>1 DEF Rows
  <2>8. \A t \in gone' : t \in absent /\ (Over(t, 0) \/ Over(t, 1))
    BY <1>5, <2>2, <2>3, <2>4 DEF Hidden
  <2>9. \A t \in absent : rows[t] = None
    OBVIOUS
  <2>10. \A t \in Threads :
           /\ detail'[t] # detail[t] => detail'[t].stage = "none" /\ detail'[t].wire = <<>>
           /\ shown'[t] # None => Created(t)
           /\ t \in gone' => /\ shown'[t] = None /\ detail'[t].stage = "none"
                             /\ summary'[t] = None /\ (Over(t, 0) \/ Over(t, 1))
    <3> HIDE DEF absent, rows
    <3>1. \A t \in Threads :
            detail'[t] # detail[t] => detail'[t].stage = "none" /\ detail'[t].wire = <<>>
      BY <2>6
    <3>2. \A t \in Threads : shown'[t] # None => Created(t)
      BY <2>2, <2>3
    <3>3. \A t \in Threads : t \in gone' =>
            shown'[t] = None /\ detail'[t].stage = "none" /\ summary'[t] = None
      BY <2>2, <2>6, <2>8, <2>9
    <3>4. \A t \in Threads : t \in gone' => Over(t, 0) \/ Over(t, 1)
      BY <2>8
    <3> QED
      BY <3>1, <3>2, <3>3, <3>4
  <2>11. gone' \subseteq Threads /\ DOMAIN shown' = Threads /\ DOMAIN summary' = Threads
    BY <1>5, <2>2, <2>7
  <2> QED
    BY <1>6, <2>6, <2>10, <2>11
<1>8. CASE item.kind = "upserted"
  <2> DEFINE t == item.thread
  <2>1. t \in Threads /\ Created(t) /\ t \notin gone
    BY <1>3, <1>4, <1>8, ItemTyped DEF Brings
  <2>2. /\ shown' = [shown EXCEPT ![t] = item.row] /\ summary' = [summary EXCEPT ![t] = item.row]
        /\ UNCHANGED <<gone, detail>>
    BY <1>1, <1>8 DEF TakeUpserted
  <2> HIDE DEF t
  <2>3. \A u \in Threads :
          /\ detail'[u] = detail[u]
          /\ shown'[u] # None => Created(u)
          /\ u \in gone' => /\ shown'[u] = None /\ detail'[u].stage = "none"
                            /\ summary'[u] = None /\ Over(u, 0)
    BY <1>5, <2>1, <2>2 DEF Hidden
  <2>4. /\ gone' \subseteq Threads /\ DOMAIN shown' = Threads /\ DOMAIN summary' = Threads
        /\ Subscriptions(detail')
    BY <1>5, <2>2
  <2> QED
    BY <1>6, <2>3, <2>4
<1>9. CASE item.kind = "removed"
  <2> DEFINE t == item.thread
  <2>1. t \in Threads /\ Over(t, 1)
    BY <1>3, <1>9, ItemTyped DEF IInv, WireInv
  <2>2. /\ shown' = [shown EXCEPT ![t] = None] /\ summary' = [summary EXCEPT ![t] = None]
        /\ gone' = gone \cup {t} /\ detail' = Disposed({t})
    BY <1>1, <1>9 DEF TakeRemoved
  <2> HIDE DEF t
  <2>3. /\ Subscriptions(detail')
        /\ \A u \in {t} : detail'[u].stage = "none" /\ detail'[u].wire = <<>>
        /\ \A u \in Threads \ {t} : detail'[u] = detail[u]
    <3>1. {t} \in SUBSET Threads
      BY <2>1
    <3> QED
      BY <1>5, <2>2, <3>1, DisposedTyped
  <2>4. \A u \in Threads :
          /\ detail'[u] # detail[u] => detail'[u].stage = "none" /\ detail'[u].wire = <<>>
          /\ shown'[u] # None => Created(u)
    <3>1. \A u \in Threads :
            detail'[u] # detail[u] => detail'[u].stage = "none" /\ detail'[u].wire = <<>>
      BY <2>3
    <3>2. \A u \in Threads : shown'[u] # None => shown[u] # None
      BY <1>5, <2>1, <2>2
    <3> QED
      BY <1>5, <3>1, <3>2
  <2>5. \A u \in Threads :
          u \in gone' => /\ shown'[u] = None /\ detail'[u].stage = "none"
                         /\ summary'[u] = None /\ (Over(u, 0) \/ Over(u, 1))
    BY <1>5, <2>1, <2>2, <2>3 DEF Hidden
  <2>6. gone' \subseteq Threads /\ DOMAIN shown' = Threads /\ DOMAIN summary' = Threads
    BY <1>5, <2>1, <2>2
  <2> QED
    BY <1>6, <2>3, <2>4, <2>5, <2>6
<1> QED
  BY <1>1, <1>7, <1>8, <1>9

-----------------------------------------------------------------------------
(* The connection.                                                         *)

LEMMA ResubscribedKeeps ==
  ASSUME IInv, Disconnect \/ Restart
  PROVE  IInv'
<1>1. /\ shell' = IF shell.stage = "ended" THEN shell ELSE ShellAsked
      /\ detail' = [t \in Threads |->
                      IF detail[t].stage \in {"none", "ended"} THEN detail[t] ELSE DetailAsked]
      /\ published' = published \/ published' = Len(log)
      /\ UNCHANGED <<log, shown, summary, gone, faults>>
  BY DEF Disconnect, Restart, Resubscribed, server, store
<1>2. /\ log \in Seq(Event) /\ published \in 0..Len(log) /\ shell \in ShellRecord
      /\ \A i \in 1..Len(shell.inbox) : shell.inbox[i] \in 1..published
  BY DEF IInv, Shape
<1>3. /\ ShellAsked \in ShellRecord /\ ShellAsked.inbox = <<>>
      /\ ShellAsked.row = 0 /\ ShellAsked.wire = <<>>
  BY DEF ShellAsked, ShellRecord
<1>4. Subscriptions(detail')
  <2>1. PICK S0 : detail \in [Threads -> DetailRecord(S0)]
    BY DEF IInv, Shape, Subscriptions
  <2>2. PICK S : DetailAsked \in DetailRecord(S)
    BY NewSubscription
  <2>3. DetailRecord(S) \subseteq DetailRecord(S \cup S0)
        /\ DetailRecord(S0) \subseteq DetailRecord(S \cup S0)
    BY DEF DetailRecord
  <2>4. detail' \in [Threads -> DetailRecord(S \cup S0)]
    BY <1>1, <2>1, <2>2, <2>3
  <2> QED
    BY <2>4 DEF Subscriptions
<1>5. \A t \in Threads :
        /\ detail'[t].stage = "none" <=> detail[t].stage = "none"
        /\ detail'[t].stage = "none" => detail'[t].wire = detail[t].wire
        /\ detail'[t].stage = "ended" => detail[t].stage = "ended"
  BY <1>1, NewStages
<1>6. /\ shell' \in ShellRecord
      /\ \A i \in 1..Len(shell'.inbox) : shell'.inbox[i] \in 1..published'
  <2>1. CASE shell' = shell
    BY <1>1, <1>2, <2>1
  <2>2. CASE shell' = ShellAsked
    BY <1>3, <2>2
  <2> QED
    BY <1>1, <2>1, <2>2
<1>7. Shape'
  BY <1>1, <1>2, <1>4, <1>6 DEF IInv, Shape
<1>8. RowInv' /\ QuietInv'
  BY <1>1, <1>3, <1>5 DEF IInv, RowInv, QuietInv
<1>9. KnownInv'
  <2>1. \A i \in 1..Len(shell'.wire), t \in Threads : Brings(shell'.wire[i], t) => Created(t)
    BY <1>1, <1>3 DEF IInv, KnownInv
  <2> QED
    BY <1>1, <1>5, <2>1, SameLog DEF IInv, KnownInv, Brings
<1>10. \A t \in Threads : Hidden(t) => Hidden(t)'
  BY <1>1, <1>5 DEF Hidden
<1>11. \A t \in Threads : \A i : Over(t, i) => Over(t, i)'
  BY <1>1, <1>3, SameLog DEF Over, Reading
<1>12. WireInv'
  <2>1. CASE shell' = shell
    BY <1>10, <1>11, <2>1, WireStays
  <2>2. CASE shell' = ShellAsked
    BY <1>3, <2>2 DEF WireInv
  <2> QED
    BY <1>1, <2>1, <2>2
<1>13. GoneInv'
  BY <1>1, <1>10, <1>11, GoneStays
<1> QED
  BY <1>7, <1>8, <1>9, <1>12, <1>13 DEF IInv

-----------------------------------------------------------------------------
(* Types.                                                                  *)

ShellType(n) ==
  [stage : {"asked", "read", "live", "ended"}, inbox : Seq(1..n), row : Nat,
   wire : Seq(ShellItem), at : Nat, joined : Nat, lost : SUBSET Nat]
DetailType ==
  [stage : {"none", "asked", "thread", "messages", "read", "live", "ended"},
   title : Nat, text : Seq(Nat), wire : Seq(DetailItem),
   titleAt : Nat, textAt : Nat, sessionAt : Nat, joined : Nat]

StoreTypes ==
  /\ shown \in Rows /\ summary \in Rows /\ text \in [Threads -> Seq(Nat)]
  /\ gone \subseteq Threads /\ byDetail \subseteq Threads
BudgetTypes == opens \in Nat /\ faults \in Nat /\ trouble \in Nat

LEMMA TypeParts ==
  TypeOK <=> /\ log \in Seq(Event) /\ published \in 0..Len(log)
             /\ shell \in ShellType(Len(log)) /\ detail \in [Threads -> DetailType]
             /\ StoreTypes /\ BudgetTypes
BY DEF TypeOK, ShellType, DetailType, StoreTypes, BudgetTypes

LEMMA TypePartsNext ==
  /\ log' \in Seq(Event) /\ published' \in 0..Len(log')
  /\ shell' \in ShellType(Len(log')) /\ detail' \in [Threads -> DetailType]
  /\ StoreTypes' /\ BudgetTypes'
  => TypeOK'
BY DEF TypeOK, ShellType, DetailType, StoreTypes, BudgetTypes

LEMMA LengthTyped == TypeOK => Len(log) \in Nat /\ published \in Nat
<1>1. TypeOK => log \in Seq(Event) /\ published \in 0..Len(log)
  BY DEF TypeOK
<1> QED BY <1>1

LEMMA FreshTyped ==
  /\ \A n \in Nat : ShellAsked \in ShellType(n)
  /\ NotSubscribed \in DetailType /\ DetailAsked \in DetailType
  /\ [NotSubscribed EXCEPT !.stage = "ended"] \in DetailType
<1>1. \A n \in Nat : ShellAsked \in ShellType(n)
  BY DEF ShellAsked, ShellType
<1>2. NotSubscribed \in DetailType
  BY DEF NotSubscribed, DetailType
<1>3. DetailAsked \in DetailType /\ [NotSubscribed EXCEPT !.stage = "ended"] \in DetailType
  <2> HIDE DEF DetailItem
  <2> QED BY <1>2 DEF DetailAsked, DetailType
<1> QED BY <1>1, <1>2, <1>3

\* The first of a non-empty sequence and the rest of it.
LEMMA HeadAndTail ==
  ASSUME NEW S, NEW s \in Seq(S), s # <<>>
  PROVE  Head(s) \in S /\ Tail(s) \in Seq(S)
OBVIOUS

LEMMA EngineTyped ==
  ASSUME TypeOK, Publish \/ \E e \in Event : Store(e)
  PROVE  TypeOK'
<1>0. /\ log \in Seq(Event) /\ published \in 0..Len(log) /\ Len(log) \in Nat
      /\ shell \in ShellType(Len(log)) /\ detail \in [Threads -> DetailType]
      /\ StoreTypes /\ BudgetTypes
  BY TypeParts, LengthTyped
<1>1. CASE \E e \in Event : Store(e)
  <2>1. PICK e \in Event : log' = Append(log, e)
    BY <1>1 DEF Store
  <2>2. UNCHANGED <<published, shell, detail, store, budget>>
    BY <1>1 DEF Store
  <2>3. log' \in Seq(Event) /\ Len(log') = Len(log) + 1 /\ published \in 0..Len(log')
    BY <1>0, <2>1
  <2>4. ShellType(Len(log)) \subseteq ShellType(Len(log'))
    <3>1. Seq(1..Len(log)) \subseteq Seq(1..Len(log'))
      <4>1. \A i \in 1..Len(log) : i \in 1..Len(log')
        BY <1>0, <2>3
      <4>2. ASSUME NEW s \in Seq(1..Len(log)) PROVE s \in Seq(1..Len(log'))
        <5>1. Len(s) \in Nat /\ s \in [1..Len(s) -> 1..Len(log')]
          BY <4>1
        <5> QED BY <5>1
      <4> QED BY <4>2
    <3> HIDE DEF ShellItem
    <3> QED BY <3>1 DEF ShellType
  <2>5. StoreTypes' /\ BudgetTypes'
    BY <1>0, <2>2 DEF StoreTypes, BudgetTypes, store, budget
  <2>6. shell' \in ShellType(Len(log')) /\ detail' \in [Threads -> DetailType]
        /\ published' \in 0..Len(log')
    BY <1>0, <2>2, <2>3, <2>4
  <2> QED BY <2>3, <2>5, <2>6, TypePartsNext
<1>2. CASE Publish
  <2> DEFINE n == published + 1
             t == log[n].thread
             item == [kind |-> "event", sequence |-> n]
  <2>1. /\ n \in 1..Len(log) /\ published' = n /\ UNCHANGED <<log, store, budget>>
        /\ shell' = shell \/ shell' = [shell EXCEPT !.inbox = Append(@, n)]
        /\ \/ detail' = detail
           \/ detail' = [detail EXCEPT ![t].wire = Append(@, item)]
    BY <1>0, <1>2 DEF Publish
  <2>2. item \in DetailItem
    <3>1. n \in Nat
      BY <2>1
    <3> HIDE DEF n
    <3> QED BY <3>1 DEF DetailItem
  <2>3. t \in Threads
    <3>1. log[n] \in Event
      BY <1>0, <2>1
    <3> QED BY <3>1 DEF Event
  <2> HIDE DEF n, t, item
  <2>4. shell' \in ShellType(Len(log))
    <3> HIDE DEF ShellItem
    <3>1. Append(shell.inbox, n) \in Seq(1..Len(log))
      BY <1>0, <2>1 DEF ShellType
    <3> QED BY <1>0, <2>1, <3>1 DEF ShellType
  <2>5. detail' \in [Threads -> DetailType]
    <3> DEFINE w == Append(detail[t].wire, item)
               d == [detail[t] EXCEPT !.wire = w]
    <3>1. detail[t] \in DetailType
      BY <1>0, <2>3
    <3>2. detail[t].wire \in Seq(DetailItem)
      BY <3>1 DEF DetailType
    <3>3. w \in Seq(DetailItem)
      BY <2>2, <3>2
    <3>4. detail' = detail \/ detail' = [detail EXCEPT ![t] = d]
      BY <2>1
    <3> HIDE DEF w
    <3>5. d \in DetailType
      BY <3>1, <3>3 DEF DetailType
    <3> QED BY <1>0, <3>4, <3>5
  <2>6. StoreTypes' /\ BudgetTypes'
    BY <1>0, <2>1 DEF StoreTypes, BudgetTypes, store, budget
  <2>7. published' \in 0..Len(log)
    BY <1>0, <2>1
  <2> QED BY <1>0, <2>1, <2>4, <2>5, <2>6, <2>7, TypePartsNext
<1> QED BY <1>1, <1>2

\* A step of the shell stream or of a failure in it.
LEMMA ShellStepTyped ==
  ASSUME TypeOK, ServeShell \/ ShellReadFails \/ ShellSnapshotFails
  PROVE  TypeOK'
<1> DEFINE n == Len(log)
<1>0. /\ log \in Seq(Event) /\ published \in 0..n /\ n \in Nat
      /\ shell \in ShellType(n) /\ detail \in [Threads -> DetailType]
      /\ StoreTypes /\ BudgetTypes
  BY TypeParts, LengthTyped
<1>1. /\ UNCHANGED <<log, published, detail, store, opens>>
      /\ faults' \in {faults, faults + 1} /\ trouble' \in {trouble, trouble + 1}
  BY DEF ServeShell, ReadShellSnapshot, JoinShell, MapDeletion, ReadThreadRow, ReadSessionRow,
         ShellReadFails, ShellSnapshotFails, Trouble, server, budget
<1>2. ASSUME shell.inbox # <<>>
      PROVE  /\ Head(shell.inbox) \in 1..n /\ Tail(shell.inbox) \in Seq(1..n)
             /\ log[Head(shell.inbox)] \in Event /\ log[Head(shell.inbox)].thread \in Threads
  <2>1. shell.inbox \in Seq(1..n)
    BY <1>0 DEF ShellType
  <2>2. Head(shell.inbox) \in 1..n /\ Tail(shell.inbox) \in Seq(1..n)
    BY <1>2, <2>1, HeadAndTail
  <2>3. log[Head(shell.inbox)] \in Event
    BY <1>0, <2>2
  <2> QED BY <2>2, <2>3 DEF Event
<1>3. \A t : TitleOf(t) \in Nat /\ SessionOf(t) \in Nat
  BY <1>0, NoTitle
<1>4. \A item \in ShellItem : /\ <<item>> \in Seq(ShellItem)
                              /\ Append(shell.wire, item) \in Seq(ShellItem)
  <2>1. shell.wire \in Seq(ShellItem)
    BY <1>0 DEF ShellType
  <2> QED BY <2>1
<1>5. shell' \in ShellType(n)
  <2>1. CASE ReadShellSnapshot
    <3> DEFINE item == [kind |-> "snapshot", rows |-> [t \in Threads |-> RowOf(t)]]
               w == <<item>>
    <3>1. item \in ShellItem
      BY <1>0, RowsTyped DEF ShellItem
    <3> HIDE DEF item
    <3>2. w \in Seq(ShellItem)
      BY <1>4, <3>1
    <3>3. shell' = [shell EXCEPT !.stage = "read", !.at = n, !.wire = w]
      BY <2>1 DEF ReadShellSnapshot, item
    <3> HIDE DEF n, w, ShellItem
    <3> QED BY <1>0, <3>2, <3>3 DEF ShellType
  <2>2. CASE JoinShell
    <3>1. shell' = [shell EXCEPT !.stage = "live", !.joined = published]
      BY <2>2 DEF JoinShell
    <3>2. published \in Nat
      BY LengthTyped
    <3> HIDE DEF n, ShellItem
    <3> QED BY <1>0, <3>1, <3>2 DEF ShellType
  <2>3. CASE MapDeletion
    <3> DEFINE item == [kind |-> "removed", thread |-> log[Head(shell.inbox)].thread]
               w == Append(shell.wire, item)
    <3>1. item \in ShellItem
      BY <1>2, <2>3 DEF MapDeletion, HasShellEvent, ShellItem
    <3>2. w \in Seq(ShellItem)
      BY <1>4, <3>1
    <3>3. /\ shell' = [shell EXCEPT !.inbox = Tail(@), !.wire = w] /\ shell.inbox # <<>>
      BY <2>3 DEF MapDeletion, HasShellEvent
    <3> HIDE DEF n, w, ShellItem
    <3> QED BY <1>0, <1>2, <3>2, <3>3 DEF ShellType
  <2>4. CASE ReadThreadRow
    <3>1. /\ shell.inbox # <<>>
          /\ \/ shell' = [shell EXCEPT !.inbox = Tail(@)]
             \/ \E row \in Nat : shell' = [shell EXCEPT !.row = row]
      BY <1>3, <2>4 DEF ReadThreadRow, HasShellEvent
    <3>2. Tail(shell.inbox) \in Seq(1..n)
      BY <1>2, <3>1
    <3> HIDE DEF n, ShellItem
    <3> QED BY <1>0, <3>1, <3>2 DEF ShellType
  <2>5. CASE ReadSessionRow
    <3> DEFINE t == log[Head(shell.inbox)].thread
               row == [title |-> shell.row, session |-> SessionOf(t)]
               item == [kind |-> "upserted", thread |-> t, row |-> row]
               w == Append(shell.wire, item)
    <3>1. /\ shell.inbox # <<>>
          /\ shell' = [shell EXCEPT !.inbox = Tail(@), !.row = 0, !.wire = w]
      BY <2>5 DEF ReadSessionRow, HasShellEvent
    <3>2. row \in Row
      <4>1. shell.row \in Nat
        BY <1>0 DEF ShellType
      <4> QED BY <1>3, <4>1 DEF Row
    <3>3. t \in Threads
      BY <1>2, <3>1
    <3> HIDE DEF row, t
    <3>4. w \in Seq(ShellItem)
      <4>1. item \in ShellItem
        BY <3>2, <3>3 DEF ShellItem
      <4> HIDE DEF item
      <4> QED BY <1>4, <4>1
    <3> HIDE DEF n, w, ShellItem
    <3> QED BY <1>0, <1>2, <3>1, <3>4 DEF ShellType
  <2>6. CASE ShellReadFails
    <3>1. /\ shell.inbox # <<>>
          /\ shell' = [shell EXCEPT !.inbox = Tail(@), !.row = 0,
                                    !.lost = @ \cup {Head(shell.inbox)}]
      BY <2>6 DEF ShellReadFails, HasShellEvent
    <3>2. Head(shell.inbox) \in Nat
      BY <1>2, <3>1
    <3> HIDE DEF n, ShellItem
    <3> QED BY <1>0, <1>2, <3>1, <3>2 DEF ShellType
  <2>7. CASE ShellSnapshotFails
    <3>1. shell' = [shell EXCEPT !.stage = "ended"]
      BY <2>7 DEF ShellSnapshotFails
    <3> HIDE DEF n, ShellItem
    <3> QED BY <1>0, <3>1 DEF ShellType
  <2> QED BY <2>1, <2>2, <2>3, <2>4, <2>5, <2>6, <2>7 DEF ServeShell
<1>6. StoreTypes' /\ BudgetTypes'
  BY <1>0, <1>1 DEF StoreTypes, BudgetTypes, store
<1> QED BY <1>0, <1>1, <1>5, <1>6, TypePartsNext

\* A step of a detail stream, or one of the client's that opens or closes it.
LEMMA DetailStepTyped ==
  ASSUME TypeOK, NEW t \in Threads,
         ServeDetail(t) \/ DetailReadFails(t) \/ Open(t) \/ Close(t)
  PROVE  TypeOK'
<1>0. /\ log \in Seq(Event) /\ published \in 0..Len(log) /\ Len(log) \in Nat
      /\ shell \in ShellType(Len(log)) /\ detail \in [Threads -> DetailType]
      /\ StoreTypes /\ BudgetTypes
  BY TypeParts, LengthTyped
<1>1. /\ UNCHANGED <<log, published, shell, store>> /\ opens' \in {opens, opens + 1}
      /\ faults' \in {faults, faults + 1} /\ trouble' \in {trouble, trouble + 1}
  BY DEF ServeDetail, ReadDetailThread, ReadDetailMessages, ReadDetailSession, JoinDetail,
         DetailReadFails, Open, Close, Trouble, server, budget
<1>2. /\ detail[t] \in DetailType /\ TitleOf(t) \in Nat /\ SessionOf(t) \in Nat
      /\ MessagesOf(t) \in Seq(Nat) /\ published \in Nat
  BY <1>0, NoTitle, MessagesTyped DEF MessagesOf
<1>3. \E d \in DetailType : detail' = [detail EXCEPT ![t] = d]
  <2>1. CASE ReadDetailThread(t)
    <3> DEFINE d == [detail[t] EXCEPT !.stage = "thread", !.title = TitleOf(t),
                                      !.titleAt = Len(log)]
    <3>1. \/ detail' = [detail EXCEPT ![t] = d]
          \/ detail' = [detail EXCEPT ![t] = [NotSubscribed EXCEPT !.stage = "ended"]]
      BY <2>1 DEF ReadDetailThread
    <3>2. d \in DetailType
      <4> HIDE DEF DetailItem
      <4> QED BY <1>0, <1>2 DEF DetailType
    <3> QED BY <3>1, <3>2, FreshTyped
  <2>2. CASE ReadDetailMessages(t)
    <3> DEFINE d == [detail[t] EXCEPT !.stage = "messages", !.text = MessagesOf(t),
                                      !.textAt = Len(log)]
    <3>1. detail' = [detail EXCEPT ![t] = d]
      BY <2>2 DEF ReadDetailMessages
    <3>2. d \in DetailType
      BY <1>0, <1>2 DEF DetailType
    <3> QED BY <3>1, <3>2
  <2>3. CASE ReadDetailSession(t)
    <3> DEFINE row == [title |-> detail[t].title, session |-> SessionOf(t)]
               item == [kind |-> "snapshot", row |-> row, text |-> detail[t].text]
               w == <<item>>
               d == [detail[t] EXCEPT !.stage = "read", !.sessionAt = Len(log),
                                      !.title = 0, !.text = <<>>, !.wire = w]
    <3>1. detail' = [detail EXCEPT ![t] = d]
      BY <2>3 DEF ReadDetailSession
    <3>2. row \in Row /\ detail[t].text \in Seq(Nat)
      BY <1>2 DEF DetailType, Row
    <3> HIDE DEF row
    <3>3. item \in DetailItem
      BY <3>2 DEF DetailItem
    <3> HIDE DEF item
    <3>4. w \in Seq(DetailItem) /\ <<>> \in Seq(Nat)
      BY <3>3
    <3> HIDE DEF w
    <3>5. d \in DetailType
      BY <1>0, <1>2, <3>4 DEF DetailType
    <3> QED BY <3>1, <3>5
  <2>4. CASE JoinDetail(t)
    <3> DEFINE d == [detail[t] EXCEPT !.stage = "live", !.joined = published]
    <3>1. detail' = [detail EXCEPT ![t] = d]
      BY <2>4 DEF JoinDetail
    <3>2. d \in DetailType
      BY <1>0, <1>2 DEF DetailType
    <3> QED BY <3>1, <3>2
  <2>5. CASE DetailReadFails(t)
    BY <2>5, FreshTyped DEF DetailReadFails
  <2>6. CASE Open(t)
    BY <2>6, FreshTyped DEF Open
  <2>7. CASE Close(t)
    <3>1. detail' = [detail EXCEPT ![t] = NotSubscribed]
      BY <1>0, <2>7 DEF Close, Disposed
    <3> QED BY <3>1, FreshTyped
  <2> QED BY <2>1, <2>2, <2>3, <2>4, <2>5, <2>6, <2>7 DEF ServeDetail
<1>4. detail' \in [Threads -> DetailType]
  BY <1>0, <1>3
<1>5. StoreTypes' /\ BudgetTypes'
  BY <1>0, <1>1 DEF StoreTypes, BudgetTypes, store
<1> QED BY <1>0, <1>1, <1>4, <1>5, TypePartsNext

LEMMA DisposedIsTyped ==
  ASSUME detail \in [Threads -> DetailType], NEW ts
  PROVE  Disposed(ts) \in [Threads -> DetailType]
BY FreshTyped DEF Disposed

LEMMA DeliverShellTyped ==
  ASSUME TypeOK, DeliverShell
  PROVE  TypeOK'
<1> DEFINE item == Head(shell.wire)
<1>0. /\ log \in Seq(Event) /\ published \in 0..Len(log)
      /\ shell \in ShellType(Len(log)) /\ detail \in [Threads -> DetailType]
      /\ StoreTypes /\ BudgetTypes
  BY TypeParts
<1>1. /\ shell.wire # <<>> /\ shell' = [shell EXCEPT !.wire = Tail(@)]
      /\ UNCHANGED <<log, published, budget>>
      /\ \/ item.kind = "snapshot" /\ TakeShellSnapshot(item.rows)
         \/ item.kind = "upserted" /\ TakeUpserted(item.thread, item.row)
         \/ item.kind = "removed" /\ TakeRemoved(item.thread)
  BY DEF DeliverShell, server
<1>2. item \in ShellItem /\ Tail(shell.wire) \in Seq(ShellItem)
  <2>1. shell.wire \in Seq(ShellItem)
    BY <1>0 DEF ShellType
  <2> QED BY <1>1, <2>1, HeadAndTail
<1> HIDE DEF item
<1>3. shell' \in ShellType(Len(log))
  <2> HIDE DEF ShellItem
  <2> QED BY <1>0, <1>1, <1>2 DEF ShellType
<1>4. /\ shown \in Rows /\ summary \in Rows /\ text \in [Threads -> Seq(Nat)]
      /\ gone \subseteq Threads /\ byDetail \subseteq Threads /\ <<>> \in Seq(Nat)
  BY <1>0 DEF StoreTypes
<1>5. StoreTypes' /\ detail' \in [Threads -> DetailType]
  <2>1. CASE item.kind = "snapshot"
    <3>1. item.rows \in Rows /\ TakeShellSnapshot(item.rows)
      BY <1>1, <1>2, <2>1, ItemTyped
    <3>2. shown' \in Rows /\ summary' \in Rows /\ gone' \subseteq Threads
          /\ byDetail' \subseteq Threads
      BY <1>4, <3>1 DEF TakeShellSnapshot
    <3>3. text' \in [Threads -> Seq(Nat)]
      BY <1>4, <3>1 DEF TakeShellSnapshot
    <3>4. detail' \in [Threads -> DetailType]
      BY <1>0, <3>1, DisposedIsTyped DEF TakeShellSnapshot
    <3> QED BY <3>2, <3>3, <3>4 DEF StoreTypes
  <2>2. CASE item.kind = "upserted"
    <3>1. /\ item.thread \in Threads /\ item.row \in Row
          /\ TakeUpserted(item.thread, item.row)
      BY <1>1, <1>2, <2>2, ItemTyped
    <3>2. shown' \in Rows /\ summary' \in Rows
      BY <1>4, <3>1 DEF TakeUpserted, Rows
    <3> QED BY <1>0, <1>4, <3>1, <3>2 DEF TakeUpserted, StoreTypes
  <2>3. CASE item.kind = "removed"
    <3>1. item.thread \in Threads /\ TakeRemoved(item.thread)
      BY <1>1, <1>2, <2>3, ItemTyped
    <3>2. shown' \in Rows /\ summary' \in Rows
      BY <1>4, <3>1 DEF TakeRemoved, Rows
    <3>3. /\ text' \in [Threads -> Seq(Nat)] /\ gone' \subseteq Threads
          /\ byDetail' \subseteq Threads
      BY <1>4, <3>1 DEF TakeRemoved
    <3>4. detail' \in [Threads -> DetailType]
      BY <1>0, <3>1, DisposedIsTyped DEF TakeRemoved
    <3> QED BY <3>2, <3>3, <3>4 DEF StoreTypes
  <2> QED BY <1>1, <2>1, <2>2, <2>3
<1>6. BudgetTypes'
  BY <1>0, <1>1 DEF BudgetTypes, budget
<1> QED BY <1>0, <1>1, <1>3, <1>5, <1>6, TypePartsNext

LEMMA DeliverDetailTyped ==
  ASSUME TypeOK, NEW t \in Threads, DeliverDetail(t)
  PROVE  TypeOK'
<1> DEFINE item == Head(detail[t].wire)
           n == item.sequence
<1>0. /\ log \in Seq(Event) /\ published \in 0..Len(log)
      /\ shell \in ShellType(Len(log)) /\ detail \in [Threads -> DetailType]
      /\ StoreTypes /\ BudgetTypes
  BY TypeParts
<1>1. /\ detail[t].wire # <<>> /\ detail' = [detail EXCEPT ![t].wire = Tail(@)]
      /\ UNCHANGED <<log, published, shell, summary, gone, budget>>
      /\ \/ item.kind = "snapshot" /\ TakeDetailSnapshot(t, item.row, item.text)
         \/ item.kind = "event" /\ TakeDetailEvent(t, n)
  BY DEF DeliverDetail, server
<1>2. item \in DetailItem /\ Tail(detail[t].wire) \in Seq(DetailItem)
  <2>1. detail[t].wire \in Seq(DetailItem)
    BY <1>0 DEF DetailType
  <2> QED BY <1>1, <2>1, HeadAndTail
<1> HIDE DEF item
<1>3. detail' \in [Threads -> DetailType]
  <2> DEFINE w == Tail(detail[t].wire)
             d == [detail[t] EXCEPT !.wire = w]
  <2>1. detail[t] \in DetailType /\ w \in Seq(DetailItem)
    BY <1>0, <1>2
  <2>2. detail' = [detail EXCEPT ![t] = d]
    BY <1>1
  <2> HIDE DEF w
  <2>3. d \in DetailType
    BY <2>1 DEF DetailType
  <2> QED BY <1>0, <2>2, <2>3
<1>4. /\ shown \in Rows /\ summary \in Rows /\ text \in [Threads -> Seq(Nat)]
      /\ gone \subseteq Threads /\ byDetail \subseteq Threads
  BY <1>0 DEF StoreTypes
<1>5. StoreTypes'
  <2>1. CASE item.kind = "snapshot"
    <3>1. item.row \in Row /\ item.text \in Seq(Nat)
      BY <1>2, <2>1 DEF DetailItem
    <3>2. shown' = [shown EXCEPT ![t] = item.row] /\ text' = [text EXCEPT ![t] = item.text]
          /\ byDetail' = byDetail \cup {t}
      BY <1>1, <2>1 DEF TakeDetailSnapshot
    <3>3. shown' \in Rows
      BY <1>4, <3>1, <3>2 DEF Rows
    <3>4. text' \in [Threads -> Seq(Nat)]
      BY <1>4, <3>1, <3>2
    <3> QED BY <1>1, <1>4, <3>2, <3>3, <3>4 DEF StoreTypes
  <2>2. CASE item.kind = "event"
    <3>1. n \in Nat
      BY <1>2, <2>2 DEF DetailItem
    <3>2. /\ \/ shown' = shown
             \/ shown[t] # None /\ shown' = [shown EXCEPT ![t].session = n]
          /\ text' = text \/ text' = [text EXCEPT ![t] = Append(@, n)]
          /\ byDetail' = byDetail \/ byDetail' = byDetail \cup {t}
      BY <1>1, <2>2 DEF TakeDetailEvent
    <3>3. shown' \in Rows
      <4>1. shown[t] # None => [shown[t] EXCEPT !.session = n] \in Row
        BY <1>4, <3>1 DEF Rows, Row
      <4> QED BY <1>4, <3>2, <4>1 DEF Rows
    <3>4. text' \in [Threads -> Seq(Nat)]
      <4>1. Append(text[t], n) \in Seq(Nat)
        BY <1>4, <3>1
      <4> QED BY <1>4, <3>2, <4>1
    <3> QED BY <1>1, <1>4, <3>2, <3>3, <3>4 DEF StoreTypes
  <2> QED BY <1>1, <2>1, <2>2
<1>6. BudgetTypes'
  BY <1>0, <1>1 DEF BudgetTypes, budget
<1> QED BY <1>0, <1>1, <1>3, <1>5, <1>6, TypePartsNext

LEMMA ResubscribedTyped ==
  ASSUME TypeOK, Disconnect \/ Restart
  PROVE  TypeOK'
<1>0. /\ log \in Seq(Event) /\ published \in 0..Len(log) /\ Len(log) \in Nat
      /\ shell \in ShellType(Len(log)) /\ detail \in [Threads -> DetailType]
      /\ StoreTypes /\ BudgetTypes
  BY TypeParts, LengthTyped
<1>1. /\ shell' = IF shell.stage = "ended" THEN shell ELSE ShellAsked
      /\ detail' = [t \in Threads |->
                      IF detail[t].stage \in {"none", "ended"} THEN detail[t] ELSE DetailAsked]
      /\ published' = published \/ published' = Len(log)
      /\ trouble' = trouble + 1
      /\ UNCHANGED <<log, store, opens, faults>>
  BY DEF Disconnect, Restart, Resubscribed, Trouble, server
<1>2. shell' \in ShellType(Len(log)) /\ detail' \in [Threads -> DetailType]
      /\ published' \in 0..Len(log)
  BY <1>0, <1>1, FreshTyped
<1>3. StoreTypes' /\ BudgetTypes'
  BY <1>0, <1>1 DEF StoreTypes, BudgetTypes, store
<1> QED BY <1>0, <1>1, <1>2, <1>3, TypePartsNext

\* However much is said and opened: the two streams, the tables they read and the store
\* they write keep their shapes, the texts included (the schemas of ws.ts and store.ts).
THEOREM TypeCorrect == Spec => []TypeOK
<1>1. Init => TypeOK
  <2> SUFFICES ASSUME Init PROVE TypeOK
    OBVIOUS
  <2>1. /\ log = <<>> /\ published = 0 /\ Len(log) = 0 /\ log \in Seq(Event)
        /\ <<>> \in Seq(Nat)
    BY DEF Init
  <2>2. shell \in ShellType(Len(log)) /\ detail \in [Threads -> DetailType]
    BY <2>1, FreshTyped DEF Init
  <2>3. StoreTypes /\ BudgetTypes
    BY <2>1 DEF Init, StoreTypes, BudgetTypes, Rows
  <2>4. published \in 0..Len(log)
    BY <2>1
  <2> QED BY <2>1, <2>2, <2>3, <2>4, TypeParts
<1>2. TypeOK /\ [Next]_vars => TypeOK'
  <2> SUFFICES ASSUME TypeOK, [Next]_vars PROVE TypeOK'
    OBVIOUS
  <2>1. CASE UNCHANGED vars
    BY <2>1 DEF vars, server, store, budget, TypeOK
  <2>2. CASE Next
    BY <2>2, EngineTyped, ShellStepTyped, DetailStepTyped, DeliverShellTyped,
       DeliverDetailTyped, ResubscribedTyped DEF Next
  <2> QED BY <2>1, <2>2
<1> QED BY <1>1, <1>2, PTL DEF Spec

-----------------------------------------------------------------------------
(* The theorems.                                                           *)

LEMMA ViewsNext == IInv /\ [Next]_vars => IInv'
<1> SUFFICES ASSUME IInv, [Next]_vars PROVE IInv'
  OBVIOUS
<1>1. CASE \E e \in Event : Store(e)
  BY <1>1, StoreKeeps
<1>2. CASE Publish
  BY <1>2, PublishKeeps
<1>3. CASE ServeShell
  BY <1>3, ReadShellSnapshotKeeps, JoinShellKeeps, MapDeletionKeeps, ReadThreadRowKeeps,
     ReadSessionRowKeeps
     DEF ServeShell
<1>4. CASE ShellReadFails \/ ShellSnapshotFails
  BY <1>4, ShellFailureKeeps
<1>5. CASE \E t \in Threads : ServeDetail(t) \/ DetailReadFails(t)
  BY <1>5, ServeDetailKeeps
<1>6. CASE DeliverShell
  BY <1>6, DeliverShellKeeps
<1>7. CASE \E t \in Threads : DeliverDetail(t) \/ Open(t) \/ Close(t)
  BY <1>7, DeliverDetailKeeps, OpenKeeps, CloseKeeps
<1>8. CASE Disconnect \/ Restart
  BY <1>8, ResubscribedKeeps
<1>9. CASE UNCHANGED vars
  <2>1. UNCHANGED <<log, published, shell, detail, shown, summary, gone, faults>>
    BY <1>9 DEF vars, server, store, budget
  <2>2. Shape' /\ RowInv' /\ QuietInv'
    BY <2>1 DEF IInv, Shape, RowInv, QuietInv
  <2>3. KnownInv'
    BY <2>1, SameLog DEF IInv, KnownInv
  <2>4. /\ \A t \in Threads : Hidden(t) => Hidden(t)'
        /\ \A t \in Threads : \A i : Over(t, i) => Over(t, i)'
    BY <2>1, SameLog DEF Hidden, Over, Reading
  <2>5. WireInv' /\ GoneInv'
    BY <2>1, <2>4, WireStays, GoneStays
  <2> QED
    BY <2>2, <2>3, <2>5 DEF IInv
<1> QED
  BY <1>1, <1>2, <1>3, <1>4, <1>5, <1>6, <1>7, <1>8, <1>9 DEF Next

LEMMA Viewing == Spec => []IInv
<1>1. Init => IInv
  BY ViewsInit
<1>2. IInv /\ [Next]_vars => IInv'
  BY ViewsNext
<1> QED
  BY <1>1, <1>2, PTL DEF Spec

\* However many threads, events and losses: the store never shows again a thread it
\* removed, neither in the sidebar nor in the thread's own view (removeThreadState).
THEOREM RemovedIsGone == Spec => []RemovedStaysRemoved
<1>1. IInv => RemovedStaysRemoved
  BY DEF IInv, GoneInv, Hidden, RemovedStaysRemoved
<1> QED
  BY <1>1, Viewing, PTL

\* While no read fails, the client gives up the detail stream of a deleted thread only
\* (the "not found" of subscribeThread, which its retry loop does not retry).
THEOREM GivenUpIsDeleted == Spec => []GivesUpOnDeletedOnly
<1>1. IInv => GivesUpOnDeletedOnly
  BY DEF IInv, KnownInv, GivesUpOnDeletedOnly
<1> QED
  BY <1>1, Viewing, PTL

-----------------------------------------------------------------------------
(* The detail stream on the wire: a snapshot at most, then events in order. *)

Undelivered(w) == w # <<>> /\ w[1].kind = "snapshot"
Pending(w) == {w[i].sequence : i \in {j \in 1..Len(w) : w[j].kind = "event"}}
InOrder(w) ==
  /\ \A i \in 1..Len(w) : w[i].kind = "snapshot" => i = 1
  /\ \A i, j \in 1..Len(w) :
       i < j /\ w[i].kind = "event" /\ w[j].kind = "event" => w[i].sequence < w[j].sequence

LEMMA DetailItemTyped ==
  ASSUME NEW item \in DetailItem
  PROVE  /\ item.kind \in {"snapshot", "event"}
         /\ item.kind = "snapshot" => item.row \in Row /\ item.text \in Seq(Nat)
         /\ item.kind = "event" => item.sequence \in Nat
BY DEF DetailItem

LEMMA PendingTyped ==
  ASSUME NEW w \in Seq(DetailItem)
  PROVE  Pending(w) \subseteq Nat
<1>1. \A i \in 1..Len(w) : w[i] \in DetailItem
  OBVIOUS
<1> QED BY <1>1, DetailItemTyped DEF Pending

LEMMA NothingPending ==
  /\ Pending(<<>>) = {} /\ InOrder(<<>>) /\ ~ Undelivered(<<>>)
  /\ \A item : item.kind = "snapshot" =>
       Pending(<<item>>) = {} /\ InOrder(<<item>>) /\ Undelivered(<<item>>)
<1>1. Len(<<>>) = 0
  OBVIOUS
<1>2. Pending(<<>>) = {} /\ InOrder(<<>>) /\ ~ Undelivered(<<>>)
  BY <1>1 DEF Pending, InOrder, Undelivered
<1>3. ASSUME NEW item, item.kind = "snapshot"
      PROVE  Pending(<<item>>) = {} /\ InOrder(<<item>>) /\ Undelivered(<<item>>)
  <2>1. PICK w : w = <<item>>
    OBVIOUS
  <2>2. Len(w) = 1 /\ w[1] = item /\ w # <<>>
    BY <2>1
  <2>3. \A i \in 1..Len(w) : i = 1 /\ w[i].kind # "event"
    BY <1>3, <2>2
  <2>4. Pending(w) = {} /\ InOrder(w) /\ Undelivered(w)
    BY <1>3, <2>2, <2>3 DEF Pending, InOrder, Undelivered
  <2> QED BY <2>1, <2>4
<1> QED BY <1>2, <1>3

LEMMA PendingAppend ==
  ASSUME NEW w \in Seq(DetailItem), NEW n \in Nat, InOrder(w), \A m \in Pending(w) : m < n,
         NEW u, u = Append(w, [kind |-> "event", sequence |-> n])
  PROVE  /\ Pending(u) = Pending(w) \cup {n}
         /\ InOrder(u)
         /\ Undelivered(u) <=> Undelivered(w)
<1> DEFINE item == [kind |-> "event", sequence |-> n]
<1>0. /\ Len(w) \in Nat /\ (w = <<>> <=> Len(w) = 0)
      /\ item.kind = "event" /\ item.sequence = n
  OBVIOUS
<1> HIDE DEF item
<1>1. /\ Len(u) = Len(w) + 1 /\ u[Len(w) + 1] = item /\ u # <<>>
      /\ \A i \in 1..Len(w) : u[i] = w[i]
  <2>1. u = Append(w, item)
    BY DEF item
  <2> QED BY <2>1
<1>2. 1..Len(u) = 1..Len(w) \cup {Len(w) + 1}
  BY <1>0, <1>1
<1>3. Pending(u) = Pending(w) \cup {n}
  BY <1>0, <1>1, <1>2 DEF Pending
<1>4. InOrder(u)
  <2>1. \A i \in 1..Len(w) : w[i].kind = "event" => w[i].sequence < n
    BY DEF Pending
  <2> QED BY <1>0, <1>1, <1>2, <2>1 DEF InOrder
<1>5. Undelivered(u) <=> Undelivered(w)
  <2>1. CASE Len(w) = 0
    BY <1>0, <1>1, <2>1 DEF Undelivered
  <2>2. CASE Len(w) # 0
    <3>1. 1 \in 1..Len(w)
      BY <1>0, <2>2
    <3> QED BY <1>0, <1>1, <2>2, <3>1 DEF Undelivered
  <2> QED BY <2>1, <2>2
<1> QED BY <1>3, <1>4, <1>5

LEMMA PendingTail ==
  ASSUME NEW w \in Seq(DetailItem), w # <<>>, InOrder(w)
  PROVE  /\ Head(w) = w[1]
         /\ InOrder(Tail(w)) /\ ~ Undelivered(Tail(w))
         /\ w[1].kind = "snapshot" => Undelivered(w) /\ Pending(Tail(w)) = Pending(w)
         /\ w[1].kind = "event" =>
              /\ ~ Undelivered(w)
              /\ Pending(w) = Pending(Tail(w)) \cup {w[1].sequence}
              /\ \A m \in Pending(Tail(w)) : w[1].sequence < m
<1>1. PICK u : u = Tail(w)
  OBVIOUS
<1>2. /\ Len(w) \in Nat \ {0} /\ Len(u) = Len(w) - 1 /\ Head(w) = w[1]
      /\ \A i \in 1..Len(u) : u[i] = w[i + 1]
  BY <1>1, EmptySeq, HeadTailProperties
<1>3. /\ \A i \in 1..Len(u) : i + 1 \in 1..Len(w) /\ i + 1 # 1 /\ 1 < i + 1
      /\ \A i \in 1..Len(w) : i = 1 \/ (i - 1 \in 1..Len(u) /\ (i - 1) + 1 = i)
      /\ 1 \in 1..Len(w)
  BY <1>2
<1>4. \A i \in 1..Len(u) : u[i].kind # "snapshot"
  BY <1>2, <1>3 DEF InOrder
<1>5. InOrder(u)
  <2>1. ASSUME NEW i \in 1..Len(u), NEW j \in 1..Len(u), i < j,
               u[i].kind = "event", u[j].kind = "event"
        PROVE  u[i].sequence < u[j].sequence
    <3>1. i + 1 < j + 1 /\ i + 1 \in 1..Len(w) /\ j + 1 \in 1..Len(w)
      BY <1>3, <2>1
    <3> QED BY <1>2, <2>1, <3>1 DEF InOrder
  <2> QED BY <1>4, <2>1 DEF InOrder
<1>6. ~ Undelivered(u)
  <2>1. ASSUME u # <<>> PROVE 1 \in 1..Len(u)
    <3>1. u \in Seq(DetailItem)
      BY <1>1
    <3>2. Len(u) \in Nat /\ Len(u) # 0
      BY <2>1, <3>1
    <3> QED BY <3>2
  <2> QED BY <1>4, <2>1 DEF Undelivered
<1>7. \A n : n \in Pending(w) <=>
        n \in Pending(u) \/ (w[1].kind = "event" /\ n = w[1].sequence)
  <2>1. ASSUME NEW n \in Pending(w)
        PROVE  n \in Pending(u) \/ (w[1].kind = "event" /\ n = w[1].sequence)
    <3>1. PICK i \in 1..Len(w) : w[i].kind = "event" /\ n = w[i].sequence
      BY DEF Pending
    <3>2. CASE i = 1
      BY <3>1, <3>2
    <3>3. CASE i - 1 \in 1..Len(u) /\ (i - 1) + 1 = i
      <4>1. u[i - 1] = w[i]
        BY <1>2, <3>3
      <4> QED BY <3>1, <3>3, <4>1 DEF Pending
    <3> QED BY <1>3, <3>2, <3>3
  <2>2. ASSUME NEW n \in Pending(u) PROVE n \in Pending(w)
    <3>1. PICK i \in 1..Len(u) : u[i].kind = "event" /\ n = u[i].sequence
      BY DEF Pending
    <3>2. w[i + 1] = u[i] /\ i + 1 \in 1..Len(w)
      BY <1>2, <1>3
    <3> QED BY <3>1, <3>2 DEF Pending
  <2>3. w[1].kind = "event" => w[1].sequence \in Pending(w)
    BY <1>3 DEF Pending
  <2> QED BY <2>1, <2>2, <2>3
<1>8. w[1].kind = "event" => \A m \in Pending(u) : w[1].sequence < m
  <2>1. ASSUME w[1].kind = "event", NEW m \in Pending(u) PROVE w[1].sequence < m
    <3>1. PICK i \in 1..Len(u) : u[i].kind = "event" /\ m = u[i].sequence
      BY DEF Pending
    <3>2. w[i + 1] = u[i] /\ i + 1 \in 1..Len(w) /\ 1 < i + 1
      BY <1>2, <1>3
    <3> QED BY <1>3, <2>1, <3>1, <3>2 DEF InOrder
  <2> QED BY <2>1
<1>9. w[1].kind = "snapshot" => Undelivered(w)
  BY DEF Undelivered
<1>10. w[1].kind = "event" => ~ Undelivered(w)
  BY DEF Undelivered
<1>11. w[1].kind = "snapshot" => Pending(u) = Pending(w)
  BY <1>7
<1>12. w[1].kind = "event" => Pending(w) = Pending(u) \cup {w[1].sequence}
  BY <1>7
<1> QED BY <1>1, <1>2, <1>5, <1>6, <1>8, <1>9, <1>10, <1>11, <1>12

-----------------------------------------------------------------------------
(* A thread's own view: what its detail stream has brought and will bring.  *)
(* d is the subscription, v what the client shows, b what the tables hold.  *)

Detailed(t) == EventsOf(t, DetailTypes)

Base(t) ==
  [title |-> TitleOf(t), session |-> SessionOf(t), said |-> Said(t),
   detailed |-> Detailed(t), stored |-> Len(log), published |-> published]
View(t) == [shown |-> shown[t], summary |-> summary[t], text |-> text[t]]

BaseOK(b) ==
  /\ b.title \in Nat /\ b.session \in Nat /\ b.stored \in Nat /\ b.published \in 0..b.stored
  /\ b.said \subseteq b.detailed /\ b.detailed \subseteq 1..b.stored
  /\ b.session # 0 => b.session \in b.detailed \ b.said
  /\ \A m \in b.detailed : m \in b.said \/ m <= b.session

Served(d) == d.stage \in {"read", "live"}
Delivered(d) == Served(d) /\ ~ Undelivered(d.wire)

\* The queries saw no more than is stored.
SeenFacts(d, b) ==
  d.titleAt <= b.stored /\ d.textAt <= b.stored /\ d.sessionAt <= b.stored

\* From the first event on the wire on, none that is published is missing; with the
\* snapshot still there, none since the stream joined.
WireFacts(d, b) ==
  /\ ~ Served(d) => d.wire = <<>>
  /\ InOrder(d.wire)
  /\ d.stage # "live" => Pending(d.wire) = {}
  /\ d.stage = "live" =>
       /\ d.joined <= b.published
       /\ \A n \in Pending(d.wire) :
            n \in b.detailed /\ d.joined < n /\ n <= b.published
       /\ \A n \in b.detailed : n <= b.published =>
            \/ n \in Pending(d.wire)
            \/ /\ \A m \in Pending(d.wire) : n < m
               /\ Undelivered(d.wire) => n <= d.joined

\* A title that did not change since it was read is the one the snapshot shows, and then
\* the client, unless the shell stream wrote its own.
TitleFacts(d, v, b) ==
  b.title # 0 /\ b.title <= d.titleAt =>
    /\ d.stage \in {"thread", "messages"} => d.title = b.title
    /\ Undelivered(d.wire) => d.wire[1].row.title = b.title
    /\ Delivered(d) => \/ v.shown.title = b.title
                       \/ v.summary # None /\ v.shown.title = v.summary.title

\* So is the session, or its event follows.
Follows(d, b) ==
  \/ b.session <= d.sessionAt
  \/ d.stage = "live" /\ d.joined < b.session
SessionFacts(d, v, b) ==
  /\ Undelivered(d.wire) /\ b.session <= d.sessionAt => d.wire[1].row.session = b.session
  /\ Delivered(d) /\ Follows(d, b) /\ (d.stage = "live" => b.session <= b.published) =>
       \/ b.session \in Pending(d.wire)
       \/ v.shown.session = b.session
       \/ v.summary # None /\ v.shown.session = v.summary.session

\* No message was published between snapshot and live stream, or came with both.
Whole(d, b) ==
  \A n \in b.said : ~ (d.textAt < n /\ n <= d.joined) /\ ~ (d.joined < n /\ n <= d.textAt)

\* The conversation is what was said up to some event, and what follows is on the wire.
TextFacts(d, v, b) ==
  /\ d.stage = "messages" => d.text = Texts(b.said, d.textAt)
  /\ Undelivered(d.wire) => d.wire[1].text = Texts(b.said, d.textAt)
  /\ Delivered(d) /\ d.stage = "read" => v.text = Texts(b.said, d.textAt)
  /\ Delivered(d) /\ d.stage = "live" /\ Whole(d, b) =>
       \E k \in 0..b.published :
         /\ v.text = Texts(b.said, k)
         /\ \A n \in b.said : n <= b.published => n <= k \/ n \in Pending(d.wire)
         /\ \A n \in Pending(d.wire) : k < n

Facts(d, v, b) ==
  /\ d.stage # "none" => v.shown # None
  /\ SeenFacts(d, b) /\ WireFacts(d, b)
  /\ TitleFacts(d, v, b) /\ SessionFacts(d, v, b) /\ TextFacts(d, v, b)

LEMMA DetailTyped ==
  ASSUME NEW d \in DetailType
  PROVE  /\ d.stage \in {"none", "asked", "thread", "messages", "read", "live", "ended"}
         /\ d.title \in Nat /\ d.text \in Seq(Nat) /\ d.wire \in Seq(DetailItem)
         /\ d.titleAt \in Nat /\ d.textAt \in Nat /\ d.sessionAt \in Nat /\ d.joined \in Nat
         /\ Pending(d.wire) \subseteq Nat
         /\ Undelivered(d.wire) => d.wire[1].row \in Row
<1>1. /\ d.stage \in {"none", "asked", "thread", "messages", "read", "live", "ended"}
      /\ d.title \in Nat /\ d.text \in Seq(Nat) /\ d.wire \in Seq(DetailItem)
      /\ d.titleAt \in Nat /\ d.textAt \in Nat /\ d.sessionAt \in Nat /\ d.joined \in Nat
  BY DEF DetailType
<1>2. ASSUME Undelivered(d.wire) PROVE d.wire[1].row \in Row
  <2>1. d.wire \in Seq(DetailItem) /\ d.wire # <<>>
    BY <1>1, <1>2 DEF Undelivered
  <2>2. 1 \in 1..Len(d.wire)
    BY <2>1
  <2>3. d.wire[1] \in DetailItem
    BY <2>1, <2>2
  <2> QED BY <1>2, <2>3, DetailItemTyped DEF Undelivered
<1> QED BY <1>1, <1>2, PendingTyped

\* A subscription that has not read anything, or has given up.
LEMMA FactsOfIdle ==
  ASSUME NEW d \in DetailType, NEW v, NEW b, BaseOK(b),
         d.stage \in {"none", "asked", "ended"}, d.wire = <<>>, SeenFacts(d, b),
         d.stage # "none" => v.shown # None
  PROVE  Facts(d, v, b)
<1>1. Pending(d.wire) = {} /\ InOrder(d.wire) /\ ~ Undelivered(d.wire) /\ ~ Served(d)
  BY NothingPending DEF Served
<1> QED BY <1>1
        DEF Facts, WireFacts, TitleFacts, SessionFacts, TextFacts, Delivered

\* The three queries of the snapshot.
LEMMA FactsOfReading ==
  ASSUME NEW d \in DetailType, NEW e \in DetailType, NEW v, NEW b, BaseOK(b), Facts(d, v, b),
         d.stage # "none", e.stage \in {"thread", "messages"}, e.wire = d.wire, d.wire = <<>>,
         \/ /\ e.stage = "thread" /\ e.title = b.title /\ e.titleAt = b.stored
            /\ e.textAt = d.textAt /\ e.sessionAt = d.sessionAt
         \/ /\ d.stage = "thread" /\ e.stage = "messages"
            /\ e.text = Texts(b.said, b.stored) /\ e.textAt = b.stored
            /\ e.title = d.title /\ e.titleAt = d.titleAt /\ e.sessionAt = d.sessionAt
  PROVE  Facts(e, v, b)
<1>0. e.stage # "none" /\ e.stage # "live"
  OBVIOUS
<1>1. Pending(e.wire) = {} /\ InOrder(e.wire) /\ ~ Undelivered(e.wire) /\ ~ Served(e)
  BY NothingPending DEF Served
<1>2. SeenFacts(e, b)
  BY DEF Facts, SeenFacts, BaseOK
<1>3. TitleFacts(e, v, b)
  BY <1>1 DEF Facts, TitleFacts, Delivered
<1>4. SessionFacts(e, v, b) /\ TextFacts(e, v, b) /\ WireFacts(e, b)
  BY <1>1 DEF SessionFacts, TextFacts, WireFacts, Delivered
<1> QED BY <1>0, <1>2, <1>3, <1>4 DEF Facts

LEMMA FactsOfSnapshot ==
  ASSUME NEW d \in DetailType, NEW e \in DetailType, NEW v, NEW b, BaseOK(b), Facts(d, v, b),
         d.stage = "messages", e.stage = "read", e.sessionAt = b.stored,
         e.titleAt = d.titleAt, e.textAt = d.textAt,
         NEW item, e.wire = <<item>>, item.kind = "snapshot",
         item.row.title = d.title, item.row.session = b.session, item.text = d.text
  PROVE  Facts(e, v, b)
<1>1. Pending(e.wire) = {} /\ InOrder(e.wire) /\ Undelivered(e.wire) /\ e.wire[1] = item
  BY NothingPending
<1>2. SeenFacts(e, b)
  BY DEF Facts, SeenFacts, BaseOK
<1>3. TitleFacts(e, v, b)
  BY <1>1 DEF Facts, TitleFacts, Delivered
<1>4. SessionFacts(e, v, b)
  BY <1>1 DEF SessionFacts, Delivered
<1>5. TextFacts(e, v, b)
  BY <1>1 DEF Facts, TextFacts, Delivered
<1>6. WireFacts(e, b)
  BY <1>1 DEF WireFacts, Served
<1> QED BY <1>2, <1>3, <1>4, <1>5, <1>6 DEF Facts

\* The subscription joins the bus: from here on it hears of all that is published.
LEMMA FactsOfJoining ==
  ASSUME NEW d \in DetailType, NEW e \in DetailType, NEW v, NEW b, BaseOK(b), Facts(d, v, b),
         d.stage = "read", e.stage = "live", e.joined = b.published, e.wire = d.wire,
         e.titleAt = d.titleAt, e.textAt = d.textAt, e.sessionAt = d.sessionAt
  PROVE  Facts(e, v, b)
<1>0. /\ b.published \in Nat /\ b.session \in Nat /\ b.stored \in Nat /\ e.textAt \in Nat
      /\ b.published <= b.stored /\ e.textAt <= b.stored
      /\ b.said \subseteq Nat /\ b.detailed \subseteq Nat
  BY DetailTyped DEF BaseOK, Facts, SeenFacts
<1>1. Pending(e.wire) = {} /\ InOrder(e.wire) /\ (Delivered(e) <=> Delivered(d))
  BY DEF Facts, WireFacts, Delivered, Served
<1>2. SeenFacts(e, b)
  BY DEF Facts, SeenFacts
<1>3. TitleFacts(e, v, b)
  BY <1>1 DEF Facts, TitleFacts
<1>4. SessionFacts(e, v, b)
  <2>1. b.session <= b.published /\ Follows(e, b) => Follows(d, b)
    BY <1>0 DEF Follows
  <2> QED BY <1>1, <2>1 DEF Facts, SessionFacts
<1>5. TextFacts(e, v, b)
  <2>1. ASSUME Delivered(e), Whole(e, b)
        PROVE  \E k \in 0..b.published :
                 /\ v.text = Texts(b.said, k)
                 /\ \A n \in b.said : n <= b.published => n <= k \/ n \in Pending(e.wire)
                 /\ \A n \in Pending(e.wire) : k < n
    <3>1. v.text = Texts(b.said, e.textAt)
      BY <1>1, <2>1 DEF Facts, TextFacts
    <3>2. \A n \in b.said : /\ ~ (e.textAt < n /\ n <= b.published)
                           /\ ~ (b.published < n /\ n <= e.textAt)
      BY <2>1 DEF Whole
    <3>3. Texts(b.said, e.textAt) = Texts(b.said, b.published)
      BY <1>0, <3>2, TextsGap
    <3> QED BY <1>0, <1>1, <3>1, <3>3
  <2> QED BY <2>1 DEF Facts, TextFacts
<1>6. WireFacts(e, b)
  BY <1>0, <1>1 DEF WireFacts, Served
<1> QED BY <1>2, <1>3, <1>4, <1>5, <1>6 DEF Facts

\* An event is published, and joins the wire if the stream listens and it is of the thread.
LEMMA FactsOfPublishing ==
  ASSUME NEW d \in DetailType, NEW e \in DetailType, NEW v, NEW b, BaseOK(b), Facts(d, v, b),
         NEW c, c.title = b.title, c.session = b.session, c.said = b.said,
         c.detailed = b.detailed, c.stored = b.stored,
         c.published = b.published + 1, c.published <= b.stored,
         \/ e = d /\ (d.stage # "live" \/ c.published \notin b.detailed)
         \/ /\ d.stage = "live" /\ e.stage = "live" /\ c.published \in b.detailed
            /\ e.wire = Append(d.wire, [kind |-> "event", sequence |-> c.published])
            /\ e.titleAt = d.titleAt /\ e.textAt = d.textAt /\ e.sessionAt = d.sessionAt
            /\ e.joined = d.joined
  PROVE  Facts(e, v, c)
<1>0. /\ b.published \in Nat /\ c.published \in Nat /\ b.session \in Nat /\ b.stored \in Nat
      /\ b.said \subseteq b.detailed /\ b.detailed \subseteq Nat
      /\ b.session # 0 => b.session \in b.detailed
  BY DEF BaseOK
<1>1. /\ d.joined \in Nat /\ d.wire \in Seq(DetailItem) /\ Pending(d.wire) \subseteq Nat
      /\ d.sessionAt \in Nat
  BY DetailTyped
<1>2. CASE d.stage # "live"
  <2>1. e = d /\ d.stage # "live"
    BY <1>2
  <2>2. WireFacts(e, c)
    BY <2>1 DEF Facts, WireFacts
  <2>3. TitleFacts(e, v, c) /\ SeenFacts(e, c)
    BY <2>1 DEF Facts, TitleFacts, SeenFacts
  <2>4. SessionFacts(e, v, c)
    BY <2>1 DEF Facts, SessionFacts, Follows
  <2>5. TextFacts(e, v, c)
    BY <2>1 DEF Facts, TextFacts
  <2> QED BY <2>1, <2>2, <2>3, <2>4, <2>5 DEF Facts
<1>3. CASE d.stage = "live"
  <2>1. /\ d.joined <= b.published /\ InOrder(d.wire)
        /\ \A n \in Pending(d.wire) : n \in b.detailed /\ d.joined < n /\ n <= b.published
        /\ \A n \in b.detailed : n <= b.published =>
             \/ n \in Pending(d.wire)
             \/ /\ \A m \in Pending(d.wire) : n < m
                /\ Undelivered(d.wire) => n <= d.joined
    BY <1>3 DEF Facts, WireFacts
  <2>2. /\ e.stage = "live" /\ InOrder(e.wire) /\ (Undelivered(e.wire) <=> Undelivered(d.wire))
        /\ Pending(e.wire) = IF c.published \in b.detailed
                             THEN Pending(d.wire) \cup {c.published} ELSE Pending(d.wire)
        /\ e.titleAt = d.titleAt /\ e.textAt = d.textAt /\ e.sessionAt = d.sessionAt
        /\ e.joined = d.joined
    <3>1. CASE e = d /\ c.published \notin b.detailed
      BY <1>3, <2>1, <3>1
    <3>2. CASE /\ c.published \in b.detailed /\ e.stage = "live"
               /\ e.wire = Append(d.wire, [kind |-> "event", sequence |-> c.published])
               /\ e.titleAt = d.titleAt /\ e.textAt = d.textAt /\ e.sessionAt = d.sessionAt
               /\ e.joined = d.joined
      <4>1. \A m \in Pending(d.wire) : m < c.published
        BY <1>0, <1>1, <2>1
      <4>2. PICK n \in Nat : n = c.published
        BY <1>0
      <4>3. /\ d.wire \in Seq(DetailItem) /\ InOrder(d.wire)
            /\ \A m \in Pending(d.wire) : m < n
            /\ e.wire = Append(d.wire, [kind |-> "event", sequence |-> n])
        BY <1>1, <2>1, <3>2, <4>1, <4>2
      <4>4. /\ Pending(e.wire) = Pending(d.wire) \cup {n} /\ InOrder(e.wire)
            /\ (Undelivered(e.wire) <=> Undelivered(d.wire))
        BY <4>3, PendingAppend
      <4> QED BY <3>2, <4>2, <4>4
    <3> QED BY <1>3, <3>1, <3>2
  <2>3. Delivered(e) <=> Delivered(d)
    BY <1>3, <2>2 DEF Delivered, Served
  <2>4. d.wire # <<>> /\ Undelivered(d.wire) => e.wire[1] = d.wire[1]
    <3>1. ASSUME d.wire # <<>> PROVE 1 \in 1..Len(d.wire)
      BY <1>1, <3>1
    <3> QED BY <1>1, <3>1
  <2>5. Undelivered(d.wire) => d.wire # <<>>
    BY DEF Undelivered
  <2>6. SeenFacts(e, c)
    BY <2>2 DEF Facts, SeenFacts
  <2>7. WireFacts(e, c)
    <3>1. \A n \in Pending(e.wire) : n \in c.detailed /\ e.joined < n /\ n <= c.published
      BY <1>0, <1>1, <2>1, <2>2
    <3>2. \A n \in c.detailed : n <= c.published =>
             \/ n \in Pending(e.wire)
             \/ /\ \A m \in Pending(e.wire) : n < m
                /\ Undelivered(e.wire) => n <= e.joined
      <4> SUFFICES ASSUME NEW n \in c.detailed, n <= c.published, n \notin Pending(e.wire)
                   PROVE  /\ \A m \in Pending(e.wire) : n < m
                          /\ Undelivered(e.wire) => n <= e.joined
        OBVIOUS
      <4>1. n \in Nat /\ n # c.published
        BY <1>0, <2>2
      <4>2. n <= b.published
        BY <1>0, <4>1
      <4> QED BY <1>0, <2>1, <2>2, <4>1, <4>2
    <3>3. e.joined <= c.published
      BY <1>0, <1>1, <2>1, <2>2
    <3> QED BY <2>2, <3>1, <3>2, <3>3 DEF WireFacts, Served
  <2>8. TitleFacts(e, v, c)
    BY <1>3, <2>2, <2>3, <2>4, <2>5 DEF Facts, TitleFacts
  <2>9. SessionFacts(e, v, c)
    <3>1. Undelivered(e.wire) /\ c.session <= e.sessionAt => e.wire[1].row.session = c.session
      BY <2>2, <2>4, <2>5 DEF Facts, SessionFacts
    <3>2. ASSUME Delivered(e), Follows(e, c), c.session <= c.published
          PROVE  \/ c.session \in Pending(e.wire)
                 \/ v.shown.session = c.session
                 \/ v.summary # None /\ v.shown.session = v.summary.session
      <4>1. CASE b.session = c.published
        BY <1>0, <2>2, <4>1
      <4>2. CASE b.session # c.published
        <5>1. b.session <= b.published
          BY <1>0, <3>2, <4>2
        <5>2. Follows(d, b)
          BY <1>3, <2>2, <3>2 DEF Follows
        <5> QED BY <2>2, <2>3, <3>2, <5>1, <5>2 DEF Facts, SessionFacts
      <4> QED BY <4>1, <4>2
    <3> QED BY <2>2, <3>1, <3>2 DEF SessionFacts
  <2>10. TextFacts(e, v, c)
    <3>1. Undelivered(e.wire) => e.wire[1].text = Texts(c.said, e.textAt)
      BY <2>2, <2>4, <2>5 DEF Facts, TextFacts
    <3>2. ASSUME Delivered(e), Whole(e, c)
          PROVE  \E k \in 0..c.published :
                   /\ v.text = Texts(c.said, k)
                   /\ \A n \in c.said : n <= c.published => n <= k \/ n \in Pending(e.wire)
                   /\ \A n \in Pending(e.wire) : k < n
      <4>1. Whole(d, b)
        BY <2>2, <3>2 DEF Whole
      <4>2. PICK k \in 0..b.published :
              /\ v.text = Texts(b.said, k)
              /\ \A n \in b.said : n <= b.published => n <= k \/ n \in Pending(d.wire)
              /\ \A n \in Pending(d.wire) : k < n
        BY <1>3, <2>3, <3>2, <4>1 DEF Facts, TextFacts
      <4>3. k \in 0..c.published /\ k < c.published
        BY <1>0
      <4>4. \A n \in Pending(e.wire) : k < n
        BY <2>2, <4>2, <4>3
      <4>5. \A n \in c.said : n <= c.published => n <= k \/ n \in Pending(e.wire)
        <5> SUFFICES ASSUME NEW n \in c.said, n <= c.published
                     PROVE  n <= k \/ n \in Pending(e.wire)
          OBVIOUS
        <5>1. CASE n = c.published
          BY <1>0, <2>2, <5>1
        <5>2. CASE n # c.published
          <6>1. n \in Nat /\ n <= b.published
            BY <1>0, <5>2
          <6> QED BY <2>2, <4>2, <6>1
        <5> QED BY <5>1, <5>2
      <4> QED BY <4>2, <4>3, <4>4, <4>5
    <3> QED BY <2>2, <3>1, <3>2 DEF TextFacts
  <2> QED BY <1>3, <2>2, <2>6, <2>7, <2>8, <2>9, <2>10 DEF Facts
<1> QED BY <1>2, <1>3

\* The snapshot arrives.
LEMMA FactsOfSnapshotTaken ==
  ASSUME NEW d \in DetailType, NEW e \in DetailType, NEW v, NEW b, BaseOK(b), Facts(d, v, b),
         Undelivered(d.wire), e.wire = Tail(d.wire), e.stage = d.stage,
         e.titleAt = d.titleAt, e.textAt = d.textAt, e.sessionAt = d.sessionAt,
         e.joined = d.joined,
         NEW w, w.shown = d.wire[1].row, w.text = d.wire[1].text
  PROVE  Facts(e, w, b)
<1>0. /\ b.published \in Nat /\ b.session \in Nat /\ b.stored \in Nat
      /\ b.said \subseteq b.detailed /\ b.detailed \subseteq Nat
      /\ b.session # 0 => b.session \in b.detailed
  BY DEF BaseOK
<1>1. /\ d.joined \in Nat /\ d.wire \in Seq(DetailItem) /\ Pending(d.wire) \subseteq Nat
      /\ d.sessionAt \in Nat /\ d.textAt \in Nat /\ d.wire[1].row \in Row
  BY DetailTyped
<1>2. /\ d.wire # <<>> /\ d.wire[1].kind = "snapshot" /\ InOrder(d.wire)
      /\ Served(d)
  <2>1. d.wire # <<>> /\ d.wire[1].kind = "snapshot"
    BY DEF Undelivered
  <2> QED BY <2>1 DEF Facts, WireFacts
<1>3. /\ InOrder(e.wire) /\ ~ Undelivered(e.wire) /\ Pending(e.wire) = Pending(d.wire)
  BY <1>1, <1>2, PendingTail
<1>4. Delivered(e)
  BY <1>2, <1>3 DEF Delivered, Served
<1>5. w.shown # None
  BY <1>1, NoneIsNoRow DEF Row
<1>6. SeenFacts(e, b)
  BY DEF Facts, SeenFacts
<1>7. WireFacts(e, b)
  BY <1>2, <1>3 DEF Facts, WireFacts, Served
<1>8. TitleFacts(e, w, b)
  BY <1>2, <1>3 DEF Facts, TitleFacts, Served
<1>9. SessionFacts(e, w, b)
  <2>1. ASSUME Follows(e, b), e.stage = "live" => b.session <= b.published
        PROVE  b.session \in Pending(e.wire) \/ w.shown.session = b.session
    <3>1. CASE b.session <= d.sessionAt
      BY <3>1 DEF Facts, SessionFacts
    <3>2. CASE ~ (b.session <= d.sessionAt)
      <4>1. d.stage = "live" /\ d.joined < b.session /\ b.session <= b.published
        BY <2>1, <3>2 DEF Follows
      <4>2. b.session \in b.detailed /\ ~ (b.session <= d.joined)
        BY <1>0, <1>1, <4>1
      <4> QED BY <1>3, <4>1, <4>2 DEF Facts, WireFacts
    <3> QED BY <3>1, <3>2
  <2> QED BY <1>3, <2>1 DEF SessionFacts
<1>10. TextFacts(e, w, b)
  <2>0. w.text = Texts(b.said, d.textAt)
    BY DEF Facts, TextFacts
  <2>1. ASSUME e.stage = "live", Whole(e, b)
        PROVE  \E k \in 0..b.published :
                 /\ w.text = Texts(b.said, k)
                 /\ \A n \in b.said : n <= b.published => n <= k \/ n \in Pending(e.wire)
                 /\ \A n \in Pending(e.wire) : k < n
    <3>1. \A n \in b.said : /\ ~ (d.textAt < n /\ n <= d.joined)
                           /\ ~ (d.joined < n /\ n <= d.textAt)
      BY <2>1 DEF Whole
    <3>2. Texts(b.said, d.textAt) = Texts(b.said, d.joined)
      BY <1>1, <3>1, TextsGap
    <3>3. /\ d.joined \in 0..b.published
          /\ \A n \in Pending(d.wire) : d.joined < n
          /\ \A n \in b.detailed : n <= b.published => n \in Pending(d.wire) \/ n <= d.joined
      BY <1>0, <1>1, <2>1 DEF Facts, WireFacts
    <3> QED BY <1>0, <1>3, <2>0, <3>2, <3>3
  <2>2. e.stage # "messages"
    BY <1>2 DEF Served
  <2> QED BY <1>3, <2>0, <2>1, <2>2 DEF TextFacts
<1> QED BY <1>5, <1>6, <1>7, <1>8, <1>9, <1>10 DEF Facts

\* An event arrives: a session is set, or a message added.
LEMMA FactsOfEventTaken ==
  ASSUME NEW d \in DetailType, NEW e \in DetailType, NEW v, NEW b, BaseOK(b), Facts(d, v, b),
         d.wire # <<>>, d.wire[1].kind = "event",
         e.wire = Tail(d.wire), e.stage = d.stage,
         e.titleAt = d.titleAt, e.textAt = d.textAt, e.sessionAt = d.sessionAt,
         e.joined = d.joined,
         NEW n, n = d.wire[1].sequence, NEW w, w.summary = v.summary,
         \/ /\ n \in b.said /\ w.shown = v.shown /\ w.text = Append(v.text, n)
         \/ /\ n \notin b.said /\ w.shown # None /\ w.shown.title = v.shown.title
            /\ w.shown.session = n /\ w.text = v.text
  PROVE  Facts(e, w, b)
<1>0. /\ b.published \in Nat /\ b.session \in Nat /\ b.stored \in Nat
      /\ b.said \subseteq b.detailed /\ b.detailed \subseteq Nat
      /\ b.session # 0 => b.session \in b.detailed \ b.said
      /\ \A m \in b.detailed : m \in b.said \/ m <= b.session
  BY DEF BaseOK
<1>1. /\ d.joined \in Nat /\ d.wire \in Seq(DetailItem) /\ Pending(d.wire) \subseteq Nat
  BY DetailTyped
<1>2. InOrder(d.wire)
  BY DEF Facts, WireFacts
<1>3. /\ InOrder(e.wire) /\ ~ Undelivered(e.wire) /\ ~ Undelivered(d.wire)
      /\ Pending(d.wire) = Pending(e.wire) \cup {n}
      /\ \A m \in Pending(e.wire) : n < m
  BY <1>1, <1>2, PendingTail
<1>4. /\ d.stage = "live" /\ n \in Pending(d.wire)
      /\ d.joined <= b.published
      /\ \A m \in Pending(d.wire) : m \in b.detailed /\ d.joined < m /\ m <= b.published
      /\ \A m \in b.detailed : m <= b.published =>
           m \in Pending(d.wire) \/ \A i \in Pending(d.wire) : m < i
  BY <1>3 DEF Facts, WireFacts
<1>5. Delivered(d) /\ Delivered(e) /\ e.stage = "live"
  BY <1>3, <1>4 DEF Delivered, Served
<1>6. w.shown # None
  BY <1>4 DEF Facts
<1>7. SeenFacts(e, b)
  BY DEF Facts, SeenFacts
<1>8. WireFacts(e, b)
  <2>1. \A m \in Pending(e.wire) : m \in b.detailed /\ e.joined < m /\ m <= b.published
    BY <1>3, <1>4
  <2>2. \A m \in b.detailed : m <= b.published =>
          m \in Pending(e.wire) \/ \A i \in Pending(e.wire) : m < i
    BY <1>3, <1>4
  <2> QED BY <1>3, <1>4, <1>5, <2>1, <2>2 DEF WireFacts, Served
<1>9. TitleFacts(e, w, b)
  BY <1>3, <1>4, <1>5 DEF Facts, TitleFacts
<1>10. SessionFacts(e, w, b)
  <2>1. ASSUME Follows(e, b), b.session <= b.published
        PROVE  \/ b.session \in Pending(e.wire)
               \/ w.shown.session = b.session
               \/ w.summary # None /\ w.shown.session = w.summary.session
    <3>1. CASE n \in b.said
      <4>1. n # b.session
        BY <1>0, <1>1, <1>4, <3>1
      <4>2. Follows(d, b)
        BY <2>1 DEF Follows
      <4>3. \/ b.session \in Pending(d.wire)
            \/ v.shown.session = b.session
            \/ v.summary # None /\ v.shown.session = v.summary.session
        BY <1>5, <2>1, <4>2 DEF Facts, SessionFacts
      <4> QED BY <1>3, <3>1, <4>1, <4>3
    <3>2. CASE n \notin b.said
      <4>1. n \in b.detailed /\ n <= b.session /\ w.shown.session = n /\ n \in Nat
        BY <1>0, <1>1, <1>4, <3>2
      <4>2. CASE n = b.session
        BY <4>1, <4>2
      <4>3. CASE n # b.session
        <5>1. d.joined < n
          BY <1>4
        <5>2. b.session \in b.detailed /\ ~ (b.session < n)
          BY <1>0, <1>1, <4>1, <4>3, <5>1
        <5>3. b.session \in Pending(d.wire)
          BY <1>4, <2>1, <5>2
        <5> QED BY <1>3, <4>3, <5>3
      <4> QED BY <4>2, <4>3
    <3> QED BY <3>1, <3>2
  <2> QED BY <1>3, <1>5, <2>1 DEF SessionFacts
<1>11. TextFacts(e, w, b)
  <2>1. ASSUME Whole(e, b)
        PROVE  \E k \in 0..b.published :
                 /\ w.text = Texts(b.said, k)
                 /\ \A m \in b.said : m <= b.published => m <= k \/ m \in Pending(e.wire)
                 /\ \A m \in Pending(e.wire) : k < m
    <3>1. Whole(d, b)
      BY <2>1 DEF Whole
    <3>2. PICK k \in 0..b.published :
            /\ v.text = Texts(b.said, k)
            /\ \A m \in b.said : m <= b.published => m <= k \/ m \in Pending(d.wire)
            /\ \A m \in Pending(d.wire) : k < m
      BY <1>4, <1>5, <3>1 DEF Facts, TextFacts
    <3>3. CASE n \notin b.said
      <4>1. \A m \in b.said : m <= b.published => m <= k \/ m \in Pending(e.wire)
        BY <1>3, <3>2, <3>3
      <4> QED BY <1>3, <3>2, <3>3, <4>1
    <3>4. CASE n \in b.said
      <4>1. n \in Nat /\ k \in Nat /\ k < n /\ n <= b.published /\ n \in 0..b.published
        BY <1>0, <1>1, <1>4, <3>2
      <4>2. \A m \in b.said : ~ (k < m /\ m < n)
        <5> SUFFICES ASSUME NEW m \in b.said, k < m, m < n PROVE FALSE
          OBVIOUS
        <5>1. m \in Nat /\ m <= b.published /\ ~ (m <= k)
          BY <1>0, <4>1
        <5>2. m \in Pending(e.wire)
          BY <1>3, <3>2, <5>1
        <5>3. n < m
          BY <1>3, <5>2
        <5> QED BY <4>1, <5>1, <5>3
      <4>3. Texts(b.said, n) = Append(Texts(b.said, k), n)
        BY <3>4, <4>1, <4>2, TextsNext
      <4>4. w.text = Texts(b.said, n)
        BY <3>2, <3>4, <4>3
      <4>5. \A m \in b.said : m <= b.published => m <= n \/ m \in Pending(e.wire)
        <5> SUFFICES ASSUME NEW m \in b.said, m <= b.published
                     PROVE  m <= n \/ m \in Pending(e.wire)
          OBVIOUS
        <5>1. m \in Nat
          BY <1>0
        <5> QED BY <1>3, <3>2, <4>1, <5>1
      <4> QED BY <1>3, <4>1, <4>4, <4>5
    <3> QED BY <3>3, <3>4
  <2> QED BY <1>3, <1>5, <2>1 DEF TextFacts
<1> QED BY <1>6, <1>7, <1>8, <1>9, <1>10, <1>11 DEF Facts

\* The shell stream writes the thread's row.
LEMMA FactsOfRowTaken ==
  ASSUME NEW d, NEW v, NEW b, Facts(d, v, b),
         NEW w, w.shown # None, w.summary = w.shown, w.text = v.text
  PROVE  Facts(d, w, b)
<1>1. TitleFacts(d, w, b)
  BY DEF Facts, TitleFacts
<1>2. SessionFacts(d, w, b)
  BY DEF Facts, SessionFacts
<1>3. TextFacts(d, w, b)
  BY DEF Facts, TextFacts
<1> QED BY <1>1, <1>2, <1>3 DEF Facts

\* An event is stored: what it changes, no subscription has seen.
LEMMA FactsOfStoring ==
  ASSUME NEW d \in DetailType, NEW v, NEW b, BaseOK(b), Facts(d, v, b), b.published = b.stored,
         NEW c, c.stored = b.stored + 1, c.published = b.published,
         c.title \in {b.title, 0, c.stored}, c.session \in {b.session, c.stored},
         c.said \in {b.said, b.said \cup {c.stored}},
         c.detailed \in {b.detailed, b.detailed \cup {c.stored}}
  PROVE  Facts(d, v, c)
<1>0. /\ b.published \in Nat /\ b.session \in Nat /\ b.stored \in Nat /\ b.title \in Nat
      /\ b.said \subseteq 1..b.stored /\ b.detailed \subseteq Nat
  BY DEF BaseOK
<1>1. /\ d.joined \in Nat /\ Pending(d.wire) \subseteq Nat
      /\ d.sessionAt \in Nat /\ d.textAt \in Nat /\ d.titleAt \in Nat
      /\ d.titleAt <= b.stored /\ d.textAt <= b.stored /\ d.sessionAt <= b.stored
  BY DetailTyped DEF Facts, SeenFacts
<1>2. SeenFacts(d, c)
  BY <1>0, <1>1 DEF SeenFacts
<1>3. WireFacts(d, c)
  <2>1. \A n \in c.detailed : n \in b.detailed \/ ~ (n <= c.published)
    BY <1>0
  <2>2. b.detailed \subseteq c.detailed
    OBVIOUS
  <2> QED BY <2>1, <2>2 DEF Facts, WireFacts
<1>4. TitleFacts(d, v, c)
  <2>1. c.title # 0 /\ c.title <= d.titleAt => c.title = b.title
    BY <1>0, <1>1
  <2> QED BY <2>1 DEF Facts, TitleFacts
<1>5. SessionFacts(d, v, c)
  <2>1. c.session <= d.sessionAt \/ c.session <= c.published => c.session = b.session
    BY <1>0, <1>1
  <2>2. Follows(d, c) => c.session <= d.sessionAt \/ d.stage = "live"
    BY DEF Follows
  <2>3. c.session = b.session => (Follows(d, c) <=> Follows(d, b))
    BY DEF Follows
  <2> QED BY <2>1, <2>2, <2>3 DEF Facts, SessionFacts
<1>6. ASSUME NEW k \in 0..b.stored PROVE Texts(c.said, k) = Texts(b.said, k)
  <2>1. \A i \in 1..k : i \in c.said <=> i \in b.said
    BY <1>0
  <2>2. k \in Nat
    OBVIOUS
  <2> QED BY <2>1, <2>2, TextsAgree
<1>7. TextFacts(d, v, c)
  <2>1. d.textAt \in 0..b.stored
    BY <1>0, <1>1
  <2>2. Texts(c.said, d.textAt) = Texts(b.said, d.textAt)
    BY <1>6, <2>1
  <2>3. ASSUME Delivered(d), d.stage = "live", Whole(d, c)
        PROVE  \E k \in 0..c.published :
                 /\ v.text = Texts(c.said, k)
                 /\ \A n \in c.said : n <= c.published => n <= k \/ n \in Pending(d.wire)
                 /\ \A n \in Pending(d.wire) : k < n
    <3>1. Whole(d, b)
      BY <2>3 DEF Whole
    <3>2. PICK k \in 0..b.published :
            /\ v.text = Texts(b.said, k)
            /\ \A n \in b.said : n <= b.published => n <= k \/ n \in Pending(d.wire)
            /\ \A n \in Pending(d.wire) : k < n
      BY <2>3, <3>1 DEF Facts, TextFacts
    <3>3. Texts(c.said, k) = Texts(b.said, k)
      BY <1>6
    <3>4. \A n \in c.said : n <= c.published => n \in b.said
      BY <1>0
    <3> QED BY <3>2, <3>3, <3>4
  <2> QED BY <2>2, <2>3 DEF Facts, TextFacts
<1> QED BY <1>2, <1>3, <1>4, <1>5, <1>7 DEF Facts

-----------------------------------------------------------------------------
(* Every thread's own view, in every step.                                  *)

OwnViewsInv == \A t \in Threads : Facts(detail[t], View(t), Base(t))

LEMMA BaseTyped ==
  ASSUME log \in Seq(Event), published \in 0..Len(log), NEW t
  PROVE  BaseOK(Base(t))
<1> DEFINE sessions == EventsOf(t, {"thread.session-set"})
<1>1. /\ TitleOf(t) \in Nat /\ SessionOf(t) \in Nat /\ Len(log) \in Nat
      /\ Said(t) \subseteq Detailed(t) /\ Detailed(t) \subseteq 1..Len(log)
      /\ sessions \subseteq Detailed(t) \ Said(t)
      /\ \A m \in Detailed(t) : m \in Said(t) \/ m \in sessions
  BY NoTitle DEF Said, Detailed, EventsOf, DetailTypes
<1>2. /\ sessions # {} => SessionOf(t) \in sessions
      /\ \A m \in sessions : m <= SessionOf(t)
      /\ sessions = {} => SessionOf(t) = 0
  BY LastIsThere DEF SessionOf, LastOf
<1> QED BY <1>1, <1>2 DEF BaseOK, Base

LEMMA BaseKept ==
  ASSUME UNCHANGED <<log, published>>
  PROVE  \A t : Base(t)' = Base(t)
BY DEF Base, TitleOf, SessionOf, Said, Detailed, Deleted, LastOf, EventsOf

\* An event is the last of its kinds, and leaves the events of other kinds as they are.
LEMMA EventsAfter ==
  ASSUME log \in Seq(Event), NEW e \in Event, log' = Append(log, e), NEW t, NEW types
  PROVE  /\ EventsOf(t, types)' = IF e.thread = t /\ e.type \in types
                                  THEN EventsOf(t, types) \cup {Len(log) + 1}
                                  ELSE EventsOf(t, types)
         /\ LastOf(t, types)' = IF e.thread = t /\ e.type \in types THEN Len(log) + 1
                                ELSE LastOf(t, types)
<1>1. /\ Len(log') = Len(log) + 1 /\ Len(log) \in Nat /\ log'[Len(log) + 1] = e
      /\ \A i \in 1..Len(log) : log'[i] = log[i]
  OBVIOUS
<1>2. 1..Len(log') = 1..Len(log) \cup {Len(log) + 1}
  BY <1>1
<1>3. EventsOf(t, types)' = IF e.thread = t /\ e.type \in types
                            THEN EventsOf(t, types) \cup {Len(log) + 1}
                            ELSE EventsOf(t, types)
  BY <1>1, <1>2 DEF EventsOf
<1>4. EventsOf(t, types) \subseteq 1..Len(log)
  BY DEF EventsOf
<1>5. CASE e.thread = t /\ e.type \in types
  <2>1. /\ Len(log) + 1 \in EventsOf(t, types)'
        /\ \A j \in EventsOf(t, types)' : j \in Nat /\ j <= Len(log) + 1
    BY <1>1, <1>3, <1>4, <1>5
  <2>2. \A i \in EventsOf(t, types)' :
          (\A j \in EventsOf(t, types)' : j <= i) => i = Len(log) + 1
    BY <1>1, <2>1
  <2>3. LastOf(t, types)' = Len(log) + 1
    BY <2>1, <2>2 DEF LastOf
  <2> QED BY <1>3, <1>5, <2>3
<1>6. CASE ~ (e.thread = t /\ e.type \in types)
  <2>1. EventsOf(t, types)' = EventsOf(t, types)
    BY <1>3, <1>6
  <2>2. LastOf(t, types)' = LastOf(t, types)
    BY <2>1 DEF LastOf
  <2> QED BY <1>6, <2>1, <2>2
<1> QED BY <1>5, <1>6

LEMMA BaseAfter ==
  ASSUME log \in Seq(Event), NEW e \in Event, log' = Append(log, e),
         published' = published, NEW t
  PROVE  /\ Base(t)'.stored = Base(t).stored + 1 /\ Base(t)'.published = Base(t).published
         /\ Base(t)'.title \in {Base(t).title, 0, Base(t)'.stored}
         /\ Base(t)'.session \in {Base(t).session, Base(t)'.stored}
         /\ Base(t)'.said \in {Base(t).said, Base(t).said \cup {Base(t)'.stored}}
         /\ Base(t)'.detailed \in {Base(t).detailed, Base(t).detailed \cup {Base(t)'.stored}}
<1>1. Len(log') = Len(log) + 1
  OBVIOUS
<1>2. /\ Said(t)' \in {Said(t), Said(t) \cup {Len(log) + 1}}
      /\ Detailed(t)' \in {Detailed(t), Detailed(t) \cup {Len(log) + 1}}
      /\ SessionOf(t)' \in {SessionOf(t), Len(log) + 1}
  BY EventsAfter DEF Said, Detailed, SessionOf
<1>3. TitleOf(t)' \in {TitleOf(t), 0, Len(log) + 1}
  <2>1. Deleted(t) => Deleted(t)'
    BY EventsAfter DEF Deleted
  <2>2. LastOf(t, {"thread.created", "thread.meta-updated"})'
          \in {LastOf(t, {"thread.created", "thread.meta-updated"}), Len(log) + 1}
    BY EventsAfter
  <2> QED BY <2>1, <2>2 DEF TitleOf
<1> QED BY <1>1, <1>2, <1>3 DEF Base

\* What is neither followed nor shown anew stays.
LEMMA OwnViewStays ==
  ASSUME OwnViewsInv, NEW t \in Threads, UNCHANGED <<log, published>>,
         detail'[t] = detail[t], shown'[t] = shown[t], summary'[t] = summary[t],
         text'[t] = text[t]
  PROVE  Facts(detail'[t], View(t)', Base(t)')
<1>1. View(t)' = View(t) /\ Base(t)' = Base(t)
  BY BaseKept DEF View
<1> QED BY <1>1 DEF OwnViewsInv

LEMMA OwnViewsNow ==
  (\A t \in Threads : Facts(detail'[t], View(t)', Base(t)')) => OwnViewsInv'
BY DEF OwnViewsInv

LEMMA StoreKeepsViews ==
  ASSUME TypeOK, OwnViewsInv, NEW e \in Event, Store(e)
  PROVE  OwnViewsInv'
<1>1. /\ log' = Append(log, e) /\ published = Len(log) /\ published' = published
      /\ UNCHANGED <<detail, shown, summary, text>>
  BY DEF Store, store
<1>2. log \in Seq(Event) /\ published \in 0..Len(log) /\ detail \in [Threads -> DetailType]
  BY TypeParts
<1>3. ASSUME NEW t \in Threads PROVE Facts(detail'[t], View(t)', Base(t)')
  <2>1. Facts(detail[t], View(t), Base(t)) /\ BaseOK(Base(t)) /\ detail[t] \in DetailType
    BY <1>2, BaseTyped DEF OwnViewsInv
  <2>2. detail'[t] = detail[t] /\ View(t)' = View(t)
    BY <1>1 DEF View
  <2>3. Base(t).published = Base(t).stored
    BY <1>1 DEF Base
  <2>4. /\ Base(t)'.stored = Base(t).stored + 1 /\ Base(t)'.published = Base(t).published
        /\ Base(t)'.title \in {Base(t).title, 0, Base(t)'.stored}
        /\ Base(t)'.session \in {Base(t).session, Base(t)'.stored}
        /\ Base(t)'.said \in {Base(t).said, Base(t).said \cup {Base(t)'.stored}}
        /\ Base(t)'.detailed \in {Base(t).detailed, Base(t).detailed \cup {Base(t)'.stored}}
    BY <1>1, <1>2, BaseAfter
  <2>5. Facts(detail[t], View(t), Base(t)')
    BY <2>1, <2>3, <2>4, FactsOfStoring
  <2> QED BY <2>2, <2>5
<1> QED BY <1>3, OwnViewsNow

LEMMA PublishKeepsViews ==
  ASSUME TypeOK, TypeOK', OwnViewsInv, Publish
  PROVE  OwnViewsInv'
<1> DEFINE n == published + 1
<1>1. /\ published < Len(log) /\ published' = n /\ UNCHANGED <<log, shown, summary, text>>
      /\ detail' = IF detail[log[n].thread].stage = "live" /\ log[n].type \in DetailTypes
                     THEN [detail EXCEPT ![log[n].thread].wire =
                             Append(@, [kind |-> "event", sequence |-> n])]
                     ELSE detail
  BY DEF Publish, store
<1>2. /\ log \in Seq(Event) /\ published \in 0..Len(log) /\ detail \in [Threads -> DetailType]
      /\ Len(log) \in Nat /\ detail' \in [Threads -> DetailType]
  BY TypeParts, LengthTyped DEF TypeOK, DetailType
<1>3. n \in 1..Len(log) /\ n \in Nat
  BY <1>1, <1>2
<1>4. ASSUME NEW t \in Threads PROVE Facts(detail'[t], View(t)', Base(t)')
  <2>1. Facts(detail[t], View(t), Base(t)) /\ BaseOK(Base(t)) /\ detail[t] \in DetailType
        /\ detail'[t] \in DetailType
    BY <1>2, BaseTyped DEF OwnViewsInv
  <2>2. View(t)' = View(t)
    BY <1>1 DEF View
  <2>3. /\ Base(t)'.title = Base(t).title /\ Base(t)'.session = Base(t).session
        /\ Base(t)'.said = Base(t).said /\ Base(t)'.detailed = Base(t).detailed
        /\ Base(t)'.stored = Base(t).stored
    BY <1>1 DEF Base, TitleOf, SessionOf, Said, Detailed, Deleted, LastOf, EventsOf
  <2>4. /\ Base(t)'.published = n /\ Base(t).published = published
        /\ Base(t).stored = Len(log) /\ Base(t).detailed = Detailed(t)
    BY <1>1 DEF Base
  <2>5. n \in Detailed(t) <=> log[n].thread = t /\ log[n].type \in DetailTypes
    BY <1>3 DEF Detailed, EventsOf
  <2>6. CASE detail[t].stage = "live" /\ n \in Detailed(t)
    <3> DEFINE w == Append(detail[t].wire, [kind |-> "event", sequence |-> n])
    <3>1. detail' = [detail EXCEPT ![t].wire = w]
      BY <1>1, <2>5, <2>6
    <3> HIDE DEF w, n
    <3>2. /\ detail'[t].wire = w /\ detail'[t].stage = detail[t].stage
          /\ detail'[t].titleAt = detail[t].titleAt /\ detail'[t].textAt = detail[t].textAt
          /\ detail'[t].sessionAt = detail[t].sessionAt
          /\ detail'[t].joined = detail[t].joined
      BY <1>2, <3>1 DEF DetailType
    <3>3. Facts(detail'[t], View(t), Base(t)')
      <4>1. detail'[t].wire
              = Append(detail[t].wire, [kind |-> "event", sequence |-> Base(t)'.published])
        BY <2>4, <3>2 DEF w
      <4>2. /\ Base(t)'.published = Base(t).published + 1
            /\ Base(t)'.published <= Base(t).stored
        BY <1>3, <2>4 DEF n
      <4> QED BY <2>1, <2>3, <2>4, <2>6, <3>2, <4>1, <4>2, FactsOfPublishing
    <3> QED BY <2>2, <3>3
  <2>7. CASE ~ (detail[t].stage = "live" /\ n \in Detailed(t))
    <3>1. detail'[t] = detail[t]
      <4>1. CASE log[n].thread = t
        BY <1>1, <2>5, <2>7, <4>1
      <4>2. CASE log[n].thread # t
        BY <1>1, <1>2, <4>2
      <4> QED BY <4>1, <4>2
    <3>2. Facts(detail[t], View(t), Base(t)')
      <4>1. /\ Base(t)'.published = Base(t).published + 1
            /\ Base(t)'.published <= Base(t).stored
        BY <1>3, <2>4
      <4> HIDE DEF n
      <4> QED BY <2>1, <2>3, <2>4, <2>7, <4>1, FactsOfPublishing
    <3> QED BY <2>2, <3>1, <3>2
  <2> QED BY <2>6, <2>7
<1> QED BY <1>4, OwnViewsNow

\* A step of the shell's server side changes no thread's view.
LEMMA ShellKeepsViews ==
  ASSUME OwnViewsInv, ServeShell \/ ShellReadFails \/ ShellSnapshotFails
  PROVE  OwnViewsInv'
<1>1. UNCHANGED <<log, published, detail, shown, summary, text>>
  BY DEF ServeShell, ShellReadFails, ShellSnapshotFails, ReadShellSnapshot, JoinShell,
         MapDeletion, ReadThreadRow, ReadSessionRow, server, store
<1>2. \A t \in Threads : Facts(detail'[t], View(t)', Base(t)')
  BY <1>1, OwnViewStays
<1> QED BY <1>2, OwnViewsNow

LEMMA FreshSubscriptions ==
  ASSUME NEW e, e \in {NotSubscribed, DetailAsked, [NotSubscribed EXCEPT !.stage = "ended"]},
         NEW b, BaseOK(b)
  PROVE  /\ e \in DetailType /\ e.stage \in {"none", "asked", "ended"} /\ e.wire = <<>>
         /\ SeenFacts(e, b)
         /\ e = NotSubscribed => e.stage = "none"
<1>1. e \in DetailType
  BY FreshTyped
<1>2. /\ e.stage \in {"none", "asked", "ended"} /\ e.wire = <<>>
      /\ e.titleAt = 0 /\ e.textAt = 0 /\ e.sessionAt = 0
      /\ e = NotSubscribed => e.stage = "none"
  BY DEF NotSubscribed, DetailAsked
<1> QED BY <1>1, <1>2 DEF SeenFacts, BaseOK

\* The server reads for a subscription of t, gives it up, or the client asks for it or
\* leaves it.
LEMMA DetailKeepsViews ==
  ASSUME TypeOK, TypeOK', OwnViewsInv, NEW t \in Threads,
         ServeDetail(t) \/ DetailReadFails(t) \/ Open(t) \/ Close(t)
  PROVE  OwnViewsInv'
<1>0. /\ log \in Seq(Event) /\ published \in 0..Len(log) /\ Len(log) \in Nat
      /\ detail \in [Threads -> DetailType] /\ detail' \in [Threads -> DetailType]
  BY TypeParts, LengthTyped DEF TypeOK, DetailType
<1>1. UNCHANGED <<log, published, shown, summary, text>>
  BY DEF ServeDetail, ReadDetailThread, ReadDetailMessages, ReadDetailSession, JoinDetail,
         DetailReadFails, Open, Close, server, store
<1>2. View(t)' = View(t) /\ Base(t)' = Base(t)
  BY <1>1, BaseKept DEF View
<1>3. /\ Facts(detail[t], View(t), Base(t)) /\ BaseOK(Base(t)) /\ detail[t] \in DetailType
      /\ detail'[t] \in DetailType
  BY <1>0, BaseTyped DEF OwnViewsInv
<1>4. /\ Base(t).title = TitleOf(t) /\ Base(t).session = SessionOf(t) /\ Base(t).said = Said(t)
      /\ Base(t).stored = Len(log) /\ Base(t).published = published
      /\ View(t).shown = shown[t]
  BY DEF Base, View
<1>5. \A u \in Threads : u # t => detail'[u] = detail[u]
  BY <1>0 DEF ServeDetail, ReadDetailThread, ReadDetailMessages, ReadDetailSession, JoinDetail,
         DetailReadFails, Open, Close, Disposed
<1>6. detail[t].stage # "none" => shown[t] # None
  BY <1>3, <1>4 DEF Facts
<1>7. Facts(detail'[t], View(t), Base(t))
  <2>1. CASE /\ detail'[t] \in {NotSubscribed, DetailAsked,
                                [NotSubscribed EXCEPT !.stage = "ended"]}
             /\ detail'[t] = NotSubscribed \/ shown[t] # None
    BY <1>3, <1>4, <2>1, FreshSubscriptions, FactsOfIdle
  <2>2. CASE ReadDetailThread(t)
    <3>1. detail[t].stage = "asked"
      BY <2>2 DEF ReadDetailThread
    <3>2. CASE TitleOf(t) = 0
      <4>1. detail'[t] = [NotSubscribed EXCEPT !.stage = "ended"]
        BY <1>0, <2>2, <3>2 DEF ReadDetailThread
      <4> QED BY <1>6, <2>1, <3>1, <4>1
    <3>3. CASE TitleOf(t) # 0
      <4>1. detail'[t] = [detail[t] EXCEPT !.stage = "thread", !.title = TitleOf(t),
                                           !.titleAt = Len(log)]
        BY <1>0, <2>2, <3>3 DEF ReadDetailThread
      <4>2. /\ detail'[t].stage = "thread" /\ detail'[t].title = TitleOf(t)
            /\ detail'[t].titleAt = Len(log) /\ detail'[t].textAt = detail[t].textAt
            /\ detail'[t].sessionAt = detail[t].sessionAt
            /\ detail'[t].wire = detail[t].wire
        BY <1>3, <4>1 DEF DetailType
      <4>3. detail[t].wire = <<>>
        BY <1>3, <3>1 DEF Facts, WireFacts, Served
      <4> QED BY <1>3, <1>4, <3>1, <4>2, <4>3, FactsOfReading
    <3> QED BY <3>2, <3>3
  <2>3. CASE ReadDetailMessages(t)
    <3>1. detail[t].stage = "thread"
      BY <2>3 DEF ReadDetailMessages
    <3>2. detail'[t] = [detail[t] EXCEPT !.stage = "messages", !.text = MessagesOf(t),
                                         !.textAt = Len(log)]
      BY <1>0, <2>3 DEF ReadDetailMessages
    <3>3. MessagesOf(t) = Texts(Said(t), Len(log))
      BY MessagesAreTexts DEF MessagesOf
    <3>4. /\ detail'[t].stage = "messages" /\ detail'[t].text = MessagesOf(t)
          /\ detail'[t].textAt = Len(log) /\ detail'[t].titleAt = detail[t].titleAt
          /\ detail'[t].title = detail[t].title
          /\ detail'[t].sessionAt = detail[t].sessionAt
          /\ detail'[t].wire = detail[t].wire
      BY <1>3, <3>2 DEF DetailType
    <3>5. detail[t].wire = <<>>
      BY <1>3, <3>1 DEF Facts, WireFacts, Served
    <3> QED BY <1>3, <1>4, <3>1, <3>3, <3>4, <3>5, FactsOfReading
  <2>4. CASE ReadDetailSession(t)
    <3> DEFINE row == [title |-> detail[t].title, session |-> SessionOf(t)]
               item == [kind |-> "snapshot", row |-> row, text |-> detail[t].text]
               w == <<item>>
    <3>1. detail[t].stage = "messages"
      BY <2>4 DEF ReadDetailSession
    <3>2. detail'[t] = [detail[t] EXCEPT !.stage = "read", !.sessionAt = Len(log),
                                         !.title = 0, !.text = <<>>, !.wire = w]
      BY <1>0, <2>4 DEF ReadDetailSession
    <3>3. /\ item.kind = "snapshot" /\ item.row.title = detail[t].title
          /\ item.row.session = SessionOf(t) /\ item.text = detail[t].text
      OBVIOUS
    <3>4. w = <<item>>
      OBVIOUS
    <3> HIDE DEF w, item, row
    <3>5. /\ detail'[t].stage = "read" /\ detail'[t].sessionAt = Len(log)
          /\ detail'[t].textAt = detail[t].textAt
          /\ detail'[t].titleAt = detail[t].titleAt
          /\ detail'[t].wire = <<item>>
      BY <1>3, <3>2, <3>4 DEF DetailType
    <3> QED BY <1>3, <1>4, <3>1, <3>3, <3>5, FactsOfSnapshot
  <2>5. CASE JoinDetail(t)
    <3>1. detail[t].stage = "read"
      BY <2>5 DEF JoinDetail
    <3>2. detail'[t] = [detail[t] EXCEPT !.stage = "live", !.joined = published]
      BY <1>0, <2>5 DEF JoinDetail
    <3>3. /\ detail'[t].stage = "live" /\ detail'[t].joined = published
          /\ detail'[t].textAt = detail[t].textAt
          /\ detail'[t].titleAt = detail[t].titleAt
          /\ detail'[t].sessionAt = detail[t].sessionAt
          /\ detail'[t].wire = detail[t].wire
      BY <1>3, <3>2 DEF DetailType
    <3> QED BY <1>3, <1>4, <3>1, <3>3, FactsOfJoining
  <2>6. CASE DetailReadFails(t)
    <3>1. detail'[t] = [NotSubscribed EXCEPT !.stage = "ended"] /\ detail[t].stage # "none"
      BY <1>0, <2>6 DEF DetailReadFails
    <3> QED BY <1>6, <2>1, <3>1
  <2>7. CASE Open(t)
    <3>1. detail'[t] = DetailAsked /\ shown[t] # None
      BY <1>0, <2>7 DEF Open
    <3> QED BY <2>1, <3>1
  <2>8. CASE Close(t)
    <3>1. detail'[t] = NotSubscribed
      BY <1>0, <2>8 DEF Close, Disposed
    <3> QED BY <2>1, <3>1
  <2> QED BY <2>2, <2>3, <2>4, <2>5, <2>6, <2>7, <2>8 DEF ServeDetail
<1>8. ASSUME NEW u \in Threads PROVE Facts(detail'[u], View(u)', Base(u)')
  <2>1. CASE u = t
    BY <1>2, <1>7, <2>1
  <2>2. CASE u # t
    BY <1>1, <1>5, <2>2, OwnViewStays
  <2> QED BY <2>1, <2>2
<1> QED BY <1>8, OwnViewsNow

LEMMA ResubscribedKeepsViews ==
  ASSUME TypeOK, OwnViewsInv, Disconnect \/ Restart
  PROVE  OwnViewsInv'
<1>0. /\ log \in Seq(Event) /\ published \in 0..Len(log) /\ Len(log) \in Nat
      /\ detail \in [Threads -> DetailType]
  BY TypeParts, LengthTyped
<1>1. /\ UNCHANGED <<log, shown, summary, text>>
      /\ detail' = [t \in Threads |->
                      IF detail[t].stage \in {"none", "ended"} THEN detail[t] ELSE DetailAsked]
      /\ published' = published \/ published' = Len(log)
  BY DEF Disconnect, Restart, Resubscribed, server, store
<1>2. published' \in 0..Len(log') /\ log' \in Seq(Event)
  BY <1>0, <1>1
<1>3. ASSUME NEW t \in Threads PROVE Facts(detail'[t], View(t)', Base(t)')
  <2>1. Facts(detail[t], View(t), Base(t)) /\ detail[t] \in DetailType
    BY <1>0 DEF OwnViewsInv
  <2>2. View(t)' = View(t) /\ Base(t)'.stored = Base(t).stored /\ View(t).shown = shown[t]
    BY <1>1 DEF View, Base
  <2>3. BaseOK(Base(t)')
    <3>1. /\ Base(t)'.title = Base(t).title /\ Base(t)'.session = Base(t).session
          /\ Base(t)'.said = Base(t).said /\ Base(t)'.detailed = Base(t).detailed
          /\ Base(t)'.published = published' /\ Base(t)'.stored = Len(log)
          /\ Base(t).stored = Len(log)
      BY <1>1 DEF Base, TitleOf, SessionOf, Said, Detailed, Deleted, LastOf, EventsOf
    <3>2. BaseOK(Base(t))
      BY <1>0, BaseTyped
    <3> QED BY <1>1, <1>2, <3>1, <3>2 DEF BaseOK
  <2>4. CASE detail[t].stage \in {"none", "ended"}
    <3>1. detail'[t] = detail[t] /\ detail[t].wire = <<>> /\ SeenFacts(detail[t], Base(t)')
      BY <1>1, <2>1, <2>2, <2>4 DEF Facts, WireFacts, Served, SeenFacts
    <3>2. detail[t].stage # "none" => View(t).shown # None
      BY <2>1 DEF Facts
    <3> QED BY <2>1, <2>2, <2>3, <2>4, <3>1, <3>2, FactsOfIdle
  <2>5. CASE detail[t].stage \notin {"none", "ended"}
    <3>1. detail'[t] = DetailAsked /\ View(t).shown # None
      BY <1>1, <2>1, <2>5 DEF Facts
    <3> QED BY <2>2, <2>3, <3>1, FreshSubscriptions, FactsOfIdle
  <2> QED BY <2>4, <2>5
<1> QED BY <1>3, OwnViewsNow

LEMMA DeliverShellKeepsViews ==
  ASSUME TypeOK, OwnViewsInv, DeliverShell
  PROVE  OwnViewsInv'
<1> DEFINE item == Head(shell.wire)
<1>0. /\ log \in Seq(Event) /\ published \in 0..Len(log)
      /\ shell \in ShellType(Len(log)) /\ detail \in [Threads -> DetailType]
      /\ shown \in Rows /\ summary \in Rows /\ text \in [Threads -> Seq(Nat)]
  BY TypeParts DEF StoreTypes
<1>1. /\ shell.wire # <<>> /\ UNCHANGED <<log, published>>
      /\ \/ item.kind = "snapshot" /\ TakeShellSnapshot(item.rows)
         \/ item.kind = "upserted" /\ TakeUpserted(item.thread, item.row)
         \/ item.kind = "removed" /\ TakeRemoved(item.thread)
  BY DEF DeliverShell, server
<1>2. item \in ShellItem
  <2>1. shell.wire \in Seq(ShellItem)
    BY <1>0 DEF ShellType
  <2> QED BY <1>1, <2>1, HeadAndTail
<1> HIDE DEF item
<1>3. \A t \in Threads : Base(t)' = Base(t) /\ BaseOK(Base(t))
  BY <1>0, <1>1, BaseKept, BaseTyped
<1>4. ASSUME NEW t \in Threads, detail'[t] = NotSubscribed
      PROVE  Facts(detail'[t], View(t)', Base(t)')
  BY <1>3, <1>4, FreshSubscriptions, FactsOfIdle
<1>5. ASSUME NEW t \in Threads, detail'[t] = detail[t], shown'[t] \in Row,
             summary'[t] = shown'[t], text'[t] = text[t]
      PROVE  Facts(detail'[t], View(t)', Base(t)')
  <2>1. /\ View(t)'.shown # None /\ View(t)'.summary = View(t)'.shown
        /\ View(t)'.text = View(t).text
    BY <1>5, NoneIsNoRow DEF View, Row
  <2>2. Facts(detail[t], View(t), Base(t))
    BY DEF OwnViewsInv
  <2>3. Facts(detail[t], View(t)', Base(t))
    BY <2>1, <2>2, FactsOfRowTaken
  <2> QED BY <1>3, <1>5, <2>3
<1>6. ASSUME NEW t \in Threads PROVE Facts(detail'[t], View(t)', Base(t)')
  <2>1. CASE item.kind = "snapshot"
    <3>1. item.rows \in Rows /\ TakeShellSnapshot(item.rows)
      BY <1>1, <1>2, <2>1, ItemTyped
    <3>2. shown' = item.rows /\ summary' = item.rows
      BY <3>1 DEF TakeShellSnapshot
    <3>3. CASE item.rows[t] = None
      <4>1. detail'[t] = NotSubscribed
        BY <3>1, <3>3 DEF TakeShellSnapshot, Disposed
      <4> QED BY <1>4, <4>1
    <3>4. CASE item.rows[t] # None
      <4>1. detail'[t] = detail[t]
        BY <3>1, <3>4 DEF TakeShellSnapshot, Disposed
      <4>2. text'[t] = text[t]
        BY <3>1, <3>4 DEF TakeShellSnapshot
      <4>3. item.rows[t] \in Row
        BY <3>1, <3>4 DEF Rows
      <4> QED BY <1>5, <3>2, <4>1, <4>2, <4>3
    <3> QED BY <3>3, <3>4
  <2>2. CASE item.kind = "upserted"
    <3>1. /\ item.thread \in Threads /\ item.row \in Row
          /\ TakeUpserted(item.thread, item.row)
      BY <1>1, <1>2, <2>2, ItemTyped
    <3>2. text'[t] = text[t] /\ detail'[t] = detail[t]
      BY <3>1 DEF TakeUpserted
    <3>3. CASE t = item.thread
      <4>1. shown'[t] = item.row /\ summary'[t] = item.row
        BY <1>0, <3>1, <3>3 DEF TakeUpserted, Rows
      <4> QED BY <1>5, <3>1, <3>2, <4>1
    <3>4. CASE t # item.thread
      <4>1. shown'[t] = shown[t] /\ summary'[t] = summary[t]
        BY <1>0, <3>1, <3>4 DEF TakeUpserted, Rows
      <4> QED BY <1>1, <3>2, <4>1, OwnViewStays
    <3> QED BY <3>3, <3>4
  <2>3. CASE item.kind = "removed"
    <3>1. item.thread \in Threads /\ TakeRemoved(item.thread)
      BY <1>1, <1>2, <2>3, ItemTyped
    <3>2. CASE t = item.thread
      <4>1. detail'[t] = NotSubscribed
        BY <3>1, <3>2 DEF TakeRemoved, Disposed
      <4> QED BY <1>4, <4>1
    <3>3. CASE t # item.thread
      <4>1. shown'[t] = shown[t] /\ summary'[t] = summary[t] /\ text'[t] = text[t]
            /\ detail'[t] = detail[t]
        BY <1>0, <3>1, <3>3 DEF TakeRemoved, Disposed, Rows
      <4> QED BY <1>1, <4>1, OwnViewStays
    <3> QED BY <3>2, <3>3
  <2> QED BY <1>1, <2>1, <2>2, <2>3
<1> QED BY <1>6, OwnViewsNow

LEMMA DeliverDetailKeepsViews ==
  ASSUME TypeOK, TypeOK', OwnViewsInv, NEW t \in Threads, DeliverDetail(t)
  PROVE  OwnViewsInv'
<1> DEFINE item == Head(detail[t].wire)
           n == item.sequence
<1>0. /\ log \in Seq(Event) /\ published \in 0..Len(log)
      /\ detail \in [Threads -> DetailType] /\ detail' \in [Threads -> DetailType]
      /\ shown \in Rows /\ summary \in Rows /\ text \in [Threads -> Seq(Nat)]
  BY TypeParts DEF TypeOK, DetailType, StoreTypes
<1>1. /\ detail[t].wire # <<>> /\ detail' = [detail EXCEPT ![t].wire = Tail(@)]
      /\ UNCHANGED <<log, published, summary>>
      /\ \/ item.kind = "snapshot" /\ TakeDetailSnapshot(t, item.row, item.text)
         \/ item.kind = "event" /\ TakeDetailEvent(t, n)
  BY DEF DeliverDetail, server
<1>2. detail[t] \in DetailType /\ detail[t].wire \in Seq(DetailItem)
  BY <1>0 DEF DetailType
<1>3. Facts(detail[t], View(t), Base(t)) /\ BaseOK(Base(t)) /\ detail'[t] \in DetailType
      /\ View(t).shown = shown[t] /\ View(t).text = text[t]
      /\ View(t)'.shown = shown'[t] /\ View(t)'.text = text'[t]
      /\ View(t)'.summary = View(t).summary /\ Base(t)' = Base(t)
      /\ Base(t).said = Said(t) /\ Base(t).detailed = Detailed(t)
  BY <1>0, <1>1, BaseTyped, BaseKept DEF OwnViewsInv, View, Base
<1>4. /\ item = detail[t].wire[1] /\ item \in DetailItem
      /\ InOrder(detail[t].wire)
  <2>1. InOrder(detail[t].wire)
    BY <1>3 DEF Facts, WireFacts
  <2> QED BY <1>1, <1>2, <2>1, PendingTail, HeadAndTail
<1> HIDE DEF item, n
<1>5. /\ detail'[t].wire = Tail(detail[t].wire) /\ detail'[t].stage = detail[t].stage
      /\ detail'[t].titleAt = detail[t].titleAt /\ detail'[t].textAt = detail[t].textAt
      /\ detail'[t].sessionAt = detail[t].sessionAt /\ detail'[t].joined = detail[t].joined
  BY <1>0, <1>1, <1>2 DEF DetailType
<1>6. Facts(detail'[t], View(t)', Base(t)')
  <2>1. CASE item.kind = "snapshot"
    <3>1. Undelivered(detail[t].wire)
      BY <1>1, <1>4, <2>1 DEF Undelivered
    <3>2. shown'[t] = item.row /\ text'[t] = item.text
      BY <1>0, <1>1, <2>1 DEF TakeDetailSnapshot, Rows
    <3> QED BY <1>2, <1>3, <1>4, <1>5, <3>1, <3>2, FactsOfSnapshotTaken
  <2>2. CASE item.kind = "event"
    <3>0. detail[t].wire[1].kind = "event" /\ n = detail[t].wire[1].sequence
      BY <1>4, <2>2 DEF n
    <3>1. /\ shown' = IF shown[t] # None /\ log[n].type = "thread.session-set"
                        THEN [shown EXCEPT ![t].session = n] ELSE shown
          /\ text' = IF shown[t] # None /\ log[n].type = "thread.message-sent"
                       THEN [text EXCEPT ![t] = Append(@, n)] ELSE text
      BY <1>1, <2>2 DEF TakeDetailEvent
    <3>2. n \in Pending(detail[t].wire)
      <4>1. 1 \in 1..Len(detail[t].wire)
        BY <1>1, <1>2
      <4> QED BY <1>4, <2>2, <4>1 DEF Pending, n
    <3>3. detail[t].stage = "live" /\ n \in Detailed(t)
      BY <1>3, <3>2 DEF Facts, WireFacts
    <3>4. shown[t] # None /\ shown[t] \in Row
      BY <1>0, <1>3, <3>3 DEF Facts, Rows
    <3>5. /\ n \in Said(t) <=> log[n].type = "thread.message-sent"
          /\ n \notin Said(t) <=> log[n].type = "thread.session-set"
      BY <3>3 DEF Detailed, Said, EventsOf, DetailTypes
    <3>6. CASE n \in Said(t)
      <4>1. shown'[t] = shown[t] /\ text'[t] = Append(text[t], n)
        BY <1>0, <3>1, <3>4, <3>5, <3>6
      <4>2. /\ n \in Base(t).said /\ View(t)'.shown = View(t).shown
            /\ View(t)'.text = Append(View(t).text, n)
        BY <1>3, <3>6, <4>1
      <4>3. Facts(detail'[t], View(t)', Base(t))
        BY <1>1, <1>2, <1>3, <1>5, <3>0, <4>2, FactsOfEventTaken
      <4> QED BY <1>3, <4>3
    <3>7. CASE n \notin Said(t)
      <4>1. shown' = [shown EXCEPT ![t].session = n] /\ text'[t] = text[t]
        BY <3>1, <3>4, <3>5, <3>7
      <4>2. shown'[t] = [shown[t] EXCEPT !.session = n]
        BY <1>0, <4>1 DEF Rows
      <4>3. n \in Nat
        BY <1>4, <2>2, DetailItemTyped DEF n
      <4>4. /\ shown'[t] \in Row /\ shown'[t].title = shown[t].title /\ shown'[t].session = n
        BY <3>4, <4>2, <4>3 DEF Row
      <4>5. shown'[t] # None
        BY <4>4, NoneIsNoRow DEF Row
      <4>6. /\ n \notin Base(t).said /\ View(t)'.shown # None /\ View(t)'.shown.session = n
            /\ View(t)'.shown.title = View(t).shown.title /\ View(t)'.text = View(t).text
        BY <1>3, <3>7, <4>1, <4>4, <4>5
      <4>7. Facts(detail'[t], View(t)', Base(t))
        BY <1>1, <1>2, <1>3, <1>5, <3>0, <4>6, FactsOfEventTaken
      <4> QED BY <1>3, <4>7
    <3> QED BY <3>6, <3>7
  <2> QED BY <1>1, <2>1, <2>2
<1>7. ASSUME NEW u \in Threads, u # t PROVE Facts(detail'[u], View(u)', Base(u)')
  <2>1. detail'[u] = detail[u] /\ summary'[u] = summary[u]
    BY <1>0, <1>1, <1>7
  <2>2. shown'[u] = shown[u] /\ text'[u] = text[u]
    BY <1>0, <1>1, <1>7 DEF TakeDetailSnapshot, TakeDetailEvent, Rows
  <2> QED BY <1>1, <2>1, <2>2, OwnViewStays
<1> QED BY <1>6, <1>7, OwnViewsNow

LEMMA OwnViewsInit == Init => OwnViewsInv
<1> SUFFICES ASSUME Init PROVE OwnViewsInv
  OBVIOUS
<1>1. ASSUME NEW t \in Threads PROVE Facts(detail[t], View(t), Base(t))
  <2>1. log = <<>> /\ published = 0 /\ detail[t] = NotSubscribed
    BY DEF Init
  <2>2. log \in Seq(Event) /\ published \in 0..Len(log)
    BY <2>1
  <2>3. BaseOK(Base(t))
    BY <2>2, BaseTyped
  <2> QED BY <2>1, <2>3, FreshSubscriptions, FactsOfIdle
<1> QED BY Zenon, <1>1 DEF OwnViewsInv

LEMMA OwnViewsNext ==
  ASSUME TypeOK, TypeOK', OwnViewsInv, [Next]_vars
  PROVE  OwnViewsInv'
<1>1. CASE UNCHANGED vars
  <2>1. UNCHANGED <<log, published, detail, shown, summary, text>>
    BY <1>1 DEF vars, server, store
  <2>2. \A t \in Threads : Facts(detail'[t], View(t)', Base(t)')
    BY <2>1, OwnViewStays
  <2> QED BY <2>2, OwnViewsNow
<1>2. CASE Next
  BY <1>2, StoreKeepsViews, PublishKeepsViews, ShellKeepsViews, DetailKeepsViews,
     DeliverShellKeepsViews, DeliverDetailKeepsViews, ResubscribedKeepsViews DEF Next
<1> QED BY <1>1, <1>2

-----------------------------------------------------------------------------
(* The sidebar: what the shell stream will have said of a thread in the end. *)

Touches(item, t) == item.kind = "snapshot" \/ item.thread = t
Tells(item, t) ==
  IF item.kind = "snapshot" THEN item.rows[t]
  ELSE IF item.kind = "upserted" THEN item.row ELSE None

\* After all of wire w, what is shown of t is r; it is cur now.
EndsAs(w, cur, t, r) ==
  \/ (\A i \in 1..Len(w) : ~ Touches(w[i], t)) /\ cur = r
  \/ \E i \in 1..Len(w) :
       /\ Touches(w[i], t) /\ Tells(w[i], t) = r
       /\ \A j \in 1..Len(w) : i < j => ~ Touches(w[j], t)

LEMMA EndsNow ==
  \A cur, t, r : EndsAs(<<>>, cur, t, r) <=> cur = r
<1>1. Len(<<>>) = 0
  OBVIOUS
<1> QED BY <1>1 DEF EndsAs

LEMMA EndsAppend ==
  ASSUME NEW w \in Seq(ShellItem), NEW item \in ShellItem, NEW u, u = Append(w, item),
         NEW cur, NEW t, NEW r,
         IF Touches(item, t) THEN Tells(item, t) = r ELSE EndsAs(w, cur, t, r)
  PROVE  EndsAs(u, cur, t, r)
<1>1. /\ Len(w) \in Nat /\ Len(u) = Len(w) + 1 /\ u[Len(w) + 1] = item
      /\ \A i \in 1..Len(w) : u[i] = w[i]
  OBVIOUS
<1>2. /\ 1..Len(u) = 1..Len(w) \cup {Len(w) + 1}
      /\ \A j \in 1..Len(u) : ~ (Len(w) + 1 < j)
  BY <1>1
<1>3. CASE Touches(item, t)
  BY <1>1, <1>2, <1>3 DEF EndsAs
<1>4. CASE ~ Touches(item, t) /\ (\A i \in 1..Len(w) : ~ Touches(w[i], t)) /\ cur = r
  <2>1. ASSUME NEW i \in 1..Len(u) PROVE ~ Touches(u[i], t)
    <3>1. CASE i \in 1..Len(w)
      BY <1>1, <1>4, <3>1
    <3>2. CASE i = Len(w) + 1
      BY <1>1, <1>4, <3>2
    <3> QED BY <1>2, <3>1, <3>2
  <2> QED BY <1>4, <2>1 DEF EndsAs
<1>5. CASE ~ Touches(item, t) /\ \E i \in 1..Len(w) :
             /\ Touches(w[i], t) /\ Tells(w[i], t) = r
             /\ \A j \in 1..Len(w) : i < j => ~ Touches(w[j], t)
  <2>1. PICK i \in 1..Len(w) :
          /\ Touches(w[i], t) /\ Tells(w[i], t) = r
          /\ \A j \in 1..Len(w) : i < j => ~ Touches(w[j], t)
    BY <1>5
  <2>2. i \in 1..Len(u) /\ Touches(u[i], t) /\ Tells(u[i], t) = r
    BY <1>1, <1>2, <2>1
  <2>3. ASSUME NEW j \in 1..Len(u), i < j PROVE ~ Touches(u[j], t)
    <3>1. CASE j \in 1..Len(w)
      BY <1>1, <2>1, <2>3, <3>1
    <3>2. CASE j = Len(w) + 1
      BY <1>1, <1>5, <3>2
    <3> QED BY <1>2, <3>1, <3>2
  <2> QED BY <2>2, <2>3 DEF EndsAs
<1> QED BY <1>3, <1>4, <1>5 DEF EndsAs

LEMMA EndsOne ==
  ASSUME NEW item \in ShellItem, NEW cur, NEW t, Touches(item, t)
  PROVE  EndsAs(<<item>>, cur, t, Tells(item, t))
<1>1. <<>> \in Seq(ShellItem) /\ <<item>> = Append(<<>>, item)
  OBVIOUS
<1> QED BY <1>1, EndsAppend

LEMMA EndsTail ==
  ASSUME NEW w \in Seq(ShellItem), w # <<>>, NEW cur, NEW t, NEW r, EndsAs(w, cur, t, r),
         NEW next, next = IF Touches(w[1], t) THEN Tells(w[1], t) ELSE cur
  PROVE  EndsAs(Tail(w), next, t, r)
<1>1. PICK u : u = Tail(w)
  OBVIOUS
<1>2. /\ Len(w) \in Nat \ {0} /\ Len(u) = Len(w) - 1
      /\ \A i \in 1..Len(u) : u[i] = w[i + 1]
  BY <1>1, EmptySeq, HeadTailProperties
<1>3. /\ \A i \in 1..Len(u) : i + 1 \in 1..Len(w) /\ 1 < i + 1
      /\ \A i \in 1..Len(w) : i = 1 \/ (i - 1 \in 1..Len(u) /\ (i - 1) + 1 = i)
      /\ 1 \in 1..Len(w)
  BY <1>2
<1>4. CASE (\A i \in 1..Len(w) : ~ Touches(w[i], t)) /\ cur = r
  <2>1. \A i \in 1..Len(u) : ~ Touches(u[i], t)
    BY <1>2, <1>3, <1>4
  <2>2. next = r
    BY <1>3, <1>4
  <2> QED BY <1>1, <2>1, <2>2 DEF EndsAs
<1>5. CASE \E i \in 1..Len(w) :
             /\ Touches(w[i], t) /\ Tells(w[i], t) = r
             /\ \A j \in 1..Len(w) : i < j => ~ Touches(w[j], t)
  <2>1. PICK i \in 1..Len(w) :
          /\ Touches(w[i], t) /\ Tells(w[i], t) = r
          /\ \A j \in 1..Len(w) : i < j => ~ Touches(w[j], t)
    BY <1>5
  <2>2. CASE i = 1
    <3>1. \A j \in 1..Len(u) : ~ Touches(u[j], t)
      BY <1>2, <1>3, <2>1, <2>2
    <3>2. next = r
      BY <2>1, <2>2
    <3> QED BY <1>1, <3>1, <3>2 DEF EndsAs
  <2>3. CASE i - 1 \in 1..Len(u) /\ (i - 1) + 1 = i
    <3>1. Touches(u[i - 1], t) /\ Tells(u[i - 1], t) = r
      BY <1>2, <2>1, <2>3
    <3>2. ASSUME NEW j \in 1..Len(u), i - 1 < j PROVE ~ Touches(u[j], t)
      <4>1. j + 1 \in 1..Len(w) /\ i < j + 1
        BY <1>3, <3>2
      <4> QED BY <1>2, <2>1, <4>1
    <3> QED BY <1>1, <2>3, <3>1, <3>2 DEF EndsAs
  <2> QED BY <1>3, <2>2, <2>3
<1> QED BY <1>4, <1>5 DEF EndsAs

\* The inbox of the stream are the last events published, since it joined.
InboxFacts(s, p, n) ==
  /\ s.stage # "live" => s.inbox = <<>>
  /\ s.row # 0 => s.stage = "live" /\ s.inbox # <<>>
  /\ s.at <= n
  /\ s.stage = "live" =>
       /\ s.joined + Len(s.inbox) <= p
       /\ \A i \in 1..Len(s.inbox) : s.inbox[i] = (p - Len(s.inbox)) + i

Deletions(t) == EventsOf(t, {"thread.deleted"})
Marks(t) ==
  [title |-> TitleOf(t), session |-> SessionOf(t), row |-> RowOf(t),
   events |-> EventsOf(t, EventTypes), last |-> LastOf(t, EventTypes),
   deletions |-> Deletions(t), stored |-> Len(log), published |-> published]
MarksOK(k) ==
  /\ k.title \in Nat /\ k.last \in Nat /\ k.stored \in Nat /\ k.published \in 0..k.stored
  /\ k.events \subseteq 1..k.stored /\ k.deletions \subseteq k.events
  /\ k.last # 0 => k.last \in k.events
  /\ k.deletions # {} => k.title = 0
  /\ k.title = 0 /\ k.events # {} => k.deletions # {}
  /\ k.row = IF k.title = 0 THEN None ELSE [title |-> k.title, session |-> k.session]

\* The snapshot showed event n, or the stream has come to it.
Reached(s, k, n) ==
  \/ n <= s.at
  \/ s.stage = "live" /\ s.joined < n /\ n + Len(s.inbox) <= k.published /\ n \notin s.lost

\* The row of t that is being read is the newest, unless an event that is still to come
\* tells of the change.
ReadFacts(s, k) ==
  s.row # 0 /\ Head(s.inbox) \in k.events =>
    /\ \A d \in k.deletions : s.at < d /\ Head(s.inbox) < d
    /\ k.last <= s.at \/ k.last <= Head(s.inbox) => s.row = k.title

\* With the last event of t the client will be shown its row, with a deletion that it is
\* no more.
EndFacts(s, cur, t, k) ==
  s.stage \in {"read", "live"} =>
    /\ k.deletions = {} /\ Reached(s, k, k.last) => EndsAs(s.wire, cur, t, k.row)
    /\ \A d \in k.deletions : Reached(s, k, d) => EndsAs(s.wire, cur, t, None)

LEMMA ShellFields ==
  ASSUME NEW n \in Nat, NEW s \in ShellType(n)
  PROVE  /\ s.stage \in {"asked", "read", "live", "ended"} /\ s.inbox \in Seq(1..n)
         /\ s.row \in Nat /\ s.wire \in Seq(ShellItem) /\ s.at \in Nat /\ s.joined \in Nat
         /\ Len(s.inbox) \in Nat /\ (s.inbox = <<>> <=> Len(s.inbox) = 0)
<1>1. /\ s.stage \in {"asked", "read", "live", "ended"} /\ s.inbox \in Seq(1..n)
      /\ s.row \in Nat /\ s.wire \in Seq(ShellItem) /\ s.at \in Nat /\ s.joined \in Nat
  BY DEF ShellType
<1>2. Len(s.inbox) \in Nat /\ (s.inbox = <<>> <=> Len(s.inbox) = 0)
  BY <1>1
<1> QED BY <1>1, <1>2

\* The first event of the inbox is the next to come to.
LEMMA InboxHead ==
  ASSUME NEW n \in Nat, NEW s \in ShellType(n), NEW p \in 0..n, InboxFacts(s, p, n),
         s.inbox # <<>>
  PROVE  /\ s.stage = "live" /\ Head(s.inbox) \in 1..n
         /\ Head(s.inbox) + Len(s.inbox) = p + 1
         /\ s.joined < Head(s.inbox)
         /\ Len(Tail(s.inbox)) = Len(s.inbox) - 1
         /\ \A i \in 1..Len(Tail(s.inbox)) :
              Tail(s.inbox)[i] = (p - Len(Tail(s.inbox))) + i
<1>0. p \in Nat /\ p <= n
  OBVIOUS
<1>1. /\ s.inbox \in Seq(1..n) /\ Len(s.inbox) \in Nat \ {0} /\ s.joined \in Nat
  BY ShellFields
<1>2. /\ s.stage = "live" /\ s.joined + Len(s.inbox) <= p
      /\ \A i \in 1..Len(s.inbox) : s.inbox[i] = (p - Len(s.inbox)) + i
  BY DEF InboxFacts
<1>3. PICK u : u = Tail(s.inbox)
  OBVIOUS
<1>4. /\ Head(s.inbox) = s.inbox[1] /\ Len(u) = Len(s.inbox) - 1
      /\ \A i \in 1..Len(u) : u[i] = s.inbox[i + 1]
  BY <1>1, <1>3, EmptySeq, HeadTailProperties
<1>5. Head(s.inbox) = (p - Len(s.inbox)) + 1
  <2>1. 1 \in 1..Len(s.inbox)
    BY <1>1
  <2>2. s.inbox[1] = (p - Len(s.inbox)) + 1
    BY <1>2, <2>1
  <2> QED BY <1>4, <2>2
<1>6. ASSUME NEW i \in 1..Len(u) PROVE u[i] = (p - Len(u)) + i
  <2>1. i + 1 \in 1..Len(s.inbox) /\ i \in Nat
    BY <1>1, <1>4
  <2>2. u[i] = (p - Len(s.inbox)) + (i + 1)
    BY <1>2, <1>4, <2>1
  <2> QED BY <1>0, <1>1, <1>4, <2>1, <2>2
<1>7. Head(s.inbox) + Len(s.inbox) = p + 1 /\ s.joined < Head(s.inbox)
      /\ Head(s.inbox) \in 1..n
  <2>1. \A len \in Nat \ {0}, j \in Nat : j + len <= p =>
          LET h == (p - len) + 1 IN h + len = p + 1 /\ j < h /\ h \in 1..n
    BY <1>0
  <2> QED BY <1>1, <1>2, <1>5, <2>1, Zenon
<1>8. /\ Len(Tail(s.inbox)) = Len(s.inbox) - 1
      /\ \A i \in 1..Len(Tail(s.inbox)) : Tail(s.inbox)[i] = (p - Len(Tail(s.inbox))) + i
  BY <1>3, <1>4, <1>6, Zenon
<1> QED BY <1>2, <1>7, <1>8, Zenon

SidebarFacts(s, cur, t, k) ==
  InboxFacts(s, k.published, k.stored) /\ ReadFacts(s, k) /\ EndFacts(s, cur, t, k)

\* What a stream that was not served has told is nothing.
LEMMA SidebarOfIdle ==
  ASSUME NEW s, NEW cur, NEW t, NEW k, s.stage \notin {"read", "live"},
         s.inbox = <<>>, s.row = 0, s.at <= k.stored
  PROVE  SidebarFacts(s, cur, t, k)
BY DEF SidebarFacts, InboxFacts, ReadFacts, EndFacts

LEMMA SidebarOfSnapshot ==
  ASSUME NEW k, MarksOK(k), NEW s \in ShellType(k.stored), NEW cur, NEW t,
         s.stage = "read", s.inbox = <<>>, s.row = 0, s.at = k.stored,
         NEW item \in ShellItem, s.wire = <<item>>, item.kind = "snapshot",
         item.rows[t] = k.row
  PROVE  SidebarFacts(s, cur, t, k)
<1>1. EndsAs(s.wire, cur, t, k.row)
  BY EndsOne DEF Touches, Tells
<1>2. k.deletions # {} => k.row = None
  BY DEF MarksOK
<1>3. EndFacts(s, cur, t, k)
  BY <1>1, <1>2 DEF EndFacts
<1>4. k.stored \in Nat
  BY DEF MarksOK
<1> QED BY <1>3, <1>4 DEF SidebarFacts, InboxFacts, ReadFacts

\* A stream that joins has reached no more than its snapshot showed.
LEMMA SidebarOfJoining ==
  ASSUME NEW k, MarksOK(k), NEW s \in ShellType(k.stored), NEW s2, NEW cur, NEW t,
         SidebarFacts(s, cur, t, k), s.stage = "read", s2.stage = "live",
         s2.inbox = s.inbox, s2.row = s.row, s2.wire = s.wire, s2.at = s.at,
         s2.joined = k.published
  PROVE  SidebarFacts(s2, cur, t, k)
<1>1. /\ s.inbox = <<>> /\ s.row = 0 /\ s.at <= k.stored /\ s.at \in Nat
      /\ k.stored \in Nat /\ k.published \in Nat /\ k.published <= k.stored
      /\ k.last \in Nat /\ k.deletions \subseteq Nat
  BY ShellFields DEF SidebarFacts, InboxFacts, MarksOK
<1>2. Len(s2.inbox) = 0
  BY <1>1
<1>3. InboxFacts(s2, k.published, k.stored) /\ ReadFacts(s2, k)
  BY <1>1, <1>2 DEF InboxFacts, ReadFacts
<1>4. \A n \in Nat : Reached(s2, k, n) => Reached(s, k, n)
  BY <1>1, <1>2 DEF Reached
<1>5. EndFacts(s, cur, t, k)
  BY DEF SidebarFacts
<1>6. EndFacts(s2, cur, t, k)
  BY <1>1, <1>4, <1>5 DEF EndFacts
<1> QED BY <1>3, <1>6 DEF SidebarFacts

\* The stream comes to event h and is done with it.
LEMMA ReachedNext ==
  ASSUME NEW k, MarksOK(k), NEW s \in ShellType(k.stored), NEW s2,
         InboxFacts(s, k.published, k.stored), s.inbox # <<>>,
         s2.stage = "live", s2.inbox = Tail(s.inbox), s2.row = 0, s2.at = s.at,
         s2.joined = s.joined, NEW h, h = Head(s.inbox), s2.lost \in {s.lost, s.lost \cup {h}}
  PROVE  /\ InboxFacts(s2, k.published, k.stored) /\ ReadFacts(s2, k)
         /\ h \in Nat \ {0} /\ s.stage = "live"
         /\ \A n \in Nat : Reached(s2, k, n) /\ n # h => Reached(s, k, n)
         /\ h \in s2.lost /\ Reached(s2, k, h) => Reached(s, k, h)
         /\ \A n \in Nat : Reached(s2, k, n) => n <= s.at \/ n <= h
<1>1. k.stored \in Nat /\ k.published \in 0..k.stored
  BY DEF MarksOK
<1>2. /\ s.stage = "live" /\ h \in 1..k.stored
      /\ h + Len(s.inbox) = k.published + 1
      /\ s.joined < h
      /\ Len(s2.inbox) = Len(s.inbox) - 1
      /\ \A i \in 1..Len(s2.inbox) : s2.inbox[i] = (k.published - Len(s2.inbox)) + i
  <2>1. /\ s.stage = "live" /\ Head(s.inbox) \in 1..k.stored
        /\ Head(s.inbox) + Len(s.inbox) = k.published + 1
        /\ s.joined < Head(s.inbox)
        /\ Len(Tail(s.inbox)) = Len(s.inbox) - 1
        /\ \A i \in 1..Len(Tail(s.inbox)) :
             Tail(s.inbox)[i] = (k.published - Len(Tail(s.inbox))) + i
    BY <1>1, InboxHead
  <2> QED BY <2>1, Zenon
<1>3. /\ Len(s.inbox) \in Nat \ {0} /\ s.at \in Nat /\ s.joined \in Nat
      /\ s.at <= k.stored /\ s.joined + Len(s.inbox) <= k.published
      /\ k.published \in Nat
  BY <1>1, <1>2, ShellFields DEF InboxFacts
<1>4. InboxFacts(s2, k.published, k.stored) /\ ReadFacts(s2, k)
  <2>1. s2.joined + Len(s2.inbox) <= k.published
    BY <1>2, <1>3
  <2> QED BY <1>2, <1>3, <2>1 DEF InboxFacts, ReadFacts
<1>5. ASSUME NEW n \in Nat, Reached(s2, k, n)
      PROVE  (n # h => Reached(s, k, n)) /\ (n <= s.at \/ n <= h)
  <2>1. n <= s.at \/ (s.joined < n /\ n + (Len(s.inbox) - 1) <= k.published /\ n \notin s2.lost)
    BY <1>2, <1>5 DEF Reached
  <2>2. n <= s.at \/ (n <= h /\ s.joined < n /\ n \notin s.lost)
    BY <1>2, <1>3, <2>1
  <2>3. n # h /\ n <= h => n + Len(s.inbox) <= k.published
    BY <1>2, <1>3
  <2> QED BY <1>2, <2>2, <2>3 DEF Reached
<1>6. h \in s2.lost /\ Reached(s2, k, h) => Reached(s, k, h)
  BY DEF Reached
<1> QED BY <1>2, <1>4, <1>5, <1>6

\* An event the stream sends nothing for is of another thread, is lost, or is followed by
\* the deletion.
LEMMA SidebarOfSilence ==
  ASSUME NEW k, MarksOK(k), NEW s \in ShellType(k.stored), NEW s2, NEW cur, NEW t,
         SidebarFacts(s, cur, t, k), s.inbox # <<>>,
         s2.stage = "live", s2.inbox = Tail(s.inbox), s2.row = 0, s2.at = s.at,
         s2.joined = s.joined, NEW h, h = Head(s.inbox), s2.lost \in {s.lost, s.lost \cup {h}},
         s2.wire = s.wire,
         h \in k.events /\ h \notin s2.lost => h \notin k.deletions /\ k.deletions # {}
  PROVE  SidebarFacts(s2, cur, t, k)
<1>1. /\ InboxFacts(s2, k.published, k.stored) /\ ReadFacts(s2, k)
      /\ h \in Nat \ {0} /\ s.stage = "live"
      /\ \A n \in Nat : Reached(s2, k, n) /\ n # h => Reached(s, k, n)
      /\ h \in s2.lost /\ Reached(s2, k, h) => Reached(s, k, h)
  BY ReachedNext DEF SidebarFacts
<1>2. /\ k.last \in Nat /\ k.deletions \subseteq Nat /\ k.deletions \subseteq k.events
      /\ k.last # 0 => k.last \in k.events
  BY DEF MarksOK
<1>3. EndFacts(s, cur, t, k)
  BY DEF SidebarFacts
<1>4. EndFacts(s2, cur, t, k)
  <2>1. k.deletions = {} /\ Reached(s2, k, k.last) => Reached(s, k, k.last)
    BY <1>1, <1>2
  <2>2. \A d \in k.deletions : Reached(s2, k, d) => Reached(s, k, d)
    BY <1>1, <1>2
  <2> QED BY <1>1, <1>3, <2>1, <2>2 DEF EndFacts
<1> QED BY <1>1, <1>4 DEF SidebarFacts

\* What it sends is the removal, or the row as it was read.
LEMMA SidebarOfSending ==
  ASSUME NEW k, MarksOK(k), NEW s \in ShellType(k.stored), NEW s2, NEW cur, NEW t,
         SidebarFacts(s, cur, t, k), s.inbox # <<>>,
         s2.stage = "live", s2.inbox = Tail(s.inbox), s2.row = 0, s2.at = s.at,
         s2.joined = s.joined, NEW h, h = Head(s.inbox), s2.lost = s.lost,
         NEW item \in ShellItem, s2.wire = Append(s.wire, item),
         Touches(item, t) =>
           \/ h \in k.deletions /\ Tells(item, t) = None
           \/ /\ s.row # 0 /\ h \in k.events
              /\ Tells(item, t) = [title |-> s.row, session |-> k.session],
         ~ Touches(item, t) => h \notin k.events
  PROVE  SidebarFacts(s2, cur, t, k)
<1>1. /\ InboxFacts(s2, k.published, k.stored) /\ ReadFacts(s2, k)
      /\ h \in Nat \ {0} /\ s.stage = "live"
      /\ \A n \in Nat : Reached(s2, k, n) /\ n # h => Reached(s, k, n)
      /\ \A n \in Nat : Reached(s2, k, n) => n <= s.at \/ n <= h
  BY ReachedNext DEF SidebarFacts
<1>2. /\ k.last \in Nat /\ k.deletions \subseteq Nat /\ k.deletions \subseteq k.events
      /\ k.last # 0 => k.last \in k.events
      /\ k.row = IF k.title = 0 THEN None ELSE [title |-> k.title, session |-> k.session]
  BY DEF MarksOK
<1>3. EndFacts(s, cur, t, k) /\ ReadFacts(s, k) /\ s.wire \in Seq(ShellItem)
      /\ s.at \in Nat
  BY ShellFields DEF SidebarFacts, MarksOK
<1>4. CASE ~ Touches(item, t)
  <2>1. k.deletions = {} /\ Reached(s2, k, k.last) => Reached(s, k, k.last)
    BY <1>1, <1>2, <1>4
  <2>2. \A d \in k.deletions : Reached(s2, k, d) => Reached(s, k, d)
    BY <1>1, <1>2, <1>4
  <2>3. \A r : EndsAs(s.wire, cur, t, r) => EndsAs(s2.wire, cur, t, r)
    BY <1>3, <1>4, EndsAppend
  <2>4. EndFacts(s2, cur, t, k)
    BY <1>1, <1>3, <2>1, <2>2, <2>3 DEF EndFacts
  <2> QED BY <1>1, <2>4 DEF SidebarFacts
<1>5. CASE Touches(item, t)
  <2>1. EndsAs(s2.wire, cur, t, Tells(item, t))
    BY <1>3, <1>5, EndsAppend
  <2>2. CASE h \in k.deletions /\ Tells(item, t) = None
    <3>1. EndFacts(s2, cur, t, k)
      BY <2>1, <2>2 DEF EndFacts
    <3> QED BY <1>1, <3>1 DEF SidebarFacts
  <2>3. CASE /\ s.row # 0 /\ h \in k.events
             /\ Tells(item, t) = [title |-> s.row, session |-> k.session]
    <3>1. /\ \A d \in k.deletions : s.at < d /\ h < d
          /\ k.last <= s.at \/ k.last <= h => s.row = k.title
      BY <1>3, <2>3 DEF ReadFacts
    <3>2. Reached(s2, k, k.last) => Tells(item, t) = k.row
      BY <1>1, <1>2, <2>3, <3>1
    <3>3. ASSUME NEW d \in k.deletions PROVE ~ Reached(s2, k, d)
      <4>1. d \in Nat /\ s.at < d /\ h < d /\ s.at \in Nat /\ h \in Nat
        BY <1>1, <1>2, <1>3, <3>1
      <4>2. Reached(s2, k, d) => d <= s.at \/ d <= h
        BY <1>1, <4>1
      <4> QED BY <4>1, <4>2
    <3>4. EndFacts(s2, cur, t, k)
      BY <2>1, <3>2, <3>3 DEF EndFacts
    <3> QED BY <1>1, <3>4 DEF SidebarFacts
  <2> QED BY <1>5, <2>2, <2>3
<1> QED BY <1>4, <1>5

LEMMA SidebarOfRow ==
  ASSUME NEW k, MarksOK(k), NEW s \in ShellType(k.stored), NEW s2, NEW cur, NEW t,
         SidebarFacts(s, cur, t, k), s.inbox # <<>>,
         s2.stage = s.stage, s2.inbox = s.inbox, s2.wire = s.wire, s2.at = s.at,
         s2.joined = s.joined, s2.lost = s.lost,
         Head(s.inbox) \in k.events => s2.row = k.title /\ k.title # 0
  PROVE  SidebarFacts(s2, cur, t, k)
<1>1. s.stage = "live"
  BY DEF SidebarFacts, InboxFacts
<1>2. InboxFacts(s2, k.published, k.stored) /\ EndFacts(s2, cur, t, k)
  BY <1>1 DEF SidebarFacts, InboxFacts, EndFacts, Reached
<1>3. ReadFacts(s2, k)
  BY DEF ReadFacts, MarksOK
<1> QED BY <1>2, <1>3 DEF SidebarFacts

\* Inbox u is inbox q with event n behind it.
Grows(q, u, n) ==
  /\ Len(u) = Len(q) + 1 /\ u # <<>>
  /\ q # <<>> => Head(u) = Head(q)
  /\ \A i \in 1..Len(u) : u[i] = (n - Len(u)) + i

LEMMA InboxAppend ==
  ASSUME NEW S, NEW q \in Seq(S), NEW p \in Nat, NEW n \in S, n = p + 1,
         NEW u, u = Append(q, n),
         \A i \in 1..Len(q) : q[i] = (p - Len(q)) + i
  PROVE  Grows(q, u, n)
<1>1. /\ Len(u) = Len(q) + 1 /\ u # <<>> /\ Len(q) \in Nat
      /\ \A i \in 1..Len(q) : u[i] = q[i]
      /\ u[Len(q) + 1] = n
      /\ q # <<>> => Head(u) = Head(q)
  OBVIOUS
<1>2. ASSUME NEW i \in 1..Len(u) PROVE u[i] = (n - Len(u)) + i
  <2>1. p - Len(q) = n - Len(u)
    BY <1>1
  <2>2. CASE i \in 1..Len(q)
    BY <1>1, <2>1, <2>2
  <2>3. CASE i = Len(q) + 1
    BY <1>1, <2>3
  <2> QED BY <1>1, <2>2, <2>3
<1> QED BY <1>1, <1>2 DEF Grows

\* What is published waits behind the rest.
LEMMA SidebarOfPublishing ==
  ASSUME NEW k, MarksOK(k), NEW k2, NEW s \in ShellType(k.stored), NEW s2, NEW cur, NEW t,
         SidebarFacts(s, cur, t, k), k.published < k.stored,
         NEW next, next = k.published + 1, k2.published = next,
         k2.stored = k.stored, k2.title = k.title, k2.row = k.row,
         k2.events = k.events, k2.last = k.last, k2.deletions = k.deletions,
         s2.stage = s.stage, s2.row = s.row, s2.wire = s.wire, s2.at = s.at,
         s2.joined = s.joined, s2.lost = s.lost,
         s2.inbox = IF s.stage = "live" THEN Append(s.inbox, next) ELSE s.inbox
  PROVE  SidebarFacts(s2, cur, t, k2)
<1>1. /\ k.stored \in Nat /\ k.published \in Nat /\ k.last \in Nat /\ k.deletions \subseteq Nat
      /\ s.inbox \in Seq(1..k.stored) /\ Len(s.inbox) \in Nat
      /\ s.inbox = <<>> <=> Len(s.inbox) = 0
      /\ s.joined \in Nat /\ s.at \in Nat
  BY ShellFields DEF MarksOK
<1>2. InboxFacts(s, k.published, k.stored) /\ ReadFacts(s, k) /\ EndFacts(s, cur, t, k)
  BY DEF SidebarFacts
<1>3. CASE s.stage # "live"
  <2>1. InboxFacts(s2, k2.published, k2.stored)
    BY <1>2, <1>3 DEF InboxFacts
  <2>2. ReadFacts(s2, k2)
    BY <1>2, <1>3 DEF InboxFacts, ReadFacts
  <2>3. \A n : Reached(s2, k2, n) => Reached(s, k, n)
    BY <1>3 DEF Reached
  <2>4. EndFacts(s2, cur, t, k2)
    BY <1>2, <2>3 DEF EndFacts
  <2> QED BY <2>1, <2>2, <2>4 DEF SidebarFacts
<1>4. CASE s.stage = "live"
  <2>11. s2.inbox = Append(s.inbox, next)
    BY <1>4, Zenon
  <2>12. next \in 1..k.stored
    BY <1>1
  <2>1. s2.inbox = Append(s.inbox, next) /\ next \in 1..k.stored
    BY <2>11, <2>12, Zenon
  <2>2. /\ s.joined + Len(s.inbox) <= k.published /\ s.at <= k.stored
        /\ \A i \in 1..Len(s.inbox) : s.inbox[i] = (k.published - Len(s.inbox)) + i
        /\ s.row # 0 => s.inbox # <<>>
    BY <1>2, <1>4 DEF InboxFacts
  <2>3. Grows(s.inbox, s2.inbox, next)
    BY <1>1, <2>1, <2>2, InboxAppend
  <2>4. /\ Len(s2.inbox) = Len(s.inbox) + 1 /\ s2.inbox # <<>>
        /\ s.inbox # <<>> => Head(s2.inbox) = Head(s.inbox)
        /\ \A i \in 1..Len(s2.inbox) : s2.inbox[i] = (next - Len(s2.inbox)) + i
    BY <2>3, Zenon DEF Grows
  <2>5. s2.joined + Len(s2.inbox) <= k2.published
    BY <1>1, <2>2, <2>4
  <2>6. InboxFacts(s2, k2.published, k2.stored)
    BY <1>4, <2>2, <2>4, <2>5 DEF InboxFacts
  <2>7. ReadFacts(s2, k2)
    BY <1>2, <2>2, <2>4 DEF ReadFacts
  <2>8. \A n \in Nat : Reached(s2, k2, n) => Reached(s, k, n)
    BY <1>1, <2>4 DEF Reached
  <2>9. EndFacts(s2, cur, t, k2)
    BY <1>1, <1>2, <2>8 DEF EndFacts
  <2> QED BY <2>6, <2>7, <2>9 DEF SidebarFacts
<1> QED BY <1>3, <1>4

\* What is stored is still to come.
LEMMA SidebarOfStoring ==
  ASSUME NEW k, MarksOK(k), NEW k2, NEW s \in ShellType(k.stored), NEW cur, NEW t,
         SidebarFacts(s, cur, t, k), k.published = k.stored,
         k2.published = k.published, k2.stored = k.stored + 1,
         \/ /\ k2.events = k.events /\ k2.last = k.last /\ k2.deletions = k.deletions
            /\ k2.title = k.title /\ k2.row = k.row
         \/ /\ k2.events = k.events \cup {k2.stored} /\ k2.last = k2.stored
            /\ k2.deletions \in {k.deletions, k.deletions \cup {k2.stored}}
  PROVE  SidebarFacts(s, cur, t, k2)
<1>1. /\ k.stored \in Nat /\ k.published \in Nat /\ k.last \in Nat /\ k.deletions \subseteq Nat
      /\ k2.stored \in Nat /\ k2.last \in Nat /\ k2.deletions \subseteq Nat
      /\ Len(s.inbox) \in Nat /\ s.joined \in Nat /\ s.at \in Nat
  BY ShellFields DEF MarksOK
<1>2. InboxFacts(s, k.published, k.stored) /\ ReadFacts(s, k) /\ EndFacts(s, cur, t, k)
  BY DEF SidebarFacts
<1>3. InboxFacts(s, k2.published, k2.stored)
  <2>1. s.at <= k2.stored
    BY <1>1, <1>2 DEF InboxFacts
  <2> QED BY <1>2, <2>1 DEF InboxFacts
<1>4. s.at < k2.stored /\ ~ Reached(s, k2, k2.stored)
  <2>1. s.at <= k.stored
    BY <1>2 DEF InboxFacts
  <2> QED BY <1>1, <2>1 DEF Reached
<1>5. \A n : Reached(s, k2, n) <=> Reached(s, k, n)
  BY DEF Reached
<1>6. s.row # 0 => Head(s.inbox) \in Nat /\ Head(s.inbox) < k2.stored
  <2>1. ASSUME s.row # 0 PROVE Head(s.inbox) \in 1..k.stored
    <3>1. s.inbox # <<>> /\ k.published \in 0..k.stored /\ k.stored \in Nat
      BY <1>1, <1>2, <2>1 DEF InboxFacts
    <3>2. InboxFacts(s, k.published, k.stored)
      BY <1>2
    <3> QED BY <3>1, <3>2, InboxHead
  <2>2. \A h \in 1..k.stored : h \in Nat /\ h < k2.stored
    BY <1>1
  <2> QED BY <2>1, <2>2
<1>7. CASE /\ k2.events = k.events /\ k2.last = k.last /\ k2.deletions = k.deletions
           /\ k2.title = k.title /\ k2.row = k.row
  <2>1. ReadFacts(s, k2) /\ EndFacts(s, cur, t, k2)
    BY <1>2, <1>5, <1>7 DEF ReadFacts, EndFacts
  <2> QED BY <1>3, <2>1 DEF SidebarFacts
<1>8. CASE /\ k2.events = k.events \cup {k2.stored} /\ k2.last = k2.stored
           /\ k2.deletions \in {k.deletions, k.deletions \cup {k2.stored}}
  <2>1. EndFacts(s, cur, t, k2)
    BY <1>2, <1>4, <1>5, <1>8 DEF EndFacts
  <2>2. ASSUME s.row # 0, Head(s.inbox) \in k2.events
        PROVE  /\ \A d \in k2.deletions : s.at < d /\ Head(s.inbox) < d
               /\ ~ (k2.last <= s.at \/ k2.last <= Head(s.inbox))
    <3>1. Head(s.inbox) \in k.events
      BY <1>1, <1>6, <1>8, <2>2
    <3>2. \A d \in k.deletions : s.at < d /\ Head(s.inbox) < d
      BY <1>2, <2>2, <3>1 DEF ReadFacts
    <3>3. ~ (k2.last <= s.at \/ k2.last <= Head(s.inbox))
      BY <1>1, <1>4, <1>6, <1>8, <2>2
    <3> QED BY <1>4, <1>6, <1>8, <2>2, <3>2, <3>3
  <2>3. ReadFacts(s, k2)
    BY <2>2 DEF ReadFacts
  <2> QED BY <1>3, <2>1, <2>3 DEF SidebarFacts
<1> QED BY <1>7, <1>8

\* What the client takes from the wire it shows.
LEMMA SidebarOfDelivery ==
  ASSUME NEW k, MarksOK(k), NEW s \in ShellType(k.stored), NEW s2, NEW cur, NEW cur2, NEW t,
         SidebarFacts(s, cur, t, k), s.wire # <<>>,
         s2.stage = s.stage, s2.row = s.row, s2.inbox = s.inbox, s2.at = s.at,
         s2.joined = s.joined, s2.lost = s.lost, s2.wire = Tail(s.wire),
         NEW item, item = Head(s.wire),
         cur2 = IF Touches(item, t) THEN Tells(item, t) ELSE cur
  PROVE  SidebarFacts(s2, cur2, t, k)
<1>1. InboxFacts(s, k.published, k.stored) /\ ReadFacts(s, k) /\ EndFacts(s, cur, t, k)
  BY DEF SidebarFacts
<1>2. s.wire \in Seq(ShellItem)
  BY ShellFields DEF MarksOK
<1>3. item = s.wire[1]
  BY <1>2
<1>4. cur2 = IF Touches(s.wire[1], t) THEN Tells(s.wire[1], t) ELSE cur
  BY <1>3
<1>5. \A r : EndsAs(s.wire, cur, t, r) => EndsAs(s2.wire, cur2, t, r)
  BY <1>2, <1>4, EndsTail
<1>6. \A n : Reached(s2, k, n) <=> Reached(s, k, n)
  BY DEF Reached
<1>7. EndFacts(s2, cur2, t, k)
  BY <1>1, <1>5, <1>6 DEF EndFacts
<1>8. InboxFacts(s2, k.published, k.stored) /\ ReadFacts(s2, k)
  BY <1>1 DEF InboxFacts, ReadFacts
<1> QED BY <1>7, <1>8 DEF SidebarFacts

-----------------------------------------------------------------------------
(* Every thread in the sidebar, in every step.                             *)

SidebarsInv == \A t \in Threads : SidebarFacts(shell, summary[t], t, Marks(t))

LEMMA MarksTyped ==
  ASSUME log \in Seq(Event), published \in 0..Len(log), NEW t,
         \A i \in 1..Len(log) : Created(log[i].thread)
  PROVE  MarksOK(Marks(t))
<1>1. /\ TitleOf(t) \in Nat /\ SessionOf(t) \in Nat /\ Len(log) \in Nat
      /\ LastOf(t, EventTypes) \in Nat
      /\ LastOf(t, EventTypes) # 0 => LastOf(t, EventTypes) \in EventsOf(t, EventTypes)
  <2>1. EventsOf(t, EventTypes) = {} => LastOf(t, EventTypes) = 0
    BY DEF LastOf
  <2> QED BY <2>1, NoTitle, LastIsThere
<1>2. EventsOf(t, EventTypes) \subseteq 1..Len(log)
      /\ Deletions(t) \subseteq EventsOf(t, EventTypes)
  BY DEF EventsOf, Deletions, EventTypes
<1>3. Deletions(t) # {} <=> Deleted(t)
  BY DEF Deletions, Deleted
<1>4. EventsOf(t, EventTypes) # {} => Created(t)
  BY DEF EventsOf
<1>5. /\ Deletions(t) # {} => TitleOf(t) = 0
      /\ TitleOf(t) = 0 /\ EventsOf(t, EventTypes) # {} => Deletions(t) # {}
  BY <1>3, <1>4, NoTitle
<1> QED BY <1>1, <1>2, <1>5 DEF MarksOK, Marks, RowOf

LEMMA MarksKept ==
  ASSUME UNCHANGED <<log, published>>
  PROVE  \A t : Marks(t)' = Marks(t)
BY DEF Marks, TitleOf, SessionOf, RowOf, Deletions, Deleted, LastOf, EventsOf

\* What holds of the marks and the sidebar before a step.
LEMMA SidebarBefore ==
  ASSUME TypeOK, IInv, SidebarsInv, NEW t \in Threads
  PROVE  /\ MarksOK(Marks(t)) /\ Marks(t).stored = Len(log)
         /\ shell \in ShellType(Marks(t).stored)
         /\ SidebarFacts(shell, summary[t], t, Marks(t))
<1>1. log \in Seq(Event) /\ published \in 0..Len(log) /\ shell \in ShellType(Len(log))
  BY TypeParts
<1>2. \A i \in 1..Len(log) : Created(log[i].thread)
  BY DEF IInv, KnownInv
<1>3. Marks(t).stored = Len(log)
  BY DEF Marks
<1> QED BY <1>1, <1>2, <1>3, MarksTyped DEF SidebarsInv

LEMMA SidebarsNow ==
  (\A t \in Threads : SidebarFacts(shell', summary'[t], t, Marks(t)')) => SidebarsInv'
BY DEF SidebarsInv

\* A step of neither the engine nor the shell stream.
LEMMA SidebarStays ==
  ASSUME SidebarsInv, UNCHANGED <<log, published, shell>>, NEW t \in Threads,
         summary'[t] = summary[t]
  PROVE  SidebarFacts(shell', summary'[t], t, Marks(t)')
<1>1. Marks(t)' = Marks(t)
  BY MarksKept
<1> QED BY <1>1 DEF SidebarsInv

LEMMA StoreKeepsSidebars ==
  ASSUME TypeOK, IInv, SidebarsInv, NEW e \in Event, Store(e)
  PROVE  SidebarsInv'
<1>1. /\ log' = Append(log, e) /\ published = Len(log) /\ published' = published
      /\ UNCHANGED <<shell, summary>>
  BY DEF Store, store
<1>2. log \in Seq(Event) /\ Len(log') = Len(log) + 1
  BY <1>1, TypeParts
<1>3. ASSUME NEW t \in Threads PROVE SidebarFacts(shell', summary'[t], t, Marks(t)')
  <2>1. /\ MarksOK(Marks(t)) /\ shell \in ShellType(Marks(t).stored)
        /\ SidebarFacts(shell, summary[t], t, Marks(t))
    BY SidebarBefore
  <2>2. /\ Marks(t).published = Marks(t).stored
        /\ Marks(t)'.published = Marks(t).published
        /\ Marks(t)'.stored = Marks(t).stored + 1
    BY <1>1, <1>2 DEF Marks
  <2>3. CASE e.thread = t
    <3>1. /\ EventsOf(t, EventTypes)' = EventsOf(t, EventTypes) \cup {Len(log) + 1}
          /\ LastOf(t, EventTypes)' = Len(log) + 1
      BY <1>1, <1>2, <2>3, EventsAfter DEF Event
    <3>2. Deletions(t)' \in {Deletions(t), Deletions(t) \cup {Len(log) + 1}}
      BY <1>1, <1>2, EventsAfter DEF Deletions
    <3>3. /\ Marks(t)'.events = Marks(t).events \cup {Marks(t)'.stored}
          /\ Marks(t)'.last = Marks(t)'.stored
          /\ Marks(t)'.deletions
               \in {Marks(t).deletions, Marks(t).deletions \cup {Marks(t)'.stored}}
      BY <1>2, <3>1, <3>2 DEF Marks
    <3>4. SidebarFacts(shell, summary[t], t, Marks(t)')
      BY <2>1, <2>2, <3>3, SidebarOfStoring
    <3> QED BY <1>1, <3>4
  <2>4. CASE e.thread # t
    <3>1. \A types : /\ EventsOf(t, types)' = EventsOf(t, types)
                     /\ LastOf(t, types)' = LastOf(t, types)
      BY <1>1, <1>2, <2>4, EventsAfter
    <3>2. TitleOf(t)' = TitleOf(t) /\ SessionOf(t)' = SessionOf(t)
          /\ Deletions(t)' = Deletions(t)
      BY <3>1 DEF TitleOf, SessionOf, Deleted, Deletions
    <3>3. RowOf(t)' = RowOf(t)
      BY <3>2 DEF RowOf
    <3>4. /\ Marks(t)'.events = Marks(t).events /\ Marks(t)'.last = Marks(t).last
          /\ Marks(t)'.deletions = Marks(t).deletions
          /\ Marks(t)'.title = Marks(t).title /\ Marks(t)'.row = Marks(t).row
      BY <3>1, <3>2, <3>3 DEF Marks
    <3>5. SidebarFacts(shell, summary[t], t, Marks(t)')
      BY <2>1, <2>2, <3>4, SidebarOfStoring
    <3> QED BY <1>1, <3>5
  <2> QED BY <2>3, <2>4
<1> QED BY <1>3, SidebarsNow

LEMMA PublishKeepsSidebars ==
  ASSUME TypeOK, IInv, SidebarsInv, Publish
  PROVE  SidebarsInv'
<1>0. PICK next : next = published + 1
  OBVIOUS
<1>1. /\ published < Len(log) /\ published' = published + 1 /\ UNCHANGED <<log, summary>>
      /\ shell' = IF shell.stage = "live"
                    THEN [shell EXCEPT !.inbox = Append(@, published + 1)] ELSE shell
  BY DEF Publish, store
<1>2. shell \in ShellType(Len(log))
  BY TypeParts
<1>3. /\ shell'.stage = shell.stage /\ shell'.row = shell.row /\ shell'.wire = shell.wire
      /\ shell'.at = shell.at /\ shell'.joined = shell.joined /\ shell'.lost = shell.lost
      /\ shell'.inbox = IF shell.stage = "live" THEN Append(shell.inbox, next)
                        ELSE shell.inbox
  BY <1>0, <1>1, <1>2 DEF ShellType
<1>4. ASSUME NEW t \in Threads PROVE SidebarFacts(shell', summary'[t], t, Marks(t)')
  <2>1. /\ MarksOK(Marks(t)) /\ shell \in ShellType(Marks(t).stored)
        /\ SidebarFacts(shell, summary[t], t, Marks(t))
    BY SidebarBefore
  <2>2. /\ TitleOf(t)' = TitleOf(t) /\ RowOf(t)' = RowOf(t)
        /\ EventsOf(t, EventTypes)' = EventsOf(t, EventTypes)
        /\ LastOf(t, EventTypes)' = LastOf(t, EventTypes) /\ Deletions(t)' = Deletions(t)
    BY <1>1 DEF TitleOf, SessionOf, RowOf, Deletions, Deleted, LastOf, EventsOf
  <2>3. /\ Marks(t).published < Marks(t).stored /\ next = Marks(t).published + 1
        /\ Marks(t)'.published = next /\ Marks(t)'.stored = Marks(t).stored
        /\ Marks(t)'.title = Marks(t).title /\ Marks(t)'.row = Marks(t).row
        /\ Marks(t)'.events = Marks(t).events /\ Marks(t)'.last = Marks(t).last
        /\ Marks(t)'.deletions = Marks(t).deletions
    BY <1>0, <1>1, <2>2 DEF Marks
  <2>4. SidebarFacts(shell', summary[t], t, Marks(t)')
    BY <1>3, <2>1, <2>3, SidebarOfPublishing
  <2> QED BY <1>1, <2>4
<1> QED BY <1>4, SidebarsNow

\* Whose event the stream has come to.
LEMMA HeadEvent ==
  ASSUME TypeOK, HasShellEvent
  PROVE  /\ Head(shell.inbox) \in 1..Len(log) /\ log[Head(shell.inbox)] \in Event
         /\ log[Head(shell.inbox)].thread \in Threads
         /\ \A t : Head(shell.inbox) \in Marks(t).events
                     <=> log[Head(shell.inbox)].thread = t
         /\ \A t : Head(shell.inbox) \in Marks(t).deletions
                     <=> /\ log[Head(shell.inbox)].thread = t
                         /\ log[Head(shell.inbox)].type = "thread.deleted"
<1>1. log \in Seq(Event) /\ shell.inbox \in Seq(1..Len(log)) /\ shell.inbox # <<>>
  BY TypeParts DEF ShellType, HasShellEvent
<1>2. PICK h : h = Head(shell.inbox)
  OBVIOUS
<1>3. h \in 1..Len(log)
  BY <1>1, <1>2, HeadAndTail
<1>4. log[h] \in Event /\ log[h].thread \in Threads /\ log[h].type \in EventTypes
  <2>1. log[h] \in Event
    BY <1>1, <1>3
  <2> QED BY <2>1 DEF Event
<1>5. \A t : h \in Marks(t).events <=> log[h].thread = t
  BY <1>3, <1>4 DEF Marks, EventsOf
<1>6. \A t : h \in Marks(t).deletions
               <=> log[h].thread = t /\ log[h].type = "thread.deleted"
  BY <1>3 DEF Marks, Deletions, EventsOf
<1> QED BY <1>2, <1>3, <1>4, <1>5, <1>6

LEMMA ReadShellSnapshotKeepsSidebars ==
  ASSUME TypeOK, IInv, SidebarsInv, ReadShellSnapshot
  PROVE  SidebarsInv'
<1> DEFINE item == [kind |-> "snapshot", rows |-> [t \in Threads |-> RowOf(t)]]
<1>1. /\ shell.stage = "asked" /\ UNCHANGED <<log, published, summary>>
      /\ shell' = [shell EXCEPT !.stage = "read", !.at = Len(log), !.wire = <<item>>]
  BY DEF ReadShellSnapshot, server, store
<1>2. shell \in ShellType(Len(log)) /\ log \in Seq(Event) /\ Len(log) \in Nat
  BY TypeParts, LengthTyped
<1>3. item \in ShellItem
  BY <1>2, RowsTyped DEF ShellItem
<1>4. item.kind = "snapshot" /\ \A t \in Threads : item.rows[t] = RowOf(t)
  OBVIOUS
<1> HIDE DEF item
<1>5. /\ shell'.stage = "read" /\ shell'.at = Len(log) /\ shell'.wire = <<item>>
      /\ shell'.inbox = shell.inbox /\ shell'.row = shell.row
      /\ shell' \in ShellType(Len(log))
  <2>1. PICK w : w = <<item>>
    OBVIOUS
  <2>2. w \in Seq(ShellItem)
    BY <1>3, <2>1
  <2>3. shell' = [shell EXCEPT !.stage = "read", !.at = Len(log), !.wire = w]
    BY <1>1, <2>1
  <2>4. /\ shell'.stage = "read" /\ shell'.at = Len(log) /\ shell'.wire = w
        /\ shell'.inbox = shell.inbox /\ shell'.row = shell.row
        /\ shell' \in ShellType(Len(log))
    BY <1>2, <2>2, <2>3 DEF ShellType
  <2> QED BY <2>1, <2>4
<1>6. ASSUME NEW t \in Threads PROVE SidebarFacts(shell', summary'[t], t, Marks(t)')
  <2>1. /\ MarksOK(Marks(t)) /\ Marks(t).stored = Len(log)
        /\ SidebarFacts(shell, summary[t], t, Marks(t))
    BY SidebarBefore
  <2>2. shell.inbox = <<>> /\ shell.row = 0
    BY <1>1, <2>1 DEF SidebarFacts, InboxFacts
  <2>3. item.rows[t] = Marks(t).row
    BY <1>4 DEF Marks
  <2>4. SidebarFacts(shell', summary[t], t, Marks(t))
    BY <1>3, <1>4, <1>5, <2>1, <2>2, <2>3, SidebarOfSnapshot
  <2>5. Marks(t)' = Marks(t)
    BY <1>1, MarksKept
  <2> QED BY <1>1, <2>4, <2>5
<1> QED BY <1>6, SidebarsNow

LEMMA JoinShellKeepsSidebars ==
  ASSUME TypeOK, IInv, SidebarsInv, JoinShell
  PROVE  SidebarsInv'
<1>1. /\ shell.stage = "read" /\ UNCHANGED <<log, published, summary>>
      /\ shell' = [shell EXCEPT !.stage = "live", !.joined = published]
  BY DEF JoinShell, server, store
<1>2. shell \in ShellType(Len(log))
  BY TypeParts
<1>3. /\ shell'.stage = "live" /\ shell'.joined = published
      /\ shell'.inbox = shell.inbox /\ shell'.row = shell.row
      /\ shell'.wire = shell.wire /\ shell'.at = shell.at
  BY <1>1, <1>2 DEF ShellType
<1>4. ASSUME NEW t \in Threads PROVE SidebarFacts(shell', summary'[t], t, Marks(t)')
  <2>1. /\ MarksOK(Marks(t)) /\ shell \in ShellType(Marks(t).stored)
        /\ SidebarFacts(shell, summary[t], t, Marks(t))
    BY SidebarBefore
  <2>2. Marks(t).published = published
    BY DEF Marks
  <2>3. SidebarFacts(shell', summary[t], t, Marks(t))
    BY <1>1, <1>3, <2>1, <2>2, SidebarOfJoining
  <2>4. Marks(t)' = Marks(t)
    BY <1>1, MarksKept
  <2> QED BY <1>1, <2>3, <2>4
<1> QED BY <1>4, SidebarsNow

LEMMA MapDeletionKeepsSidebars ==
  ASSUME TypeOK, IInv, SidebarsInv, MapDeletion
  PROVE  SidebarsInv'
<1> DEFINE h == Head(shell.inbox)
           item == [kind |-> "removed", thread |-> log[h].thread]
<1>1. /\ HasShellEvent /\ log[h].type = "thread.deleted"
      /\ UNCHANGED <<log, published, summary>>
      /\ shell' = [shell EXCEPT !.inbox = Tail(@), !.wire = Append(@, item)]
  BY DEF MapDeletion, server, store
<1>2. shell \in ShellType(Len(log))
  BY TypeParts
<1>3. item \in ShellItem
  BY <1>1, HeadEvent DEF ShellItem
<1>4. item.kind = "removed" /\ item.thread = log[h].thread
  OBVIOUS
<1>5. /\ \A t : h \in Marks(t).events <=> log[h].thread = t
      /\ \A t : h \in Marks(t).deletions
                  <=> log[h].thread = t /\ log[h].type = "thread.deleted"
  BY <1>1, HeadEvent
<1>6. shell.row = 0
  BY <1>1 DEF IInv, RowInv
<1>7. shell.stage = "live" /\ shell.inbox # <<>>
  BY <1>1 DEF HasShellEvent
<1> HIDE DEF item
<1>8. /\ shell'.stage = "live" /\ shell'.inbox = Tail(shell.inbox) /\ shell'.row = 0
      /\ shell'.at = shell.at /\ shell'.joined = shell.joined /\ shell'.lost = shell.lost
      /\ shell'.wire = Append(shell.wire, item)
  BY <1>1, <1>2, <1>6, <1>7 DEF ShellType
<1>9. ASSUME NEW t \in Threads PROVE SidebarFacts(shell', summary'[t], t, Marks(t)')
  <2>1. /\ MarksOK(Marks(t)) /\ shell \in ShellType(Marks(t).stored)
        /\ SidebarFacts(shell, summary[t], t, Marks(t))
    BY SidebarBefore
  <2>2. /\ Touches(item, t) => h \in Marks(t).deletions /\ Tells(item, t) = None
        /\ ~ Touches(item, t) => h \notin Marks(t).events
    BY <1>1, <1>4, <1>5 DEF Touches, Tells
  <2> HIDE DEF h
  <2>3. SidebarFacts(shell', summary[t], t, Marks(t))
    BY <1>3, <1>7, <1>8, <2>1, <2>2, SidebarOfSending DEF h
  <2>4. Marks(t)' = Marks(t)
    BY <1>1, MarksKept
  <2> QED BY <1>1, <2>3, <2>4
<1> QED BY <1>9, SidebarsNow

LEMMA ReadThreadRowKeepsSidebars ==
  ASSUME TypeOK, IInv, SidebarsInv, ReadThreadRow
  PROVE  SidebarsInv'
<1> DEFINE h == Head(shell.inbox)
           title == TitleOf(log[h].thread)
<1>1. /\ HasShellEvent /\ log[h].type # "thread.deleted" /\ shell.row = 0
      /\ UNCHANGED <<log, published, summary>>
      /\ shell' = IF title = 0 THEN [shell EXCEPT !.inbox = Tail(@)]
                  ELSE [shell EXCEPT !.row = title]
  BY DEF ReadThreadRow, server, store
<1>2. shell \in ShellType(Len(log))
  BY TypeParts
<1>3. /\ \A t : h \in Marks(t).events <=> log[h].thread = t
      /\ \A t : h \in Marks(t).deletions
                  <=> log[h].thread = t /\ log[h].type = "thread.deleted"
  BY <1>1, HeadEvent
<1>4. shell.stage = "live" /\ shell.inbox # <<>>
  BY <1>1 DEF HasShellEvent
<1>5. \A t : h \in Marks(t).events => Marks(t).title = title
  BY <1>3 DEF Marks
<1> HIDE DEF title
<1>6. /\ shell'.stage = "live" /\ shell'.wire = shell.wire /\ shell'.at = shell.at
      /\ shell'.joined = shell.joined /\ shell'.lost = shell.lost
      /\ title = 0 => shell'.inbox = Tail(shell.inbox) /\ shell'.row = 0
      /\ title # 0 => shell'.inbox = shell.inbox /\ shell'.row = title
  BY <1>1, <1>2, <1>4 DEF ShellType
<1>7. ASSUME NEW t \in Threads PROVE SidebarFacts(shell', summary'[t], t, Marks(t)')
  <2>1. /\ MarksOK(Marks(t)) /\ shell \in ShellType(Marks(t).stored)
        /\ SidebarFacts(shell, summary[t], t, Marks(t))
    BY SidebarBefore
  <2>2. CASE title = 0
    <3>1. h \in Marks(t).events => h \notin Marks(t).deletions /\ Marks(t).deletions # {}
      BY <1>1, <1>3, <1>5, <2>1, <2>2 DEF MarksOK
    <3> HIDE DEF h
    <3>2. SidebarFacts(shell', summary[t], t, Marks(t))
      BY <1>4, <1>6, <2>1, <2>2, <3>1, SidebarOfSilence DEF h
    <3> QED BY <1>1, <3>2, MarksKept
  <2>3. CASE title # 0
    <3>1. Head(shell.inbox) \in Marks(t).events
            => shell'.row = Marks(t).title /\ Marks(t).title # 0
      BY <1>5, <1>6, <2>3
    <3>2. SidebarFacts(shell', summary[t], t, Marks(t))
      BY <1>4, <1>6, <2>1, <2>3, <3>1, SidebarOfRow
    <3> QED BY <1>1, <3>2, MarksKept
  <2> QED BY <2>2, <2>3
<1> QED BY <1>7, SidebarsNow

LEMMA ReadSessionRowKeepsSidebars ==
  ASSUME TypeOK, IInv, SidebarsInv, ReadSessionRow
  PROVE  SidebarsInv'
<1> DEFINE h == Head(shell.inbox)
           row == [title |-> shell.row, session |-> SessionOf(log[h].thread)]
           item == [kind |-> "upserted", thread |-> log[h].thread, row |-> row]
<1>1. /\ HasShellEvent /\ shell.row # 0
      /\ UNCHANGED <<log, published, summary>>
      /\ shell' = [shell EXCEPT !.inbox = Tail(@), !.row = 0, !.wire = Append(@, item)]
  BY DEF ReadSessionRow, server, store
<1>2. shell \in ShellType(Len(log)) /\ log \in Seq(Event)
  BY TypeParts
<1>3. item \in ShellItem
  <2>1. log[h].thread \in Threads
    BY <1>1, HeadEvent
  <2>2. row \in Row
    BY <1>2, NoTitle DEF Row, ShellType
  <2> QED BY <2>1, <2>2 DEF ShellItem
<1>4. item.kind = "upserted" /\ item.thread = log[h].thread /\ item.row = row
  OBVIOUS
<1>5. \A t : h \in Marks(t).events <=> log[h].thread = t
  BY <1>1, HeadEvent
<1>6. \A t : log[h].thread = t => row = [title |-> shell.row, session |-> Marks(t).session]
  BY DEF Marks
<1>7. shell.stage = "live" /\ shell.inbox # <<>>
  BY <1>1 DEF HasShellEvent
<1> HIDE DEF item, row
<1>8. /\ shell'.stage = "live" /\ shell'.inbox = Tail(shell.inbox) /\ shell'.row = 0
      /\ shell'.at = shell.at /\ shell'.joined = shell.joined /\ shell'.lost = shell.lost
      /\ shell'.wire = Append(shell.wire, item)
  BY <1>1, <1>2, <1>7 DEF ShellType
<1>9. ASSUME NEW t \in Threads PROVE SidebarFacts(shell', summary'[t], t, Marks(t)')
  <2>1. /\ MarksOK(Marks(t)) /\ shell \in ShellType(Marks(t).stored)
        /\ SidebarFacts(shell, summary[t], t, Marks(t))
    BY SidebarBefore
  <2>2. /\ Touches(item, t) =>
             /\ shell.row # 0 /\ h \in Marks(t).events
             /\ Tells(item, t) = [title |-> shell.row, session |-> Marks(t).session]
        /\ ~ Touches(item, t) => h \notin Marks(t).events
    BY <1>1, <1>4, <1>5, <1>6 DEF Touches, Tells
  <2> HIDE DEF h
  <2>3. SidebarFacts(shell', summary[t], t, Marks(t))
    BY <1>3, <1>7, <1>8, <2>1, <2>2, SidebarOfSending DEF h
  <2> QED BY <1>1, <2>3, MarksKept
<1> QED BY <1>9, SidebarsNow

LEMMA ShellFailureKeepsSidebars ==
  ASSUME TypeOK, IInv, SidebarsInv, ShellReadFails
  PROVE  SidebarsInv'
<1> DEFINE h == Head(shell.inbox)
<1>1. /\ HasShellEvent /\ UNCHANGED <<log, published, summary>>
      /\ shell' = [shell EXCEPT !.inbox = Tail(@), !.row = 0, !.lost = @ \cup {h}]
  BY DEF ShellReadFails, server, store
<1>2. shell \in ShellType(Len(log)) /\ shell.stage = "live" /\ shell.inbox # <<>>
  BY <1>1, TypeParts DEF HasShellEvent
<1> HIDE DEF h
<1>3. /\ shell'.stage = "live" /\ shell'.inbox = Tail(shell.inbox) /\ shell'.row = 0
      /\ shell'.at = shell.at /\ shell'.joined = shell.joined
      /\ shell'.lost = shell.lost \cup {h} /\ h \in shell'.lost
      /\ shell'.wire = shell.wire
  BY <1>1, <1>2 DEF ShellType
<1>4. ASSUME NEW t \in Threads PROVE SidebarFacts(shell', summary'[t], t, Marks(t)')
  <2>1. /\ MarksOK(Marks(t)) /\ shell \in ShellType(Marks(t).stored)
        /\ SidebarFacts(shell, summary[t], t, Marks(t))
    BY SidebarBefore
  <2>2. SidebarFacts(shell', summary[t], t, Marks(t))
    BY <1>2, <1>3, <2>1, SidebarOfSilence DEF h
  <2> QED BY <1>1, <2>2, MarksKept
<1> QED BY <1>4, SidebarsNow

\* A stream that begins again, or is refused, has told nothing yet.
LEMMA ResubscribedKeepsSidebars ==
  ASSUME TypeOK, IInv, SidebarsInv, Disconnect \/ Restart \/ ShellSnapshotFails
  PROVE  SidebarsInv'
<1>1. /\ UNCHANGED <<log, summary>>
      /\ \/ shell' = ShellAsked
         \/ shell.stage = "ended" /\ shell' = shell
         \/ shell.stage = "asked" /\ shell' = [shell EXCEPT !.stage = "ended"]
  BY DEF Disconnect, Restart, Resubscribed, ShellSnapshotFails, server, store
<1>2. shell \in ShellType(Len(log)) /\ Len(log) \in Nat
  BY TypeParts, LengthTyped
<1>3. ASSUME NEW t \in Threads PROVE SidebarFacts(shell', summary'[t], t, Marks(t)')
  <2>1. SidebarFacts(shell, summary[t], t, Marks(t)) /\ Marks(t).stored = Len(log)
    BY SidebarBefore
  <2>2. Marks(t)'.stored = Len(log)
    BY <1>1 DEF Marks
  <2>3. shell.stage # "live" => shell.inbox = <<>> /\ shell.row = 0 /\ shell.at <= Len(log)
    BY <2>1 DEF SidebarFacts, InboxFacts
  <2>4. /\ shell'.stage \in {"asked", "ended"} /\ shell'.inbox = <<>> /\ shell'.row = 0
        /\ shell'.at <= Len(log)
    BY <1>1, <1>2, <2>3 DEF ShellAsked, ShellType
  <2> QED BY <2>2, <2>4, SidebarOfIdle
<1> QED BY <1>3, SidebarsNow

LEMMA DeliverShellKeepsSidebars ==
  ASSUME TypeOK, IInv, SidebarsInv, DeliverShell
  PROVE  SidebarsInv'
<1> DEFINE item == Head(shell.wire)
<1>0. shell \in ShellType(Len(log)) /\ summary \in Rows
  BY TypeParts DEF StoreTypes
<1>1. /\ shell.wire # <<>> /\ UNCHANGED <<log, published>>
      /\ shell' = [shell EXCEPT !.wire = Tail(@)]
      /\ \/ item.kind = "snapshot" /\ TakeShellSnapshot(item.rows)
         \/ item.kind = "upserted" /\ TakeUpserted(item.thread, item.row)
         \/ item.kind = "removed" /\ TakeRemoved(item.thread)
  BY DEF DeliverShell, server
<1>2. item \in ShellItem
  <2>1. shell.wire \in Seq(ShellItem)
    BY <1>0 DEF ShellType
  <2> QED BY <1>1, <2>1, HeadAndTail
<1>3. /\ shell'.stage = shell.stage /\ shell'.row = shell.row /\ shell'.inbox = shell.inbox
      /\ shell'.at = shell.at /\ shell'.joined = shell.joined /\ shell'.lost = shell.lost
      /\ shell'.wire = Tail(shell.wire)
  BY <1>0, <1>1 DEF ShellType
<1>4. PICK i : i = item
  OBVIOUS
<1> HIDE DEF item
<1>5. ASSUME NEW t \in Threads
      PROVE  summary'[t] = IF Touches(i, t) THEN Tells(i, t) ELSE summary[t]
  <2>1. i \in ShellItem
    BY <1>2, <1>4
  <2>2. CASE i.kind = "snapshot"
    <3>1. summary' = i.rows
      BY <1>1, <1>4, <2>2 DEF TakeShellSnapshot
    <3> QED BY <2>2, <3>1 DEF Touches, Tells
  <2>3. CASE i.kind = "upserted"
    <3>1. i.thread \in Threads /\ summary' = [summary EXCEPT ![i.thread] = i.row]
      BY <1>1, <1>4, <2>1, <2>3, ItemTyped DEF TakeUpserted
    <3>2. summary'[t] = IF i.thread = t THEN i.row ELSE summary[t]
      BY <1>0, <3>1 DEF Rows
    <3> QED BY <2>3, <3>2 DEF Touches, Tells
  <2>4. CASE i.kind = "removed"
    <3>1. i.thread \in Threads /\ summary' = [summary EXCEPT ![i.thread] = None]
      BY <1>1, <1>4, <2>1, <2>4, ItemTyped DEF TakeRemoved
    <3>2. summary'[t] = IF i.thread = t THEN None ELSE summary[t]
      BY <1>0, <3>1 DEF Rows
    <3> QED BY <2>4, <3>2 DEF Touches, Tells
  <2> QED BY <2>1, <2>2, <2>3, <2>4, ItemTyped
<1>6. ASSUME NEW t \in Threads PROVE SidebarFacts(shell', summary'[t], t, Marks(t)')
  <2>1. /\ MarksOK(Marks(t)) /\ shell \in ShellType(Marks(t).stored)
        /\ SidebarFacts(shell, summary[t], t, Marks(t))
    BY SidebarBefore
  <2>2. i = Head(shell.wire)
    BY <1>4 DEF item
  <2>3. summary'[t] = IF Touches(i, t) THEN Tells(i, t) ELSE summary[t]
    BY <1>5
  <2>4. SidebarFacts(shell', summary'[t], t, Marks(t))
    BY <1>1, <1>3, <2>1, <2>2, <2>3, SidebarOfDelivery
  <2> QED BY <1>1, <2>4, MarksKept
<1> QED BY <1>6, SidebarsNow

LEMMA SidebarsInit == Init => SidebarsInv
<1> SUFFICES ASSUME Init PROVE SidebarsInv
  OBVIOUS
<1>1. /\ shell.stage = "asked" /\ shell.inbox = <<>> /\ shell.row = 0 /\ shell.at = 0
      /\ \A t : Marks(t).stored = 0
  BY DEF Init, ShellAsked, Marks
<1>2. \A t \in Threads : SidebarFacts(shell, summary[t], t, Marks(t))
  BY <1>1, SidebarOfIdle
<1> QED BY Zenon, <1>2 DEF SidebarsInv

LEMMA SidebarsNext ==
  ASSUME TypeOK, IInv, SidebarsInv, [Next]_vars
  PROVE  SidebarsInv'
<1>1. CASE UNCHANGED <<log, published, shell, summary>>
  BY <1>1, SidebarStays, SidebarsNow
<1>2. CASE ServeShell
  BY <1>2, ReadShellSnapshotKeepsSidebars, JoinShellKeepsSidebars, MapDeletionKeepsSidebars,
     ReadThreadRowKeepsSidebars, ReadSessionRowKeepsSidebars DEF ServeShell
<1>3. CASE \E t \in Threads :
             ServeDetail(t) \/ DetailReadFails(t) \/ DeliverDetail(t) \/ Open(t) \/ Close(t)
  <2>1. UNCHANGED <<log, published, shell, summary>>
    BY <1>3 DEF ServeDetail, ReadDetailThread, ReadDetailMessages, ReadDetailSession,
       JoinDetail, DetailReadFails, DeliverDetail, Open, Close, server, store
  <2> QED BY <1>1, <2>1
<1>4. CASE UNCHANGED vars
  BY <1>1, <1>4 DEF vars, server, store
<1> QED
  BY <1>2, <1>3, <1>4, StoreKeepsSidebars, PublishKeepsSidebars, ShellFailureKeepsSidebars,
     ResubscribedKeepsSidebars, DeliverShellKeepsSidebars DEF Next

-----------------------------------------------------------------------------
(* Both streams together.                                                  *)

\* What the detail stream did not write last is as the sidebar has it.
SameInv == \A t \in Threads : t \notin byDetail => shown[t] = summary[t]

LEMMA SameInit == Init => SameInv
BY DEF Init, SameInv

LEMMA SameNext ==
  ASSUME TypeOK, SameInv, [Next]_vars
  PROVE  SameInv'
<1>0. /\ shell \in ShellType(Len(log)) /\ shown \in Rows /\ summary \in Rows
  BY TypeParts DEF StoreTypes
<1>1. CASE UNCHANGED <<shown, summary, byDetail>>
  BY <1>1 DEF SameInv
<1>2. CASE DeliverShell
  <2> DEFINE item == Head(shell.wire)
  <2>1. shell.wire # <<>> /\ shell.wire \in Seq(ShellItem)
    BY <1>0, <1>2 DEF DeliverShell, ShellType
  <2>2. item \in ShellItem
    BY <2>1, HeadAndTail
  <2> HIDE DEF item
  <2>3. CASE item.kind = "snapshot" /\ TakeShellSnapshot(item.rows)
    BY <2>3 DEF TakeShellSnapshot, SameInv
  <2>4. CASE item.kind = "upserted" /\ TakeUpserted(item.thread, item.row)
    <3>1. item.thread \in Threads
      BY <2>2, <2>4, ItemTyped
    <3> QED BY <1>0, <2>4, <3>1 DEF TakeUpserted, SameInv, Rows
  <2>5. CASE item.kind = "removed" /\ TakeRemoved(item.thread)
    <3>1. item.thread \in Threads
      BY <2>2, <2>5, ItemTyped
    <3> QED BY <1>0, <2>5, <3>1 DEF TakeRemoved, SameInv, Rows
  <2> QED BY <1>2, <2>3, <2>4, <2>5 DEF DeliverShell, item
<1>3. CASE \E t \in Threads : DeliverDetail(t)
  <2>1. PICK t \in Threads : DeliverDetail(t)
    BY <1>3
  <2>2. /\ \/ TakeDetailSnapshot(t, Head(detail[t].wire).row, Head(detail[t].wire).text)
           \/ TakeDetailEvent(t, Head(detail[t].wire).sequence)
        /\ summary' = summary
    BY <2>1 DEF DeliverDetail
  <2>3. /\ \A u \in Threads : u # t => shown'[u] = shown[u]
        /\ \/ byDetail' = byDetail \cup {t}
           \/ byDetail' = byDetail /\ shown'[t] = shown[t]
    <3>1. CASE TakeDetailSnapshot(t, Head(detail[t].wire).row, Head(detail[t].wire).text)
      BY <1>0, <3>1 DEF TakeDetailSnapshot, Rows
    <3>2. CASE TakeDetailEvent(t, Head(detail[t].wire).sequence)
      BY <1>0, <3>2 DEF TakeDetailEvent, Rows
    <3> QED BY <2>2, <3>1, <3>2
  <2> QED BY <2>2, <2>3 DEF SameInv
<1>4. CASE UNCHANGED vars
  BY <1>1, <1>4 DEF vars, store
<1>5. CASE Next /\ ~ DeliverShell /\ ~ \E t \in Threads : DeliverDetail(t)
  <2>1. /\ (\E e \in Event : Store(e)) \/ Publish => UNCHANGED store
        /\ ServeShell \/ ShellReadFails \/ ShellSnapshotFails => UNCHANGED store
    BY DEF Store, Publish, ServeShell, ReadShellSnapshot, JoinShell, MapDeletion,
       ReadThreadRow, ReadSessionRow, ShellReadFails, ShellSnapshotFails
  <2>2. \A t \in Threads :
          ServeDetail(t) \/ DetailReadFails(t) \/ Open(t) \/ Close(t) => UNCHANGED store
    BY DEF ServeDetail, ReadDetailThread, ReadDetailMessages, ReadDetailSession, JoinDetail,
       DetailReadFails, Open, Close
  <2>3. Disconnect \/ Restart => UNCHANGED store
    BY DEF Disconnect, Restart
  <2>4. UNCHANGED store
    BY <1>5, <2>1, <2>2, <2>3 DEF Next
  <2> QED BY <1>1, <2>4 DEF store
<1> QED BY <1>2, <1>3, <1>4, <1>5

\* With nothing on its way the sidebar has come to the thread's row.
LEMMA SidebarSettles ==
  ASSUME TypeOK, IInv, SidebarsInv, Settled, NEW t \in Threads
  PROVE  SidebarAgrees(t)
<1> SUFFICES ASSUME ToldOf(t) PROVE summary[t] = RowOf(t)
  BY DEF SidebarAgrees
<1>1. /\ shell.stage = "live" /\ shell.inbox = <<>> /\ shell.wire = <<>>
      /\ published = Len(log) /\ Len(shell.inbox) = 0
  BY DEF Settled
<1>2. /\ MarksOK(Marks(t)) /\ EndFacts(shell, summary[t], t, Marks(t))
      /\ InboxFacts(shell, Marks(t).published, Marks(t).stored)
  BY SidebarBefore DEF SidebarFacts
<1>3. shell \in ShellType(Len(log)) /\ Len(log) \in Nat /\ log \in Seq(Event)
  BY TypeParts, LengthTyped
<1>4. ASSUME NEW n \in EventsOf(t, EventTypes),
             n = LastOf(t, EventTypes) \/ log[n].type = "thread.deleted"
      PROVE  Reached(shell, Marks(t), n)
  <2>1. ~ LostByShell(n)
    BY <1>4 DEF ToldOf
  <2>2. n \in 1..Len(log)
    BY DEF EventsOf
  <2>3. shell.at \in Nat /\ shell.joined \in Nat /\ Marks(t).published = Len(log)
    BY <1>1, <1>3 DEF ShellType, Marks
  <2> QED BY <1>1, <1>3, <2>1, <2>2, <2>3 DEF LostByShell, Reached
<1>5. CASE Deletions(t) = {}
  <2>1. Reached(shell, Marks(t), LastOf(t, EventTypes))
    <3>1. CASE EventsOf(t, EventTypes) = {}
      <4>1. LastOf(t, EventTypes) = 0 /\ shell.at \in Nat
        BY <1>3, <3>1 DEF LastOf, ShellType
      <4> QED BY <4>1 DEF Reached
    <3>2. CASE EventsOf(t, EventTypes) # {}
      BY <1>3, <1>4, <3>2, LastIsThere
    <3> QED BY <3>1, <3>2
  <2>2. EndsAs(<<>>, summary[t], t, RowOf(t))
    BY <1>1, <1>2, <1>5, <2>1 DEF EndFacts, Marks
  <2> QED BY <2>2, EndsNow
<1>6. CASE Deletions(t) # {}
  <2>1. PICK d \in Deletions(t) : TRUE
    BY <1>6
  <2>2. d \in EventsOf(t, EventTypes) /\ log[d].type = "thread.deleted"
    BY DEF Deletions, EventsOf, EventTypes
  <2>3. Reached(shell, Marks(t), d)
    BY <1>4, <2>2
  <2>4. EndsAs(<<>>, summary[t], t, None)
    BY <1>1, <1>2, <2>1, <2>3 DEF EndFacts, Marks
  <2>5. RowOf(t) = None
    BY <1>2, <1>6 DEF MarksOK, Marks
  <2> QED BY <2>4, <2>5, EndsNow
<1> QED BY <1>5, <1>6

\* So has the thread's own view, where the detail stream did not write an older row.
LEMMA ViewSettles ==
  ASSUME TypeOK, IInv, OwnViewsInv, SidebarsInv, SameInv, Settled, NEW t \in Threads
  PROVE  ViewAgrees(t)
<1> SUFFICES ASSUME ToldOf(t), RowOf(t) # None,
                    t \in byDetail =>
                      /\ Live(t) /\ TitleOf(t) <= detail[t].titleAt
                      /\ ~ MissedByDetail(t, SessionOf(t), detail[t].sessionAt)
             PROVE  shown[t] = RowOf(t)
  BY DEF ViewAgrees
<1>1. summary[t] = RowOf(t)
  BY SidebarSettles DEF SidebarAgrees
<1>2. CASE t \notin byDetail
  BY <1>1, <1>2 DEF SameInv
<1>3. CASE t \in byDetail
  <2>1. /\ TitleOf(t) # 0 /\ RowOf(t) = [title |-> TitleOf(t), session |-> SessionOf(t)]
    BY DEF RowOf
  <2>2. /\ log \in Seq(Event) /\ published \in 0..Len(log) /\ shown \in Rows
        /\ detail[t] \in DetailType
    BY TypeParts DEF StoreTypes
  <2>3. /\ BaseOK(Base(t)) /\ Facts(detail[t], View(t), Base(t))
    BY <2>2, BaseTyped DEF OwnViewsInv
  <2>4. /\ detail[t].stage = "live" /\ detail[t].wire = <<>> /\ published = Len(log)
    BY <1>3 DEF Live, Settled
  <2>5. Delivered(detail[t]) /\ Pending(detail[t].wire) = {}
    BY <2>4, NothingPending DEF Delivered, Served
  <2>6. /\ Base(t).title = TitleOf(t) /\ Base(t).session = SessionOf(t)
        /\ Base(t).published = Base(t).stored
        /\ View(t).shown = shown[t] /\ View(t).summary = RowOf(t)
    BY <1>1, <2>4 DEF Base, View
  <2>7. shown[t].title = TitleOf(t)
    BY <1>3, <2>1, <2>3, <2>5, <2>6 DEF Facts, TitleFacts
  <2>8. Follows(detail[t], Base(t)) /\ SessionOf(t) <= Base(t).published
    <3>1. detail[t].sessionAt \in Nat /\ detail[t].joined \in Nat /\ SessionOf(t) \in Nat
      BY <2>2, DetailTyped, NoTitle
    <3>2. SessionOf(t) <= Base(t).published
      BY <2>3, <2>6 DEF BaseOK
    <3> QED BY <1>3, <2>4, <2>6, <3>1, <3>2 DEF Follows, MissedByDetail
  <2>9. shown[t].session = SessionOf(t)
    BY <2>1, <2>3, <2>5, <2>6, <2>8 DEF Facts, SessionFacts
  <2>10. shown[t] \in Row
    <3>1. shown[t] # None
      BY <2>3, <2>4, <2>6 DEF Facts
    <3> QED BY <2>2, <3>1 DEF Rows
  <2> QED BY <2>1, <2>7, <2>9, <2>10 DEF Row
<1> QED BY <1>2, <1>3

\* And the conversation, where no message fell between snapshot and live stream or came
\* with both.
LEMMA ConversationSettles ==
  ASSUME TypeOK, OwnViewsInv, Settled, NEW t \in Threads
  PROVE  ConversationAgrees(t)
<1> SUFFICES ASSUME Live(t),
                    \A n \in EventsOf(t, {"thread.message-sent"}) :
                      ~ MissedByDetail(t, n, detail[t].textAt) /\ ~ TwiceInDetail(t, n)
             PROVE  text[t] = MessagesOf(t)
  BY DEF ConversationAgrees
<1>1. /\ log \in Seq(Event) /\ published \in 0..Len(log) /\ Len(log) \in Nat
  BY TypeParts, LengthTyped
<1>2. /\ BaseOK(Base(t)) /\ Facts(detail[t], View(t), Base(t))
  BY <1>1, BaseTyped DEF OwnViewsInv
<1>3. detail[t].stage = "live" /\ detail[t].wire = <<>> /\ published = Len(log)
  BY DEF Live, Settled
<1>4. Delivered(detail[t]) /\ Pending(detail[t].wire) = {}
  BY <1>3, NothingPending DEF Delivered, Served
<1>5. Base(t).said = Said(t) /\ Base(t).published = Len(log) /\ View(t).text = text[t]
  BY <1>3 DEF Base, View
<1>6. Whole(detail[t], Base(t))
  BY <1>5 DEF Whole, Said, MissedByDetail, TwiceInDetail
<1>7. PICK k \in 0..Len(log) :
        /\ text[t] = Texts(Said(t), k)
        /\ \A n \in Said(t) : n <= Len(log) => n <= k
  BY <1>2, <1>3, <1>4, <1>5, <1>6 DEF Facts, TextFacts
<1>8. ASSUME NEW n \in Said(t) PROVE ~ (k < n /\ n <= Len(log))
  <2>1. n \in 1..Len(log)
    BY DEF Said, EventsOf
  <2> QED BY <1>1, <1>7, <2>1
<1>9. Texts(Said(t), Len(log)) = Texts(Said(t), k)
  BY <1>1, <1>7, <1>8, TextsGap
<1> QED BY <1>7, <1>9, MessagesAreTexts DEF MessagesOf

\* However many threads, events, subscriptions and losses: when everything stored has
\* reached whoever it will reach, the store holds what the tables hold, but for what ws.ts
\* is known to lose or to send twice around the snapshots and for rows it could not read.
THEOREM ViewsFollow == Spec => []ViewsFollowTables
<1>1. Init => OwnViewsInv /\ SidebarsInv /\ SameInv
  BY OwnViewsInit, SidebarsInit, SameInit
<1>2. /\ TypeOK /\ IInv /\ OwnViewsInv /\ SidebarsInv /\ SameInv
      /\ TypeOK' /\ [Next]_vars
      => OwnViewsInv' /\ SidebarsInv' /\ SameInv'
  BY OwnViewsNext, SidebarsNext, SameNext
<1>3. TypeOK /\ IInv /\ OwnViewsInv /\ SidebarsInv /\ SameInv => ViewsFollowTables
  <2> SUFFICES ASSUME TypeOK, IInv, OwnViewsInv, SidebarsInv, SameInv, Settled,
                      NEW t \in Threads
               PROVE  SidebarAgrees(t) /\ ViewAgrees(t) /\ ConversationAgrees(t)
    BY Zenon DEF ViewsFollowTables
  <2>1. SidebarAgrees(t)
    BY SidebarSettles
  <2>2. ViewAgrees(t)
    BY ViewSettles
  <2>3. ConversationAgrees(t)
    BY ConversationSettles
  <2> QED BY <2>1, <2>2, <2>3
<1> QED BY <1>1, <1>2, <1>3, TypeCorrect, Viewing, PTL DEF Spec

==============================================================================
