---------------------- MODULE ProjectionBootstrap_proof -----------------------
(* Proofs about ProjectionBootstrap.                                       *)
EXTENDS ProjectionBootstrap, TLAPS

\* The part of the state one projector has: its history and its cursor.
HistoryOK(a, c) ==
  /\ a \in Seq(Nat)
  /\ \A i, j \in 1..Len(a) : i < j => a[i] < a[j]
  /\ \A i \in 1..Len(a) : a[i] <= c
  /\ c = IF a = <<>> THEN 0 ELSE a[Len(a)]

\* While the server catches up, a projector within the limit is no further behind than
\* what its stream may still emit, and those that had their turn are done.
CatchUpInv ==
  stage = "bootstrap" => \A p \in installed :
    /\ stored - cursor[p] <= lag[p]
    /\ WithinLimit(p) =>
         /\ turn <= Len(Order) /\ p = Order[turn] => stored - cursor[p] <= budget
         /\ \A i \in 1..Len(Order) : i < turn /\ p = Order[i] => cursor[p] = stored

RequiredWithinLimit == \A p \in Required \cap installed : WithinLimit(p)

\* The read model starts at the end of the log if the required projectors are there,
\* and the bus begins there.
BusInv ==
  /\ bootSequence <= stored
  /\ stage # "down" => Required \cap installed # {}
  /\ stage = "bootstrap" => published = <<>> /\ bootSequence = stored
  /\ stage = "serving" /\ RequiredWithinLimit => snapshotSequence = stored

IInv ==
  /\ TypeOK
  /\ \A p \in Projectors : HistoryOK(applied[p], cursor[p]) /\ cursor[p] <= stored
  /\ CatchUpInv
  /\ NothingSkippedWithinLimit
  /\ BusInv
  /\ BusCarriesNewEventsOnly

\* Appending an event later than the cursor keeps a history in order.
LEMMA AppendKeepsHistory ==
  ASSUME NEW a, NEW c \in Nat, HistoryOK(a, c), NEW n \in Nat, c < n
  PROVE  /\ HistoryOK(Append(a, n), n)
         /\ Len(Append(a, n)) = Len(a) + 1
<1> DEFINE b == Append(a, n)
           k == Len(a)
<1>1. a \in Seq(Nat) /\ k \in Nat
  BY DEF HistoryOK
<1>2. \A i \in 1..k : a[i] <= c /\ a[i] \in Nat
  BY <1>1 DEF HistoryOK
<1>3. \A i, j \in 1..k : i < j => a[i] < a[j]
  BY DEF HistoryOK
<1>4. b \in Seq(Nat) /\ Len(b) = k + 1 /\ b # <<>> /\ b[k + 1] = n
  BY <1>1
<1>5. \A i \in 1..k : b[i] = a[i]
  BY <1>1
<1> HIDE DEF b, k
<1>6. \A i \in 1..(k + 1) : i \in 1..k \/ i = k + 1
  BY <1>1
<1>7. ASSUME NEW i \in 1..(k + 1), NEW j \in 1..(k + 1), i < j PROVE b[i] < b[j]
  <2>1. i \in 1..k
    BY <1>1, <1>7
  <2>2. b[i] = a[i] /\ a[i] <= c /\ a[i] \in Nat
    BY <1>2, <1>5, <2>1
  <2>3. CASE j \in 1..k
    <3>1. a[i] < a[j] /\ b[j] = a[j]
      BY <1>3, <1>5, <1>7, <2>1, <2>3
    <3> QED BY <2>2, <3>1
  <2>4. CASE j = k + 1
    BY <1>4, <2>2, <2>4
  <2> QED BY <1>6, <2>3, <2>4
<1>8. ASSUME NEW i \in 1..(k + 1) PROVE b[i] <= n
  <2>1. CASE i \in 1..k
    <3>1. b[i] = a[i] /\ a[i] <= c /\ a[i] \in Nat
      BY <1>2, <1>5, <2>1
    <3> QED BY <3>1
  <2>2. CASE i = k + 1
    BY <1>4, <2>2
  <2> QED BY <1>6, <2>1, <2>2
<1>9. HistoryOK(b, n)
  BY <1>1, <1>4, <1>7, <1>8 DEF HistoryOK
<1> QED BY <1>4, <1>9 DEF b, k

\* The numbers after a up to b, and b + 1, are the numbers after a up to b + 1.
LEMMA AppendNext ==
  ASSUME NEW a \in Nat, NEW b \in Nat, a <= b,
         NEW s, s = Between(a, b)
  PROVE  Append(s, b + 1) = Between(a, b + 1)
<1> DEFINE m == b - a
           t == Append(s, b + 1)
           u == [i \in 1..(m + 1) |-> a + i]
<1>1. m \in Nat /\ b + 1 - a = m + 1 /\ a + (m + 1) = b + 1
  OBVIOUS
<1>2. s = [i \in 1..m |-> a + i]
  BY DEF Between
<1> HIDE DEF m
<1>3. s \in Seq(Nat) /\ Len(s) = m /\ \A i \in 1..m : s[i] = a + i
  BY <1>1, <1>2
<1>4. t \in Seq(Nat) /\ Len(t) = m + 1 /\ t[m + 1] = b + 1 /\ \A i \in 1..m : t[i] = s[i]
  BY <1>1, <1>3
<1>5. u \in Seq(Nat) /\ Len(u) = m + 1 /\ \A i \in 1..(m + 1) : u[i] = a + i
  BY <1>1
<1> HIDE DEF t, u
<1>6. ASSUME NEW i \in 1..(m + 1) PROVE t[i] = u[i]
  <2>1. CASE i \in 1..m
    BY <1>3, <1>4, <1>5, <2>1
  <2>2. CASE i = m + 1
    BY <1>1, <1>4, <1>5, <2>2
  <2> QED BY <1>1, <2>1, <2>2
<1>7. t = u
  BY <1>4, <1>5, <1>6
<1> QED BY <1>1, <1>7 DEF t, u, Between

\* The initial state satisfies the invariant.
LEMMA BootstrapInit == Init => IInv
<1> SUFFICES ASSUME Init PROVE IInv
  OBVIOUS
<1>1. TypeOK
  BY DEF Init, TypeOK
<1>2. \A p \in Projectors : HistoryOK(applied[p], cursor[p]) /\ cursor[p] <= stored
  <2> TAKE p \in Projectors
  <2>1. applied[p] = <<>> /\ cursor[p] = 0 /\ stored = 0
    BY DEF Init
  <2>2. HistoryOK(<<>>, 0)
    BY DEF HistoryOK
  <2> QED BY <2>1, <2>2
<1>3. CatchUpInv /\ NothingSkippedWithinLimit /\ BusInv /\ BusCarriesNewEventsOnly
  BY DEF Init, CatchUpInv, NothingSkippedWithinLimit, BusInv, BusCarriesNewEventsOnly
<1> QED BY <1>1, <1>2, <1>3 DEF IInv

\* A start of any release keeps the invariant: it only widens lags.
LEMMA StartKeeps ==
  ASSUME IInv, NEW release \in Releases, Start(release) PROVE IInv'
<1>1. /\ release \in SUBSET Projectors /\ Required \cap release # {}
      /\ Order \in Seq(Projectors) /\ Len(Order) \in Nat /\ ReadLimit \in Nat
  BY ReleasesHaveProjectors, OrderListsProjectors, LimitsAreNaturals
<1>2. /\ stored \in Nat /\ cursor \in [Projectors -> Nat] /\ lag \in [Projectors -> Nat]
      /\ \A p \in Projectors : cursor[p] <= stored
  BY DEF IInv, TypeOK
<1>3. /\ stored' = stored /\ cursor' = cursor /\ applied' = applied
      /\ installed' = release /\ stage' = "bootstrap" /\ turn' = 1 /\ budget' = ReadLimit
      /\ snapshotSequence' = 0 /\ published' = <<>> /\ bootSequence' = stored
      /\ starts' = starts + 1
  BY DEF Start, store
<1>4. ASSUME NEW p \in Projectors
      PROVE  /\ lag'[p] \in Nat /\ lag[p] <= lag'[p]
             /\ p \in release => stored - cursor[p] <= lag'[p]
  <2>1. stored - cursor[p] \in Nat /\ lag[p] \in Nat
    BY <1>2
  <2>2. lag'[p] = IF p \in release THEN Larger(lag[p], stored - cursor[p]) ELSE lag[p]
    BY DEF Start
  <2> QED BY <2>1, <2>2 DEF Larger
<1>5. lag' \in [Projectors -> Nat]
  BY <1>4 DEF Start
<1>6. TypeOK'
  BY <1>1, <1>3, <1>5 DEF IInv, TypeOK
<1>7. \A p \in Projectors : HistoryOK(applied'[p], cursor'[p]) /\ cursor'[p] <= stored'
  BY <1>3 DEF IInv
<1>8. \A p \in Projectors : WithinLimit(p)' => lag'[p] <= ReadLimit /\ WithinLimit(p)
  BY <1>1, <1>2, <1>4 DEF WithinLimit
<1>9. CatchUpInv'
  <2> SUFFICES ASSUME NEW p \in release
               PROVE  /\ stored - cursor[p] <= lag'[p]
                      /\ WithinLimit(p)' => stored - cursor[p] <= ReadLimit
    BY <1>1, <1>3 DEF CatchUpInv
  <2>1. p \in Projectors /\ stored - cursor[p] \in Nat
    BY <1>1, <1>2
  <2> QED BY <1>1, <1>4, <1>8, <2>1
<1>10. NothingSkippedWithinLimit'
  BY <1>3, <1>8 DEF IInv, NothingSkippedWithinLimit
<1>11. BusInv' /\ BusCarriesNewEventsOnly'
  BY <1>1, <1>2, <1>3 DEF BusInv, BusCarriesNewEventsOnly
<1> QED BY <1>6, <1>7, <1>9, <1>10, <1>11 DEF IInv

\* One replayed event brings its projector one step closer to the end of the log.
LEMMA ReplayKeeps ==
  ASSUME IInv, NEW p \in Projectors, ReplayEvent(p) PROVE IInv'
<1>1. /\ stage = "bootstrap" /\ turn <= Len(Order) /\ p = Order[turn]
      /\ p \in installed /\ budget > 0 /\ cursor[p] < stored
      /\ applied' = [applied EXCEPT ![p] = Append(applied[p], cursor[p] + 1)]
      /\ cursor' = [cursor EXCEPT ![p] = cursor[p] + 1]
      /\ budget' = budget - 1
      /\ stored' = stored /\ installed' = installed /\ stage' = stage /\ turn' = turn
      /\ snapshotSequence' = snapshotSequence /\ published' = published /\ lag' = lag
      /\ bootSequence' = bootSequence /\ starts' = starts
  BY DEF ReplayEvent, Bootstrapping
<1>2. /\ stored \in Nat /\ cursor \in [Projectors -> Nat] /\ lag \in [Projectors -> Nat]
      /\ applied \in [Projectors -> Seq(Nat)] /\ budget \in Nat /\ turn \in Nat \ {0}
      /\ installed \in SUBSET Projectors
      /\ Len(Order) \in Nat
  <2>1. TypeOK
    BY DEF IInv
  <2>2. Len(Order) \in Nat
    BY OrderListsProjectors
  <2> QED BY <2>1, <2>2 DEF TypeOK
<1>3. /\ HistoryOK(applied'[p], cursor'[p]) /\ cursor'[p] = cursor[p] + 1
      /\ Len(applied'[p]) = Len(applied[p]) + 1 /\ applied'[p] \in Seq(Nat)
  <2>1. HistoryOK(applied[p], cursor[p]) /\ cursor[p] \in Nat /\ cursor[p] + 1 \in Nat
        /\ cursor[p] < cursor[p] + 1
    BY <1>2 DEF IInv
  <2>2. applied'[p] = Append(applied[p], cursor[p] + 1) /\ cursor'[p] = cursor[p] + 1
    BY <1>1, <1>2
  <2>3. /\ HistoryOK(Append(applied[p], cursor[p] + 1), cursor[p] + 1)
        /\ Len(Append(applied[p], cursor[p] + 1)) = Len(applied[p]) + 1
    BY <2>1, AppendKeepsHistory
  <2>4. applied'[p] \in Seq(Nat)
    BY <2>2, <2>3 DEF HistoryOK
  <2> QED BY <2>2, <2>3, <2>4
<1>4. \A q \in Projectors : q # p => applied'[q] = applied[q] /\ cursor'[q] = cursor[q]
  BY <1>1, <1>2
<1>5. TypeOK'
  <2>1. applied' \in [Projectors -> Seq(Nat)] /\ cursor' \in [Projectors -> Nat]
    BY <1>1, <1>2, <1>3
  <2>2. budget' \in Nat
    BY <1>1, <1>2
  <2>3. TypeOK
    BY DEF IInv
  <2> QED BY <1>1, <2>1, <2>2, <2>3 DEF TypeOK
<1>6. \A q \in Projectors : HistoryOK(applied'[q], cursor'[q]) /\ cursor'[q] <= stored'
  <2> TAKE q \in Projectors
  <2>1. CASE q = p
    BY <1>1, <1>2, <1>3, <2>1
  <2>2. CASE q # p
    BY <1>1, <1>4, <2>2 DEF IInv
  <2> QED BY <2>1, <2>2
<1>7. \A q \in Projectors : WithinLimit(q)' <=> WithinLimit(q)
  BY <1>1 DEF WithinLimit
<1>8. CatchUpInv'
  <2> SUFFICES ASSUME NEW q \in installed
               PROVE  /\ stored - cursor'[q] <= lag[q]
                      /\ WithinLimit(q) =>
                           /\ q = p => stored - cursor'[q] <= budget - 1
                           /\ \A i \in 1..Len(Order) :
                                i < turn /\ q = Order[i] => cursor'[q] = stored
    BY <1>1, <1>2, <1>7 DEF CatchUpInv
  <2>1. /\ q \in Projectors
        /\ stored - cursor[q] <= lag[q]
        /\ WithinLimit(q) =>
             /\ q = p => stored - cursor[q] <= budget
             /\ \A i \in 1..Len(Order) : i < turn /\ q = Order[i] => cursor[q] = stored
    BY <1>1, <1>2 DEF IInv, CatchUpInv
  <2>2. CASE q = p
    BY <1>1, <1>2, <1>3, <2>1, <2>2
  <2>3. CASE q # p
    BY <1>4, <2>1, <2>3
  <2> QED BY <2>2, <2>3
<1>9. NothingSkippedWithinLimit'
  <2> SUFFICES ASSUME NEW q \in Projectors, WithinLimit(q) PROVE Len(applied'[q]) = cursor'[q]
    BY <1>1, <1>7 DEF NothingSkippedWithinLimit
  <2>1. Len(applied[q]) = cursor[q]
    BY DEF IInv, NothingSkippedWithinLimit
  <2> QED BY <1>3, <1>4, <2>1
<1>10. BusInv' /\ BusCarriesNewEventsOnly'
  BY <1>1 DEF IInv, BusInv, BusCarriesNewEventsOnly
<1> QED BY <1>5, <1>6, <1>8, <1>9, <1>10 DEF IInv

\* A stream that ended within the limit has reached the end of the log.
LEMMA EndReplayKeeps ==
  ASSUME IInv, NEW p \in Projectors, EndReplay(p) PROVE IInv'
<1>1. /\ stage = "bootstrap" /\ turn <= Len(Order) /\ p = Order[turn]
      /\ p \notin installed \/ budget = 0 \/ cursor[p] = stored
      /\ turn' = turn + 1 /\ budget' = ReadLimit
      /\ stored' = stored /\ cursor' = cursor /\ applied' = applied
      /\ installed' = installed /\ stage' = stage
      /\ snapshotSequence' = snapshotSequence /\ published' = published /\ lag' = lag
      /\ bootSequence' = bootSequence /\ starts' = starts
  BY DEF EndReplay, Bootstrapping, store
<1>2. /\ stored \in Nat /\ cursor \in [Projectors -> Nat] /\ lag \in [Projectors -> Nat]
      /\ turn \in Nat \ {0} /\ installed \in SUBSET Projectors
      /\ Len(Order) \in Nat /\ ReadLimit \in Nat
      /\ \A q \in Projectors : cursor[q] <= stored
  <2>1. TypeOK /\ \A q \in Projectors : cursor[q] <= stored
    BY DEF IInv
  <2>2. Len(Order) \in Nat /\ ReadLimit \in Nat
    BY OrderListsProjectors, LimitsAreNaturals
  <2> QED BY <2>1, <2>2 DEF TypeOK
<1>3. TypeOK'
  BY <1>1, <1>2 DEF IInv, TypeOK
<1>4. \A q \in Projectors : HistoryOK(applied'[q], cursor'[q]) /\ cursor'[q] <= stored'
  BY <1>1 DEF IInv
<1>5. \A q \in Projectors : WithinLimit(q)' <=> WithinLimit(q)
  BY <1>1 DEF WithinLimit
<1>6. CatchUpInv'
  <2> SUFFICES ASSUME NEW q \in installed
               PROVE  /\ stored - cursor[q] <= lag[q]
                      /\ WithinLimit(q) =>
                           /\ stored - cursor[q] <= ReadLimit
                           /\ \A i \in 1..Len(Order) :
                                i < turn + 1 /\ q = Order[i] => cursor[q] = stored
    BY <1>1, <1>2, <1>5 DEF CatchUpInv
  <2>1. /\ q \in Projectors /\ cursor[q] \in Nat /\ cursor[q] <= stored /\ lag[q] \in Nat
        /\ stored - cursor[q] <= lag[q]
        /\ WithinLimit(q) =>
             /\ q = p => stored - cursor[q] <= budget
             /\ \A i \in 1..Len(Order) : i < turn /\ q = Order[i] => cursor[q] = stored
    BY <1>1, <1>2 DEF IInv, CatchUpInv
  <2>2. WithinLimit(q) /\ q = p => cursor[q] = stored
    BY <1>1, <1>2, <2>1
  <2>3. ASSUME WithinLimit(q), NEW i \in 1..Len(Order), i < turn + 1, q = Order[i]
        PROVE  cursor[q] = stored
    <3>1. CASE i = turn
      BY <1>1, <2>2, <2>3, <3>1
    <3>2. CASE i < turn
      BY <2>1, <2>3, <3>2
    <3> QED BY <1>2, <2>3, <3>1, <3>2
  <2>4. WithinLimit(q) => stored - cursor[q] <= ReadLimit
    BY <1>2, <2>1 DEF WithinLimit
  <2> QED BY <2>1, <2>3, <2>4
<1>7. NothingSkippedWithinLimit'
  BY <1>1, <1>5 DEF IInv, NothingSkippedWithinLimit
<1>8. BusInv' /\ BusCarriesNewEventsOnly'
  BY <1>1 DEF IInv, BusInv, BusCarriesNewEventsOnly
<1> QED BY <1>3, <1>4, <1>6, <1>7, <1>8 DEF IInv

\* When the server begins to serve, every projector within the limit is at the end of
\* the log, and so is the read model if the required ones are.
LEMMA ServeKeeps == ASSUME IInv, Serve PROVE IInv'
<1>1. /\ stage = "bootstrap" /\ turn > Len(Order) /\ stage' = "serving"
      /\ stored' = stored /\ cursor' = cursor /\ applied' = applied
      /\ installed' = installed /\ turn' = turn /\ budget' = budget
      /\ published' = published /\ lag' = lag
      /\ bootSequence' = bootSequence /\ starts' = starts
  BY DEF Serve, store
<1>2. PICK n \in 0..stored : SnapshotFloor(n) /\ snapshotSequence' = n
  BY DEF Serve
<1>3. /\ stored \in Nat /\ n \in Nat /\ turn \in Nat \ {0} /\ installed \in SUBSET Projectors
      /\ Len(Order) \in Nat
      /\ \A p \in Projectors : \E i \in 1..Len(Order) : Order[i] = p
  BY OrderListsProjectors DEF IInv, TypeOK
<1>4. ASSUME NEW p \in installed, WithinLimit(p) PROVE cursor[p] = stored
  <2>1. PICK i \in 1..Len(Order) : Order[i] = p
    BY <1>3
  <2>2. i < turn
    BY <1>1, <1>3
  <2> QED BY <1>1, <1>4, <2>1, <2>2 DEF IInv, CatchUpInv
<1>5. \A p \in Projectors : WithinLimit(p)' <=> WithinLimit(p)
  BY <1>1 DEF WithinLimit
<1>6. TypeOK'
  BY <1>1, <1>2, <1>3 DEF IInv, TypeOK
<1>7. \A p \in Projectors : HistoryOK(applied'[p], cursor'[p]) /\ cursor'[p] <= stored'
  BY <1>1 DEF IInv
<1>8. CatchUpInv'
  BY <1>1 DEF CatchUpInv
<1>9. NothingSkippedWithinLimit'
  BY <1>1, <1>4, <1>5 DEF IInv, NothingSkippedWithinLimit
<1>10. RequiredWithinLimit => n = stored
  <2> SUFFICES ASSUME RequiredWithinLimit PROVE n = stored
    OBVIOUS
  <2>1. PICK p \in Required \cap installed : n = cursor[p]
    BY <1>1, <1>2 DEF IInv, BusInv, SnapshotFloor
  <2> QED BY <1>4, <2>1 DEF RequiredWithinLimit
<1>11. RequiredWithinLimit' <=> RequiredWithinLimit
  BY <1>1, <1>3, <1>5 DEF RequiredWithinLimit
<1>12. BusInv'
  BY <1>1, <1>2, <1>10, <1>11 DEF IInv, BusInv
<1>13. published' = Between(bootSequence', stored')
  <2>1. published = <<>> /\ bootSequence = stored
    BY <1>1 DEF IInv, BusInv
  <2>2. Between(stored, stored) = <<>>
    BY <1>3 DEF Between
  <2> QED BY <1>1, <2>1, <2>2
<1> QED BY <1>6, <1>7, <1>8, <1>9, <1>12, <1>13 DEF IInv, BusCarriesNewEventsOnly

\* A stored event reaches every projector of the release and the bus.
LEMMA StoreKeeps == ASSUME IInv, StoreEvent PROVE IInv'
<1>1. /\ stage = "serving" /\ stored' = stored + 1
      /\ applied' = [p \in Projectors |->
                       IF p \in installed THEN Append(applied[p], stored + 1) ELSE applied[p]]
      /\ cursor' = [p \in Projectors |-> IF p \in installed THEN stored + 1 ELSE cursor[p]]
      /\ snapshotSequence' = stored + 1
      /\ published' = Append(published, stored + 1)
      /\ installed' = installed /\ stage' = stage /\ turn' = turn /\ budget' = budget
      /\ lag' = lag /\ bootSequence' = bootSequence /\ starts' = starts
  BY DEF StoreEvent
<1>2. /\ stored \in Nat /\ cursor \in [Projectors -> Nat] /\ bootSequence \in Nat
      /\ applied \in [Projectors -> Seq(Nat)] /\ published \in Seq(Nat)
      /\ installed \in SUBSET Projectors /\ bootSequence <= stored
      /\ \A p \in Projectors : cursor[p] <= stored
  BY DEF IInv, TypeOK, BusInv
<1>3. ASSUME NEW p \in Projectors
      PROVE  /\ HistoryOK(applied'[p], cursor'[p]) /\ cursor'[p] <= stored'
             /\ cursor'[p] \in Nat /\ applied'[p] \in Seq(Nat)
             /\ WithinLimit(p) =>
                  /\ Len(applied'[p]) = cursor'[p]
                  /\ p \in installed => cursor'[p] = stored'
  <2>1. /\ HistoryOK(applied[p], cursor[p]) /\ cursor[p] \in Nat /\ cursor[p] < stored + 1
        /\ cursor[p] <= stored /\ stored + 1 \in Nat
        /\ WithinLimit(p) =>
             /\ Len(applied[p]) = cursor[p]
             /\ p \in installed => cursor[p] = stored
    BY <1>1, <1>2 DEF IInv, NothingSkippedWithinLimit
  <2>2. CASE p \in installed
    <3>1. applied'[p] = Append(applied[p], stored + 1) /\ cursor'[p] = stored + 1
      BY <1>1, <2>2
    <3>2. HistoryOK(applied'[p], stored + 1) /\ Len(applied'[p]) = Len(applied[p]) + 1
      BY <2>1, <3>1, AppendKeepsHistory
    <3>3. applied'[p] \in Seq(Nat)
      BY <3>2 DEF HistoryOK
    <3> QED BY <1>1, <1>2, <2>1, <3>1, <3>2, <3>3
  <2>3. CASE p \notin installed
    <3>1. applied'[p] = applied[p] /\ cursor'[p] = cursor[p]
      BY <1>1, <2>3
    <3> QED BY <1>1, <2>1, <2>3, <3>1 DEF HistoryOK
  <2> QED BY <2>2, <2>3
<1>4. /\ applied' \in [Projectors -> Seq(Nat)] /\ cursor' \in [Projectors -> Nat]
  BY <1>1, <1>3
<1>5. TypeOK'
  BY <1>1, <1>2, <1>4 DEF IInv, TypeOK
<1>6. \A p \in Projectors : WithinLimit(p)' <=> WithinLimit(p)
  BY <1>1 DEF WithinLimit
<1>7. NothingSkippedWithinLimit'
  BY <1>1, <1>3, <1>6 DEF NothingSkippedWithinLimit
<1>8. CatchUpInv' /\ BusInv'
  BY <1>1, <1>2 DEF IInv, CatchUpInv, BusInv
<1>9. BusCarriesNewEventsOnly'
  <2>1. RequiredWithinLimit' <=> RequiredWithinLimit
    BY <1>1, <1>2, <1>6 DEF RequiredWithinLimit
  <2>2. ASSUME RequiredWithinLimit
        PROVE  Append(published, stored + 1)
                 = Between(bootSequence, stored + 1)
    <3>1. published = Between(bootSequence, stored)
      BY <1>1, <2>2 DEF IInv, BusCarriesNewEventsOnly, RequiredWithinLimit
    <3>2. stored \in Nat /\ bootSequence \in Nat /\ bootSequence <= stored
      BY <1>2
    <3> HIDE DEF IInv
    <3> QED BY <3>1, <3>2, AppendNext
  <2>3. stored' = stored + 1 /\ bootSequence' = bootSequence
        /\ published' = Append(published, stored + 1)
    BY <1>1
  <2>4. ASSUME RequiredWithinLimit' PROVE published' = Between(bootSequence', stored')
    BY <2>1, <2>2, <2>3, <2>4
  <2> HIDE DEF IInv
  <2> QED BY <2>4, Zenon DEF BusCarriesNewEventsOnly, RequiredWithinLimit
<1> QED BY <1>3, <1>5, <1>7, <1>8, <1>9 DEF IInv

\* A failed command and a stop leave the projectors alone.
LEMMA FailAndStopKeep == ASSUME IInv, FailCommand \/ Stop PROVE IInv'
<1>1. CASE FailCommand
  <2> DEFINE last == Smaller(stored, snapshotSequence + ReadLimit)
             caught == Between(snapshotSequence, last)
  <2>1. /\ stage = "serving" /\ snapshotSequence < stored
        /\ published' = published \o caught /\ snapshotSequence' = last
        /\ stored' = stored /\ cursor' = cursor /\ applied' = applied
        /\ installed' = installed /\ stage' = stage /\ turn' = turn /\ budget' = budget
        /\ lag' = lag /\ bootSequence' = bootSequence /\ starts' = starts
    BY <1>1 DEF FailCommand, store
  <2>2. /\ stored \in Nat /\ snapshotSequence \in Nat /\ ReadLimit \in Nat
        /\ published \in Seq(Nat)
    BY LimitsAreNaturals DEF IInv, TypeOK
  <2>3. last \in Nat /\ snapshotSequence <= last
    BY <2>1, <2>2 DEF Smaller
  <2> HIDE DEF last
  <2>4. caught \in Seq(Nat)
    BY <2>2, <2>3 DEF Between
  <2> HIDE DEF caught
  <2>5. TypeOK'
    BY <2>1, <2>2, <2>3, <2>4 DEF IInv, TypeOK
  <2>6. \A p \in Projectors : WithinLimit(p)' <=> WithinLimit(p)
    BY <2>1 DEF WithinLimit
  <2>7. ~ RequiredWithinLimit
    BY <2>1, <2>2 DEF IInv, BusInv
  <2>8. ~ (\A p \in Required \cap installed : WithinLimit(p))'
    BY <2>1, <2>6, <2>7 DEF RequiredWithinLimit, WithinLimit
  <2>9. BusInv' /\ BusCarriesNewEventsOnly'
    BY <2>1, <2>8 DEF IInv, BusInv, BusCarriesNewEventsOnly, RequiredWithinLimit
  <2>10. CatchUpInv' /\ NothingSkippedWithinLimit'
    BY <2>1, <2>6 DEF IInv, CatchUpInv, NothingSkippedWithinLimit
  <2>11. \A p \in Projectors : HistoryOK(applied'[p], cursor'[p]) /\ cursor'[p] <= stored'
    BY <2>1 DEF IInv
  <2> QED BY <2>5, <2>9, <2>10, <2>11 DEF IInv
<1>2. CASE Stop
  <2>1. /\ stage' = "down"
        /\ stored' = stored /\ cursor' = cursor /\ applied' = applied
        /\ installed' = installed /\ turn' = turn /\ budget' = budget
        /\ snapshotSequence' = snapshotSequence /\ published' = published
        /\ lag' = lag /\ bootSequence' = bootSequence /\ starts' = starts
    BY <1>2 DEF Stop, store
  <2>2. TypeOK'
    BY <2>1 DEF IInv, TypeOK
  <2>3. \A p \in Projectors : WithinLimit(p)' <=> WithinLimit(p)
    BY <2>1 DEF WithinLimit
  <2>4. NothingSkippedWithinLimit' /\ CatchUpInv' /\ BusInv' /\ BusCarriesNewEventsOnly'
    BY <2>1, <2>3 DEF IInv, NothingSkippedWithinLimit, CatchUpInv, BusInv,
       BusCarriesNewEventsOnly
  <2>5. \A p \in Projectors : HistoryOK(applied'[p], cursor'[p]) /\ cursor'[p] <= stored'
    BY <2>1 DEF IInv
  <2> QED BY <2>2, <2>4, <2>5 DEF IInv
<1> QED BY <1>1, <1>2

\* Every step keeps the invariant.
LEMMA BootstrapNext == IInv /\ [Next]_vars => IInv'
<1> SUFFICES ASSUME IInv, [Next]_vars PROVE IInv'
  OBVIOUS
<1>1. CASE UNCHANGED vars
  BY <1>1 DEF vars, store, process, IInv, TypeOK, CatchUpInv, NothingSkippedWithinLimit,
     WithinLimit, BusInv, RequiredWithinLimit, BusCarriesNewEventsOnly
<1>2. CASE \E release \in Releases : Start(release)
  BY <1>2, StartKeeps
<1>3. CASE \E p \in Projectors : ReplayEvent(p) \/ EndReplay(p)
  BY <1>3, ReplayKeeps, EndReplayKeeps
<1>4. CASE Serve
  BY <1>4, ServeKeeps
<1>5. CASE StoreEvent \/ FailCommand \/ Stop
  BY <1>5, StoreKeeps, FailAndStopKeep
<1> QED BY <1>1, <1>2, <1>3, <1>4, <1>5 DEF Next, BootstrapStep

LEMMA BootstrapInvariant == Spec => []IInv
  BY BootstrapInit, BootstrapNext, PTL DEF Spec

-----------------------------------------------------------------------------

\* Every variable keeps its type, over any releases, crashes and failed starts.
THEOREM ProjectorsTyped == Spec => []TypeOK
<1>1. IInv => TypeOK
  BY DEF IInv
<1> QED BY BootstrapInvariant, <1>1, PTL

\* No projector applies an event twice or out of order, however often the server dies
\* while it catches up, and its cursor is the last event it applied.
THEOREM ExactlyOnce == Spec => []EachEventOnceInOrder
<1>1. IInv => EachEventOnceInOrder
  BY DEF IInv, HistoryOK, EachEventOnceInOrder
<1> QED BY BootstrapInvariant, <1>1, PTL

\* A projector that is never more than the read limit behind at a start skips nothing
\* and is at the end of the log while the server serves.
THEOREM NothingSkipped == Spec => []NothingSkippedWithinLimit
<1>1. IInv => NothingSkippedWithinLimit
  BY DEF IInv
<1> QED BY BootstrapInvariant, <1>1, PTL

\* With the required projectors within the limit, the bus carries the events of this
\* life, once each and in order.
THEOREM OnlyNewEvents == Spec => []BusCarriesNewEventsOnly
<1>1. IInv => BusCarriesNewEventsOnly
  BY DEF IInv
<1> QED BY BootstrapInvariant, <1>1, PTL

=============================================================================
