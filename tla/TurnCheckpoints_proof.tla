------------------------ MODULE TurnCheckpoints_proof ------------------------
(***************************************************************************)
(* For any number of turns, edits, diffs, reverts, hasty actions, failures *)
(* and crashes: type correctness, that checkpoint numbers are distinct in  *)
(* the table, that a captured checkpoint has its git ref, and that it is   *)
(* not replaced or lost.  For a user who waits: the tables match the       *)
(* memory and the refs of captured checkpoints stand; and while nothing    *)
(* fails or crashes, the numbers follow the conversation, a turn's files   *)
(* are in its checkpoint, and a revert lands as a whole.                   *)
(***************************************************************************)
EXTENDS TurnCheckpoints, SequenceTheorems, WellFoundedInduction, TLAPS

-----------------------------------------------------------------------------
(* What the handlers compute.                                              *)

\* A non-empty set of natural numbers has a least one.
LEMMA LeastNumber ==
  ASSUME NEW S, S \subseteq Nat, S # {}
  PROVE  \E n \in S : \A m \in S : n <= m
<1>1. PICK n \in S : \A m \in S : ~ (<<m, n>> \in OpToRel(<, Nat))
  BY NatLessThanWellFounded, WFMin
<1>2. \A m \in S : m < n => <<m, n>> \in OpToRel(<, Nat)
  BY DEF OpToRel
<1>3. ASSUME NEW m \in S PROVE n <= m
  <2>1. m \in Nat /\ n \in Nat
    OBVIOUS
  <2>2. ~ (m < n)
    BY <1>1, <1>2
  <2> QED BY <2>1, <2>2
<1> QED BY <1>3

\* The counts of the first k turns have a largest one.
LargestOf(table, k) ==
  \E n \in {table[t].count : t \in Held(table) \cap (1..k)} \cup {0} :
    \A m \in {table[t].count : t \in Held(table) \cap (1..k)} \cup {0} : m <= n

LEMMA LargestOfAll ==
  ASSUME NEW table \in Table, NEW k \in Nat
  PROVE  LargestOf(table, k)
<1> DEFINE Bad == {j \in Nat : ~ LargestOf(table, j)}
<1> SUFFICES ASSUME Bad # {} PROVE FALSE
  OBVIOUS
<1>1. PICK j \in Bad : \A i \in Bad : j <= i
  BY LeastNumber
<1>2. LargestOf(table, 0)
  BY DEF LargestOf
<1>3. j \in Nat \ {0} /\ j - 1 \notin Bad
  BY <1>1, <1>2
<1>4. PICK n \in {table[t].count : t \in Held(table) \cap (1..(j - 1))} \cup {0} :
        \A m \in {table[t].count : t \in Held(table) \cap (1..(j - 1))} \cup {0} : m <= n
  BY <1>3 DEF LargestOf
<1>5. \A t \in Held(table) : table[t].count \in Nat
  BY DEF Held, Table, Checkpoint
<1>6. n \in Nat
  BY <1>4, <1>5
<1>7. CASE j \in Held(table)
  <2> DEFINE top == IF table[j].count <= n THEN n ELSE table[j].count
  <2>1. top \in {table[t].count : t \in Held(table) \cap (1..j)} \cup {0}
    BY <1>3, <1>4, <1>7
  <2>2. \A m \in {table[t].count : t \in Held(table) \cap (1..j)} \cup {0} : m <= top
    <3> SUFFICES ASSUME NEW t \in Held(table) \cap (1..j) PROVE table[t].count <= top /\ 0 <= top
      BY <1>5, <1>6, <1>7
    <3>1. CASE t = j
      BY <3>1, <1>5, <1>6
    <3>2. CASE t # j
      <4>1. t \in 1..(j - 1)
        BY <3>2, <1>3
      <4>2. table[t].count <= n
        BY <4>1, <1>4
      <4> QED BY <4>2, <1>5, <1>6, <1>7
    <3> QED BY <3>1, <3>2
  <2> QED BY <2>1, <2>2, <1>1 DEF LargestOf
<1>8. CASE j \notin Held(table)
  <2>1. Held(table) \cap (1..j) = Held(table) \cap (1..(j - 1))
    BY <1>3, <1>8
  <2> QED BY <2>1, <1>1, <1>4 DEF LargestOf
<1> QED BY <1>7, <1>8

\* currentTurnCount is a number that a checkpoint has, if there is any, and no
\* checkpoint has a larger one.
LEMMA MaxCountIsLargest ==
  ASSUME NEW table \in Table
  PROVE  /\ MaxCount(table) \in Nat
         /\ \A t \in Held(table) : table[t].count <= MaxCount(table)
         /\ MaxCount(table) = 0 \/ \E t \in Held(table) : table[t].count = MaxCount(table)
<1> DEFINE counts == {table[t].count : t \in Held(table)} \cup {0}
<1>1. LargestOf(table, MaxTurns)
  BY LargestOfAll, BoundsAreNaturals
<1>2. Held(table) \cap (1..MaxTurns) = Held(table)
  BY DEF Held, Turns
<1>3. \E n \in counts : \A m \in counts : m <= n
  BY <1>1, <1>2 DEF LargestOf
<1>4. counts \subseteq Nat
  BY DEF Held, Table, Checkpoint
<1>5. MaxCount(table) = CHOOSE n \in counts : \A m \in counts : m <= n
  BY DEF MaxCount
<1> HIDE DEF counts
<1>6. MaxCount(table) \in counts /\ \A m \in counts : m <= MaxCount(table)
  BY <1>3, <1>5
<1> QED BY <1>4, <1>6 DEF counts

\* Both projections of a checkpoint, and of a revert, yield tables again.
LEMMA TablesTyped ==
  ASSUME NEW table \in Table, NEW t \in Turns, NEW c \in Checkpoint, NEW n \in Nat
  PROVE  /\ MemoryAfterDiff(table, t, c) \in Table
         /\ RowsAfterDiff(table, t, c) \in Table
         /\ AfterRevert(table, n) \in Table
<1>1. MemoryAfterDiff(table, t, c) \in Table
  BY DEF MemoryAfterDiff, Table
<1>2. clearCheckpointTurnConflict(table, t, c.count) \in Table
  BY DEF clearCheckpointTurnConflict, Table
<1>3. RowsAfterDiff(table, t, c) \in Table
  BY <1>2 DEF RowsAfterDiff, Table
<1>4. AfterRevert(table, n) \in Table
  BY DEF AfterRevert, Table
<1> QED BY <1>1, <1>3, <1>4

-----------------------------------------------------------------------------
(* Type correctness.                                                       *)

LEMMA InitTyped == Init => TypeOK
<1> SUFFICES ASSUME Init PROVE TypeOK
  OBVIOUS
<1>1. refs = [n \in {} |-> 0] /\ DOMAIN refs = {}
  BY DEF Init, HeadTree
<1>2. work \in Work
  BY DEF Init, Idle, Work, WorkIn, Statuses
<1>3. checkpoints \in Table /\ rows \in Table
  BY DEF Init, Table
<1>4. /\ conversation \in Seq(Turns) /\ ingestFeed \in Seq(RuntimeEvent)
      /\ domainFeed \in Seq(DomainEvent) /\ runtimeFeed \in Seq(RuntimeEvent)
  BY DEF Init
<1>5. treeAfter \in [Turns -> Nat \cup {None}] /\ diffs \in [Turns -> 0..MaxDiffs]
  BY BoundsAreNaturals DEF Init
<1>6. /\ started \in 0..MaxTurns /\ requests \in Nat /\ started + requests <= MaxTurns
      /\ edits \in 0..MaxEdits /\ reverts \in 0..MaxReverts
  BY BoundsAreNaturals DEF Init
<1>7. DOMAIN refs \in SUBSET Nat /\ \A n \in DOMAIN refs : refs[n] \in Nat
  BY <1>1
<1>8. /\ tree \in Nat /\ running \in Turns \cup {None} /\ session \in BOOLEAN
      /\ activeTurn \in Turns \cup {None}
      /\ reading \in [event : RuntimeEvent, count : Nat] \cup {None}
      /\ hasty \in Nat /\ faults \in Nat /\ crashes \in Nat
  BY DEF Init
<1> QED BY <1>2, <1>3, <1>4, <1>5, <1>6, <1>7, <1>8 DEF TypeOK

LEMMA UserTyped ==
  ASSUME TypeOK, User PROVE TypeOK'
<1>0. hasty \in Nat /\ reverts \in 0..MaxReverts
  BY DEF TypeOK
<1>1. CASE RequestTurn
  <2>1. TurnRequested \in DomainEvent
    BY BoundsAreNaturals DEF TurnRequested, DomainEvent, Statuses
  <2>2. domainFeed' \in Seq(DomainEvent)
    BY <1>1, <2>1 DEF RequestTurn, TypeOK
  <2>3. requests' \in Nat /\ started' + requests' <= MaxTurns
    BY <1>1, BoundsAreNaturals DEF RequestTurn, TypeOK
  <2>4. hasty' \in Nat
    BY <1>0, <1>1 DEF RequestTurn, Hurry
  <2> QED BY <1>1, <2>2, <2>3, <2>4 DEF RequestTurn, TypeOK, disk, engine, ingestion, bounds
<1>2. ASSUME NEW n \in Turns \cup {0}, RequestRevert(n) PROVE TypeOK'
  <2>1. RevertRequested(n) \in DomainEvent
    BY BoundsAreNaturals DEF RevertRequested, DomainEvent, Statuses, Turns
  <2>2. domainFeed' \in Seq(DomainEvent)
    BY <1>2, <2>1 DEF RequestRevert, TypeOK
  <2>3. hasty' \in Nat
    BY <1>0, <1>2 DEF RequestRevert, Hurry
  <2>4. reverts' \in 0..MaxReverts
    BY <1>0, <1>2, BoundsAreNaturals DEF RequestRevert
  <2> QED BY <1>2, <2>2, <2>3, <2>4 DEF RequestRevert, TypeOK, disk, provider, engine, ingestion
<1> QED BY <1>1, <1>2 DEF User

LEMMA ProviderTyped ==
  ASSUME TypeOK, Provider PROVE TypeOK'
<1>1. CASE BeginTurn
  <2>1. started + 1 \in Turns
    BY <1>1, BoundsAreNaturals DEF BeginTurn, TypeOK, Turns
  <2>2. TurnStarted(started + 1) \in RuntimeEvent
    BY <2>1 DEF TurnStarted, RuntimeEvent, States
  <2>3. ingestFeed' \in Seq(RuntimeEvent) /\ runtimeFeed' \in Seq(RuntimeEvent)
    BY <1>1, <2>2 DEF BeginTurn, TypeOK
  <2>4. requests' \in Nat /\ started' \in 0..MaxTurns /\ started' + requests' <= MaxTurns
    <3>1. requests \in Nat /\ started \in 0..MaxTurns /\ started + requests <= MaxTurns
      BY DEF TypeOK
    <3> QED BY <1>1, <3>1, BoundsAreNaturals DEF BeginTurn
  <2>5. running' \in Turns /\ activeTurn' \in Turns \cup {None} /\ session' \in BOOLEAN
    BY <1>1, <2>1 DEF BeginTurn, TypeOK
  <2> QED BY <1>1, <2>3, <2>4, <2>5 DEF BeginTurn, TypeOK, disk, ghosts, bounds
<1>2. CASE Edit
  BY <1>2, BoundsAreNaturals DEF Edit, TypeOK, provider, engine, ingestion, reactor, ghosts
<1>3. CASE UpdateDiff
  <2>1. running \in Turns
    BY <1>3 DEF UpdateDiff, TypeOK
  <2>2. ingestFeed' \in Seq(RuntimeEvent)
    BY <1>3, <2>1 DEF UpdateDiff, TypeOK, TurnDiffUpdated, RuntimeEvent, States
  <2>3. diffs' \in [Turns -> 0..MaxDiffs]
    <3>1. diffs \in [Turns -> 0..MaxDiffs]
      BY DEF TypeOK
    <3>2. diffs[running] + 1 \in 0..MaxDiffs
      BY <1>3, <2>1, <3>1, BoundsAreNaturals DEF UpdateDiff
    <3>3. diffs' = [diffs EXCEPT ![running] = diffs[running] + 1]
      BY <1>3 DEF UpdateDiff
    <3> QED BY <2>1, <3>1, <3>2, <3>3
  <2> QED BY <1>3, <2>2, <2>3 DEF UpdateDiff, TypeOK, disk, provider, engine, reactor, ghosts
<1>4. ASSUME NEW s \in States, CompleteTurn(s) PROVE TypeOK'
  <2>1. running \in Turns
    BY <1>4 DEF CompleteTurn, TypeOK
  <2>2. TurnCompleted(running, s) \in RuntimeEvent
    BY <2>1 DEF TurnCompleted, RuntimeEvent
  <2>3. ingestFeed' \in Seq(RuntimeEvent) /\ runtimeFeed' \in Seq(RuntimeEvent)
    BY <1>4, <2>2 DEF CompleteTurn, TypeOK
  <2>4. conversation' \in Seq(Turns)
    BY <1>4, <2>1 DEF CompleteTurn, TypeOK
  <2>5. treeAfter' \in [Turns -> Nat \cup {None}]
    BY <1>4, <2>1 DEF CompleteTurn, TypeOK
  <2> QED BY <1>4, <2>3, <2>4, <2>5 DEF CompleteTurn, TypeOK, disk, engine, bounds
<1> QED BY <1>1, <1>2, <1>3, <1>4 DEF Provider

LEMMA DiffTyped ==
  ASSUME TypeOK, NEW t \in Turns, NEW c \in Checkpoint, DispatchTurnDiff(t, c)
  PROVE  checkpoints' \in Table /\ rows' \in Table /\ domainFeed' \in Seq(DomainEvent)
<1>1. c.count \in Nat /\ c.status \in Statuses
  BY DEF Checkpoint
<1>2. t \in 0..MaxTurns
  BY BoundsAreNaturals DEF Turns
<1>3. TurnDiffCompleted(t, c.count, c.status) \in DomainEvent
  BY <1>1, <1>2 DEF TurnDiffCompleted, DomainEvent
<1>4. checkpoints' \in Table /\ rows' \in Table
  BY TablesTyped DEF DispatchTurnDiff, TypeOK
<1>5. domainFeed' \in Seq(DomainEvent)
  BY <1>3 DEF DispatchTurnDiff, TypeOK
<1> QED BY <1>4, <1>5

LEMMA IngestionTyped ==
  ASSUME TypeOK, Ingestion PROVE TypeOK'
<1>1. CASE IngestRead
  <2>1. Head(ingestFeed) \in RuntimeEvent /\ Tail(ingestFeed) \in Seq(RuntimeEvent)
    BY <1>1, HeadTailProperties DEF IngestRead, TypeOK
  <2>2. MaxCount(checkpoints) \in Nat
    BY MaxCountIsLargest DEF TypeOK
  <2>3. reading' \in [event : RuntimeEvent, count : Nat] \cup {None}
    BY <1>1, <2>1, <2>2 DEF IngestRead
  <2> QED BY <1>1, <2>1, <2>3 DEF IngestRead, TypeOK, disk, provider, engine, reactor, ghosts,
                                  bounds
<1>2. CASE IngestTurnLifecycle
  <2>1. reading.event \in RuntimeEvent
    BY <1>2 DEF IngestTurnLifecycle, InHand, TypeOK
  <2>2. activeTurn' \in Turns \cup {None}
    BY <1>2, <2>1 DEF IngestTurnLifecycle, RuntimeEvent
  <2> QED BY <1>2, <2>2 DEF IngestTurnLifecycle, TypeOK, disk, provider, reactor, ghosts, bounds
<1>3. CASE IngestTurnDiff
  <2>1. reading.event \in RuntimeEvent /\ reading.count \in Nat
    BY <1>3 DEF IngestTurnDiff, InHand, TypeOK
  <2>2. reading.event.turn \in Turns
    BY <2>1 DEF RuntimeEvent
  <2>3. [count |-> reading.count, status |-> "missing", ref |-> "provider-diff"] \in Checkpoint
    BY <2>1 DEF Checkpoint, Statuses
  <2>4. checkpoints' \in Table /\ rows' \in Table /\ domainFeed' \in Seq(DomainEvent)
    BY <1>3, <2>2, <2>3, DiffTyped DEF IngestTurnDiff
  <2> QED BY <1>3, <2>4 DEF IngestTurnDiff, TypeOK, disk, provider, ghosts, bounds
<1> QED BY <1>1, <1>2, <1>3 DEF Ingestion

\* The work at hand that a capture or a baseline begins with.
LEMMA WorkTyped ==
  ASSUME NEW t \in Turns, NEW n \in Nat, NEW s \in Statuses
  PROVE  /\ Capture(t, n, s) \in Work
         /\ [Idle EXCEPT !.stage = "baseline", !.count = n] \in Work
         /\ Idle \in Work
<1>1. t \in 0..MaxTurns /\ 0 \in 0..MaxTurns
  BY BoundsAreNaturals DEF Turns
<1> QED BY <1>1 DEF Capture, Idle, Work, WorkIn, CaptureStages, RevertStages, Statuses

LEMMA ReactorTakesTyped ==
  ASSUME TypeOK, ReactorTakes PROVE TypeOK'
<1>1. MaxCount(checkpoints) \in Nat
  BY MaxCountIsLargest DEF TypeOK
<1>2. domainFeed # <<>> =>
        Head(domainFeed) \in DomainEvent /\ Tail(domainFeed) \in Seq(DomainEvent)
  BY HeadTailProperties DEF TypeOK
<1>3. runtimeFeed # <<>> =>
        Head(runtimeFeed) \in RuntimeEvent /\ Tail(runtimeFeed) \in Seq(RuntimeEvent)
  BY HeadTailProperties DEF TypeOK
<1>4. Idle \in Work /\ Baseline \in Work
  BY <1>1, BoundsAreNaturals DEF Baseline, Idle, Work, WorkIn, CaptureStages, RevertStages, Statuses
<1>5. ASSUME NEW type, TakesDomain(type) \/ TakesRuntime(type), work' \in Work
      PROVE  TypeOK'
  <2>1. domainFeed' \in Seq(DomainEvent) /\ runtimeFeed' \in Seq(RuntimeEvent)
    BY <1>2, <1>3, <1>5 DEF TakesDomain, TakesRuntime, TypeOK
  <2> QED BY <1>5, <2>1 DEF TakesDomain, TakesRuntime, TypeOK, disk, provider, engine, ingestion,
                            ghosts, bounds
<1>6. CASE BaselineOnRequest
  BY <1>4, <1>5, <1>6 DEF BaselineOnRequest
<1>7. CASE BaselineOnStart
  BY <1>4, <1>5, <1>7 DEF BaselineOnStart
<1>8. CASE CaptureOnCompletion
  <2> DEFINE t == Head(runtimeFeed).turn
             state == Head(runtimeFeed).state
             next == IF checkpoints[t] # None THEN checkpoints[t].count
                     ELSE MaxCount(checkpoints) + 1
  <2>1. t \in Turns /\ checkpointStatusFromRuntime(state) \in Statuses
    BY <1>3, <1>8 DEF CaptureOnCompletion, TakesRuntime, RuntimeEvent, checkpointStatusFromRuntime,
                      Statuses
  <2>2. next \in Nat
    BY <1>1, <2>1 DEF TypeOK, Table, Checkpoint
  <2>3. Capture(t, next, checkpointStatusFromRuntime(state)) \in Work
    BY <2>1, <2>2, WorkTyped
  <2>4. work' \in {work, Capture(t, next, checkpointStatusFromRuntime(state))}
    BY <1>8 DEF CaptureOnCompletion
  <2> QED BY <1>5, <1>8, <2>3, <2>4 DEF CaptureOnCompletion, TypeOK
<1>9. CASE CaptureOnPlaceholder
  <2> DEFINE e == Head(domainFeed)
  <2>1. e.turn \in Turns /\ e.count \in Nat
    BY <1>2, <1>9 DEF CaptureOnPlaceholder, TakesDomain, DomainEvent
  <2>2. Capture(e.turn, e.count, "ready") \in Work
    BY <2>1, WorkTyped DEF Statuses
  <2>3. work' \in {work, Capture(e.turn, e.count, "ready")}
    BY <1>9 DEF CaptureOnPlaceholder
  <2> QED BY <1>5, <1>9, <2>2, <2>3 DEF CaptureOnPlaceholder, TypeOK
<1>10. CASE StartRevert
  <2> DEFINE n == Head(domainFeed).count
             stale == {t \in StaleCheckpoints(n) : checkpoints[t].ref = "git"}
             counts == {checkpoints[t].count : t \in stale}
  <2>1. n \in Nat
    BY <1>2, <1>10 DEF StartRevert, TakesDomain, DomainEvent
  <2>2. counts \subseteq Nat
    BY DEF StaleCheckpoints, Held, TypeOK, Table, Checkpoint
  <2>3. TargetRefs(n) \subseteq {"git", "provider-diff"}
    BY DEF TargetRefs, Held, TypeOK, Table, Checkpoint
  <2>4. CASE session /\ n <= MaxCount(checkpoints) /\ TargetRefs(n) # {}
    <3>1. PICK r \in TargetRefs(n) :
            work' = [Idle EXCEPT !.stage = "restore", !.count = n, !.ref = r,
                                 !.stale = counts, !.back = MaxCount(checkpoints) - n]
      BY <1>10, <2>4 DEF StartRevert
    <3>2. MaxCount(checkpoints) - n \in Nat
      BY <1>1, <2>1, <2>4
    <3> HIDE DEF n, counts
    <3>3. work' \in Work
      BY <2>1, <2>2, <2>3, <3>1, <3>2 DEF Idle, Work, WorkIn, RevertStages, Statuses
    <3> QED BY <1>5, <1>10, <3>3 DEF StartRevert
  <2>5. CASE ~ (session /\ n <= MaxCount(checkpoints) /\ TargetRefs(n) # {})
    BY <1>5, <1>10, <2>5 DEF StartRevert, TypeOK
  <2> QED BY <2>4, <2>5
<1> QED BY <1>6, <1>7, <1>8, <1>9, <1>10 DEF ReactorTakes

LEMMA RefsTyped ==
  ASSUME TypeOK, NEW n \in Nat, WriteRef(n)
  PROVE  DOMAIN refs' \in SUBSET Nat /\ \A m \in DOMAIN refs' : refs'[m] \in Nat
BY DEF WriteRef, TypeOK

LEMMA ReactorActsTyped ==
  ASSUME TypeOK, ReactorActs PROVE TypeOK'
<1>1. Idle \in Work
  BY DEF Idle, Work, WorkIn, Statuses
<1>2. work.count \in Nat /\ work.status \in Statuses /\ work.stale \in SUBSET Nat
  BY DEF TypeOK, Work, WorkIn
<1>3. CASE CaptureBaseline
  <2>1. DOMAIN refs' \in SUBSET Nat /\ \A m \in DOMAIN refs' : refs'[m] \in Nat
    BY <1>2, <1>3, RefsTyped DEF CaptureBaseline, TypeOK
  <2> QED BY <1>1, <1>3, <2>1 DEF CaptureBaseline, TypeOK, provider, engine, ingestion, ghosts,
                                  bounds
<1>4. CASE CaptureCheckpoint
  <2>1. DOMAIN refs' \in SUBSET Nat /\ \A m \in DOMAIN refs' : refs'[m] \in Nat
    BY <1>2, <1>4, RefsTyped DEF CaptureCheckpoint
  <2>2. work' \in Work
    BY <1>4 DEF CaptureCheckpoint, TypeOK, Work, WorkIn, CaptureStages, RevertStages
  <2> QED BY <1>4, <2>1, <2>2 DEF CaptureCheckpoint, TypeOK, provider, engine, ingestion, ghosts,
                                  bounds
<1>5. CASE RecordCheckpoint
  <2> DEFINE c == [count |-> work.count, status |-> work.status, ref |-> "git"]
  <2>1. work.turn \in Turns
    BY <1>5 DEF RecordCheckpoint, TypeOK, Work, WorkIn, RevertStages
  <2>2. c \in Checkpoint
    BY <1>2 DEF Checkpoint
  <2>3. DispatchTurnDiff(work.turn, c)
    BY <1>5 DEF RecordCheckpoint
  <2> HIDE DEF c
  <2>4. checkpoints' \in Table /\ rows' \in Table /\ domainFeed' \in Seq(DomainEvent)
    BY <2>1, <2>2, <2>3, DiffTyped
  <2> QED BY <1>1, <1>5, <2>4 DEF RecordCheckpoint, TypeOK, disk, provider, ingestion, ghosts,
                                  bounds
<1>6. CASE RestoreCheckpoint
  <2>1. RestorableTrees \subseteq Nat
    BY DEF RestorableTrees, HasRef, HeadTree, TypeOK
  <2>2. tree' \in Nat
    BY <1>6, <2>1 DEF RestoreCheckpoint, TypeOK
  <2>3. [work EXCEPT !.stage = "rollback"] \in Work
    BY <1>6 DEF RestoreCheckpoint, TypeOK, Work, WorkIn, CaptureStages, RevertStages
  <2> QED BY <1>1, <1>6, <2>2, <2>3 DEF RestoreCheckpoint, TypeOK, provider, engine, ingestion,
                                        ghosts, bounds
<1>7. CASE RollbackConversation
  <2> DEFINE kept == IF work.back <= Len(conversation) THEN Len(conversation) - work.back ELSE 0
  <2>1. kept \in 0..Len(conversation)
    BY DEF TypeOK, Work, WorkIn
  <2>2. \A i \in 1..kept : conversation[i] \in Turns
    BY <2>1, ElementOfSeq DEF TypeOK
  <2>3. conversation' \in Seq(Turns)
    BY SMTT(20), <1>7, <2>1, <2>2, SubSeqProperties DEF RollbackConversation, Without
  <2>4. work' \in Work
    BY <1>7 DEF RollbackConversation, TypeOK, Work, WorkIn, CaptureStages, RevertStages
  <2> QED BY <1>7, <2>3, <2>4 DEF RollbackConversation, TypeOK, disk, engine, ingestion, ghosts,
                                  bounds
<1>8. CASE DeleteStaleRefs
  <2>1. DOMAIN refs' \in SUBSET Nat /\ \A m \in DOMAIN refs' : refs'[m] \in Nat
    BY <1>8 DEF DeleteStaleRefs, TypeOK
  <2>2. work' \in Work
    BY <1>8 DEF DeleteStaleRefs, TypeOK, Work, WorkIn, CaptureStages, RevertStages
  <2> QED BY <1>8, <2>1, <2>2 DEF DeleteStaleRefs, TypeOK, provider, engine, ingestion, ghosts,
                                  bounds
<1>9. CASE CompleteRevert
  <2>1. checkpoints' \in Table /\ rows' \in Table
    BY <1>2, <1>9 DEF CompleteRevert, DispatchReverted, AfterRevert, TypeOK, Table
  <2> QED BY <1>1, <1>9, <2>1 DEF CompleteRevert, TypeOK, disk, provider, ingestion, ghosts, bounds
<1> QED BY <1>3, <1>4, <1>5, <1>6, <1>7, <1>8, <1>9 DEF ReactorActs

LEMMA TroubleTyped ==
  ASSUME TypeOK, StepFails \/ Crash PROVE TypeOK'
<1>1. Idle \in Work
  BY DEF Idle, Work, WorkIn, Statuses
<1>2. CASE StepFails
  <2>1. RestorableTrees \subseteq Nat
    BY DEF RestorableTrees, HasRef, HeadTree, TypeOK
  <2>2. tree' \in Nat
    BY <1>2, <2>1 DEF StepFails, TypeOK
  <2>3. faults' \in Nat
    BY <1>2 DEF StepFails, TypeOK
  <2> QED BY <1>1, <1>2, <2>2, <2>3 DEF StepFails, TypeOK, provider, engine, ingestion, ghosts
<1>3. CASE Crash
  <2>1. requests' \in Nat /\ started' + requests' <= MaxTurns /\ crashes' \in Nat
    BY <1>3 DEF Crash, TypeOK
  <2>2. /\ ingestFeed' \in Seq(RuntimeEvent) /\ domainFeed' \in Seq(DomainEvent)
        /\ runtimeFeed' \in Seq(RuntimeEvent)
    BY <1>3 DEF Crash
  <2> QED BY <1>1, <1>3, <2>1, <2>2 DEF Crash, TypeOK, disk, ghosts
<1> QED BY <1>2, <1>3

LEMMA TypeInductive == TypeOK /\ [Next]_vars => TypeOK'
<1>1. ASSUME TypeOK, Next PROVE TypeOK'
  BY <1>1, UserTyped, ProviderTyped, IngestionTyped, ReactorTakesTyped, ReactorActsTyped,
     TroubleTyped DEF Next
<1>2. ASSUME TypeOK, UNCHANGED vars PROVE TypeOK'
  BY <1>2 DEF TypeOK, vars, disk, provider, engine, ingestion, reactor, ghosts, bounds
<1> QED BY <1>1, <1>2

\* The state of the workspace's checkpoints, of both projections and of all that is
\* on its way between provider, ingestion and reactor is of its type.
THEOREM TypeCorrect == Spec => []TypeOK
<1> QED BY InitTyped, TypeInductive, PTL DEF Spec

-----------------------------------------------------------------------------
(* The tables change by the projections alone.                             *)

\* A step leaves the tables as they are, or projects one of the two events, or brings
\* the read model back after a crash.
ProjectsDiff ==
  \E t \in Turns, c \in Checkpoint :
    /\ c.status # "missing" => HasRef(c.count) /\ work.stage = "record"
    /\ checkpoints' = MemoryAfterDiff(checkpoints, t, c)
    /\ rows' = RowsAfterDiff(rows, t, c)
    /\ UNCHANGED <<refs, crashes>>
    /\ \/ work' = work
       \/ work.stage = "record" /\ work' = Idle
ProjectsRevert ==
  /\ work.stage = "reverted"
  /\ DispatchReverted(work.count)
  /\ work' = Idle
  /\ UNCHANGED <<refs, crashes>>
TablesKept == UNCHANGED <<checkpoints, rows, crashes>>

\* The ref of a capture is there when it is recorded.
RefBeforeRecord == work.stage = "record" => HasRef(work.count)

LEMMA DiffSteps ==
  ASSUME TypeOK, RefBeforeRecord, IngestTurnDiff \/ RecordCheckpoint \/ CompleteRevert
  PROVE  ProjectsDiff \/ ProjectsRevert
<1>1. CASE IngestTurnDiff
  <2> DEFINE c == [count |-> reading.count, status |-> "missing", ref |-> "provider-diff"]
  <2>1. reading.event \in RuntimeEvent /\ reading.count \in Nat
    BY <1>1 DEF IngestTurnDiff, InHand, TypeOK
  <2>2. reading.event.turn \in Turns
    BY <2>1 DEF RuntimeEvent
  <2>3. c \in Checkpoint /\ c.status = "missing"
    BY <2>1 DEF Checkpoint, Statuses
  <2>4. /\ checkpoints' = MemoryAfterDiff(checkpoints, reading.event.turn, c)
        /\ rows' = RowsAfterDiff(rows, reading.event.turn, c)
        /\ UNCHANGED <<refs, crashes>> /\ work' = work
    BY <1>1 DEF IngestTurnDiff, DispatchTurnDiff, disk, bounds
  <2> DEFINE t == reading.event.turn
  <2>5. t \in Turns /\ checkpoints' = MemoryAfterDiff(checkpoints, t, c)
        /\ rows' = RowsAfterDiff(rows, t, c)
    BY <2>2, <2>4
  <2> HIDE DEF c, t
  <2> QED BY <2>3, <2>4, <2>5 DEF ProjectsDiff
<1>2. CASE RecordCheckpoint
  <2> DEFINE c == [count |-> work.count, status |-> work.status, ref |-> "git"]
  <2>1. work.turn \in Turns /\ work.count \in Nat /\ work.status \in Statuses
    BY <1>2 DEF RecordCheckpoint, TypeOK, Work, WorkIn, RevertStages
  <2>2. c \in Checkpoint /\ c.count = work.count
    BY <2>1 DEF Checkpoint
  <2>3. HasRef(work.count) /\ work.stage = "record"
    BY <1>2 DEF RecordCheckpoint, RefBeforeRecord
  <2>4. /\ checkpoints' = MemoryAfterDiff(checkpoints, work.turn, c)
        /\ rows' = RowsAfterDiff(rows, work.turn, c)
        /\ UNCHANGED <<refs, crashes>> /\ work' = Idle
    BY <1>2 DEF RecordCheckpoint, DispatchTurnDiff, disk, bounds
  <2> HIDE DEF c
  <2> QED BY <2>1, <2>2, <2>3, <2>4 DEF ProjectsDiff
<1>3. CASE CompleteRevert
  BY <1>3 DEF CompleteRevert, ProjectsRevert, disk, bounds
<1> QED BY <1>1, <1>2, <1>3

LEMMA TableSteps ==
  ASSUME TypeOK, RefBeforeRecord, Next
  PROVE  ProjectsDiff \/ ProjectsRevert \/ TablesKept \/ Crash
<1>1. CASE IngestTurnDiff \/ RecordCheckpoint \/ CompleteRevert
  BY <1>1, DiffSteps
<1>4. CASE User \/ Provider
  BY <1>4 DEF User, Provider, RequestTurn, RequestRevert, BeginTurn, Edit, UpdateDiff,
    CompleteTurn, TablesKept, engine, bounds
<1>5. CASE IngestRead \/ IngestTurnLifecycle
  BY <1>5 DEF IngestRead, IngestTurnLifecycle, TablesKept, engine, bounds
<1>6. CASE ReactorTakes
  BY <1>6 DEF ReactorTakes, BaselineOnRequest, BaselineOnStart, CaptureOnCompletion,
    CaptureOnPlaceholder, StartRevert, TakesDomain, TakesRuntime, TablesKept, engine, bounds
<1>7. CASE \/ CaptureBaseline \/ CaptureCheckpoint \/ RestoreCheckpoint
           \/ RollbackConversation \/ DeleteStaleRefs
  BY <1>7 DEF CaptureBaseline, CaptureCheckpoint, RestoreCheckpoint, RollbackConversation,
    DeleteStaleRefs, TablesKept, engine, bounds
<1>8. CASE StepFails
  BY <1>8 DEF StepFails, TablesKept, engine
<1> QED BY <1>1, <1>4, <1>5, <1>6, <1>7, <1>8 DEF Next, Ingestion, ReactorActs

LEMMA RefBeforeRecordKept ==
  ASSUME TypeOK, RefBeforeRecord, [Next]_vars PROVE RefBeforeRecord'
<1>1. CASE CaptureCheckpoint
  BY <1>1 DEF CaptureCheckpoint, WriteRef, RefBeforeRecord, HasRef, TypeOK, Work, WorkIn
<1>2. CASE work' = Idle \/ UNCHANGED <<work, refs>>
  BY <1>2 DEF RefBeforeRecord, HasRef, Idle
<1>3. CASE ReactorTakes
  BY <1>3 DEF ReactorTakes, BaselineOnRequest, BaselineOnStart, CaptureOnCompletion,
    CaptureOnPlaceholder, StartRevert, TakesDomain, TakesRuntime, Baseline, Capture, Idle,
    RefBeforeRecord, HasRef, disk
<1>4. CASE RestoreCheckpoint \/ RollbackConversation \/ DeleteStaleRefs
  BY <1>4 DEF RestoreCheckpoint, RollbackConversation, DeleteStaleRefs, Idle, RefBeforeRecord,
    TypeOK, Work, WorkIn
<1>5. CASE User \/ Provider \/ Ingestion \/ UNCHANGED vars
  BY <1>2, <1>5 DEF User, Provider, Ingestion, RequestTurn, RequestRevert, BeginTurn, Edit,
    UpdateDiff, CompleteTurn, IngestRead, IngestTurnLifecycle, IngestTurnDiff, vars, disk, reactor
<1>6. CASE CaptureBaseline \/ RecordCheckpoint \/ CompleteRevert \/ StepFails \/ Crash
  BY <1>2, <1>6 DEF CaptureBaseline, RecordCheckpoint, CompleteRevert, StepFails, Crash
<1> QED BY <1>1, <1>3, <1>4, <1>5, <1>6 DEF Next, ReactorActs

-----------------------------------------------------------------------------
(* The invariants.                                                         *)

LEMMA RowsStayDistinct ==
  ASSUME TypeOK, RefBeforeRecord, RowsDistinct, [Next]_vars PROVE RowsDistinct'
<1>1. CASE ProjectsDiff
  <2>1. PICK t \in Turns, c \in Checkpoint : rows' = RowsAfterDiff(rows, t, c)
    BY <1>1 DEF ProjectsDiff
  <2>2. ASSUME NEW u \in Turns, rows'[u] # None
        PROVE  \/ u = t /\ rows'[u] = c
               \/ u # t /\ rows'[u] = rows[u] /\ rows[u].count # c.count
    <3>1. clearCheckpointTurnConflict(rows, t, c.count) \in [Turns -> Checkpoint \cup {None}]
      BY DEF clearCheckpointTurnConflict, TypeOK, Table
    <3>2. CASE u = t
      BY <2>1, <3>1, <3>2 DEF RowsAfterDiff
    <3>3. CASE u # t
      <4>1. rows'[u] = clearCheckpointTurnConflict(rows, t, c.count)[u]
        BY <2>1, <3>1, <3>3 DEF RowsAfterDiff
      <4> QED BY <2>2, <3>3, <4>1 DEF clearCheckpointTurnConflict
    <3> QED BY <3>2, <3>3
  <2> QED BY <2>2 DEF RowsDistinct, Held
<1>2. CASE ProjectsRevert
  BY <1>2 DEF ProjectsRevert, DispatchReverted, AfterRevert, RowsDistinct, Held
<1>3. CASE TablesKept \/ UNCHANGED vars
  BY <1>3 DEF TablesKept, vars, engine, RowsDistinct, Held
<1>4. CASE Crash
  BY <1>4 DEF Crash, RowsDistinct, Held
<1> QED BY <1>1, <1>2, <1>3, <1>4, TableSteps

\* No step of any mix of provider events, captures, reverts, hurry, failures and
\* crashes gives two rows one checkpoint number: the unique index always holds.
THEOREM NumbersDistinct == Spec => []RowsDistinct
<1>1. Init => RefBeforeRecord /\ RowsDistinct
  BY DEF Init, RefBeforeRecord, Idle, RowsDistinct, Held
<1> QED BY <1>1, TypeCorrect, RefBeforeRecordKept, RowsStayDistinct, PTL DEF Spec

\* A step keeps what is captured, drops it by a revert, or restores the tables.
LEMMA CapturedKept ==
  ASSUME TypeOK, RefBeforeRecord, [Next]_vars, NEW t \in Turns, IsCaptured(checkpoints, t)
  PROVE  \/ IsCaptured(checkpoints, t)'
         \/ work.stage = "reverted" /\ checkpoints[t].count > work.count
         \/ crashes' # crashes
<1>1. CASE ProjectsDiff
  <2>1. PICK u \in Turns, c \in Checkpoint : checkpoints' = MemoryAfterDiff(checkpoints, u, c)
    BY <1>1 DEF ProjectsDiff
  <2>2. c # None /\ checkpoints \in [Turns -> Checkpoint \cup {None}]
    BY NoneIsNoCheckpoint DEF TypeOK, Table
  <2>3. CASE IsCaptured(checkpoints, u) /\ c.status = "missing"
    BY <2>1, <2>3 DEF MemoryAfterDiff, IsCaptured
  <2>4. CASE ~ (IsCaptured(checkpoints, u) /\ c.status = "missing")
    <3>1. checkpoints' = [checkpoints EXCEPT ![u] = c]
      BY <2>1, <2>4 DEF MemoryAfterDiff
    <3> QED BY <2>2, <2>4, <3>1 DEF IsCaptured
  <2> QED BY <2>3, <2>4
<1>2. CASE ProjectsRevert
  <2>1. work.count \in Nat /\ checkpoints[t].count \in Nat
    BY DEF TypeOK, Work, WorkIn, Table, Checkpoint, IsCaptured
  <2>2. CASE checkpoints[t].count <= work.count
    BY <1>2, <2>2 DEF ProjectsRevert, DispatchReverted, AfterRevert, IsCaptured
  <2> QED BY <1>2, <2>1, <2>2 DEF ProjectsRevert
<1>3. CASE TablesKept \/ UNCHANGED vars
  BY <1>3 DEF TablesKept, vars, engine, IsCaptured
<1>4. CASE Crash
  BY <1>4 DEF Crash, TypeOK
<1> QED BY <1>1, <1>2, <1>3, <1>4, TableSteps

\* The read model never lets a placeholder replace a captured checkpoint, and loses one
\* only to a revert or a restart.
THEOREM CapturedStay == Spec => CapturedStaysCaptured
<1>1. Init => RefBeforeRecord
  BY DEF Init, RefBeforeRecord, Idle
<1>2. TypeOK /\ RefBeforeRecord /\ [Next]_vars =>
        [\A t \in Turns :
           IsCaptured(checkpoints, t) =>
             \/ IsCaptured(checkpoints', t)
             \/ work.stage = "reverted" /\ checkpoints[t].count > work.count
             \/ crashes' # crashes]_vars
  BY CapturedKept DEF IsCaptured
<1> QED BY <1>1, <1>2, TypeCorrect, RefBeforeRecordKept, PTL DEF Spec, CapturedStaysCaptured

-----------------------------------------------------------------------------
(* Refs behind captured checkpoints.                                       *)

\* A revert deletes refs above its target only, and nothing is captured while it runs.
StaleAboveTarget ==
  work.stage \in RevertStages => \A n \in work.stale : n > work.count
CapturedRefsInv ==
  crashes = 0 =>
    \A t \in Turns :
      IsCaptured(checkpoints, t) =>
        \/ HasRef(checkpoints[t].count)
        \/ work.stage = "reverted" /\ checkpoints[t].count > work.count
RefInv == RefBeforeRecord /\ StaleAboveTarget /\ CapturedRefsInv

LEMMA StaleAboveTargetKept ==
  ASSUME TypeOK, StaleAboveTarget, [Next]_vars PROVE StaleAboveTarget'
<1>1. CASE work' = work
  BY <1>1 DEF StaleAboveTarget
<1>2. CASE work'.stage \notin RevertStages
  BY <1>2 DEF StaleAboveTarget
<1>3. CASE RestoreCheckpoint \/ RollbackConversation \/ DeleteStaleRefs
  <2>1. work.stage \in RevertStages
    BY <1>3 DEF RestoreCheckpoint, RollbackConversation, DeleteStaleRefs, RevertStages
  <2>2. \/ work' = Idle
        \/ \E stage \in RevertStages : work' = [work EXCEPT !.stage = stage]
    BY <1>3 DEF RestoreCheckpoint, RollbackConversation, DeleteStaleRefs, RevertStages
  <2>3. ASSUME NEW stage, work' = [work EXCEPT !.stage = stage]
        PROVE  work'.stale = work.stale /\ work'.count = work.count
    BY <2>3 DEF TypeOK, Work, WorkIn
  <2>4. CASE work' = Idle
    BY <1>2, <2>4 DEF Idle, RevertStages
  <2> QED BY <2>1, <2>2, <2>3, <2>4 DEF StaleAboveTarget
<1>4. CASE StartRevert
  <2> DEFINE n == Head(domainFeed).count
             stale == {t \in StaleCheckpoints(n) : checkpoints[t].ref = "git"}
             counts == {checkpoints[t].count : t \in stale}
  <2>1. CASE work' = work
    BY <2>1, <1>1
  <2>2. CASE work' # work
    <3>1. \A m \in counts : m > n
      BY DEF StaleCheckpoints
    <3>2. PICK r \in TargetRefs(n) :
            work' = [Idle EXCEPT !.stage = "restore", !.count = n, !.ref = r,
                                 !.stale = counts, !.back = MaxCount(checkpoints) - n]
      BY <1>4, <2>2 DEF StartRevert
    <3> HIDE DEF n, counts
    <3>3. work'.stale = counts /\ work'.count = n
      BY <3>2 DEF Idle
    <3> QED BY <3>1, <3>3 DEF StaleAboveTarget
  <2> QED BY <2>1, <2>2
<1>5. CASE \/ BaselineOnRequest \/ BaselineOnStart \/ CaptureOnCompletion
           \/ CaptureOnPlaceholder
  BY <1>1, <1>2, <1>5 DEF BaselineOnRequest, BaselineOnStart, CaptureOnCompletion,
    CaptureOnPlaceholder, Baseline, Capture, Idle, RevertStages
<1>6. CASE CaptureCheckpoint
  BY <1>2, <1>6 DEF CaptureCheckpoint, TypeOK, Work, WorkIn, RevertStages
<1>7. CASE CaptureBaseline \/ RecordCheckpoint \/ CompleteRevert \/ StepFails \/ Crash
  BY <1>2, <1>7 DEF CaptureBaseline, RecordCheckpoint, CompleteRevert, StepFails, Crash, Idle,
    RevertStages
<1>8. CASE User \/ Provider \/ Ingestion \/ UNCHANGED vars
  BY <1>1, <1>8 DEF User, Provider, Ingestion, RequestTurn, RequestRevert, BeginTurn, Edit,
    UpdateDiff, CompleteTurn, IngestRead, IngestTurnLifecycle, IngestTurnDiff, vars, reactor
<1> QED BY <1>3, <1>4, <1>5, <1>6, <1>7, <1>8 DEF Next, ReactorTakes, ReactorActs

\* Only a crash counts as one.
LEMMA CrashesKept ==
  ASSUME [Next]_vars, ~ Crash PROVE crashes' = crashes
<1>1. CASE User \/ Provider
  BY <1>1 DEF User, Provider, RequestTurn, RequestRevert, BeginTurn, Edit, UpdateDiff,
    CompleteTurn, bounds
<1>2. CASE Ingestion
  BY <1>2 DEF Ingestion, IngestRead, IngestTurnLifecycle, IngestTurnDiff, bounds
<1>3. CASE ReactorTakes
  BY <1>3 DEF ReactorTakes, BaselineOnRequest, BaselineOnStart, CaptureOnCompletion,
    CaptureOnPlaceholder, StartRevert, TakesDomain, TakesRuntime, bounds
<1>4. CASE ReactorActs
  BY <1>4 DEF ReactorActs, CaptureBaseline, CaptureCheckpoint, RecordCheckpoint,
    RestoreCheckpoint, RollbackConversation, DeleteStaleRefs, CompleteRevert, bounds
<1>5. CASE StepFails \/ UNCHANGED vars
  BY <1>5 DEF StepFails, vars, bounds
<1> QED BY <1>1, <1>2, <1>3, <1>4, <1>5 DEF Next

LEMMA CapturedRefsKept ==
  ASSUME TypeOK, RefInv, [Next]_vars PROVE CapturedRefsInv'
<1> SUFFICES ASSUME crashes' = 0, NEW t \in Turns, IsCaptured(checkpoints, t)'
             PROVE  \/ HasRef(checkpoints[t].count)'
                    \/ work'.stage = "reverted" /\ checkpoints'[t].count > work'.count
  BY DEF CapturedRefsInv, IsCaptured, HasRef
<1> DEFINE Behind(u) ==
      \/ HasRef(checkpoints[u].count)
      \/ work.stage = "reverted" /\ checkpoints[u].count > work.count
<1>1. crashes = 0
  <2>1. CASE Crash
    BY <2>1 DEF Crash, TypeOK
  <2>2. CASE ~ Crash
    BY <2>2, CrashesKept
  <2> QED BY <2>1, <2>2
<1>2. \A u \in Turns : IsCaptured(checkpoints, u) => Behind(u)
  BY <1>1 DEF RefInv, CapturedRefsInv
<1>3. CASE ProjectsDiff
  <2>1. PICK u \in Turns, c \in Checkpoint :
          /\ c.status # "missing" => HasRef(c.count) /\ work.stage = "record"
          /\ checkpoints' = MemoryAfterDiff(checkpoints, u, c)
          /\ refs' = refs
          /\ \/ work' = work
             \/ work.stage = "record" /\ work' = Idle
    BY <1>3 DEF ProjectsDiff
  <2>2. checkpoints \in [Turns -> Checkpoint \cup {None}]
    BY DEF TypeOK, Table
  <2>3. CASE checkpoints'[t] = checkpoints[t]
    BY <1>2, <2>1, <2>3 DEF IsCaptured, HasRef
  <2>4. CASE checkpoints'[t] = c
    BY <2>1, <2>4 DEF IsCaptured, HasRef
  <2>5. checkpoints'[t] = checkpoints[t] \/ checkpoints'[t] = c
    BY <2>1, <2>2 DEF MemoryAfterDiff
  <2> QED BY <2>3, <2>4, <2>5
<1>4. CASE ProjectsRevert
  <2>1. checkpoints'[t] = checkpoints[t] /\ checkpoints[t].count <= work.count
    BY <1>4 DEF ProjectsRevert, DispatchReverted, AfterRevert, IsCaptured
  <2>2. checkpoints[t].count \in Nat /\ work.count \in Nat
    BY <2>1 DEF IsCaptured, TypeOK, Table, Checkpoint, Work, WorkIn
  <2>3. HasRef(checkpoints[t].count)
    BY <1>2, <2>1, <2>2 DEF IsCaptured
  <2> QED BY <1>4, <2>1, <2>3 DEF ProjectsRevert, HasRef
<1>5. CASE UNCHANGED <<checkpoints, refs, work>>
  BY <1>2, <1>5 DEF IsCaptured, HasRef
<1>6. ASSUME UNCHANGED checkpoints, work.stage # "reverted", DOMAIN refs \subseteq DOMAIN refs'
      PROVE  HasRef(checkpoints[t].count)'
  BY <1>2, <1>6 DEF IsCaptured, HasRef
<1>7. CASE CaptureBaseline \/ CaptureCheckpoint
  BY <1>6, <1>7 DEF CaptureBaseline, CaptureCheckpoint, WriteRef, engine
<1>8. CASE RestoreCheckpoint \/ RollbackConversation \/ ReactorTakes \/ StepFails
  <2>1. work.stage # "reverted"
    BY <1>8 DEF RestoreCheckpoint, RollbackConversation, ReactorTakes, StepFails,
      BaselineOnRequest, BaselineOnStart, CaptureOnCompletion, CaptureOnPlaceholder, StartRevert,
      TakesDomain, TakesRuntime
  <2>2. UNCHANGED <<checkpoints, refs>>
    BY <1>8 DEF RestoreCheckpoint, RollbackConversation, ReactorTakes, StepFails,
      BaselineOnRequest, BaselineOnStart, CaptureOnCompletion, CaptureOnPlaceholder, StartRevert,
      TakesDomain, TakesRuntime, engine, disk
  <2> QED BY <1>6, <2>1, <2>2
<1>9. CASE DeleteStaleRefs
  <2>1. HasRef(checkpoints[t].count) /\ checkpoints' = checkpoints
    BY <1>2, <1>9 DEF DeleteStaleRefs, IsCaptured, engine
  <2>2. CASE checkpoints[t].count \in work.stale
    <3>1. checkpoints[t].count > work.count
      BY <1>9, <2>2 DEF DeleteStaleRefs, RefInv, StaleAboveTarget, RevertStages
    <3>2. work'.stage = "reverted" /\ work'.count = work.count
      BY <1>9 DEF DeleteStaleRefs, TypeOK, Work, WorkIn
    <3> QED BY <2>1, <3>1, <3>2
  <2>3. CASE checkpoints[t].count \notin work.stale
    BY <1>9, <2>1, <2>3 DEF DeleteStaleRefs, HasRef
  <2> QED BY <2>2, <2>3
<1>10. CASE User \/ Provider \/ IngestRead \/ IngestTurnLifecycle \/ UNCHANGED vars
  BY <1>5, <1>10 DEF User, Provider, RequestTurn, RequestRevert, BeginTurn, Edit, UpdateDiff,
    CompleteTurn, IngestRead, IngestTurnLifecycle, vars, disk, engine, reactor
<1>11. CASE IngestTurnDiff \/ RecordCheckpoint \/ CompleteRevert
  BY <1>3, <1>4, <1>11, DiffSteps DEF RefInv
<1>12. CASE Crash
  BY <1>1, <1>12 DEF Crash
<1> QED BY <1>7, <1>8, <1>9, <1>10, <1>11, <1>12 DEF Next, Ingestion, ReactorActs

\* Every captured checkpoint can be compared and reverted to: its git ref exists, but
\* for those a revert on its way is about to drop, as long as the server has not died.
THEOREM CapturedHaveRefs == Spec => []CapturedHasRef
<1>1. Init => RefInv
  BY DEF Init, RefInv, RefBeforeRecord, StaleAboveTarget, CapturedRefsInv, Idle, RevertStages,
    IsCaptured
<1>2. TypeOK /\ RefInv /\ [Next]_vars => RefInv'
  BY RefBeforeRecordKept, StaleAboveTargetKept, CapturedRefsKept DEF RefInv
<1>3. RefInv => CapturedHasRef
  BY DEF RefInv, CapturedRefsInv, CapturedHasRef
<1> QED BY <1>1, <1>2, <1>3, TypeCorrect, PTL DEF Spec

-----------------------------------------------------------------------------
(* What a user who waits can rely on: the parts of the invariant.          *)

InFeed(feed) == {feed[i] : i \in 1..Len(feed)}

\* The number a checkpoint of turn t has or, while it has none, would take.
NextCount(table, t) ==
  IF table[t] # None THEN table[t].count ELSE MaxCount(table) + 1
Distinct(table) == \A t, u \in Held(table) : table[t].count = table[u].count => t = u
\* The row of t is the read model's checkpoint or a placeholder of its number.
Placeholder(n) == [count |-> n, status |-> "missing", ref |-> "provider-diff"]
AgreeAt(memory, table, t) ==
  \/ table[t] = memory[t]
  \/ IsCaptured(memory, t) /\ table[t] = Placeholder(memory[t].count)

TurnInFlight ==
  \/ running # None \/ ingestFeed # <<>> \/ reading # None \/ runtimeFeed # <<>>
  \/ work.stage \in CaptureStages
  \/ \E e \in InFeed(domainFeed) : e.type = "turn-diff-completed"
RevertInFlight ==
  \/ work.stage \in RevertStages
  \/ \E e \in InFeed(domainFeed) : e.type = "revert-requested"

\* A turn that was requested, a turn in flight and a revert exclude each other.
OneAtATime ==
  /\ requests <= 1
  /\ requests > 0 => ~ TurnInFlight /\ ~ RevertInFlight
  /\ RevertInFlight => ~ TurnInFlight
  /\ RevertInFlight => \/ domainFeed = <<>>
                       \/ work.stage = "idle" /\ Len(domainFeed) = 1

\* All that is in flight for a turn is about the last one started, and every number
\* that is on its way for it is the one its checkpoint has or would take now.
OfThisTurn ==
  /\ running \in {None, started}
  /\ \A e \in InFeed(ingestFeed) : e.turn = started
  /\ \A e \in InFeed(runtimeFeed) : e.turn = started
  /\ reading # None =>
       /\ reading.event.turn = started
       /\ reading.event.type = "turn.diff.updated" =>
            reading.count = NextCount(checkpoints, started)
  /\ work.stage \in CaptureStages =>
       work.turn = started /\ work.count = NextCount(checkpoints, started)
  /\ \A e \in InFeed(domainFeed) : e.type = "turn-diff-completed" =>
       e.turn = started /\ e.count = NextCount(checkpoints, started)

TablesInv ==
  /\ Distinct(checkpoints)
  /\ \A t \in Held(checkpoints) : t <= started
  /\ \A t \in Turns : AgreeAt(checkpoints, rows, t)

\* Only the reactor records captures, one at a time.
OpenCapture == work.stage \in CaptureStages => ~ IsCaptured(checkpoints, work.turn)

PatientInv == hasty = 0 => OneAtATime /\ OfThisTurn /\ TablesInv

-----------------------------------------------------------------------------
(* Feeds and tables.                                                       *)

LEMMA EmptyFeed == InFeed(<<>>) = {}
BY DEF InFeed

LEMMA FeedAppend ==
  ASSUME NEW S, NEW feed \in Seq(S), NEW e \in S
  PROVE  InFeed(Append(feed, e)) = InFeed(feed) \cup {e}
BY DEF InFeed

LEMMA FeedTail ==
  ASSUME NEW S, NEW feed \in Seq(S), feed # <<>>
  PROVE  /\ InFeed(feed) = InFeed(Tail(feed)) \cup {Head(feed)}
         /\ Head(feed) \in S /\ Tail(feed) \in Seq(S)
<1>1. Head(feed) \in S /\ Tail(feed) \in Seq(S) /\ Len(Tail(feed)) = Len(feed) - 1
  BY HeadTailProperties
<1>2. Len(feed) \in Nat \ {0}
  BY EmptySeq
<1>3. ASSUME NEW i \in 1..Len(feed) PROVE feed[i] \in InFeed(Tail(feed)) \cup {Head(feed)}
  <2>1. CASE i = 1
    BY <2>1
  <2>2. CASE i # 1
    <3>1. i - 1 \in 1..Len(Tail(feed)) /\ Tail(feed)[i - 1] = feed[i]
      BY <1>1, <1>2, <2>2
    <3> QED BY <3>1 DEF InFeed
  <2> QED BY <2>1, <2>2
<1>4. ASSUME NEW i \in 1..Len(Tail(feed)) PROVE Tail(feed)[i] \in InFeed(feed)
  <2>1. i + 1 \in 1..Len(feed) /\ Tail(feed)[i] = feed[i + 1]
    BY <1>1, <1>2
  <2> QED BY <2>1 DEF InFeed
<1>5. Head(feed) \in InFeed(feed)
  BY <1>2 DEF InFeed
<1> QED BY <1>1, <1>3, <1>4, <1>5 DEF InFeed

LEMMA NotEmpty ==
  ASSUME NEW S, NEW feed \in Seq(S)
  PROVE  feed # <<>> <=> InFeed(feed) # {}
<1>1. feed # <<>> => 1 \in 1..Len(feed)
  BY EmptySeq
<1> QED BY <1>1 DEF InFeed

\* No other turn has the number that a turn's checkpoint has or would take.
LEMMA NumberFree ==
  ASSUME NEW table \in Table, Distinct(table), NEW t \in Turns, NEW u \in Held(table), u # t
  PROVE  NextCount(table, t) \in Nat /\ table[u].count # NextCount(table, t)
<1>1. MaxCount(table) \in Nat /\ table[u].count <= MaxCount(table) /\ table[u].count \in Nat
  BY MaxCountIsLargest DEF Held, Table, Checkpoint
<1>2. CASE table[t] # None
  BY <1>2 DEF NextCount, Distinct, Held, Table, Checkpoint
<1>3. CASE table[t] = None
  BY <1>1, <1>3 DEF NextCount
<1> QED BY <1>2, <1>3

LEMMA NumberIsNat ==
  ASSUME NEW table \in Table, NEW t \in Turns PROVE NextCount(table, t) \in Nat
<1>1. MaxCount(table) \in Nat
  BY MaxCountIsLargest
<1> QED BY <1>1 DEF NextCount, Table, Checkpoint

\* A checkpoint of that number leaves the number, and the numbers' distinctness.
LEMMA DiffKeepsNumbers ==
  ASSUME NEW table \in Table, Distinct(table), NEW t \in Turns, NEW c \in Checkpoint,
         c.count = NextCount(table, t)
  PROVE  /\ NextCount(MemoryAfterDiff(table, t, c), t) = NextCount(table, t)
         /\ Distinct(MemoryAfterDiff(table, t, c))
         /\ Held(MemoryAfterDiff(table, t, c)) = Held(table) \cup {t}
<1>1. c # None /\ table \in [Turns -> Checkpoint \cup {None}]
  BY NoneIsNoCheckpoint DEF Table
<1>2. CASE IsCaptured(table, t) /\ c.status = "missing"
  BY <1>2 DEF MemoryAfterDiff, IsCaptured, Held
<1>3. CASE ~ (IsCaptured(table, t) /\ c.status = "missing")
  <2>1. MemoryAfterDiff(table, t, c) = [table EXCEPT ![t] = c]
    BY <1>3 DEF MemoryAfterDiff
  <2> DEFINE new == [table EXCEPT ![t] = c]
  <2>2. new[t] = c /\ \A u \in Turns \ {t} : new[u] = table[u]
    BY <1>1
  <2>3. NextCount(new, t) = c.count
    BY <1>1, <2>2 DEF NextCount
  <2>4. Held(new) = Held(table) \cup {t}
    BY <1>1, <2>2 DEF Held
  <2>5. Distinct(new)
    <3> SUFFICES ASSUME NEW u \in Held(new), NEW v \in Held(new), u # v
                 PROVE  new[u].count # new[v].count
      BY DEF Distinct
    <3>1. \A w \in Held(table) : w # t => table[w].count # c.count
      BY NumberFree
    <3>2. u \in Turns /\ v \in Turns
      BY DEF Held
    <3>3. CASE u = t
      BY <2>2, <2>4, <3>1, <3>2, <3>3
    <3>4. CASE v = t
      BY <2>2, <2>4, <3>1, <3>2, <3>4
    <3>5. CASE u # t /\ v # t
      BY <2>2, <2>4, <3>2, <3>5 DEF Distinct
    <3> QED BY <3>3, <3>4, <3>5
  <2> QED BY <2>1, <2>3, <2>4, <2>5
<1> QED BY <1>2, <1>3

\* The two projections of such a checkpoint keep the tables in agreement.
LEMMA DiffKeepsAgreement ==
  ASSUME NEW memory \in Table, NEW table \in Table, Distinct(memory),
         \A u \in Turns : AgreeAt(memory, table, u),
         NEW t \in Turns, NEW c \in Checkpoint, c.count = NextCount(memory, t),
         \/ c.status = "missing" /\ c.ref = "provider-diff"
         \/ ~ IsCaptured(memory, t)
  PROVE  \A u \in Turns : AgreeAt(MemoryAfterDiff(memory, t, c), RowsAfterDiff(table, t, c), u)
<1> SUFFICES ASSUME NEW u \in Turns
             PROVE  AgreeAt(MemoryAfterDiff(memory, t, c), RowsAfterDiff(table, t, c), u)
  OBVIOUS
<1> DEFINE cleared == clearCheckpointTurnConflict(table, t, c.count)
<1>1. cleared \in [Turns -> Checkpoint \cup {None}]
  BY DEF clearCheckpointTurnConflict, Table
<1>2. memory \in [Turns -> Checkpoint \cup {None}]
  BY DEF Table
<1>3. CASE u = t
  <2>1. RowsAfterDiff(table, t, c)[u] = c
    BY <1>1, <1>3 DEF RowsAfterDiff
  <2>2. CASE IsCaptured(memory, t) /\ c.status = "missing"
    <3>1. MemoryAfterDiff(memory, t, c) = memory /\ c.ref = "provider-diff"
      BY <2>2 DEF MemoryAfterDiff
    <3>2. memory[t] \in Checkpoint /\ c.count = memory[t].count
      BY <1>2, <2>2 DEF IsCaptured, NextCount
    <3>3. c = Placeholder(memory[t].count)
      BY <2>2, <3>1, <3>2 DEF Checkpoint, Placeholder
    <3> QED BY <1>3, <2>1, <2>2, <3>1, <3>3 DEF AgreeAt
  <2>3. CASE ~ (IsCaptured(memory, t) /\ c.status = "missing")
    BY <1>2, <1>3, <2>1, <2>3 DEF AgreeAt, MemoryAfterDiff
  <2> QED BY <2>2, <2>3
<1>4. CASE u # t
  <2>1. MemoryAfterDiff(memory, t, c)[u] = memory[u]
    BY <1>2, <1>4 DEF MemoryAfterDiff
  <2>2. table[u] # None => table[u].count # c.count
    <3>1. memory[u] # None => memory[u].count # c.count
      BY <1>4, NumberFree DEF Held
    <3>2. \/ table[u] = memory[u]
          \/ memory[u] \in Checkpoint /\ table[u].count = memory[u].count
      <4>1. AgreeAt(memory, table, u)
        OBVIOUS
      <4> QED BY <1>2, <4>1 DEF AgreeAt, IsCaptured, Checkpoint, Placeholder
    <3> QED BY <3>1, <3>2, NoneIsNoCheckpoint
  <2>3. RowsAfterDiff(table, t, c)[u] = table[u]
    BY <1>1, <1>4, <2>2 DEF RowsAfterDiff, clearCheckpointTurnConflict
  <2>4. AgreeAt(memory, table, u)
    OBVIOUS
  <2> QED BY <2>1, <2>3, <2>4 DEF AgreeAt, IsCaptured
<1> QED BY <1>3, <1>4

\* So does a revert.
LEMMA RevertKeepsAgreement ==
  ASSUME NEW memory \in Table, NEW table \in Table, NEW n \in Nat,
         \A u \in Turns : AgreeAt(memory, table, u)
  PROVE  \A u \in Turns : AgreeAt(AfterRevert(memory, n), AfterRevert(table, n), u)
<1> SUFFICES ASSUME NEW u \in Turns
             PROVE  AgreeAt(AfterRevert(memory, n), AfterRevert(table, n), u)
  OBVIOUS
<1>1. AgreeAt(memory, table, u)
  OBVIOUS
<1>2. CASE table[u] = memory[u]
  BY <1>2 DEF AgreeAt, AfterRevert
<1>3. CASE IsCaptured(memory, u) /\ table[u] = Placeholder(memory[u].count)
  <2>1. memory[u] \in Checkpoint
    BY <1>3 DEF IsCaptured, Table
  <2>2. table[u] # None /\ table[u].count = memory[u].count
    BY <1>3, <2>1, NoneIsNoCheckpoint DEF Checkpoint, Statuses, Placeholder
  <2> QED BY <1>3, <2>1, <2>2 DEF AgreeAt, AfterRevert, IsCaptured
<1> QED BY <1>1, <1>2, <1>3 DEF AgreeAt

-----------------------------------------------------------------------------
(* What a user who waits can rely on: the invariant is kept.               *)

\* The reactor takes an input while idle, and takes it only.
LEMMA TakesKeep ==
  ASSUME ReactorTakes
  PROVE  /\ work.stage = "idle"
         /\ UNCHANGED <<disk, provider, engine, ingestion, ghosts, bounds>>
         /\ \/ domainFeed # <<>> /\ domainFeed' = Tail(domainFeed) /\ UNCHANGED runtimeFeed
            \/ runtimeFeed # <<>> /\ runtimeFeed' = Tail(runtimeFeed) /\ UNCHANGED domainFeed
<1>1. \/ \E type : TakesDomain(type)
      \/ \E type : TakesRuntime(type)
  BY Zenon DEF ReactorTakes, BaselineOnRequest, BaselineOnStart, CaptureOnCompletion,
    CaptureOnPlaceholder, StartRevert
<1> QED BY <1>1 DEF TakesDomain, TakesRuntime

\* Where the steps of a revert lead.
LEMMA StageSet ==
  ASSUME TypeOK, NEW stage, work' = [work EXCEPT !.stage = stage] PROVE work'.stage = stage
BY DEF TypeOK, Work, WorkIn

LEMMA RevertWalks ==
  ASSUME TypeOK, RestoreCheckpoint \/ RollbackConversation \/ DeleteStaleRefs \/ CompleteRevert
  PROVE  work'.stage \in {"idle", "rollback", "delete", "reverted"}
<1>1. CASE RestoreCheckpoint
  BY <1>1, StageSet DEF RestoreCheckpoint, Idle
<1>2. CASE RollbackConversation
  BY <1>2, StageSet DEF RollbackConversation
<1>3. CASE DeleteStaleRefs
  BY <1>3, StageSet DEF DeleteStaleRefs
<1>4. CASE CompleteRevert
  BY <1>4 DEF CompleteRevert, Idle
<1> QED BY <1>1, <1>2, <1>3, <1>4

\* The work a revert request turns into, if it is not refused.
LEMMA RevertWork ==
  ASSUME StartRevert
  PROVE  \/ work' = work
         \/ LET n == Head(domainFeed).count
            IN /\ work'.stage = "restore" /\ work'.count = n
               /\ n <= MaxCount(checkpoints) /\ work'.back = MaxCount(checkpoints) - n
               /\ work'.ref \in TargetRefs(n)
<1> DEFINE n == Head(domainFeed).count
           stale == {t \in StaleCheckpoints(n) : checkpoints[t].ref = "git"}
           counts == {checkpoints[t].count : t \in stale}
<1> SUFFICES ASSUME work' # work
             PROVE  /\ work'.stage = "restore" /\ work'.count = n
                    /\ n <= MaxCount(checkpoints) /\ work'.back = MaxCount(checkpoints) - n
                    /\ work'.ref \in TargetRefs(n)
  OBVIOUS
<1>1. session /\ n <= MaxCount(checkpoints) /\ TargetRefs(n) # {}
  BY Zenon DEF StartRevert
<1>2. PICK r \in TargetRefs(n) :
        work' = [Idle EXCEPT !.stage = "restore", !.count = n, !.ref = r,
                             !.stale = counts, !.back = MaxCount(checkpoints) - n]
  BY Zenon, <1>1 DEF StartRevert
<1> HIDE DEF n, counts
<1>3. /\ work'.stage = "restore" /\ work'.count = n /\ work'.ref = r
      /\ work'.back = MaxCount(checkpoints) - n
  BY <1>2 DEF Idle
<1> QED BY <1>1, <1>3

\* Nothing that is captured is lost before it is recorded, and nothing else captures.
LEMMA OpenCaptureKept ==
  ASSUME TypeOK, OpenCapture, [Next]_vars PROVE OpenCapture'
<1>1. CASE UNCHANGED <<work, checkpoints>>
  BY <1>1 DEF OpenCapture, IsCaptured
<1>2. CASE work' = Idle
  BY <1>2 DEF OpenCapture, Idle, CaptureStages
<1>3. CASE ReactorTakes
  <2>1. UNCHANGED checkpoints
    BY <1>3, TakesKeep DEF engine
  <2>2. CASE work' = work
    BY <1>1, <2>1, <2>2
  <2>3. CASE BaselineOnRequest \/ BaselineOnStart
    BY <2>3 DEF BaselineOnRequest, BaselineOnStart, Baseline, Idle, OpenCapture, CaptureStages
  <2>4. CASE CaptureOnCompletion \/ CaptureOnPlaceholder
    BY <2>1, <2>2, <2>4 DEF CaptureOnCompletion, CaptureOnPlaceholder, Capture, Idle,
      OpenCapture, CaptureStages, IsCaptured
  <2>5. CASE StartRevert
    <3>1. work' = work \/ work'.stage = "restore"
      BY <2>5, RevertWork
    <3> QED BY <2>2, <3>1 DEF OpenCapture, CaptureStages
  <2> QED BY <1>3, <2>3, <2>4, <2>5 DEF ReactorTakes
<1>4. CASE CaptureCheckpoint
  BY <1>4 DEF CaptureCheckpoint, OpenCapture, CaptureStages, IsCaptured, TypeOK, Work, WorkIn,
    engine
<1>5. CASE RestoreCheckpoint \/ RollbackConversation \/ DeleteStaleRefs
  <2>1. work'.stage \notin CaptureStages
    BY <1>5, RevertWalks DEF CaptureStages
  <2> QED BY <2>1 DEF OpenCapture
<1>6. CASE IngestTurnDiff
  <2> DEFINE t == reading.event.turn
             c == [count |-> reading.count, status |-> "missing", ref |-> "provider-diff"]
  <2>1. c.status = "missing" /\ checkpoints' = MemoryAfterDiff(checkpoints, t, c) /\ work' = work
    BY <1>6 DEF IngestTurnDiff, DispatchTurnDiff
  <2>2. checkpoints \in [Turns -> Checkpoint \cup {None}]
    BY DEF TypeOK, Table
  <2> HIDE DEF c, t
  <2>3. work.turn \in Turns => (IsCaptured(checkpoints', work.turn) =>
                                  IsCaptured(checkpoints, work.turn))
    BY <2>1, <2>2 DEF MemoryAfterDiff, IsCaptured
  <2>4. work.stage \in CaptureStages => work.turn \in Turns
    BY DEF TypeOK, Work, WorkIn, CaptureStages, RevertStages
  <2> QED BY <2>1, <2>3, <2>4 DEF OpenCapture, IsCaptured
<1>7. CASE User \/ Provider \/ IngestRead \/ IngestTurnLifecycle \/ UNCHANGED vars
  BY <1>1, <1>7 DEF User, Provider, RequestTurn, RequestRevert, BeginTurn, Edit, UpdateDiff,
    CompleteTurn, IngestRead, IngestTurnLifecycle, vars, engine, reactor
<1>8. CASE CaptureBaseline \/ RecordCheckpoint \/ CompleteRevert \/ StepFails \/ Crash
  BY <1>2, <1>8 DEF CaptureBaseline, RecordCheckpoint, CompleteRevert, StepFails, Crash
<1> QED BY <1>3, <1>4, <1>5, <1>6, <1>7, <1>8 DEF Next, Ingestion, ReactorActs

\* While a turn is in flight no revert is, and the other way round.
LEMMA TurnStep ==
  ASSUME OneAtATime, TurnInFlight, requests' = requests, ~ RevertInFlight', TypeOK
  PROVE  OneAtATime'
BY DEF OneAtATime, TypeOK

LEMMA RevertStep ==
  ASSUME OneAtATime, RevertInFlight,
         UNCHANGED <<requests, running, ingestFeed, reading, runtimeFeed>>,
         domainFeed' = <<>>, work'.stage \notin CaptureStages, TypeOK
  PROVE  OneAtATime'
<1>1. requests = 0 /\ ~ TurnInFlight
  BY DEF OneAtATime, TypeOK
<1>2. ~ TurnInFlight'
  BY <1>1, EmptyFeed DEF TurnInFlight, InFeed
<1> QED BY <1>1, <1>2 DEF OneAtATime

LEMMA OtherStep ==
  ASSUME OneAtATime, requests' = requests, ~ RevertInFlight', TurnInFlight' => TurnInFlight
  PROVE  OneAtATime'
BY DEF OneAtATime

\* What goes on being about the last turn, when the read model does not change.
LEMMA SameTurn ==
  ASSUME OfThisTurn, UNCHANGED <<checkpoints, started>>, running' \in {None, running},
         \A e \in InFeed(ingestFeed') : e \in InFeed(ingestFeed) \/ e.turn = started,
         \A e \in InFeed(runtimeFeed') : e \in InFeed(runtimeFeed) \/ e.turn = started,
         \A e \in InFeed(domainFeed') :
           e \in InFeed(domainFeed) \/ e.type # "turn-diff-completed",
         reading' \in {None, reading},
         work'.stage \in CaptureStages =>
           work'.turn = started /\ work'.count = NextCount(checkpoints, started)
  PROVE  OfThisTurn'
<1>1. /\ running' \in {None, started'}
      /\ \A e \in InFeed(ingestFeed') : e.turn = started'
      /\ \A e \in InFeed(runtimeFeed') : e.turn = started'
  BY DEF OfThisTurn
<1>2. reading' # None =>
       /\ reading'.event.turn = started'
       /\ reading'.event.type = "turn.diff.updated" =>
            reading'.count = NextCount(checkpoints', started')
  BY DEF OfThisTurn
<1>3. work'.stage \in CaptureStages =>
       work'.turn = started' /\ work'.count = NextCount(checkpoints', started')
  OBVIOUS
<1>4. \A e \in InFeed(domainFeed') : e.type = "turn-diff-completed" =>
       e.turn = started' /\ e.count = NextCount(checkpoints', started')
  BY DEF OfThisTurn
<1> QED BY <1>1, <1>2, <1>3, <1>4 DEF OfThisTurn, InFeed, NextCount, MaxCount, Held

LEMMA SameTables ==
  ASSUME TablesInv, UNCHANGED <<checkpoints, rows>>, started \in Nat, started' \in Nat,
         started <= started', TypeOK
  PROVE  TablesInv'
<1>1. \A t \in Held(checkpoints) : t \in Nat
  BY BoundsAreNaturals DEF Held, Turns
<1> QED BY <1>1 DEF TablesInv, Distinct, Held, AgreeAt, IsCaptured, Placeholder

Patient == OneAtATime /\ OfThisTurn /\ TablesInv

\* A request comes while nothing is in flight.
LEMMA UserPatient ==
  ASSUME TypeOK, Patient, User, Settled PROVE Patient'
<1>0. started \in Nat
  BY BoundsAreNaturals DEF TypeOK
<1>1. /\ requests = 0 /\ ingestFeed = <<>> /\ runtimeFeed = <<>> /\ reading = None
      /\ running = None /\ work.stage = "idle" /\ domainFeed = <<>>
  BY DEF Settled
<1>2. UNCHANGED <<running, ingestFeed, runtimeFeed, reading, work, checkpoints, rows, started>>
  BY DEF User, RequestTurn, RequestRevert, ingestion, engine, provider
<1>3. work.stage \notin RevertStages \cup CaptureStages
  BY <1>1 DEF RevertStages, CaptureStages
<1>4. CASE RequestTurn
  <2>1. domainFeed' = <<TurnRequested, TurnRequested>> /\ requests' = 1
    BY <1>1, <1>4 DEF RequestTurn
  <2>2. \A e \in InFeed(domainFeed') : e.type = "turn-requested"
    BY <2>1 DEF InFeed, TurnRequested
  <2>3. ~ TurnInFlight' /\ ~ RevertInFlight'
    BY <1>1, <1>2, <1>3, <2>2 DEF TurnInFlight, RevertInFlight, InFeed
  <2>4. OneAtATime'
    BY <2>1, <2>3 DEF OneAtATime
  <2>5. OfThisTurn'
    BY <1>2, <1>3, <2>2, SameTurn DEF Patient
  <2>6. TablesInv'
    BY <1>0, <1>2, SameTables DEF Patient
  <2> QED BY <2>4, <2>5, <2>6 DEF Patient
<1>5. ASSUME NEW n \in Turns \cup {0}, RequestRevert(n) PROVE Patient'
  <2>1. domainFeed' = <<RevertRequested(n)>> /\ requests' = 0
    BY <1>1, <1>5 DEF RequestRevert, provider
  <2>2. \A e \in InFeed(domainFeed') : e.type = "revert-requested"
    BY <2>1 DEF InFeed, RevertRequested
  <2>3. ~ TurnInFlight'
    BY <1>1, <1>2, <1>3, <2>2 DEF TurnInFlight, InFeed
  <2>4. OneAtATime'
    BY <1>1, <1>2, <2>1, <2>3 DEF OneAtATime
  <2>5. OfThisTurn'
    BY <1>2, <1>3, <2>2, SameTurn DEF Patient
  <2>6. TablesInv'
    BY <1>0, <1>2, SameTables DEF Patient
  <2> QED BY <2>4, <2>5, <2>6 DEF Patient
<1> QED BY <1>4, <1>5 DEF User

LEMMA ProviderPatient ==
  ASSUME TypeOK, Patient, Provider PROVE Patient'
<1>0. started \in Nat /\ started' \in {started, started + 1}
  BY BoundsAreNaturals DEF TypeOK, Provider, BeginTurn, Edit, UpdateDiff, CompleteTurn, provider
<1>1. UNCHANGED <<checkpoints, rows>>
  BY DEF Provider, BeginTurn, Edit, UpdateDiff, CompleteTurn, engine
<1>2. TablesInv'
  BY <1>0, <1>1, SameTables DEF Patient
<1>3. UNCHANGED <<domainFeed, work, reading>>
  BY DEF Provider, BeginTurn, Edit, UpdateDiff, CompleteTurn, reactor, ingestion
<1>4. CASE BeginTurn
  <2>1. ~ TurnInFlight /\ ~ RevertInFlight /\ requests' = 0
    BY <1>4 DEF BeginTurn, Patient, OneAtATime, TypeOK
  <2>2. /\ reading = None /\ work.stage \notin CaptureStages
        /\ \A e \in InFeed(domainFeed) : e.type # "turn-diff-completed"
    BY <2>1 DEF TurnInFlight
  <2>3. ingestFeed' = <<TurnStarted(started')>> /\ runtimeFeed' = <<TurnStarted(started')>>
    <3>1. ingestFeed = <<>> /\ runtimeFeed = <<>>
      BY <2>1 DEF TurnInFlight
    <3>2. started' = started + 1 /\ ingestFeed' = Append(ingestFeed, TurnStarted(started'))
          /\ runtimeFeed' = Append(runtimeFeed, TurnStarted(started'))
      BY <1>4 DEF BeginTurn
    <3> QED BY <3>1, <3>2
  <2>4. running' = started' /\ TurnStarted(started').turn = started'
    BY <1>4 DEF BeginTurn, TurnStarted
  <2>5. ~ RevertInFlight'
    BY <1>3, <2>1 DEF RevertInFlight, InFeed
  <2>6. OneAtATime'
    BY <2>1, <2>5 DEF OneAtATime
  <2>7. OfThisTurn'
    <3>1. \A e \in InFeed(ingestFeed') : e.turn = started'
      BY <2>3, <2>4 DEF InFeed
    <3>2. \A e \in InFeed(runtimeFeed') : e.turn = started'
      BY <2>3, <2>4 DEF InFeed
    <3> QED BY <1>3, <2>2, <2>4, <3>1, <3>2 DEF OfThisTurn, InFeed
  <2> QED BY <1>2, <2>6, <2>7 DEF Patient
<1>5. CASE Edit \/ UpdateDiff \/ \E s \in States : CompleteTurn(s)
  <2>1. running # None /\ requests' = requests /\ UNCHANGED started /\ running' \in {None, running}
    BY <1>5 DEF Edit, UpdateDiff, CompleteTurn, provider
  <2>2. running \in Turns /\ running = started /\ TurnInFlight
    BY <2>1 DEF Patient, OfThisTurn, TypeOK, TurnInFlight
  <2>3. ~ RevertInFlight
    BY <2>2 DEF Patient, OneAtATime
  <2>4. ~ RevertInFlight'
    BY <1>3, <2>3 DEF RevertInFlight, InFeed
  <2>5. OneAtATime'
    BY <2>1, <2>2, <2>4, TurnStep DEF Patient
  <2>6. /\ \A e \in InFeed(ingestFeed') : e \in InFeed(ingestFeed) \/ e.turn = started
        /\ \A e \in InFeed(runtimeFeed') : e \in InFeed(runtimeFeed) \/ e.turn = started
    <3>1. CASE Edit
      BY <3>1 DEF Edit, ingestion, reactor
    <3>2. CASE UpdateDiff
      <4>1. TurnDiffUpdated(running) \in RuntimeEvent /\ TurnDiffUpdated(running).turn = started
        BY <2>2 DEF TurnDiffUpdated, RuntimeEvent, States
      <4> QED BY <3>2, <4>1, FeedAppend DEF UpdateDiff, TypeOK, reactor
    <3>3. ASSUME NEW s \in States, CompleteTurn(s)
          PROVE  /\ \A e \in InFeed(ingestFeed') : e \in InFeed(ingestFeed) \/ e.turn = started
                 /\ \A e \in InFeed(runtimeFeed') : e \in InFeed(runtimeFeed) \/ e.turn = started
      <4>1. TurnCompleted(running, s) \in RuntimeEvent /\ TurnCompleted(running, s).turn = started
        BY <2>2 DEF TurnCompleted, RuntimeEvent
      <4> QED BY <3>3, <4>1, FeedAppend DEF CompleteTurn, TypeOK
    <3> QED BY <1>5, <3>1, <3>2, <3>3
  <2>7. OfThisTurn'
    BY <1>1, <1>3, <2>1, <2>6, SameTurn DEF Patient, OfThisTurn
  <2> QED BY <1>2, <2>5, <2>7 DEF Patient
<1> QED BY <1>4, <1>5 DEF Provider

\* A checkpoint of the turn in flight, by either dispatcher.
LEMMA DispatchPatient ==
  ASSUME TypeOK, Patient, TurnInFlight, started \in Turns,
         NEW c \in Checkpoint, c.count = NextCount(checkpoints, started),
         \/ c.status = "missing" /\ c.ref = "provider-diff"
         \/ ~ IsCaptured(checkpoints, started),
         DispatchTurnDiff(started, c),
         UNCHANGED <<requests, running, started, ingestFeed, runtimeFeed>>,
         reading' \in {None, reading}, work' \in {Idle, work}
  PROVE  Patient'
<1> DEFINE n == NextCount(checkpoints, started)
           d == TurnDiffCompleted(started, c.count, c.status)
<1>1. checkpoints \in Table /\ rows \in Table /\ Distinct(checkpoints)
  BY DEF TypeOK, Patient, TablesInv
<1>2. /\ checkpoints' = MemoryAfterDiff(checkpoints, started, c)
      /\ rows' = RowsAfterDiff(rows, started, c)
      /\ domainFeed' = Append(domainFeed, d)
  BY DEF DispatchTurnDiff
<1>3. /\ NextCount(checkpoints', started) = n /\ Distinct(checkpoints')
      /\ Held(checkpoints') = Held(checkpoints) \cup {started}
  BY <1>1, <1>2, DiffKeepsNumbers
<1>4. \A u \in Turns : AgreeAt(checkpoints', rows', u)
  BY <1>1, <1>2, DiffKeepsAgreement DEF Patient, TablesInv
<1>5. TablesInv'
  <2>1. \A t \in Held(checkpoints') : t <= started'
    BY <1>3 DEF Patient, TablesInv, Turns
  <2> QED BY <1>3, <1>4, <2>1 DEF TablesInv, Distinct, Held, AgreeAt, IsCaptured, Placeholder
<1>6. d \in DomainEvent /\ d.turn = started /\ d.count = n /\ d.type = "turn-diff-completed"
  <2>1. c.count \in Nat /\ c.status \in Statuses
    BY DEF Checkpoint
  <2> QED BY <2>1 DEF TurnDiffCompleted, DomainEvent
<1>7. InFeed(domainFeed') = InFeed(domainFeed) \cup {d}
  BY <1>2, <1>6, FeedAppend DEF TypeOK
<1>8. ~ RevertInFlight'
  <2>1. ~ RevertInFlight
    BY DEF Patient, OneAtATime
  <2>2. \A e \in InFeed(domainFeed') : e.type # "revert-requested"
    BY <1>6, <1>7, <2>1 DEF RevertInFlight
  <2>3. work'.stage \notin RevertStages
    BY <2>1 DEF RevertInFlight, Idle, RevertStages
  <2> QED BY <2>2, <2>3 DEF RevertInFlight, InFeed
<1>9. OneAtATime'
  BY <1>8, TurnStep DEF Patient
<1>10. OfThisTurn'
  <2>1. \A e \in InFeed(domainFeed') : e.type = "turn-diff-completed" =>
          e.turn = started' /\ e.count = NextCount(checkpoints', started')
    BY <1>3, <1>6, <1>7 DEF Patient, OfThisTurn
  <2>2. reading' # None =>
         /\ reading'.event.turn = started'
         /\ reading'.event.type = "turn.diff.updated" =>
              reading'.count = NextCount(checkpoints', started')
    BY <1>3 DEF Patient, OfThisTurn
  <2>3. work'.stage \in CaptureStages =>
         work'.turn = started' /\ work'.count = NextCount(checkpoints', started')
    BY <1>3 DEF Patient, OfThisTurn, Idle, CaptureStages
  <2>4. /\ running' \in {None, started'}
        /\ \A e \in InFeed(ingestFeed') : e.turn = started'
        /\ \A e \in InFeed(runtimeFeed') : e.turn = started'
    BY DEF Patient, OfThisTurn
  <2> QED BY <2>1, <2>2, <2>3, <2>4 DEF OfThisTurn, InFeed, NextCount, MaxCount, Held
<1> QED BY <1>5, <1>9, <1>10 DEF Patient

LEMMA IngestionPatient ==
  ASSUME TypeOK, Patient, Ingestion PROVE Patient'
<1>1. TurnInFlight
  BY DEF Ingestion, IngestRead, IngestTurnLifecycle, IngestTurnDiff, InHand, TurnInFlight
<1>2. started \in Nat /\ UNCHANGED <<requests, running, started, runtimeFeed, work>>
  BY BoundsAreNaturals DEF TypeOK, Ingestion, IngestRead, IngestTurnLifecycle, IngestTurnDiff,
    provider, reactor
<1>3. ~ RevertInFlight
  BY <1>1 DEF Patient, OneAtATime
<1>4. ASSUME UNCHANGED <<domainFeed, checkpoints, rows>>, OfThisTurn' PROVE Patient'
  <2>1. ~ RevertInFlight'
    BY <1>2, <1>3, <1>4 DEF RevertInFlight, InFeed
  <2>2. OneAtATime'
    BY <1>1, <1>2, <2>1, TurnStep DEF Patient
  <2>3. TablesInv'
    BY <1>2, <1>4, SameTables DEF Patient
  <2> QED BY <1>4, <2>2, <2>3 DEF Patient
<1>5. CASE IngestRead
  <2> DEFINE e == Head(ingestFeed)
  <2>1. /\ InFeed(ingestFeed) = InFeed(ingestFeed') \cup {e} /\ e \in RuntimeEvent
    BY <1>5, FeedTail DEF IngestRead, TypeOK
  <2>2. e.turn = started /\ \A f \in InFeed(ingestFeed') : f.turn = started
    BY <2>1 DEF Patient, OfThisTurn
  <2>3. UNCHANGED <<domainFeed, checkpoints, rows>>
    BY <1>5 DEF IngestRead, engine, reactor
  <2>4. reading' # None =>
         /\ reading'.event.turn = started'
         /\ reading'.event.type = "turn.diff.updated" =>
              reading'.count = NextCount(checkpoints, started)
    <3>1. CASE reading' = None
      BY <3>1
    <3>2. CASE Applies(e) /\ reading' = [event |-> e, count |-> MaxCount(checkpoints) + 1]
      <4>1. e.type = "turn.diff.updated" => checkpoints[started] = None
        BY <2>2, <3>2 DEF Applies
      <4> QED BY <1>2, <2>2, <3>2, <4>1 DEF NextCount
    <3> QED BY <1>5, <3>1, <3>2 DEF IngestRead
  <2>5. OfThisTurn'
    <3>1. /\ running' \in {None, started'}
          /\ \A f \in InFeed(ingestFeed') : f.turn = started'
          /\ \A f \in InFeed(runtimeFeed') : f.turn = started'
      BY <1>2, <2>2 DEF Patient, OfThisTurn
    <3>2. work'.stage \in CaptureStages =>
           work'.turn = started' /\ work'.count = NextCount(checkpoints', started')
      BY <1>2, <2>3 DEF Patient, OfThisTurn
    <3>3. \A f \in InFeed(domainFeed') : f.type = "turn-diff-completed" =>
           f.turn = started' /\ f.count = NextCount(checkpoints', started')
      BY <1>2, <2>3 DEF Patient, OfThisTurn
    <3>4. NextCount(checkpoints, started) = NextCount(checkpoints', started')
      BY <1>2, <2>3
    <3> QED BY <2>4, <3>1, <3>2, <3>3, <3>4 DEF OfThisTurn, InFeed, NextCount, MaxCount, Held
  <2> QED BY <1>4, <2>3, <2>5
<1>6. CASE IngestTurnLifecycle
  <2>1. UNCHANGED <<domainFeed, checkpoints, rows, ingestFeed>> /\ reading' = None
    BY <1>6 DEF IngestTurnLifecycle, reactor
  <2>2. OfThisTurn'
    BY <1>2, <2>1, SameTurn DEF Patient, OfThisTurn
  <2> QED BY <1>4, <2>1, <2>2
<1>7. CASE IngestTurnDiff
  <2> DEFINE c == [count |-> reading.count, status |-> "missing", ref |-> "provider-diff"]
  <2>1. reading.event \in RuntimeEvent /\ reading.count \in Nat
    BY <1>7 DEF IngestTurnDiff, InHand, TypeOK
  <2>2. reading.event.turn = started /\ reading.count = NextCount(checkpoints, started)
    BY <1>7 DEF IngestTurnDiff, InHand, Patient, OfThisTurn
  <2>3. started \in Turns
    BY <2>1, <2>2 DEF RuntimeEvent
  <2>4. /\ c \in Checkpoint /\ c.count = NextCount(checkpoints, started)
        /\ c.status = "missing" /\ c.ref = "provider-diff"
    BY <2>1, <2>2 DEF Checkpoint, Statuses
  <2>5. DispatchTurnDiff(started, c) /\ reading' = None /\ UNCHANGED ingestFeed
    BY <1>7, <2>2 DEF IngestTurnDiff
  <2> HIDE DEF c
  <2> QED BY <1>1, <1>2, <2>3, <2>4, <2>5, DispatchPatient
<1> QED BY <1>5, <1>6, <1>7 DEF Ingestion

LEMMA SingleInFeed ==
  ASSUME NEW S, NEW feed \in Seq(S), Len(feed) = 1
  PROVE  Tail(feed) = <<>> /\ InFeed(feed) = {Head(feed)}
<1>1. feed # <<>>
  BY EmptySeq
<1>2. Tail(feed) \in Seq(S) /\ Len(Tail(feed)) = 0
  BY <1>1, HeadTailProperties
<1>3. Tail(feed) = <<>>
  BY <1>2, EmptySeq
<1>4. InFeed(feed) = InFeed(Tail(feed)) \cup {Head(feed)}
  BY <1>1, FeedTail
<1> QED BY <1>3, <1>4, EmptyFeed

\* An idle reactor with something else before it has no revert before it.
LEMMA NoRevertBehind ==
  ASSUME TypeOK, OneAtATime, work.stage \notin RevertStages, domainFeed # <<>>,
         Head(domainFeed).type # "revert-requested" \/ work.stage # "idle"
  PROVE  ~ RevertInFlight
<1> SUFFICES ASSUME RevertInFlight PROVE FALSE
  OBVIOUS
<1>1. PICK e \in InFeed(domainFeed) : e.type = "revert-requested"
  BY DEF RevertInFlight
<1>2. work.stage = "idle" /\ Len(domainFeed) = 1
  BY DEF OneAtATime
<1>3. e = Head(domainFeed)
  BY <1>2, SingleInFeed DEF TypeOK
<1> QED BY <1>1, <1>2, <1>3

LEMMA TakesPatient ==
  ASSUME TypeOK, Patient, ReactorTakes PROVE Patient'
<1>1. /\ work.stage = "idle"
      /\ UNCHANGED <<checkpoints, rows, started, requests, running, ingestFeed, reading>>
      /\ \/ domainFeed # <<>> /\ domainFeed' = Tail(domainFeed) /\ UNCHANGED runtimeFeed
         \/ runtimeFeed # <<>> /\ runtimeFeed' = Tail(runtimeFeed) /\ UNCHANGED domainFeed
  BY TakesKeep DEF provider, engine, ingestion
<1>2. /\ \A e \in InFeed(domainFeed') : e \in InFeed(domainFeed)
      /\ \A e \in InFeed(runtimeFeed') : e \in InFeed(runtimeFeed)
  BY <1>1, FeedTail DEF TypeOK
<1>3. TablesInv'
  <2>1. started \in Nat
    BY BoundsAreNaturals DEF TypeOK
  <2> QED BY <1>1, <2>1, SameTables DEF Patient
<1>4. ASSUME work'.stage \in CaptureStages =>
               work'.turn = started /\ work'.count = NextCount(checkpoints, started)
      PROVE  OfThisTurn'
  BY <1>1, <1>2, <1>4, SameTurn DEF Patient
<1>5. work.stage \notin RevertStages \cup CaptureStages
  BY <1>1 DEF RevertStages, CaptureStages
<1>6. ASSUME ~ RevertInFlight, work'.stage \notin RevertStages PROVE ~ RevertInFlight'
  BY <1>2, <1>6 DEF RevertInFlight, InFeed
<1>7. CASE BaselineOnRequest
  <2>1. /\ domainFeed # <<>> /\ Head(domainFeed).type = "turn-requested"
        /\ work'.stage = "baseline" /\ UNCHANGED runtimeFeed
    BY <1>7 DEF BaselineOnRequest, TakesDomain, Baseline, Idle
  <2>2. ~ RevertInFlight /\ ~ RevertInFlight'
    BY <1>5, <1>6, <2>1, NoRevertBehind DEF Patient, RevertStages
  <2>3. TurnInFlight' => TurnInFlight
    BY <1>1, <1>2, <2>1 DEF TurnInFlight, InFeed, CaptureStages
  <2>4. OneAtATime'
    BY <1>1, <2>2, <2>3, OtherStep DEF Patient
  <2> QED BY <1>3, <1>4, <2>1, <2>4 DEF Patient, CaptureStages
<1>8. ASSUME TurnInFlight, work'.stage \notin RevertStages,
             work'.stage \in CaptureStages =>
               work'.turn = started /\ work'.count = NextCount(checkpoints, started)
      PROVE  Patient'
  <2>1. ~ RevertInFlight
    BY <1>8 DEF Patient, OneAtATime
  <2>2. OneAtATime'
    BY <1>1, <1>6, <1>8, <2>1, TurnStep DEF Patient
  <2> QED BY <1>3, <1>4, <1>8, <2>2 DEF Patient
<1>9. CASE BaselineOnStart
  <2>1. runtimeFeed # <<>> /\ work'.stage = "baseline"
    BY <1>9 DEF BaselineOnStart, TakesRuntime, Baseline, Idle
  <2> QED BY <1>8, <2>1 DEF TurnInFlight, RevertStages, CaptureStages
<1>10. CASE CaptureOnCompletion
  <2> DEFINE t == Head(runtimeFeed).turn
             next == IF checkpoints[t] # None THEN checkpoints[t].count
                     ELSE MaxCount(checkpoints) + 1
             s == checkpointStatusFromRuntime(Head(runtimeFeed).state)
  <2>1. runtimeFeed # <<>> /\ work' \in {work, Capture(t, next, s)}
    BY <1>10 DEF CaptureOnCompletion, TakesRuntime
  <2>2. t = started
    BY <2>1, FeedTail DEF TypeOK, Patient, OfThisTurn
  <2>3. next = NextCount(checkpoints, started)
    BY <2>2 DEF NextCount
  <2> HIDE DEF s, t, next
  <2>4. CASE work' = work
    BY <1>5, <1>8, <2>1, <2>4 DEF TurnInFlight
  <2>5. CASE work' = Capture(t, next, s)
    <3>1. work'.stage = "capture" /\ work'.turn = t /\ work'.count = next
      BY <2>5 DEF Capture, Idle
    <3> QED BY <1>8, <2>1, <2>2, <2>3, <3>1 DEF TurnInFlight, RevertStages
  <2> QED BY <2>1, <2>4, <2>5
<1>11. CASE CaptureOnPlaceholder
  <2> DEFINE e == Head(domainFeed)
  <2>1. /\ domainFeed # <<>> /\ e.type = "turn-diff-completed"
        /\ work' \in {work, Capture(e.turn, e.count, "ready")}
    BY <1>11 DEF CaptureOnPlaceholder, TakesDomain
  <2>2. e \in InFeed(domainFeed)
    BY <2>1, FeedTail DEF TypeOK
  <2>3. e.turn = started /\ e.count = NextCount(checkpoints, started) /\ TurnInFlight
    BY <2>1, <2>2 DEF Patient, OfThisTurn, TurnInFlight
  <2>4. CASE work' = work
    BY <1>5, <1>8, <2>3, <2>4
  <2>5. CASE work' = Capture(e.turn, e.count, "ready")
    <3>1. work'.stage = "capture" /\ work'.turn = e.turn /\ work'.count = e.count
      BY <2>5 DEF Capture, Idle
    <3> QED BY <1>8, <2>3, <3>1 DEF RevertStages
  <2> QED BY <2>1, <2>4, <2>5
<1>12. CASE StartRevert
  <2>1. /\ domainFeed # <<>> /\ Head(domainFeed).type = "revert-requested"
        /\ domainFeed' = Tail(domainFeed) /\ UNCHANGED runtimeFeed
    <3>1. TakesDomain("revert-requested")
      BY Zenon, <1>12 DEF StartRevert
    <3> QED BY <3>1 DEF TakesDomain
  <2>2. Head(domainFeed) \in InFeed(domainFeed)
    BY <2>1, FeedTail DEF TypeOK
  <2>3. RevertInFlight
    BY <2>1, <2>2 DEF RevertInFlight
  <2>4. domainFeed' = <<>>
    BY <2>1, <2>3, SingleInFeed DEF Patient, OneAtATime, TypeOK
  <2>5. work'.stage \in {"idle", "restore"}
    BY <1>1, <1>12, RevertWork
  <2>6. work'.stage \notin CaptureStages
    BY <2>5 DEF CaptureStages
  <2>7. OneAtATime'
    BY <1>1, <2>1, <2>3, <2>4, <2>6, RevertStep DEF Patient
  <2> QED BY <1>3, <1>4, <2>6, <2>7 DEF Patient
<1> QED BY <1>7, <1>9, <1>10, <1>11, <1>12 DEF ReactorTakes

LEMMA ActsPatient ==
  ASSUME TypeOK, OpenCapture, Patient, ReactorActs PROVE Patient'
<1>1. UNCHANGED <<started, requests, running, ingestFeed, reading, runtimeFeed>>
  BY DEF ReactorActs, CaptureBaseline, CaptureCheckpoint, RecordCheckpoint, RestoreCheckpoint,
    RollbackConversation, DeleteStaleRefs, CompleteRevert, provider, ingestion
<1>2. started \in Nat
  BY BoundsAreNaturals DEF TypeOK
<1>3. ASSUME UNCHANGED domainFeed,
             work'.stage \in CaptureStages =>
               work'.turn = started /\ work'.count = NextCount(checkpoints, started),
             UNCHANGED <<checkpoints, rows>>
      PROVE  OfThisTurn' /\ TablesInv'
  BY <1>1, <1>2, <1>3, SameTurn, SameTables DEF Patient
<1>4. ASSUME RevertInFlight, domainFeed # <<>>, work.stage # "idle" PROVE FALSE
  BY <1>4 DEF Patient, OneAtATime
<1>5. CASE CaptureBaseline
  <2>1. work.stage = "baseline" /\ work' = Idle /\ UNCHANGED <<domainFeed, checkpoints, rows>>
    BY <1>5 DEF CaptureBaseline, engine
  <2>2. work.stage \notin RevertStages /\ work'.stage \notin RevertStages \cup CaptureStages
    BY <2>1 DEF Idle, RevertStages, CaptureStages
  <2>3. ~ RevertInFlight
    BY <1>4, <2>1, <2>2, EmptyFeed DEF RevertInFlight
  <2>4. ~ RevertInFlight' /\ (TurnInFlight' => TurnInFlight)
    BY <1>1, <2>1, <2>2, <2>3 DEF RevertInFlight, TurnInFlight, InFeed
  <2> QED BY <1>1, <1>3, <2>1, <2>2, <2>4, OtherStep DEF Patient
<1>6. CASE CaptureCheckpoint
  <2>1. /\ work.stage = "capture" /\ UNCHANGED <<domainFeed, checkpoints, rows>>
        /\ work'.stage = "record" /\ work'.turn = work.turn /\ work'.count = work.count
    BY <1>6 DEF CaptureCheckpoint, engine, TypeOK, Work, WorkIn
  <2>2. TurnInFlight
    BY <2>1 DEF TurnInFlight, CaptureStages
  <2>3. ~ RevertInFlight'
    BY <2>1, <2>2 DEF Patient, OneAtATime, RevertInFlight, InFeed, RevertStages
  <2>4. work'.turn = started /\ work'.count = NextCount(checkpoints, started)
    BY <2>1 DEF Patient, OfThisTurn, CaptureStages
  <2> QED BY <1>1, <1>3, <2>1, <2>2, <2>3, <2>4, TurnStep DEF Patient
<1>7. CASE RecordCheckpoint
  <2> DEFINE c == [count |-> work.count, status |-> work.status, ref |-> "git"]
  <2>1. work.stage = "record" /\ work' = Idle /\ DispatchTurnDiff(work.turn, c)
    BY <1>7 DEF RecordCheckpoint
  <2>2. TurnInFlight
    BY <2>1 DEF TurnInFlight, CaptureStages
  <2>3. work.turn \in Turns /\ work.turn = started /\ work.count = NextCount(checkpoints, started)
    BY <2>1 DEF TypeOK, Work, WorkIn, RevertStages, Patient, OfThisTurn, CaptureStages
  <2>4. c \in Checkpoint /\ c.count = work.count
    BY DEF TypeOK, Work, WorkIn, Checkpoint
  <2>5. ~ IsCaptured(checkpoints, started)
    BY <2>1, <2>3 DEF OpenCapture, CaptureStages
  <2> HIDE DEF c
  <2> QED BY <1>1, <2>1, <2>2, <2>3, <2>4, <2>5, DispatchPatient
<1>8. CASE RestoreCheckpoint \/ RollbackConversation \/ DeleteStaleRefs \/ CompleteRevert
  <2>1. work.stage \in RevertStages /\ UNCHANGED domainFeed
    BY <1>8 DEF RestoreCheckpoint, RollbackConversation, DeleteStaleRefs, CompleteRevert,
      RevertStages
  <2>2. RevertInFlight /\ work.stage # "idle" /\ domainFeed = <<>>
    BY <1>4, <2>1 DEF RevertInFlight, RevertStages
  <2>3. work'.stage \notin CaptureStages
    BY <1>8, RevertWalks DEF CaptureStages
  <2>4. OneAtATime'
    BY <1>1, <2>1, <2>2, <2>3, RevertStep DEF Patient
  <2>5. CASE UNCHANGED <<checkpoints, rows>>
    BY <1>3, <2>1, <2>3, <2>4, <2>5 DEF Patient
  <2>6. CASE CompleteRevert
    <3>1. /\ checkpoints' = AfterRevert(checkpoints, work.count)
          /\ rows' = AfterRevert(rows, work.count) /\ work' = Idle
      BY <2>6 DEF CompleteRevert, DispatchReverted
    <3>2. /\ work.count \in Nat /\ checkpoints \in Table /\ rows \in Table
          /\ \A u \in Turns : AgreeAt(checkpoints, rows, u)
      BY DEF TypeOK, Work, WorkIn, Patient, TablesInv
    <3>3. \A u \in Turns : AgreeAt(checkpoints', rows', u)
      BY <3>1, <3>2, RevertKeepsAgreement
    <3>4. \A t \in Held(checkpoints') : t \in Held(checkpoints) /\ checkpoints'[t] = checkpoints[t]
      BY <3>1 DEF AfterRevert, Held
    <3>5. TablesInv'
      <4>1. Distinct(checkpoints')
        BY <3>4 DEF Distinct, Patient, TablesInv
      <4>2. \A t \in Held(checkpoints') : t <= started'
        BY <1>1, <3>4 DEF Patient, TablesInv
      <4> QED BY <3>3, <4>1, <4>2 DEF TablesInv, Distinct, Held, AgreeAt, IsCaptured, Placeholder
    <3>6. OfThisTurn'
      <4>1. ~ TurnInFlight
        BY <2>2 DEF Patient, OneAtATime
      <4>2. /\ running' = None /\ ingestFeed' = <<>> /\ runtimeFeed' = <<>> /\ reading' = None
            /\ domainFeed' = <<>>
        BY <1>1, <2>1, <2>2, <4>1 DEF TurnInFlight
      <4> QED BY <2>3, <4>2 DEF OfThisTurn, InFeed
    <3> QED BY <2>4, <3>5, <3>6 DEF Patient
  <2>7. UNCHANGED <<checkpoints, rows>> \/ CompleteRevert
    BY <1>8 DEF RestoreCheckpoint, RollbackConversation, DeleteStaleRefs, engine
  <2> QED BY <2>5, <2>6, <2>7
<1> QED BY <1>5, <1>6, <1>7, <1>8 DEF ReactorActs

LEMMA TroublePatient ==
  ASSUME TypeOK, RowsDistinct, Patient, StepFails \/ Crash PROVE Patient'
<1>1. started \in Nat
  BY BoundsAreNaturals DEF TypeOK
<1>2. CASE StepFails
  <2>1. /\ work' = Idle /\ work.stage # "idle"
        /\ UNCHANGED <<started, requests, running, ingestFeed, reading, runtimeFeed, domainFeed,
                       checkpoints, rows>>
    BY <1>2 DEF StepFails, provider, ingestion, engine
  <2>2. work'.stage \notin RevertStages \cup CaptureStages
    BY <2>1 DEF Idle, RevertStages, CaptureStages
  <2>3. OfThisTurn' /\ TablesInv'
    BY <1>1, <2>1, <2>2, SameTurn, SameTables DEF Patient
  <2>4. ~ RevertInFlight'
    <3> SUFFICES ASSUME RevertInFlight' PROVE FALSE
      OBVIOUS
    <3>1. PICK e \in InFeed(domainFeed) : e.type = "revert-requested"
      BY <2>1, <2>2 DEF RevertInFlight, InFeed
    <3>2. RevertInFlight /\ domainFeed # <<>>
      BY <3>1, EmptyFeed DEF RevertInFlight
    <3> QED BY <2>1, <3>2 DEF Patient, OneAtATime
  <2>5. TurnInFlight' => TurnInFlight
    BY <2>1, <2>2 DEF TurnInFlight, InFeed
  <2> QED BY <2>1, <2>3, <2>4, <2>5, OtherStep DEF Patient
<1>3. CASE Crash
  <2>1. /\ requests' = 0 /\ running' = None /\ checkpoints' = rows /\ rows' = rows
        /\ ingestFeed' = <<>> /\ reading' = None /\ domainFeed' = <<>> /\ runtimeFeed' = <<>>
        /\ work' = Idle /\ started' = started
    BY <1>3 DEF Crash
  <2>2. work'.stage \notin RevertStages \cup CaptureStages
    BY <2>1 DEF Idle, RevertStages, CaptureStages
  <2>3. OneAtATime'
    BY <2>1, <2>2 DEF OneAtATime, TurnInFlight, RevertInFlight, InFeed
  <2>4. OfThisTurn'
    BY <2>1, <2>2 DEF OfThisTurn, InFeed
  <2>5. \A t \in Held(rows) : t <= started
    <3> SUFFICES ASSUME NEW t \in Held(rows) PROVE t \in Held(checkpoints)
      BY DEF Patient, TablesInv
    <3>1. AgreeAt(checkpoints, rows, t)
      BY DEF Patient, TablesInv, Held
    <3> QED BY <3>1 DEF AgreeAt, Held, IsCaptured
  <2>6. TablesInv'
    BY <2>1, <2>5 DEF TablesInv, RowsDistinct, Distinct, Held, AgreeAt
  <2> QED BY <2>3, <2>4, <2>6 DEF Patient
<1> QED BY <1>2, <1>3

LEMMA HastyGrows ==
  ASSUME TypeOK, [Next]_vars, hasty' = 0
  PROVE  hasty = 0 /\ (User => Settled)
<1>1. hasty \in Nat
  BY DEF TypeOK
<1>2. CASE User
  BY <1>1, <1>2 DEF User, RequestTurn, RequestRevert, Hurry
<1>3. CASE Provider
  BY <1>3 DEF Provider, BeginTurn, Edit, UpdateDiff, CompleteTurn, ghosts, User, RequestTurn,
    RequestRevert, Hurry
<1>4. CASE Ingestion
  BY <1>1, <1>2, <1>4 DEF Ingestion, IngestRead, IngestTurnLifecycle, IngestTurnDiff, ghosts
<1>5. CASE ReactorTakes
  BY <1>1, <1>2, <1>5, TakesKeep DEF ghosts
<1>6. CASE ReactorActs
  BY <1>1, <1>2, <1>6 DEF ReactorActs, CaptureBaseline, CaptureCheckpoint, RecordCheckpoint,
    RestoreCheckpoint, RollbackConversation, DeleteStaleRefs, CompleteRevert, ghosts
<1>7. CASE StepFails \/ Crash \/ UNCHANGED vars
  BY <1>1, <1>2, <1>7 DEF StepFails, Crash, vars, ghosts
<1> QED BY <1>2, <1>3, <1>4, <1>5, <1>6, <1>7 DEF Next

LEMMA PatientKept ==
  ASSUME TypeOK, RowsDistinct, OpenCapture, PatientInv, [Next]_vars PROVE PatientInv'
<1> SUFFICES ASSUME hasty' = 0 PROVE Patient'
  BY DEF PatientInv, Patient
<1>1. Patient /\ (User => Settled)
  BY HastyGrows DEF PatientInv, Patient
<1>2. CASE UNCHANGED vars
  <2>1. UNCHANGED <<running, started, requests, checkpoints, rows, ingestFeed, reading,
                    domainFeed, runtimeFeed, work>>
    BY <1>2 DEF vars, provider, engine, ingestion, reactor
  <2>2. OneAtATime'
    BY <1>1, <2>1 DEF Patient, OneAtATime, TurnInFlight, RevertInFlight, InFeed
  <2>3. OfThisTurn'
    BY <1>1, <2>1, SameTurn DEF Patient, OfThisTurn
  <2>4. TablesInv'
    BY <1>1, <2>1, BoundsAreNaturals, SameTables DEF Patient, TypeOK
  <2> QED BY <2>2, <2>3, <2>4 DEF Patient
<1> QED BY <1>1, <1>2, UserPatient, ProviderPatient, IngestionPatient, TakesPatient, ActsPatient,
           TroublePatient DEF Next

LEMMA PatientInit == Init => OpenCapture /\ PatientInv
<1> SUFFICES ASSUME Init PROVE OpenCapture /\ Patient
  BY DEF PatientInv, Patient
<1>1. work.stage \notin CaptureStages \cup RevertStages
  BY DEF Init, Idle, CaptureStages, RevertStages
<1>2. /\ requests = 0 /\ running = None /\ reading = None
      /\ InFeed(ingestFeed) = {} /\ InFeed(runtimeFeed) = {} /\ InFeed(domainFeed) = {}
      /\ Held(checkpoints) = {} /\ checkpoints = rows
  BY EmptyFeed DEF Init, Held
<1>3. OneAtATime
  BY <1>1, <1>2 DEF OneAtATime, RevertInFlight
<1>4. OfThisTurn
  BY <1>1, <1>2 DEF OfThisTurn
<1>5. TablesInv
  BY <1>2 DEF TablesInv, Distinct, AgreeAt
<1> QED BY <1>1, <1>3, <1>4, <1>5 DEF OpenCapture, Patient

WaitInv == OpenCapture /\ PatientInv

LEMMA WaitInductive == Spec => [](TypeOK /\ RowsDistinct /\ RefInv /\ WaitInv)
<1>1. Init => WaitInv
  BY PatientInit DEF WaitInv
<1>2. TypeOK /\ RowsDistinct /\ WaitInv /\ [Next]_vars => WaitInv'
  BY OpenCaptureKept, PatientKept DEF WaitInv
<1>3. Init => RefInv
  BY DEF Init, RefInv, RefBeforeRecord, StaleAboveTarget, CapturedRefsInv, Idle, RevertStages,
    IsCaptured
<1>4. TypeOK /\ RefInv /\ [Next]_vars => RefInv'
  BY RefBeforeRecordKept, StaleAboveTargetKept, CapturedRefsKept DEF RefInv
<1> QED BY <1>1, <1>2, <1>3, <1>4, TypeCorrect, NumbersDistinct, PTL DEF Spec

\* For a user who waits the rows are the read model's checkpoints, through any failures
\* and crashes: a restart changes nothing but a checkpoint whose placeholder came late.
THEOREM TablesMatch == Spec => []TablesMatchMemory
<1>1. ASSUME NEW c \in Checkpoint
      PROVE  [c EXCEPT !.status = "missing", !.ref = "provider-diff"] = Placeholder(c.count)
  <2> DEFINE d == [c EXCEPT !.status = "missing"]
             e == [d EXCEPT !.ref = "provider-diff"]
  <2>1. d \in Checkpoint /\ d.count = c.count /\ d.status = "missing"
    BY DEF Checkpoint, Statuses
  <2> HIDE DEF d
  <2>2. e \in Checkpoint /\ e.count = d.count /\ e.status = d.status /\ e.ref = "provider-diff"
    BY <2>1 DEF Checkpoint
  <2>3. e = Placeholder(c.count)
    <3> HIDE DEF e
    <3> QED BY <2>1, <2>2 DEF Checkpoint, Placeholder
  <2> QED BY <2>3 DEF d
<1>2. TypeOK /\ WaitInv => TablesMatchMemory
  <2> SUFFICES ASSUME TypeOK, Patient, NEW t \in Turns
               PROVE  \/ rows[t] = checkpoints[t]
                      \/ /\ IsCaptured(checkpoints, t)
                         /\ rows[t] = [checkpoints[t] EXCEPT !.status = "missing",
                                                             !.ref = "provider-diff"]
    BY Zenon DEF WaitInv, PatientInv, Patient, TablesMatchMemory
  <2>1. AgreeAt(checkpoints, rows, t)
    BY DEF Patient, TablesInv
  <2>2. IsCaptured(checkpoints, t) => checkpoints[t] \in Checkpoint
    BY DEF IsCaptured, TypeOK, Table
  <2>3. IsCaptured(checkpoints, t) =>
          [checkpoints[t] EXCEPT !.status = "missing", !.ref = "provider-diff"]
            = Placeholder(checkpoints[t].count)
    BY Zenon, <1>1, <2>2
  <2> QED BY Zenon, <2>1, <2>3 DEF AgreeAt
<1> QED BY <1>2, WaitInductive, PTL

\* Each ref is written by the capture of one checkpoint and by no later one.
LEMMA RefsKept ==
  ASSUME TypeOK, OpenCapture, Patient, [Next]_vars,
         NEW t \in Held(checkpoints), IsCaptured(checkpoints, t),
         HasRef(checkpoints[t].count), checkpoints[t].count \in DOMAIN refs'
  PROVE  refs'[checkpoints[t].count] = refs[checkpoints[t].count]
<1> DEFINE n == checkpoints[t].count
<1>1. CASE UNCHANGED refs
  BY <1>1
<1>2. CASE CaptureBaseline
  BY <1>2 DEF CaptureBaseline, WriteRef, HasRef
<1>3. CASE CaptureCheckpoint
  <2>1. /\ work.turn \in Turns /\ work.turn = started
        /\ work.count = NextCount(checkpoints, started)
        /\ ~ IsCaptured(checkpoints, started)
    BY <1>3 DEF CaptureCheckpoint, OpenCapture, Patient, OfThisTurn, TypeOK, Work, WorkIn,
      CaptureStages, RevertStages
  <2>2. n # work.count
    BY <2>1, NumberFree DEF TypeOK, Patient, TablesInv
  <2> QED BY <1>3, <2>2 DEF CaptureCheckpoint, WriteRef, HasRef
<1>4. CASE DeleteStaleRefs
  BY <1>4 DEF DeleteStaleRefs
<1>5. CASE User \/ Provider \/ Ingestion \/ ReactorTakes
  BY <1>1, <1>5, TakesKeep DEF User, Provider, Ingestion, RequestTurn, RequestRevert, BeginTurn,
    Edit, UpdateDiff, CompleteTurn, IngestRead, IngestTurnLifecycle, IngestTurnDiff, disk
<1>6. CASE RecordCheckpoint \/ RestoreCheckpoint \/ RollbackConversation \/ CompleteRevert
  BY <1>1, <1>6 DEF RecordCheckpoint, RestoreCheckpoint, RollbackConversation, CompleteRevert, disk
<1>7. CASE StepFails \/ Crash \/ UNCHANGED vars
  BY <1>1, <1>7 DEF StepFails, Crash, vars, disk
<1> QED BY <1>2, <1>3, <1>4, <1>5, <1>6, <1>7 DEF Next, ReactorActs

\* What a diff or a revert shows for a captured turn does not change later, for a user
\* who waits: no other capture works out the number of its ref.
THEOREM RefsStand == Spec => CapturedRefsStand
<1>1. ASSUME TypeOK, WaitInv, [Next]_vars, hasty' = 0, NEW t \in Held(checkpoints),
             IsCaptured(checkpoints, t), HasRef(checkpoints[t].count),
             checkpoints[t].count \in DOMAIN refs'
      PROVE  refs'[checkpoints[t].count] = refs[checkpoints[t].count]
  <2>1. hasty = 0
    BY <1>1, HastyGrows
  <2> QED BY <1>1, <2>1, RefsKept DEF WaitInv, PatientInv, Patient
<1>2. TypeOK /\ WaitInv /\ [Next]_vars =>
        [hasty' = 0 =>
           \A t \in Held(checkpoints) :
             /\ IsCaptured(checkpoints, t) /\ HasRef(checkpoints[t].count)
             /\ checkpoints[t].count \in DOMAIN refs'
             => refs'[checkpoints[t].count] = refs[checkpoints[t].count]]_vars
  BY <1>1
<1> QED BY <1>2, WaitInductive, PTL DEF Spec, CapturedRefsStand

-----------------------------------------------------------------------------
(* Turns and reverts that nothing disturbs: the parts of the invariant.    *)

\* The turns in the order of the conversation, the running one last.
Order == IF running # None THEN Append(conversation, running) ELSE conversation

\* The capture of the last turn is still to come.
OnItsWay ==
  \/ running # None
  \/ \E e \in InFeed(runtimeFeed) : e.type = "turn.completed"
  \/ work.stage \in CaptureStages
  \/ \E e \in InFeed(domainFeed) : e.type = "turn-diff-completed" /\ e.status = "missing"
RolledBack == work.stage \in {"delete", "reverted"}

\* The active turn is the last one, and its end is still to be ingested.
ActiveInv ==
  /\ activeTurn \in {None, started}
  /\ running = None /\ ingestFeed # <<>> => ingestFeed[Len(ingestFeed)].type = "turn.completed"
  /\ running = None /\ (activeTurn # None \/ InHand("turn.started")) =>
       ingestFeed # <<>> \/ InHand("turn.completed")

\* Checkpoints are numbered like the turns; all are captured but for the last turn's,
\* and a revert drops from the table what it has taken from the conversation.
Numbered ==
  /\ \A t \in Held(checkpoints) :
       \/ \E i \in 1..Len(Order) : Order[i] = t /\ checkpoints[t].count = i
       \/ RolledBack /\ checkpoints[t].count > work.count
  /\ \A i \in 1..Len(Order) :
       \/ IsCaptured(checkpoints, Order[i]) /\ checkpoints[Order[i]].count = i
       \/ i = Len(Order) /\ OnItsWay
Ordered ==
  /\ \A i \in 1..Len(Order) : Order[i] <= started
  /\ TurnInFlight =>
       /\ Len(Order) > 0 /\ Order[Len(Order)] = started
       /\ \A i \in 1..Len(Order) : i # Len(Order) => Order[i] # started

RevertInv ==
  /\ work.stage \in {"restore", "rollback"} => work.count + work.back = Len(conversation)
  /\ RolledBack => Len(conversation) = work.count
  /\ work.stage \in RevertStages /\ work.ref # "git" => work.count # 0
  /\ work.stage \in RevertStages \ {"restore"} /\ HasRef(work.count) => tree = refs[work.count]

\* What is captured of a turn without a diff is what the turn left.
Ended == running = None /\ treeAfter[started] = tree
Reported == diffs[started] > 0
CapturesEnd ==
  /\ \A e \in InFeed(runtimeFeed) : e.type = "turn.completed" => Ended
  /\ \A e \in InFeed(ingestFeed) : e.type = "turn.diff.updated" => Reported
  /\ InHand("turn.diff.updated") => Reported
  /\ work.stage \in CaptureStages => Reported \/ Ended
  /\ \A e \in InFeed(domainFeed) :
       e.type = "turn-diff-completed" /\ e.status = "missing" => Reported \/ Ended
  /\ work.stage = "record" => Reported \/ refs[work.count] = treeAfter[started]
  /\ running # None => Reported \/ ~ IsCaptured(checkpoints, started)
EndsHeld ==
  \A t \in Turns :
    IsCaptured(checkpoints, t) /\ diffs[t] = 0 /\ HasRef(checkpoints[t].count)
      => refs[checkpoints[t].count] = treeAfter[t]

Clean == ActiveInv /\ Numbered /\ Ordered /\ RevertInv /\ CapturesEnd /\ EndsHeld
CleanInv == Undisturbed => Clean

-----------------------------------------------------------------------------
(* Turns and reverts that nothing disturbs: the active turn.               *)

LEMMA LastOfAppend ==
  ASSUME NEW S, NEW feed \in Seq(S), NEW e \in S
  PROVE  LET new == Append(feed, e) IN new # <<>> /\ new[Len(new)] = e
OBVIOUS

LEMMA LastOfTail ==
  ASSUME NEW S, NEW feed \in Seq(S), feed # <<>>, Tail(feed) # <<>>
  PROVE  Tail(feed)[Len(Tail(feed))] = feed[Len(feed)]
<1>1. Tail(feed) \in Seq(S) /\ Len(Tail(feed)) = Len(feed) - 1
  BY HeadTailProperties
<1>2. Len(feed) \in Nat /\ Len(Tail(feed)) \in Nat \ {0}
  BY <1>1, EmptySeq
<1>3. \A i \in 1..(Len(feed) - 1) : Tail(feed)[i] = feed[i + 1]
  OBVIOUS
<1>4. Len(feed) - 1 \in 1..(Len(feed) - 1)
  BY <1>1, <1>2
<1>5. Tail(feed)[Len(feed) - 1] = feed[Len(feed) - 1 + 1]
  BY <1>3, <1>4
<1> QED BY <1>1, <1>2, <1>5

LEMMA HeadOfSingle ==
  ASSUME NEW S, NEW feed \in Seq(S), feed # <<>>, Tail(feed) = <<>>
  PROVE  Head(feed) = feed[Len(feed)]
<1>1. Tail(feed) \in Seq(S) /\ Len(Tail(feed)) = Len(feed) - 1 /\ Len(feed) \in Nat
  BY HeadTailProperties
<1>2. Len(feed) = 1
  <2>1. Len(Tail(feed)) = 0
    BY Zenon, EmptySeq
  <2> QED BY <1>1, <2>1
<1>3. Head(feed) = feed[1]
  OBVIOUS
<1> QED BY <1>2, <1>3

\* Without trouble a step is one of the user, the provider, the ingestion or the reactor.
LEMMA UndisturbedStep ==
  ASSUME TypeOK, [Next]_vars, Undisturbed'
  PROVE  /\ Undisturbed /\ (User => Settled)
         /\ \/ User \/ Provider \/ Ingestion \/ ReactorTakes \/ ReactorActs \/ UNCHANGED vars
<1>1. hasty = 0 /\ (User => Settled)
  BY HastyGrows DEF Undisturbed
<1>2. ~ StepFails /\ ~ Crash
  BY DEF StepFails, Crash, Undisturbed, TypeOK
<1>3. UNCHANGED crashes
  BY <1>2, CrashesKept
<1>4. UNCHANGED faults
  <2>1. CASE User \/ Provider
    BY <2>1 DEF User, Provider, RequestTurn, RequestRevert, BeginTurn, Edit, UpdateDiff,
      CompleteTurn, bounds
  <2>2. CASE Ingestion
    BY <2>2 DEF Ingestion, IngestRead, IngestTurnLifecycle, IngestTurnDiff, bounds
  <2>3. CASE ReactorTakes
    BY <2>3, TakesKeep DEF bounds
  <2>4. CASE ReactorActs
    BY <2>4 DEF ReactorActs, CaptureBaseline, CaptureCheckpoint, RecordCheckpoint,
      RestoreCheckpoint, RollbackConversation, DeleteStaleRefs, CompleteRevert, bounds
  <2>5. CASE UNCHANGED vars
    BY <2>5 DEF vars, bounds
  <2> QED BY <1>2, <2>1, <2>2, <2>3, <2>4, <2>5 DEF Next
<1> QED BY <1>1, <1>2, <1>3, <1>4 DEF Next, Undisturbed

LEMMA UserKeeps ==
  ASSUME User
  PROVE  UNCHANGED <<tree, refs, running, started, conversation, session, checkpoints, activeTurn,
                     rows, ingestFeed, reading, runtimeFeed, work, treeAfter, diffs>>
BY DEF User, RequestTurn, RequestRevert, disk, provider, engine, ingestion, bounds

LEMMA ActsKeep ==
  ASSUME ReactorActs
  PROVE  UNCHANGED <<running, started, session, requests, activeTurn, ingestFeed, reading,
                     runtimeFeed, treeAfter, diffs>>
BY DEF ReactorActs, CaptureBaseline, CaptureCheckpoint, RecordCheckpoint, RestoreCheckpoint,
  RollbackConversation, DeleteStaleRefs, CompleteRevert, provider, engine, ingestion, ghosts, bounds

LEMMA ActiveSame ==
  ASSUME ActiveInv, UNCHANGED <<running, started, activeTurn, ingestFeed, reading>>
  PROVE  ActiveInv'
BY DEF ActiveInv, InHand

LEMMA ActiveProvider ==
  ASSUME TypeOK, Patient, ActiveInv, Provider PROVE ActiveInv'
<1>1. UNCHANGED reading
  BY DEF Provider, BeginTurn, Edit, UpdateDiff, CompleteTurn, ingestion
<1>2. CASE BeginTurn
  <2>1. ~ TurnInFlight
    BY <1>2 DEF BeginTurn, Patient, OneAtATime, TypeOK
  <2>2. activeTurn' = None
    BY <1>2, <2>1 DEF BeginTurn, TurnInFlight, ActiveInv, InHand
  <2>3. running' \in Nat
    BY <1>2, BoundsAreNaturals DEF BeginTurn, TypeOK
  <2> QED BY <2>2, <2>3, NoneIsNothingElse DEF ActiveInv
<1>3. CASE Edit
  BY <1>3, ActiveSame DEF Edit, provider, engine, ingestion
<1>4. CASE UpdateDiff
  BY <1>4 DEF UpdateDiff, provider, engine, ActiveInv
<1>5. ASSUME NEW s \in States, CompleteTurn(s) PROVE ActiveInv'
  <2>1. running \in Turns
    BY <1>5 DEF CompleteTurn, TypeOK
  <2>2. TurnCompleted(running, s) \in RuntimeEvent
    BY <2>1 DEF TurnCompleted, RuntimeEvent
  <2>3. ingestFeed' # <<>> /\ ingestFeed'[Len(ingestFeed')] = TurnCompleted(running, s)
    BY <1>5, <2>2, LastOfAppend DEF CompleteTurn, TypeOK
  <2>4. UNCHANGED <<started, activeTurn>>
    BY <1>5 DEF CompleteTurn, engine
  <2> QED BY <2>3, <2>4 DEF ActiveInv, TurnCompleted
<1> QED BY <1>2, <1>3, <1>4, <1>5 DEF Provider

LEMMA ActiveIngestion ==
  ASSUME TypeOK, Patient, ActiveInv, Ingestion PROVE ActiveInv'
<1>1. UNCHANGED <<running, started>>
  BY DEF Ingestion, IngestRead, IngestTurnLifecycle, IngestTurnDiff, provider
<1>2. CASE IngestRead
  <2> DEFINE e == Head(ingestFeed)
             r == [event |-> e, count |-> MaxCount(checkpoints) + 1]
  <2>1. /\ ingestFeed # <<>> /\ ingestFeed' = Tail(ingestFeed) /\ reading = None
        /\ reading' = (IF Applies(e) THEN r ELSE None) /\ UNCHANGED activeTurn
    BY <1>2 DEF IngestRead, engine
  <2>2. e \in RuntimeEvent /\ e.turn = started
    BY <2>1, FeedTail DEF TypeOK, Patient, OfThisTurn
  <2>3. r \in [event : RuntimeEvent, count : Nat] /\ r # None /\ r.event = e
    <3>1. MaxCount(checkpoints) + 1 \in Nat
      BY MaxCountIsLargest DEF TypeOK
    <3> QED BY <2>2, <3>1, NoneIsNothingElse
  <2>4. running = None /\ ingestFeed' # <<>> =>
          ingestFeed'[Len(ingestFeed')].type = "turn.completed"
    BY <2>1, LastOfTail DEF ActiveInv, TypeOK
  <2>5. running = None /\ ingestFeed' = <<>> => InHand("turn.completed")'
    <3> SUFFICES ASSUME running = None, ingestFeed' = <<>> PROVE InHand("turn.completed")'
      OBVIOUS
    <3>1. e.type = "turn.completed"
      BY <2>1, HeadOfSingle DEF ActiveInv, TypeOK
    <3>2. Applies(e)
      BY <2>2, <3>1 DEF Applies, ActiveInv
    <3> QED BY <2>1, <2>3, <3>1, <3>2 DEF InHand
  <2> HIDE DEF r
  <2> QED BY <1>1, <2>1, <2>4, <2>5 DEF ActiveInv, InHand
<1>3. CASE IngestTurnLifecycle
  <2>1. /\ reading' = None /\ UNCHANGED ingestFeed /\ reading.event.turn = started
        /\ InHand("turn.started") \/ InHand("turn.completed")
        /\ activeTurn' = IF reading.event.type = "turn.started" THEN started ELSE None
    BY <1>3 DEF IngestTurnLifecycle, InHand, Patient, OfThisTurn
  <2> QED BY <1>1, <2>1 DEF ActiveInv, InHand
<1>4. CASE IngestTurnDiff
  <2>1. reading' = None /\ UNCHANGED <<ingestFeed, activeTurn>> /\ InHand("turn.diff.updated")
    BY <1>4 DEF IngestTurnDiff
  <2> QED BY <1>1, <2>1 DEF ActiveInv, InHand
<1> QED BY <1>2, <1>3, <1>4 DEF Ingestion

LEMMA ActiveKept ==
  ASSUME TypeOK, Patient, ActiveInv,
         User \/ Provider \/ Ingestion \/ ReactorTakes \/ ReactorActs \/ UNCHANGED vars
  PROVE  ActiveInv'
<1>1. CASE User \/ ReactorTakes \/ ReactorActs \/ UNCHANGED vars
  <2>1. UNCHANGED <<running, started, activeTurn, ingestFeed, reading>>
    BY <1>1, UserKeeps, TakesKeep, ActsKeep DEF vars, provider, engine, ingestion
  <2> QED BY <2>1, ActiveSame
<1> QED BY <1>1, ActiveProvider, ActiveIngestion

-----------------------------------------------------------------------------
(* Turns and reverts that nothing disturbs: turns and their numbers.       *)

LEMMA OnItsWayInFlight == OnItsWay => TurnInFlight
<1>1. ASSUME NEW e \in InFeed(runtimeFeed) PROVE runtimeFeed # <<>>
  BY EmptyFeed
<1> QED BY <1>1 DEF OnItsWay, TurnInFlight

\* Only a turn that starts puts a turn in flight.
LEMMA FlightStarts ==
  ASSUME TypeOK, Patient, ~ BeginTurn, TurnInFlight',
         \/ User /\ Settled
         \/ Provider \/ Ingestion \/ ReactorTakes \/ ReactorActs \/ UNCHANGED vars
  PROVE  TurnInFlight
<1> SUFFICES ASSUME ~ TurnInFlight PROVE FALSE
  OBVIOUS
<1>1. /\ running = None /\ ingestFeed = <<>> /\ reading = None /\ runtimeFeed = <<>>
      /\ work.stage \notin CaptureStages
      /\ \A e \in InFeed(domainFeed) : e.type # "turn-diff-completed"
  BY DEF TurnInFlight
<1>2. ASSUME UNCHANGED <<running, ingestFeed, reading, runtimeFeed>>,
             work'.stage \notin CaptureStages,
             \A e \in InFeed(domainFeed') :
               e \in InFeed(domainFeed) \/ e.type # "turn-diff-completed"
      PROVE  FALSE
  BY <1>1, <1>2 DEF TurnInFlight, InFeed
<1>3. CASE User /\ Settled
  <2>1. UNCHANGED <<running, ingestFeed, reading, runtimeFeed, work>> /\ domainFeed = <<>>
    BY <1>3, UserKeeps DEF Settled
  <2>2. CASE RequestTurn
    <3>1. domainFeed' = <<TurnRequested, TurnRequested>>
      BY <2>1, <2>2 DEF RequestTurn
    <3>2. \A e \in InFeed(domainFeed') : e.type # "turn-diff-completed"
      BY <3>1 DEF InFeed, TurnRequested
    <3> QED BY <1>1, <1>2, <2>1, <3>2
  <2>3. ASSUME NEW n \in Turns \cup {0}, RequestRevert(n) PROVE FALSE
    <3>1. domainFeed' = <<RevertRequested(n)>>
      BY <2>1, <2>3 DEF RequestRevert
    <3>2. \A e \in InFeed(domainFeed') : e.type # "turn-diff-completed"
      BY <3>1 DEF InFeed, RevertRequested
    <3> QED BY <1>1, <1>2, <2>1, <3>2
  <2> QED BY <1>3, <2>2, <2>3 DEF User
<1>4. CASE Provider
  BY <1>1, <1>4 DEF Provider, Edit, UpdateDiff, CompleteTurn
<1>5. CASE Ingestion
  BY <1>1, <1>5 DEF Ingestion, IngestRead, IngestTurnLifecycle, IngestTurnDiff, InHand
<1>6. CASE ReactorTakes
  <2>1. /\ UNCHANGED <<running, ingestFeed, reading, runtimeFeed>>
        /\ domainFeed # <<>> /\ domainFeed' = Tail(domainFeed)
    BY <1>1, <1>6, TakesKeep DEF provider, ingestion
  <2>2. InFeed(domainFeed) = InFeed(domainFeed') \cup {Head(domainFeed)}
    BY <2>1, FeedTail DEF TypeOK
  <2>3. ~ BaselineOnStart /\ ~ CaptureOnCompletion /\ ~ CaptureOnPlaceholder
    BY <1>1, <2>2 DEF BaselineOnStart, CaptureOnCompletion, CaptureOnPlaceholder, TakesRuntime,
      TakesDomain
  <2>4. work'.stage \notin CaptureStages
    <3>1. CASE BaselineOnRequest
      BY <3>1 DEF BaselineOnRequest, Baseline, Idle, CaptureStages
    <3>2. CASE StartRevert
      BY <1>1, <3>2, RevertWork DEF CaptureStages
    <3> QED BY <1>6, <2>3, <3>1, <3>2 DEF ReactorTakes
  <2> QED BY <1>2, <2>1, <2>2, <2>4
<1>7. CASE ReactorActs
  <2>1. UNCHANGED <<running, ingestFeed, reading, runtimeFeed>>
    BY <1>7, ActsKeep
  <2>2. ~ CaptureCheckpoint /\ ~ RecordCheckpoint
    BY <1>1 DEF CaptureCheckpoint, RecordCheckpoint, CaptureStages
  <2>3. work'.stage \notin CaptureStages /\ UNCHANGED domainFeed
    <3>1. CASE CaptureBaseline
      BY <3>1 DEF CaptureBaseline, Idle, CaptureStages
    <3>2. CASE RestoreCheckpoint \/ RollbackConversation \/ DeleteStaleRefs \/ CompleteRevert
      <4>1. UNCHANGED domainFeed
        BY <3>2 DEF RestoreCheckpoint, RollbackConversation, DeleteStaleRefs, CompleteRevert
      <4> QED BY <1>1, <3>2, <4>1, RevertWalks DEF CaptureStages
    <3> QED BY <1>7, <2>2, <3>1, <3>2 DEF ReactorActs
  <2> QED BY <1>2, <2>1, <2>3
<1>8. CASE UNCHANGED vars
  BY <1>1, <1>2, <1>8 DEF vars, provider, ingestion, reactor
<1> QED BY <1>3, <1>4, <1>5, <1>6, <1>7, <1>8 DEF Provider

LEMMA OrderTyped ==
  ASSUME TypeOK
  PROVE  /\ Order \in Seq(Turns) /\ Len(Order) \in Nat
         /\ \A i \in 1..Len(Order) : Order[i] \in Turns
<1>1. Order \in Seq(Turns)
  BY DEF TypeOK, Order
<1> HIDE DEF Order
<1> QED BY <1>1, ElementOfSeq, LenProperties

\* The order of turns changes when one starts and when a revert rolls turns back.
LEMMA OrderKept ==
  ASSUME TypeOK, ~ BeginTurn, ~ RollbackConversation,
         User \/ Provider \/ Ingestion \/ ReactorTakes \/ ReactorActs \/ UNCHANGED vars
  PROVE  Order' = Order /\ started' = started
<1>1. CASE UNCHANGED <<running, conversation, started>>
  BY <1>1 DEF Order
<1>2. CASE User
  BY <1>1, <1>2, UserKeeps
<1>3. CASE Provider
  BY <1>1, <1>3 DEF Provider, Edit, UpdateDiff, CompleteTurn, provider, Order
<1>4. CASE Ingestion
  BY <1>1, <1>4 DEF Ingestion, IngestRead, IngestTurnLifecycle, IngestTurnDiff, provider
<1>5. CASE ReactorTakes
  BY <1>1, <1>5, TakesKeep DEF provider
<1>6. CASE ReactorActs
  BY <1>1, <1>6 DEF ReactorActs, CaptureBaseline, CaptureCheckpoint, RecordCheckpoint,
    RestoreCheckpoint, DeleteStaleRefs, CompleteRevert, provider
<1>7. CASE UNCHANGED vars
  BY <1>1, <1>7 DEF vars, provider
<1> QED BY <1>2, <1>3, <1>4, <1>5, <1>6, <1>7

LEMMA OrderOfBegun ==
  ASSUME TypeOK, BeginTurn
  PROVE  /\ started' \in Turns /\ started' = started + 1
         /\ Len(Order') = Len(Order) + 1 /\ Order'[Len(Order')] = started'
         /\ \A i \in 1..Len(Order) : Order'[i] = Order[i]
<1>1. started' \in Turns /\ started' = started + 1 /\ running' = started' /\ running = None
  BY BoundsAreNaturals DEF BeginTurn, TypeOK, Turns
<1>2. running' # None
  BY <1>1, NoneIsNothingElse DEF Turns
<1>3. Order = conversation /\ Order' = Append(conversation, started')
  BY <1>1, <1>2 DEF Order, BeginTurn
<1>4. conversation \in Seq(Turns)
  BY DEF TypeOK
<1> QED BY <1>1, <1>3, <1>4

LEMMA OrderOfRolledBack ==
  ASSUME TypeOK, RevertInv, running = None, RollbackConversation
  PROVE  /\ Len(conversation') = work.count /\ work.count <= Len(Order)
         /\ Order' = conversation' /\ Order = conversation
         /\ \A i \in 1..work.count : Order'[i] = Order[i]
<1>1. work.count + work.back = Len(conversation) /\ running' = None
  BY DEF RollbackConversation, RevertInv
<1>2. work.count \in Nat /\ work.back \in Nat /\ Len(conversation) \in Nat
  BY DEF TypeOK, Work, WorkIn
<1>3. conversation' = SubSeq(conversation, 1, work.count) /\ work.count <= Len(conversation)
  <2>1. work.back <= Len(conversation) /\ Len(conversation) - work.back = work.count
    BY <1>1, <1>2
  <2>2. work.count <= Len(conversation)
    BY <1>1, <1>2
  <2> QED BY <2>1, <2>2 DEF RollbackConversation, Without
<1>4. Order' = conversation' /\ Order = conversation
  BY <1>1 DEF Order
<1>5. \A i \in 1..work.count : conversation[i] \in Turns
  BY <1>2, <1>3, ElementOfSeq DEF TypeOK
<1>6. Len(conversation') = work.count /\ \A i \in 1..work.count : conversation'[i] = conversation[i]
  BY <1>2, <1>3, <1>5, SubSeqProperties DEF TypeOK
<1> QED BY <1>2, <1>3, <1>4, <1>6

LEMMA OrderedKept ==
  ASSUME TypeOK, Patient, RevertInv, Ordered,
         \/ User /\ Settled
         \/ Provider \/ Ingestion \/ ReactorTakes \/ ReactorActs \/ UNCHANGED vars
  PROVE  Ordered'
<1>1. \A i \in 1..Len(Order) : Order[i] \in Nat /\ Order[i] <= started
  BY OrderTyped, BoundsAreNaturals DEF Ordered, Turns
<1>2. Len(Order) \in Nat /\ started \in Nat
  BY OrderTyped, BoundsAreNaturals DEF TypeOK
<1>3. CASE BeginTurn
  <2>1. /\ started' = started + 1 /\ Len(Order') = Len(Order) + 1 /\ Order'[Len(Order')] = started'
        /\ \A i \in 1..Len(Order) : Order'[i] = Order[i]
    BY <1>3, OrderOfBegun
  <2>2. ASSUME NEW i \in 1..Len(Order') PROVE i = Len(Order') \/ i \in 1..Len(Order)
    BY <1>2, <2>1
  <2>3. ASSUME NEW i \in 1..Len(Order)
        PROVE  Order'[i] <= started' /\ Order'[i] # started'
    BY <1>1, <1>2, <2>1
  <2>4. \A i \in 1..Len(Order') : Order'[i] <= started'
    BY <1>2, <2>1, <2>2, <2>3
  <2>5. \A i \in 1..Len(Order') : i # Len(Order') => Order'[i] # started'
    BY <2>2, <2>3
  <2>6. Len(Order') > 0
    BY <1>2, <2>1
  <2> QED BY <2>1, <2>4, <2>5, <2>6 DEF Ordered
<1>4. CASE RollbackConversation
  <2>1. work.stage \in RevertStages
    BY <1>4 DEF RollbackConversation, RevertStages
  <2>2. ~ TurnInFlight
    BY <2>1 DEF Patient, OneAtATime, RevertInFlight
  <2>3. ~ TurnInFlight'
    <3>1. requests = 0
      BY <2>1 DEF Patient, OneAtATime, RevertInFlight, TypeOK
    <3>2. ~ BeginTurn /\ ReactorActs
      BY <1>4, <3>1 DEF BeginTurn, ReactorActs
    <3> QED BY <2>2, <3>2, FlightStarts
  <2>4. /\ Len(Order') = work.count /\ work.count <= Len(Order)
        /\ \A i \in 1..work.count : Order'[i] = Order[i]
    BY <1>4, <2>2, OrderOfRolledBack DEF TurnInFlight
  <2>5. UNCHANGED started /\ work.count \in Nat
    BY <1>4 DEF RollbackConversation, TypeOK, Work, WorkIn
  <2>6. \A i \in 1..Len(Order') : Order'[i] <= started'
    BY <1>1, <1>2, <2>4, <2>5
  <2> QED BY <2>3, <2>6 DEF Ordered
<1>5. CASE ~ BeginTurn /\ ~ RollbackConversation
  <2>1. Order' = Order /\ started' = started
    BY <1>5, OrderKept
  <2>2. TurnInFlight' => TurnInFlight
    BY <1>5, FlightStarts
  <2> QED BY <2>1, <2>2 DEF Ordered
<1> QED BY <1>3, <1>4, <1>5

LEMMA MaxCountIs ==
  ASSUME NEW table \in Table, NEW n \in Nat, \A t \in Held(table) : table[t].count <= n,
         n # 0 => \E t \in Held(table) : table[t].count = n
  PROVE  MaxCount(table) = n
<1>1. /\ MaxCount(table) \in Nat
      /\ \A t \in Held(table) : table[t].count <= MaxCount(table)
      /\ MaxCount(table) = 0 \/ \E t \in Held(table) : table[t].count = MaxCount(table)
  BY MaxCountIsLargest
<1>2. n <= MaxCount(table)
  BY <1>1
<1>3. MaxCount(table) <= n
  BY <1>1
<1> QED BY <1>1, <1>2, <1>3

\* The number on its way for the last turn is its place in the order.
LEMMA NumberIsPlace ==
  ASSUME TypeOK, Patient, Numbered, Ordered, TurnInFlight, started \in Turns,
         ~ IsCaptured(checkpoints, started)
  PROVE  NextCount(checkpoints, started) = Len(Order)
<1> DEFINE n == Len(Order)
<1>1. n \in Nat /\ n > 0 /\ Order[n] = started /\ checkpoints \in Table
  BY OrderTyped DEF Ordered, TypeOK
<1>2. ~ RolledBack
  BY DEF Patient, OneAtATime, RevertInFlight, RolledBack, RevertStages
<1>3. \A t \in Held(checkpoints) : \E i \in 1..n : Order[i] = t /\ checkpoints[t].count = i
  BY <1>2 DEF Numbered
<1>4. \A i \in 1..n : i # n => IsCaptured(checkpoints, Order[i]) /\ checkpoints[Order[i]].count = i
  BY DEF Numbered
<1>5. CASE checkpoints[started] # None
  <2>1. PICK i \in 1..n : Order[i] = started /\ checkpoints[started].count = i
    BY <1>3, <1>5 DEF Held
  <2>2. i = n
    BY <1>4, <2>1
  <2> QED BY <1>5, <2>1, <2>2 DEF NextCount
<1>6. CASE checkpoints[started] = None
  <2>1. \A t \in Held(checkpoints) : checkpoints[t].count <= n - 1
    <3> SUFFICES ASSUME NEW t \in Held(checkpoints) PROVE checkpoints[t].count <= n - 1
      OBVIOUS
    <3>1. PICK i \in 1..n : Order[i] = t /\ checkpoints[t].count = i
      BY <1>3
    <3>2. i # n
      BY <1>1, <1>6, <3>1 DEF Held
    <3> QED BY <1>1, <3>1, <3>2
  <2>2. n - 1 # 0 => \E t \in Held(checkpoints) : checkpoints[t].count = n - 1
    <3> SUFFICES ASSUME n - 1 # 0 PROVE \E t \in Held(checkpoints) : checkpoints[t].count = n - 1
      OBVIOUS
    <3>0. \A k \in Nat : k > 0 /\ k - 1 # 0 => k - 1 \in 1..k /\ k - 1 # k
      OBVIOUS
    <3>1. n - 1 \in 1..n /\ n - 1 # n
      BY <1>1, <3>0
    <3>2. Order[n - 1] \in Turns
      BY <3>1, OrderTyped
    <3> QED BY <1>4, <3>1, <3>2 DEF Held, IsCaptured
  <2>3. MaxCount(checkpoints) = n - 1
    BY <1>1, <2>1, <2>2, MaxCountIs
  <2> QED BY <1>1, <1>6, <2>3 DEF NextCount
<1> QED BY <1>5, <1>6

\* A table that stays is numbered as before, if what was on its way for the last turn
\* still is, or has come.
LEMMA NumberedSame ==
  ASSUME Numbered, UNCHANGED checkpoints, Order' = Order,
         RolledBack => RolledBack' /\ work'.count = work.count,
         OnItsWay => \/ OnItsWay'
                     \/ LET t == Order[Len(Order)]
                        IN IsCaptured(checkpoints, t) /\ checkpoints[t].count = Len(Order)
  PROVE  Numbered'
BY DEF Numbered, IsCaptured, Held

LEMMA NumberedDispatch ==
  ASSUME TypeOK, Patient, Numbered, Ordered, TurnInFlight, started \in Turns,
         NEW c \in Checkpoint, c.count = NextCount(checkpoints, started),
         c.status = "missing" \/ ~ IsCaptured(checkpoints, started),
         DispatchTurnDiff(started, c), Order' = Order
  PROVE  Numbered'
<1> DEFINE n == Len(Order)
           d == TurnDiffCompleted(started, c.count, c.status)
<1>1. n \in Nat /\ n > 0 /\ Order[n] = started /\ \A i \in 1..n : i # n => Order[i] # started
  BY OrderTyped DEF Ordered
<1>2. ~ RolledBack
  BY DEF Patient, OneAtATime, RevertInFlight, RolledBack, RevertStages
<1>3. checkpoints' = MemoryAfterDiff(checkpoints, started, c) /\ domainFeed' = Append(domainFeed, d)
  BY DEF DispatchTurnDiff
<1>4. c.count \in Nat /\ c.status \in Statuses /\ c # None
  BY NoneIsNoCheckpoint DEF Checkpoint
<1>5. d \in DomainEvent /\ d.type = "turn-diff-completed" /\ d.status = c.status
  BY <1>4 DEF TurnDiffCompleted, DomainEvent
<1>6. InFeed(domainFeed') = InFeed(domainFeed) \cup {d}
  BY <1>3, <1>5, FeedAppend DEF TypeOK
<1>7. c.status = "missing" => OnItsWay'
  BY <1>5, <1>6 DEF OnItsWay, InFeed
<1>8. CASE IsCaptured(checkpoints, started)
  <2>1. checkpoints' = checkpoints
    BY <1>3, <1>8 DEF MemoryAfterDiff
  <2> QED BY <1>2, <1>7, <1>8, <2>1, NumberedSame
<1>9. CASE ~ IsCaptured(checkpoints, started)
  <2>1. checkpoints' = [checkpoints EXCEPT ![started] = c]
        /\ checkpoints \in [Turns -> Checkpoint \cup {None}]
    BY <1>3, <1>9 DEF MemoryAfterDiff, TypeOK, Table
  <2>2. /\ checkpoints'[started] = c
        /\ \A t \in Turns : t # started => checkpoints'[t] = checkpoints[t]
    BY <2>1
  <2>3. c.count = n
    BY <1>9, NumberIsPlace
  <2>4. \A t \in Held(checkpoints') : \E i \in 1..n : Order[i] = t /\ checkpoints'[t].count = i
    <3> SUFFICES ASSUME NEW t \in Held(checkpoints')
                 PROVE  \E i \in 1..n : Order[i] = t /\ checkpoints'[t].count = i
      OBVIOUS
    <3>1. CASE t = started
      BY <1>1, <2>2, <2>3, <3>1
    <3>2. CASE t # started
      <4>1. checkpoints'[t] = checkpoints[t] /\ t \in Held(checkpoints)
        BY <2>2, <3>2 DEF Held
      <4> QED BY <1>2, <4>1 DEF Numbered
    <3> QED BY <3>1, <3>2
  <2>5. ASSUME NEW i \in 1..n
        PROVE  \/ IsCaptured(checkpoints', Order[i]) /\ checkpoints'[Order[i]].count = i
               \/ i = n /\ OnItsWay'
    <3>1. CASE i # n
      <4>1. Order[i] \in Turns /\ Order[i] # started
        BY <1>1, <3>1, OrderTyped
      <4>2. checkpoints'[Order[i]] = checkpoints[Order[i]]
        BY <2>2, <4>1
      <4>3. IsCaptured(checkpoints, Order[i]) /\ checkpoints[Order[i]].count = i
        BY <3>1 DEF Numbered
      <4> QED BY <4>2, <4>3 DEF IsCaptured
    <3>2. CASE i = n
      BY <1>1, <1>4, <1>7, <2>2, <2>3, <3>2 DEF IsCaptured
    <3> QED BY <3>1, <3>2
  <2> QED BY <2>4, <2>5 DEF Numbered, Held, IsCaptured
<1> QED BY <1>8, <1>9

LEMMA NumberedProvider ==
  ASSUME TypeOK, Patient, Numbered, Ordered, Provider PROVE Numbered'
<1>1. UNCHANGED <<checkpoints, work>>
  BY DEF Provider, BeginTurn, Edit, UpdateDiff, CompleteTurn, engine, reactor
<1>2. CASE BeginTurn
  <2>1. ~ TurnInFlight /\ ~ RevertInFlight
    BY <1>2 DEF BeginTurn, Patient, OneAtATime, TypeOK
  <2>2. ~ OnItsWay /\ ~ RolledBack
    BY <2>1, OnItsWayInFlight DEF RevertInFlight, RolledBack, RevertStages
  <2>3. /\ Len(Order') = Len(Order) + 1 /\ \A i \in 1..Len(Order) : Order'[i] = Order[i]
        /\ Len(Order) \in Nat
    BY <1>2, OrderOfBegun, OrderTyped
  <2>4. running' # None
    BY <1>2, OrderOfBegun, NoneIsNothingElse DEF BeginTurn, Turns
  <2>5. OnItsWay'
    BY <2>4 DEF OnItsWay
  <2>6. \A t \in Held(checkpoints) :
          \E i \in 1..Len(Order') : Order'[i] = t /\ checkpoints[t].count = i
    <3> SUFFICES ASSUME NEW t \in Held(checkpoints)
                 PROVE  \E i \in 1..Len(Order') : Order'[i] = t /\ checkpoints[t].count = i
      OBVIOUS
    <3>1. PICK i \in 1..Len(Order) : Order[i] = t /\ checkpoints[t].count = i
      BY <2>2 DEF Numbered
    <3>2. i \in 1..Len(Order')
      BY <2>3
    <3> QED BY <2>3, <3>1, <3>2
  <2>7. ASSUME NEW i \in 1..Len(Order'), i # Len(Order')
        PROVE  IsCaptured(checkpoints, Order'[i]) /\ checkpoints[Order'[i]].count = i
    <3>1. i \in 1..Len(Order)
      BY <2>3, <2>7
    <3> QED BY <2>2, <2>3, <3>1 DEF Numbered
  <2> QED BY <1>1, <2>5, <2>6, <2>7 DEF Numbered, Held, IsCaptured
<1>3. CASE Edit \/ UpdateDiff \/ \E s \in States : CompleteTurn(s)
  <2>1. Order' = Order
    BY <1>3 DEF Edit, UpdateDiff, CompleteTurn, provider, Order
  <2>2. OnItsWay'
    <3>1. CASE Edit \/ UpdateDiff
      BY <3>1 DEF Edit, UpdateDiff, provider, OnItsWay
    <3>2. ASSUME NEW s \in States, CompleteTurn(s) PROVE OnItsWay'
      <4>1. running \in Turns
        BY <3>2 DEF CompleteTurn, TypeOK
      <4>2. TurnCompleted(running, s) \in RuntimeEvent
        BY <4>1 DEF TurnCompleted, RuntimeEvent
      <4>3. TurnCompleted(running, s) \in InFeed(runtimeFeed')
        BY <3>2, <4>2, FeedAppend DEF CompleteTurn, TypeOK
      <4> QED BY <4>3 DEF OnItsWay, InFeed, TurnCompleted
    <3> QED BY <1>3, <3>1, <3>2
  <2> QED BY <1>1, <2>1, <2>2, NumberedSame DEF RolledBack
<1> QED BY <1>2, <1>3 DEF Provider

LEMMA NumberedIngestion ==
  ASSUME TypeOK, Patient, Numbered, Ordered, Ingestion PROVE Numbered'
<1>1. Order' = Order
  BY DEF Ingestion, IngestRead, IngestTurnLifecycle, IngestTurnDiff, provider, Order
<1>2. CASE IngestRead \/ IngestTurnLifecycle
  <2>1. UNCHANGED <<checkpoints, work, running, runtimeFeed, domainFeed>>
    BY <1>2 DEF IngestRead, IngestTurnLifecycle, engine, reactor, provider
  <2>2. OnItsWay => OnItsWay'
    BY <2>1 DEF OnItsWay, InFeed
  <2> QED BY <1>1, <2>1, <2>2, NumberedSame DEF RolledBack
<1>3. CASE IngestTurnDiff
  <2> DEFINE c == [count |-> reading.count, status |-> "missing", ref |-> "provider-diff"]
  <2>1. reading.event \in RuntimeEvent /\ reading.count \in Nat /\ TurnInFlight
    BY <1>3 DEF IngestTurnDiff, InHand, TypeOK, TurnInFlight
  <2>2. reading.event.turn = started /\ reading.count = NextCount(checkpoints, started)
    BY <1>3 DEF IngestTurnDiff, InHand, Patient, OfThisTurn
  <2>3. started \in Turns
    BY <2>1, <2>2 DEF RuntimeEvent
  <2>4. /\ c \in Checkpoint /\ c.count = NextCount(checkpoints, started)
        /\ c.status = "missing"
    BY <2>1, <2>2 DEF Checkpoint, Statuses
  <2>5. DispatchTurnDiff(started, c)
    BY <1>3, <2>2 DEF IngestTurnDiff
  <2> HIDE DEF c
  <2> QED BY <1>1, <2>1, <2>3, <2>4, <2>5, NumberedDispatch
<1> QED BY <1>2, <1>3 DEF Ingestion

LEMMA NumberedTakes ==
  ASSUME TypeOK, Patient, ActiveInv, Numbered, Ordered, ReactorTakes
  PROVE  Numbered'
<1>1. /\ work.stage = "idle" /\ UNCHANGED <<checkpoints, running, conversation>> /\ ~ RolledBack
      /\ \/ domainFeed # <<>> /\ domainFeed' = Tail(domainFeed) /\ UNCHANGED runtimeFeed
         \/ runtimeFeed # <<>> /\ runtimeFeed' = Tail(runtimeFeed) /\ UNCHANGED domainFeed
  BY TakesKeep DEF provider, engine, RolledBack
<1>2. Order' = Order
  BY <1>1 DEF Order
<1>3. ASSUME OnItsWay =>
               \/ OnItsWay'
               \/ LET t == Order[Len(Order)]
                  IN IsCaptured(checkpoints, t) /\ checkpoints[t].count = Len(Order)
      PROVE  Numbered'
  BY <1>1, <1>2, <1>3, NumberedSame
<1>4. /\ \A e \in InFeed(domainFeed) : domainFeed # <<>> /\ e # Head(domainFeed)
                                         => e \in InFeed(Tail(domainFeed))
      /\ \A e \in InFeed(runtimeFeed) : runtimeFeed # <<>> /\ e # Head(runtimeFeed)
                                         => e \in InFeed(Tail(runtimeFeed))
  BY FeedTail DEF TypeOK
<1>5. OnItsWay =>
        \/ running' # None
        \/ \E e \in InFeed(runtimeFeed) : e.type = "turn.completed"
        \/ \E e \in InFeed(domainFeed) : e.type = "turn-diff-completed" /\ e.status = "missing"
  BY <1>1 DEF OnItsWay, CaptureStages
<1>6. CASE BaselineOnRequest
  <2>1. /\ domainFeed # <<>> /\ Head(domainFeed).type = "turn-requested"
        /\ domainFeed' = Tail(domainFeed) /\ UNCHANGED runtimeFeed
    BY <1>6 DEF BaselineOnRequest, TakesDomain
  <2>2. OnItsWay => OnItsWay'
    BY <1>4, <1>5, <2>1 DEF OnItsWay, InFeed
  <2> QED BY <1>3, <2>2
<1>7. CASE BaselineOnStart
  <2>1. /\ runtimeFeed # <<>> /\ Head(runtimeFeed).type = "turn.started"
        /\ runtimeFeed' = Tail(runtimeFeed) /\ UNCHANGED domainFeed
    BY <1>7 DEF BaselineOnStart, TakesRuntime
  <2>2. OnItsWay => OnItsWay'
    BY <1>4, <1>5, <2>1 DEF OnItsWay, InFeed
  <2> QED BY <1>3, <2>2
<1>8. ASSUME TurnInFlight, IsCaptured(checkpoints, started), started \in Turns
      PROVE  Order[Len(Order)] = started /\ checkpoints[started].count = Len(Order)
  <2>1. ~ RolledBack /\ started \in Held(checkpoints)
    BY <1>1, <1>8 DEF Held, IsCaptured
  <2>2. PICK i \in 1..Len(Order) : Order[i] = started /\ checkpoints[started].count = i
    BY <2>1 DEF Numbered
  <2> QED BY <1>8, <2>2 DEF Ordered
<1>9. CASE CaptureOnCompletion
  <2> DEFINE e == Head(runtimeFeed)
             t == e.turn
             next == IF checkpoints[t] # None THEN checkpoints[t].count
                     ELSE MaxCount(checkpoints) + 1
  <2>1. runtimeFeed # <<>> /\ e.type = "turn.completed"
    BY <1>9 DEF CaptureOnCompletion, TakesRuntime
  <2>2. e \in InFeed(runtimeFeed) /\ e \in RuntimeEvent
    BY <2>1, FeedTail DEF TypeOK
  <2>3. t = started /\ t \in Turns /\ TurnInFlight
    BY <2>1, <2>2 DEF Patient, OfThisTurn, TurnInFlight, RuntimeEvent
  <2>4. activeTurn \in {None, t}
    BY <2>3 DEF ActiveInv
  <2>5. CASE IsCaptured(checkpoints, t)
    BY <1>3, <1>8, <2>3, <2>5
  <2>6. CASE ~ IsCaptured(checkpoints, t)
    <3>1. work' = Capture(t, next, checkpointStatusFromRuntime(e.state))
      BY <1>9, <2>4, <2>6 DEF CaptureOnCompletion
    <3>2. work'.stage = "capture"
      BY <3>1 DEF Capture, Idle
    <3>3. OnItsWay'
      BY <3>2 DEF OnItsWay, CaptureStages
    <3> QED BY <1>3, <3>3
  <2> QED BY <2>5, <2>6
<1>10. CASE CaptureOnPlaceholder
  <2> DEFINE e == Head(domainFeed)
  <2>1. /\ domainFeed # <<>> /\ e.type = "turn-diff-completed"
        /\ domainFeed' = Tail(domainFeed) /\ UNCHANGED runtimeFeed
    BY <1>10 DEF CaptureOnPlaceholder, TakesDomain
  <2>2. e \in InFeed(domainFeed) /\ e \in DomainEvent
    BY <2>1, FeedTail DEF TypeOK
  <2>3. e.turn = started /\ TurnInFlight /\ e.turn \in Turns
    BY <2>1, <2>2 DEF Patient, OfThisTurn, TurnInFlight, DomainEvent
  <2>4. CASE e.status # "missing"
    <3>1. OnItsWay => OnItsWay'
      BY <1>4, <1>5, <2>1, <2>4 DEF OnItsWay, InFeed
    <3> QED BY <1>3, <3>1
  <2>5. CASE IsCaptured(checkpoints, e.turn)
    BY <1>3, <1>8, <2>3, <2>5
  <2>6. CASE e.status = "missing" /\ ~ IsCaptured(checkpoints, e.turn)
    <3>1. work' = Capture(e.turn, e.count, "ready")
      BY <1>10, <2>6 DEF CaptureOnPlaceholder
    <3>2. work'.stage = "capture"
      BY <3>1 DEF Capture, Idle
    <3>3. OnItsWay'
      BY <3>2 DEF OnItsWay, CaptureStages
    <3> QED BY <1>3, <3>3
  <2> QED BY <2>4, <2>5, <2>6
<1>11. CASE StartRevert
  <2>1. domainFeed # <<>> /\ Head(domainFeed).type = "revert-requested"
    <3>1. TakesDomain("revert-requested")
      BY Zenon, <1>11 DEF StartRevert
    <3> QED BY <3>1 DEF TakesDomain
  <2>2. Head(domainFeed) \in InFeed(domainFeed)
    BY <2>1, FeedTail DEF TypeOK
  <2>3. ~ OnItsWay
    BY <2>1, <2>2, OnItsWayInFlight DEF Patient, OneAtATime, RevertInFlight
  <2> QED BY <1>3, <2>3
<1> QED BY <1>6, <1>7, <1>9, <1>10, <1>11 DEF ReactorTakes

\* A revert finds every turn captured, and as many checkpoints as turns.
LEMMA AllNumbered ==
  ASSUME TypeOK, Numbered, ~ OnItsWay, ~ RolledBack
  PROVE  MaxCount(checkpoints) = Len(Order)
<1>1. \A t \in Held(checkpoints) : \E i \in 1..Len(Order) :
        Order[i] = t /\ checkpoints[t].count = i
  BY DEF Numbered
<1>2. Len(Order) \in Nat /\ \A i \in 1..Len(Order) : Order[i] \in Turns
  BY OrderTyped
<1>3. \A i \in 1..Len(Order) :
        Order[i] \in Held(checkpoints) /\ checkpoints[Order[i]].count = i
  BY <1>2 DEF Numbered, Held, IsCaptured
<1>4. \A t \in Held(checkpoints) : checkpoints[t].count <= Len(Order)
  BY <1>1, <1>2
<1>5. Len(Order) # 0 => Len(Order) \in 1..Len(Order)
  BY <1>2
<1>6. Len(Order) # 0 => \E t \in Held(checkpoints) : checkpoints[t].count = Len(Order)
  BY <1>3, <1>5
<1> QED BY <1>2, <1>4, <1>6, MaxCountIs DEF TypeOK

LEMMA NumberedActs ==
  ASSUME TypeOK, OpenCapture, Patient, RevertInv, Numbered, Ordered, ReactorActs
  PROVE  Numbered'
<1>1. UNCHANGED <<running, runtimeFeed, started>>
  BY ActsKeep
<1>2. CASE CaptureBaseline
  <2>1. work.stage = "baseline" /\ UNCHANGED <<checkpoints, conversation, domainFeed>>
    BY <1>2 DEF CaptureBaseline, provider, engine
  <2>2. Order' = Order /\ (OnItsWay => OnItsWay') /\ ~ RolledBack
    BY <1>1, <2>1 DEF Order, OnItsWay, RolledBack, CaptureStages, InFeed
  <2> QED BY <2>1, <2>2, NumberedSame
<1>3. CASE CaptureCheckpoint
  <2>1. work.stage = "capture" /\ work'.stage = "record" /\ UNCHANGED <<checkpoints, conversation>>
    BY <1>3 DEF CaptureCheckpoint, provider, engine, TypeOK, Work, WorkIn
  <2>2. Order' = Order /\ OnItsWay' /\ ~ RolledBack
    BY <1>1, <2>1 DEF Order, OnItsWay, RolledBack, CaptureStages
  <2> QED BY <2>1, <2>2, NumberedSame
<1>4. CASE RecordCheckpoint
  <2> DEFINE c == [count |-> work.count, status |-> work.status, ref |-> "git"]
  <2>1. work.stage = "record" /\ DispatchTurnDiff(work.turn, c) /\ UNCHANGED conversation
    BY <1>4 DEF RecordCheckpoint, provider
  <2>2. TurnInFlight
    BY <2>1 DEF TurnInFlight, CaptureStages
  <2>3. work.turn \in Turns /\ work.turn = started /\ work.count = NextCount(checkpoints, started)
    BY <2>1 DEF TypeOK, Work, WorkIn, RevertStages, Patient, OfThisTurn, CaptureStages
  <2>4. c \in Checkpoint /\ c.count = work.count
    BY DEF TypeOK, Work, WorkIn, Checkpoint
  <2>5. ~ IsCaptured(checkpoints, started)
    BY <2>1, <2>3 DEF OpenCapture, CaptureStages
  <2>6. Order' = Order
    BY <1>1, <2>1 DEF Order
  <2> HIDE DEF c
  <2> QED BY <2>1, <2>2, <2>3, <2>4, <2>5, <2>6, NumberedDispatch
<1>5. ASSUME work.stage \in RevertStages
      PROVE  ~ OnItsWay /\ running = None /\ running' = None /\ Order = conversation
  BY <1>1, <1>5, OnItsWayInFlight DEF Patient, OneAtATime, RevertInFlight, TurnInFlight, Order
<1>6. CASE RestoreCheckpoint \/ DeleteStaleRefs
  <2>1. work.stage \in RevertStages /\ UNCHANGED <<checkpoints, conversation>>
    BY <1>6 DEF RestoreCheckpoint, DeleteStaleRefs, provider, engine, RevertStages
  <2>2. RolledBack => RolledBack' /\ work'.count = work.count
    BY <1>6 DEF RestoreCheckpoint, DeleteStaleRefs, RolledBack, TypeOK, Work, WorkIn
  <2>3. Order' = Order /\ ~ OnItsWay
    BY <1>1, <1>5, <2>1 DEF Order
  <2> QED BY <2>1, <2>2, <2>3, NumberedSame
<1>7. CASE RollbackConversation
  <2>1. work.stage = "rollback" /\ UNCHANGED checkpoints
    BY <1>7 DEF RollbackConversation, engine
  <2>2. ~ OnItsWay /\ running = None /\ ~ RolledBack
    BY <1>5, <2>1 DEF RevertStages, RolledBack
  <2>3. /\ Len(Order') = work.count /\ work.count <= Len(Order)
        /\ \A i \in 1..work.count : Order'[i] = Order[i]
    BY <1>7, <2>2, OrderOfRolledBack
  <2>4. work'.stage = "delete" /\ work'.count = work.count /\ work.count \in Nat
    BY <1>7 DEF RollbackConversation, TypeOK, Work, WorkIn
  <2>5. Len(Order) \in Nat
    BY OrderTyped
  <2>6. ASSUME NEW t \in Held(checkpoints)
        PROVE  \/ \E i \in 1..Len(Order') : Order'[i] = t /\ checkpoints[t].count = i
               \/ checkpoints[t].count > work'.count
    <3>1. PICK i \in 1..Len(Order) : Order[i] = t /\ checkpoints[t].count = i
      BY <2>2 DEF Numbered
    <3>2. CASE i \in 1..work.count
      BY <2>3, <3>1, <3>2
    <3>3. CASE i \notin 1..work.count
      BY <2>4, <2>5, <3>1, <3>3
    <3> QED BY <3>2, <3>3
  <2>7. ASSUME NEW i \in 1..Len(Order')
        PROVE  IsCaptured(checkpoints, Order'[i]) /\ checkpoints[Order'[i]].count = i
    <3>1. i \in 1..work.count /\ i \in 1..Len(Order)
      BY <2>3, <2>4, <2>5
    <3> QED BY <2>2, <2>3, <3>1 DEF Numbered
  <2>8. RolledBack'
    BY <2>4 DEF RolledBack
  <2> QED BY <2>1, <2>6, <2>7, <2>8 DEF Numbered, Held, IsCaptured
<1>8. CASE CompleteRevert
  <2>1. work.stage = "reverted" /\ checkpoints' = AfterRevert(checkpoints, work.count)
        /\ UNCHANGED conversation
    BY <1>8 DEF CompleteRevert, DispatchReverted, provider
  <2>2. ~ OnItsWay /\ Order = conversation /\ Order' = Order /\ Len(Order) = work.count
    BY <1>5, <2>1 DEF RevertStages, RevertInv, RolledBack, Order
  <2>3. work.count \in Nat /\ \A t \in Held(checkpoints) : checkpoints[t].count \in Nat
    BY DEF TypeOK, Work, WorkIn, Held, Table, Checkpoint
  <2>4. \A t \in Turns : checkpoints[t] # None /\ checkpoints[t].count <= work.count
                           => checkpoints'[t] = checkpoints[t]
    BY <2>1 DEF AfterRevert
  <2>5. \A t \in Held(checkpoints') :
          t \in Held(checkpoints) /\ checkpoints'[t] = checkpoints[t]
            /\ checkpoints[t].count <= work.count
    BY <2>1 DEF AfterRevert, Held
  <2>6. ASSUME NEW t \in Held(checkpoints')
        PROVE  \E i \in 1..Len(Order) : Order[i] = t /\ checkpoints'[t].count = i
    <3>1. ~ (checkpoints[t].count > work.count) /\ t \in Held(checkpoints)
      BY <2>3, <2>5
    <3> QED BY <2>5, <3>1 DEF Numbered
  <2>7. ASSUME NEW i \in 1..Len(Order)
        PROVE  IsCaptured(checkpoints', Order[i]) /\ checkpoints'[Order[i]].count = i
    <3>1. IsCaptured(checkpoints, Order[i]) /\ checkpoints[Order[i]].count = i
      BY <2>2 DEF Numbered
    <3>2. Order[i] \in Turns /\ i <= work.count
      BY <2>2, <2>3, OrderTyped
    <3>3. checkpoints'[Order[i]] = checkpoints[Order[i]]
      BY <2>4, <3>1, <3>2 DEF IsCaptured
    <3> QED BY <3>1, <3>3 DEF IsCaptured
  <2> QED BY <2>2, <2>6, <2>7 DEF Numbered, Held, IsCaptured
<1> QED BY <1>2, <1>3, <1>4, <1>6, <1>7, <1>8 DEF ReactorActs

LEMMA NumberedKept ==
  ASSUME TypeOK, OpenCapture, Patient, ActiveInv, RevertInv, Numbered, Ordered,
         \/ User /\ Settled
         \/ Provider \/ Ingestion \/ ReactorTakes \/ ReactorActs \/ UNCHANGED vars
  PROVE  Numbered'
<1>1. CASE User /\ Settled
  <2>1. UNCHANGED <<running, conversation, checkpoints, work>>
    BY <1>1, UserKeeps
  <2>2. Order' = Order /\ ~ OnItsWay
    BY <1>1, <2>1, EmptyFeed DEF Order, OnItsWay, Settled, CaptureStages
  <2> QED BY <2>1, <2>2, NumberedSame DEF RolledBack
<1>2. CASE UNCHANGED vars
  <2>1. UNCHANGED <<running, conversation, checkpoints, work, runtimeFeed, domainFeed>>
    BY <1>2 DEF vars, provider, engine, reactor
  <2>2. Order' = Order /\ (OnItsWay => OnItsWay')
    BY <2>1 DEF Order, OnItsWay, InFeed
  <2> QED BY <2>1, <2>2, NumberedSame DEF RolledBack
<1> QED BY <1>1, <1>2, NumberedProvider, NumberedIngestion, NumberedTakes, NumberedActs

-----------------------------------------------------------------------------
(* Turns and reverts that nothing disturbs: files and conversation.        *)

LEMMA RevertActsKept ==
  ASSUME TypeOK, Patient, RevertInv, ReactorActs PROVE RevertInv'
<1>1. /\ work \in Work /\ work.count \in Nat /\ work.back \in Nat
      /\ work.stage \in RevertStages => running = None
  BY DEF TypeOK, Work, WorkIn, Patient, OneAtATime, RevertInFlight, TurnInFlight
<1>2. CASE work'.stage \notin RevertStages
  BY <1>2 DEF RevertInv, RolledBack, RevertStages
<1>3. CASE RestoreCheckpoint
  <2>1. CASE work' = Idle
    BY <1>2, <2>1 DEF Idle, RevertStages
  <2>2. CASE tree' \in RestorableTrees /\ work' = [work EXCEPT !.stage = "rollback"]
    <3>1. /\ work.stage = "restore" /\ work'.stage = "rollback" /\ work'.count = work.count
          /\ work'.back = work.back /\ work'.ref = work.ref
      BY <1>3, <2>2 DEF RestoreCheckpoint, TypeOK, Work, WorkIn
    <3>2. UNCHANGED <<refs, conversation>>
      BY <1>3 DEF RestoreCheckpoint, provider
    <3>3. HasRef(work.count) => tree' = refs[work.count]
      BY <2>2, <3>1 DEF RestorableTrees, RevertInv, RevertStages, HasRef
    <3> QED BY <3>1, <3>2, <3>3 DEF RevertInv, RolledBack, RevertStages, HasRef
  <2> QED BY <1>3, <2>1, <2>2 DEF RestoreCheckpoint
<1>4. CASE RollbackConversation
  <2>1. /\ work.stage = "rollback" /\ work'.stage = "delete" /\ work'.count = work.count
        /\ work'.ref = work.ref
    BY <1>4 DEF RollbackConversation, TypeOK, Work, WorkIn
  <2>2. UNCHANGED <<refs, tree>>
    BY <1>4 DEF RollbackConversation, disk
  <2>3. Len(conversation') = work.count
    BY <1>1, <1>4, <2>1, OrderOfRolledBack DEF RevertStages
  <2> QED BY <2>1, <2>2, <2>3 DEF RevertInv, RolledBack, RevertStages, HasRef
<1>5. CASE DeleteStaleRefs
  <2>1. /\ work.stage = "delete" /\ work'.stage = "reverted" /\ work'.count = work.count
        /\ work'.ref = work.ref
    BY <1>5 DEF DeleteStaleRefs, TypeOK, Work, WorkIn
  <2>2. UNCHANGED <<tree, conversation>> /\ refs' = [n \in DOMAIN refs \ work.stale |-> refs[n]]
    BY <1>5 DEF DeleteStaleRefs, provider
  <2>3. work.count \in DOMAIN refs' => HasRef(work.count) /\ refs'[work.count] = refs[work.count]
    BY <2>2 DEF HasRef
  <2> QED BY <2>1, <2>2, <2>3 DEF RevertInv, RolledBack, RevertStages, HasRef
<1>6. CASE CaptureBaseline \/ CaptureCheckpoint \/ RecordCheckpoint \/ CompleteRevert
  BY <1>2, <1>6 DEF CaptureBaseline, CaptureCheckpoint, RecordCheckpoint, CompleteRevert, Idle,
    RevertStages, TypeOK, Work, WorkIn
<1> QED BY <1>3, <1>4, <1>5, <1>6 DEF ReactorActs

LEMMA RevertKept ==
  ASSUME TypeOK, Patient, RevertInv, Numbered,
         \/ User /\ Settled
         \/ Provider \/ Ingestion \/ ReactorTakes \/ ReactorActs \/ UNCHANGED vars
  PROVE  RevertInv'
<1>1. CASE UNCHANGED <<work, conversation, tree, refs>>
  BY <1>1 DEF RevertInv, RolledBack, HasRef
<1>2. CASE work'.stage \notin RevertStages
  BY <1>2 DEF RevertInv, RolledBack, RevertStages
<1>3. CASE User \/ Ingestion \/ UNCHANGED vars
  BY <1>1, <1>3, UserKeeps DEF Ingestion, IngestRead, IngestTurnLifecycle, IngestTurnDiff, vars,
    disk, provider, reactor
<1>4. CASE Provider
  <2>1. UNCHANGED work
    BY <1>4 DEF Provider, BeginTurn, Edit, UpdateDiff, CompleteTurn, reactor
  <2>2. requests > 0 \/ TurnInFlight
    BY <1>4 DEF Provider, BeginTurn, Edit, UpdateDiff, CompleteTurn, TurnInFlight
  <2>3. work.stage \notin RevertStages
    BY <2>2 DEF Patient, OneAtATime, RevertInFlight
  <2> QED BY <1>2, <2>1, <2>3
<1>5. CASE ReactorTakes
  <2>2. work.stage = "idle" /\ UNCHANGED <<conversation, tree, refs>>
    BY <1>5, TakesKeep DEF disk, provider
  <2>3. CASE StartRevert
    <3> DEFINE n == Head(domainFeed).count
    <3>1. domainFeed # <<>> /\ Head(domainFeed).type = "revert-requested"
      <4>1. TakesDomain("revert-requested")
        BY Zenon, <2>3 DEF StartRevert
      <4> QED BY <4>1 DEF TakesDomain
    <3>2. Head(domainFeed) \in InFeed(domainFeed) /\ n \in Nat
      BY <3>1, FeedTail DEF TypeOK, DomainEvent
    <3>3. ~ TurnInFlight
      BY <3>1, <3>2 DEF Patient, OneAtATime, RevertInFlight
    <3>4. ~ OnItsWay /\ ~ RolledBack /\ Order = conversation
      BY <2>2, <3>3, OnItsWayInFlight DEF TurnInFlight, RolledBack, Order
    <3>5. MaxCount(checkpoints) = Len(conversation) /\ Len(conversation) \in Nat
      BY <3>4, AllNumbered, OrderTyped
    <3>6. CASE work' = work
      BY <1>1, <2>2, <3>6
    <3>7. CASE work' # work
      <4>1. /\ work'.stage = "restore" /\ work'.count = n /\ n <= MaxCount(checkpoints)
            /\ work'.back = MaxCount(checkpoints) - n /\ work'.ref \in TargetRefs(n)
        BY <2>3, <3>7, RevertWork
      <4>2. work'.count + work'.back = Len(conversation)
        BY <3>2, <3>5, <4>1
      <4>3. n = 0 => work'.ref = "git"
        BY <4>1 DEF TargetRefs
      <4> QED BY <2>2, <4>1, <4>2, <4>3 DEF RevertInv, RolledBack, RevertStages
    <3> QED BY <3>6, <3>7
  <2>4. CASE BaselineOnRequest \/ BaselineOnStart
    BY <1>2, <2>4 DEF BaselineOnRequest, BaselineOnStart, Baseline, Idle, RevertStages
  <2>5. CASE CaptureOnCompletion \/ CaptureOnPlaceholder
    BY <1>2, <2>2, <2>5 DEF CaptureOnCompletion, CaptureOnPlaceholder, Capture, Idle, RevertStages
  <2> QED BY <1>5, <2>3, <2>4, <2>5 DEF ReactorTakes
<1> QED BY <1>3, <1>4, <1>5, RevertActsKept

LEMMA NothingCaptured == ~ TurnInFlight => CapturesEnd
<1> SUFFICES ASSUME ~ TurnInFlight PROVE CapturesEnd
  OBVIOUS
<1>1. /\ InFeed(runtimeFeed) = {} /\ InFeed(ingestFeed) = {} /\ reading = None /\ running = None
      /\ work.stage \notin CaptureStages
      /\ \A e \in InFeed(domainFeed) : e.type # "turn-diff-completed"
  BY EmptyFeed DEF TurnInFlight
<1> QED BY <1>1 DEF CapturesEnd, InHand, CaptureStages

LEMMA NothingCapturedNext == ~ TurnInFlight' => CapturesEnd'
<1> SUFFICES ASSUME ~ TurnInFlight' PROVE CapturesEnd'
  OBVIOUS
<1>1. /\ InFeed(runtimeFeed') = {} /\ InFeed(ingestFeed') = {} /\ reading' = None /\ running' = None
      /\ work'.stage \notin CaptureStages
      /\ \A e \in InFeed(domainFeed') : e.type # "turn-diff-completed"
  BY EmptyFeed DEF TurnInFlight, InFeed
<1> QED BY <1>1 DEF CapturesEnd, InHand, CaptureStages, InFeed

\* What comes in stays about the same files, when these and the turn do not change.
LEMMA CapturesSame ==
  ASSUME CapturesEnd, UNCHANGED <<running, treeAfter, tree, diffs, started>>,
         \A e \in InFeed(runtimeFeed') : e \in InFeed(runtimeFeed) \/ e.type # "turn.completed",
         \A e \in InFeed(ingestFeed') : e \in InFeed(ingestFeed) \/ e.type # "turn.diff.updated",
         \A e \in InFeed(domainFeed') :
           e \in InFeed(domainFeed) \/ e.status # "missing" \/ Reported \/ Ended,
         InHand("turn.diff.updated")' => Reported,
         work'.stage \in CaptureStages => Reported \/ Ended,
         work'.stage = "record" => Reported \/ refs'[work'.count] = treeAfter[started],
         running # None => Reported \/ ~ IsCaptured(checkpoints', started)
  PROVE  CapturesEnd'
<1>1. (Reported' <=> Reported) /\ (Ended' <=> Ended)
  BY DEF Reported, Ended
<1>2. /\ \A e \in InFeed(runtimeFeed') : e.type = "turn.completed" => Ended'
      /\ \A e \in InFeed(ingestFeed') : e.type = "turn.diff.updated" => Reported'
      /\ \A e \in InFeed(domainFeed') :
           e.type = "turn-diff-completed" /\ e.status = "missing" => Reported' \/ Ended'
  BY <1>1 DEF CapturesEnd
<1>3. /\ work'.stage = "record" => Reported' \/ refs'[work'.count] = treeAfter'[started']
      /\ running' # None => Reported' \/ ~ IsCaptured(checkpoints', started')
  BY <1>1
<1> QED BY <1>1, <1>2, <1>3 DEF CapturesEnd, InFeed, IsCaptured

LEMMA CapturesProvider ==
  ASSUME TypeOK, Patient, CapturesEnd, Provider PROVE CapturesEnd'
<1>1. UNCHANGED <<checkpoints, work, domainFeed, reading, refs>>
  BY DEF Provider, BeginTurn, Edit, UpdateDiff, CompleteTurn, engine, reactor, ingestion, disk
<1>2. CASE BeginTurn
  <2>1. ~ TurnInFlight
    BY <1>2 DEF BeginTurn, Patient, OneAtATime, TypeOK
  <2>2. /\ reading = None /\ ingestFeed = <<>> /\ runtimeFeed = <<>>
        /\ work.stage \notin CaptureStages
        /\ \A e \in InFeed(domainFeed) : e.type # "turn-diff-completed"
    BY <2>1 DEF TurnInFlight
  <2> DEFINE b == TurnStarted(started + 1)
  <2>3. ingestFeed' = <<b>> /\ runtimeFeed' = <<b>> /\ b.type = "turn.started"
    BY <1>2, <2>2 DEF BeginTurn, TurnStarted
  <2> HIDE DEF b
  <2>4. InFeed(ingestFeed') = {b} /\ InFeed(runtimeFeed') = {b}
    BY <2>3 DEF InFeed
  <2>5. ~ IsCaptured(checkpoints, started')
    <3>1. started' = started + 1 /\ started \in Nat /\ started' \in Turns
      BY <1>2, OrderOfBegun, BoundsAreNaturals DEF TypeOK
    <3>2. started' \notin Held(checkpoints)
      BY <3>1 DEF Patient, TablesInv
    <3> QED BY <3>1, <3>2 DEF Held, IsCaptured
  <2> QED BY <1>1, <2>2, <2>3, <2>4, <2>5
          DEF CapturesEnd, InFeed, InHand, CaptureStages, IsCaptured
<1>3. ASSUME Edit \/ UpdateDiff \/ \E s \in States : CompleteTurn(s)
      PROVE  running \in Turns /\ running = started /\ running # None /\ ~ Ended
  BY <1>3 DEF Edit, UpdateDiff, CompleteTurn, TypeOK, Patient, OfThisTurn, Ended
<1>4. CASE Edit
  <2>1. UNCHANGED <<running, started, treeAfter, diffs, runtimeFeed, ingestFeed>>
    BY <1>4 DEF Edit, provider, ghosts, ingestion, reactor
  <2>2. (Reported' <=> Reported) /\ ~ Ended /\ ~ Ended'
    BY <1>3, <1>4, <2>1 DEF Reported, Ended
  <2> QED BY <1>1, <2>1, <2>2 DEF CapturesEnd, InFeed, InHand, IsCaptured
<1>5. CASE UpdateDiff
  <2>1. UNCHANGED <<running, started, tree, treeAfter, runtimeFeed>>
    BY <1>5 DEF UpdateDiff, provider, disk, reactor, ghosts
  <2>2. Reported'
    <3>1. diffs' = [diffs EXCEPT ![running] = diffs[running] + 1]
      BY <1>5 DEF UpdateDiff
    <3>2. diffs \in [Turns -> 0..MaxDiffs]
      BY DEF TypeOK
    <3>3. diffs'[started] = diffs[started] + 1 /\ diffs[started] \in 0..MaxDiffs
      BY <1>3, <1>5, <3>1, <3>2
    <3> QED BY <2>1, <3>3, BoundsAreNaturals DEF Reported
  <2>3. Ended' <=> Ended
    BY <2>1 DEF Ended
  <2> QED BY <1>1, <2>1, <2>2, <2>3 DEF CapturesEnd, InFeed
<1>6. ASSUME NEW s \in States, CompleteTurn(s) PROVE CapturesEnd'
  <2> DEFINE d == TurnCompleted(running, s)
  <2>1. UNCHANGED <<started, tree, diffs>> /\ running' = None
    BY <1>6 DEF CompleteTurn, disk, bounds
  <2>2. d \in RuntimeEvent /\ d.type = "turn.completed"
    BY <1>3, <1>6 DEF TurnCompleted, RuntimeEvent
  <2>3. InFeed(ingestFeed') = InFeed(ingestFeed) \cup {d}
    BY <1>6, <2>2, FeedAppend DEF CompleteTurn, TypeOK
  <2>4. Reported' <=> Reported
    BY <2>1 DEF Reported
  <2>5. Ended'
    <3>1. treeAfter' = [treeAfter EXCEPT ![running] = tree]
          /\ treeAfter \in [Turns -> Nat \cup {None}]
      BY <1>6 DEF CompleteTurn, TypeOK
    <3>2. treeAfter'[started] = tree
      BY <1>3, <1>6, <3>1
    <3> QED BY <2>1, <3>2 DEF Ended
  <2>6. ~ Ended
    BY <1>3, <1>6
  <2>7. work.stage \in CaptureStages => Reported
    BY <2>6 DEF CapturesEnd
  <2>8. \A e \in InFeed(ingestFeed') : e.type = "turn.diff.updated" => Reported'
    BY <2>2, <2>3, <2>4 DEF CapturesEnd
  <2>9. InHand("turn.diff.updated")' => Reported'
    BY <1>1, <2>4 DEF CapturesEnd, InHand
  <2> HIDE DEF d
  <2> QED BY <1>1, <2>1, <2>4, <2>5, <2>7, <2>8, <2>9 DEF CapturesEnd, InFeed, CaptureStages
<1> QED BY <1>2, <1>4, <1>5, <1>6 DEF Provider

LEMMA CapturesIngestion ==
  ASSUME TypeOK, Patient, CapturesEnd, Ingestion PROVE CapturesEnd'
<1>1. UNCHANGED <<running, treeAfter, tree, diffs, started, runtimeFeed, work, refs>>
  BY DEF Ingestion, IngestRead, IngestTurnLifecycle, IngestTurnDiff, provider, disk, reactor,
    ghosts, bounds
<1>2. CASE IngestRead
  <2> DEFINE e == Head(ingestFeed)
             r == [event |-> e, count |-> MaxCount(checkpoints) + 1]
  <2>1. /\ ingestFeed # <<>> /\ ingestFeed' = Tail(ingestFeed)
        /\ reading' \in {None, r} /\ UNCHANGED <<checkpoints, domainFeed>>
    BY <1>2 DEF IngestRead, engine, reactor
  <2>2. InFeed(ingestFeed) = InFeed(ingestFeed') \cup {e}
    BY <2>1, FeedTail DEF TypeOK
  <2>3. InHand("turn.diff.updated")' => Reported
    BY <2>1, <2>2 DEF CapturesEnd, InHand
  <2> HIDE DEF r
  <2> QED BY <1>1, <2>1, <2>2, <2>3, CapturesSame DEF CapturesEnd
<1>3. CASE IngestTurnLifecycle
  <2>1. reading' = None /\ UNCHANGED <<ingestFeed, checkpoints, domainFeed>>
    BY <1>3 DEF IngestTurnLifecycle, reactor
  <2> QED BY <1>1, <2>1, CapturesSame DEF CapturesEnd, InHand
<1>4. CASE IngestTurnDiff
  <2> DEFINE c == [count |-> reading.count, status |-> "missing", ref |-> "provider-diff"]
  <2>1. /\ InHand("turn.diff.updated") /\ DispatchTurnDiff(reading.event.turn, c)
        /\ reading' = None /\ UNCHANGED ingestFeed
    BY <1>4 DEF IngestTurnDiff
  <2>2. Reported
    BY <2>1 DEF CapturesEnd
  <2> QED BY <1>1, <2>1, <2>2, CapturesSame DEF InHand, CapturesEnd
<1> QED BY <1>2, <1>3, <1>4 DEF Ingestion

LEMMA CapturesTakes ==
  ASSUME TypeOK, Patient, CapturesEnd, ReactorTakes, ~ StartRevert PROVE CapturesEnd'
<1>1. /\ work.stage = "idle"
      /\ UNCHANGED <<running, treeAfter, tree, diffs, started, refs, ingestFeed, reading,
                     checkpoints>>
      /\ \/ domainFeed # <<>> /\ domainFeed' = Tail(domainFeed) /\ UNCHANGED runtimeFeed
         \/ runtimeFeed # <<>> /\ runtimeFeed' = Tail(runtimeFeed) /\ UNCHANGED domainFeed
  BY TakesKeep DEF provider, engine, ingestion, disk, ghosts, bounds
<1>2. /\ \A e \in InFeed(domainFeed') : e \in InFeed(domainFeed)
      /\ \A e \in InFeed(runtimeFeed') : e \in InFeed(runtimeFeed)
  BY <1>1, FeedTail DEF TypeOK
<1>3. ASSUME work'.stage \in CaptureStages => Reported \/ Ended, work'.stage # "record"
      PROVE  CapturesEnd'
  BY <1>1, <1>2, <1>3, CapturesSame DEF CapturesEnd, InHand
<1>4. CASE BaselineOnRequest \/ BaselineOnStart
  BY <1>3, <1>4 DEF BaselineOnRequest, BaselineOnStart, Baseline, Idle, CaptureStages
<1>5. CASE work' = work
  BY <1>1, <1>3, <1>5 DEF CaptureStages
<1>6. CASE CaptureOnCompletion
  <2>1. runtimeFeed # <<>> /\ Head(runtimeFeed).type = "turn.completed"
    BY <1>6 DEF CaptureOnCompletion, TakesRuntime
  <2>2. Head(runtimeFeed) \in InFeed(runtimeFeed)
    BY <2>1, FeedTail DEF TypeOK
  <2>3. Ended
    BY <2>1, <2>2 DEF CapturesEnd
  <2>4. work' = work \/ work'.stage = "capture"
    BY <1>6 DEF CaptureOnCompletion, Capture, Idle
  <2> QED BY <1>3, <1>5, <2>3, <2>4
<1>7. CASE CaptureOnPlaceholder
  <2> DEFINE e == Head(domainFeed)
  <2>1. /\ domainFeed # <<>> /\ e.type = "turn-diff-completed"
        /\ work' = work \/ (e.status = "missing" /\ work'.stage = "capture")
    BY <1>7 DEF CaptureOnPlaceholder, TakesDomain, Capture, Idle
  <2>2. e \in InFeed(domainFeed)
    BY <2>1, FeedTail DEF TypeOK
  <2> QED BY <1>3, <1>5, <2>1, <2>2 DEF CapturesEnd
<1> QED BY <1>4, <1>6, <1>7 DEF ReactorTakes

LEMMA CapturesActs ==
  ASSUME TypeOK, OpenCapture, Patient, CapturesEnd,
         CaptureBaseline \/ CaptureCheckpoint \/ RecordCheckpoint
  PROVE  CapturesEnd'
<1>1. UNCHANGED <<running, treeAfter, tree, diffs, started, ingestFeed, reading, runtimeFeed>>
  BY ActsKeep DEF ReactorActs, CaptureBaseline, CaptureCheckpoint, RecordCheckpoint, disk
<1>2. InHand("turn.diff.updated")' => Reported
  BY <1>1 DEF CapturesEnd, InHand
<1>3. CASE CaptureBaseline
  <2>1. work' = Idle /\ UNCHANGED <<domainFeed, checkpoints>>
    BY <1>3 DEF CaptureBaseline, engine
  <2> QED BY <1>1, <1>2, <2>1, CapturesSame DEF CapturesEnd, Idle, CaptureStages
<1>4. CASE CaptureCheckpoint
  <2>1. /\ work.stage = "capture" /\ work'.stage = "record" /\ work'.count = work.count
        /\ UNCHANGED <<domainFeed, checkpoints>> /\ refs'[work.count] = tree
    BY <1>4 DEF CaptureCheckpoint, WriteRef, engine, TypeOK, Work, WorkIn
  <2>2. Reported \/ Ended
    BY <2>1 DEF CapturesEnd, CaptureStages
  <2>3. Reported \/ refs'[work'.count] = treeAfter[started]
    BY <2>1, <2>2 DEF Ended
  <2> QED BY <1>1, <1>2, <2>1, <2>2, <2>3, CapturesSame DEF CapturesEnd
<1>5. CASE RecordCheckpoint
  <2> DEFINE c == [count |-> work.count, status |-> work.status, ref |-> "git"]
             d == TurnDiffCompleted(work.turn, c.count, c.status)
  <2>1. /\ work.stage = "record" /\ work' = Idle
        /\ domainFeed' = Append(domainFeed, d)
    BY <1>5 DEF RecordCheckpoint, DispatchTurnDiff
  <2>2. work.turn \in Turns /\ work.count \in Nat /\ work.status \in Statuses
    BY <2>1 DEF TypeOK, Work, WorkIn, RevertStages
  <2>3. d \in DomainEvent
    BY <2>2 DEF TurnDiffCompleted, DomainEvent
  <2>4. InFeed(domainFeed') = InFeed(domainFeed) \cup {d}
    BY <2>1, <2>3, FeedAppend DEF TypeOK
  <2>5. Reported \/ Ended
    BY <2>1 DEF CapturesEnd, CaptureStages
  <2>6. running # None => Reported
    BY <2>5 DEF Ended
  <2> HIDE DEF d
  <2> QED BY <1>1, <1>2, <2>1, <2>4, <2>5, <2>6, CapturesSame DEF Idle, CaptureStages
<1> QED BY <1>3, <1>4, <1>5

LEMMA CapturesKept ==
  ASSUME TypeOK, OpenCapture, Patient, CapturesEnd,
         \/ User /\ Settled
         \/ Provider \/ Ingestion \/ ReactorTakes \/ ReactorActs \/ UNCHANGED vars
  PROVE  CapturesEnd'
<1>1. CASE User /\ Settled
  <2>1. ~ TurnInFlight /\ ~ BeginTurn
    BY <1>1, EmptyFeed DEF Settled, TurnInFlight, BeginTurn, CaptureStages
  <2> QED BY <1>1, <2>1, FlightStarts, NothingCapturedNext
<1>2. CASE UNCHANGED vars
  BY <1>2, CapturesSame DEF vars, disk, provider, engine, ingestion, reactor, ghosts, bounds,
    CapturesEnd, InHand
<1>3. CASE \/ StartRevert \/ RestoreCheckpoint \/ RollbackConversation \/ DeleteStaleRefs
           \/ CompleteRevert
  <2>1. RevertInFlight
    <3>1. CASE StartRevert
      <4>1. TakesDomain("revert-requested")
        BY Zenon, <3>1 DEF StartRevert
      <4>2. domainFeed # <<>> /\ Head(domainFeed).type = "revert-requested"
        BY <4>1 DEF TakesDomain
      <4>3. Head(domainFeed) \in InFeed(domainFeed)
        BY <4>2, FeedTail DEF TypeOK
      <4> QED BY <4>2, <4>3 DEF RevertInFlight
    <3>2. CASE work.stage \in RevertStages
      BY <3>2 DEF RevertInFlight
    <3> QED BY <1>3, <3>1, <3>2 DEF RestoreCheckpoint, RollbackConversation, DeleteStaleRefs,
                                    CompleteRevert, RevertStages
  <2>2. ~ TurnInFlight /\ ~ BeginTurn
    BY <2>1 DEF Patient, OneAtATime, BeginTurn, TypeOK
  <2> QED BY <1>3, <2>2, FlightStarts, NothingCapturedNext DEF ReactorTakes, ReactorActs
<1> QED BY <1>1, <1>2, <1>3, CapturesProvider, CapturesIngestion, CapturesTakes, CapturesActs
        DEF ReactorActs

LEMMA EndsKept ==
  ASSUME TypeOK, OpenCapture, Patient, RefInv, Undisturbed, CapturesEnd, EndsHeld, [Next]_vars,
         User \/ Provider \/ Ingestion \/ ReactorTakes \/ ReactorActs \/ UNCHANGED vars
  PROVE  EndsHeld'
<1> SUFFICES ASSUME NEW t \in Turns, IsCaptured(checkpoints', t), diffs'[t] = 0,
                    checkpoints'[t].count \in DOMAIN refs'
             PROVE  refs'[checkpoints'[t].count] = treeAfter'[t]
  BY DEF EndsHeld, IsCaptured, HasRef
<1>1. ASSUME checkpoints'[t] = checkpoints[t], treeAfter'[t] = treeAfter[t], diffs[t] = 0,
             HasRef(checkpoints[t].count)
      PROVE  refs'[checkpoints'[t].count] = treeAfter'[t]
  <2>1. IsCaptured(checkpoints, t) /\ t \in Held(checkpoints)
    BY <1>1 DEF IsCaptured, Held
  <2>2. refs'[checkpoints[t].count] = refs[checkpoints[t].count]
    BY <1>1, <2>1, RefsKept
  <2> QED BY <1>1, <2>1, <2>2 DEF EndsHeld
<1>2. CASE UNCHANGED <<checkpoints, treeAfter, diffs, refs>>
  BY <1>1, <1>2 DEF HasRef
<1>3. CASE User \/ ReactorTakes \/ UNCHANGED vars
  BY <1>2, <1>3, UserKeeps, TakesKeep DEF disk, engine, ghosts, bounds, vars
<1>4. CASE IngestRead \/ IngestTurnLifecycle
  BY <1>2, <1>4 DEF IngestRead, IngestTurnLifecycle, disk, engine, ghosts, bounds
<1>5. CASE BeginTurn \/ Edit
  BY <1>2, <1>5 DEF BeginTurn, Edit, engine, ghosts, bounds, disk
<1>6. CASE UpdateDiff
  <2>1. UNCHANGED <<checkpoints, treeAfter, refs>> /\ running \in Turns
    BY <1>6 DEF UpdateDiff, engine, ghosts, disk, TypeOK
  <2>2. diffs \in [Turns -> 0..MaxDiffs] /\ diffs' = [diffs EXCEPT ![running] = diffs[running] + 1]
    BY <1>6 DEF UpdateDiff, TypeOK
  <2>3. diffs[t] = 0
    <3>1. diffs[t] \in Nat /\ (t = running => diffs'[t] = diffs[t] + 1)
            /\ (t # running => diffs'[t] = diffs[t])
      BY <2>1, <2>2, BoundsAreNaturals
    <3> QED BY <3>1
  <2> QED BY <1>1, <2>1, <2>3 DEF HasRef
<1>7. ASSUME NEW s \in States, CompleteTurn(s)
      PROVE  refs'[checkpoints'[t].count] = treeAfter'[t]
  <2>1. /\ UNCHANGED <<checkpoints, diffs, refs>> /\ running \in Turns /\ running = started
        /\ running # None
    BY <1>7 DEF CompleteTurn, engine, bounds, disk, TypeOK, Patient, OfThisTurn
  <2>2. t # running
    <3> SUFFICES ASSUME t = running PROVE FALSE
      OBVIOUS
    <3>1. Reported
      BY <2>1 DEF CapturesEnd, IsCaptured
    <3> QED BY <2>1, <3>1 DEF Reported
  <2>3. treeAfter'[t] = treeAfter[t]
    BY <1>7, <2>2 DEF CompleteTurn, TypeOK
  <2> QED BY <1>1, <2>1, <2>3 DEF HasRef
<1>8. CASE IngestTurnDiff
  <2> DEFINE c == [count |-> reading.count, status |-> "missing", ref |-> "provider-diff"]
             u == reading.event.turn
  <2>1. /\ checkpoints' = MemoryAfterDiff(checkpoints, u, c) /\ c.status = "missing"
        /\ UNCHANGED <<treeAfter, diffs, refs>>
    BY <1>8 DEF IngestTurnDiff, DispatchTurnDiff, ghosts, bounds, disk
  <2> HIDE DEF c, u
  <2>2. checkpoints'[t] = checkpoints[t]
    BY <2>1 DEF MemoryAfterDiff, IsCaptured, TypeOK, Table
  <2> QED BY <1>1, <2>1, <2>2 DEF HasRef
<1>9. CASE RecordCheckpoint
  <2> DEFINE c == [count |-> work.count, status |-> work.status, ref |-> "git"]
  <2>1. /\ work.stage = "record" /\ checkpoints' = MemoryAfterDiff(checkpoints, work.turn, c)
        /\ UNCHANGED <<treeAfter, diffs, refs>> /\ c.count = work.count
    BY <1>9 DEF RecordCheckpoint, DispatchTurnDiff, ghosts, bounds, disk
  <2>2. work.turn = started
    BY <2>1 DEF Patient, OfThisTurn, CaptureStages
  <2> HIDE DEF c
  <2>3. CASE checkpoints'[t] = checkpoints[t]
    BY <1>1, <2>1, <2>3 DEF HasRef
  <2>4. CASE t = started /\ checkpoints'[t] = c
    <3>1. ~ Reported
      BY <2>1, <2>4 DEF Reported
    <3> QED BY <2>1, <2>4, <3>1 DEF CapturesEnd
  <2>5. checkpoints'[t] = checkpoints[t] \/ (t = started /\ checkpoints'[t] = c)
    BY <2>1, <2>2 DEF MemoryAfterDiff, TypeOK, Table
  <2> QED BY <2>3, <2>4, <2>5
<1>10. CASE CaptureBaseline \/ CaptureCheckpoint
  <2>1. UNCHANGED <<checkpoints, treeAfter, diffs>> /\ work.stage # "reverted"
    BY <1>10 DEF CaptureBaseline, CaptureCheckpoint, engine, ghosts, bounds
  <2>2. HasRef(checkpoints[t].count)
    BY <2>1 DEF RefInv, CapturedRefsInv, Undisturbed, IsCaptured
  <2> QED BY <1>1, <2>1, <2>2
<1>11. CASE RestoreCheckpoint \/ RollbackConversation
  BY <1>2, <1>11 DEF RestoreCheckpoint, RollbackConversation, engine, ghosts, bounds, disk
<1>12. CASE DeleteStaleRefs
  <2>1. UNCHANGED <<checkpoints, treeAfter, diffs>> /\ DOMAIN refs' \subseteq DOMAIN refs
    BY <1>12 DEF DeleteStaleRefs, engine, ghosts, bounds
  <2> QED BY <1>1, <2>1 DEF HasRef
<1>13. CASE CompleteRevert
  <2>1. UNCHANGED <<treeAfter, diffs, refs>> /\ checkpoints'[t] = checkpoints[t]
    BY <1>13 DEF CompleteRevert, DispatchReverted, AfterRevert, IsCaptured, ghosts, bounds, disk
  <2> QED BY <1>1, <2>1 DEF HasRef
<1> QED BY <1>3, <1>4, <1>5, <1>6, <1>7, <1>8, <1>9, <1>10, <1>11, <1>12, <1>13
        DEF Provider, Ingestion, ReactorActs

-----------------------------------------------------------------------------
(* Turns and reverts that nothing disturbs: the theorems.                  *)

LEMMA CleanInit == Init => CleanInv
<1> SUFFICES ASSUME Init PROVE Clean
  BY DEF CleanInv
<1>1. /\ running = None /\ ingestFeed = <<>> /\ reading = None /\ runtimeFeed = <<>>
      /\ domainFeed = <<>> /\ work.stage = "idle" /\ conversation = <<>> /\ activeTurn = None
      /\ Held(checkpoints) = {} /\ \A t \in Turns : ~ IsCaptured(checkpoints, t)
  BY DEF Init, Idle, Held, IsCaptured
<1>2. ~ TurnInFlight /\ Len(Order) = 0
  BY <1>1, EmptyFeed DEF TurnInFlight, CaptureStages, Order
<1>3. ActiveInv
  BY <1>1 DEF ActiveInv, InHand
<1>4. Numbered /\ Ordered
  BY <1>1, <1>2 DEF Numbered, Ordered
<1>5. RevertInv
  BY <1>1 DEF RevertInv, RolledBack, RevertStages
<1>6. CapturesEnd /\ EndsHeld
  BY <1>1, <1>2, NothingCaptured DEF EndsHeld
<1> QED BY <1>3, <1>4, <1>5, <1>6 DEF Clean

LEMMA CleanKept ==
  ASSUME TypeOK, RefInv, WaitInv, CleanInv, [Next]_vars PROVE CleanInv'
<1> SUFFICES ASSUME Undisturbed' PROVE Clean'
  BY DEF CleanInv
<1>1. /\ Undisturbed
      /\ \/ User /\ Settled
         \/ Provider \/ Ingestion \/ ReactorTakes \/ ReactorActs \/ UNCHANGED vars
  BY UndisturbedStep
<1>2. Patient /\ OpenCapture /\ Clean
  BY <1>1 DEF WaitInv, PatientInv, Patient, CleanInv, Undisturbed
<1>3. ActiveInv' /\ Numbered' /\ Ordered'
  BY <1>1, <1>2, ActiveKept, NumberedKept, OrderedKept DEF Clean
<1>4. RevertInv' /\ CapturesEnd' /\ EndsHeld'
  BY <1>1, <1>2, RevertKept, CapturesKept, EndsKept DEF Clean
<1> QED BY <1>3, <1>4 DEF Clean

LEMMA CleanInductive == Spec => [](TypeOK /\ RefInv /\ WaitInv /\ CleanInv)
<1> QED BY CleanInit, CleanKept, WaitInductive, PTL DEF Spec

\* At rest there is a checkpoint for each turn that the provider remembers, captured and
\* numbered like it, for a user who waits and when nothing fails.
LEMMA AtRest ==
  ASSUME TypeOK, Clean, Settled
  PROVE  /\ Held(checkpoints) = {conversation[i] : i \in 1..Len(conversation)}
         /\ \A i \in 1..Len(conversation) :
              /\ IsCaptured(checkpoints, conversation[i])
              /\ checkpoints[conversation[i]].count = i
<1>1. Order = conversation /\ ~ OnItsWay /\ ~ RolledBack
  BY EmptyFeed DEF Settled, Order, OnItsWay, RolledBack, CaptureStages
<1>2. \A i \in 1..Len(conversation) :
        IsCaptured(checkpoints, conversation[i]) /\ checkpoints[conversation[i]].count = i
  BY <1>1 DEF Clean, Numbered
<1>3. \A t \in Held(checkpoints) : \E i \in 1..Len(conversation) : conversation[i] = t
  BY <1>1 DEF Clean, Numbered
<1>4. \A i \in 1..Len(conversation) : conversation[i] \in Turns
  BY <1>1, OrderTyped
<1> QED BY <1>2, <1>3, <1>4 DEF Held, IsCaptured

\* Every turn that ended is captured in the end, and a checkpoint's number is the place
\* of its turn in the conversation: what a revert rolls back is what it drops.
THEOREM CountsFollow == Spec => []CountsFollowConversation
<1>1. TypeOK /\ CleanInv => CountsFollowConversation
  BY AtRest DEF CleanInv, CountsFollowConversation
<1> QED BY <1>1, CleanInductive, PTL

\* The checkpoint of a turn without a diff on the way holds the files the turn left.
THEOREM TurnsEnd == Spec => []TurnEndsInItsCheckpoint
<1>1. ASSUME TypeOK, RefInv, CleanInv, Settled, Undisturbed, NEW t \in Held(checkpoints),
             diffs[t] = 0
      PROVE  refs[checkpoints[t].count] = treeAfter[t]
  <2>1. Clean /\ work.stage = "idle" /\ crashes = 0 /\ t \in Turns
    BY <1>1 DEF CleanInv, Settled, Undisturbed, Held
  <2>2. PICK i \in 1..Len(conversation) : conversation[i] = t
    BY <1>1, <2>1, AtRest
  <2>3. IsCaptured(checkpoints, t)
    BY <1>1, <2>1, <2>2, AtRest
  <2>4. HasRef(checkpoints[t].count)
    BY <1>1, <2>1, <2>3 DEF RefInv, CapturedRefsInv
  <2> QED BY <1>1, <2>1, <2>3, <2>4 DEF Clean, EndsHeld
<1>2. TypeOK /\ RefInv /\ CleanInv => TurnEndsInItsCheckpoint
  BY <1>1 DEF TurnEndsInItsCheckpoint
<1> QED BY <1>2, CleanInductive, PTL

\* A revert that is recorded has restored the files of its checkpoint, and has left the
\* provider as many turns as its number says.
THEOREM RevertsLand == Spec => RevertLandsTogether
<1>1. ASSUME TypeOK, WaitInv, CleanInv, Next, Undisturbed, work.stage = "reverted"
      PROVE  /\ HasRef(work.count) => tree' = refs'[work.count]
             /\ Len(conversation') = work.count
  <2>1. RevertInv /\ Patient
    BY <1>1 DEF CleanInv, Clean, WaitInv, PatientInv, Patient, Undisturbed
  <2>2. RevertInFlight /\ ~ TurnInFlight /\ requests = 0
    BY <1>1, <2>1 DEF RevertInFlight, RevertStages, Patient, OneAtATime, TypeOK
  <2>3. UNCHANGED <<tree, refs, conversation>>
    <3>1. CASE User
      BY <3>1, UserKeeps
    <3>2. CASE Provider \/ Ingestion
      BY <2>2, <3>2 DEF Provider, Ingestion, BeginTurn, Edit, UpdateDiff, CompleteTurn, IngestRead,
        IngestTurnLifecycle, IngestTurnDiff, InHand, TurnInFlight
    <3>3. CASE ReactorTakes
      BY <1>1, <3>3, TakesKeep
    <3>4. CASE ReactorActs \/ StepFails
      BY <1>1, <3>4 DEF ReactorActs, CaptureBaseline, CaptureCheckpoint, RecordCheckpoint,
        RestoreCheckpoint, RollbackConversation, DeleteStaleRefs, CompleteRevert, StepFails, disk,
        provider
    <3>5. CASE Crash
      BY <3>5 DEF Crash, disk
    <3> QED BY <1>1, <3>1, <3>2, <3>3, <3>4, <3>5 DEF Next
  <2>4. Len(conversation) = work.count /\ (HasRef(work.count) => tree = refs[work.count])
    BY <1>1, <2>1 DEF RevertInv, RolledBack, RevertStages
  <2> QED BY <2>3, <2>4
<1>2. ASSUME TypeOK, WaitInv, CleanInv, [Next]_vars
      PROVE  [work.stage = "reverted" /\ checkpoints' # checkpoints /\ Undisturbed =>
                /\ HasRef(work.count) => tree' = refs'[work.count]
                /\ Len(conversation') = work.count]_vars
  <2>1. CASE Next
    BY <1>1, <1>2, <2>1, Zenon
  <2>2. CASE UNCHANGED vars
    BY <2>2
  <2> QED BY <1>2, <2>1, <2>2
<1> QED BY <1>2, CleanInductive, PTL DEF Spec, RevertLandsTogether

=============================================================================
