-------------------------- MODULE DbConsumerProofs --------------------------
(* Theorems of DbConsumer for every log, batch size, poll size and number  *)
(* of lives.                                                               *)
EXTENDS DbConsumer, TLAPS

(* The length of a topic's log is a number.                                *)
LEMMA LogLength == \A t \in Topics : Len(Log[t]) \in Nat
  BY LogAssumption

(* How the sets of names nest.                                             *)
LEMMA Names ==
  /\ Tables \subseteq Topics
  /\ "metrics" \in Tables /\ "windowed" \in Tables /\ "alerts" \in Topics
  /\ "main" \in Groups /\ "windowed" \in Groups
  /\ Groups \subseteq Tasks /\ "stop" \in Tasks
  /\ \A g \in Groups : TopicsOf(g) \subseteq Topics
  /\ \A t \in Topics : GroupOf(t) \in Groups
  BY DEF Tables, Topics, Groups, Tasks, TopicsOf, GroupOf

(* Polls move positions forward, within what was produced.                 *)
LEMMA PollMoves ==
  ASSUME TypeOK, NEW g \in Groups, NEW n \in Fetches(g)
  PROVE  /\ PositionAfter(g, n) \in [Topics -> Nat]
         /\ \A t \in Topics : /\ position[t] <= PositionAfter(g, n)[t]
                              /\ PositionAfter(g, n)[t] <= logEnd[t]
<1>1. \A t \in TopicsOf(g) : n[t] \in Nat /\ position[t] + n[t] <= logEnd[t]
  BY SizeAssumption DEF Fetches
<1>2. \A t \in Topics : position[t] \in Nat /\ position[t] <= logEnd[t]
  BY DEF TypeOK, CursorTypes, CursorsOrdered
<1>. QED
  BY <1>1, <1>2 DEF PositionAfter

(* A commit moves the offsets of the group's topics to its positions.      *)
LEMMA CommitMoves ==
  ASSUME TypeOK, NEW g \in Groups, CommitPosition(g)
  PROVE  /\ committed' \in [Topics -> Nat \cup {NoOffset}]
         /\ \A t \in Topics : committed'[t] = IF t \in TopicsOf(g) THEN position[t]
                                                                  ELSE committed[t]
         /\ \A t \in Topics : committed'[t] <= logEnd[t]
<1>1. \A t \in Topics : /\ position[t] \in Nat /\ position[t] <= logEnd[t]
                        /\ committed[t] \in Nat \cup {NoOffset}
                        /\ committed[t] <= logEnd[t]
  BY DEF TypeOK, OuterTypes, CursorTypes, CursorsOrdered
<1>. QED
  BY <1>1 DEF CommitPosition

(* What a failed insert wrote is part of what it was given.                *)
LEMMA WrittenSubset ==
  ASSUME NEW t, NEW S, NEW W \in Written(t, S)
  PROVE  W \subseteq S
  BY DEF Written

(* An insert leaves the other table alone, and keeps what the table held.  *)
LEMMA UpsertMoves ==
  ASSUME TypeOK, NEW t \in Tables, NEW S \in SUBSET Nat, NEW U \in Upserts(t, stored[t], S),
         stored' = [stored EXCEPT ![t] = U]
  PROVE  /\ stored' \in [Tables -> SUBSET Nat]
         /\ \A u \in Tables : u # t => stored'[u] = stored[u]
         /\ stored[t] \subseteq stored'[t]
         /\ stored'[t] \subseteq stored[t] \cup S
         /\ \A o \in S : \E p \in stored'[t] : Row(t, p) = Row(t, o)
<1>1. stored \in [Tables -> SUBSET Nat] /\ stored[t] \subseteq Nat
  BY DEF TypeOK, OuterTypes
<1>2. PICK N \in SUBSET S : U = stored[t] \cup N
  BY DEF Upserts
<1>3. \A o \in S : \E p \in U : Row(t, p) = Row(t, o)
  BY DEF Upserts
<1>4. stored'[t] = U
  BY <1>1
<1>. QED
  BY <1>1, <1>2, <1>3, <1>4

(* What a task awaits is one of the awaits of the code.                    *)
LEMMA AwaitTypes ==
  ASSUME TaskTypes, NEW k \in Tasks, NEW at \in Awaits, NEW S \in SUBSET Nat, Await(k, at, S)
  PROVE  TaskTypes'
  BY DEF TaskTypes, Await

LEMMA FlushTypes ==
  ASSUME TypeOK, NEW k \in Tasks, NEW last \in Awaits,
         AwaitWindowedThen(k, last) \/ FlushPending(k, last)
  PROVE  TaskTypes'
<1>1. /\ batch["metrics"] \in SUBSET Nat
      /\ batch["windowed"] \in SUBSET Nat
      /\ {} \in SUBSET Nat
  BY Names DEF TypeOK, ProcessTypes
<1>2. {"insert_metrics", "insert_windowed", last} \subseteq Awaits
  BY DEF Awaits
<1>. QED
  BY <1>1, <1>2, AwaitTypes DEF TypeOK, AwaitWindowedThen, FlushPending

LEMMA TargetTypes ==
  \A k \in Tasks : /\ AfterFlush(k) \in Awaits /\ AfterError(k) \in Awaits
                   /\ \A t \in Tables : InsertOf(t) \in Awaits
  BY DEF AfterFlush, AfterError, InsertOf, Awaits

-----------------------------------------------------------------------------
(* Type correctness, action by action.                                     *)

LEMMA InitTypes == Init => TypeOK
<1>. SUFFICES ASSUME Init PROVE TypeOK
  OBVIOUS
<1>1. OuterTypes
  BY DEF Init, OuterTypes, NoOffset
<1>2. ProcessTypes
  <2>1. lives \in 0 .. MaxLives
    BY SizeAssumption DEF Init
  <2>2. closed \in [Groups -> BOOLEAN] /\ running \in BOOLEAN
    BY DEF Init
  <2>3. batch \in [Tables -> SUBSET Nat] /\ DOMAIN keys = Tables
    BY DEF Init
  <2>. QED
    BY <2>1, <2>2, <2>3 DEF Init, ProcessTypes
<1>3. TaskTypes
  BY DEF Init, TaskTypes, Awaits
<1>4. CursorTypes
  BY DEF Init, CursorTypes
<1>5. CursorsOrdered
  BY LogLength DEF Init, CursorsOrdered, NoOffset
<1>. QED
  BY <1>1, <1>2, <1>3, <1>4, <1>5 DEF TypeOK

LEMMA StartTypes == TypeOK /\ Start => TypeOK'
  BY SizeAssumption DEF Start, external, cursors, batches, TypeOK, OuterTypes, ProcessTypes,
     TaskTypes, CursorTypes, CursorsOrdered

LEMMA ExitTypes == TypeOK /\ Exit => TypeOK'
<1>. SUFFICES ASSUME TypeOK, Exit PROVE TypeOK'
  OBVIOUS
<1>1. OuterTypes' /\ TaskTypes'
  BY DEF Exit, external, TypeOK, OuterTypes, TaskTypes, Awaits
<1>2. ProcessTypes'
  BY DEF Exit, TypeOK, ProcessTypes
<1>3. CursorTypes'
  BY DEF Exit, external, TypeOK, CursorTypes
<1>4. CursorsOrdered'
  BY DEF Exit, external, TypeOK, CursorTypes, CursorsOrdered
<1>. QED
  BY <1>1, <1>2, <1>3, <1>4 DEF TypeOK

LEMMA ProduceTypes == ASSUME NEW t \in Topics PROVE TypeOK /\ Produce(t) => TypeOK'
<1>. SUFFICES ASSUME TypeOK, Produce(t) PROVE TypeOK'
  OBVIOUS
<1>1. OuterTypes' /\ ProcessTypes' /\ TaskTypes'
  BY DEF Produce, batches, cursors, history, TypeOK, OuterTypes, ProcessTypes, TaskTypes
<1>2. CursorTypes'
  BY DEF Produce, cursors, history, TypeOK, CursorTypes
<1>3. ASSUME NEW u \in Topics PROVE logEnd[u] <= logEnd'[u] /\ logEnd'[u] <= Len(Log[u])
  BY LogLength DEF Produce, TypeOK, CursorTypes, CursorsOrdered
<1>4. \A u \in Topics : /\ logEnd[u] \in Nat /\ logEnd'[u] \in Nat /\ position[u] \in Nat
                        /\ committed[u] \in Int
  BY <1>2 DEF TypeOK, OuterTypes, NoOffset, CursorTypes
<1>5. CursorsOrdered'
  BY <1>3, <1>4 DEF Produce, cursors, history, TypeOK, CursorsOrdered
<1>. QED
  BY <1>1, <1>2, <1>5 DEF TypeOK

LEMMA ConnectedTypes == TypeOK /\ Connected => TypeOK'
<1>. SUFFICES ASSUME TypeOK, Connected PROVE TypeOK'
  OBVIOUS
<1>1. \A t \in Topics : Resume(t) \in Nat /\ Resume(t) <= logEnd[t]
  BY DEF TypeOK, OuterTypes, CursorTypes, CursorsOrdered, Resume
<1>2. OuterTypes' /\ TaskTypes'
  BY DEF Connected, external, TypeOK, OuterTypes, TaskTypes, Awaits
<1>3. ProcessTypes'
  BY DEF Connected, batches, TypeOK, ProcessTypes
<1>4. CursorTypes'
  BY <1>1 DEF Connected, external, TypeOK, CursorTypes
<1>5. CursorsOrdered'
  BY <1>1 DEF Connected, external, TypeOK, OuterTypes, CursorTypes, CursorsOrdered
<1>. QED
  BY <1>2, <1>3, <1>4, <1>5 DEF TypeOK

LEMMA PollTypes == ASSUME NEW g \in Groups PROVE TypeOK /\ Poll(g) => TypeOK'
<1>. SUFFICES ASSUME TypeOK, Poll(g) PROVE TypeOK'
  OBVIOUS
<1>1. PICK n \in Fetches(g) :
        /\ position' = PositionAfter(g, n)
        /\ IF g = "main" THEN \E t \in TopicsOf(g) : n[t] > 0 /\ serving' = t
                         ELSE UNCHANGED serving
  BY DEF Poll
<1>2. serving' \in {"metrics", "alerts"}
  BY <1>1 DEF TypeOK, ProcessTypes, TopicsOf
<1>3. OuterTypes' /\ ProcessTypes' /\ TaskTypes'
  BY <1>2 DEF Poll, external, batches, history, TypeOK, OuterTypes, ProcessTypes, TaskTypes
<1>4. CursorTypes'
  BY <1>1, PollMoves DEF Poll, external, history, TypeOK, CursorTypes
<1>5. CursorsOrdered'
  BY <1>1, <1>4, PollMoves DEF Poll, external, history, TypeOK, CursorTypes, CursorsOrdered
<1>. QED
  BY <1>3, <1>4, <1>5 DEF TypeOK

(* Taking a record.                                                        *)
LEMMA YieldsTypes ==
  ASSUME TypeOK, NEW t \in Topics, Yields(t)
  PROVE  /\ OuterTypes' /\ CursorTypes' /\ CursorsOrdered'
         /\ serving' \in {"metrics", "alerts"}
<1>1. OuterTypes'
  BY DEF Yields, external, TypeOK, OuterTypes
<1>2. CursorTypes'
  BY DEF Yields, external, history, TypeOK, CursorTypes
<1>3. CursorsOrdered'
  BY DEF Yields, external, history, TypeOK, CursorTypes, CursorsOrdered
<1>4. serving' \in {"metrics", "alerts"}
  BY DEF Yields, TypeOK, ProcessTypes, Topics, Tables
<1>. QED
  BY <1>1, <1>2, <1>3, <1>4

LEMMA BatchTypes == ASSUME NEW t \in Tables PROVE TypeOK /\ Batch(t) => TypeOK'
<1>. SUFFICES ASSUME TypeOK, Batch(t) PROVE TypeOK'
  OBVIOUS
<1>. DEFINE o == delivered[t] + 1
<1>1. Yields(t) /\ t \in Topics
  BY Names DEF Batch
<1>2. Added(t, o) \in SUBSET Nat
  BY <1>1 DEF TypeOK, ProcessTypes, CursorTypes, Added
<1>3. ProcessTypes'
  BY <1>1, <1>2, YieldsTypes DEF Batch, Yields, history, TypeOK, ProcessTypes
<1>4. TaskTypes'
  <2>1. CASE UNCHANGED <<pc, snap>>
    BY <2>1 DEF TypeOK, TaskTypes
  <2>2. CASE Await(GroupOf(t), InsertOf(t), Added(t, o))
    BY <1>1, <1>2, <2>2, AwaitTypes, Names, TargetTypes DEF TypeOK
  <2>. QED
    BY <2>1, <2>2 DEF Batch
<1>. QED
  BY <1>1, <1>3, <1>4, YieldsTypes DEF TypeOK

LEMMA SkipMalformedTypes == TypeOK /\ SkipMalformed => TypeOK'
<1>. SUFFICES ASSUME TypeOK, SkipMalformed PROVE TypeOK'
  OBVIOUS
<1>1. Yields("windowed") /\ "windowed" \in Topics
  BY Names DEF SkipMalformed
<1>2. ProcessTypes'
  BY <1>1, YieldsTypes DEF SkipMalformed, Yields, batches, history, TypeOK, ProcessTypes
<1>3. TaskTypes'
  BY AwaitTypes, Names DEF SkipMalformed, TypeOK, Awaits
<1>. QED
  BY <1>1, <1>2, <1>3, YieldsTypes DEF TypeOK

LEMMA HandleAlertTypes == TypeOK /\ HandleAlert => TypeOK'
<1>. SUFFICES ASSUME TypeOK, HandleAlert PROVE TypeOK'
  OBVIOUS
<1>1. Yields("alerts") /\ "alerts" \in Topics
  BY Names DEF HandleAlert
<1>2. ProcessTypes'
  BY <1>1, YieldsTypes DEF HandleAlert, Yields, batches, history, TypeOK, ProcessTypes
<1>3. TaskTypes'
  <2>1. "insert_alert" \in Awaits /\ "main" \in Tasks
    BY Names DEF Awaits
  <2>. QED
    BY <2>1, FlushTypes DEF HandleAlert
<1>. QED
  BY <1>1, <1>2, <1>3, YieldsTypes DEF TypeOK

LEMMA InsertedTypes ==
  ASSUME NEW k \in Tasks, NEW t \in Tables PROVE TypeOK /\ Inserted(k, t) => TypeOK'
<1>. SUFFICES ASSUME TypeOK, Inserted(k, t) PROVE TypeOK'
  OBVIOUS
<1>1. stored' \in [Tables -> SUBSET Nat]
  BY UpsertMoves DEF Inserted, TypeOK, TaskTypes
<1>2. OuterTypes'
  BY <1>1 DEF Inserted, TypeOK, OuterTypes
<1>3. ProcessTypes'
  BY DEF Inserted, KeysCleared, cursors, history, TypeOK, ProcessTypes
<1>4. TaskTypes'
  <2>1. AfterFlush(k) \in Awaits /\ {} \in SUBSET Nat
    BY TargetTypes
  <2>2. CASE AwaitWindowedThen(k, AfterFlush(k))
    BY <2>1, <2>2, FlushTypes
  <2>3. CASE Await(k, AfterFlush(k), {})
    BY <2>1, <2>3, AwaitTypes DEF TypeOK
  <2>. QED
    BY <2>2, <2>3 DEF Inserted
<1>5. CursorTypes' /\ CursorsOrdered'
  BY DEF Inserted, cursors, history, TypeOK, CursorTypes, CursorsOrdered
<1>. QED
  BY <1>2, <1>3, <1>4, <1>5 DEF TypeOK

LEMMA InsertFailsTypes ==
  ASSUME NEW k \in Tasks, NEW t \in Tables PROVE TypeOK /\ InsertFails(k, t) => TypeOK'
<1>. SUFFICES ASSUME TypeOK, InsertFails(k, t) PROVE TypeOK'
  OBVIOUS
<1>1. PICK S \in Written(t, snap[k]) : \E U \in Upserts(t, stored[t], S) :
         stored' = [stored EXCEPT ![t] = U]
  BY DEF InsertFails
<1>2. S \in SUBSET Nat
  BY WrittenSubset DEF TypeOK, TaskTypes
<1>3. OuterTypes'
  BY <1>1, <1>2, UpsertMoves DEF InsertFails, TypeOK, OuterTypes
<1>4. TaskTypes'
  BY AwaitTypes, TargetTypes DEF InsertFails, TypeOK
<1>5. ProcessTypes' /\ CursorTypes' /\ CursorsOrdered'
  BY DEF InsertFails, cursors, batches, history, TypeOK, ProcessTypes, CursorTypes, CursorsOrdered
<1>. QED
  BY <1>3, <1>4, <1>5 DEF TypeOK

LEMMA AlertRowTypes == TypeOK /\ AddAlertRow => alertRows' \in [Offsets("alerts") -> Nat]
<1>1. ASSUME NEW f \in [Offsets("alerts") -> Nat], NEW o
      PROVE  [f EXCEPT ![o] = @ + 1] \in [Offsets("alerts") -> Nat]
  <2>1. CASE o \in Offsets("alerts")
    BY <2>1
  <2>2. CASE o \notin Offsets("alerts")
    BY <2>2
  <2>. QED
    BY <2>1, <2>2
<1>. QED
  BY <1>1 DEF TypeOK, OuterTypes, AddAlertRow

LEMMA AlertTypes == TypeOK /\ (AlertInserted \/ AlertFails) => TypeOK'
<1>. SUFFICES ASSUME TypeOK, AlertInserted \/ AlertFails PROVE TypeOK'
  OBVIOUS
<1>1. OuterTypes'
  BY AlertRowTypes DEF AlertInserted, AlertFails, TypeOK, OuterTypes
<1>2. TaskTypes'
  <2>1. {"commit", AfterAlertError} \subseteq Awaits /\ "main" \in Tasks /\ {} \in SUBSET Nat
    BY Names DEF AfterAlertError, AfterError, Awaits
  <2>. QED
    BY <2>1, AwaitTypes DEF AlertInserted, AlertFails, TypeOK
<1>3. ProcessTypes' /\ CursorTypes' /\ CursorsOrdered'
  BY DEF AlertInserted, AlertFails, cursors, batches, history, TypeOK,
         ProcessTypes, CursorTypes, CursorsOrdered
<1>. QED
  BY <1>1, <1>2, <1>3 DEF TypeOK

LEMMA CommitTypes == ASSUME NEW g \in Groups PROVE TypeOK /\ Commit(g) => TypeOK'
<1>. SUFFICES ASSUME TypeOK, Commit(g) PROVE TypeOK'
  OBVIOUS
<1>1. /\ committed' \in [Topics -> Nat \cup {NoOffset}]
      /\ \A t \in Topics : committed'[t] <= logEnd[t]
  BY CommitMoves DEF Commit, TypeOK, OuterTypes, CursorsOrdered
<1>2. OuterTypes'
  BY <1>1 DEF Commit, TypeOK, OuterTypes
<1>3. TaskTypes'
  BY AwaitTypes, Names DEF Commit, TypeOK, Awaits
<1>4. ProcessTypes' /\ CursorTypes'
  BY DEF Commit, cursors, batches, history, TypeOK, ProcessTypes, CursorTypes
<1>5. CursorsOrdered'
  BY <1>1 DEF Commit, cursors, history, TypeOK, CursorsOrdered
<1>. QED
  BY <1>2, <1>3, <1>4, <1>5 DEF TypeOK

(* What the cancelled await may have done.                                 *)
LEMMA CancelMoves ==
  ASSUME TypeOK, CancelMain
  PROVE  /\ position' \in [Topics -> Nat]
         /\ \A t \in Topics : position[t] <= position'[t] /\ position'[t] <= logEnd[t]
         /\ OuterTypes'
         /\ \A t \in Topics : committed'[t] <= logEnd[t]
<1>0. /\ OuterTypes
      /\ position \in [Topics -> Nat]
      /\ \A t \in Topics : position[t] <= logEnd[t] /\ committed[t] <= logEnd[t]
  BY DEF TypeOK, OuterTypes, CursorTypes, CursorsOrdered
<1>1. CASE UNCHANGED <<position, stored, alertRows, committed>>
  BY <1>0, <1>1 DEF OuterTypes
<1>2. CASE /\ \E n \in Fetches("main") : position' = PositionAfter("main", n)
           /\ UNCHANGED <<stored, alertRows, committed>>
  BY <1>0, <1>2, PollMoves, Names DEF OuterTypes
<1>3. ASSUME NEW t \in Tables,
             \E S \in Written(t, snap["main"]) : \E U \in Upserts(t, stored[t], S) :
                stored' = [stored EXCEPT ![t] = U],
             UNCHANGED <<position, alertRows, committed>>
      PROVE  stored' \in [Tables -> SUBSET Nat]
  <2>1. snap["main"] \in SUBSET Nat
    BY Names DEF TypeOK, TaskTypes
  <2>. QED
    BY <1>3, <2>1, WrittenSubset, UpsertMoves
<1>4. CASE AddAlertRow /\ UNCHANGED <<position, stored, committed>>
  BY <1>0, <1>4, AlertRowTypes DEF OuterTypes
<1>5. CASE CommitPosition("main") /\ UNCHANGED <<position, stored, alertRows>>
  BY <1>0, <1>5, CommitMoves, Names DEF OuterTypes
<1>6. CASE \E t \in Tables :
             /\ \E S \in Written(t, snap["main"]) : \E U \in Upserts(t, stored[t], S) :
                   stored' = [stored EXCEPT ![t] = U]
             /\ UNCHANGED <<position, alertRows, committed>>
  <2>1. stored' \in [Tables -> SUBSET Nat]
    BY <1>3, <1>6
  <2>. QED
    BY <1>0, <1>6, <2>1 DEF OuterTypes
<1>. QED
  BY <1>1, <1>2, <1>4, <1>5, <1>6 DEF CancelMain

LEMMA StopTypes == TypeOK /\ Stop => TypeOK'
<1>. SUFFICES ASSUME TypeOK, Stop PROVE TypeOK'
  OBVIOUS
<1>1. CancelMain
  BY DEF Stop
<1>2. TaskTypes'
  BY DEF Stop, TypeOK, TaskTypes, Awaits
<1>3. ProcessTypes'
  BY DEF Stop, batches, history, TypeOK, ProcessTypes
<1>4. CursorTypes'
  BY <1>1, CancelMoves DEF Stop, history, TypeOK, CursorTypes
<1>5. CursorsOrdered'
  BY <1>1, <1>4, CancelMoves DEF Stop, history, TypeOK, CursorTypes, CursorsOrdered
<1>. QED
  BY <1>1, <1>2, <1>3, <1>4, <1>5, CancelMoves DEF TypeOK

(* The steps that only move tasks.                                         *)
LEMMA TaskStepTypes ==
  TypeOK /\ (StopWhileConnecting \/ StopFlush \/ StopDone \/ \E g \in Groups : LoopEnds(g))
    => TypeOK'
<1>. SUFFICES ASSUME TypeOK,
                     StopWhileConnecting \/ StopFlush \/ StopDone \/ \E g \in Groups : LoopEnds(g)
              PROVE  TypeOK'
  OBVIOUS
<1>1. {"done", "close"} \subseteq Awaits /\ "stop" \in Tasks /\ {} \in SUBSET Nat
  BY Names DEF Awaits
<1>2. TaskTypes'
  BY <1>1, AwaitTypes, FlushTypes, Names
     DEF StopWhileConnecting, StopFlush, StopDone, LoopEnds, TypeOK
<1>3. OuterTypes' /\ CursorTypes' /\ CursorsOrdered'
  BY DEF StopWhileConnecting, StopFlush, StopDone, LoopEnds, external, cursors, history,
         TypeOK, OuterTypes, CursorTypes, CursorsOrdered
<1>4. ProcessTypes'
  BY DEF StopWhileConnecting, StopFlush, StopDone, LoopEnds, cursors, batches, history,
         TypeOK, ProcessTypes
<1>. QED
  BY <1>2, <1>3, <1>4 DEF TypeOK

LEMMA StopCloseTypes == ASSUME NEW g \in Groups PROVE TypeOK /\ StopClose(g) => TypeOK'
<1>. SUFFICES ASSUME TypeOK, StopClose(g) PROVE TypeOK'
  OBVIOUS
<1>1. /\ committed' \in [Topics -> Nat \cup {NoOffset}]
      /\ \A t \in Topics : committed'[t] <= logEnd[t]
  BY CommitMoves DEF StopClose, TypeOK, OuterTypes, CursorsOrdered
<1>2. OuterTypes' /\ TaskTypes'
  BY <1>1 DEF StopClose, TypeOK, OuterTypes, TaskTypes
<1>3. ProcessTypes'
  BY DEF StopClose, cursors, batches, history, TypeOK, ProcessTypes
<1>4. CursorTypes' /\ CursorsOrdered'
  BY <1>1 DEF StopClose, cursors, history, TypeOK, CursorTypes, CursorsOrdered
<1>. QED
  BY <1>2, <1>3, <1>4 DEF TypeOK

(* Every step of every task and of the environment.                        *)
LEMMA NextTypes == TypeOK /\ [Next]_vars => TypeOK'
<1>. SUFFICES ASSUME TypeOK, [Next]_vars PROVE TypeOK'
  OBVIOUS
<1>1. CASE MainStep
  BY <1>1, Names, PollTypes, TaskStepTypes, CommitTypes, BatchTypes, HandleAlertTypes,
     InsertedTypes, InsertFailsTypes, AlertTypes DEF MainStep
<1>2. CASE WindowedStep
  BY <1>2, Names, PollTypes, TaskStepTypes, CommitTypes, BatchTypes, SkipMalformedTypes,
     InsertedTypes, InsertFailsTypes DEF WindowedStep
<1>3. CASE StopStep
  BY <1>3, Names, TaskStepTypes, StopCloseTypes, InsertedTypes, InsertFailsTypes DEF StopStep
<1>4. CASE Environment
  BY <1>4, StartTypes, ExitTypes, StopTypes, TaskStepTypes, ProduceTypes DEF Environment
<1>5. CASE UNCHANGED vars
  BY <1>5 DEF vars, external, cursors, batches, history, TypeOK, OuterTypes, ProcessTypes,
         TaskTypes, CursorTypes, CursorsOrdered
<1>. QED
  BY <1>1, <1>2, <1>3, <1>4, <1>5, ConnectedTypes DEF Next

(* Every variable keeps its type and the cursors of each consumer stay in  *)
(* order, whatever is produced, fails, stops, crashes or restarts.         *)
THEOREM TypeCorrect == Spec => []TypeOK
<1>1. Init => TypeOK
  BY InitTypes
<1>2. TypeOK /\ [Next]_vars => TypeOK'
  BY NextTypes
<1>. QED
  BY <1>1, <1>2, PTL DEF Spec

-----------------------------------------------------------------------------
(* The inductive invariant, action by action.                              *)

Safe == KeysAgree /\ NoMetricDropped /\ RecordsInLog /\ TasksExclude /\ FlushWhole

(* An await changes the task's own entries only.                           *)
LEMMA AwaitMoves ==
  ASSUME TaskTypes, NEW k \in Tasks, NEW at, NEW S, Await(k, at, S)
  PROVE  /\ pc'[k] = at /\ snap'[k] = S
         /\ \A j \in Tasks : j # k => pc'[j] = pc[j] /\ snap'[j] = snap[j]
  BY DEF TaskTypes, Await

(* Where a flush of the pending batches takes the task that starts it.     *)
LEMMA FlushMoves ==
  ASSUME TaskTypes, NEW k \in Tasks, NEW last, FlushPending(k, last)
  PROVE  /\ \/ pc'[k] = "insert_metrics" /\ snap'[k] = batch["metrics"]
            \/ /\ batch["metrics"] = {}
               /\ \/ pc'[k] = "insert_windowed" /\ snap'[k] = batch["windowed"]
                  \/ pc'[k] = last /\ snap'[k] = {}
         /\ \A j \in Tasks : j # k => pc'[j] = pc[j] /\ snap'[j] = snap[j]
  BY AwaitMoves DEF FlushPending, AwaitWindowedThen

LEMMA WindowedMoves ==
  ASSUME TaskTypes, NEW k \in Tasks, NEW last, AwaitWindowedThen(k, last)
  PROVE  /\ \/ pc'[k] = "insert_windowed" /\ snap'[k] = batch["windowed"]
            \/ pc'[k] = last /\ snap'[k] = {}
         /\ \A j \in Tasks : j # k => pc'[j] = pc[j] /\ snap'[j] = snap[j]
  BY AwaitMoves DEF AwaitWindowedThen

(* The batches hold records of the logs.                                   *)
LEMMA BatchInLog ==
  ASSUME TypeOK, RecordsInLog, NEW t \in Tables
  PROVE  batch[t] \subseteq Offsets(t)
<1>1. /\ base[t] \in Nat /\ delivered[t] \in Nat /\ position[t] \in Nat /\ logEnd[t] \in Nat
      /\ delivered[t] <= position[t] /\ position[t] <= logEnd[t] /\ logEnd[t] <= Len(Log[t])
      /\ Len(Log[t]) \in Nat
  BY Names, LogLength DEF TypeOK, CursorTypes, CursorsOrdered
<1>2. batch[t] \subseteq base[t] + 1 .. delivered[t]
  BY DEF RecordsInLog
<1>. QED
  BY <1>1, <1>2 DEF Offsets

(* Frames: what a step must leave alone for a conjunct to be kept.         *)
LEMMA KeysFrame == KeysAgree /\ UNCHANGED batches => KeysAgree'
  BY DEF KeysAgree, batches

LEMMA DroppedFrame ==
  ASSUME NoMetricDropped, phase' = phase, base' = base,
         delivered'["metrics"] = delivered["metrics"],
         batch'["metrics"] = batch["metrics"],
         stored["metrics"] \subseteq stored'["metrics"]
  PROVE  NoMetricDropped'
  BY DEF NoMetricDropped, RowStored

LEMMA SafeInit == Init => Safe
<1>. SUFFICES ASSUME Init PROVE Safe
  OBVIOUS
<1>1. KeysAgree
  BY DEF Init, KeysAgree
<1>2. NoMetricDropped /\ FlushWhole
  BY DEF Init, NoMetricDropped, FlushWhole, Tasks, Groups
<1>3. RecordsInLog
  BY DEF Init, RecordsInLog, InsertOf
<1>4. TasksExclude
  BY DEF Init, TasksExclude, Tasks, Groups
<1>. QED
  BY <1>1, <1>2, <1>3, <1>4 DEF Safe

(* Steps that touch neither the tasks, the batches nor the tables.         *)
LEMMA SafeFrame ==
  ASSUME Safe, UNCHANGED <<pc, snap, batch, keys, phase, running, base, delivered, stored>>
  PROVE  Safe'
  BY DEF Safe, KeysAgree, NoMetricDropped, RowStored, RecordsInLog, TasksExclude, FlushWhole

LEMMA SafeIdle ==
  Safe /\ ((\E t \in Topics : Produce(t)) \/ (\E g \in Groups : Poll(g) \/ StopClose(g))) => Safe'
  BY SafeFrame DEF Produce, Poll, StopClose, external, cursors, batches, history

LEMMA SafeStart == Safe /\ Start => Safe'
<1>. SUFFICES ASSUME Safe, Start PROVE Safe'
  OBVIOUS
<1>1. UNCHANGED <<pc, snap, batch, keys, base, delivered, stored>> /\ phase' = "connecting"
  BY DEF Start, external, cursors, batches
<1>2. KeysAgree' /\ NoMetricDropped' /\ RecordsInLog' /\ FlushWhole'
  BY <1>1 DEF Safe, KeysAgree, NoMetricDropped, RecordsInLog, FlushWhole
<1>3. TasksExclude'
  BY <1>1 DEF Start, Safe, TasksExclude
<1>. QED
  BY <1>2, <1>3 DEF Safe

LEMMA SafeExit == TypeOK /\ Safe /\ Exit => Safe'
<1>. SUFFICES ASSUME TypeOK, Safe, Exit PROVE Safe'
  OBVIOUS
<1>1. KeysAgree'
  BY DEF Exit, KeysAgree
<1>2. NoMetricDropped' /\ FlushWhole'
  BY DEF Exit, NoMetricDropped, FlushWhole, Tasks, Groups
<1>3. RecordsInLog'
  BY DEF Exit, external, Safe, RecordsInLog, InsertOf
<1>4. TasksExclude'
  BY DEF Exit, TasksExclude, Tasks, Groups
<1>. QED
  BY <1>1, <1>2, <1>3, <1>4 DEF Safe

LEMMA SafeConnected == TypeOK /\ Safe /\ Connected => Safe'
<1>. SUFFICES ASSUME TypeOK, Safe, Connected PROVE Safe'
  OBVIOUS
<1>1. /\ UNCHANGED <<snap, batch, keys, running, stored>>
      /\ phase' = "up" /\ base' = delivered'
      /\ \A g \in Groups : pc'[g] \in {"loop", "done"}
      /\ pc'["stop"] = pc["stop"]
  BY DEF Connected, external, batches, Tasks, Groups
<1>2. pc["stop"] \in {"off", "done"} /\ \A t \in Tables : batch[t] = {}
  BY DEF Connected, Safe, TasksExclude
<1>3. KeysAgree'
  BY <1>1 DEF Safe, KeysAgree
<1>4. NoMetricDropped'
  <2>1. base'["metrics"] = delivered'["metrics"] /\ base'["metrics"] \in Nat
    BY <1>1, ConnectedTypes, Names DEF TypeOK, CursorTypes
  <2>. QED
    BY <2>1 DEF NoMetricDropped
<1>5. RecordsInLog'
  BY <1>1, <1>2 DEF Safe, RecordsInLog, InsertOf, Tasks, Groups
<1>6. TasksExclude' /\ FlushWhole'
  BY <1>1, <1>2, Names DEF Safe, TasksExclude, FlushWhole
<1>. QED
  BY <1>3, <1>4, <1>5, <1>6 DEF Safe

LEMMA SafeStopWhileConnecting == TypeOK /\ Safe /\ StopWhileConnecting => Safe'
<1>. SUFFICES ASSUME TypeOK, Safe, StopWhileConnecting PROVE Safe'
  OBVIOUS
<1>1. /\ UNCHANGED <<batch, keys, phase, base, delivered, stored>>
      /\ phase = "connecting" /\ running' = FALSE
  BY DEF StopWhileConnecting, external, cursors, batches, history
<1>2. /\ pc'["stop"] = "done"
      /\ \A j \in Tasks : j # "stop" => pc'[j] = pc[j] /\ snap'[j] = snap[j]
  BY AwaitMoves, Names DEF StopWhileConnecting, TypeOK
<1>3. KeysAgree' /\ NoMetricDropped'
  BY <1>1 DEF Safe, KeysAgree, NoMetricDropped
<1>4. RecordsInLog'
  BY <1>1, <1>2 DEF Safe, RecordsInLog, InsertOf
<1>5. TasksExclude'
  BY <1>1, <1>2 DEF Safe, TasksExclude, Tasks, Groups
<1>6. FlushWhole'
  BY <1>1, <1>2 DEF Safe, FlushWhole, Tasks, Groups
<1>. QED
  BY <1>3, <1>4, <1>5, <1>6 DEF Safe

(* Where a task that has begun and not ended may go.                       *)
Allowed(k, at) ==
  /\ at # "off"
  /\ k = "main" => at \notin {"flush", "close", "failed"}
  /\ k = "windowed" => at \in {"loop", "insert_windowed", "commit", "done"}

(* A task that moves is neither off nor done, so the process is up and     *)
(* stop() and the main loop do not both move.                              *)
LEMMA ExcludeMoves ==
  ASSUME TasksExclude, NEW k \in Tasks, pc[k] \notin {"off", "done"}, Allowed(k, pc'[k]),
         \A j \in Tasks : j # k => pc'[j] = pc[j],
         UNCHANGED <<phase, running>>
  PROVE  TasksExclude' /\ phase = "up"
<1>1. phase = "up"
  BY DEF TasksExclude, Tasks, Groups
<1>2. k = "main" => pc["stop"] \in {"off", "done"}
  BY DEF TasksExclude
<1>3. k = "stop" => pc["main"] = "done" /\ ~running
  BY DEF TasksExclude
<1>4. CASE k = "main"
  BY <1>1, <1>2, <1>4, Names DEF TasksExclude, Allowed
<1>5. CASE k = "stop"
  BY <1>1, <1>3, <1>5, Names DEF TasksExclude, Allowed
<1>6. CASE k = "windowed"
  BY <1>1, <1>6, Names DEF TasksExclude, Allowed
<1>. QED
  BY <1>1, <1>4, <1>5, <1>6 DEF Tasks, Groups

(* What a task may be about to do with the metrics batch B.                *)
Holds(k, at, S, B) ==
  /\ at = "insert_metrics" => S = B
  /\ at \in {"insert_windowed", "insert_alert", "commit", "close"} => B = {}

(* Only one of the main loop and stop() holds the metrics batch, so a move *)
(* of one of them with a new batch keeps FlushWhole.                       *)
LEMMA WholeMoves ==
  ASSUME TasksExclude, FlushWhole, NEW k \in {"main", "stop"}, pc[k] \notin {"off", "done"},
         Holds(k, pc'[k], snap'[k], batch'["metrics"]),
         \A j \in Tasks : j # k => pc'[j] = pc[j] /\ snap'[j] = snap[j]
  PROVE  FlushWhole'
<1>1. CASE k = "main"
  <2>1. pc'["stop"] \in {"off", "done"}
    BY <1>1, Names DEF TasksExclude
  <2>. QED
    BY <1>1, <2>1 DEF FlushWhole, Holds
<1>2. CASE k = "stop"
  <2>1. pc'["main"] = "done"
    BY <1>2, Names DEF TasksExclude
  <2>. QED
    BY <1>2, <2>1 DEF FlushWhole, Holds
<1>. QED
  BY <1>1, <1>2

LEMMA WholeFrame ==
  ASSUME FlushWhole, batch'["metrics"] = batch["metrics"],
         \A j \in {"main", "stop"} : pc'[j] = pc[j] /\ snap'[j] = snap[j]
  PROVE  FlushWhole'
  BY DEF FlushWhole

(* Records stay in the log when one task takes on records of the log.      *)
LEMMA LogMoves ==
  ASSUME RecordsInLog, NEW k \in Tasks,
         \A t \in Tables : pc'[k] = InsertOf(t) => snap'[k] \subseteq Offsets(t),
         \A j \in Tasks : j # k => pc'[j] = pc[j] /\ snap'[j] = snap[j],
         \A t \in Tables : /\ stored'[t] \subseteq Offsets(t)
                          /\ batch'[t] \subseteq base'[t] + 1 .. delivered'[t]
  PROVE  RecordsInLog'
  BY DEF RecordsInLog

(* A step of one task that leaves the batches and the metrics cursor alone *)
(* and only adds to the tables.                                            *)
LEMMA SafeMove ==
  ASSUME TypeOK, Safe, NEW k \in Tasks, pc[k] \notin {"off", "done"}, Allowed(k, pc'[k]),
         \A j \in Tasks : j # k => pc'[j] = pc[j] /\ snap'[j] = snap[j],
         k \in {"main", "stop"} => Holds(k, pc'[k], snap'[k], batch["metrics"]),
         \A t \in Tables : pc'[k] = InsertOf(t) => snap'[k] \subseteq Offsets(t),
         UNCHANGED <<phase, running, base, batch, keys>>,
         delivered'["metrics"] = delivered["metrics"],
         \A t \in Tables : /\ delivered[t] <= delivered'[t] /\ delivered'[t] \in Nat
                          /\ stored[t] \subseteq stored'[t]
                          /\ stored'[t] \subseteq Offsets(t)
  PROVE  Safe'
<1>1. KeysAgree'
  BY KeysFrame DEF Safe, batches
<1>2. NoMetricDropped'
  BY DroppedFrame, Names DEF Safe
<1>3. \A t \in Tables : batch'[t] \subseteq base'[t] + 1 .. delivered'[t]
  <2>1. ASSUME NEW t \in Tables PROVE batch'[t] \subseteq base'[t] + 1 .. delivered'[t]
    <3>1. batch[t] \subseteq base[t] + 1 .. delivered[t]
      BY DEF Safe, RecordsInLog
    <3>2. base[t] \in Nat /\ delivered[t] \in Nat
      BY Names DEF TypeOK, CursorTypes
    <3>. QED
      BY <3>1, <3>2
  <2>. QED
    BY <2>1
<1>4. RecordsInLog'
  BY <1>3, LogMoves DEF Safe
<1>5. TasksExclude'
  BY ExcludeMoves DEF Safe
<1>6. FlushWhole'
  <2>1. CASE k \in {"main", "stop"}
    BY <2>1, WholeMoves DEF Safe
  <2>2. CASE k \notin {"main", "stop"}
    BY <2>2, WholeFrame, Names DEF Safe
  <2>. QED
    BY <2>1, <2>2
<1>. QED
  BY <1>1, <1>2, <1>4, <1>5, <1>6 DEF Safe

(* What a step that writes nothing, or stays in the log, leaves in place.  *)
LEMMA InPlace ==
  ASSUME TypeOK, Safe
  PROVE  \A t \in Tables : /\ delivered[t] \in Nat /\ delivered[t] <= delivered[t]
                          /\ stored[t] \subseteq stored[t] /\ stored[t] \subseteq Offsets(t)
  BY Names DEF TypeOK, CursorTypes, Safe, RecordsInLog

(* The steps of one task that touch neither the batches nor the tables.    *)
LEMMA SafeTaskStep ==
  TypeOK /\ Safe /\ (AlertInserted \/ AlertFails \/ StopDone
                       \/ \E g \in Groups : LoopEnds(g) \/ Commit(g))
    => Safe'
<1>. SUFFICES ASSUME TypeOK, Safe PROVE (AlertInserted \/ AlertFails \/ StopDone
                       \/ \E g \in Groups : LoopEnds(g) \/ Commit(g)) => Safe'
  OBVIOUS
<1>1. ASSUME NEW k \in Tasks, NEW at \in {"loop", "commit", "done"}, Await(k, at, {}),
             pc[k] \notin {"off", "done"},
             at = "commit" => pc[k] = "insert_alert" /\ k = "main",
             UNCHANGED <<stored, phase, running, base, delivered, batch, keys>>
      PROVE  Safe'
  <2>1. /\ pc'[k] = at /\ snap'[k] = {}
        /\ \A j \in Tasks : j # k => pc'[j] = pc[j] /\ snap'[j] = snap[j]
    BY <1>1, AwaitMoves DEF TypeOK
  <2>2. Allowed(k, at)
    BY DEF Allowed
  <2>3. k \in {"main", "stop"} => Holds(k, at, {}, batch["metrics"])
    BY <1>1 DEF Safe, FlushWhole, Holds
  <2>. QED
    BY <1>1, <2>1, <2>2, <2>3, InPlace, SafeMove
<1>2. AlertInserted \/ AlertFails => Safe'
  BY <1>1, Names DEF AlertInserted, AlertFails, AfterAlertError, AfterError, cursors, batches,
     history
<1>3. StopDone => Safe'
  BY <1>1, Names DEF StopDone, external, cursors, batches, history
<1>4. ASSUME NEW g \in Groups PROVE LoopEnds(g) \/ Commit(g) => Safe'
  BY <1>1, Names DEF LoopEnds, Commit, external, cursors, batches, history
<1>. QED
  BY <1>2, <1>3, <1>4

LEMMA SafeStopFlush == TypeOK /\ Safe /\ StopFlush => Safe'
<1>. SUFFICES ASSUME TypeOK, Safe, StopFlush PROVE Safe'
  OBVIOUS
<1>1. /\ \/ pc'["stop"] = "insert_metrics" /\ snap'["stop"] = batch["metrics"]
         \/ /\ batch["metrics"] = {}
            /\ \/ pc'["stop"] = "insert_windowed" /\ snap'["stop"] = batch["windowed"]
               \/ pc'["stop"] = "close" /\ snap'["stop"] = {}
      /\ \A j \in Tasks : j # "stop" => pc'[j] = pc[j] /\ snap'[j] = snap[j]
  BY FlushMoves, Names DEF StopFlush, TypeOK
<1>2. batch["metrics"] \subseteq Offsets("metrics") /\ batch["windowed"] \subseteq Offsets("windowed")
  BY BatchInLog, Names DEF Safe
<1>3. Allowed("stop", pc'["stop"]) /\ Holds("stop", pc'["stop"], snap'["stop"], batch["metrics"])
  BY <1>1 DEF Allowed, Holds
<1>4. \A t \in Tables : pc'["stop"] = InsertOf(t) => snap'["stop"] \subseteq Offsets(t)
  BY <1>1, <1>2 DEF InsertOf, Tables
<1>5. /\ UNCHANGED <<stored, phase, running, base, delivered, batch, keys>>
      /\ pc["stop"] = "flush"
  BY DEF StopFlush, external, cursors, batches, history
<1>. QED
  BY <1>1, <1>3, <1>4, <1>5, InPlace, Names, SafeMove

(* Taking a record advances one cursor.                                    *)
LEMMA YieldsMoves ==
  ASSUME TypeOK, NEW t \in Topics, Yields(t)
  PROVE  /\ delivered'[t] = delivered[t] + 1
         /\ \A u \in Topics : u # t => delivered'[u] = delivered[u]
         /\ \A u \in Topics : delivered[u] <= delivered'[u] /\ delivered'[u] \in Nat
         /\ UNCHANGED <<stored, phase, running, base>>
         /\ running /\ pc[GroupOf(t)] = "loop"
<1>1. delivered \in [Topics -> Nat]
  BY DEF TypeOK, CursorTypes
<1>. QED
  BY <1>1 DEF Yields, external, history

LEMMA SafeHandleAlert == TypeOK /\ Safe /\ HandleAlert => Safe'
<1>. SUFFICES ASSUME TypeOK, Safe, HandleAlert PROVE Safe'
  OBVIOUS
<1>1. /\ \/ pc'["main"] = "insert_metrics" /\ snap'["main"] = batch["metrics"]
         \/ /\ batch["metrics"] = {}
            /\ \/ pc'["main"] = "insert_windowed" /\ snap'["main"] = batch["windowed"]
               \/ pc'["main"] = "insert_alert" /\ snap'["main"] = {}
      /\ \A j \in Tasks : j # "main" => pc'[j] = pc[j] /\ snap'[j] = snap[j]
  BY FlushMoves, Names DEF HandleAlert, TypeOK
<1>2. batch["metrics"] \subseteq Offsets("metrics") /\ batch["windowed"] \subseteq Offsets("windowed")
  BY BatchInLog, Names DEF Safe
<1>3. Allowed("main", pc'["main"]) /\ Holds("main", pc'["main"], snap'["main"], batch["metrics"])
  BY <1>1 DEF Allowed, Holds
<1>4. \A t \in Tables : pc'["main"] = InsertOf(t) => snap'["main"] \subseteq Offsets(t)
  BY <1>1, <1>2 DEF InsertOf, Tables
<1>5. /\ UNCHANGED <<stored, phase, running, base, batch, keys>>
      /\ pc["main"] = "loop"
      /\ \A u \in Topics : delivered[u] <= delivered'[u] /\ delivered'[u] \in Nat
      /\ delivered'["metrics"] = delivered["metrics"]
  BY YieldsMoves, Names DEF HandleAlert, batches, GroupOf
<1>. QED
  BY <1>1, <1>3, <1>4, <1>5, InPlace, Names, SafeMove

LEMMA SafeSkipMalformed == TypeOK /\ Safe /\ SkipMalformed => Safe'
<1>. SUFFICES ASSUME TypeOK, Safe, SkipMalformed PROVE Safe'
  OBVIOUS
<1>1. /\ pc'["windowed"] = "commit" /\ snap'["windowed"] = {}
      /\ \A j \in Tasks : j # "windowed" => pc'[j] = pc[j] /\ snap'[j] = snap[j]
  BY AwaitMoves, Names DEF SkipMalformed, TypeOK
<1>2. /\ UNCHANGED <<stored, phase, running, base, batch, keys>>
      /\ pc["windowed"] = "loop"
      /\ \A u \in Topics : delivered[u] <= delivered'[u] /\ delivered'[u] \in Nat
      /\ delivered'["metrics"] = delivered["metrics"]
  BY YieldsMoves, Names DEF SkipMalformed, batches, GroupOf
<1>3. Allowed("windowed", "commit")
  BY DEF Allowed
<1>. QED
  BY <1>1, <1>2, <1>3, InPlace, Names, SafeMove DEF InsertOf

(* Adding a record to a batch: it, or its twin, is in the batch after.     *)
LEMMA AddedMoves ==
  ASSUME KeysAgree, NEW t \in Tables, NEW o,
         batch'[t] = Added(t, o), keys'[t] = keys[t] \cup {Key(t, o)}
  PROVE  /\ batch[t] \subseteq batch'[t] /\ batch'[t] \subseteq batch[t] \cup {o}
         /\ keys'[t] = {Key(t, p) : p \in batch'[t]}
         /\ \A q, p \in batch'[t] : Key(t, q) = Key(t, p) => q = p
         /\ \E p \in batch'[t] : Key(t, p) = Key(t, o)
<1>1. /\ keys[t] = {Key(t, p) : p \in batch[t]}
      /\ \A q, p \in batch[t] : Key(t, q) = Key(t, p) => q = p
  BY DEF KeysAgree
<1>2. CASE Key(t, o) \in keys[t]
  BY <1>1, <1>2 DEF Added
<1>3. CASE Key(t, o) \notin keys[t]
  <2>1. batch'[t] = batch[t] \cup {o}
    BY <1>3 DEF Added
  <2>. QED
    BY <1>1, <1>3, <2>1
<1>. QED
  BY <1>2, <1>3

LEMMA SafeBatch == ASSUME NEW t \in Tables PROVE TypeOK /\ Safe /\ Batch(t) => Safe'
<1>. SUFFICES ASSUME TypeOK, Safe, Batch(t) PROVE Safe'
  OBVIOUS
<1>. DEFINE o == delivered[t] + 1
            k == GroupOf(t)
<1>1. /\ k \in Groups /\ k \in Tasks /\ t \in Topics /\ pc[k] = "loop" /\ running
      /\ UNCHANGED <<stored, phase, running, base>>
      /\ delivered'[t] = o
      /\ \A u \in Topics : u # t => delivered'[u] = delivered[u]
      /\ \A u \in Topics : delivered[u] <= delivered'[u] /\ delivered'[u] \in Nat
  BY YieldsMoves, Names DEF Batch
<1>2. /\ batch'[t] = Added(t, o) /\ keys'[t] = keys[t] \cup {Key(t, o)}
      /\ \A u \in Tables : u # t => batch'[u] = batch[u] /\ keys'[u] = keys[u]
  BY DEF Batch, TypeOK, ProcessTypes
<1>3. /\ batch[t] \subseteq batch'[t] /\ batch'[t] \subseteq batch[t] \cup {o}
      /\ keys'[t] = {Key(t, p) : p \in batch'[t]}
      /\ \A q, p \in batch'[t] : Key(t, q) = Key(t, p) => q = p
      /\ \E p \in batch'[t] : Key(t, p) = Key(t, o)
  BY <1>2, AddedMoves DEF Safe
<1>4. KeysAgree'
  BY <1>2, <1>3 DEF Safe, KeysAgree
<1>5. NoMetricDropped'
  <2>1. CASE t = "metrics"
    <3>1. base["metrics"] \in Nat /\ delivered["metrics"] \in Nat
      BY Names DEF TypeOK, CursorTypes
    <3>2. ASSUME NEW r \in base'["metrics"] + 1 .. delivered'["metrics"], phase' = "up",
                 ~RowStored("metrics", r)'
          PROVE  \E p \in batch'["metrics"] : Key("metrics", p) = Key("metrics", r)
      <4>1. CASE r = o
        BY <1>3, <2>1, <4>1
      <4>2. CASE r # o
        <5>1. r \in base["metrics"] + 1 .. delivered["metrics"]
          BY <1>1, <2>1, <3>1, <3>2, <4>2
        <5>. QED
          BY <1>1, <1>3, <2>1, <3>2, <5>1 DEF Safe, NoMetricDropped, RowStored
      <4>. QED
        BY <4>1, <4>2
    <3>. QED
      BY <3>2 DEF NoMetricDropped
  <2>2. CASE t # "metrics"
    BY <1>1, <1>2, <2>2, Names, DroppedFrame DEF Safe
  <2>. QED
    BY <2>1, <2>2
<1>6. \A u \in Tables : batch'[u] \subseteq base'[u] + 1 .. delivered'[u]
  <2>1. ASSUME NEW u \in Tables PROVE batch'[u] \subseteq base'[u] + 1 .. delivered'[u]
    <3>1. base[u] \in Nat /\ delivered[u] \in Nat /\ base[u] <= delivered[u]
      BY Names DEF TypeOK, CursorTypes, CursorsOrdered
    <3>2. batch[u] \subseteq base[u] + 1 .. delivered[u]
      BY DEF Safe, RecordsInLog
    <3>3. CASE u = t
      BY <1>1, <1>3, <3>1, <3>2, <3>3
    <3>4. CASE u # t
      BY <1>1, <1>2, <3>2, <3>4, Names
    <3>. QED
      BY <3>3, <3>4
  <2>. QED
    BY <2>1
<1>7. \/ /\ pc'[k] = InsertOf(t) /\ snap'[k] = batch'[t]
         /\ \A j \in Tasks : j # k => pc'[j] = pc[j] /\ snap'[j] = snap[j]
      \/ UNCHANGED <<pc, snap>>
  <2>1. CASE UNCHANGED <<pc, snap>>
    BY <2>1
  <2>2. CASE Await(k, InsertOf(t), Added(t, o))
    BY <1>1, <1>2, <2>2, AwaitMoves DEF TypeOK
  <2>. QED
    BY <2>1, <2>2 DEF Batch
<1>8. batch'[t] \subseteq Offsets(t)
  <2>1. TypeOK'
    BY BatchTypes
  <2>2. /\ base'[t] \in Nat /\ delivered'[t] \in Nat /\ position'[t] \in Nat
        /\ logEnd'[t] \in Nat /\ Len(Log[t]) \in Nat
        /\ delivered'[t] <= position'[t] /\ position'[t] <= logEnd'[t] /\ logEnd'[t] <= Len(Log[t])
    BY <1>1, <2>1, LogLength DEF TypeOK, CursorTypes, CursorsOrdered
  <2>. QED
    BY <1>6, <2>2 DEF Offsets
<1>9. RecordsInLog'
  <2>1. \A u \in Tables : pc'[k] = InsertOf(u) => snap'[k] \subseteq Offsets(u)
    <3>1. CASE pc'[k] = InsertOf(t) /\ snap'[k] = batch'[t]
      BY <1>8, <3>1 DEF InsertOf, Tables
    <3>2. CASE UNCHANGED <<pc, snap>>
      BY <1>1, <3>2 DEF InsertOf
    <3>. QED
      BY <1>7, <3>1, <3>2
  <2>2. \A j \in Tasks : j # k => pc'[j] = pc[j] /\ snap'[j] = snap[j]
    BY <1>7
  <2>3. \A u \in Tables : stored'[u] \subseteq Offsets(u)
    BY <1>1 DEF Safe, RecordsInLog
  <2>. QED
    BY <1>1, <1>6, <2>1, <2>2, <2>3, LogMoves DEF Safe
<1>10. TasksExclude'
  <2>1. Allowed(k, pc'[k])
    BY <1>1, <1>7 DEF Allowed, InsertOf, GroupOf, Tables
  <2>2. \A j \in Tasks : j # k => pc'[j] = pc[j]
    BY <1>7
  <2>. QED
    BY <1>1, <2>1, <2>2, ExcludeMoves DEF Safe
<1>11. FlushWhole'
  <2>1. CASE t = "metrics"
    <3>1. k = "main" /\ Holds("main", pc'["main"], snap'["main"], batch'["metrics"])
      BY <1>1, <1>7, <2>1 DEF GroupOf, InsertOf, Holds
    <3>2. \A j \in Tasks : j # k => pc'[j] = pc[j] /\ snap'[j] = snap[j]
      BY <1>7
    <3>. QED
      BY <1>1, <3>1, <3>2, WholeMoves DEF Safe
  <2>2. CASE t = "windowed"
    BY <1>2, <1>7, <2>2, Names, WholeFrame DEF GroupOf, Safe
  <2>. QED
    BY <2>1, <2>2 DEF Tables
<1>. QED
  BY <1>4, <1>5, <1>9, <1>10, <1>11 DEF Safe

(* An insert of records of the log only adds records of the log.           *)
LEMMA StoredMoves ==
  ASSUME TypeOK, Safe, NEW t \in Tables, NEW S \in SUBSET Offsets(t),
         NEW U \in Upserts(t, stored[t], S), stored' = [stored EXCEPT ![t] = U]
  PROVE  /\ \A u \in Tables : stored[u] \subseteq stored'[u] /\ stored'[u] \subseteq Offsets(u)
         /\ \A o \in S : \E p \in stored'[t] : Row(t, p) = Row(t, o)
<1>1. S \in SUBSET Nat
  BY Names, LogLength DEF Offsets
<1>2. /\ \A u \in Tables : u # t => stored'[u] = stored[u]
      /\ stored[t] \subseteq stored'[t]
      /\ stored'[t] \subseteq stored[t] \cup S
      /\ \A o \in S : \E p \in stored'[t] : Row(t, p) = Row(t, o)
  BY <1>1, UpsertMoves
<1>3. \A u \in Tables : stored[u] \subseteq Offsets(u)
  BY DEF Safe, RecordsInLog
<1>. QED
  BY <1>2, <1>3

(* The table after the metrics insert holds a row for every metric taken.  *)
LEMMA InsertedKeeps ==
  ASSUME TypeOK, Safe, phase = "up", stored["metrics"] \subseteq stored'["metrics"],
         \A p \in batch["metrics"] :
            \E q \in stored'["metrics"] : Row("metrics", q) = Row("metrics", p)
  PROVE  \A o \in base["metrics"] + 1 .. delivered["metrics"] :
            \E q \in stored'["metrics"] : Row("metrics", q) = Row("metrics", o)
<1>. SUFFICES ASSUME NEW o \in base["metrics"] + 1 .. delivered["metrics"]
              PROVE  \E q \in stored'["metrics"] : Row("metrics", q) = Row("metrics", o)
  OBVIOUS
<1>1. CASE RowStored("metrics", o)
  BY <1>1 DEF RowStored
<1>2. CASE \E p \in batch["metrics"] : Key("metrics", p) = Key("metrics", o)
  <2>1. PICK p \in batch["metrics"] : Key("metrics", p) = Key("metrics", o)
    BY <1>2
  <2>2. p \in Offsets("metrics")
    BY BatchInLog, Names DEF Safe
  <2>3. o \in Offsets("metrics")
    <3>1. /\ base["metrics"] \in Nat /\ delivered["metrics"] \in Nat
          /\ position["metrics"] \in Nat /\ logEnd["metrics"] \in Nat
          /\ delivered["metrics"] <= position["metrics"]
          /\ position["metrics"] <= logEnd["metrics"] /\ logEnd["metrics"] <= Len(Log["metrics"])
          /\ Len(Log["metrics"]) \in Nat
      BY Names, LogLength DEF TypeOK, CursorTypes, CursorsOrdered
    <3>. QED
      BY <3>1 DEF Offsets
  <2>4. Row("metrics", p) = Row("metrics", o)
    BY <2>1, <2>2, <2>3, Names, LogAssumption
  <2>. QED
    BY <2>1, <2>4
<1>. QED
  BY <1>1, <1>2 DEF Safe, NoMetricDropped

LEMMA SafeInserted ==
  ASSUME NEW k \in Tasks, NEW t \in Tables PROVE TypeOK /\ Safe /\ Inserted(k, t) => Safe'
<1>. SUFFICES ASSUME TypeOK, Safe, Inserted(k, t) PROVE Safe'
  OBVIOUS
<1>1. /\ pc[k] = InsertOf(t) /\ pc[k] \notin {"off", "done"}
      /\ UNCHANGED <<phase, running, base, delivered>>
  BY DEF Inserted, InsertOf, cursors, history
<1>2. /\ batch'[t] = {} /\ keys'[t] = {}
      /\ \A u \in Tables : u # t => batch'[u] = batch[u] /\ keys'[u] = keys[u]
  BY DEF Inserted, KeysCleared, TypeOK, ProcessTypes
<1>3. snap[k] \in SUBSET Offsets(t)
  BY <1>1 DEF Safe, RecordsInLog
<1>4. PICK U \in Upserts(t, stored[t], snap[k]) : stored' = [stored EXCEPT ![t] = U]
  BY DEF Inserted
<1>5. /\ \A u \in Tables : stored[u] \subseteq stored'[u] /\ stored'[u] \subseteq Offsets(u)
      /\ \A o \in snap[k] : \E p \in stored'[t] : Row(t, p) = Row(t, o)
  BY <1>3, <1>4, StoredMoves
<1>6. t = "metrics" => k \in {"main", "stop"} /\ snap[k] = batch["metrics"]
  BY <1>1 DEF InsertOf, Safe, TasksExclude, FlushWhole, Tasks, Groups
<1>7. /\ \/ t = "metrics" /\ pc'[k] = "insert_windowed" /\ snap'[k] = batch["windowed"]
         \/ pc'[k] = AfterFlush(k) /\ snap'[k] = {}
      /\ \A j \in Tasks : j # k => pc'[j] = pc[j] /\ snap'[j] = snap[j]
  <2>1. CASE t = "metrics"
    BY <2>1, WindowedMoves DEF Inserted, TypeOK
  <2>2. CASE t # "metrics"
    BY <2>2, AwaitMoves DEF Inserted, TypeOK
  <2>. QED
    BY <2>1, <2>2
<1>8. Allowed(k, pc'[k])
  BY <1>6, <1>7 DEF Allowed, AfterFlush, Tasks, Groups
<1>9. TasksExclude' /\ phase = "up"
  BY <1>1, <1>7, <1>8, ExcludeMoves DEF Safe
<1>10. KeysAgree'
  BY <1>2 DEF Safe, KeysAgree
<1>11. NoMetricDropped'
  <2>1. CASE t = "metrics"
    BY <1>1, <1>5, <1>6, <1>9, <2>1, Names, InsertedKeeps DEF NoMetricDropped, RowStored
  <2>2. CASE t # "metrics"
    BY <1>1, <1>2, <1>5, <2>2, Names, DroppedFrame DEF Safe
  <2>. QED
    BY <2>1, <2>2
<1>12. RecordsInLog'
  <2>1. \A u \in Tables : pc'[k] = InsertOf(u) => snap'[k] \subseteq Offsets(u)
    <3>1. batch["windowed"] \subseteq Offsets("windowed")
      BY BatchInLog, Names DEF Safe
    <3>. QED
      BY <1>7, <3>1 DEF InsertOf, AfterFlush, Tables
  <2>2. \A u \in Tables : batch'[u] \subseteq base'[u] + 1 .. delivered'[u]
    BY <1>1, <1>2 DEF Safe, RecordsInLog
  <2>. QED
    BY <1>5, <1>7, <2>1, <2>2, LogMoves DEF Safe
<1>13. FlushWhole'
  <2>1. CASE k \in {"main", "stop"}
    <3>1. batch'["metrics"] = {}
      BY <1>1, <1>2, <2>1, Names DEF InsertOf, Tables, Safe, FlushWhole
    <3>2. Holds(k, pc'[k], snap'[k], batch'["metrics"])
      BY <1>7, <2>1, <3>1 DEF Holds, AfterFlush
    <3>. QED
      BY <1>1, <1>7, <2>1, <3>2, WholeMoves DEF Safe
  <2>2. CASE k \notin {"main", "stop"}
    BY <1>2, <1>6, <1>7, <2>2, Names, WholeFrame DEF Safe, Tables
  <2>. QED
    BY <2>1, <2>2
<1>. QED
  BY <1>9, <1>10, <1>11, <1>12, <1>13 DEF Safe

LEMMA SafeInsertFails ==
  ASSUME NEW k \in Tasks, NEW t \in Tables PROVE TypeOK /\ Safe /\ InsertFails(k, t) => Safe'
<1>. SUFFICES ASSUME TypeOK, Safe, InsertFails(k, t) PROVE Safe'
  OBVIOUS
<1>1. /\ pc[k] = InsertOf(t) /\ pc[k] \notin {"off", "done"}
      /\ UNCHANGED <<phase, running, base, delivered, batch, keys>>
  BY DEF InsertFails, InsertOf, cursors, batches, history
<1>2. PICK S \in Written(t, snap[k]) : \E U \in Upserts(t, stored[t], S) :
         stored' = [stored EXCEPT ![t] = U]
  BY DEF InsertFails
<1>3. S \in SUBSET Offsets(t)
  BY <1>1, WrittenSubset DEF Safe, RecordsInLog
<1>4. \A u \in Tables : stored[u] \subseteq stored'[u] /\ stored'[u] \subseteq Offsets(u)
  BY <1>2, <1>3, StoredMoves
<1>5. /\ pc'[k] = AfterError(k) /\ snap'[k] = {}
      /\ \A j \in Tasks : j # k => pc'[j] = pc[j] /\ snap'[j] = snap[j]
  BY AwaitMoves DEF InsertFails, TypeOK
<1>6. /\ Allowed(k, pc'[k]) /\ Holds(k, pc'[k], snap'[k], batch["metrics"])
      /\ \A u \in Tables : pc'[k] # InsertOf(u)
  BY <1>5 DEF AfterError, Allowed, Holds, InsertOf
<1>7. \A u \in Tables : delivered[u] \in Nat /\ delivered[u] <= delivered[u]
  BY InPlace
<1>. QED
  BY <1>1, <1>4, <1>5, <1>6, <1>7, Names, SafeMove

(* Whatever the cancelled await did, the tables only grew, in the log.     *)
LEMMA CancelStores ==
  ASSUME TypeOK, Safe, CancelMain
  PROVE  \A u \in Tables : stored[u] \subseteq stored'[u] /\ stored'[u] \subseteq Offsets(u)
<1>1. CASE UNCHANGED stored
  BY <1>1, InPlace
<1>2. CASE \E t \in Tables :
             /\ pc["main"] = InsertOf(t)
             /\ \E S \in Written(t, snap["main"]) : \E U \in Upserts(t, stored[t], S) :
                  stored' = [stored EXCEPT ![t] = U]
  <2>1. PICK t \in Tables :
          /\ pc["main"] = InsertOf(t)
          /\ \E S \in Written(t, snap["main"]) : \E U \in Upserts(t, stored[t], S) :
               stored' = [stored EXCEPT ![t] = U]
    BY <1>2
  <2>2. snap["main"] \subseteq Offsets(t)
    BY <2>1, Names DEF Safe, RecordsInLog
  <2>3. PICK S \in Written(t, snap["main"]) : \E U \in Upserts(t, stored[t], S) :
               stored' = [stored EXCEPT ![t] = U]
    BY <2>1
  <2>4. S \in SUBSET Offsets(t)
    BY <2>2, <2>3, WrittenSubset
  <2>. QED
    BY <2>3, <2>4, StoredMoves
<1>. QED
  BY <1>1, <1>2 DEF CancelMain

LEMMA SafeStop == TypeOK /\ Safe /\ Stop => Safe'
<1>. SUFFICES ASSUME TypeOK, Safe, Stop PROVE Safe'
  OBVIOUS
<1>1. /\ UNCHANGED <<phase, delivered, base, batch, keys>>
      /\ running' = FALSE /\ phase = "up"
      /\ pc'["main"] = "done" /\ pc'["stop"] = "flush" /\ pc'["windowed"] = pc["windowed"]
      /\ \A j \in Tasks : j # "main" => snap'[j] = snap[j]
  BY DEF Stop, batches, history, TypeOK, TaskTypes, Tasks, Groups
<1>2. \A u \in Tables : stored[u] \subseteq stored'[u] /\ stored'[u] \subseteq Offsets(u)
  BY CancelStores DEF Stop
<1>3. KeysAgree' /\ NoMetricDropped'
  BY <1>1, <1>2, KeysFrame, DroppedFrame, Names DEF Safe, batches
<1>4. RecordsInLog'
  BY <1>1, <1>2, Names DEF Safe, RecordsInLog, InsertOf, Tasks, Groups
<1>5. TasksExclude' /\ FlushWhole'
  BY <1>1 DEF Safe, TasksExclude, FlushWhole
<1>. QED
  BY <1>3, <1>4, <1>5 DEF Safe

LEMMA NextSafe == TypeOK /\ Safe /\ [Next]_vars => Safe'
<1>. SUFFICES ASSUME TypeOK, Safe, [Next]_vars PROVE Safe'
  OBVIOUS
<1>1. CASE MainStep
  BY <1>1, Names, SafeIdle, SafeTaskStep, SafeBatch, SafeHandleAlert, SafeInserted,
     SafeInsertFails DEF MainStep
<1>2. CASE WindowedStep
  BY <1>2, Names, SafeIdle, SafeTaskStep, SafeBatch, SafeSkipMalformed, SafeInserted,
     SafeInsertFails DEF WindowedStep
<1>3. CASE StopStep
  BY <1>3, Names, SafeIdle, SafeTaskStep, SafeStopFlush, SafeInserted, SafeInsertFails
     DEF StopStep
<1>4. CASE Environment
  BY <1>4, SafeStart, SafeExit, SafeStop, SafeStopWhileConnecting, SafeIdle DEF Environment
<1>5. CASE UNCHANGED vars
  BY <1>5, SafeFrame DEF vars, external, cursors, batches, history
<1>. QED
  BY <1>1, <1>2, <1>3, <1>4, <1>5, SafeConnected DEF Next

-----------------------------------------------------------------------------
(* After stop().                                                           *)

(* An await that returns in a loop leaves the entry of stop() alone.       *)
LEMMA LoopsLeaveStop ==
  TypeOK /\ (MainStep \/ WindowedStep) => pc'["stop"] = pc["stop"]
<1>. SUFFICES ASSUME TypeOK, MainStep \/ WindowedStep PROVE pc'["stop"] = pc["stop"]
  OBVIOUS
<1>1. ASSUME NEW g \in Groups, NEW at, NEW S, Await(g, at, S) PROVE pc'["stop"] = pc["stop"]
  BY <1>1, AwaitMoves, Names DEF Groups, TypeOK
<1>. QED
  BY <1>1, Names DEF MainStep, WindowedStep, Poll, LoopEnds, Commit, Batch, GroupOf, HandleAlert,
     FlushPending, AwaitWindowedThen, SkipMalformed, Inserted, InsertFails, AlertInserted, AlertFails

(* What can step once stop() is done.                                      *)
LEMMA DoneMoves ==
  ASSUME TypeOK, Safe, LoopsQuiet, [Next]_vars, pc["stop"] = "done"
  PROVE  /\ UNCHANGED <<committed, stored, alertRows>>
         /\ \/ UNCHANGED <<pc, closed>>
            \/ UNCHANGED closed /\ \E g \in Groups, at \in {"loop", "done"} : Await(g, at, {})
            \/ Connected \/ Exit
<1>1. /\ ~running
      /\ \A g \in Groups : pc[g] \in {"off", "loop", "done"} \/ (pc[g] = "commit" /\ closed[g])
      /\ pc["stop"] = "done"
  BY DEF Safe, TasksExclude, LoopsQuiet
<1>2. CASE MainStep
  BY <1>1, <1>2, Names DEF MainStep, Poll, LoopEnds, Commit, MayCommit, Batch, Yields, HandleAlert,
     Inserted, InsertFails, InsertOf, AlertInserted, AlertFails, external
<1>3. CASE WindowedStep
  BY <1>1, <1>3, Names DEF WindowedStep, Poll, LoopEnds, Commit, MayCommit, Batch, Yields,
     SkipMalformed, Inserted, InsertFails, InsertOf, external
<1>4. CASE StopStep
  BY <1>1, <1>4 DEF StopStep, StopFlush, StopDone, StopClose, Inserted, InsertFails, InsertOf
<1>5. CASE Environment
  BY <1>1, <1>5 DEF Environment, Start, Exit, Stop, StopWhileConnecting, Produce, external,
     Safe, TasksExclude
<1>6. CASE Connected \/ UNCHANGED vars
  BY <1>6 DEF Connected, vars, external
<1>. QED
  BY <1>2, <1>3, <1>4, <1>5, <1>6 DEF Next

(* How stop() comes to be done.                                            *)
LEMMA BecomesDone ==
  ASSUME TypeOK, Safe, [Next]_vars, pc["stop"] # "done", pc'["stop"] = "done"
  PROVE  StopDone \/ StopWhileConnecting
<1>1. CASE MainStep \/ WindowedStep
  BY <1>1, LoopsLeaveStop
<1>2. ASSUME NEW t \in Tables, Inserted("stop", t) \/ InsertFails("stop", t) PROVE FALSE
  <2>1. CASE Inserted("stop", t)
    BY <2>1, AwaitMoves, WindowedMoves, Names DEF Inserted, AfterFlush, TypeOK
  <2>2. CASE InsertFails("stop", t)
    BY <2>2, AwaitMoves, Names DEF InsertFails, AfterError, TypeOK
  <2>. QED
    BY <1>2, <2>1, <2>2
<1>3. CASE StopStep
  BY <1>2, <1>3, FlushMoves, Names DEF StopStep, StopFlush, StopClose, TypeOK
<1>4. CASE Environment
  BY <1>4, Names DEF Environment, Start, Exit, Stop, Produce, TypeOK, TaskTypes
<1>5. CASE Connected \/ UNCHANGED vars
  BY <1>5, Names DEF Connected, vars
<1>. QED
  BY <1>1, <1>3, <1>4, <1>5 DEF Next

LEMMA QuietStep == TypeOK /\ Safe /\ LoopsQuiet /\ [Next]_vars => LoopsQuiet'
<1>. SUFFICES ASSUME TypeOK, Safe, LoopsQuiet, [Next]_vars, pc'["stop"] = "done"
              PROVE  LoopsQuiet'
  BY DEF LoopsQuiet
<1>0. TaskTypes /\ Groups \subseteq Tasks /\ "stop" \in Tasks /\ "stop" \notin Groups
  BY Names DEF TypeOK, Groups
<1>1. CASE pc["stop"] # "done"
  <2>1. StopDone \/ StopWhileConnecting
    BY <1>1, BecomesDone
  <2>2. \A g \in Groups : pc'[g] = pc[g]
    BY <1>0, <2>1, AwaitMoves DEF StopDone, StopWhileConnecting
  <2>3. CASE StopDone
    <3>1. \A g \in Groups : closed'[g]
      BY <2>3 DEF StopDone
    <3>2. \A g \in Groups : pc[g] \in {"off", "loop", "done", "commit"}
      BY <2>3 DEF StopDone, PoolClosed, Safe, TasksExclude, Groups
    <3>. QED
      BY <2>2, <3>1, <3>2 DEF LoopsQuiet
  <2>4. CASE StopWhileConnecting
    BY <2>2, <2>4 DEF StopWhileConnecting, Safe, TasksExclude, LoopsQuiet
  <2>. QED
    BY <2>1, <2>3, <2>4
<1>2. CASE pc["stop"] = "done"
  <2>1. CASE UNCHANGED <<pc, closed>>
    BY <2>1 DEF LoopsQuiet
  <2>2. CASE UNCHANGED closed /\ \E g \in Groups, at \in {"loop", "done"} : Await(g, at, {})
    <3>1. PICK g \in Groups, at \in {"loop", "done"} : Await(g, at, {})
      BY <2>2
    <3>2. pc'[g] = at /\ \A h \in Groups : h # g => pc'[h] = pc[h]
      BY <1>0, <3>1, AwaitMoves
    <3>. QED
      BY <1>2, <2>2, <3>2 DEF LoopsQuiet
  <2>3. CASE Connected \/ Exit
    BY <1>0, <2>3 DEF Connected, Exit, LoopsQuiet
  <2>. QED
    BY <1>2, <2>1, <2>2, <2>3, DoneMoves
<1>. QED
  BY <1>1, <1>2

-----------------------------------------------------------------------------
(* Alerts.                                                                 *)

(* A step that inserts no alert and starts no life.                        *)
LEMMA FreshFrame ==
  ASSUME AlertsFresh, UNCHANGED <<alertRows, phase, lives>>,
         delivered'["alerts"] = delivered["alerts"],
         pc'["main"] = "insert_alert" => serving' = "alerts",
         /\ serving' = "alerts"
         /\ pc'["main"] \in {"insert_metrics", "insert_windowed", "insert_alert"}
         => /\ serving = "alerts"
            /\ pc["main"] \in {"insert_metrics", "insert_windowed", "insert_alert"}
  PROVE  AlertsFresh'
<1>1. ASSUME NEW o PROVE ToInsert(o)' => ToInsert(o)
  BY DEF ToInsert
<1>. QED
  BY <1>1 DEF AlertsFresh, Offsets

(* The steps of the other tasks.                                           *)
LEMMA FreshElsewhere ==
  ASSUME TypeOK, AlertsFresh, WindowedStep \/ StopStep \/ \E t \in Topics : Produce(t)
  PROVE  AlertsFresh'
<1>0. TaskTypes /\ Groups \subseteq Tasks /\ Tasks = {"main", "windowed", "stop"}
  BY Names DEF TypeOK, Tasks, Groups
<1>1. ASSUME NEW k \in Tasks, k # "main", NEW at, NEW S, Await(k, at, S)
      PROVE  pc'["main"] = pc["main"]
  BY <1>0, <1>1, AwaitMoves
<1>2. delivered \in [Topics -> Nat] /\ "windowed" # "alerts"
  BY DEF TypeOK, CursorTypes
<1>3. CASE WindowedStep
  <2>1. pc'["main"] = pc["main"]
    BY <1>0, <1>1, <1>3 DEF WindowedStep, Poll, LoopEnds, Commit, Batch, GroupOf, SkipMalformed,
       Inserted, InsertFails
  <2>2. delivered'["alerts"] = delivered["alerts"]
    BY <1>2, <1>3, Names DEF WindowedStep, Poll, LoopEnds, Commit, Batch, Yields, SkipMalformed,
       Inserted, InsertFails, cursors
  <2>3. UNCHANGED <<serving, alertRows, phase, lives>>
    BY <1>3 DEF WindowedStep, Poll, LoopEnds, Commit, Batch, Yields, SkipMalformed, Inserted,
       InsertFails, cursors, external, history
  <2>. QED
    BY <2>1, <2>2, <2>3, FreshFrame DEF AlertsFresh
<1>4. CASE StopStep
  <2>1. pc'["main"] = pc["main"]
    BY <1>0, <1>1, <1>4 DEF StopStep, StopFlush, StopDone, StopClose, FlushPending,
       AwaitWindowedThen, Inserted, InsertFails
  <2>2. UNCHANGED <<serving, delivered, alertRows, phase, lives>>
    BY <1>4 DEF StopStep, StopFlush, StopDone, StopClose, Inserted, InsertFails, cursors, external,
       history
  <2>. QED
    BY <2>1, <2>2, FreshFrame DEF AlertsFresh
<1>5. CASE \E t \in Topics : Produce(t)
  BY <1>5, FreshFrame DEF Produce, cursors, history, AlertsFresh
<1>. QED
  BY <1>3, <1>4, <1>5

(* The steps of the main loop that insert no alert.                        *)
LEMMA FreshMain ==
  ASSUME TypeOK, AlertsFresh,
         Poll("main") \/ LoopEnds("main") \/ Commit("main") \/ Batch("metrics")
           \/ \E t \in Tables : Inserted("main", t) \/ InsertFails("main", t)
  PROVE  AlertsFresh'
<1>0. TaskTypes /\ "main" \in Tasks /\ delivered \in [Topics -> Nat]
  BY Names DEF TypeOK, CursorTypes
<1>1. CASE Poll("main")
  BY <1>1, FreshFrame DEF Poll, external, history
<1>2. CASE LoopEnds("main") \/ Commit("main")
  BY <1>0, <1>2, FreshFrame, AwaitMoves DEF LoopEnds, Commit, external, cursors, history
<1>3. CASE Batch("metrics")
  <2>1. pc'["main"] # "insert_alert"
    BY <1>0, <1>3, AwaitMoves, Names DEF Batch, Yields, GroupOf, InsertOf
  <2>. QED
    BY <1>0, <1>3, <2>1, FreshFrame DEF Batch, Yields, external, history
<1>4. ASSUME NEW t \in Tables, Inserted("main", t) PROVE AlertsFresh'
  <2>1. /\ pc["main"] \in {"insert_metrics", "insert_windowed"}
        /\ UNCHANGED <<serving, delivered, alertRows, phase, lives>>
    BY <1>4 DEF Inserted, InsertOf, cursors, history
  <2>2. pc'["main"] = "insert_alert" => serving = "alerts"
    BY <1>0, <1>4, AwaitMoves, WindowedMoves DEF Inserted, AfterFlush
  <2>. QED
    BY <2>1, <2>2, FreshFrame
<1>5. ASSUME NEW t \in Tables, InsertFails("main", t) PROVE AlertsFresh'
  BY <1>0, <1>5, FreshFrame, AwaitMoves DEF InsertFails, AfterError, cursors, history
<1>. QED
  BY <1>1, <1>2, <1>3, <1>4, <1>5

(* The step that takes an alert.                                           *)
LEMMA FreshTaken ==
  ASSUME TypeOK, Safe, AlertsFresh, HandleAlert
  PROVE  AlertsFresh'
<1>1. /\ delivered["alerts"] \in Nat /\ delivered'["alerts"] = delivered["alerts"] + 1
      /\ serving' = "alerts" /\ UNCHANGED <<alertRows, phase, lives>>
  BY Names DEF HandleAlert, Yields, TypeOK, CursorTypes, external, history
<1>2. phase = "up"
  BY Names DEF HandleAlert, Yields, GroupOf, Safe, TasksExclude
<1>3. \A o \in Offsets("alerts") : ToInsert(o)' => ToInsert(o)
  BY <1>1, <1>2, LogLength, Names DEF ToInsert, Offsets
<1>. QED
  BY <1>1, <1>3 DEF AlertsFresh, Offsets

(* The steps that may insert one: afterwards it is not to be inserted.     *)
LEMMA FreshInserted ==
  ASSUME TypeOK, Safe, AlertsFresh, UNCHANGED <<phase, lives, delivered, serving>>,
         UNCHANGED alertRows \/ (pc["main"] = "insert_alert" /\ AddAlertRow),
         pc'["main"] \notin {"insert_metrics", "insert_windowed", "insert_alert"}
  PROVE  AlertsFresh'
<1>1. \A o \in Offsets("alerts") : alertRows[o] \in Nat /\ lives \in Nat
  BY SizeAssumption DEF TypeOK, OuterTypes, ProcessTypes
<1>2. alertRows \in [Offsets("alerts") -> Nat]
  BY DEF TypeOK, OuterTypes
<1>3. delivered["alerts"] \in Nat
  BY Names DEF TypeOK, CursorTypes
<1>4. CASE UNCHANGED alertRows
  <2>1. \A o \in Offsets("alerts") : ToInsert(o)' => ToInsert(o)
    BY <1>3 DEF ToInsert
  <2>. QED
    BY <1>4, <2>1 DEF AlertsFresh, Offsets
<1>5. CASE pc["main"] = "insert_alert" /\ AddAlertRow
  <2>1. phase = "up" /\ serving = "alerts"
    BY <1>5, Names DEF Safe, TasksExclude, AlertsFresh
  <2>2. \A o \in Offsets("alerts") : /\ ToInsert(o)' => ToInsert(o) /\ o # delivered["alerts"]
                                     /\ o = delivered["alerts"] => ToInsert(o)
    BY <1>3, <1>5, <2>1, LogLength, Names DEF ToInsert, Offsets
  <2>3. \A o \in Offsets("alerts") :
           alertRows'[o] = IF o = delivered["alerts"] THEN alertRows[o] + 1 ELSE alertRows[o]
    BY <1>2, <1>5 DEF AddAlertRow
  <2>. QED
    BY <1>1, <2>2, <2>3 DEF AlertsFresh, Offsets
<1>. QED
  BY <1>4, <1>5

(* Lives begin and end.                                                    *)
LEMMA FreshLives ==
  ASSUME TypeOK, Safe, AlertsFresh, Start \/ Connected \/ Exit \/ StopWhileConnecting
  PROVE  AlertsFresh'
<1>1. /\ lives \in Nat /\ \A o \in Offsets("alerts") : alertRows[o] \in Nat
      /\ TaskTypes /\ "main" \in Tasks /\ "stop" \in Tasks /\ "main" # "stop"
  BY SizeAssumption, Names DEF TypeOK, OuterTypes, ProcessTypes
<1>2. CASE Start
  <2>1. pc["main"] # "insert_alert"
    BY <1>2, Names DEF Start, Safe, TasksExclude
  <2>2. pc' = pc /\ alertRows' = alertRows /\ lives' = lives + 1
    BY <1>2 DEF Start, external
  <2>. QED
    BY <1>1, <2>1, <2>2 DEF AlertsFresh, Offsets
<1>3. CASE Connected
  <2>1. pc'["main"] # "insert_alert" /\ phase = "connecting" /\ UNCHANGED <<alertRows, lives>>
    BY <1>1, <1>3 DEF Connected, external
  <2>. QED
    BY <2>1 DEF AlertsFresh, ToInsert, Offsets
<1>4. CASE Exit
  <2>1. pc'["main"] = "off" /\ phase' = "down" /\ UNCHANGED <<alertRows, lives>>
    BY <1>1, <1>4 DEF Exit, external
  <2>. QED
    BY <2>1 DEF AlertsFresh, ToInsert, Offsets
<1>5. CASE StopWhileConnecting
  <2>1. pc'["main"] = pc["main"]
    BY <1>1, <1>5, AwaitMoves DEF StopWhileConnecting
  <2>2. UNCHANGED <<serving, delivered, alertRows, phase, lives>>
    BY <1>5 DEF StopWhileConnecting, external, cursors, history
  <2>. QED
    BY <2>1, <2>2, FreshFrame DEF AlertsFresh
<1>. QED
  BY <1>2, <1>3, <1>4, <1>5

LEMMA FreshStep == TypeOK /\ Safe /\ AlertsFresh /\ [Next]_vars => AlertsFresh'
<1>. SUFFICES ASSUME TypeOK, Safe, AlertsFresh, [Next]_vars PROVE AlertsFresh'
  OBVIOUS
<1>0. TaskTypes /\ "main" \in Tasks
  BY Names DEF TypeOK
<1>1. CASE AlertInserted \/ AlertFails
  <2>1. pc'["main"] \in {"commit", "loop"}
    BY <1>0, <1>1, AwaitMoves DEF AlertInserted, AlertFails, AfterAlertError, AfterError
  <2>. QED
    BY <1>1, <2>1, FreshInserted DEF AlertInserted, AlertFails, cursors, history
<1>2. CASE Stop
  <2>1. pc'["main"] = "done" /\ UNCHANGED <<phase, lives, delivered, serving>>
    BY <1>0, <1>2 DEF Stop, history, TaskTypes
  <2>2. UNCHANGED alertRows \/ (pc["main"] = "insert_alert" /\ AddAlertRow)
    BY <1>2 DEF Stop, CancelMain
  <2>. QED
    BY <2>1, <2>2, FreshInserted
<1>3. CASE UNCHANGED vars
  BY <1>3, FreshFrame DEF vars, external, cursors, history, AlertsFresh
<1>4. CASE MainStep
  BY <1>1, <1>4, FreshMain, FreshTaken DEF MainStep
<1>5. CASE Environment
  BY <1>2, <1>5, FreshElsewhere, FreshLives DEF Environment
<1>. QED
  BY <1>3, <1>4, <1>5, FreshElsewhere, FreshLives DEF Next

-----------------------------------------------------------------------------
(* Committed offsets.                                                      *)

(* The steps that start, end or wait outside a life.                       *)
LivesStep == Start \/ Exit \/ Connected \/ StopWhileConnecting

(* Every other step moves the positions forward, and a committed offset    *)
(* only to the position it has in that moment.                             *)
LEMMA OffsetsMove ==
  ASSUME TypeOK, Safe, [Next]_vars, ~LivesStep, NEW t \in Topics
  PROVE  /\ phase' = phase
         /\ position[t] <= position'[t]
         /\ committed'[t] = committed[t] \/ (phase = "up" /\ committed'[t] = position[t])
<1>0. /\ \A u \in Topics : position[u] \in Nat
      /\ \A g \in Groups : pc[g] # "off" => phase = "up"
      /\ pc["stop"] = "close" => phase = "up"
  BY DEF TypeOK, CursorTypes, Safe, TasksExclude
<1>1. ASSUME NEW g \in Groups, CommitPosition(g)
      PROVE  committed'[t] = committed[t] \/ committed'[t] = position[t]
  BY <1>1 DEF CommitPosition
<1>2. ASSUME NEW g \in Groups, Poll(g) PROVE position[t] <= position'[t] /\ UNCHANGED <<phase, committed>>
  BY <1>2, PollMoves DEF Poll, external
<1>3. ASSUME NEW g \in Groups, Commit(g) \/ StopClose(g)
      PROVE  /\ UNCHANGED <<phase, position>>
             /\ committed'[t] = committed[t] \/ (phase = "up" /\ committed'[t] = position[t])
  BY <1>0, <1>1, <1>3 DEF Commit, StopClose, cursors
<1>4. CASE Stop
  <2>1. CancelMain /\ phase = "up" /\ phase' = phase
    BY <1>4 DEF Stop
  <2>2. position[t] <= position'[t]
    BY <2>1, CancelMoves
  <2>3. committed' = committed \/ CommitPosition("main")
    BY <2>1 DEF CancelMain
  <2>. QED
    BY <1>1, <2>1, <2>2, <2>3, Names
<1>5. CASE UNCHANGED <<phase, position, committed>>
  BY <1>0, <1>5
<1>6. CASE MainStep
  BY <1>0, <1>2, <1>3, <1>5, <1>6, Names DEF MainStep, LoopEnds, Batch, Yields, HandleAlert, Inserted,
     InsertFails, AlertInserted, AlertFails, external, cursors
<1>7. CASE WindowedStep
  BY <1>0, <1>2, <1>3, <1>5, <1>7, Names DEF WindowedStep, LoopEnds, Batch, Yields, SkipMalformed,
     Inserted, InsertFails, external, cursors
<1>8. CASE StopStep
  BY <1>0, <1>3, <1>5, <1>8 DEF StopStep, StopFlush, StopDone, Inserted, InsertFails, external, cursors
<1>9. CASE UNCHANGED vars \/ \E u \in Topics : Produce(u)
  BY <1>5, <1>9 DEF vars, Produce, external, cursors
<1>. QED
  BY <1>4, <1>6, <1>7, <1>8, <1>9 DEF Next, Environment, LivesStep

LEMMA BehindStep == TypeOK /\ Safe /\ CommittedBehind /\ [Next]_vars => CommittedBehind'
<1>. SUFFICES ASSUME TypeOK, Safe, CommittedBehind, [Next]_vars, phase' = "up", NEW t \in Topics
              PROVE  committed'[t] <= position'[t]
  BY DEF CommittedBehind
<1>0. committed[t] \in Int /\ position[t] \in Nat /\ logEnd[t] \in Nat
  BY DEF TypeOK, OuterTypes, CursorTypes, NoOffset
<1>1. CASE LivesStep
  <2>1. Connected
    BY <1>1 DEF LivesStep, Start, Exit, StopWhileConnecting
  <2>2. committed'[t] = committed[t] /\ position'[t] = Resume(t)
    BY <2>1 DEF Connected, external
  <2>. QED
    BY <1>0, <2>2 DEF Resume, NoOffset
<1>2. CASE ~LivesStep
  <2>1. position'[t] \in Nat
    BY NextTypes DEF TypeOK, CursorTypes
  <2>. QED
    BY <1>0, <1>2, <2>1, OffsetsMove DEF CommittedBehind
<1>. QED
  BY <1>1, <1>2

-----------------------------------------------------------------------------
(* The theorems.                                                           *)

Ended == LoopsQuiet /\ AlertsFresh /\ CommittedBehind

LEMMA Invariance == Spec => [](TypeOK /\ Safe /\ Ended)
<1>1. Init => TypeOK /\ Safe /\ Ended
  <2>1. Init => LoopsQuiet /\ CommittedBehind
    BY Names DEF Init, LoopsQuiet, CommittedBehind
  <2>2. Init => AlertsFresh
    BY SizeAssumption, Names DEF Init, AlertsFresh, ToInsert
  <2>. QED
    BY <2>1, <2>2, InitTypes, SafeInit DEF Ended
<1>2. TypeOK /\ Safe /\ Ended /\ [Next]_vars => (TypeOK /\ Safe /\ Ended)'
  BY NextTypes, NextSafe, QuietStep, FreshStep, BehindStep DEF Ended
<1>. QED
  BY <1>1, <1>2, PTL DEF Spec

(* The invariant the run "live" checks, for every value of the constants.  *)
THEOREM InductiveInvariant == Spec => []IInv
<1>1. TypeOK /\ Safe /\ Ended => IInv
  BY DEF Safe, Ended, IInv
<1>. QED
  BY <1>1, Invariance, PTL

(* The in-memory dedupe keys are those of the batch: no record is skipped  *)
(* as the duplicate of one that is no longer in memory.                    *)
THEOREM DedupeSound == Spec => []KeysAgree
<1>1. TypeOK /\ Safe /\ Ended => KeysAgree
  BY DEF Safe
<1>. QED
  BY <1>1, Invariance, PTL

(* No metric taken in this life of the process is lost: it is stored or    *)
(* still in the batch, whatever inserts fail and whoever flushes.          *)
THEOREM NothingDropped == Spec => []NoMetricDropped
<1>1. TypeOK /\ Safe /\ Ended => NoMetricDropped
  BY DEF Safe
<1>. QED
  BY <1>1, Invariance, PTL

-----------------------------------------------------------------------------
(* Commits.                                                                *)

(* The steps that change the committed offset of the metrics topic.        *)
LEMMA MetricsCommits ==
  ASSUME TypeOK, Safe, [Next]_vars, committed'["metrics"] # committed["metrics"]
  PROVE  Commit("main") \/ StopClose("main") \/ (Stop /\ pc["main"] = "commit")
<1>1. ASSUME NEW g \in Groups, CommitPosition(g) PROVE g = "main"
  BY <1>1, CommitMoves, Names DEF TopicsOf, Groups, TypeOK, OuterTypes
<1>2. CASE MainStep
  BY <1>2 DEF MainStep, Poll, LoopEnds, Batch, Yields, HandleAlert, Inserted, InsertFails,
     AlertInserted, AlertFails, external
<1>3. CASE WindowedStep
  BY <1>1, <1>3, Names DEF WindowedStep, Poll, LoopEnds, Commit, Batch, Yields, SkipMalformed,
     Inserted, InsertFails, external
<1>4. CASE StopStep
  BY <1>1, <1>4, Names DEF StopStep, StopFlush, StopDone, StopClose, Inserted, InsertFails,
     external
<1>5. CASE Environment \/ Connected
  BY <1>5 DEF Environment, Connected, Start, Exit, Stop, CancelMain, StopWhileConnecting,
     Produce, external
<1>6. CASE UNCHANGED vars
  BY <1>6 DEF vars, external
<1>. QED
  BY <1>2, <1>3, <1>4, <1>5, <1>6 DEF Next

(* A commit of the metrics group, wherever it comes from, covers no metric *)
(* that the loop took and the database does not hold.                      *)
THEOREM CommitsAfterWrites == Spec => CommitsFollowWrites
<1>1. ASSUME TypeOK, Safe, [Next]_vars, committed'["metrics"] # committed["metrics"]
      PROVE  \A o \in base["metrics"] + 1 .. delivered["metrics"] : RowStored("metrics", o)
  <2>1. Commit("main") \/ StopClose("main") \/ (Stop /\ pc["main"] = "commit")
    BY <1>1, MetricsCommits
  <2>2. pc["main"] = "commit" \/ pc["stop"] = "close"
    BY <2>1 DEF Commit, StopClose
  <2>3. batch["metrics"] = {} /\ phase = "up"
    BY <1>1, <2>2, Names DEF Safe, FlushWhole, TasksExclude
  <2>. QED
    BY <1>1, <2>3 DEF Safe, NoMetricDropped
<1>2. TypeOK /\ Safe /\ Ended /\ [Next]_vars =>
        [committed'["metrics"] # committed["metrics"] =>
           \A o \in base["metrics"] + 1 .. delivered["metrics"] : RowStored("metrics", o)]_vars
  BY <1>1
<1>. QED
  BY <1>2, Invariance, PTL DEF Spec, CommitsFollowWrites

(* A group's committed offset never goes back, across stops, crashes and   *)
(* restarts, and never passes what its consumer polled.                    *)
THEOREM CommitsAdvance == Spec => CommittedAdvances
<1>1. ASSUME TypeOK, Safe, Ended, [Next]_vars, NEW t \in Topics
      PROVE  /\ committed[t] <= committed'[t]
             /\ committed'[t] # committed[t] => committed'[t] <= position'[t]
  <2>0. committed[t] \in Int /\ position[t] \in Nat
    BY <1>1 DEF TypeOK, OuterTypes, CursorTypes, NoOffset
  <2>1. CASE LivesStep
    BY <2>0, <2>1 DEF LivesStep, Start, Exit, Connected, StopWhileConnecting, external
  <2>2. CASE ~LivesStep
    BY <1>1, <2>0, <2>2, OffsetsMove DEF Ended, CommittedBehind
  <2>. QED
    BY <2>1, <2>2
<1>2. TypeOK /\ Safe /\ Ended /\ [Next]_vars =>
        [\A t \in Topics : /\ committed[t] <= committed'[t]
                           /\ committed'[t] # committed[t] => committed'[t] <= position'[t]]_vars
  BY <1>1
<1>. QED
  BY <1>2, Invariance, PTL DEF Spec, CommittedAdvances

(* An alert gets at most one row per life of the process.                  *)
THEOREM AlertsOncePerLife == Spec => []AlertOncePerLife
<1>1. TypeOK /\ Safe /\ Ended => AlertOncePerLife
  BY DEF Ended, AlertsFresh, AlertOncePerLife
<1>. QED
  BY <1>1, Invariance, PTL

(* Once stop() has returned nothing more is written or committed.          *)
THEOREM StoppedStaysQuiet == Spec => StoppedIsQuiet
<1>1. TypeOK /\ Safe /\ Ended /\ [Next]_vars =>
        [pc["stop"] = "done" => UNCHANGED <<committed, stored, alertRows>>]_vars
  BY DoneMoves DEF Ended
<1>. QED
  BY <1>1, Invariance, PTL DEF Spec, StoppedIsQuiet

=============================================================================
