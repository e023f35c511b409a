----------------------------- MODULE DbConsumer -----------------------------
(***************************************************************************)
(* The database consumer process: src/consumers/db_consumer.py together    *)
(* with the RedpandaConsumer wrapper of src/common/redpanda_client.py.     *)
(*                                                                         *)
(* Two asyncio loops share one DatabaseConsumer object: the "main" loop    *)
(* reads the metrics and alerts topics, the "windowed" loop reads the      *)
(* windowed topic.  Both put records in in-memory batches, write batches   *)
(* to the database and commit consumer-group offsets by hand.  A third     *)
(* task, "stop", runs stop() when a signal arrives.                        *)
(*                                                                         *)
(* A topic is one partition: an immutable log read through indexes.  A     *)
(* record is its position in its topic's log (1, 2, ...), so a batch, a    *)
(* list appended to in log order, is a set of positions.                   *)
(***************************************************************************)
EXTENDS Integers, FiniteSets, Sequences, Functions

CONSTANTS
  Log,         \* Log[t]: all the records topic t will ever hold
  BatchMax,    \* BatchMax[t]: _metrics_batch_max_size, _windowed_batch_max_size
  MaxPoll,     \* max_poll_records (500 in the code)
  MaxLives,    \* bound: how many times the process is started
  StopPhases   \* phases of the process in which the environment may call stop()

Tables == {"metrics", "windowed"}          \* the topics that are batched
Topics == Tables \cup {"alerts"}
Groups == {"main", "windowed"}             \* db-writer-metrics, db-writer-windowed
Tasks  == Groups \cup {"stop"}

NoOffset == -1                             \* the group never committed

Offsets(t) == 1 .. Len(Log[t])
TopicsOf(g) == IF g = "main" THEN {"metrics", "alerts"} ELSE {"windowed"}
GroupOf(t)  == IF t = "windowed" THEN "windowed" ELSE "main"

Key(t, o) == Log[t][o].key    \* the in-memory dedupe key
Row(t, o) == Log[t][o].row    \* the primary key of the table row it is written to
Bad(t, o) == Log[t][o].bad    \* cannot be written: missing field, or invalid payload

(* The value is JSON: value_deserializer does not raise.                   *)
Decodes(t, o) == Log[t][o].json

(* Records with one dedupe key have one primary key: the dedupe keys       *)
(* (symbol, timestamp, update_id, mid_price) and (symbol, window_type,     *)
(* window_start, window_end) refine (symbol, time), (time, symbol, type).  *)
ASSUME LogAssumption ==
  /\ DOMAIN Log = Topics
  /\ \A t \in Topics : Len(Log[t]) \in Nat
  /\ \A t \in Topics : \A o \in Offsets(t) : Bad(t, o) \in BOOLEAN
  /\ \A t \in Tables : \A o, p \in Offsets(t) :
        Key(t, o) = Key(t, p) => Row(t, o) = Row(t, p)

ASSUME SizeAssumption ==
  /\ BatchMax \in [Tables -> Nat \ {0}]
  /\ MaxPoll \in Nat \ {0}
  /\ MaxLives \in Nat \ {0}
  /\ StopPhases \subseteq {"connecting", "up"}

VARIABLES
  \* ---- the broker and the database: they outlive the process ----
  logEnd,     \* logEnd[t]: records of topic t produced so far
  committed,  \* committed[t]: the group's committed offset, or NoOffset
  stored,     \* stored[t]: the records whose values the table's rows hold
  alertRows,  \* alertRows[o]: rows of the alerts table written for alert o
  \* ---- the process ----
  phase,      \* "down", "connecting" (inside start()), "up"
  running,    \* _running
  closed,     \* closed[g]: the RedpandaConsumer of g is closed
  position,   \* position[t]: KafkaConsumer's position, past everything polled
  delivered,  \* delivered[t]: last record the loop took out of consume()
  serving,    \* the partition of the last poll the main loop is iterating over
  batch,      \* batch[t]: _metrics_batch, _windowed_batch
  keys,       \* keys[t]: _metrics_batch_keys, _windowed_batch_keys
  pc,         \* pc[k]: the await at which task k is suspended
  snap,       \* snap[k]: batch_records of the insert task k is waiting for
  \* ---- history ----
  base,       \* base[t]: position of t when this life of the process began
  origin,     \* origin[t]: where the group's consumption of t began
  lives       \* how many times the process was started

external == <<logEnd, committed, stored, alertRows>>
cursors  == <<position, delivered, serving>>
batches  == <<batch, keys>>
history  == <<base, origin, lives>>
vars == <<external, phase, running, closed, cursors, batches, pc, snap, history>>

-----------------------------------------------------------------------------
(* Helpers.                                                                *)

Undelivered(g) == \E t \in TopicsOf(g) : delivered[t] < position[t]

(* A loop with polled records in hand runs without an await until it takes *)
(* the next one, so no other task of the event loop can step meanwhile.    *)
Busy(g) == pc[g] = "loop" /\ Undelivered(g) /\ running
OthersAwait(k) == \A g \in Groups \ {k} : ~Busy(g)

(* INSERT ... ON CONFLICT DO NOTHING of the records S, in log order, into  *)
(* a table that holds T.  Afterwards every record of S has its row, rows   *)
(* of T are as they were, and a new row holds the first record of S for    *)
(* it.  (These conditions leave exactly one table.)                        *)
Upserts(t, T, S) ==
  {U \in {T \cup N : N \in SUBSET S} :
     /\ \A o \in S : \E p \in U : Row(t, p) = Row(t, o)
     /\ \A p \in U \ T :
          /\ \A q \in T : Row(t, q) # Row(t, p)
          /\ \A q \in S : Row(t, q) = Row(t, p) => p <= q}

(* What an insert that does not succeed may have written: nothing when a   *)
(* record lacks a field (the rows are built before anything is sent), else *)
(* the chunks before the failing one, or all of it with the reply lost.    *)
Written(t, S) ==
  IF \E o \in S : Bad(t, o)
  THEN {{}}
  ELSE {{o \in S : o <= n} : n \in S \cup {0}}

(* Task k is next suspended at await `at`, with S the records it inserts.  *)
Await(k, at, S) ==
  /\ pc' = [pc EXCEPT ![k] = at]
  /\ snap' = [snap EXCEPT ![k] = S]

(* The await a task is at after an insert that raised: the loop logs the   *)
(* error and takes the next record, stop() fails.                          *)
LoopDies(k) == IF k = "stop" THEN "failed" ELSE "done"          \* seeded fault
AfterError(k) == IF k = "stop" THEN "failed" ELSE "loop"

(* The same for insert_alert, which is not retried.                        *)
RetriesAlert == "insert_alert"                                  \* seeded fault
AfterAlertError == AfterError("main")

InsertOf(t) == IF t = "metrics" THEN "insert_metrics" ELSE "insert_windowed"

(* What each task does once the flushes it asked for have returned.        *)
AfterFlush(k) ==
  IF k = "stop" THEN "close"
  ELSE IF k = "main" /\ serving = "alerts" THEN "insert_alert" ELSE "commit"

AwaitWindowedThen(k, last) ==
  IF batch["windowed"] # {}
  THEN Await(k, "insert_windowed", batch["windowed"])
  ELSE Await(k, last, {})

(* _flush_pending_batches_without_commit, by task k, which goes on to last *)
SkipsFlush(k, last) == Await(k, last, {})                       \* seeded fault
FlushPending(k, last) ==
  IF batch["metrics"] # {}
  THEN Await(k, "insert_metrics", batch["metrics"])
  ELSE AwaitWindowedThen(k, last)

-----------------------------------------------------------------------------
(* Start, crash, and the producers upstream.                               *)

Init ==
  /\ logEnd = [t \in Topics |-> 0]
  /\ committed = [t \in Topics |-> NoOffset]
  /\ stored = [t \in Tables |-> {}]
  /\ alertRows = [o \in Offsets("alerts") |-> 0]
  /\ phase = "down"
  /\ running = FALSE
  /\ closed = [g \in Groups |-> FALSE]
  /\ position = [t \in Topics |-> 0]
  /\ delivered = [t \in Topics |-> 0]
  /\ serving = "metrics"
  /\ batch = [t \in Tables |-> {}]
  /\ keys = [t \in Tables |-> {}]
  /\ pc = [k \in Tasks |-> "off"]
  /\ snap = [k \in Tasks |-> {}]
  /\ base = [t \in Topics |-> 0]
  /\ origin = [t \in Topics |-> 0]
  /\ lives = 0

Produce(t) ==
  /\ logEnd[t] < Len(Log[t])
  /\ logEnd' = [logEnd EXCEPT ![t] = @ + 1]
  /\ UNCHANGED <<committed, stored, alertRows, phase, running, closed, cursors,
                 batches, pc, snap, history>>

(* start(), up to the await of the three connects.                         *)
Start ==
  /\ phase = "down"
  /\ lives < MaxLives
  /\ phase' = "connecting"
  /\ running' = TRUE
  /\ lives' = lives + 1
  /\ UNCHANGED <<external, closed, cursors, batches, pc, snap, base, origin>>

ResumesAtZero(t) == 0                                           \* seeded fault
(* A group resumes at its committed offset, with none at the end ('latest').*)
Resume(t) == IF committed[t] = NoOffset THEN logEnd[t] ELSE committed[t]

(* The connects return and start() creates the two loops.  A consumer      *)
(* that stop() closed meanwhile yields nothing: its loop ends.             *)
Connected ==
  LET first == [t \in Topics |-> Resume(t)] IN
  /\ phase = "connecting"
  /\ phase' = "up"
  /\ position' = first
  /\ delivered' = first
  /\ base' = first
  /\ origin' = [t \in Topics |-> IF committed[t] = NoOffset THEN logEnd[t]
                                                            ELSE origin[t]]
  /\ pc' = [k \in Tasks |-> IF k = "stop" THEN pc[k]
                            ELSE IF closed[k] THEN "done" ELSE "loop"]
  /\ UNCHANGED <<external, running, closed, serving, batches, snap, lives>>

(* The process ends, by a crash or because main() returned: everything in  *)
(* memory is gone.  An insert or commit in flight may or may not have      *)
(* happened: InsertFails and Commit just before this step are those cases. *)
Exit ==
  /\ phase # "down"
  /\ phase' = "down"
  /\ running' = FALSE
  /\ closed' = [g \in Groups |-> FALSE]
  /\ position' = [t \in Topics |-> 0]
  /\ delivered' = [t \in Topics |-> 0]
  /\ serving' = "metrics"
  /\ batch' = [t \in Tables |-> {}]
  /\ keys' = [t \in Tables |-> {}]
  /\ pc' = [k \in Tasks |-> "off"]
  /\ snap' = [k \in Tasks |-> {}]
  /\ base' = [t \in Topics |-> 0]
  /\ UNCHANGED <<external, origin, lives>>

-----------------------------------------------------------------------------
(* RedpandaConsumer.consume: poll, then yield record after record.         *)

(* A poll returns the next n[t] records of each partition of the group, at *)
(* most MaxPoll in all, and moves the consumer's position past all of them.*)
(* It decodes what it fetched: one that meets a value that is not JSON     *)
(* raises and moves no position, so no poll gets past such a record.       *)
Total(n) == FoldFunction(+, 0, n)

Fetches(g) ==
  {n \in [TopicsOf(g) -> 0 .. MaxPoll] :
     /\ Total(n) <= MaxPoll
     /\ \A t \in TopicsOf(g) :
          /\ position[t] + n[t] <= logEnd[t]
          /\ \A o \in (position[t] + 1) .. (position[t] + n[t]) : Decodes(t, o)}

(* A record that cannot be decoded is in what there is to fetch.           *)
Blocked(g) ==
  \E t \in TopicsOf(g) : \E o \in (position[t] + 1) .. logEnd[t] : ~Decodes(t, o)

PositionAfter(g, n) ==
  [t \in Topics |-> IF t \in TopicsOf(g) THEN position[t] + n[t] ELSE position[t]]

(* consume() logs an exception of poll, sleeps and polls again, so a poll  *)
(* that raises changes nothing.                                            *)
Poll(g) ==
  /\ pc[g] = "loop"
  /\ ~Undelivered(g)
  /\ ~closed[g]
  /\ OthersAwait(g)
  /\ \E n \in Fetches(g) :
       /\ position' = PositionAfter(g, n)
       /\ IF g = "main"
          THEN \E t \in TopicsOf(g) : n[t] > 0 /\ serving' = t
          ELSE UNCHANGED serving
  /\ UNCHANGED <<external, phase, running, closed, delivered, batches, pc, snap, history>>

(* The generator yields the next record of t.  A poll's records come       *)
(* partition by partition: the main loop changes topic only at the end of  *)
(* the one it is serving.                                                  *)
Yields(t) ==
  /\ pc[GroupOf(t)] = "loop"
  /\ running
  /\ delivered[t] < position[t]
  /\ OthersAwait(GroupOf(t))
  /\ t # "windowed" => \/ t = serving
                       \/ delivered[serving] = position[serving]
  /\ delivered' = [delivered EXCEPT ![t] = @ + 1]
  /\ serving' = IF t = "windowed" THEN serving ELSE t
  /\ UNCHANGED <<external, phase, running, closed, position, history>>

NeedsRecord(g) == Undelivered(g)                                \* seeded fault
Exhausted(g) == Undelivered(g) \/ closed[g]

(* The loop ends: a record yielded while _running is false breaks out of   *)
(* it, and a closed consumer yields nothing more.                          *)
LoopEnds(g) ==
  /\ pc[g] = "loop"
  /\ ~running
  /\ Exhausted(g)
  /\ OthersAwait(g)
  /\ Await(g, "done", {})
  /\ UNCHANGED <<external, phase, running, closed, cursors, batches, history>>

-----------------------------------------------------------------------------
(* Handling one record.                                                    *)

OncePerRow(t, o) ==                                             \* seeded fault
  batch[t] \cup {p \in {o} : \A q \in batch[t] : Row(t, q) # Row(t, p)}
(* A duplicate of a record in the batch is skipped.                        *)
Added(t, o) == IF Key(t, o) \in keys[t] THEN batch[t] ELSE batch[t] \cup {o}

(* _add_to_metrics_batch and _check_metrics_flush, _add_to_windowed_batch  *)
(* and _check_windowed_flush: add the record, then flush if the batch is   *)
(* full or the flush timeout has elapsed, as it may have at any record.    *)
Batch(t) ==
  LET o == delivered[t] + 1 IN
  /\ Yields(t)
  /\ t = "windowed" => ~Bad(t, o)
  /\ batch' = [batch EXCEPT ![t] = Added(t, o)]
  /\ keys' = [keys EXCEPT ![t] = @ \cup {Key(t, o)}]
  /\ \/ Await(GroupOf(t), InsertOf(t), Added(t, o))
     \/ /\ Cardinality(Added(t, o)) < BatchMax[t]
        /\ UNCHANGED <<pc, snap>>

(* A windowed payload that does not validate is skipped, with a commit.    *)
SkipMalformed ==
  /\ Yields("windowed")
  /\ Bad("windowed", delivered["windowed"] + 1)
  /\ Await("windowed", "commit", {})
  /\ UNCHANGED batches

(* _handle_alert: flush the pending batches first, then insert the alert.  *)
HandleAlert ==
  /\ Yields("alerts")
  /\ FlushPending("main", "insert_alert")
  /\ UNCHANGED batches

-----------------------------------------------------------------------------
(* The awaits return.                                                      *)

KeysKept(t) == keys[t]                                          \* seeded fault
KeysCleared(t) == {}

(* The insert of the snapshot succeeded: the whole batch and its keys are  *)
(* cleared.  A metrics flush that leads to a commit, or that is part of a  *)
(* flush of everything, goes on with the windowed batch.                   *)
Inserted(k, t) ==
  /\ pc[k] = InsertOf(t)
  /\ OthersAwait(k)
  /\ \A o \in snap[k] : ~Bad(t, o)
  /\ \E U \in Upserts(t, stored[t], snap[k]) : stored' = [stored EXCEPT ![t] = U]
  /\ batch' = [batch EXCEPT ![t] = {}]
  /\ keys' = [keys EXCEPT ![t] = KeysCleared(t)]
  /\ IF t = "metrics" THEN AwaitWindowedThen(k, AfterFlush(k)) ELSE Await(k, AfterFlush(k), {})
  /\ UNCHANGED <<logEnd, committed, alertRows, phase, running, closed, cursors, history>>

(* The insert raised: the batch stays and nothing is committed.            *)
InsertFails(k, t) ==
  /\ pc[k] = InsertOf(t)
  /\ OthersAwait(k)
  /\ \E S \in Written(t, snap[k]) : \E U \in Upserts(t, stored[t], S) :
        stored' = [stored EXCEPT ![t] = U]
  /\ Await(k, AfterError(k), {})
  /\ UNCHANGED <<logEnd, committed, alertRows, phase, running, closed, cursors,
                 batches, history>>

AddAlertRow == alertRows' = [alertRows EXCEPT ![delivered["alerts"]] = @ + 1]

(* insert_alert: a plain INSERT under a generated primary key.             *)
AlertInserted ==
  /\ pc["main"] = "insert_alert"
  /\ OthersAwait("main")
  /\ ~Bad("alerts", delivered["alerts"])
  /\ AddAlertRow
  /\ Await("main", "commit", {})
  /\ UNCHANGED <<logEnd, committed, stored, phase, running, closed, cursors,
                 batches, history>>

(* insert_alert raised, with nothing written or with the reply lost.       *)
AlertFails ==
  /\ pc["main"] = "insert_alert"
  /\ OthersAwait("main")
  /\ \/ UNCHANGED alertRows
     \/ ~Bad("alerts", delivered["alerts"]) /\ AddAlertRow
  /\ Await("main", AfterAlertError, {})
  /\ UNCHANGED <<logEnd, committed, stored, phase, running, closed, cursors,
                 batches, history>>

(* KafkaConsumer.commit() commits the position of every partition of the   *)
(* group; RedpandaConsumer.commit swallows its errors.                     *)
CommitPosition(g) ==
  committed' = [t \in Topics |-> IF t \in TopicsOf(g) THEN position[t] ELSE committed[t]]

CommitsClosed(g) == TRUE                                        \* seeded fault
MayCommit(g) == ~closed[g]

Commit(g) ==
  /\ pc[g] = "commit"
  /\ OthersAwait(g)
  /\ \/ MayCommit(g) /\ CommitPosition(g)
     \/ UNCHANGED committed
  /\ Await(g, "loop", {})
  /\ UNCHANGED <<logEnd, stored, alertRows, phase, running, closed, cursors,
                 batches, history>>

-----------------------------------------------------------------------------
(* stop().                                                                 *)

(* Only the main loop is cancelled, at the await it is suspended in.  What *)
(* it waited for may still have happened: a poll in its thread, an insert, *)
(* a commit.                                                               *)
CancelMain ==
  \/ UNCHANGED <<position, stored, alertRows, committed>>
  \/ /\ pc["main"] = "loop"
     /\ \E n \in Fetches("main") : position' = PositionAfter("main", n)
     /\ UNCHANGED <<stored, alertRows, committed>>
  \/ \E t \in Tables :
       /\ pc["main"] = InsertOf(t)
       /\ \E S \in Written(t, snap["main"]) : \E U \in Upserts(t, stored[t], S) :
            stored' = [stored EXCEPT ![t] = U]
       /\ UNCHANGED <<position, alertRows, committed>>
  \/ /\ pc["main"] = "insert_alert"
     /\ ~Bad("alerts", delivered["alerts"])
     /\ AddAlertRow
     /\ UNCHANGED <<position, stored, committed>>
  \/ /\ pc["main"] = "commit"
     /\ CommitPosition("main")
     /\ UNCHANGED <<position, stored, alertRows>>

Stop ==
  /\ phase = "up"
  /\ phase \in StopPhases
  /\ running
  /\ OthersAwait("stop")
  /\ running' = FALSE
  /\ CancelMain
  /\ pc' = [pc EXCEPT !["main"] = "done", !["stop"] = "flush"]
  /\ snap' = [snap EXCEPT !["main"] = {}]
  /\ UNCHANGED <<logEnd, phase, closed, delivered, serving, batches, history>>

(* stop() while start() still awaits the connects: there is no task to     *)
(* cancel and nothing to flush, and only a consumer whose connect already  *)
(* returned is closed.                                                     *)
StopWhileConnecting ==
  /\ phase = "connecting"
  /\ phase \in StopPhases
  /\ running
  /\ running' = FALSE
  /\ closed' \in [Groups -> BOOLEAN]
  /\ Await("stop", "done", {})
  /\ UNCHANGED <<external, phase, cursors, batches, history>>

StopFlush ==
  /\ pc["stop"] = "flush"
  /\ OthersAwait("stop")
  /\ FlushPending("stop", "close")
  /\ UNCHANGED <<external, phase, running, closed, cursors, batches, history>>

(* RedpandaConsumer.close: a last commit, then the consumer is closed.     *)
StopClose(g) ==
  /\ pc["stop"] = "close"
  /\ OthersAwait("stop")
  /\ ~closed[g]
  /\ CommitPosition(g) \/ UNCHANGED committed
  /\ closed' = [closed EXCEPT ![g] = TRUE]
  /\ UNCHANGED <<logEnd, stored, alertRows, phase, running, cursors, batches, pc,
                 snap, history>>

(* DatabaseClient.close returns when no connection is in use.  An insert   *)
(* that holds none at that moment, between two attempts, raises at the     *)
(* next one: InsertFails just before this step is that case.               *)
PoolClosed == pc["windowed"] # "insert_windowed"

(* The three closes have returned.                                         *)
StopDone ==
  /\ pc["stop"] = "close"
  /\ OthersAwait("stop")
  /\ \A g \in Groups : closed[g]
  /\ PoolClosed
  /\ Await("stop", "done", {})
  /\ UNCHANGED <<external, phase, running, closed, cursors, batches, history>>

-----------------------------------------------------------------------------
(* The specification.                                                      *)

MainStep ==
  \/ Poll("main") \/ LoopEnds("main") \/ Commit("main")
  \/ Batch("metrics") \/ HandleAlert
  \/ \E t \in Tables : Inserted("main", t) \/ InsertFails("main", t)
  \/ AlertInserted \/ AlertFails

WindowedStep ==
  \/ Poll("windowed") \/ LoopEnds("windowed") \/ Commit("windowed")
  \/ Batch("windowed") \/ SkipMalformed
  \/ Inserted("windowed", "windowed") \/ InsertFails("windowed", "windowed")

StopStep ==
  \/ StopFlush \/ StopDone
  \/ \E g \in Groups : StopClose(g)
  \/ \E t \in Tables : Inserted("stop", t) \/ InsertFails("stop", t)

Environment ==
  \/ Start \/ Exit \/ Stop \/ StopWhileConnecting
  \/ \E t \in Topics : Produce(t)

Next == MainStep \/ WindowedStep \/ StopStep \/ Connected \/ Environment

Spec == Init /\ [][Next]_vars

(* Fairness: an await returns, with success or failure, and the event loop *)
(* resumes the task: polls end at their timeout, the driver's commands at  *)
(* command_timeout.  Nothing obliges the environment to produce, to stop   *)
(* or to start.  (Whether a poll brings what lies before a record that     *)
(* cannot be decoded depends on the fetch; EveryRecordTaken claims nothing *)
(* of a group that has such a record ahead.)                               *)
Fairness ==
  /\ WF_vars(MainStep) /\ WF_vars(WindowedStep)
  /\ WF_vars(StopStep) /\ WF_vars(Connected)

FairSpec == Spec /\ Fairness

-----------------------------------------------------------------------------
(* Properties.                                                             *)

Awaits == {"off", "loop", "insert_metrics", "insert_windowed", "insert_alert",
           "commit", "done", "flush", "close", "failed"}

OuterTypes ==
  /\ committed \in [Topics -> Nat \cup {NoOffset}]
  /\ stored \in [Tables -> SUBSET Nat]
  /\ alertRows \in [Offsets("alerts") -> Nat]

ProcessTypes ==
  /\ phase \in {"down", "connecting", "up"}
  /\ running \in BOOLEAN
  /\ closed \in [Groups -> BOOLEAN]
  /\ serving \in {"metrics", "alerts"}
  /\ batch \in [Tables -> SUBSET Nat]
  /\ DOMAIN keys = Tables
  /\ lives \in 0 .. MaxLives

TaskTypes == pc \in [Tasks -> Awaits] /\ snap \in [Tasks -> SUBSET Nat]

CursorTypes ==
  /\ logEnd \in [Topics -> Nat]
  /\ position \in [Topics -> Nat]
  /\ delivered \in [Topics -> Nat]
  /\ base \in [Topics -> Nat]
  /\ origin \in [Topics -> Nat]

(* Types, and the order of the cursors of a consumer in its log: what the  *)
(* loop took, what the client polled, what was produced.                   *)
CursorsOrdered ==
  \A t \in Topics : /\ base[t] <= delivered[t]
                    /\ delivered[t] <= position[t]
                    /\ position[t] <= logEnd[t]
                    /\ committed[t] <= logEnd[t]
                    /\ logEnd[t] <= Len(Log[t])

TypeOK == OuterTypes /\ ProcessTypes /\ TaskTypes /\ CursorTypes /\ CursorsOrdered

(* A record's row is in its table, with the values of this record or of    *)
(* another one that was written first.                                     *)
RowStored(t, o) == \E p \in stored[t] : Row(t, p) = Row(t, o)

(* The dedupe keys mirror the batch and no key is in it twice, so that a   *)
(* record is skipped as a duplicate only when its twin is in memory        *)
(* (_metrics_batch_keys and _windowed_batch_keys, cleared by every flush). *)
KeysAgree ==
  \A t \in Tables :
    /\ keys[t] = {Key(t, o) : o \in batch[t]}
    /\ \A o, p \in batch[t] : Key(t, o) = Key(t, p) => o = p

(* No metric the loop took is lost while the process lives, whatever the   *)
(* inserts do: its row is stored, or it (or its twin) is in the batch.     *)
NoMetricDropped ==
  phase = "up" =>
    \A o \in base["metrics"] + 1 .. delivered["metrics"] :
      \/ RowStored("metrics", o)
      \/ \E p \in batch["metrics"] : Key("metrics", p) = Key("metrics", o)

(* Every commit of the metrics group, by a flush, after an alert or in     *)
(* close(), finds each metric the loop took written: none that is only in  *)
(* memory is skipped.                                                      *)
CommitsFollowWrites ==
  [][committed'["metrics"] # committed["metrics"] =>
       \A o \in base["metrics"] + 1 .. delivered["metrics"] :
          RowStored("metrics", o)]_vars

(* Whatever stops, crashes and restarts, a group's committed offset never  *)
(* goes back, and never passes what was polled.                            *)
CommittedAdvances ==
  [][\A t \in Topics : /\ committed[t] <= committed'[t]
                       /\ committed'[t] # committed[t] => committed'[t] <= position'[t]]_vars

(* An alert, a plain INSERT with no key to protect it, gets at most one    *)
(* row per life of the process: duplicates come from redelivery alone.     *)
AlertOncePerLife == \A o \in Offsets("alerts") : alertRows[o] <= lives

(* Once stop() has returned, the orphan windowed loop writes nothing more  *)
(* and commits nothing more.                                               *)
StoppedIsQuiet ==
  [][pc["stop"] = "done" => UNCHANGED <<committed, stored, alertRows>>]_vars

(* The inductive invariant behind the properties above.                    *)

(* What is in memory or in a table is a record of the topic's log, and the *)
(* batches hold records taken in this life.                                *)
RecordsInLog ==
  /\ \A t \in Tables : /\ stored[t] \subseteq Offsets(t)
                       /\ batch[t] \subseteq base[t] + 1 .. delivered[t]
  /\ \A k \in Tasks, t \in Tables : pc[k] = InsertOf(t) => snap[k] \subseteq Offsets(t)

(* The main loop and stop() never share the metrics batch: stop() has      *)
(* ended the main loop before it flushes.                                  *)
TasksExclude ==
  /\ phase = "down" => pc["stop"] = "off"
  /\ phase # "up" => /\ \A g \in Groups : pc[g] = "off"
                     /\ pc["stop"] \in {"off", "done"}
                     /\ \A t \in Tables : batch[t] = {}
  /\ pc["stop"] # "off" => ~running
  /\ pc["stop"] \notin {"off", "done"} => pc["main"] = "done"
  /\ pc["windowed"] \in {"off", "loop", "insert_windowed", "commit", "done"}
  /\ pc["main"] \notin {"flush", "close", "failed"}

(* A task inserting the metrics batch inserts all of it, and a task past   *)
(* that insert has left no metric in memory.                               *)
FlushWhole ==
  \A k \in {"main", "stop"} :
    /\ pc[k] = "insert_metrics" => snap[k] = batch["metrics"]
    /\ pc[k] \in {"insert_windowed", "insert_alert", "commit", "close"} =>
          batch["metrics"] = {}

(* Once stop() is done no loop waits for a write or for a commit that a    *)
(* consumer still open would make.                                         *)
LoopsQuiet ==
  pc["stop"] = "done" =>
    \A g \in Groups : \/ pc[g] \in {"off", "loop", "done"}
                      \/ pc[g] = "commit" /\ closed[g]

(* An alert this life has yet to take, or has taken and not yet inserted,  *)
(* has fewer rows than the process has had lives.                          *)
ToInsert(o) ==
  \/ phase = "connecting"
  \/ phase = "up" /\ o > delivered["alerts"]
  \/ /\ phase = "up" /\ o = delivered["alerts"] /\ serving = "alerts"
     /\ pc["main"] \in {"insert_metrics", "insert_windowed", "insert_alert"}

AlertsFresh ==
  /\ pc["main"] = "insert_alert" => serving = "alerts"
  /\ \A o \in Offsets("alerts") : /\ alertRows[o] <= lives
                                  /\ ToInsert(o) => alertRows[o] < lives

(* A consumer that resumed is at or past what its group committed.         *)
CommittedBehind == phase = "up" => \A t \in Topics : committed[t] <= position[t]

IInv == /\ TypeOK /\ KeysAgree /\ NoMetricDropped /\ RecordsInLog /\ TasksExclude /\ FlushWhole
        /\ LoopsQuiet /\ AlertsFresh /\ CommittedBehind

(* What the group has committed since it began, the database holds.        *)
AtLeastOnce(t, Persisted(_)) ==
  \A o \in Offsets(t) : origin[t] < o /\ o <= committed[t] => Persisted(o)

(* Metrics: offsets are committed only after the database write.           *)
MetricsAtLeastOnce == AtLeastOnce("metrics", LAMBDA o : RowStored("metrics", o))

(* The loops never get stuck: every record produced is taken, whatever     *)
(* fails, unless the process stops or a record that cannot be decoded      *)
(* blocks the polls of the group.                                          *)
EveryRecordTaken ==
  \A t \in Topics : \A o \in Offsets(t) :
    (o <= logEnd[t]) ~> (o <= delivered[t] \/ ~running \/ Blocked(GroupOf(t)))

(* stop() comes to an end, and after it the loop it did not cancel too.    *)
StopTerminates ==
  (pc["stop"] = "flush") ~>
     (pc["stop"] = "failed" \/ phase = "down" \/ \A k \in Tasks : pc[k] = "done")
=============================================================================
