--------------------------- MODULE RedisConsumer ---------------------------
(***************************************************************************)
(* The cache consumer process: src/consumers/redis_consumer.py with the    *)
(* writes of src/common/redis_client.py and the RedpandaConsumer wrapper.  *)
(*                                                                         *)
(* One loop takes records of four topics and runs a handler for each, a    *)
(* fixed list of Redis commands, each of which is an await that may fail   *)
(* with or without its effect.  The client methods turn a failure into     *)
(* False, which the loop does not look at: it commits and goes on.         *)
(*                                                                         *)
(* A topic is one partition, and a record its position in the topic's log, *)
(* as in DbConsumer.  Two alerts are taken to have different payloads: a   *)
(* payload is a member of a feed.                                          *)
(***************************************************************************)
EXTENDS Integers, FiniteSets, Sequences, Functions

CONSTANTS
  Symbols,
  Log,         \* Log[t]: all the records topic t will ever hold
  MaxAlerts,   \* MAX_ALERTS_PER_SYMBOL
  MaxPoll,     \* max_poll_records
  MaxLives     \* bound: how many times the process is started

Topics  == {"metrics", "windowed", "alerts", "raw"}
Windows == {"stats1m", "stats5m"}
All     == "all"
Feeds   == Symbols \cup {All}              \* orderbook:alerts:{SYMBOL}
CacheKeys == ({"latest", "snapshot", "stats"} \cup Windows) \X Symbols

NoOffset == -1                             \* the group never committed
Absent   == 0                              \* the key does not exist

Offsets(t)   == 1 .. Len(Log[t])
Symbol(t, o) == Log[t][o].symbol
Score(o)     == Log["alerts"][o].score     \* _alert_score of the timestamp

(* What becomes of a record: its commands run ("ok"); the handler finds no *)
(* value or symbol ("ignored"); add_alert finds no usable timestamp and    *)
(* returns False ("refused"); the value is not an object and the handler   *)
(* raises ("raises"); the value is not JSON and value_deserializer raises  *)
(* ("undecodable").                                                        *)
Fate(t, o) == Log[t][o].fate

Decodes(t, o) == Fate(t, o) # "undecodable"

(* The key of the window a statistics record is of; another window type    *)
(* has no key of its own.                                                  *)
Window(o) == Log["windowed"][o].window

ASSUME LogAssumption ==
  /\ All \notin Symbols
  /\ DOMAIN Log = Topics
  /\ \A t \in Topics : Len(Log[t]) \in Nat
  /\ \A t \in Topics : \A o \in Offsets(t) : Symbol(t, o) \in Symbols
  /\ \A o \in Offsets("alerts") : Score(o) \in Int

ASSUME SizeAssumption ==
  /\ MaxAlerts \in Nat \ {0}
  /\ MaxPoll \in Nat \ {0}
  /\ MaxLives \in Nat \ {0}

VARIABLES
  \* ---- the broker and Redis: they outlive the process ----
  logEnd,     \* logEnd[t]: records of topic t produced so far
  committed,  \* committed[t]: the group's committed offset, or NoOffset
  cache,      \* cache[k]: the record whose value key k holds, or Absent
  feed,       \* feed[f]: the alerts that are members of sorted set f
  mortal,     \* the feeds that have a time to live
  \* ---- the process ----
  phase,      \* "down", "connecting" (inside start()), "up"
  running,    \* _running
  closed,     \* the RedpandaConsumer is closed
  position,   \* position[t]: KafkaConsumer's position, past everything polled
  delivered,  \* delivered[t]: last record the loop took out of consume()
  marked,     \* the symbols of _last_snapshot_write_at
  pc,         \* "off", "loop", "handle", "commit", "close", "done"
  topic,      \* the topic of the record being handled, "none" without one
  next,       \* the command of its handler that is awaited
  success,    \* what the client told the handler that just returned
  \* ---- history ----
  seen,       \* seen[f]: alerts added to feed f since it last did not exist
  fresh,      \* the cache keys written in this life of the process
  lives       \* how many times the process was started

redis   == <<cache, feed, mortal, seen, fresh>>
cursors == <<position, delivered>>
task    == <<pc, topic, next, success>>
vars == <<logEnd, committed, redis, phase, running, closed, cursors, marked, task, lives>>

-----------------------------------------------------------------------------
(* The handlers, as lists of commands.                                     *)

SetEx(kind, s) == [op |-> "setex", key |-> <<kind, s>>]
Zadd(f)   == [op |-> "zadd", key |-> f]
Trim(f)   == [op |-> "trim", key |-> f]     \* zcard, then zremrangebyrank
Expire(f) == [op |-> "expire", key |-> f]

NoTrimOfAll(s) ==                                               \* seeded fault
  <<Zadd(s), Zadd(All), Trim(s), Expire(s), Expire(All)>>
(* add_alert.                                                              *)
AddAlert(s) ==
  <<Zadd(s), Zadd(All), Trim(s), Trim(All), Expire(s), Expire(All)>>

WindowFirst(s, w) ==                                            \* seeded fault
  IF w \in Windows THEN <<SetEx(w, s), SetEx("stats", s)>> ELSE <<SetEx("stats", s)>>
(* cache_statistics: the key without a window first.                       *)
CacheStatistics(s, w) ==
  IF w \in Windows THEN <<SetEx("stats", s), SetEx(w, s)>> ELSE <<SetEx("stats", s)>>

Commands(t, o) ==
  LET s == Symbol(t, o) IN
  CASE t = "metrics"  -> <<SetEx("latest", s)>>
    [] t = "windowed" -> CacheStatistics(s, Window(o))
    [] t = "alerts"   -> AddAlert(s)
    [] t = "raw"      -> <<SetEx("snapshot", s)>>

KeepsLowest(S) ==                                               \* seeded fault
  IF Cardinality(S) <= MaxAlerts THEN {S}
  ELSE {K \in SUBSET S : /\ Cardinality(K) = MaxAlerts
                         /\ \A p \in K, q \in S \ K : Score(p) <= Score(q)}
(* zremrangebyrank(key, 0, count - max - 1): the lowest scores go, ties in *)
(* the order of the members' bytes, which may be any.                      *)
Trimmed(S) ==
  IF Cardinality(S) <= MaxAlerts THEN {S}
  ELSE {K \in SUBSET S : /\ Cardinality(K) = MaxAlerts
                         /\ \A p \in K, q \in S \ K : Score(q) <= Score(p)}

(* What command c does in Redis, for record o.                             *)
SetExEffect(c, o) ==
  /\ c.op = "setex"
  /\ cache' = [cache EXCEPT ![c.key] = o]
  /\ fresh' = fresh \cup {c.key}
  /\ UNCHANGED <<feed, mortal, seen>>

ZaddEffect(c, o) ==
  /\ c.op = "zadd"
  /\ feed' = [feed EXCEPT ![c.key] = @ \cup {o}]
  /\ seen' = [seen EXCEPT ![c.key] = @ \cup {o}]
  /\ UNCHANGED <<cache, mortal, fresh>>

TrimEffect(c) ==
  /\ c.op = "trim"
  /\ \E K \in Trimmed(feed[c.key]) : feed' = [feed EXCEPT ![c.key] = K]
  /\ UNCHANGED <<cache, mortal, seen, fresh>>

ExpireEffect(c) ==
  /\ c.op = "expire"
  /\ mortal' = IF feed[c.key] = {} THEN mortal ELSE mortal \cup {c.key}
  /\ UNCHANGED <<cache, feed, seen, fresh>>

Effect(c, o) == SetExEffect(c, o) \/ ZaddEffect(c, o) \/ TrimEffect(c) \/ ExpireEffect(c)

(* The task is at await `at`, outside any handler.                         *)
Idle(at) == pc' = at /\ topic' = "none" /\ next' = 1 /\ success' = TRUE

(* The client returned False: the handler logs it, and the loop commits.   *)
Refused == pc' = "commit" /\ topic' = "none" /\ next' = 1 /\ success' = FALSE

-----------------------------------------------------------------------------
(* Start, exit, and the environment.                                       *)

Init ==
  /\ logEnd = [t \in Topics |-> 0]
  /\ committed = [t \in Topics |-> NoOffset]
  /\ cache = [k \in CacheKeys |-> Absent]
  /\ feed = [f \in Feeds |-> {}]
  /\ mortal = {}
  /\ phase = "down"
  /\ running = FALSE
  /\ closed = FALSE
  /\ position = [t \in Topics |-> 0]
  /\ delivered = [t \in Topics |-> 0]
  /\ marked = {}
  /\ pc = "off"
  /\ topic = "none"
  /\ next = 1
  /\ success = TRUE
  /\ seen = [f \in Feeds |-> {}]
  /\ fresh = {}
  /\ lives = 0

Produce(t) ==
  /\ logEnd[t] < Len(Log[t])
  /\ logEnd' = [logEnd EXCEPT ![t] = @ + 1]
  /\ UNCHANGED <<committed, redis, phase, running, closed, cursors, marked, task, lives>>

(* A key with a time to live is gone, at any time.                         *)
CacheExpires(k) ==
  /\ cache[k] # Absent
  /\ cache' = [cache EXCEPT ![k] = Absent]
  /\ UNCHANGED <<logEnd, committed, feed, mortal, seen, fresh, phase, running, closed, cursors,
                 marked, task, lives>>

FeedExpires(f) ==
  /\ f \in mortal
  /\ feed' = [feed EXCEPT ![f] = {}]
  /\ seen' = [seen EXCEPT ![f] = {}]
  /\ mortal' = mortal \ {f}
  /\ UNCHANGED <<logEnd, committed, cache, fresh, phase, running, closed, cursors, marked, task, lives>>

(* start(), up to the await of the two connects.                           *)
Start ==
  /\ phase = "down"
  /\ lives < MaxLives
  /\ phase' = "connecting"
  /\ running' = TRUE
  /\ lives' = lives + 1
  /\ UNCHANGED <<logEnd, committed, redis, closed, cursors, marked, task>>

ResumesPast(t) ==                                               \* seeded fault
  IF committed[t] = NoOffset THEN logEnd[t] ELSE committed[t] + 1
(* A group resumes at its committed offset, with none at the end ('latest').*)
Resume(t) == IF committed[t] = NoOffset THEN logEnd[t] ELSE committed[t]

(* The connects return and start() creates the loop's task.                *)
Connected ==
  /\ phase = "connecting"
  /\ phase' = "up"
  /\ position' = [t \in Topics |-> Resume(t)]
  /\ delivered' = [t \in Topics |-> Resume(t)]
  /\ Idle("loop")
  /\ UNCHANGED <<logEnd, committed, redis, running, closed, marked, lives>>

(* The process ends, by a crash or because it was stopped.  A command or a *)
(* commit in flight may have happened: CommandFails and Commit just before.*)
Exit ==
  /\ phase # "down"
  /\ phase' = "down"
  /\ running' = FALSE
  /\ closed' = FALSE
  /\ position' = [t \in Topics |-> 0]
  /\ delivered' = [t \in Topics |-> 0]
  /\ marked' = {}
  /\ Idle("off")
  /\ fresh' = {}
  /\ UNCHANGED <<logEnd, committed, cache, feed, mortal, seen, lives>>

-----------------------------------------------------------------------------
(* The loop.                                                               *)

Total(n) == FoldFunction(+, 0, n)

(* A poll returns the next n[t] records of each topic, MaxPoll in all, and *)
(* moves the position past all of them.  It decodes what it fetched: one   *)
(* that meets a value that is not JSON raises and moves no position, so no *)
(* poll ever gets past such a record.                                      *)
Fetches ==
  {n \in [Topics -> 0 .. MaxPoll] :
     /\ Total(n) <= MaxPoll
     /\ \A t \in Topics :
          /\ position[t] + n[t] <= logEnd[t]
          /\ \A o \in (position[t] + 1) .. (position[t] + n[t]) : Decodes(t, o)}

PositionAfter(n) == [t \in Topics |-> position[t] + n[t]]

(* A record that cannot be decoded is in what there is to fetch.           *)
Blocked ==
  \E t \in Topics : \E o \in (position[t] + 1) .. logEnd[t] : ~Decodes(t, o)

(* consume() logs an exception of poll, sleeps and polls again: a poll that*)
(* raises is one of no records.                                            *)
Poll ==
  /\ pc = "loop"
  /\ position = delivered
  /\ \E n \in Fetches : position' = PositionAfter(n)
  /\ UNCHANGED <<logEnd, committed, redis, phase, running, closed, delivered, marked, task, lives>>

(* _should_cache_snapshot: a symbol written in this life may be refused    *)
(* until the interval has elapsed; time is not modelled.                   *)
MayRefuse(t, o) == t = "raw" /\ Symbol(t, o) \in marked

LoopDies == "done"                                              \* seeded fault
AfterRaise == "loop"       \* the loop logs the error and takes the next record

(* The loop takes a record of t and routes it to its handler, which runs   *)
(* up to its first command, returns, or raises.  (The records of a poll    *)
(* come topic by topic; here in any order, since nothing relates topics.)  *)
Take(t) ==
  LET o == delivered[t] + 1 IN
  /\ pc = "loop"
  /\ delivered[t] < position[t]
  /\ delivered' = [delivered EXCEPT ![t] = o]
  /\ \/ Fate(t, o) = "raises" /\ Idle(AfterRaise)
     \/ Fate(t, o) = "ignored" /\ Idle("commit")
     \/ Fate(t, o) = "refused" /\ Refused
     \/ Fate(t, o) = "ok" /\ MayRefuse(t, o) /\ Idle("commit")
     \/ /\ Fate(t, o) = "ok"
        /\ pc' = "handle" /\ topic' = t /\ next' = 1 /\ success' = TRUE
  /\ UNCHANGED <<logEnd, committed, redis, phase, running, closed, position, marked, lives>>

Record  == delivered[topic]
Command == Commands(topic, Record)[next]
IsLast  == next = Len(Commands(topic, Record))

(* The awaited command succeeds.  After the last one the handler is done,  *)
(* and _mark_snapshot_cached notes a snapshot.                             *)
CommandSucceeds ==
  /\ pc = "handle"
  /\ Effect(Command, Record)
  /\ IF IsLast
     THEN /\ Idle("commit")
          /\ marked' = IF topic = "raw" THEN marked \cup {Symbol(topic, Record)} ELSE marked
     ELSE /\ next' = next + 1
          /\ UNCHANGED <<pc, topic, success, marked>>
  /\ UNCHANGED <<logEnd, committed, phase, running, closed, cursors, lives>>

(* It fails, executed or not: the client method returns False and the loop *)
(* goes on to the commit.                                                  *)
CommandFails ==
  /\ pc = "handle"
  /\ Effect(Command, Record) \/ UNCHANGED redis
  /\ Refused
  /\ UNCHANGED <<logEnd, committed, phase, running, closed, cursors, marked, lives>>

(* RedpandaConsumer.commit commits all positions, and swallows its errors. *)
Commit ==
  /\ pc = "commit"
  /\ committed' \in {position, committed}
  /\ Idle("loop")
  /\ UNCHANGED <<logEnd, redis, phase, running, closed, cursors, marked, lives>>

-----------------------------------------------------------------------------
(* stop(): the loop is cancelled at its await, which may have happened.    *)

CancelLoop ==
  \/ UNCHANGED <<redis, position, committed>>
  \/ pc = "loop" /\ position = delivered /\ (\E n \in Fetches : position' = PositionAfter(n))
     /\ UNCHANGED <<redis, committed>>
  \/ pc = "handle" /\ Effect(Command, Record) /\ UNCHANGED <<position, committed>>
  \/ pc = "commit" /\ committed' = position /\ UNCHANGED <<redis, position>>

(* A loop with polled records in hand does not await before the next one.  *)
Stop ==
  /\ phase = "up"
  /\ running
  /\ pc = "loop" => position = delivered
  /\ running' = FALSE
  /\ CancelLoop
  /\ Idle("close")
  /\ UNCHANGED <<logEnd, phase, closed, delivered, marked, lives>>

(* RedpandaConsumer.close: a last commit; and RedisClient.close.           *)
Close ==
  /\ pc = "close"
  /\ committed' \in {position, committed}
  /\ closed' = TRUE
  /\ Idle("done")
  /\ UNCHANGED <<logEnd, redis, phase, running, cursors, marked, lives>>

-----------------------------------------------------------------------------
(* The specification.                                                      *)

LoopStep == Poll \/ (\E t \in Topics : Take(t)) \/ CommandSucceeds \/ CommandFails \/ Commit

Environment ==
  \/ Start \/ Exit \/ Stop
  \/ \E t \in Topics : Produce(t)
  \/ \E k \in CacheKeys : CacheExpires(k)
  \/ \E f \in Feeds : FeedExpires(f)

Next == LoopStep \/ Connected \/ Close \/ Environment

Spec == Init /\ [][Next]_vars

(* The loop is scheduled, and its polls and commits return; polls get on   *)
(* while every fetch can be decoded.  Nothing is assumed of Redis: its     *)
(* client has no socket_timeout, so a command, or the ping of start(), may *)
(* never return.                                                           *)
Fairness ==
  /\ WF_vars(Poll /\ ~Blocked)
  /\ WF_vars(\E t \in Topics : Take(t))
  /\ WF_vars(Commit)

FairSpec == Spec /\ Fairness

-----------------------------------------------------------------------------
(* Properties.                                                             *)

RedisTypes ==
  /\ cache \in [CacheKeys -> Nat]
  /\ feed \in [Feeds -> SUBSET Offsets("alerts")]
  /\ seen \in [Feeds -> SUBSET Offsets("alerts")]
  /\ mortal \subseteq Feeds

ProcessTypes ==
  /\ phase \in {"down", "connecting", "up"}
  /\ running \in BOOLEAN /\ closed \in BOOLEAN
  /\ marked \subseteq Symbols
  /\ fresh \subseteq CacheKeys
  /\ pc \in {"off", "loop", "handle", "commit", "close", "done"}
  /\ topic \in Topics \cup {"none"}
  /\ success \in BOOLEAN
  /\ next \in Nat
  /\ lives \in 0 .. MaxLives

CursorTypes ==
  /\ logEnd \in [Topics -> Nat]
  /\ committed \in [Topics -> Nat \cup {NoOffset}]
  /\ position \in [Topics -> Nat]
  /\ delivered \in [Topics -> Nat]

CursorsOrdered ==
  \A t \in Topics : /\ delivered[t] <= position[t]
                    /\ position[t] <= logEnd[t]
                    /\ committed[t] <= logEnd[t]
                    /\ logEnd[t] <= Len(Log[t])

(* The task runs while the process is up; a handler is at one of its       *)
(* commands, for a record of the log.                                      *)
HandlerTypes ==
  /\ pc # "off" => phase = "up"
  /\ pc = "handle" => /\ topic \in Topics /\ Record \in Offsets(topic)
                      /\ next \in 1 .. Len(Commands(topic, Record))

(* Types, the order of the cursors, and where a handler can be.            *)
TypeOK == RedisTypes /\ ProcessTypes /\ CursorTypes /\ CursorsOrdered /\ HandlerTypes

(* Whatever commands fail, and in whatever order alerts arrive or arrive   *)
(* again, a feed always serves the newest: an alert added to it is a       *)
(* member, or MaxAlerts members are at least as new.                       *)
FeedsKeepNewest ==
  \A f \in Feeds : \A o \in seen[f] \ feed[f] :
    \E S \in SUBSET feed[f] : /\ Cardinality(S) = MaxAlerts
                              /\ \A p \in S : Score(o) <= Score(p)

(* Feed f serves alert o within its bound, and does not stay for ever;     *)
(* unless the key expired meanwhile.                                       *)
Serves(f, o) ==
  feed[f] # {} => o \in seen[f] /\ Cardinality(feed[f]) <= MaxAlerts /\ f \in mortal

(* An add_alert that reports success leaves the feed of the symbol and the *)
(* feed of all symbols with the alert, trimmed and with a time to live,    *)
(* whatever earlier calls that failed half way had left there.             *)
AddedIsServed ==
  [][\A o \in Offsets("alerts") :
       pc = "handle" /\ topic = "alerts" /\ o = Record /\ IsLast /\ CommandSucceeds
         => Serves(Symbol("alerts", o), o)' /\ Serves(All, o)']_vars

(* The statistics key without a window, which readers without one use, is  *)
(* never behind the key of a window, even between the two writes or after  *)
(* the second failed (keys written in this life).                          *)
LegacyKeyAhead ==
  \A s \in Symbols, w \in Windows :
    LET old == <<"stats", s>>  new == <<w, s>> IN
    {old, new} \subseteq fresh /\ cache[old] # Absent /\ cache[new] # Absent
      => cache[new] <= cache[old]

(* Progress of add_alert through its commands, behind AddedIsServed.       *)
AddProgress ==
  pc = "handle" /\ topic = "alerts" =>
    LET s == Symbol("alerts", Record)
        Added(f) == feed[f] # {} => Record \in seen[f]
    IN /\ next > 1 => Added(s)
       /\ next > 2 => Added(All)
       /\ next > 3 => Cardinality(feed[s]) <= MaxAlerts
       /\ next > 4 => Cardinality(feed[All]) <= MaxAlerts
       /\ next > 5 => (feed[s] # {} => s \in mortal)

(* Statistics written in this life are of records taken, and at the second *)
(* of two writes the first is done.                                        *)
StatsProgress ==
  \A s \in Symbols :
    /\ \A kind \in Windows \cup {"stats"} :
         <<kind, s>> \in fresh => phase = "up" /\ cache[<<kind, s>>] <= delivered["windowed"]
    /\ pc = "handle" /\ topic = "windowed" /\ next > 1 /\ s = Symbol("windowed", Record) =>
         cache[<<"stats", s>>] \in {Absent, Record}

IInv == TypeOK /\ FeedsKeepNewest /\ AddProgress /\ LegacyKeyAhead /\ StatsProgress

(* The loop waits for Redis, which may never answer.                       *)
AwaitsRedis == pc = "handle" \/ phase = "connecting"

(* The loop never gets stuck in itself: every record produced is taken,    *)
(* whatever the records' fates and whichever commands and commits fail,    *)
(* unless the process stops, a record that cannot be decoded blocks the    *)
(* polls, or Redis never answers again.                                    *)
EveryRecordTaken ==
  \A t \in Topics : \A o \in Offsets(t) :
    (o <= logEnd[t]) ~>
      (o <= delivered[t] \/ ~running \/ Blocked \/ []AwaitsRedis)
=============================================================================
