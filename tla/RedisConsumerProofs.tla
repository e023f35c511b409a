------------------------ MODULE RedisConsumerProofs ------------------------
(* Theorems of RedisConsumer for every log, feed size, poll size and       *)
(* number of lives.                                                        *)
EXTENDS RedisConsumer, FiniteSetTheorems, TLAPS

LEMMA Names ==
  /\ "metrics" \in Topics /\ "windowed" \in Topics /\ "alerts" \in Topics /\ "raw" \in Topics
  /\ "none" \notin Topics
  /\ All \in Feeds /\ Symbols \subseteq Feeds
  /\ \A t \in Topics : Len(Log[t]) \in Nat
  BY LogAssumption DEF Topics, Feeds

(* The commands of each handler.                                           *)
LEMMA AlertCommands ==
  ASSUME NEW s
  PROVE  /\ Len(AddAlert(s)) = 6
         /\ AddAlert(s)[1] = Zadd(s) /\ AddAlert(s)[2] = Zadd(All)
         /\ AddAlert(s)[3] = Trim(s) /\ AddAlert(s)[4] = Trim(All)
         /\ AddAlert(s)[5] = Expire(s) /\ AddAlert(s)[6] = Expire(All)
  BY DEF AddAlert

LEMMA StatsCommands ==
  ASSUME NEW s, NEW w
  PROVE  /\ CacheStatistics(s, w)[1] = SetEx("stats", s)
         /\ Len(CacheStatistics(s, w)) = IF w \in Windows THEN 2 ELSE 1
         /\ w \in Windows => CacheStatistics(s, w)[2] = SetEx(w, s)
  BY DEF CacheStatistics

LEMMA CommandsOf ==
  ASSUME NEW t \in Topics, NEW o
  PROVE  /\ t = "metrics" => Commands(t, o) = <<SetEx("latest", Symbol(t, o))>>
         /\ t = "windowed" => Commands(t, o) = CacheStatistics(Symbol(t, o), Window(o))
         /\ t = "alerts" => Commands(t, o) = AddAlert(Symbol(t, o))
         /\ t = "raw" => Commands(t, o) = <<SetEx("snapshot", Symbol(t, o))>>
         /\ t = "alerts" => Len(Commands(t, o)) = 6
         /\ t \in {"metrics", "raw"} => Len(Commands(t, o)) = 1
         /\ t = "windowed" => \/ Len(Commands(t, o)) = 1
                              \/ Len(Commands(t, o)) = 2 /\ Window(o) \in Windows
<1>1. CASE t = "metrics"
  BY <1>1 DEF Commands
<1>2. CASE t = "windowed"
  BY <1>2, StatsCommands DEF Commands
<1>3. CASE t = "alerts"
  BY <1>3, AlertCommands DEF Commands
<1>4. CASE t = "raw"
  BY <1>4 DEF Commands
<1>. QED
  BY <1>1, <1>2, <1>3, <1>4 DEF Topics

LEMMA CommandCount ==
  ASSUME NEW t \in Topics, NEW o PROVE Len(Commands(t, o)) \in Nat \ {0}
<1>. DEFINE n == Len(Commands(t, o))
<1>1. n = 6 \/ n = 1 \/ n = 2
  BY CommandsOf DEF Topics
<1>. HIDE DEF n
<1>2. n \in Nat \ {0}
  BY <1>1
<1>. QED
  BY <1>2 DEF n

(* What the command a handler is at can be.                                *)
SetsCache(t, o, i, c) ==
  /\ t # "alerts" /\ c.op = "setex" /\ c.key \in CacheKeys
  /\ t = "windowed" =>
       LET s == Symbol("windowed", o) IN
       \/ i = 1 /\ c.key = <<"stats", s>>
       \/ i = 2 /\ Window(o) \in Windows /\ c.key = <<Window(o), s>>
  /\ t # "windowed" => \A kind \in Windows \cup {"stats"}, s \in Symbols : c.key # <<kind, s>>

AddsAlert(o, i, c) ==
  LET s == Symbol("alerts", o) IN
  \/ i = 1 /\ c = Zadd(s)
  \/ i = 2 /\ c = Zadd(All)
  \/ i = 3 /\ c = Trim(s)
  \/ i = 4 /\ c = Trim(All)
  \/ i = 5 /\ c = Expire(s)
  \/ i = 6 /\ c = Expire(All)

LEMMA CommandKinds ==
  ASSUME NEW t \in Topics, NEW o \in Offsets(t), NEW i \in 1 .. Len(Commands(t, o))
  PROVE  \/ SetsCache(t, o, i, Commands(t, o)[i])
         \/ t = "alerts" /\ AddsAlert(o, i, Commands(t, o)[i])
<1>0. Symbol(t, o) \in Symbols
  BY LogAssumption
<1>1. CASE t = "metrics" \/ t = "raw"
  <2>0. Len(Commands(t, o)) = 1
    BY <1>1, CommandsOf
  <2>1. i = 1
    BY <2>0
  <2>2. PICK kind \in {"latest", "snapshot"} : Commands(t, o) = <<SetEx(kind, Symbol(t, o))>>
    BY <1>1, CommandsOf
  <2>3. Commands(t, o)[i] = [op |-> "setex", key |-> <<kind, Symbol(t, o)>>]
    BY <2>1, <2>2 DEF SetEx
  <2>. QED
    BY <1>0, <1>1, <2>3 DEF SetsCache, CacheKeys, Windows
<1>2. CASE t = "windowed"
  <2>1. Commands(t, o) = CacheStatistics(Symbol(t, o), Window(o))
    BY <1>2, CommandsOf
  <2>0. \/ Len(Commands(t, o)) = 1
        \/ Len(Commands(t, o)) = 2 /\ Window(o) \in Windows
    BY <1>2, CommandsOf
  <2>2. i = 1 \/ (i = 2 /\ Window(o) \in Windows)
    <3>1. CASE Len(Commands(t, o)) = 1
      BY <3>1
    <3>2. CASE Len(Commands(t, o)) = 2 /\ Window(o) \in Windows
      <4>1. i \in 1 .. 2
        BY <3>2
      <4>. QED
        BY <3>2, <4>1
    <3>. QED
      BY <2>0, <3>1, <3>2
  <2>3. \/ i = 1 /\ Commands(t, o)[i] = [op |-> "setex", key |-> <<"stats", Symbol(t, o)>>]
        \/ /\ i = 2 /\ Window(o) \in Windows
           /\ Commands(t, o)[i] = [op |-> "setex", key |-> <<Window(o), Symbol(t, o)>>]
    BY <2>1, <2>2, StatsCommands DEF SetEx
  <2>. QED
    BY <1>0, <1>2, <2>3 DEF SetsCache, CacheKeys, Windows
<1>3. CASE t = "alerts"
  <2>1. Commands(t, o) = AddAlert(Symbol("alerts", o)) /\ Len(Commands(t, o)) = 6
    BY <1>3, CommandsOf
  <2>2. i \in 1 .. 6
    BY <2>1
  <2>3. Commands(t, o)[i] = AddAlert(Symbol("alerts", o))[i]
    BY <2>1
  <2>4. AddsAlert(o, i, AddAlert(Symbol("alerts", o))[i])
    BY <2>2, AlertCommands DEF AddsAlert
  <2>. QED
    BY <1>3, <2>3, <2>4
<1>. QED
  BY <1>1, <1>2, <1>3 DEF Topics

(* A trim leaves part of the feed, within its bound.                       *)
LEMMA TrimKeeps ==
  ASSUME NEW S, NEW K \in Trimmed(S)
  PROVE  /\ K \subseteq S
         /\ K = S \/ Cardinality(K) = MaxAlerts
         /\ Cardinality(K) <= MaxAlerts
         /\ \A p \in K, q \in S \ K : Score(q) <= Score(p)
  BY SizeAssumption DEF Trimmed

-----------------------------------------------------------------------------
(* Type correctness.                                                       *)

(* The command a handler awaits, spelled out.                              *)
LEMMA Awaited ==
  ASSUME TypeOK, pc = "handle"
  PROVE  /\ topic \in Topics /\ Record \in Offsets(topic) /\ Record \in Nat
         /\ \/ SetsCache(topic, Record, next, Command)
            \/ topic = "alerts" /\ AddsAlert(Record, next, Command)
<1>1. /\ topic \in Topics /\ Record \in Offsets(topic)
      /\ next \in 1 .. Len(Commands(topic, Record))
  BY DEF TypeOK, HandlerTypes
<1>. QED
  BY <1>1, CommandKinds, Names DEF Command, Offsets

LEMMA EffectTypes ==
  ASSUME TypeOK, pc = "handle", Effect(Command, Record)
  PROVE  RedisTypes' /\ fresh' \subseteq CacheKeys
<1>0. RedisTypes /\ fresh \subseteq CacheKeys
  BY DEF TypeOK, ProcessTypes
<1>1. Record \in Nat /\ (Command.op # "setex" => Command.key \in Feeds /\ Record \in Offsets("alerts"))
                     /\ (Command.op = "setex" => Command.key \in CacheKeys)
  <2>1. CASE SetsCache(topic, Record, next, Command)
    BY <2>1, Awaited DEF SetsCache
  <2>2. CASE topic = "alerts" /\ AddsAlert(Record, next, Command)
    <3>1. Symbol("alerts", Record) \in Feeds /\ All \in Feeds
      BY <2>2, Awaited, Names, LogAssumption
    <3>. QED
      BY <2>2, <3>1, Awaited DEF AddsAlert, Zadd, Trim, Expire
  <2>. QED
    BY <2>1, <2>2, Awaited
<1>2. CASE SetExEffect(Command, Record)
  BY <1>0, <1>1, <1>2 DEF SetExEffect, RedisTypes
<1>3. CASE ZaddEffect(Command, Record)
  BY <1>0, <1>1, <1>3 DEF ZaddEffect, RedisTypes
<1>4. CASE TrimEffect(Command)
  <2>1. PICK K \in Trimmed(feed[Command.key]) : feed' = [feed EXCEPT ![Command.key] = K]
    BY <1>4 DEF TrimEffect
  <2>2. K \in SUBSET Offsets("alerts")
    BY <1>0, <1>1, <1>4, <2>1, TrimKeeps DEF TrimEffect, RedisTypes
  <2>. QED
    BY <1>0, <1>1, <1>4, <2>1, <2>2 DEF TrimEffect, RedisTypes
<1>5. CASE ExpireEffect(Command)
  BY <1>0, <1>1, <1>5 DEF ExpireEffect, RedisTypes
<1>. QED
  BY <1>2, <1>3, <1>4, <1>5 DEF Effect

LEMMA InitTypes == Init => TypeOK
<1>. SUFFICES ASSUME Init PROVE TypeOK
  OBVIOUS
<1>1. RedisTypes
  BY DEF Init, RedisTypes, Absent
<1>2. ProcessTypes /\ HandlerTypes
  <2>1. lives \in 0 .. MaxLives
    BY SizeAssumption DEF Init
  <2>. QED
    BY <2>1 DEF Init, ProcessTypes, HandlerTypes
<1>3. CursorTypes /\ CursorsOrdered
  BY Names DEF Init, CursorTypes, CursorsOrdered, NoOffset
<1>. QED
  BY <1>1, <1>2, <1>3 DEF TypeOK

LEMMA EnvironmentTypes ==
  TypeOK /\ (Start \/ Exit \/ Connected \/ (\E t \in Topics : Produce(t))
               \/ (\E k \in CacheKeys : CacheExpires(k)) \/ (\E f \in Feeds : FeedExpires(f)))
    => TypeOK'
<1>1. TypeOK /\ Start => TypeOK'
  BY SizeAssumption DEF Start, redis, cursors, task, TypeOK, RedisTypes, ProcessTypes, CursorTypes,
     CursorsOrdered, HandlerTypes, Record
<1>2. TypeOK /\ Exit => TypeOK'
  <2>. SUFFICES ASSUME TypeOK, Exit PROVE TypeOK'
    OBVIOUS
  <2>1. RedisTypes' /\ CursorTypes'
    BY DEF Exit, TypeOK, RedisTypes, CursorTypes
  <2>2. ProcessTypes' /\ HandlerTypes'
    BY DEF Exit, Idle, TypeOK, ProcessTypes, HandlerTypes
  <2>3. CursorsOrdered'
    BY DEF Exit, TypeOK, CursorTypes, CursorsOrdered
  <2>. QED
    BY <2>1, <2>2, <2>3 DEF TypeOK
<1>3. TypeOK /\ Connected => TypeOK'
  BY DEF Connected, Idle, Resume, redis, TypeOK, RedisTypes, ProcessTypes, CursorTypes,
     CursorsOrdered, HandlerTypes, Record
<1>4. ASSUME NEW t \in Topics PROVE TypeOK /\ Produce(t) => TypeOK'
  <2>. SUFFICES ASSUME TypeOK, Produce(t) PROVE TypeOK'
    OBVIOUS
  <2>1. RedisTypes' /\ ProcessTypes' /\ HandlerTypes'
    BY DEF Produce, redis, cursors, task, TypeOK, RedisTypes, ProcessTypes, HandlerTypes, Record
  <2>2. CursorTypes'
    BY DEF Produce, cursors, TypeOK, CursorTypes
  <2>3. ASSUME NEW u \in Topics PROVE logEnd[u] <= logEnd'[u] /\ logEnd'[u] <= Len(Log[u])
    <3>1. /\ logEnd \in [Topics -> Nat] /\ logEnd[u] <= Len(Log[u]) /\ Len(Log[u]) \in Nat
          /\ logEnd[t] < Len(Log[t]) /\ logEnd' = [logEnd EXCEPT ![t] = @ + 1]
      BY Names DEF Produce, TypeOK, CursorTypes, CursorsOrdered
    <3>2. CASE u = t
      BY <3>1, <3>2
    <3>3. CASE u # t
      BY <3>1, <3>3
    <3>. QED
      BY <3>2, <3>3
  <2>4. \A u \in Topics : /\ logEnd[u] \in Nat /\ logEnd'[u] \in Nat /\ position[u] \in Nat
                          /\ committed[u] \in Int
    BY <2>2 DEF TypeOK, CursorTypes, NoOffset
  <2>5. CursorsOrdered'
    BY <2>3, <2>4 DEF Produce, cursors, TypeOK, CursorsOrdered
  <2>. QED
    BY <2>1, <2>2, <2>5 DEF TypeOK
<1>5. ASSUME NEW k \in CacheKeys PROVE TypeOK /\ CacheExpires(k) => TypeOK'
  BY DEF CacheExpires, cursors, task, TypeOK, RedisTypes, ProcessTypes, CursorTypes,
     CursorsOrdered, HandlerTypes, Record, Absent
<1>6. ASSUME NEW f \in Feeds PROVE TypeOK /\ FeedExpires(f) => TypeOK'
  BY DEF FeedExpires, cursors, task, TypeOK, RedisTypes, ProcessTypes, CursorTypes,
     CursorsOrdered, HandlerTypes, Record
<1>. QED
  BY <1>1, <1>2, <1>3, <1>4, <1>5, <1>6

LEMMA PollMoves ==
  ASSUME TypeOK, NEW n \in Fetches, position' = PositionAfter(n)
  PROVE  /\ position' \in [Topics -> Nat]
         /\ \A t \in Topics : position[t] <= position'[t] /\ position'[t] <= logEnd[t]
<1>1. \A t \in Topics : n[t] \in Nat /\ position[t] + n[t] <= logEnd[t]
  BY SizeAssumption DEF Fetches
<1>. QED
  BY <1>1 DEF PositionAfter, TypeOK, CursorTypes

LEMMA PollTypes == TypeOK /\ Poll => TypeOK'
<1>. SUFFICES ASSUME TypeOK, Poll PROVE TypeOK'
  OBVIOUS
<1>1. /\ position' \in [Topics -> Nat]
      /\ \A t \in Topics : position[t] <= position'[t] /\ position'[t] <= logEnd[t]
  BY PollMoves DEF Poll
<1>. QED
  BY <1>1 DEF Poll, redis, task, TypeOK, RedisTypes, ProcessTypes, CursorTypes, CursorsOrdered,
     HandlerTypes, Record

LEMMA TakeTypes == ASSUME NEW t \in Topics PROVE TypeOK /\ Take(t) => TypeOK'
<1>. SUFFICES ASSUME TypeOK, Take(t) PROVE TypeOK'
  OBVIOUS
<1>. DEFINE o == delivered[t] + 1
<1>0. /\ delivered[t] \in Nat /\ position[t] \in Nat /\ logEnd[t] \in Nat /\ Len(Log[t]) \in Nat
      /\ delivered[t] < position[t] /\ position[t] <= logEnd[t] /\ logEnd[t] <= Len(Log[t])
      /\ delivered' = [delivered EXCEPT ![t] = o]
      /\ UNCHANGED <<logEnd, committed, redis, phase, running, closed, position, marked, lives>>
  BY Names DEF Take, TypeOK, CursorTypes, CursorsOrdered
<1>1. RedisTypes' /\ CursorTypes' /\ CursorsOrdered'
  BY <1>0 DEF redis, TypeOK, RedisTypes, CursorTypes, CursorsOrdered
<1>2. ProcessTypes'
  <2>1. /\ pc' \in {"loop", "commit", "handle"} /\ topic' \in Topics \cup {"none"}
        /\ next' \in Nat
    BY DEF Take, Idle, Refused, AfterRaise
  <2>2. success' \in BOOLEAN
    BY DEF Take, Idle, Refused
  <2>. QED
    BY <1>0, <2>1, <2>2 DEF redis, TypeOK, ProcessTypes
<1>3. pc' = "handle" => topic' = t /\ next' = 1
  BY DEF Take, Idle, Refused, AfterRaise
<1>4. o \in Offsets(t) /\ 1 \in 1 .. Len(Commands(t, o))
  <2>1. o \in Offsets(t)
    BY <1>0 DEF Offsets
  <2>2. Len(Commands(t, o)) \in Nat \ {0}
    BY CommandCount
  <2>. QED
    BY <2>1, <2>2
<1>5. delivered'[t] = o
  BY <1>0 DEF TypeOK, CursorTypes
<1>6. phase = "up" /\ phase' = "up"
  BY <1>0 DEF Take, TypeOK, HandlerTypes
<1>7. HandlerTypes'
  BY <1>3, <1>4, <1>5, <1>6 DEF HandlerTypes, Record
<1>. QED
  BY <1>1, <1>2, <1>7 DEF TypeOK

LEMMA CommandTypes == TypeOK /\ (CommandSucceeds \/ CommandFails) => TypeOK'
<1>. SUFFICES ASSUME TypeOK, CommandSucceeds \/ CommandFails PROVE TypeOK'
  OBVIOUS
<1>1. RedisTypes' /\ fresh' \subseteq CacheKeys
  BY EffectTypes DEF CommandSucceeds, CommandFails, redis, TypeOK, RedisTypes, ProcessTypes
<1>2. topic \in Topics /\ Record \in Offsets(topic)
  BY Awaited DEF CommandSucceeds, CommandFails
<1>3. CursorTypes' /\ CursorsOrdered'
  BY DEF CommandSucceeds, CommandFails, cursors, TypeOK, CursorTypes, CursorsOrdered
<1>4. ProcessTypes'
  <2>1. marked' \subseteq Symbols
    BY <1>2, LogAssumption DEF CommandSucceeds, CommandFails, TypeOK, ProcessTypes
  <2>. QED
    <3>1. /\ pc' \in {"handle", "commit"} /\ topic' \in Topics \cup {"none"}
          /\ next' \in Nat
      BY DEF CommandSucceeds, CommandFails, Idle, Refused, TypeOK, ProcessTypes
    <3>2. success' \in BOOLEAN
      BY DEF CommandSucceeds, CommandFails, Idle, Refused, TypeOK, ProcessTypes
    <3>. QED
      BY <1>1, <2>1, <3>1, <3>2 DEF CommandSucceeds, CommandFails, TypeOK, ProcessTypes
<1>5. HandlerTypes'
  <2>1. /\ pc' \in {"handle", "commit"} /\ phase' = "up" /\ delivered' = delivered
        /\ pc' = "handle" => topic' = topic /\ next' = next + 1 /\ ~IsLast
    BY DEF CommandSucceeds, CommandFails, Idle, Refused, cursors, TypeOK, HandlerTypes
  <2>2. next \in 1 .. Len(Commands(topic, Record)) /\ Len(Commands(topic, Record)) \in Nat
    <3>1. Len(Commands(topic, Record)) \in Nat
      <4>1. topic \in {"metrics", "raw"} \/ topic = "windowed" \/ topic = "alerts"
        BY <1>2 DEF Topics
      <4>. QED
        BY <1>2, <4>1, CommandsOf
    <3>. QED
      BY <3>1 DEF CommandSucceeds, CommandFails, TypeOK, HandlerTypes
  <2>3. pc' = "handle" => Record' = Record /\ next' \in 1 .. Len(Commands(topic, Record))
    BY <2>1, <2>2 DEF IsLast, Record
  <2>. QED
    BY <1>2, <2>1, <2>3 DEF HandlerTypes
<1>. QED
  BY <1>1, <1>3, <1>4, <1>5 DEF TypeOK

LEMMA CommitTypes == TypeOK /\ (Commit \/ Close) => TypeOK'
<1>. SUFFICES ASSUME TypeOK, Commit \/ Close PROVE TypeOK'
  OBVIOUS
<1>1. RedisTypes' /\ CursorTypes' /\ CursorsOrdered'
  BY DEF Commit, Close, redis, cursors, TypeOK, RedisTypes, CursorTypes, CursorsOrdered
<1>2. ProcessTypes' /\ HandlerTypes'
  <2>1. /\ pc' \in {"loop", "done"} /\ topic' = "none" /\ next' = 1 /\ success' = TRUE
        /\ closed' \in BOOLEAN /\ phase' = phase /\ phase = "up"
    BY DEF Commit, Close, Idle, TypeOK, ProcessTypes, HandlerTypes
  <2>. QED
    BY <2>1 DEF Commit, Close, redis, TypeOK, ProcessTypes, HandlerTypes
<1>. QED
  BY <1>1, <1>2 DEF TypeOK

LEMMA StopTypes == TypeOK /\ Stop => TypeOK'
<1>. SUFFICES ASSUME TypeOK, Stop PROVE TypeOK'
  OBVIOUS
<1>1. CancelLoop
  BY DEF Stop
<1>2. RedisTypes' /\ fresh' \subseteq CacheKeys
  BY <1>1, EffectTypes DEF CancelLoop, redis, TypeOK, RedisTypes, ProcessTypes
<1>3. /\ position' \in [Topics -> Nat]
      /\ \A t \in Topics : position[t] <= position'[t] /\ position'[t] <= logEnd[t]
  BY <1>1, PollMoves DEF CancelLoop, TypeOK, CursorTypes, CursorsOrdered
<1>4. committed' = committed \/ committed' = position
  BY <1>1 DEF CancelLoop
<1>5. CursorTypes' /\ CursorsOrdered'
  <2>1. CursorTypes'
    BY <1>3, <1>4 DEF Stop, TypeOK, CursorTypes
  <2>2. \A t \in Topics : /\ committed'[t] <= logEnd[t] /\ delivered[t] \in Nat
                          /\ position[t] \in Nat /\ delivered[t] <= position[t]
                          /\ logEnd[t] <= Len(Log[t])
    BY <1>4 DEF TypeOK, CursorTypes, CursorsOrdered
  <2>. QED
    BY <1>3, <2>1, <2>2 DEF Stop, CursorTypes, CursorsOrdered
<1>6. ProcessTypes' /\ HandlerTypes'
  BY <1>2 DEF Stop, Idle, TypeOK, ProcessTypes, HandlerTypes
<1>. QED
  BY <1>2, <1>5, <1>6 DEF TypeOK

LEMMA NextTypes == TypeOK /\ [Next]_vars => TypeOK'
<1>1. TypeOK /\ UNCHANGED vars => TypeOK'
  BY DEF vars, redis, cursors, task, TypeOK, RedisTypes, ProcessTypes, CursorTypes, CursorsOrdered,
     HandlerTypes, Record
<1>. QED
  BY <1>1, EnvironmentTypes, PollTypes, TakeTypes, CommandTypes, CommitTypes, StopTypes
     DEF Next, LoopStep, Environment

(* Type correctness: every cursor is in its log, position and commit never *)
(* run ahead of the broker, and a handler is always at a command of its    *)
(* record.                                                                 *)
THEOREM TypeCorrect == Spec => []TypeOK
  BY InitTypes, NextTypes, PTL DEF Spec

-----------------------------------------------------------------------------
(* The feeds keep the newest alerts.                                       *)

(* F serves the newest of the alerts A that were added.                    *)
Newest(F, A) ==
  \A o \in A \ F : \E S \in SUBSET F : /\ Cardinality(S) = MaxAlerts
                                       /\ \A p \in S : Score(o) <= Score(p)

LEMMA NewestInFeeds == FeedsKeepNewest <=> \A f \in Feeds : Newest(feed[f], seen[f])
  BY DEF FeedsKeepNewest, Newest

LEMMA AddKeepsNewest ==
  ASSUME NEW F, NEW A, NEW o, Newest(F, A)
  PROVE  Newest(F \cup {o}, A \cup {o})
<1>. SUFFICES ASSUME NEW p \in (A \cup {o}) \ (F \cup {o})
              PROVE  \E S \in SUBSET (F \cup {o}) : /\ Cardinality(S) = MaxAlerts
                                                    /\ \A q \in S : Score(p) <= Score(q)
  BY DEF Newest
<1>1. PICK S \in SUBSET F : Cardinality(S) = MaxAlerts /\ \A q \in S : Score(p) <= Score(q)
  BY DEF Newest
<1>. QED
  BY <1>1

LEMMA TrimKeepsNewest ==
  ASSUME NEW F \in SUBSET Offsets("alerts"), NEW A \in SUBSET Offsets("alerts"), Newest(F, A),
         NEW K \in Trimmed(F)
  PROVE  Newest(K, A)
<1>0. \A o \in Offsets("alerts") : Score(o) \in Int
  BY LogAssumption
<1>. SUFFICES ASSUME NEW o \in A \ K
              PROVE  \E S \in SUBSET K : /\ Cardinality(S) = MaxAlerts
                                         /\ \A p \in S : Score(o) <= Score(p)
  BY DEF Newest
<1>1. CASE o \in F
  <2>1. Cardinality(K) = MaxAlerts /\ \A p \in K : Score(o) <= Score(p)
    BY <1>1, TrimKeeps
  <2>. QED
    BY <2>1
<1>2. CASE o \notin F
  <2>1. PICK S \in SUBSET F : Cardinality(S) = MaxAlerts /\ \A p \in S : Score(o) <= Score(p)
    BY <1>2 DEF Newest
  <2>2. CASE S \subseteq K
    BY <2>1, <2>2
  <2>3. CASE ~(S \subseteq K)
    <3>1. PICK q \in S : q \notin K
      BY <2>3
    <3>2. Cardinality(K) = MaxAlerts /\ \A p \in K : Score(q) <= Score(p)
      BY <3>1, TrimKeeps
    <3>3. ASSUME NEW p \in K PROVE Score(o) <= Score(p)
      <4>1. Score(o) <= Score(q) /\ Score(q) <= Score(p)
        BY <2>1, <3>1, <3>2
      <4>2. o \in Offsets("alerts") /\ q \in Offsets("alerts") /\ p \in Offsets("alerts")
        BY <3>1, TrimKeeps
      <4>. HIDE DEF Score
      <4>. QED
        BY <1>0, <4>1, <4>2
    <3>. QED
      BY <3>2, <3>3
  <2>. QED
    BY <2>2, <2>3
<1>. QED
  BY <1>1, <1>2

LEMMA EffectKeepsNewest ==
  ASSUME TypeOK, FeedsKeepNewest, pc = "handle", Effect(Command, Record)
  PROVE  FeedsKeepNewest'
<1>0. /\ \A f \in Feeds : Newest(feed[f], seen[f])
      /\ feed \in [Feeds -> SUBSET Offsets("alerts")] /\ seen \in [Feeds -> SUBSET Offsets("alerts")]
  BY NewestInFeeds DEF TypeOK, RedisTypes
<1>. SUFFICES ASSUME NEW f \in Feeds PROVE Newest(feed'[f], seen'[f])
  BY DEF FeedsKeepNewest, Newest
<1>1. CASE SetExEffect(Command, Record) \/ ExpireEffect(Command)
  BY <1>0, <1>1 DEF SetExEffect, ExpireEffect
<1>2. CASE ZaddEffect(Command, Record)
  <2>1. CASE f = Command.key
    <3>1. feed'[f] = feed[f] \cup {Record} /\ seen'[f] = seen[f] \cup {Record}
      BY <1>0, <1>2, <2>1 DEF ZaddEffect
    <3>2. Newest(feed[f] \cup {Record}, seen[f] \cup {Record})
      BY <1>0, AddKeepsNewest
    <3>. QED
      BY <3>1, <3>2
  <2>2. CASE f # Command.key
    <3>1. feed'[f] = feed[f] /\ seen'[f] = seen[f]
      BY <1>0, <1>2, <2>2 DEF ZaddEffect
    <3>. QED
      BY <1>0, <3>1
  <2>. QED
    BY <2>1, <2>2
<1>3. CASE TrimEffect(Command)
  <2>1. PICK K \in Trimmed(feed[Command.key]) : feed' = [feed EXCEPT ![Command.key] = K]
    BY <1>3 DEF TrimEffect
  <2>2. seen' = seen
    BY <1>3 DEF TrimEffect
  <2>3. CASE f = Command.key
    <3>1. feed'[f] = K /\ K \in Trimmed(feed[f])
      BY <1>0, <2>1, <2>3
    <3>. QED
      BY <1>0, <2>2, <3>1, TrimKeepsNewest
  <2>4. CASE f # Command.key
    <3>1. feed'[f] = feed[f]
      BY <1>0, <2>1, <2>4
    <3>. QED
      BY <1>0, <2>2, <3>1
  <2>. QED
    BY <2>3, <2>4
<1>. QED
  BY <1>1, <1>2, <1>3 DEF Effect

LEMMA InitNewest == Init => FeedsKeepNewest
  BY DEF Init, FeedsKeepNewest

LEMMA NextNewest == TypeOK /\ FeedsKeepNewest /\ [Next]_vars => FeedsKeepNewest'
<1>. SUFFICES ASSUME TypeOK, FeedsKeepNewest, [Next]_vars PROVE FeedsKeepNewest'
  OBVIOUS
<1>1. CASE UNCHANGED <<feed, seen>>
  BY <1>1 DEF FeedsKeepNewest
<1>2. CASE CommandSucceeds \/ CommandFails \/ Stop
  BY <1>1, <1>2, EffectKeepsNewest DEF CommandSucceeds, CommandFails, Stop, CancelLoop, redis
<1>3. CASE Poll \/ Commit \/ Close \/ Connected \/ Start \/ Exit \/ UNCHANGED vars
  BY <1>1, <1>3 DEF Poll, Commit, Close, Connected, Start, Exit, vars, redis
<1>4. CASE \/ \E t \in Topics : Take(t) \/ Produce(t)
           \/ \E k \in CacheKeys : CacheExpires(k)
  BY <1>1, <1>4 DEF Take, Produce, CacheExpires, redis
<1>5. ASSUME NEW f \in Feeds, FeedExpires(f) PROVE FeedsKeepNewest'
  <2>1. feed \in [Feeds -> SUBSET Offsets("alerts")] /\ seen \in [Feeds -> SUBSET Offsets("alerts")]
    BY DEF TypeOK, RedisTypes
  <2>. SUFFICES ASSUME NEW g \in Feeds PROVE Newest(feed'[g], seen'[g])
    BY DEF FeedsKeepNewest, Newest
  <2>2. CASE g = f
    <3>1. seen'[g] = {}
      BY <1>5, <2>1, <2>2 DEF FeedExpires
    <3>. QED
      BY <3>1 DEF Newest
  <2>3. CASE g # f
    <3>1. seen'[g] = seen[g] /\ feed'[g] = feed[g]
      BY <1>5, <2>1, <2>3 DEF FeedExpires
    <3>. QED
      BY <3>1, NewestInFeeds
  <2>. QED
    BY <2>2, <2>3
<1>. QED
  BY <1>2, <1>3, <1>4, <1>5 DEF Next, LoopStep, Environment

(* FeedsKeepNewest holds for every log, feed size and pattern of failures: *)
(* no partial add_alert, redelivery or trim loses an alert to an older one.*)
THEOREM FeedsNewest == Spec => []FeedsKeepNewest
<1>1. Init => TypeOK /\ FeedsKeepNewest
  BY InitTypes, InitNewest
<1>2. TypeOK /\ FeedsKeepNewest /\ [Next]_vars => TypeOK' /\ FeedsKeepNewest'
  BY NextTypes, NextNewest
<1>. QED
  BY <1>1, <1>2, PTL DEF Spec

-----------------------------------------------------------------------------
(* add_alert, command by command.                                          *)

LEMMA EmptyFeed == Cardinality({}) = 0 /\ Cardinality({}) <= MaxAlerts
  BY FS_EmptySet, SizeAssumption

(* Where the next command leads, in a handler of an alert.                 *)
LEMMA AlertStep ==
  ASSUME TypeOK, AddProgress, pc = "handle", topic = "alerts", Effect(Command, Record),
         NEW s, s = Symbol("alerts", Record)
  PROVE  /\ s \in Symbols /\ s \in Feeds /\ s # All /\ All \in Feeds
         /\ next \in 1 .. 6
         /\ next = 1 => feed'[s] = feed[s] \cup {Record} /\ seen'[s] = seen[s] \cup {Record}
         /\ next = 2 => /\ feed'[All] = feed[All] \cup {Record} /\ seen'[All] = seen[All] \cup {Record}
                        /\ feed'[s] = feed[s] /\ seen'[s] = seen[s]
         /\ next = 3 => /\ feed'[s] \in Trimmed(feed[s])
                        /\ feed'[All] = feed[All] /\ seen' = seen /\ mortal' = mortal
         /\ next = 4 => /\ feed'[All] \in Trimmed(feed[All])
                        /\ feed'[s] = feed[s] /\ seen' = seen /\ mortal' = mortal
         /\ next > 4 => feed' = feed /\ seen' = seen
         /\ next = 5 => mortal' = IF feed[s] = {} THEN mortal ELSE mortal \cup {s}
         /\ next = 6 => mortal' = IF feed[All] = {} THEN mortal ELSE mortal \cup {All}
<1>0. /\ s \in Symbols /\ s \in Feeds /\ s # All /\ All \in Feeds
      /\ feed \in [Feeds -> SUBSET Offsets("alerts")] /\ seen \in [Feeds -> SUBSET Offsets("alerts")]
  BY Awaited, Names, LogAssumption DEF TypeOK, RedisTypes
<1>1. AddsAlert(Record, next, Command)
  BY Awaited DEF SetsCache
<1>2. next \in 1 .. 6
  BY <1>1 DEF AddsAlert
<1>3. CASE next = 1 \/ next = 2
  <2>1. Command = Zadd(IF next = 1 THEN s ELSE All)
    BY <1>1, <1>3 DEF AddsAlert
  <2>2. ZaddEffect(Command, Record) /\ Command.key = IF next = 1 THEN s ELSE All
    BY <2>1 DEF Effect, SetExEffect, TrimEffect, ExpireEffect, Zadd
  <2>. QED
    BY <1>0, <1>2, <1>3, <2>2 DEF ZaddEffect
<1>4. CASE next = 3 \/ next = 4
  <2>1. Command = Trim(IF next = 3 THEN s ELSE All)
    BY <1>1, <1>4 DEF AddsAlert
  <2>2. TrimEffect(Command) /\ Command.key = IF next = 3 THEN s ELSE All
    BY <2>1 DEF Effect, SetExEffect, ZaddEffect, ExpireEffect, Trim
  <2>. QED
    BY <1>0, <1>2, <1>4, <2>2 DEF TrimEffect
<1>5. CASE next = 5 \/ next = 6
  <2>1. Command = Expire(IF next = 5 THEN s ELSE All)
    BY <1>1, <1>5 DEF AddsAlert
  <2>2. ExpireEffect(Command) /\ Command.key = IF next = 5 THEN s ELSE All
    BY <2>1 DEF Effect, SetExEffect, ZaddEffect, TrimEffect, Expire
  <2>. QED
    BY <1>0, <1>2, <1>5, <2>2 DEF ExpireEffect
<1>. QED
  BY <1>0, <1>2, <1>3, <1>4, <1>5

LEMMA InitProgress == Init => AddProgress
  BY DEF Init, AddProgress

(* Only a command, and the expiry of a feed, change what AddProgress says. *)
LEMMA CommandProgress == TypeOK /\ AddProgress /\ CommandSucceeds => AddProgress'
<1>. SUFFICES ASSUME TypeOK, AddProgress, CommandSucceeds, pc' = "handle", topic' = "alerts"
              PROVE  AddProgress'
  BY DEF AddProgress
<1>. DEFINE s == Symbol("alerts", Record)
<1>1. /\ pc = "handle" /\ topic = "alerts" /\ Effect(Command, Record)
      /\ next' = next + 1 /\ Record' = Record
  BY DEF CommandSucceeds, Idle, cursors, Record
<1>2. /\ next > 1 => (feed[s] # {} => Record \in seen[s])
      /\ next > 2 => (feed[All] # {} => Record \in seen[All])
      /\ next > 3 => Cardinality(feed[s]) <= MaxAlerts
      /\ next > 4 => Cardinality(feed[All]) <= MaxAlerts
      /\ next > 5 => (feed[s] # {} => s \in mortal)
  BY <1>1 DEF AddProgress
<1>. HIDE DEF s
<1>3. /\ next \in 1 .. 6
      /\ next = 1 => Record \in seen'[s]
      /\ next = 2 => Record \in seen'[All] /\ feed'[s] = feed[s] /\ seen'[s] = seen[s]
      /\ next = 3 => /\ feed'[s] \in Trimmed(feed[s])
                     /\ feed'[All] = feed[All] /\ seen' = seen /\ mortal' = mortal
      /\ next = 4 => /\ feed'[All] \in Trimmed(feed[All])
                     /\ feed'[s] = feed[s] /\ seen' = seen /\ mortal' = mortal
      /\ next > 4 => feed' = feed /\ seen' = seen
      /\ next = 5 => (feed[s] # {} => s \in mortal')
  BY <1>1, AlertStep DEF s
<1>4. /\ next' > 1 => (feed'[s] # {} => Record \in seen'[s])
      /\ next' > 2 => (feed'[All] # {} => Record \in seen'[All])
      /\ next' > 3 => Cardinality(feed'[s]) <= MaxAlerts
      /\ next' > 4 => Cardinality(feed'[All]) <= MaxAlerts
      /\ next' > 5 => /\ feed'[s] # {} => s \in mortal'
                      /\ next \in {5, 6}
  <2>1. CASE next = 1
    BY <1>1, <1>3, <2>1
  <2>2. CASE next = 2
    BY <1>1, <1>2, <1>3, <2>2
  <2>3. CASE next = 3
    BY <1>1, <1>2, <1>3, <2>3, TrimKeeps
  <2>4. CASE next = 4
    BY <1>1, <1>2, <1>3, <2>4, TrimKeeps
  <2>5. CASE next = 5
    BY <1>1, <1>2, <1>3, <2>5
  <2>6. CASE next = 6
    <3>1. ~IsLast /\ next = 6 => FALSE
      BY <1>1, Names, CommandsOf DEF IsLast
    <3>. QED
      BY <2>6, <3>1, <1>1 DEF CommandSucceeds, Idle
  <2>. QED
    BY <1>3, <2>1, <2>2, <2>3, <2>4, <2>5, <2>6
<1>. QED
  BY <1>1, <1>4 DEF AddProgress, s

LEMMA ExpiryProgress ==
  ASSUME NEW f \in Feeds PROVE TypeOK /\ AddProgress /\ FeedExpires(f) => AddProgress'
<1>. SUFFICES ASSUME TypeOK, AddProgress, FeedExpires(f), pc = "handle", topic = "alerts"
              PROVE  AddProgress'
  BY DEF AddProgress, FeedExpires, task
<1>. DEFINE s == Symbol("alerts", Record)
<1>1. /\ pc' = pc /\ topic' = topic /\ next' = next /\ Record' = Record
      /\ feed \in [Feeds -> SUBSET Offsets("alerts")] /\ seen \in [Feeds -> SUBSET Offsets("alerts")]
      /\ feed' = [feed EXCEPT ![f] = {}] /\ seen' = [seen EXCEPT ![f] = {}]
      /\ mortal' = mortal \ {f}
  BY DEF FeedExpires, task, cursors, Record, TypeOK, RedisTypes
<1>2. s \in Feeds /\ All \in Feeds
  BY Awaited, Names, LogAssumption
<1>3. ASSUME NEW g \in Feeds
      PROVE  \/ feed'[g] = {} /\ Cardinality(feed'[g]) <= MaxAlerts
             \/ feed'[g] = feed[g] /\ seen'[g] = seen[g] /\ (g \in mortal <=> g \in mortal')
  BY <1>1, EmptyFeed
<1>4. /\ next > 1 => (feed[s] # {} => Record \in seen[s])
      /\ next > 2 => (feed[All] # {} => Record \in seen[All])
      /\ next > 3 => Cardinality(feed[s]) <= MaxAlerts
      /\ next > 4 => Cardinality(feed[All]) <= MaxAlerts
      /\ next > 5 => (feed[s] # {} => s \in mortal)
  BY DEF AddProgress
<1>. HIDE DEF s
<1>5. /\ next > 1 => (feed'[s] # {} => Record \in seen'[s])
      /\ next > 2 => (feed'[All] # {} => Record \in seen'[All])
      /\ next > 3 => Cardinality(feed'[s]) <= MaxAlerts
      /\ next > 4 => Cardinality(feed'[All]) <= MaxAlerts
      /\ next > 5 => (feed'[s] # {} => s \in mortal')
  <2>1. \/ feed'[s] = {} /\ Cardinality(feed'[s]) <= MaxAlerts
        \/ feed'[s] = feed[s] /\ seen'[s] = seen[s] /\ (s \in mortal <=> s \in mortal')
    BY <1>2, <1>3
  <2>2. \/ feed'[All] = {} /\ Cardinality(feed'[All]) <= MaxAlerts
        \/ feed'[All] = feed[All] /\ seen'[All] = seen[All]
    BY <1>2, <1>3
  <2>. QED
    BY <1>4, <2>1, <2>2
<1>. QED
  BY <1>1, <1>5 DEF AddProgress, s

LEMMA NextProgress == TypeOK /\ AddProgress /\ [Next]_vars => AddProgress'
<1>. SUFFICES ASSUME TypeOK, AddProgress, [Next]_vars PROVE AddProgress'
  OBVIOUS
<1>1. CASE pc' # "handle" \/ next' = 1
  BY <1>1 DEF AddProgress
<1>2. CASE UNCHANGED <<feed, seen, mortal, task, delivered>>
  BY <1>2 DEF AddProgress, task, Record
<1>3. CASE CommandFails \/ Stop \/ Commit \/ Close \/ Connected \/ Exit
  BY <1>1, <1>3 DEF CommandFails, Stop, Commit, Close, Connected, Exit, Idle, Refused
<1>4. CASE Start \/ Poll \/ UNCHANGED vars
  BY <1>2, <1>4 DEF Start, Poll, vars, redis, cursors
<1>5. CASE \/ \E t \in Topics : Produce(t)
           \/ \E k \in CacheKeys : CacheExpires(k)
  BY <1>2, <1>5 DEF Produce, CacheExpires, redis, cursors
<1>6. CASE \E t \in Topics : Take(t)
  BY <1>1, <1>6 DEF Take, Idle, Refused
<1>. QED
  BY <1>3, <1>4, <1>5, <1>6, CommandProgress, ExpiryProgress DEF Next, LoopStep, Environment

LEMMA AddServes ==
  ASSUME TypeOK, AddProgress, pc = "handle", topic = "alerts", IsLast, CommandSucceeds,
         NEW o \in Offsets("alerts"), o = Record
  PROVE  Serves(Symbol("alerts", o), o)' /\ Serves(All, o)'
<1>. DEFINE s == Symbol("alerts", o)
<1>1. next = 6
  BY Names, CommandsOf DEF IsLast
<1>2. /\ feed[s] # {} => o \in seen[s]
      /\ feed[All] # {} => o \in seen[All]
      /\ Cardinality(feed[s]) <= MaxAlerts
      /\ Cardinality(feed[All]) <= MaxAlerts
      /\ feed[s] # {} => s \in mortal
  BY <1>1 DEF AddProgress
<1>. HIDE DEF s
<1>3. /\ feed' = feed /\ seen' = seen
      /\ mortal' = IF feed[All] = {} THEN mortal ELSE mortal \cup {All}
  BY <1>1, AlertStep DEF s, CommandSucceeds
<1>. QED
  BY <1>2, <1>3 DEF Serves, s

(* AddedIsServed: an add_alert that reports success leaves both feeds with *)
(* the alert, trimmed and with a time to live, however earlier calls ended.*)
THEOREM AddsServed == Spec => AddedIsServed
<1>1. Init => TypeOK /\ AddProgress
  BY InitTypes, InitProgress
<1>2. TypeOK /\ AddProgress /\ [Next]_vars => TypeOK' /\ AddProgress'
  BY NextTypes, NextProgress
<1>3. TypeOK /\ AddProgress =>
        \A o \in Offsets("alerts") :
          pc = "handle" /\ topic = "alerts" /\ o = Record /\ IsLast /\ CommandSucceeds
            => Serves(Symbol("alerts", o), o)' /\ Serves(All, o)'
  BY AddServes DEF Serves
<1>. QED
  BY <1>1, <1>2, <1>3, PTL DEF Spec, AddedIsServed

-----------------------------------------------------------------------------
(* The two statistics keys.                                                *)

LEMMA StatsKeys ==
  ASSUME NEW s \in Symbols, NEW kind \in Windows \cup {"stats"}
  PROVE  <<kind, s>> \in CacheKeys
  BY DEF CacheKeys

(* The first part of StatsProgress, and its second.                        *)
StatsTaken ==
  \A s \in Symbols, kind \in Windows \cup {"stats"} :
    <<kind, s>> \in fresh => phase = "up" /\ cache[<<kind, s>>] <= delivered["windowed"]

FirstWritten ==
  pc = "handle" /\ topic = "windowed" /\ next > 1 =>
    cache[<<"stats", Symbol("windowed", Record)>>] \in {Absent, Record}

LEMMA StatsParts == TypeOK => (StatsProgress <=> StatsTaken /\ FirstWritten)
<1>. SUFFICES ASSUME TypeOK PROVE StatsProgress <=> StatsTaken /\ FirstWritten
  OBVIOUS
<1>1. pc = "handle" /\ topic = "windowed" => Symbol("windowed", Record) \in Symbols
  BY Awaited, LogAssumption
<1>2. StatsTaken /\ FirstWritten => StatsProgress
  BY DEF StatsTaken, FirstWritten, StatsProgress
<1>3. StatsProgress => StatsTaken /\ FirstWritten
  BY <1>1 DEF StatsTaken, FirstWritten, StatsProgress
<1>. QED
  BY <1>2, <1>3

StatsInv == LegacyKeyAhead /\ StatsTaken /\ FirstWritten

LEMMA InitStats == Init => StatsInv
  BY DEF Init, StatsInv, LegacyKeyAhead, StatsTaken, FirstWritten

(* A step that writes no key of the cache.                                 *)
LEMMA StatsQuiet ==
  ASSUME TypeOK, StatsInv, UNCHANGED <<cache, fresh>>,
         phase = "up" => phase' = "up" /\ delivered["windowed"] <= delivered'["windowed"],
         delivered' \in [Topics -> Nat],
         \/ ~(pc' = "handle" /\ topic' = "windowed" /\ next' > 1)
         \/ UNCHANGED <<task, delivered>>
  PROVE  StatsInv'
<1>1. LegacyKeyAhead'
  BY DEF StatsInv, LegacyKeyAhead
<1>2. StatsTaken'
  <2>. SUFFICES ASSUME NEW s \in Symbols, NEW kind \in Windows \cup {"stats"}, <<kind, s>> \in fresh
                PROVE  phase' = "up" /\ cache[<<kind, s>>] <= delivered'["windowed"]
    BY DEF StatsTaken
  <2>1. phase = "up" /\ cache[<<kind, s>>] <= delivered["windowed"]
    BY DEF StatsInv, StatsTaken
  <2>2. /\ cache[<<kind, s>>] \in Nat /\ delivered["windowed"] \in Nat
        /\ delivered'["windowed"] \in Nat
    BY StatsKeys, Names DEF TypeOK, RedisTypes, CursorTypes
  <2>. QED
    BY <2>1, <2>2
<1>3. FirstWritten'
  BY DEF StatsInv, FirstWritten, task, Record
<1>. QED
  BY <1>1, <1>2, <1>3 DEF StatsInv

LEMMA ExpiryStats ==
  ASSUME NEW k \in CacheKeys PROVE TypeOK /\ StatsInv /\ CacheExpires(k) => StatsInv'
<1>. SUFFICES ASSUME TypeOK, StatsInv, CacheExpires(k) PROVE StatsInv'
  OBVIOUS
<1>1. /\ cache' = [cache EXCEPT ![k] = Absent] /\ cache \in [CacheKeys -> Nat]
      /\ UNCHANGED <<fresh, phase, delivered, task>> /\ delivered["windowed"] \in Nat
  BY Names DEF CacheExpires, cursors, TypeOK, RedisTypes, CursorTypes
<1>2. LegacyKeyAhead'
  BY <1>1, StatsKeys DEF StatsInv, LegacyKeyAhead
<1>3. StatsTaken'
  <2>. SUFFICES ASSUME NEW s \in Symbols, NEW kind \in Windows \cup {"stats"}, <<kind, s>> \in fresh
                PROVE  phase = "up" /\ cache'[<<kind, s>>] <= delivered["windowed"]
    BY <1>1 DEF StatsTaken
  <2>1. phase = "up" /\ cache[<<kind, s>>] <= delivered["windowed"]
    BY DEF StatsInv, StatsTaken
  <2>2. cache'[<<kind, s>>] = cache[<<kind, s>>] \/ cache'[<<kind, s>>] = 0
    BY <1>1, StatsKeys DEF Absent
  <2>. QED
    BY <1>1, <2>1, <2>2
<1>4. FirstWritten'
  <2>. SUFFICES ASSUME pc = "handle", topic = "windowed", next > 1
                PROVE  cache'[<<"stats", Symbol("windowed", Record)>>] \in {Absent, Record}
    BY <1>1 DEF FirstWritten, task, Record
  <2>1. <<"stats", Symbol("windowed", Record)>> \in CacheKeys
    BY Awaited, LogAssumption, StatsKeys
  <2>. QED
    BY <1>1, <2>1 DEF StatsInv, FirstWritten
<1>. QED
  BY <1>2, <1>3, <1>4 DEF StatsInv

(* A write of the cache, whether the handler then hears of it or not.      *)
LEMMA SetExStats ==
  ASSUME TypeOK, StatsInv, pc = "handle", SetExEffect(Command, Record), phase' = phase,
         delivered' = delivered
  PROVE  /\ LegacyKeyAhead' /\ StatsTaken'
         /\ topic = "windowed" => cache'[<<"stats", Symbol("windowed", Record)>>] \in {Absent, Record}
<1>0. /\ cache \in [CacheKeys -> Nat] /\ Record \in Nat /\ topic \in Topics /\ phase = "up"
      /\ topic = "windowed" => Record = delivered["windowed"]
      /\ topic = "windowed" => Symbol("windowed", Record) \in Symbols
      /\ delivered["windowed"] \in Nat
  BY Awaited, Names, LogAssumption DEF Record, TypeOK, RedisTypes, CursorTypes, HandlerTypes
<1>1. /\ Command.key \in CacheKeys
      /\ cache' = [cache EXCEPT ![Command.key] = Record] /\ fresh' = fresh \cup {Command.key}
  <2>1. SetsCache(topic, Record, next, Command)
    BY Awaited DEF SetExEffect, AddsAlert, Zadd, Trim, Expire
  <2>. QED
    BY <2>1 DEF SetsCache, SetExEffect
<1>2. CASE topic # "windowed"
  <2>1. \A kind \in Windows \cup {"stats"}, s \in Symbols : Command.key # <<kind, s>>
    BY <1>2, Awaited DEF SetsCache, SetExEffect, AddsAlert, Zadd, Trim, Expire
  <2>2. \A kind \in Windows \cup {"stats"}, s \in Symbols :
          /\ cache'[<<kind, s>>] = cache[<<kind, s>>]
          /\ <<kind, s>> \in fresh' => <<kind, s>> \in fresh
    BY <1>0, <1>1, <2>1, StatsKeys
  <2>3. StatsTaken'
    BY <1>0, <2>2 DEF StatsInv, StatsTaken
  <2>4. LegacyKeyAhead'
    BY <2>2 DEF StatsInv, LegacyKeyAhead
  <2>. QED
    BY <1>2, <2>3, <2>4
<1>3. CASE topic = "windowed"
  <2>. DEFINE r == Symbol("windowed", Record)
  <2>0. r \in Symbols /\ Record = delivered["windowed"]
    BY <1>0, <1>3
  <2>1. \/ Command.key = <<"stats", r>>
        \/ /\ next = 2 /\ Window(Record) \in Windows /\ Command.key = <<Window(Record), r>>
    BY <1>3, Awaited DEF SetsCache
  <2>2. StatsTaken'
    <3>. SUFFICES ASSUME NEW s \in Symbols, NEW kind \in Windows \cup {"stats"}, <<kind, s>> \in fresh'
                  PROVE  phase = "up" /\ cache'[<<kind, s>>] <= delivered["windowed"]
      BY DEF StatsTaken
    <3>1. CASE <<kind, s>> = Command.key
      BY <1>0, <1>1, <2>0, <3>1
    <3>2. CASE <<kind, s>> # Command.key
      <4>1. <<kind, s>> \in fresh /\ cache'[<<kind, s>>] = cache[<<kind, s>>]
        BY <1>0, <1>1, <3>2, StatsKeys
      <4>. QED
        BY <1>0, <4>1 DEF StatsInv, StatsTaken
    <3>. QED
      BY <3>1, <3>2
  <2>3. LegacyKeyAhead'
    <3>. SUFFICES ASSUME NEW s \in Symbols, NEW w \in Windows,
                         <<"stats", s>> \in fresh', <<w, s>> \in fresh',
                         cache'[<<"stats", s>>] # Absent, cache'[<<w, s>>] # Absent
                  PROVE  cache'[<<w, s>>] <= cache'[<<"stats", s>>]
      BY DEF LegacyKeyAhead
    <3>0. /\ <<"stats", s>> \in CacheKeys /\ <<w, s>> \in CacheKeys /\ <<w, s>> # <<"stats", s>>
      BY StatsKeys DEF Windows
    <3>1. CASE Command.key = <<"stats", r>>
      <4>1. CASE s = r
        <5>1. cache'[<<"stats", s>>] = Record /\ cache'[<<w, s>>] = cache[<<w, s>>]
              /\ <<w, s>> \in fresh
          BY <1>0, <1>1, <3>0, <3>1, <4>1
        <5>. QED
          BY <2>0, <5>1 DEF StatsInv, StatsTaken
      <4>2. CASE s # r
        <5>1. /\ <<"stats", s>> # Command.key /\ <<w, s>> # Command.key
          BY <3>1, <4>2
        <5>. QED
          BY <1>0, <1>1, <3>0, <5>1 DEF StatsInv, LegacyKeyAhead
      <4>. QED
        BY <4>1, <4>2
    <3>2. CASE next = 2 /\ Window(Record) \in Windows /\ Command.key = <<Window(Record), r>>
      <4>0. <<"stats", s>> # Command.key
        BY <3>2 DEF Windows
      <4>1. <<"stats", s>> \in fresh /\ cache'[<<"stats", s>>] = cache[<<"stats", s>>]
        BY <1>0, <1>1, <3>0, <4>0
      <4>2. CASE <<w, s>> = Command.key
        <5>1. s = r /\ cache'[<<w, s>>] = Record
          BY <1>0, <1>1, <3>0, <3>2, <4>2
        <5>2. cache[<<"stats", s>>] = Record
          BY <1>3, <3>2, <4>1, <5>1 DEF StatsInv, FirstWritten
        <5>. QED
          BY <1>0, <4>1, <5>1, <5>2
      <4>3. CASE <<w, s>> # Command.key
        BY <1>0, <1>1, <3>0, <4>1, <4>3 DEF StatsInv, LegacyKeyAhead
      <4>. QED
        BY <4>2, <4>3
    <3>. QED
      BY <2>1, <3>1, <3>2
  <2>4. cache'[<<"stats", r>>] \in {Absent, Record}
    <3>0. <<"stats", r>> \in CacheKeys
      BY <2>0, StatsKeys
    <3>1. CASE Command.key = <<"stats", r>>
      BY <1>0, <1>1, <3>0, <3>1
    <3>2. CASE next = 2 /\ Window(Record) \in Windows /\ Command.key = <<Window(Record), r>>
      <4>1. <<"stats", r>> # Command.key
        BY <3>2 DEF Windows
      <4>2. cache[<<"stats", r>>] \in {Absent, Record}
        BY <1>3, <3>2 DEF StatsInv, FirstWritten
      <4>. QED
        BY <1>0, <1>1, <3>0, <4>1, <4>2
    <3>. QED
      BY <2>1, <3>1, <3>2
  <2>. QED
    BY <2>2, <2>3, <2>4
<1>. QED
  BY <1>2, <1>3

LEMMA CommandStats == TypeOK /\ StatsInv /\ (CommandSucceeds \/ CommandFails \/ Stop) => StatsInv'
<1>. SUFFICES ASSUME TypeOK, StatsInv, CommandSucceeds \/ CommandFails \/ Stop PROVE StatsInv'
  OBVIOUS
<1>1. /\ phase' = phase /\ delivered' = delivered /\ delivered \in [Topics -> Nat]
      /\ delivered["windowed"] <= delivered'["windowed"]
  BY Names DEF CommandSucceeds, CommandFails, Stop, cursors, TypeOK, CursorTypes
<1>2. \/ pc' # "handle"
      \/ /\ pc = "handle" /\ CommandSucceeds /\ topic' = topic /\ Record' = Record
         /\ ~IsLast /\ next' = next + 1
  BY DEF CommandSucceeds, CommandFails, Stop, Idle, Refused, cursors, Record
<1>3. \/ UNCHANGED <<cache, fresh>>
      \/ pc = "handle" /\ SetExEffect(Command, Record)
  BY DEF CommandSucceeds, CommandFails, Stop, CancelLoop, redis, Effect, ZaddEffect, TrimEffect,
     ExpireEffect
<1>4. CASE pc = "handle" /\ SetExEffect(Command, Record)
  <2>1. /\ LegacyKeyAhead' /\ StatsTaken'
        /\ topic = "windowed" => cache'[<<"stats", Symbol("windowed", Record)>>] \in {Absent, Record}
    BY <1>1, <1>4, SetExStats
  <2>2. FirstWritten'
    BY <1>2, <2>1 DEF FirstWritten
  <2>. QED
    BY <2>1, <2>2 DEF StatsInv
<1>5. CASE UNCHANGED <<cache, fresh>> /\ ~(pc = "handle" /\ SetExEffect(Command, Record))
  <2>1. ~(pc' = "handle" /\ topic' = "windowed" /\ next' > 1)
    <3>. SUFFICES ASSUME pc' = "handle", topic' = "windowed" PROVE FALSE
      OBVIOUS
    <3>1. pc = "handle" /\ CommandSucceeds /\ topic = "windowed"
      BY <1>2
    <3>2. Command.op = "setex"
      BY <3>1, Awaited DEF SetsCache
    <3>. QED
      BY <1>5, <3>1, <3>2 DEF CommandSucceeds, Effect, ZaddEffect, TrimEffect, ExpireEffect
  <2>. QED
    BY <1>1, <1>5, <2>1, StatsQuiet
<1>. QED
  BY <1>3, <1>4, <1>5

LEMMA NextStats == TypeOK /\ StatsInv /\ [Next]_vars => StatsInv'
<1>. SUFFICES ASSUME TypeOK, StatsInv, [Next]_vars PROVE StatsInv'
  OBVIOUS
<1>0. delivered \in [Topics -> Nat] /\ delivered["windowed"] <= delivered["windowed"]
  BY Names DEF TypeOK, CursorTypes
<1>1. CASE Poll \/ Start \/ UNCHANGED vars \/ (\E t \in Topics : Produce(t))
           \/ (\E f \in Feeds : FeedExpires(f))
  <2>1. /\ UNCHANGED <<cache, fresh, task, delivered>> /\ (phase = "up" => phase' = "up")
    BY <1>1 DEF Poll, Start, Produce, FeedExpires, vars, redis, cursors
  <2>. QED
    BY <1>0, <2>1, StatsQuiet
<1>2. CASE Commit \/ Close
  <2>1. /\ UNCHANGED <<cache, fresh, delivered>> /\ phase' = phase /\ pc' # "handle"
    BY <1>2 DEF Commit, Close, Idle, redis, cursors
  <2>. QED
    BY <1>0, <2>1, StatsQuiet
<1>3. CASE Connected
  <2>1. /\ UNCHANGED <<cache, fresh>> /\ phase # "up" /\ pc' # "handle"
    BY <1>3 DEF Connected, Idle, redis
  <2>2. delivered' \in [Topics -> Nat]
    BY <1>3, NextTypes DEF Next, TypeOK, CursorTypes
  <2>. QED
    BY <2>1, <2>2, StatsQuiet
<1>4. ASSUME NEW t \in Topics, Take(t) PROVE StatsInv'
  <2>1. /\ UNCHANGED <<cache, fresh>> /\ phase' = phase /\ (pc' = "handle" => next' = 1)
        /\ delivered' = [delivered EXCEPT ![t] = delivered[t] + 1]
    BY <1>4 DEF Take, Idle, Refused, redis, AfterRaise
  <2>2. delivered' \in [Topics -> Nat] /\ delivered["windowed"] <= delivered'["windowed"]
    BY <1>0, <2>1, Names
  <2>. QED
    BY <2>1, <2>2, StatsQuiet
<1>5. CASE Exit
  <2>1. fresh' = {} /\ pc' # "handle"
    BY <1>5 DEF Exit, Idle
  <2>. QED
    BY <2>1 DEF StatsInv, LegacyKeyAhead, StatsTaken, FirstWritten
<1>. QED
  BY <1>1, <1>2, <1>3, <1>4, <1>5, CommandStats, ExpiryStats DEF Next, LoopStep, Environment

(* LegacyKeyAhead: a reader of the statistics key without a window never   *)
(* sees older statistics than the readers of a window.                     *)
THEOREM LegacyAhead == Spec => []LegacyKeyAhead
<1>1. Init => TypeOK /\ StatsInv
  BY InitTypes, InitStats
<1>2. TypeOK /\ StatsInv /\ [Next]_vars => TypeOK' /\ StatsInv'
  BY NextTypes, NextStats
<1>3. StatsInv => LegacyKeyAhead
  BY DEF StatsInv
<1>. QED
  BY <1>1, <1>2, <1>3, PTL DEF Spec

(* The conjunction the runs check as IInv is an invariant.                 *)
THEOREM InductiveInvariant == Spec => []IInv
<1>1. Init => TypeOK /\ FeedsKeepNewest /\ AddProgress /\ StatsInv
  BY InitTypes, InitNewest, InitProgress, InitStats
<1>2. TypeOK /\ FeedsKeepNewest /\ AddProgress /\ StatsInv /\ [Next]_vars =>
        TypeOK' /\ FeedsKeepNewest' /\ AddProgress' /\ StatsInv'
  BY NextTypes, NextNewest, NextProgress, NextStats
<1>3. TypeOK /\ FeedsKeepNewest /\ AddProgress /\ StatsInv => IInv
  BY StatsParts DEF IInv, StatsInv
<1>. QED
  BY <1>1, <1>2, <1>3, PTL DEF Spec

=============================================================================
