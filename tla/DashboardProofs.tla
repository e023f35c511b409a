-------------------------- MODULE DashboardProofs --------------------------
(***************************************************************************)
(* Proofs about Dashboard, for every set of sessions and of reads, every   *)
(* pool, number of calls, of calls that give up and of windows: a session  *)
(* that waits has a coroutine or an answer, what it gets is as fresh as    *)
(* its call, and while nobody gives up the cached changes are the newest.  *)
(***************************************************************************)
EXTENDS Dashboard, TLAPS

USE DashboardAssumption

-----------------------------------------------------------------------------
(* The parts of the inductive invariant.                                   *)

\* A session calls exactly while it has the lock, and has no answer otherwise.
LockedBy(s) ==
    /\ session[s].state = "calling" <=> lock = s
    /\ session[s].state # "calling" => answer[s] = None
    /\ session[s].since <= windows
    /\ session[s].calls <= MaxCalls[s]
    /\ session[s].state # "idle" => session[s].calls >= 1 /\ session[s].op \in Ops

Locked == \A s \in Sessions : LockedBy(s)

Ordered(deviation) ==
    deviation.current <= deviation.average /\ deviation.average <= windows

Kept == stored <= windows /\ (changes # None => Ordered(changes))

\* The session that made call id waits for it.
Mine(id) == session[id[1]].state = "calling" /\ Call(id[1]) = id

\* What a coroutine has in hand at its await.
HasWindow(id, coro) ==
    coro.window # None =>
        coro.window <= windows /\ (Mine(id) => session[id[1]].since <= coro.window)

HasCurrent(coro) == coro.current # None /\ coro.current <= windows

HasAverage(coro) ==
    /\ coro.current # None /\ coro.average # None
    /\ Ordered([current |-> coro.current, average |-> coro.average])
    /\ timeouts = 0 => stored <= coro.average

At(coro) == Route[coro.op][coro.at]

Sound(id, coro) ==
    /\ coro \in Coroutines /\ coro.at <= Len(Route[coro.op])
    /\ HasWindow(id, coro)
    /\ At(coro) = "average" => HasCurrent(coro)
    /\ At(coro) = "store" => HasAverage(coro)

CorosSound == \A id \in DOMAIN coros : Sound(id, coros[id])

Strong ==
    /\ TypeOK /\ Locked /\ Kept /\ CorosSound
    /\ EachAnswered /\ AnswersFresh /\ ChangesNewest

-----------------------------------------------------------------------------
(* The routes.                                                             *)

\* The routes of the other reads compute no changes.
Short(route) ==
    /\ Len(route) \in Nat \ {0}
    /\ \A i \in 1 .. Len(route) : route[i] \notin {"current", "average", "store"}

\* The average is read after the current row, and stored after the average;
\* only one read does so.
LEMMA Routes ==
  ASSUME NEW op \in DOMAIN Route
  PROVE  /\ Len(Route[op]) \in Nat \ {0}
         /\ Route[op][1] \notin {"average", "store"}
         /\ \A i \in 1 .. Len(Route[op]) : Route[op][i] \in {"current", "average"} => op = Changes
         /\ \A i \in 1 .. Len(Route[op]) - 1 :
              /\ Route[op][i + 1] = "average" => Route[op][i] = "current"
              /\ Route[op][i + 1] = "store" => Route[op][i] = "average"
<1>1. CASE op = Changes
  BY <1>1 DEF Changes, Route, WithChanges
<1>2. CASE op # Changes
  <2>1. Route[op] \in {CacheOnly, Statistics, CacheThenTable, LatestMetrics, RecentAlerts,
                       Aggregates, TimeSeries, Health}
    BY <1>2 DEF Route, Changes
  <2>2. Short(CacheOnly) /\ Short(TimeSeries)
    BY DEF Short, CacheOnly, TimeSeries
  <2>3. Short(Statistics) /\ Short(CacheThenTable)
    BY DEF Short, Statistics, CacheThenTable
  <2>4. Short(LatestMetrics) /\ Short(RecentAlerts)
    BY DEF Short, LatestMetrics, RecentAlerts
  <2>5. Short(Aggregates) /\ Short(Health)
    BY DEF Short, Aggregates, Health
  <2>6. Short(Route[op])
    BY <2>1, <2>2, <2>3, <2>4, <2>5
  <2> QED BY <2>6 DEF Short
<1> QED BY <1>1, <1>2

LEMMA ThirdStep == Route[Changes][Len(LatestMetrics) + 1] = "changes" /\ Len(Route[Changes]) = 7
                   /\ Len(LatestMetrics) = 2
BY DEF Route, Changes, LatestMetrics, WithChanges

-----------------------------------------------------------------------------
(* A coroutine moves or ends.                                              *)

\* While nobody has given up there is at most one coroutine.
LEMMA OneCoroutine ==
  ASSUME TypeOK, Locked, EachAnswered, timeouts = 0,
         NEW id \in DOMAIN coros, NEW other \in DOMAIN coros
  PROVE  id = other
<1>1. Mine(id) /\ Mine(other)
  BY DEF EachAnswered, Mine
<1>2. id[1] \in Sessions /\ other[1] \in Sessions
  BY DEF TypeOK, Ids
<1>3. lock = id[1] /\ lock = other[1]
  BY <1>1, <1>2 DEF Locked, LockedBy, Mine
<1> QED BY <1>1, <1>3 DEF Mine

\* What an answer may hold.
Fresh(id, result) ==
    /\ result \in Answers
    /\ result.window # None =>
         result.window <= windows /\ (Mine(id) => session[id[1]].since <= result.window)
    /\ result.changes # None => Ordered(result.changes)

LEMMA Results ==
  ASSUME TypeOK, NEW id, NEW coro \in Coroutines, HasWindow(id, coro),
         NEW computed \in Deviations \cup {None}, computed # None => Ordered(computed)
  PROVE  Fresh(id, Result(coro, computed))
BY DEF Fresh, Result, Coroutines, Answers, HasWindow

LEMMA RaisedFresh ==
  ASSUME NEW id
  PROVE  Fresh(id, Raised)
BY DEF Fresh, Raised, Answers

LEMMA MovedKeeps ==
  ASSUME Strong, NEW id \in DOMAIN coros, NEW coro, Sound(id, coro), Moved(id, coro),
         UNCHANGED <<windows, changes, lock, session, answer, timeouts, stored>>
  PROVE  Strong'
<1>1. /\ DOMAIN coros' = DOMAIN coros
      /\ \A i \in DOMAIN coros : coros'[i] = IF i = id THEN coro ELSE coros[i]
  BY DEF Moved
<1>2. \A i \in DOMAIN coros : Sound(i, coros'[i])
  BY <1>1 DEF Strong, CorosSound
<1>3. CorosSound'
  BY <1>1, <1>2 DEF CorosSound, Sound, HasWindow, Mine, Call, At, HasCurrent, HasAverage,
     Ordered
<1>4. TypeOK'
  BY <1>1, <1>2 DEF Strong, TypeOK, Sound
<1>5. Locked' /\ Kept' /\ AnswersFresh' /\ ChangesNewest'
  BY DEF Strong, Locked, LockedBy, Kept, Ordered, AnswersFresh, ChangesNewest
<1>6. EachAnswered'
  BY <1>1 DEF Strong, EachAnswered, Call
<1> QED BY <1>3, <1>4, <1>5, <1>6 DEF Strong

LEMMA EndsKeeps ==
  ASSUME Strong, NEW id \in DOMAIN coros, NEW result, Fresh(id, result), Ends(id, result),
         UNCHANGED <<windows, lock, session, timeouts>>,
         Kept', ChangesNewest', changes' \in Deviations \cup {None},
         stored' \in 0 .. MaxWindows
  PROVE  Strong'
<1> DEFINE s == id[1]
<1>1. s \in Sessions /\ result # None /\ result \in Answers
  BY DEF Strong, TypeOK, Ids, Fresh
<1>2. /\ DOMAIN coros' = DOMAIN coros \ {id}
      /\ \A i \in DOMAIN coros' : coros'[i] = coros[i]
  BY DEF Ends
<1>3. answer' = IF Mine(id) THEN [answer EXCEPT ![s] = result] ELSE answer
  BY DEF Ends, Mine
<1>4. TypeOK'
  BY <1>1, <1>2, <1>3 DEF Strong, TypeOK
<1>5. Locked'
  BY <1>1, <1>3 DEF Strong, TypeOK, Locked, LockedBy, Mine
<1>6. CorosSound'
  <2> SUFFICES ASSUME NEW i \in DOMAIN coros'
               PROVE  Sound(i, coros[i])'
    BY DEF CorosSound
  <2>1. Sound(i, coros[i]) /\ coros'[i] = coros[i] /\ i # id /\ i \in DOMAIN coros
    BY <1>2 DEF Strong, CorosSound
  <2>2. timeouts # 0
    BY <2>1, OneCoroutine DEF Strong
  <2>3. Mine(i)' <=> Mine(i)
    BY DEF Mine, Call
  <2> QED BY <2>1, <2>2, <2>3 DEF Sound, HasWindow, At, HasCurrent, HasAverage, Ordered
<1>7. EachAnswered'
  <2>1. ASSUME NEW q \in Sessions, session[q].state = "calling"
        PROVE  answer'[q] = None <=> Call(q) \in DOMAIN coros'
    <3>1. CASE Call(q) = id
      <4>1. q = s /\ Mine(id)
        BY <3>1, <2>1 DEF Call, Mine
      <4> QED BY <4>1, <3>1, <1>1, <1>2, <1>3 DEF Strong, TypeOK
    <3>2. CASE Call(q) # id
      <4>1. answer'[q] = answer[q]
        BY <3>2, <1>1, <1>3 DEF Mine, Strong, TypeOK
      <4> QED BY <4>1, <3>2, <1>2, <2>1 DEF Strong, EachAnswered
    <3> QED BY <3>1, <3>2
  <2>2. Call(id[1]) = Call(id[1])' /\ \A q \in Sessions : Call(q)' = Call(q)
    BY DEF Call
  <2>3. timeouts = 0 => \A i \in DOMAIN coros' :
          session[i[1]].state = "calling" /\ Call(i[1]) = i
    BY <1>2 DEF Strong, EachAnswered
  <2> QED BY <2>1, <2>2, <2>3 DEF EachAnswered, Call
<1>8. AnswersFresh'
  <2>1. \A q \in Sessions : answer'[q] = answer[q] \/ (q = s /\ Mine(id) /\ answer'[q] = result)
    BY <1>1, <1>3 DEF Strong, TypeOK
  <2> QED BY <2>1 DEF Strong, AnswersFresh, Fresh, Ordered
<1> QED BY <1>4, <1>5, <1>6, <1>7, <1>8 DEF Strong

\* The next step of a route needs what the step before it has read.
LEMMA OverKeeps ==
  ASSUME Strong, NEW id \in DOMAIN coros, NEW coro \in Coroutines,
         coro.op = coros[id].op, coro.at = coros[id].at,
         HasWindow(id, coro),
         At(coro) = "current" => HasCurrent(coro),
         At(coro) = "average" => HasAverage(coro),
         StepOver(id, coro),
         UNCHANGED <<windows, changes, lock, session, timeouts, stored>>
  PROVE  Strong'
<1>1. /\ coro.op \in DOMAIN Route /\ coro.at \in Nat \ {0} /\ coro.at <= Len(Route[coro.op])
      /\ Len(Route[coro.op]) \in Nat
  BY Routes DEF Strong, CorosSound, Sound, Coroutines
<1>2. CASE coro.at < Len(Route[coro.op])
  <2> DEFINE next == [coro EXCEPT !.at = @ + 1]
  <2>1. /\ next \in Coroutines /\ next.at = coro.at + 1 /\ next.op = coro.op
        /\ next.window = coro.window /\ next.current = coro.current
        /\ next.average = coro.average
    BY DEF Coroutines
  <2>2. coro.at \in 1 .. Len(Route[coro.op]) - 1
    BY <1>1, <1>2
  <2>3. /\ At(next) = "average" => At(coro) = "current"
        /\ At(next) = "store" => At(coro) = "average"
    BY <1>1, <2>1, <2>2, Routes DEF At
  <2>4. Sound(id, next)
    BY <1>1, <1>2, <2>1, <2>3 DEF Sound, HasWindow, HasCurrent, HasAverage
  <2>5. Moved(id, next) /\ answer' = answer
    BY <1>2 DEF StepOver
  <2> HIDE DEF next
  <2> QED BY <2>4, <2>5, MovedKeeps
<1>3. CASE ~(coro.at < Len(Route[coro.op]))
  <2>1. Ends(id, Result(coro, None))
    BY <1>3 DEF StepOver
  <2>2. Fresh(id, Result(coro, None))
    BY Results DEF Strong
  <2>3. Kept' /\ ChangesNewest' /\ changes' \in Deviations \cup {None}
        /\ stored' \in 0 .. MaxWindows
    BY DEF Strong, TypeOK, Kept, Ordered, ChangesNewest
  <2> QED BY <2>1, <2>2, <2>3, EndsKeeps
<1> QED BY <1>2, <1>3

LEMMA CacheHitKeeps ==
  ASSUME Strong, NEW id \in DOMAIN coros, CacheHit(id)
  PROVE  Strong'
<1> DEFINE coro == coros[id]
<1>1. Sound(id, coro) /\ coro \in Coroutines
  BY DEF Strong, CorosSound, Sound
<1>2. CASE coro.op = Changes
  <2> DEFINE next == [coro EXCEPT !.at = Len(LatestMetrics) + 1]
  <2>1. next \in Coroutines /\ next.at = 3 /\ next.op = Changes /\ next.window = coro.window
    BY <1>1, <1>2, ThirdStep DEF Coroutines
  <2>2. Sound(id, next)
    BY <1>1, <2>1, ThirdStep DEF Sound, At, HasWindow
  <2>3. Moved(id, next) /\ answer' = answer
    BY <1>2 DEF CacheHit
  <2> HIDE DEF next
  <2> QED BY <2>2, <2>3, MovedKeeps DEF CacheHit
<1>3. CASE coro.op # Changes
  <2>1. Ends(id, Result(coro, None))
    BY <1>3 DEF CacheHit
  <2>2. Fresh(id, Result(coro, None))
    BY <1>1, Results DEF Strong, Sound
  <2>3. Kept' /\ ChangesNewest' /\ changes' \in Deviations \cup {None}
        /\ stored' \in 0 .. MaxWindows
    BY DEF Strong, TypeOK, Kept, Ordered, ChangesNewest, CacheHit
  <2> QED BY <2>1, <2>2, <2>3, EndsKeeps DEF CacheHit
<1> QED BY <1>2, <1>3

LEMMA CacheMissKeeps ==
  ASSUME Strong, NEW id \in DOMAIN coros, CacheMiss(id)
  PROVE  Strong'
<1>1. Sound(id, coros[id]) /\ coros[id] \in Coroutines
  BY DEF Strong, CorosSound, Sound
<1>2. At(coros[id]) \notin {"current", "average"}
  BY DEF CacheMiss, Step, At
<1> QED BY <1>1, <1>2, OverKeeps DEF CacheMiss, Sound

LEMMA ReadChangesKeeps ==
  ASSUME Strong, NEW id \in DOMAIN coros, ReadChanges(id)
  PROVE  Strong'
<1>1. Sound(id, coros[id]) /\ coros[id] \in Coroutines
  BY DEF Strong, CorosSound, Sound
<1>2. CASE changes # None /\ Ends(id, Result(coros[id], changes))
  <2>1. Fresh(id, Result(coros[id], changes))
    BY <1>1, <1>2, Results DEF Strong, TypeOK, Kept, Sound
  <2>2. Kept' /\ ChangesNewest' /\ changes' \in Deviations \cup {None}
        /\ stored' \in 0 .. MaxWindows
    BY DEF Strong, TypeOK, Kept, Ordered, ChangesNewest, ReadChanges
  <2> QED BY <1>2, <2>1, <2>2, EndsKeeps DEF ReadChanges
<1>3. CASE StepOver(id, coros[id])
  <2>1. At(coros[id]) \notin {"current", "average"}
    BY DEF ReadChanges, Step, At
  <2> QED BY <1>1, <1>3, <2>1, OverKeeps DEF ReadChanges, Sound
<1> QED BY <1>2, <1>3 DEF ReadChanges

LEMMA ConnectKeeps ==
  ASSUME Strong, NEW id \in DOMAIN coros, Connect(id)
  PROVE  Strong'
<1> DEFINE next == [coros[id] EXCEPT !.connected = TRUE]
<1>1. Sound(id, coros[id]) /\ coros[id] \in Coroutines
  BY DEF Strong, CorosSound, Sound
<1>2. Sound(id, next)
  BY <1>1 DEF Sound, Coroutines, At, HasWindow, HasCurrent, HasAverage
<1>3. Moved(id, next)
  BY DEF Connect
<1> HIDE DEF next
<1> QED BY <1>2, <1>3, MovedKeeps DEF Connect

LEMMA QueryKeeps ==
  ASSUME Strong, NEW id \in DOMAIN coros, Query(id)
  PROVE  Strong'
<1> DEFINE coro == [coros[id] EXCEPT !.connected = FALSE]
<1>1. /\ coro \in Coroutines /\ coro.op = coros[id].op /\ coro.at = coros[id].at
      /\ coro.op \in DOMAIN Route /\ coro.at \in 1 .. Len(Route[coro.op])
      /\ HasWindow(id, coro)
      /\ At(coro) = "average" => HasCurrent(coro)
  <2>1. Sound(id, coros[id])
    BY DEF Strong, CorosSound
  <2>2. coros[id].op \in DOMAIN Route /\ Len(Route[coros[id].op]) \in Nat
    BY <2>1, Routes DEF Sound, Coroutines
  <2>3. /\ coro \in Coroutines /\ coro.op = coros[id].op /\ coro.at = coros[id].at
        /\ coro.window = coros[id].window /\ coro.current = coros[id].current
    BY <2>1 DEF Sound, Coroutines
  <2>4. coro.at \in 1 .. Len(Route[coro.op])
    BY <2>1, <2>2, <2>3 DEF Sound, Coroutines
  <2> HIDE DEF coro
  <2>5. HasWindow(id, coro)
    BY <2>1, <2>3 DEF Sound, HasWindow
  <2>6. At(coro) = "average" => HasCurrent(coro)
    BY <2>1, <2>3 DEF Sound, At, HasCurrent
  <2> QED BY <2>2, <2>3, <2>4, <2>5, <2>6
<1>2. PICK row \in Newest :
        \/ row = None /\ Needed(coro) /\ Ends(id, Result(coro, None))
        \/ (row # None \/ ~Needed(coro)) /\ StepOver(id, Taken(coro, row))
  BY DEF Query
<1>3. UNCHANGED <<windows, changes, lock, session, timeouts, stored>>
  BY DEF Query
<1>4. row = None \/ (row = windows /\ row \in Rows /\ row # None)
  BY <1>2 DEF Newest, Strong, TypeOK, Rows
<1> HIDE DEF coro
<1>5. CASE row = None /\ Needed(coro) /\ Ends(id, Result(coro, None))
  <2>1. Fresh(id, Result(coro, None))
    BY <1>1, Results DEF Strong
  <2>2. Kept' /\ ChangesNewest' /\ changes' \in Deviations \cup {None}
        /\ stored' \in 0 .. MaxWindows
    BY <1>3 DEF Strong, TypeOK, Kept, Ordered, ChangesNewest
  <2> QED BY <1>3, <1>5, <2>1, <2>2, EndsKeeps
<1>6. CASE (row # None \/ ~Needed(coro)) /\ StepOver(id, Taken(coro, row))
  <2> DEFINE taken == Taken(coro, row)
  <2>1. At(coro) \in {"current", "average"} => row # None
    BY <1>1, <1>6, Routes DEF Needed, At
  <2>2. taken \in Coroutines /\ taken.op = coro.op /\ taken.at = coro.at
    BY <1>1, <1>4 DEF Taken, Coroutines
  <2>3. HasWindow(id, taken)
    <3>1. Mine(id) => session[id[1]].since <= windows
      BY DEF Strong, TypeOK, Ids, Locked, LockedBy
    <3>2. windows \in Int
      BY DEF Strong, TypeOK
    <3>3. taken.window = coro.window \/ taken.window = row
      BY <1>1 DEF Taken, Coroutines
    <3> QED BY <1>1, <1>4, <3>1, <3>2, <3>3 DEF HasWindow
  <2>4. At(taken) = "current" => HasCurrent(taken)
    BY <1>1, <1>4, <2>1, <2>2 DEF Taken, At, HasCurrent, Coroutines, Rows
  <2>5. At(taken) = "average" => HasAverage(taken)
    <3>1. SUFFICES ASSUME At(coro) = "average"
                   PROVE  HasAverage(taken)
      BY <2>2 DEF At
    <3>2. taken.current = coro.current /\ taken.average = windows /\ windows # None
      BY <1>1, <1>4, <2>1, <3>1 DEF Taken, At, Coroutines
    <3>3. coro.current # None /\ coro.current <= windows /\ stored <= windows
          /\ windows \in Int
      BY <1>1, <3>1 DEF HasCurrent, Strong, Kept, TypeOK
    <3> QED BY <3>2, <3>3 DEF HasAverage, Ordered
  <2> HIDE DEF taken
  <2>6. StepOver(id, taken)
    BY <1>6 DEF taken
  <2> QED BY <1>1, <1>3, <2>2, <2>3, <2>4, <2>5, <2>6, OverKeeps
<1> QED BY <1>2, <1>5, <1>6

LEMMA StoreKeeps ==
  ASSUME Strong, NEW id \in DOMAIN coros, Store(id)
  PROVE  Strong'
<1> DEFINE coro == coros[id]
           deviation == Deviation(coro)
<1>1. coro \in Coroutines /\ HasWindow(id, coro) /\ HasAverage(coro)
  BY DEF Strong, CorosSound, Sound, Store, Step, At
<1>2. deviation \in Deviations /\ deviation.average = coro.average /\ Ordered(deviation)
  BY <1>1 DEF Deviation, Deviations, Coroutines, HasAverage, Ordered
<1>3. CASE /\ changes' = deviation
           /\ stored' = IF coro.average > stored THEN coro.average ELSE stored
           /\ Ends(id, Result(coro, deviation))
  <2>1. Fresh(id, Result(coro, deviation))
    BY <1>1, <1>2, Results DEF Strong
  <2>2. coro.average \in Rows /\ coro.average <= windows /\ windows' = windows
    BY <1>1 DEF Coroutines, HasAverage, Ordered, Store
  <2>3. Kept' /\ stored' \in 0 .. MaxWindows
    BY <1>2, <1>3, <2>2 DEF Strong, TypeOK, Kept, Ordered, Rows
  <2>4. ChangesNewest'
    BY <1>1, <1>2, <1>3, <2>2 DEF ChangesNewest, HasAverage, Strong, TypeOK, Rows, Store
  <2> HIDE DEF deviation
  <2> QED BY <1>2, <1>3, <2>1, <2>3, <2>4, EndsKeeps DEF Store
<1>4. CASE Ends(id, Raised) /\ UNCHANGED <<changes, stored>>
  <2>1. Kept' /\ ChangesNewest' /\ changes' \in Deviations \cup {None}
        /\ stored' \in 0 .. MaxWindows
    BY <1>4 DEF Strong, TypeOK, Kept, Ordered, ChangesNewest, Store
  <2> QED BY <1>4, <2>1, RaisedFresh, EndsKeeps DEF Store
<1> QED BY <1>3, <1>4 DEF Store

-----------------------------------------------------------------------------
(* The sessions and the other processes.                                   *)

\* A step of session s leaves the locks of the others alone.
LEMMA LockedKeeps ==
  ASSUME Locked, NEW s \in Sessions, windows' = windows, LockedBy(s)',
         \A q \in Sessions \ {s} : session'[q] = session[q] /\ answer'[q] = answer[q]
                                   /\ (lock' = q <=> lock = q)
  PROVE  Locked'
BY DEF Locked, LockedBy

LEMMA StartKeeps ==
  ASSUME Strong, NEW s \in Sessions, NEW op \in Ops, Start(s, op)
  PROVE  Strong'
<1>1. /\ session'[s] = [state |-> "waiting", op |-> op, calls |-> session[s].calls + 1,
                        since |-> windows]
      /\ \A q \in Sessions : q # s => session'[q] = session[q]
      /\ session[s].state = "idle" /\ session[s].calls < MaxCalls[s]
      /\ session[s].calls \in Nat /\ MaxCalls[s] \in Nat /\ windows \in Nat
  BY DEF Start, Strong, TypeOK
<1>2. UNCHANGED <<windows, changes, lock, coros, answer, timeouts, stored>>
  BY DEF Start
<1>3. TypeOK'
  BY <1>1, <1>2 DEF Start, Strong, TypeOK
<1>4. Locked'
  <2>1. LockedBy(s)
    BY DEF Strong, Locked
  <2>2. LockedBy(s)'
    BY <1>1, <1>2, <2>1 DEF LockedBy
  <2> QED BY <1>1, <1>2, <2>2, LockedKeeps DEF Strong
<1>5. \A i \in DOMAIN coros : i[1] \in Sessions /\ (Mine(i)' => Mine(i) /\ i[1] # s)
  BY <1>1 DEF Strong, TypeOK, Ids, Mine, Call
<1>6. CorosSound'
  BY <1>1, <1>2, <1>5 DEF Strong, CorosSound, Sound, HasWindow, At, HasCurrent, HasAverage,
     Ordered
<1>7. EachAnswered'
  <2>1. ASSUME timeouts = 0, NEW i \in DOMAIN coros
        PROVE  Mine(i)'
    <3>1. Mine(i) /\ i[1] \in Sessions
      BY <2>1, <1>5 DEF Strong, EachAnswered, Mine
    <3>2. i[1] # s
      BY <3>1, <1>1 DEF Mine
    <3> QED BY <3>1, <3>2, <1>1 DEF Mine, Call
  <2> QED BY <1>1, <1>2, <2>1 DEF Strong, EachAnswered, Mine, Call
<1>8. AnswersFresh'
  BY <1>1, <1>2 DEF Strong, AnswersFresh, Locked, LockedBy
<1>9. Kept' /\ ChangesNewest'
  BY <1>2 DEF Strong, Kept, Ordered, ChangesNewest
<1> QED BY <1>3, <1>4, <1>6, <1>7, <1>8, <1>9 DEF Strong

LEMMA SubmitKeeps ==
  ASSUME Strong, NEW s \in Sessions, Submit(s)
  PROVE  Strong'
<1> DEFINE coro == Coroutine(session[s].op)
<1>1. /\ session'[s] = [session[s] EXCEPT !.state = "calling"]
      /\ \A q \in Sessions : q # s => session'[q] = session[q]
      /\ session[s].state = "waiting" /\ lock = None /\ lock' = s
      /\ LockedBy(s)
  BY DEF Submit, LockFree, Strong, TypeOK, Locked
<1>2. UNCHANGED <<windows, changes, answer, timeouts, stored>>
  BY DEF Submit
<1>3. /\ DOMAIN coros' = DOMAIN coros \cup {Call(s)}
      /\ \A i \in DOMAIN coros' : coros'[i] = IF i = Call(s) THEN coro ELSE coros[i]
  BY DEF Submit
<1>4. /\ session'[s].state = "calling" /\ session'[s].calls = session[s].calls
      /\ session'[s].since = session[s].since /\ session'[s].op = session[s].op
      /\ session[s].op \in Ops /\ session[s].calls \in 1 .. MaxCalls[s]
  BY <1>1 DEF Strong, TypeOK, LockedBy
<1>5. Call(s) \in Ids /\ \A q \in Sessions : Call(q)' = Call(q)
  <2>1. Call(s) \in {s} \X (1 .. MaxCalls[s])
    BY <1>4 DEF Call
  <2>2. Call(s) \in Ids
    BY <2>1 DEF Ids
  <2>3. \A q \in Sessions : Call(q)' = Call(q)
    BY <1>1, <1>4 DEF Call
  <2> QED BY <2>2, <2>3
<1>6. coro \in Coroutines /\ Len(Route[coro.op]) \in Nat \ {0} /\ coro.at = 1
      /\ At(coro) \notin {"average", "store"} /\ coro.window = None
  BY <1>4, Routes DEF Coroutine, Coroutines, At
<1> HIDE DEF coro
<1>7. \A i \in DOMAIN coros : Sound(i, coros[i])
  BY DEF Strong, CorosSound
<1>8. session' \in [Sessions -> [state : {"idle", "waiting", "calling"}, op : Ops \cup {None},
                                 calls : Nat, since : 0 .. MaxWindows]]
  <2> DEFINE S == [state : {"idle", "waiting", "calling"}, op : Ops \cup {None},
                   calls : Nat, since : 0 .. MaxWindows]
  <2>1. session \in [Sessions -> S]
    BY DEF Strong, TypeOK
  <2>2. [session[s] EXCEPT !.state = "calling"] \in S
    BY <2>1
  <2>3. session' = [session EXCEPT ![s] = [session[s] EXCEPT !.state = "calling"]]
    BY DEF Submit
  <2> HIDE DEF S
  <2>4. session' \in [Sessions -> S]
    BY <2>1, <2>2, <2>3
  <2> QED BY <2>4 DEF S
<1>9. TypeOK'
  <2>1. \A i \in DOMAIN coros' :
          coros'[i] \in Coroutines /\ coros'[i].at <= Len(Route[coros'[i].op])
    BY <1>3, <1>6, <1>7 DEF Sound
  <2> QED BY <1>1, <1>2, <1>3, <1>5, <1>8, <2>1 DEF Strong, TypeOK
<1>10. Locked'
  <2>1. LockedBy(s)'
    BY <1>1, <1>2, <1>4 DEF LockedBy
  <2> QED BY <1>1, <1>2, <2>1, LockedKeeps DEF Strong
<1>11. CorosSound'
  <2> SUFFICES ASSUME NEW i \in DOMAIN coros'
               PROVE  Sound(i, coros[i])'
    BY DEF CorosSound
  <2>1. CASE i = Call(s)
    BY <2>1, <1>3, <1>6 DEF Sound, HasWindow, At
  <2>2. CASE i # Call(s)
    <3>1. i \in DOMAIN coros /\ coros'[i] = coros[i] /\ i[1] \in Sessions
          /\ i = <<i[1], i[2]>>
      BY <2>2, <1>3 DEF Strong, TypeOK, Ids
    <3>2. Mine(i)' => Mine(i) /\ i[1] # s
      BY <2>2, <3>1, <1>1, <1>5 DEF Mine
    <3> QED BY <3>1, <3>2, <1>1, <1>2, <1>7 DEF Sound, HasWindow, At, HasCurrent,
               HasAverage, Ordered
  <2> QED BY <2>1, <2>2
<1>12. EachAnswered'
  <2>1. ASSUME NEW q \in Sessions, session'[q].state = "calling"
        PROVE  answer[q] = None <=> Call(q) \in DOMAIN coros'
    <3>1. CASE q = s
      BY <3>1, <1>1, <1>3 DEF LockedBy
    <3>2. CASE q # s
      <4>1. Call(q) # Call(s)
        BY <3>2 DEF Call
      <4> QED BY <3>2, <4>1, <2>1, <1>1, <1>3 DEF Strong, EachAnswered
    <3> QED BY <3>1, <3>2
  <2>2. ASSUME timeouts = 0, NEW i \in DOMAIN coros'
        PROVE  session'[i[1]].state = "calling" /\ Call(i[1])' = i
    <3>1. CASE i = Call(s)
      <4>1. i[1] = s
        BY <3>1 DEF Call
      <4> QED BY <3>1, <4>1, <1>4, <1>5
    <3>2. CASE i # Call(s)
      <4>1. i \in DOMAIN coros /\ i[1] \in Sessions
        BY <3>2, <1>3 DEF Strong, TypeOK, Ids
      <4>2. session[i[1]].state = "calling" /\ Call(i[1]) = i
        BY <4>1, <2>2 DEF Strong, EachAnswered
      <4> QED BY <4>1, <4>2, <1>1, <1>5
    <3> QED BY <3>1, <3>2
  <2> QED BY <2>1, <2>2, <1>2, <1>5 DEF EachAnswered
<1>13. AnswersFresh' /\ Kept' /\ ChangesNewest'
  BY <1>1, <1>2, <1>4 DEF Strong, AnswersFresh, Kept, Ordered, ChangesNewest
<1> QED BY <1>9, <1>10, <1>11, <1>12, <1>13 DEF Strong

\* The call of s is over, with its answer or without.
LEMMA CallOver ==
  ASSUME Strong, NEW s \in Sessions,
         session[s].state = "calling",
         session' = [session EXCEPT ![s] = Idle(@.calls)],
         lock' = None,
         answer' = [answer EXCEPT ![s] = None],
         timeouts' \in Nat,
         timeouts' = 0 => timeouts = 0 /\ answer[s] # None,
         UNCHANGED <<windows, changes, coros, stored>>
  PROVE  Strong'
<1>1. /\ session'[s] = [state |-> "idle", op |-> None, calls |-> session[s].calls, since |-> 0]
      /\ answer'[s] = None
      /\ \A q \in Sessions : q # s => session'[q] = session[q] /\ answer'[q] = answer[q]
      /\ session[s].calls \in Nat /\ windows \in Nat
      /\ LockedBy(s) /\ lock = s
  BY DEF Strong, TypeOK, Locked, LockedBy, Idle
<1>2. \A q \in Sessions : Call(q)' = Call(q)
  BY <1>1 DEF Call
<1>3. TypeOK'
  BY <1>1 DEF Strong, TypeOK, Idle
<1>4. Locked'
  <2>1. LockedBy(s)'
    BY <1>1 DEF LockedBy
  <2> QED BY <1>1, <2>1, LockedKeeps DEF Strong
<1>5. \A i \in DOMAIN coros : i[1] \in Sessions /\ (Mine(i)' => Mine(i) /\ i[1] # s)
  BY <1>1 DEF Strong, TypeOK, Ids, Mine, Call
<1>6. CorosSound'
  <2>1. timeouts' = 0 => timeouts = 0
    OBVIOUS
  <2> QED BY <1>1, <1>5, <2>1 DEF Strong, CorosSound, Sound, HasWindow, At, HasCurrent,
             HasAverage, Ordered
<1>7. EachAnswered'
  <2>1. ASSUME NEW q \in Sessions, session'[q].state = "calling"
        PROVE  answer'[q] = None <=> Call(q)' \in DOMAIN coros'
    BY <2>1, <1>1, <1>2 DEF Strong, EachAnswered
  <2>2. ASSUME timeouts' = 0, NEW i \in DOMAIN coros
        PROVE  session'[i[1]].state = "calling" /\ Call(i[1])' = i
    <3>1. i[1] \in Sessions /\ session[i[1]].state = "calling" /\ Call(i[1]) = i
      BY <2>2, <1>5 DEF Strong, EachAnswered
    <3>2. i[1] # s
      BY <3>1, <2>2 DEF Strong, EachAnswered
    <3> QED BY <3>1, <3>2, <1>1, <1>2
  <2> QED BY <2>1, <2>2 DEF EachAnswered
<1>8. AnswersFresh' /\ Kept' /\ ChangesNewest'
  BY <1>1 DEF Strong, AnswersFresh, Kept, Ordered, ChangesNewest
<1> QED BY <1>3, <1>4, <1>6, <1>7, <1>8 DEF Strong

LEMMA ReturnKeeps ==
  ASSUME Strong, NEW s \in Sessions, Return(s)
  PROVE  Strong'
<1>1. timeouts' \in Nat
  BY DEF Return, Strong, TypeOK
<1> QED BY <1>1, CallOver DEF Return

LEMMA GiveUpKeeps ==
  ASSUME Strong, NEW s \in Sessions, GiveUp(s)
  PROVE  Strong'
<1>1. timeouts' \in Nat /\ timeouts' # 0
  BY DEF GiveUp, Strong, TypeOK
<1>2. answer' = [answer EXCEPT ![s] = None]
  BY DEF GiveUp, Strong, TypeOK
<1> QED BY <1>1, <1>2, CallOver DEF GiveUp, LockGivenUp

LEMMA InsertWindowKeeps ==
  ASSUME Strong, InsertWindow
  PROVE  Strong'
<1>1. windows' = windows + 1 /\ windows \in Nat /\ windows' \in 0 .. MaxWindows
  BY DEF InsertWindow, Strong, TypeOK
<1>2. UNCHANGED <<changes, lock, session, coros, answer, timeouts, stored>>
  BY DEF InsertWindow
<1>3. TypeOK'
  BY <1>1, <1>2 DEF Strong, TypeOK
<1>4. Locked'
  BY <1>1, <1>2 DEF Strong, TypeOK, Locked, LockedBy
<1>5. CorosSound'
  <2> SUFFICES ASSUME NEW i \in DOMAIN coros
               PROVE  Sound(i, coros[i])'
    BY <1>2 DEF CorosSound
  <2>1. Sound(i, coros[i])
    BY DEF Strong, CorosSound
  <2>2. coros[i] \in Coroutines
    BY <2>1 DEF Sound
  <2>3. HasWindow(i, coros[i])'
    BY <1>1, <1>2, <2>1, <2>2 DEF Sound, HasWindow, Mine, Call, Coroutines, Rows
  <2>4. HasCurrent(coros[i]) => HasCurrent(coros[i])'
    BY <1>1, <1>2, <2>2 DEF HasCurrent, Coroutines, Rows
  <2>5. HasAverage(coros[i]) => HasAverage(coros[i])'
    BY <1>1, <1>2, <2>2 DEF HasAverage, Ordered, Coroutines, Rows
  <2> QED BY <1>2, <2>1, <2>3, <2>4, <2>5 DEF Sound, At
<1>6. EachAnswered' /\ ChangesNewest'
  BY <1>2 DEF Strong, EachAnswered, ChangesNewest, Call
<1>7. AnswersFresh'
  BY <1>1, <1>2 DEF Strong, TypeOK, AnswersFresh, Answers, Deviations, Rows
<1>8. Kept'
  BY <1>1, <1>2 DEF Strong, TypeOK, Kept, Ordered, Deviations, Rows
<1> QED BY <1>3, <1>4, <1>5, <1>6, <1>7, <1>8 DEF Strong

LEMMA ExpireKeeps ==
  ASSUME Strong, Expire
  PROVE  Strong'
BY DEF Expire, Strong, TypeOK, Locked, LockedBy, Kept, CorosSound, Sound, HasWindow, At,
   HasCurrent, HasAverage, Ordered, EachAnswered, AnswersFresh, ChangesNewest, Call, Mine

LEMMA StutterKeeps ==
  ASSUME Strong, UNCHANGED vars
  PROVE  Strong'
BY DEF vars, Strong, TypeOK, Locked, LockedBy, Kept, CorosSound, Sound, HasWindow, At,
   HasCurrent, HasAverage, Ordered, EachAnswered, AnswersFresh, ChangesNewest, Call, Mine

-----------------------------------------------------------------------------
LEMMA StrongInit == Init => Strong
<1> SUFFICES ASSUME Init PROVE Strong
  OBVIOUS
<1>1. DOMAIN coros = {}
  BY DEF Init
<1>2. TypeOK
  BY <1>1 DEF Init, TypeOK, Idle
<1>3. Locked
  BY DEF Init, Locked, LockedBy, Idle
<1>4. EachAnswered /\ AnswersFresh
  BY <1>1 DEF Init, EachAnswered, AnswersFresh, Idle
<1> QED BY <1>1, <1>2, <1>3, <1>4 DEF Init, Strong, Kept, CorosSound, ChangesNewest

LEMMA StrongNext == Strong /\ [Next]_vars => Strong'
<1> SUFFICES ASSUME Strong, [Next]_vars PROVE Strong'
  OBVIOUS
<1>1. ASSUME NEW s \in Sessions, NEW op \in Ops, Start(s, op) PROVE Strong'
  BY <1>1, StartKeeps
<1>2. ASSUME NEW s \in Sessions, Submit(s) \/ Return(s) \/ GiveUp(s) PROVE Strong'
  BY <1>2, SubmitKeeps, ReturnKeeps, GiveUpKeeps
<1>3. ASSUME NEW id \in DOMAIN coros, Connect(id) \/ Answered(id) PROVE Strong'
  BY <1>3, ConnectKeeps, CacheHitKeeps, CacheMissKeeps, ReadChangesKeeps, QueryKeeps,
     StoreKeeps DEF Answered
<1>4. CASE InsertWindow \/ Expire \/ UNCHANGED vars
  BY <1>4, InsertWindowKeeps, ExpireKeeps, StutterKeeps
<1> QED BY <1>1, <1>2, <1>3, <1>4 DEF Next

\* The inductive invariant: sessions, lock and answers fit together, and what
\* each coroutine has in hand is what its next await needs.
THEOREM Invariant == Spec => []Strong
BY StrongInit, StrongNext, PTL DEF Spec

\* Every session that waits has its coroutine or its answer, answers are as
\* fresh as the call, and while nobody has given up the cached changes are the
\* newest that were computed, whoever computes, expires and fails.
THEOREM ReadsSound == Spec => []IInv
<1>1. Strong => IInv
  BY DEF Strong, IInv
<1> QED BY <1>1, Invariant, PTL
=============================================================================
