----------------------------- MODULE Dashboard -----------------------------
(***************************************************************************)
(* How the dashboard reads: the views of the sessions call run_async, one  *)
(* at a time behind a lock (async_runner.py); a coroutine of DataLayer     *)
(* looks into Redis, then into the database, and keeps the changes it      *)
(* computed in Redis for a minute (data_layer.py, redis_queries.py,        *)
(* db_queries.py, for one symbol).  A view that loses patience gives the   *)
(* lock back, but its coroutine goes on.                                   *)
(*                                                                         *)
(* What other processes cache, and what expires, may be there or not at    *)
(* any moment; only the changes, which the dashboard itself caches, are    *)
(* kept as state.  A row of the windowed table is its number: rows are     *)
(* inserted in the order of their windows.                                 *)
(***************************************************************************)
EXTENDS Integers, Sequences, FiniteSets

CONSTANTS
    Sessions,
    Ops,           \* the reads the views make
    Timed,         \* those that they make with a timeout
    PoolSize,      \* max_size
    MaxCalls,      \* bound: calls, for each session
    MaxWindows,    \* bound: windows
    None

Changes == "get_latest_metrics_with_changes"

\* The awaits of a read: Redis, the table, the probes of health_check.  A read of
\* Redis that finds something ends the call, in get_latest_metrics_with_changes
\* only the part that asks for the current metrics.
CacheOnly      == <<"cache">>
Statistics     == <<"cache", "cache">>                  \* the window's key, then the legacy one
CacheThenTable == <<"cache", "rows">>
LatestMetrics  == <<"cache", "rows">>
RecentAlerts   == <<"cache", "rows">>
Aggregates     == <<"windows", "rows">>                 \* both, merged; nobody caches windows
TimeSeries     == <<"rows">>
Health         == <<"probe", "select", "probe", "probe">>
WithChanges    == <<"cache", "rows",                    \* LatestMetrics
                    "changes", "exists", "current", "average", "store">>

Route ==
    [get_orderbook_snapshot  |-> CacheOnly,
     get_summary_stats       |-> Statistics,
     get_latest_metrics      |-> LatestMetrics,
     get_latest_metrics_with_changes |-> WithChanges,
     get_recent_alerts       |-> RecentAlerts,
     get_latest_windowed     |-> CacheThenTable,
     get_volatility_data     |-> CacheThenTable,
     get_windowed_aggregates |-> Aggregates,
     get_time_series         |-> TimeSeries,
     health_check            |-> Health]

OnTable == {"rows", "exists", "current", "average", "select"}
Unbounded == {"cache", "windows", "changes", "store", "probe"}   \* no time bounds the wait

Rows == 1 .. MaxWindows
Deviations == [current : Rows, average : Rows]
Answers == [raised : BOOLEAN, window : Rows \cup {None}, changes : Deviations \cup {None}]

ASSUME DashboardAssumption ==
    /\ Ops \subseteq DOMAIN Route /\ Timed \subseteq Ops
    /\ PoolSize \in Nat \ {0}
    /\ MaxCalls \in [Sessions -> Nat] /\ MaxWindows \in Nat
    /\ None \notin Int \cup Sessions \cup Answers

VARIABLES
    windows,    \* how many windows the table has
    changes,    \* orderbook:metrics:changes, or None
    lock,       \* the session that has it
    session,    \* what the thread of a session does
    coros,      \* the coroutines on the loop: id |-> coroutine
    answer,     \* what the coroutine gave, until the view has it
    timeouts,   \* history: how many calls have given up
    stored      \* history: the newest window that changes were stored of

vars == <<windows, changes, lock, session, coros, answer, timeouts, stored>>

Ids == UNION {{s} \X (1 .. MaxCalls[s]) : s \in Sessions}

Idle(calls) == [state |-> "idle", op |-> None, calls |-> calls, since |-> 0]

Init ==
    /\ windows = 0 /\ changes = None /\ lock = None
    /\ session = [s \in Sessions |-> Idle(0)]
    /\ coros = <<>>
    /\ answer = [s \in Sessions |-> None]
    /\ timeouts = 0 /\ stored = 0

-----------------------------------------------------------------------------
(* run_async.                                                              *)

Call(s) == <<s, session[s].calls>>

\* A view makes a call and waits for the lock.
Start(s, op) ==
    /\ session[s].state = "idle" /\ session[s].calls < MaxCalls[s]
    /\ session' = [session EXCEPT ![s] = [state |-> "waiting", op |-> op,
                                          calls |-> @.calls + 1, since |-> windows]]
    /\ UNCHANGED <<windows, changes, lock, coros, answer, timeouts, stored>>

WithoutLock == TRUE                    \* slip: no lock around the call

LockFree == lock = None

Coroutine(op) ==
    [op |-> op, at |-> 1, connected |-> FALSE, window |-> None, current |-> None,
     average |-> None]

Submit(s) ==
    /\ session[s].state = "waiting" /\ LockFree
    /\ lock' = s
    /\ session' = [session EXCEPT ![s].state = "calling"]
    /\ coros' = [id \in DOMAIN coros \cup {Call(s)} |->
                   IF id = Call(s) THEN Coroutine(session[s].op) ELSE coros[id]]
    /\ UNCHANGED <<windows, changes, answer, timeouts, stored>>

\* fut.result() returns or raises what the coroutine did.
Return(s) ==
    /\ session[s].state = "calling" /\ answer[s] # None
    /\ lock' = None
    /\ session' = [session EXCEPT ![s] = Idle(@.calls)]
    /\ answer' = [answer EXCEPT ![s] = None]
    /\ UNCHANGED <<windows, changes, coros, timeouts, stored>>

LockKept == lock                       \* slip: only a result gives the lock back

LockGivenUp == None

\* fut.result() raises TimeoutError; the coroutine is not cancelled.
GiveUp(s) ==
    /\ session[s].state = "calling" /\ answer[s] = None /\ session[s].op \in Timed
    /\ lock' = LockGivenUp
    /\ session' = [session EXCEPT ![s] = Idle(@.calls)]
    /\ timeouts' = timeouts + 1
    /\ UNCHANGED <<windows, changes, coros, answer, stored>>

-----------------------------------------------------------------------------
(* The coroutines of DataLayer.                                            *)

Step(id) == Route[coros[id].op][coros[id].at]

Moved(id, coro) == coros' = [coros EXCEPT ![id] = coro]

\* The coroutine ends; somebody may still be waiting for it.
Ends(id, result) ==
    /\ coros' = [i \in DOMAIN coros \ {id} |-> coros[i]]
    /\ answer' = IF session[id[1]].state = "calling" /\ Call(id[1]) = id
                   THEN [answer EXCEPT ![id[1]] = result] ELSE answer

Result(coro, computed) == [raised |-> FALSE, window |-> coro.window, changes |-> computed]

Raised == [raised |-> TRUE, window |-> None, changes |-> None]

\* The next step, or after the last one the end.
StepOver(id, coro) ==
    IF coro.at < Len(Route[coro.op])
      THEN Moved(id, [coro EXCEPT !.at = @ + 1]) /\ UNCHANGED answer
      ELSE Ends(id, Result(coro, None))

\* A read of Redis finds the key: it is the answer, or the current metrics.
CacheHit(id) ==
    /\ Step(id) = "cache"
    /\ IF coros[id].op = Changes
         THEN Moved(id, [coros[id] EXCEPT !.at = Len(LatestMetrics) + 1]) /\ UNCHANGED answer
         ELSE Ends(id, Result(coros[id], None))
    /\ UNCHANGED <<windows, changes, lock, session, timeouts, stored>>

\* It finds nothing, or fails, which is logged; nobody caches windows; a probe
\* answers or fails.
CacheMiss(id) ==
    /\ Step(id) \in {"cache", "windows", "probe"}
    /\ StepOver(id, coros[id])
    /\ UNCHANGED <<windows, changes, lock, session, timeouts, stored>>

\* get_metric_changes.
ReadChanges(id) ==
    /\ Step(id) = "changes"
    /\ \/ changes # None /\ Ends(id, Result(coros[id], changes))
       \/ StepOver(id, coros[id])
    /\ UNCHANGED <<windows, changes, lock, session, timeouts, stored>>

Connect(id) ==
    /\ Step(id) \in OnTable /\ ~coros[id].connected
    /\ Cardinality({i \in DOMAIN coros : coros[i].connected}) < PoolSize
    /\ Moved(id, [coros[id] EXCEPT !.connected = TRUE])
    /\ UNCHANGED <<windows, changes, lock, session, answer, timeouts, stored>>

\* The newest row; nothing when there is none or the query fails, at the latest
\* after command_timeout.
Newest == {None} \cup (IF windows = 0 THEN {} ELSE {windows})

\* Without a row there is nothing to compute the changes from.  (The 24 hours'
\* price change always fails, on datetime.timezone, and is left out.)
Needed(coro) ==
    coro.op = Changes /\ Route[coro.op][coro.at] \in {"rows", "exists", "current", "average"}

Taken(coro, row) ==
    CASE Route[coro.op][coro.at] = "rows"    -> [coro EXCEPT !.window = row]
      [] Route[coro.op][coro.at] = "current" -> [coro EXCEPT !.current = row]
      [] Route[coro.op][coro.at] = "average" -> [coro EXCEPT !.average = row]
      [] OTHER                               -> coro

\* A query is answered and its connection given back.
Query(id) ==
    LET coro == [coros[id] EXCEPT !.connected = FALSE] IN
    /\ coros[id].connected
    /\ \E row \in Newest :
         \/ row = None /\ Needed(coro) /\ Ends(id, Result(coro, None))
         \/ (row # None \/ ~Needed(coro)) /\ StepOver(id, Taken(coro, row))
    /\ UNCHANGED <<windows, changes, lock, session, timeouts, stored>>

Deviation(coro) == [current |-> coro.current, average |-> coro.average]

\* The changes are cached and returned; an error of Redis is not caught here.
Store(id) ==
    /\ Step(id) = "store"
    /\ \/ /\ changes' = Deviation(coros[id])
          /\ stored' = IF coros[id].average > stored THEN coros[id].average ELSE stored
          /\ Ends(id, Result(coros[id], Deviation(coros[id])))
       \/ Ends(id, Raised) /\ UNCHANGED <<changes, stored>>
    /\ UNCHANGED <<windows, lock, session, timeouts>>

Answered(id) ==
    CacheHit(id) \/ CacheMiss(id) \/ ReadChanges(id) \/ Query(id) \/ Store(id)

-----------------------------------------------------------------------------
(* The other processes.                                                    *)

InsertWindow ==
    /\ windows < MaxWindows
    /\ windows' = windows + 1
    /\ UNCHANGED <<changes, lock, session, coros, answer, timeouts, stored>>

\* The changes are kept for 60 seconds.
Expire ==
    /\ changes # None
    /\ changes' = None
    /\ UNCHANGED <<windows, lock, session, coros, answer, timeouts, stored>>

Next ==
    \/ \E s \in Sessions : (\E op \in Ops : Start(s, op)) \/ Submit(s) \/ Return(s) \/ GiveUp(s)
    \/ \E id \in DOMAIN coros : Connect(id) \/ Answered(id)
    \/ InsertWindow \/ Expire

\* A coroutine waits for Redis, whose client has a timeout for connecting and none
\* for a command, or for a probe.
AwaitsRedis(id) == id \in DOMAIN coros /\ Step(id) \in Unbounded

\* A thread takes a lock that stays free and goes on with its result, a call with
\* a timeout loses patience, a coroutine takes a connection that stays free, and a
\* query ends, at the latest after command_timeout.  Redis need never answer.
Fairness ==
    /\ \A s \in Sessions : WF_vars(Submit(s) \/ Return(s)) /\ WF_vars(GiveUp(s))
    /\ \A id \in Ids : WF_vars(/\ id \in DOMAIN coros /\ ~AwaitsRedis(id)
                               /\ Connect(id) \/ Answered(id))

Spec == Init /\ [][Next]_vars /\ Fairness

-----------------------------------------------------------------------------
(* Properties.                                                             *)

Coroutines ==
    [op : Ops, at : Nat \ {0}, connected : BOOLEAN,
     window : Rows \cup {None}, current : Rows \cup {None}, average : Rows \cup {None}]

TypeOK ==
    /\ windows \in 0 .. MaxWindows /\ stored \in 0 .. MaxWindows
    /\ changes \in Deviations \cup {None}
    /\ lock \in Sessions \cup {None}
    /\ session \in [Sessions -> [state : {"idle", "waiting", "calling"},
                                 op : Ops \cup {None},
                                 calls : Nat, since : 0 .. MaxWindows]]
    /\ DOMAIN coros \subseteq Ids
    /\ \A id \in DOMAIN coros :
         coros[id] \in Coroutines /\ coros[id].at <= Len(Route[coros[id].op])
    /\ answer \in [Sessions -> Answers \cup {None}]
    /\ timeouts \in Nat

\* The coroutine that a session waits for is on the loop or has answered; while
\* nobody has given up, the loop has no other.
EachAnswered ==
    /\ \A s \in Sessions : session[s].state = "calling" =>
         (answer[s] = None <=> Call(s) \in DOMAIN coros)
    /\ timeouts = 0 => \A id \in DOMAIN coros :
         session[id[1]].state = "calling" /\ Call(id[1]) = id

\* A row in an answer was the newest at some moment of the call, and the
\* window the metrics are compared with is no older than they are.
AnswersFresh ==
    \A s \in Sessions : answer[s] # None =>
        /\ answer[s].window # None =>
             session[s].since <= answer[s].window /\ answer[s].window <= windows
        /\ answer[s].changes # None =>
             /\ answer[s].changes.current <= answer[s].changes.average
             /\ answer[s].changes.average <= windows

\* While nobody has given up, the cached changes are the newest that were ever
\* computed, whatever sessions compute them and however they expire.
ChangesNewest == changes # None /\ timeouts = 0 => changes.average = stored

IInv == TypeOK /\ EachAnswered /\ AnswersFresh /\ ChangesNewest

\* A call without a timeout has the lock and waits for Redis.
Stalled ==
    \E s \in Sessions : lock = s /\ session[s].op \notin Timed /\ AwaitsRedis(Call(s))

\* Every call of a view returns or raises, though a call without a timeout holds
\* the lock through its queries, given-up coroutines hold connections and Redis may
\* never answer those that give up: only a call without a timeout that waits for
\* Redis for ever keeps the others waiting for ever.
EveryCallReturns ==
    \A s \in Sessions :
        session[s].state = "waiting" ~> (session[s].state = "idle" \/ []Stalled)
=============================================================================
