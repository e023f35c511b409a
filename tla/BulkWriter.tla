----------------------------- MODULE BulkWriter -----------------------------
(***************************************************************************)
(* The bulk inserts of DatabaseClient, src/common/database.py:             *)
(* _bulk_insert_records writes its records chunk by chunk, a chunk first   *)
(* with COPY (_write_chunk_with_copy), then, when rows exist already or    *)
(* COPY is refused, with INSERT ... ON CONFLICT DO NOTHING                 *)
(* (_write_chunk_with_executemany).  Serialization failures are retried.   *)
(*                                                                         *)
(* Calls run concurrently on one table: the two loops and stop() of the    *)
(* database consumer all write the windowed batch, and a batch whose       *)
(* insert failed is written again by a later call.  The pool is closed     *)
(* while calls are under way.                                              *)
(***************************************************************************)
EXTENDS Integers, Sequences

CONSTANTS
  Calls,        \* the calls of insert_batch_metrics or _windowed_metrics
  Input,        \* Input[c]: the primary keys of the records of call c
  ChunkSize,    \* bulk_write_chunk_size
  MaxAttempts   \* max_write_retries

ASSUME InputAssumption == DOMAIN Input = Calls /\ \A c \in Calls : Len(Input[c]) \in Nat
ASSUME SizeAssumption == ChunkSize \in Nat \ {0} /\ MaxAttempts \in Nat \ {0}

VARIABLES
  table,    \* the rows: <<c, i>> is the row holding record i of call c
  pool,     \* "open", "closing" (pool.close() under way), "closed" (None)
  pc,       \* pc[c]: "idle", "ready" (no connection, about to try a
            \* statement), "attempt" (in a statement), "returned", "raised"
  mode,     \* mode[c]: "copy" or "insert", the statement of the attempt
  first,    \* first[c]: the first record of the chunk call c is at
  attempt   \* attempt[c]: attempt of the retry loop c is in

vars == <<table, pool, pc, mode, first, attempt>>

-----------------------------------------------------------------------------
(* The table.                                                              *)

RowOf(e) == Input[e[1]][e[2]]
Present(r) == \E e \in table : RowOf(e) = r

(* Call c moves to pc, at record i, with statement m, attempt n.           *)
At(c, at, i, m, n) ==
  /\ pc' = [pc EXCEPT ![c] = at]
  /\ first' = [first EXCEPT ![c] = i]
  /\ mode' = [mode EXCEPT ![c] = m]
  /\ attempt' = [attempt EXCEPT ![c] = n]

Keep(c, at) == At(c, at, first[c], mode[c], attempt[c])

Chunk(c) == {i \in 1 .. Len(Input[c]) : first[c] <= i /\ i < first[c] + ChunkSize}

(* The rows after INSERT ... ON CONFLICT DO NOTHING of the chunk: a record *)
(* gets a row unless its key has one or an earlier record of the chunk has *)
(* the same key.                                                           *)
Overwritten(c) ==                                               \* seeded fault
  {e \in table : \A i \in Chunk(c) : Input[c][i] # RowOf(e)}
    \cup {<<c, i>> : i \in {i \in Chunk(c) : \A j \in Chunk(c) :
                              Input[c][j] = Input[c][i] => j <= i}}
Inserted(c) ==
  table \cup {<<c, i>> : i \in {i \in Chunk(c) :
                /\ ~Present(Input[c][i])
                /\ \A j \in Chunk(c) : Input[c][j] = Input[c][i] => i <= j}}

(* COPY writes the chunk only if that makes no two rows with one key.      *)
Accepts(c) ==
  mode[c] = "copy" =>
    \A i \in Chunk(c) : /\ ~Present(Input[c][i])
                        /\ \A j \in Chunk(c) : Input[c][j] = Input[c][i] => j = i

-----------------------------------------------------------------------------
(* The calls.                                                              *)

Init ==
  /\ table = {}
  /\ pool = "open"
  /\ pc = [c \in Calls |-> "idle"]
  /\ mode = [c \in Calls |-> "copy"]
  /\ first = [c \in Calls |-> 1]
  /\ attempt = [c \in Calls |-> 1]

Begin(c) ==
  /\ pc[c] = "idle"
  /\ Keep(c, "ready")
  /\ UNCHANGED <<table, pool>>

(* The attempt takes a connection; without a pool, or with one that is     *)
(* closing, it raises instead, and no handler catches that.  A call with   *)
(* no records needs none.                                                  *)
Acquire(c) ==
  /\ pc[c] = "ready"
  /\ first[c] <= Len(Input[c])
  /\ Keep(c, IF pool = "open" THEN "attempt" ELSE "raised")
  /\ UNCHANGED <<table, pool>>

(* The loop over the chunks is over.                                       *)
Return(c) ==
  /\ pc[c] = "ready"
  /\ first[c] > Len(Input[c])
  /\ Keep(c, "returned")
  /\ UNCHANGED <<table, pool>>

SkipsOne(c) == At(c, "ready", first[c] + ChunkSize + 1, "copy", 1)   \* seeded fault
(* The chunk's function returns, and the call goes on with the next chunk. *)
NextChunk(c) == At(c, "ready", first[c] + ChunkSize, "copy", 1)

Written(c) ==
  /\ pc[c] = "attempt"
  /\ Accepts(c)
  /\ table' = Inserted(c)
  /\ NextChunk(c)
  /\ UNCHANGED pool

DuplicateIsDone(c) == NextChunk(c)                              \* seeded fault
FallBack(c) == At(c, "ready", first[c], "insert", 1)

(* COPY met an existing key (23505), was refused (42501), or is not        *)
(* supported (0A000 or by its message): nothing is written.                *)
CopyRejected(c) ==
  /\ pc[c] = "attempt"
  /\ mode[c] = "copy"
  /\ FallBack(c)
  /\ UNCHANGED <<table, pool>>

RetriesAll(c) == attempt[c] <= MaxAttempts                      \* seeded fault
MayRetry(c) == attempt[c] < MaxAttempts

Uncounted(c) == Keep(c, "ready")                                \* seeded fault
(* Sleep, and the next turn of `for attempt in range(...)`; past the last  *)
(* one the function would return.                                          *)
TryAgain(c) ==
  IF attempt[c] < MaxAttempts
  THEN At(c, "ready", first[c], mode[c], attempt[c] + 1)
  ELSE NextChunk(c)

(* A serialization failure (40001): nothing is written.                    *)
SerializationFailure(c) ==
  /\ pc[c] = "attempt"
  /\ IF MayRetry(c) THEN TryAgain(c) ELSE Keep(c, "raised")
  /\ UNCHANGED <<table, pool>>

(* Any other error, or the task is cancelled, in an attempt or between     *)
(* two: the call raises.  A statement under way may have been executed     *)
(* and its reply lost.                                                     *)
Fails(c) ==
  /\ pc[c] \in {"ready", "attempt"}
  /\ \/ UNCHANGED table
     \/ pc[c] = "attempt" /\ Accepts(c) /\ table' = Inserted(c)
  /\ Keep(c, "raised")
  /\ UNCHANGED pool

-----------------------------------------------------------------------------
(* DatabaseClient.close: pool.close() refuses new connections and waits    *)
(* for those in use, then the pool is None.                                *)

CloseStarts ==
  /\ pool = "open"
  /\ pool' = "closing"
  /\ UNCHANGED <<table, pc, mode, first, attempt>>

Terminated == TRUE                                              \* seeded fault
Released == \A c \in Calls : pc[c] # "attempt"

CloseReturns ==
  /\ pool = "closing"
  /\ Released
  /\ pool' = "closed"
  /\ UNCHANGED <<table, pc, mode, first, attempt>>

-----------------------------------------------------------------------------
CallStep(c) ==
  \/ Acquire(c) \/ Return(c) \/ Written(c) \/ CopyRejected(c)
  \/ SerializationFailure(c) \/ Fails(c)

Next ==
  \/ \E c \in Calls : Begin(c) \/ CallStep(c)
  \/ CloseStarts \/ CloseReturns

Spec == Init /\ [][Next]_vars

(* A statement ends, with a result or an error; a sleep ends; pool.close() *)
(* returns when it can.  Nothing obliges a call to be made, the database   *)
(* to accept it, or the pool to be closed.                                 *)
FairSpec ==
  Spec /\ WF_vars(CloseReturns) /\ \A c \in Calls : WF_vars(CallStep(c))

-----------------------------------------------------------------------------
(* Properties.                                                             *)

(* Types; a table has one row for a key, and a record of a call that has   *)
(* started.                                                                *)
TypeOK ==
  /\ table \subseteq {e \in Calls \X Nat : e[2] \in 1 .. Len(Input[e[1]])}
  /\ \A d, e \in table : RowOf(d) = RowOf(e) => d = e
  /\ pool \in {"open", "closing", "closed"}
  /\ pc \in [Calls -> {"idle", "ready", "attempt", "returned", "raised"}]
  /\ mode \in [Calls -> {"copy", "insert"}]
  /\ first \in [Calls -> Nat \ {0}]
  /\ attempt \in [Calls -> 1 .. MaxAttempts]

(* A call that returns has a row for each of its records: no retry or      *)
(* fallback ends as a success with something not written.                  *)
ReturnedMeansWritten ==
  \A c \in Calls : pc[c] = "returned" =>
    \A i \in 1 .. Len(Input[c]) : Present(Input[c][i])

(* At any moment, also after a failure, what a call wrote is a prefix of   *)
(* its records: the assumption DbConsumer makes of an insert that raises.  *)
WritesPrefix ==
  \A c \in Calls : \E n \in 0 .. Len(Input[c]) :
    /\ \A i \in 1 .. n : Present(Input[c][i])
    /\ \A i \in n + 1 .. Len(Input[c]) : <<c, i>> \notin table

(* Once close() has returned no statement of any call changes the table.   *)
ClosedIsQuiet == [][pool = "closed" => UNCHANGED table]_vars

(* Every call ends, whatever the database answers: retries and fallbacks   *)
(* are bounded, and a closing pool does not leave a call waiting.          *)
EveryCallEnds ==
  \A c \in Calls : (pc[c] = "ready") ~> (pc[c] \in {"returned", "raised"})

(* The caller sees BulkInsert, the insert-if-absent of its records.        *)
Abstract ==
  INSTANCE BulkInsert WITH
    status <- [c \in Calls |-> IF pc[c] \in {"ready", "attempt"} THEN "writing" ELSE pc[c]]
InsertsIfAbsent == Abstract!Spec

(* The inductive invariant behind them.  All the chunks before the one a   *)
(* call is at are written, and of that one and those after it nothing, but *)
(* for a call that raised with the reply of its last statement lost.       *)
ChunksInOrder ==
  \A c \in Calls :
    /\ \A i \in 1 .. Len(Input[c]) : i < first[c] => Present(Input[c][i])
    /\ pc[c] = "idle" => first[c] = 1
    /\ pc[c] = "returned" => first[c] > Len(Input[c])
    /\ \/ \A e \in table : e[1] = c => e[2] < first[c]
       \/ /\ pc[c] = "raised"
          /\ \A i \in Chunk(c) : Present(Input[c][i])
          /\ \A e \in table : e[1] = c => e[2] < first[c] + ChunkSize

AttemptsHoldPool == pool = "closed" => \A c \in Calls : pc[c] # "attempt"

IInv == TypeOK /\ ChunksInOrder /\ AttemptsHoldPool
=============================================================================
