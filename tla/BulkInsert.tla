----------------------------- MODULE BulkInsert -----------------------------
(***************************************************************************)
(* What a bulk insert of DatabaseClient promises its caller                *)
(* (insert_batch_metrics, insert_batch_windowed_metrics): the rows of a    *)
(* call appear in order, a row once written stays as it is, a call that    *)
(* returns has a row for each of its records, and one that raises may have *)
(* written any number of them.  Chunks, COPY, fallbacks, retries and the   *)
(* connection pool are not seen.  BulkWriter implements this.              *)
(***************************************************************************)
EXTENDS Integers, Sequences

CONSTANTS
  Calls,   \* the calls made, by any task of the process or of another one
  Input    \* Input[c]: the primary keys of the records of call c, in order

VARIABLES
  table,   \* the rows: <<c, i>> is the row holding record i of call c
  status   \* status[c]: "idle", "writing", "returned" or "raised"

RowOf(e) == Input[e[1]][e[2]]
Present(r) == \E e \in table : RowOf(e) = r

(* INSERT ... ON CONFLICT DO NOTHING of the records S of call c: a record  *)
(* gets a row unless its key has one, or an earlier record of S has it.    *)
Added(c, S) ==
  {i \in S : /\ ~Present(Input[c][i])
             /\ \A j \in S : Input[c][j] = Input[c][i] => i <= j}
Insert(c, S) == table \cup {<<c, i>> : i \in Added(c, S)}

Init ==
  /\ table = {}
  /\ status = [c \in Calls |-> "idle"]

Begin(c) ==
  /\ status[c] = "idle"
  /\ status' = [status EXCEPT ![c] = "writing"]
  /\ UNCHANGED table

(* More records of the call are written, in order; the call may then fail. *)
Write(c) ==
  /\ status[c] = "writing"
  /\ \E n \in 0 .. Len(Input[c]) : table' = Insert(c, 1 .. n)
  /\ status' = status \/ status' = [status EXCEPT ![c] = "raised"]

Return(c) ==
  /\ status[c] = "writing"
  /\ table' = Insert(c, 1 .. Len(Input[c]))
  /\ status' = [status EXCEPT ![c] = "returned"]

Next == \E c \in Calls : Begin(c) \/ Write(c) \/ Return(c)

Spec == Init /\ [][Next]_<<table, status>>
=============================================================================
