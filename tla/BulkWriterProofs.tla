-------------------------- MODULE BulkWriterProofs --------------------------
(***************************************************************************)
(* Proofs about BulkWriter, for every set of calls, every input, chunk     *)
(* size and number of attempts: its inductive invariant, what it says of a *)
(* call that returns or raises, and that it implements BulkInsert.         *)
(***************************************************************************)
EXTENDS BulkWriter, WellFoundedInduction, TLAPS

USE InputAssumption, SizeAssumption

-----------------------------------------------------------------------------
(* Lemmas about the data.                                                  *)

Less == {p \in Nat \X Nat : p[1] < p[2]}

(* A non-empty set of naturals has a least element.                        *)
LEMMA Least ==
  ASSUME NEW S \in SUBSET Nat, S # {}
  PROVE  \E x \in S : \A y \in S : x <= y
<1>1. IsWellFoundedOn(OpToRel(<, Nat), Nat)
  BY NatLessThanWellFounded
<1>2. OpToRel(<, Nat) = Less
  BY DEF OpToRel, Less
<1>3. IsWellFoundedOn(Less, Nat)
  BY <1>1, <1>2
<1>4. \E x \in S : \A y \in S : <<y, x>> \notin Less
  BY <1>3, WFMin
<1>5. \A x, y \in Nat : <<y, x>> \notin Less => x <= y
  <2> TAKE x, y \in Nat
  <2>1. <<y, x>> \in Nat \X Nat
    OBVIOUS
  <2>2. <<y, x>>[1] = y /\ <<y, x>>[2] = x
    OBVIOUS
  <2> QED BY <2>1, <2>2 DEF Less
<1> QED BY <1>4, <1>5

(* The records of the chunk are records of the call.                       *)
LEMMA ChunkInCall ==
  ASSUME NEW c \in Calls
  PROVE  Chunk(c) \subseteq 1 .. Len(Input[c])
BY DEF Chunk

(* What an insert of the chunk of c does to the table: it keeps the rows,  *)
(* adds records of the chunk only, gives each record of the chunk a row,   *)
(* and no two rows one key.                                                *)
LEMMA InsertMoves ==
  ASSUME TypeOK, NEW c \in Calls, table' = Inserted(c)
  PROVE  /\ table \subseteq table'
         /\ \A e \in table' \ table : e[1] = c /\ e[2] \in Chunk(c)
         /\ \A i \in Chunk(c) : Present(Input[c][i])'
         /\ table' \subseteq {e \in Calls \X Nat : e[2] \in 1 .. Len(Input[e[1]])}
         /\ \A d, e \in table' : RowOf(d) = RowOf(e) => d = e
<1> DEFINE New == {i \in Chunk(c) : /\ ~Present(Input[c][i])
                                    /\ \A j \in Chunk(c) : Input[c][j] = Input[c][i] => i <= j}
<1>1. table' = table \cup {<<c, i>> : i \in New}
  BY DEF Inserted
<1>2. New \subseteq Chunk(c)
  OBVIOUS
<1>3. New \subseteq 1 .. Len(Input[c])
  BY <1>2, ChunkInCall
<1>4. \A e \in table' \ table : \E i \in New : e = <<c, i>>
  BY <1>1
<1>5. \A i \in Chunk(c) : Present(Input[c][i])'
  <2> SUFFICES ASSUME NEW i \in Chunk(c), ~Present(Input[c][i])
               PROVE  Present(Input[c][i])'
    BY <1>1 DEF Present, RowOf
  <2> DEFINE Twins == {j \in Chunk(c) : Input[c][j] = Input[c][i]}
  <2>1. PICK j \in Twins : \A k \in Twins : j <= k
    <3>1. Twins \in SUBSET Nat /\ i \in Twins
      BY ChunkInCall
    <3> QED BY <3>1, Least
  <2>2. j \in New
    BY <2>1
  <2>3. <<c, j>> \in table' /\ RowOf(<<c, j>>) = Input[c][i]
    BY <1>1, <2>1, <2>2 DEF RowOf
  <2> QED BY <2>3 DEF Present
<1>6. \A d, e \in table' : RowOf(d) = RowOf(e) => d = e
  <2> SUFFICES ASSUME NEW d \in table', NEW e \in table', RowOf(d) = RowOf(e)
               PROVE  d = e
    OBVIOUS
  <2>1. CASE d \in table /\ e \in table
    BY <2>1 DEF TypeOK
  <2>2. CASE d \in table /\ e \notin table
    BY <2>2, <1>4 DEF Present, RowOf
  <2>3. CASE d \notin table /\ e \in table
    BY <2>3, <1>4 DEF Present, RowOf
  <2>4. CASE d \notin table /\ e \notin table
    <3>1. PICK i \in New : d = <<c, i>>
      BY <2>4, <1>4
    <3>2. PICK j \in New : e = <<c, j>>
      BY <2>4, <1>4
    <3>3. Input[c][i] = Input[c][j]
      BY <3>1, <3>2 DEF RowOf
    <3>4. i <= j /\ j <= i
      BY <3>3
    <3>5. i \in Nat /\ j \in Nat
      BY <1>3
    <3> QED BY <3>1, <3>2, <3>4, <3>5
  <2> QED BY <2>1, <2>2, <2>3, <2>4
<1>7. table' \subseteq {e \in Calls \X Nat : e[2] \in 1 .. Len(Input[e[1]])}
  BY <1>1, <1>3 DEF TypeOK
<1> QED BY <1>1, <1>2, <1>4, <1>5, <1>6, <1>7

(* A row, once there, stays.                                               *)
LEMMA PresentStays ==
  ASSUME NEW r, table \subseteq table', Present(r)
  PROVE  Present(r)'
BY DEF Present, RowOf

-----------------------------------------------------------------------------
(* The inductive invariant.                                                *)

(* A call moves alone.                                                     *)
LEMMA AtMoves ==
  ASSUME TypeOK, NEW c \in Calls, NEW at \in {"ready", "attempt", "returned", "raised"},
         NEW i \in Nat \ {0}, NEW m \in {"copy", "insert"}, NEW n \in 1 .. MaxAttempts,
         At(c, at, i, m, n)
  PROVE  /\ pc' \in [Calls -> {"idle", "ready", "attempt", "returned", "raised"}]
         /\ mode' \in [Calls -> {"copy", "insert"}]
         /\ first' \in [Calls -> Nat \ {0}]
         /\ attempt' \in [Calls -> 1 .. MaxAttempts]
         /\ pc'[c] = at /\ first'[c] = i
         /\ \A d \in Calls \ {c} : pc'[d] = pc[d] /\ first'[d] = first[d]
BY DEF TypeOK, At

(* ChunksInOrder, of one call.                                             *)
InOrder(c) ==
  /\ \A i \in 1 .. Len(Input[c]) : i < first[c] => Present(Input[c][i])
  /\ pc[c] = "idle" => first[c] = 1
  /\ pc[c] = "returned" => first[c] > Len(Input[c])
  /\ \/ \A e \in table : e[1] = c => e[2] < first[c]
     \/ /\ pc[c] = "raised"
        /\ \A i \in Chunk(c) : Present(Input[c][i])
        /\ \A e \in table : e[1] = c => e[2] < first[c] + ChunkSize

(* The other calls only see rows appear.                                   *)
LEMMA OthersInOrder ==
  ASSUME NEW c \in Calls, NEW d \in Calls, InOrder(d), c # d,
         pc'[d] = pc[d], first'[d] = first[d],
         table \subseteq table', \A e \in table' \ table : e[1] = c
  PROVE  InOrder(d)'
<1>1. Chunk(d)' = Chunk(d)
  BY DEF Chunk
<1>2. \A i \in 1 .. Len(Input[d]) : Present(Input[d][i]) => Present(Input[d][i])'
  BY PresentStays
<1>3. \A e \in table' : e[1] = d => e \in table
  OBVIOUS
<1> QED BY <1>1, <1>2, <1>3, ChunkInCall DEF InOrder

(* A call that moves within its chunk and writes nothing.                  *)
LEMMA StaysInOrder ==
  ASSUME TypeOK, NEW c \in Calls, InOrder(c), pc[c] \in {"idle", "ready", "attempt"},
         NEW at \in {"ready", "attempt", "raised"}, NEW m \in {"copy", "insert"},
         NEW n \in 1 .. MaxAttempts, At(c, at, first[c], m, n), UNCHANGED table
  PROVE  InOrder(c)'
<1>1. pc'[c] = at /\ first'[c] = first[c]
  BY AtMoves DEF TypeOK
<1>2. \A r : Present(r)' <=> Present(r)
  BY DEF Present, RowOf
<1> QED BY <1>1, <1>2 DEF InOrder

(* A call whose chunk is written goes on with the next one.                *)
LEMMA AdvancesInOrder ==
  ASSUME TypeOK, NEW c \in Calls, InOrder(c), pc[c] = "attempt",
         table' = Inserted(c), NextChunk(c)
  PROVE  InOrder(c)'
<1>1. first[c] \in Nat \ {0} /\ first[c] + ChunkSize \in Nat \ {0} /\ 1 \in 1 .. MaxAttempts
  BY DEF TypeOK
<1>2. pc'[c] = "ready" /\ first'[c] = first[c] + ChunkSize
  BY <1>1, AtMoves DEF NextChunk
<1>3. /\ table \subseteq table'
      /\ \A e \in table' \ table : e[1] = c /\ e[2] \in Chunk(c)
      /\ \A i \in Chunk(c) : Present(Input[c][i])'
  BY InsertMoves
<1>4. \A i \in 1 .. Len(Input[c]) : i < first'[c] => Present(Input[c][i])'
  <2> SUFFICES ASSUME NEW i \in 1 .. Len(Input[c]), i < first[c] + ChunkSize
               PROVE  Present(Input[c][i])'
    BY <1>2
  <2>1. CASE i < first[c]
    BY <2>1, <1>3, PresentStays DEF InOrder
  <2>2. CASE first[c] <= i
    BY <2>2, <1>3 DEF Chunk
  <2> QED BY <1>1, <2>1, <2>2
<1>5. \A e \in table' : e[1] = c => e[2] < first'[c]
  <2> SUFFICES ASSUME NEW e \in table', e[1] = c
               PROVE  e[2] < first[c] + ChunkSize
    BY <1>2
  <2>1. CASE e \in table
    <3>1. e[2] < first[c] /\ e[2] \in Nat
      BY <2>1 DEF InOrder, TypeOK
    <3> QED BY <3>1, <1>1
  <2>2. CASE e \notin table
    BY <2>2, <1>3 DEF Chunk
  <2> QED BY <2>1, <2>2
<1> QED BY <1>2, <1>4, <1>5 DEF InOrder

(* A call that raises after a write whose reply was lost.                  *)
LEMMA LostReplyInOrder ==
  ASSUME TypeOK, NEW c \in Calls, InOrder(c), pc[c] = "attempt",
         table' = Inserted(c), Keep(c, "raised")
  PROVE  InOrder(c)'
<1>1. first[c] \in Nat \ {0}
  BY DEF TypeOK
<1>2. pc'[c] = "raised" /\ first'[c] = first[c]
  BY AtMoves DEF Keep, TypeOK
<1>3. /\ table \subseteq table'
      /\ \A e \in table' \ table : e[1] = c /\ e[2] \in Chunk(c)
      /\ \A i \in Chunk(c) : Present(Input[c][i])'
  BY InsertMoves
<1>4. Chunk(c)' = Chunk(c)
  BY <1>2 DEF Chunk
<1>5. \A i \in 1 .. Len(Input[c]) : i < first'[c] => Present(Input[c][i])'
  BY <1>2, <1>3, PresentStays DEF InOrder
<1>6. \A e \in table' : e[1] = c => e[2] < first'[c] + ChunkSize
  <2> SUFFICES ASSUME NEW e \in table', e[1] = c
               PROVE  e[2] < first[c] + ChunkSize
    BY <1>2
  <2>1. CASE e \in table
    <3>1. e[2] < first[c] /\ e[2] \in Nat
      BY <2>1 DEF InOrder, TypeOK
    <3> QED BY <3>1, <1>1
  <2>2. CASE e \notin table
    BY <2>2, <1>3 DEF Chunk
  <2> QED BY <2>1, <2>2
<1> QED BY <1>2, <1>3, <1>4, <1>5, <1>6 DEF InOrder

(* Every step of a call keeps the types, its own order and the others'.    *)
LEMMA CallMoves ==
  ASSUME TypeOK, ChunksInOrder, AttemptsHoldPool, NEW c \in Calls, Begin(c) \/ CallStep(c)
  PROVE  /\ TypeOK' /\ ChunksInOrder' /\ AttemptsHoldPool'
         /\ UNCHANGED table \/ (table' = Inserted(c) /\ pc[c] = "attempt")
         /\ pool' = pool
<1>1. /\ first[c] \in Nat \ {0} /\ first[c] + ChunkSize \in Nat \ {0}
      /\ mode[c] \in {"copy", "insert"} /\ attempt[c] \in 1 .. MaxAttempts
      /\ 1 \in 1 .. MaxAttempts
      /\ attempt[c] < MaxAttempts => attempt[c] + 1 \in 1 .. MaxAttempts
  BY DEF TypeOK
<1>2. UNCHANGED table \/ (table' = Inserted(c) /\ pc[c] = "attempt")
  BY DEF Begin, CallStep, Acquire, Return, Written, CopyRejected, SerializationFailure, Fails
<1>3. pool' = pool
  BY DEF Begin, CallStep, Acquire, Return, Written, CopyRejected, SerializationFailure, Fails
<1>4. \E at \in {"ready", "attempt", "returned", "raised"}, i \in Nat \ {0},
        m \in {"copy", "insert"}, n \in 1 .. MaxAttempts :
        At(c, at, i, m, n) /\ (at = "attempt" => pool = "open")
  <2>1. CASE Begin(c)
    BY <2>1, <1>1 DEF Begin, Keep
  <2>2. CASE Acquire(c)
    BY <2>2, <1>1 DEF Acquire, Keep
  <2>3. CASE Return(c)
    BY <2>3, <1>1 DEF Return, Keep
  <2>4. CASE Written(c)
    BY <2>4, <1>1 DEF Written, NextChunk
  <2>5. CASE CopyRejected(c)
    BY <2>5, <1>1 DEF CopyRejected, FallBack
  <2>6. CASE SerializationFailure(c)
    BY <2>6, <1>1 DEF SerializationFailure, MayRetry, TryAgain, Keep
  <2>7. CASE Fails(c)
    BY <2>7, <1>1 DEF Fails, Keep
  <2> QED BY <2>1, <2>2, <2>3, <2>4, <2>5, <2>6, <2>7 DEF CallStep
<1>5. /\ pc' \in [Calls -> {"idle", "ready", "attempt", "returned", "raised"}]
      /\ mode' \in [Calls -> {"copy", "insert"}]
      /\ first' \in [Calls -> Nat \ {0}]
      /\ attempt' \in [Calls -> 1 .. MaxAttempts]
      /\ \A d \in Calls \ {c} : pc'[d] = pc[d] /\ first'[d] = first[d]
      /\ pc'[c] = "attempt" => pool = "open"
  BY <1>4, AtMoves
<1>6. /\ table \subseteq table'
      /\ \A e \in table' \ table : e[1] = c
      /\ table' \subseteq {e \in Calls \X Nat : e[2] \in 1 .. Len(Input[e[1]])}
      /\ \A d, e \in table' : RowOf(d) = RowOf(e) => d = e
  <2>1. CASE UNCHANGED table
    BY <2>1 DEF TypeOK, RowOf
  <2>2. CASE table' = Inserted(c)
    BY <2>2, InsertMoves
  <2> QED BY <1>2, <2>1, <2>2
<1>7. TypeOK'
  BY <1>3, <1>5, <1>6 DEF TypeOK, RowOf
<1>8. AttemptsHoldPool'
  BY <1>3, <1>5 DEF AttemptsHoldPool, TypeOK
<1>9. \A d \in Calls : InOrder(d)
  BY DEF ChunksInOrder, InOrder
<1>10. InOrder(c)'
  <2>1. CASE Begin(c)
    BY <2>1, <1>1, <1>9, StaysInOrder DEF Begin, Keep
  <2>2. CASE Acquire(c)
    BY <2>2, <1>1, <1>9, StaysInOrder DEF Acquire, Keep
  <2>3. CASE Return(c)
    <3>1. pc'[c] = "returned" /\ first'[c] = first[c] /\ table' = table
      BY <2>3, <1>1, AtMoves DEF Return, Keep
    <3>2. \A r : Present(r)' <=> Present(r)
      BY <3>1 DEF Present, RowOf
    <3> QED BY <3>1, <3>2, <2>3, <1>9 DEF InOrder, Return
  <2>4. CASE Written(c)
    BY <2>4, <1>9, AdvancesInOrder DEF Written
  <2>5. CASE CopyRejected(c)
    BY <2>5, <1>1, <1>9, StaysInOrder DEF CopyRejected, FallBack
  <2>6. CASE SerializationFailure(c)
    BY <2>6, <1>1, <1>9, StaysInOrder DEF SerializationFailure, MayRetry, TryAgain, Keep
  <2>7. CASE Fails(c)
    <3>1. CASE UNCHANGED table
      BY <2>7, <3>1, <1>1, <1>9, StaysInOrder DEF Fails, Keep
    <3>2. CASE pc[c] = "attempt" /\ table' = Inserted(c)
      BY <2>7, <3>2, <1>9, LostReplyInOrder DEF Fails
    <3> QED BY <2>7, <3>1, <3>2 DEF Fails
  <2> QED BY <2>1, <2>2, <2>3, <2>4, <2>5, <2>6, <2>7 DEF CallStep
<1>11. \A d \in Calls : InOrder(d)'
  BY <1>5, <1>6, <1>9, <1>10, OthersInOrder
<1>12. ChunksInOrder'
  BY <1>11 DEF ChunksInOrder, InOrder
<1> QED BY <1>2, <1>3, <1>7, <1>8, <1>12

LEMMA InitInv == Init => IInv
<1> SUFFICES ASSUME Init PROVE IInv
  OBVIOUS
<1>1. TypeOK
  BY DEF Init, TypeOK
<1>2. \A c \in Calls : InOrder(c)
  <2> SUFFICES ASSUME NEW c \in Calls PROVE InOrder(c)
    OBVIOUS
  <2>1. pc[c] = "idle" /\ first[c] = 1 /\ table = {}
    BY DEF Init
  <2> QED BY <2>1 DEF InOrder
<1>3. AttemptsHoldPool
  BY DEF Init, AttemptsHoldPool
<1> QED BY <1>1, <1>2, <1>3 DEF IInv, ChunksInOrder, InOrder

(* A step of the pool, or none, moves no call and no row.                  *)
LEMMA PoolMoves ==
  ASSUME IInv, UNCHANGED <<table, pc, mode, first, attempt>>,
         pool' = pool \/ CloseStarts \/ CloseReturns
  PROVE  IInv'
<1>1. \A r : Present(r)' <=> Present(r)
  BY DEF Present, RowOf
<1>2. \A c \in Calls : Chunk(c)' = Chunk(c)
  BY DEF Chunk
<1>3. TypeOK'
  BY DEF IInv, TypeOK, RowOf, CloseStarts, CloseReturns
<1>4. ChunksInOrder'
  BY <1>1, <1>2 DEF IInv, ChunksInOrder
<1>5. AttemptsHoldPool'
  BY DEF IInv, AttemptsHoldPool, CloseStarts, CloseReturns, Released
<1> QED BY <1>3, <1>4, <1>5 DEF IInv

LEMMA NextInv == IInv /\ [Next]_vars => IInv'
<1> SUFFICES ASSUME IInv, [Next]_vars PROVE IInv'
  OBVIOUS
<1>1. CASE \E c \in Calls : Begin(c) \/ CallStep(c)
  BY <1>1, CallMoves DEF IInv
<1>2. CASE CloseStarts \/ CloseReturns
  BY <1>2, PoolMoves DEF CloseStarts, CloseReturns
<1>3. CASE UNCHANGED vars
  BY <1>3, PoolMoves DEF vars
<1> QED BY <1>1, <1>2, <1>3 DEF Next

(* The inductive invariant of the bulk inserts: types, chunks written in   *)
(* order, and no statement under way in a closed pool.                     *)
THEOREM InductiveInvariant == Spec => []IInv
BY InitInv, NextInv, PTL DEF Spec

-----------------------------------------------------------------------------
(* What a caller relies on.                                                *)

(* insert_batch_metrics and insert_batch_windowed_metrics return only with *)
(* every record's row in the table, whatever was retried or fell back.     *)
THEOREM ReturnsWritten == Spec => []ReturnedMeansWritten
<1>1. IInv => ReturnedMeansWritten
  <2> SUFFICES ASSUME IInv, NEW c \in Calls, pc[c] = "returned",
                      NEW i \in 1 .. Len(Input[c])
               PROVE  Present(Input[c][i])
    BY DEF ReturnedMeansWritten
  <2>1. first[c] > Len(Input[c]) /\ first[c] \in Nat
    BY DEF IInv, ChunksInOrder, TypeOK
  <2> QED BY <2>1 DEF IInv, ChunksInOrder
<1> QED BY <1>1, InductiveInvariant, PTL

(* What a call wrote is a prefix of its records, also when it raised: an   *)
(* insert that fails leaves the table as DbConsumer's Written says.        *)
THEOREM PrefixWritten == Spec => []WritesPrefix
<1>1. IInv => WritesPrefix
  <2> SUFFICES ASSUME IInv, NEW c \in Calls
               PROVE  \E n \in 0 .. Len(Input[c]) :
                        /\ \A i \in 1 .. n : Present(Input[c][i])
                        /\ \A i \in n + 1 .. Len(Input[c]) : <<c, i>> \notin table
    BY DEF WritesPrefix
  <2> DEFINE Upto(m) == IF m - 1 <= Len(Input[c]) THEN m - 1 ELSE Len(Input[c])
  <2>1. first[c] \in Nat \ {0} /\ Len(Input[c]) \in Nat
    BY DEF IInv, TypeOK
  <2>2. CASE \A e \in table : e[1] = c => e[2] < first[c]
    <3>1. Upto(first[c]) \in 0 .. Len(Input[c])
      BY <2>1
    <3>2. \A i \in 1 .. Upto(first[c]) : Present(Input[c][i])
      BY <2>1 DEF IInv, ChunksInOrder
    <3>3. \A i \in Upto(first[c]) + 1 .. Len(Input[c]) : <<c, i>> \notin table
      BY <2>1, <2>2
    <3> QED BY <3>1, <3>2, <3>3
  <2>3. CASE /\ \A i \in Chunk(c) : Present(Input[c][i])
             /\ \A e \in table : e[1] = c => e[2] < first[c] + ChunkSize
    <3> DEFINE n == Upto(first[c] + ChunkSize)
    <3>1. n \in 0 .. Len(Input[c])
      BY <2>1
    <3>2. \A i \in 1 .. n : Present(Input[c][i])
      <4> SUFFICES ASSUME NEW i \in 1 .. n
                   PROVE  Present(Input[c][i])
        OBVIOUS
      <4>1. i \in 1 .. Len(Input[c]) /\ i < first[c] + ChunkSize
        BY <2>1
      <4>2. CASE i < first[c]
        BY <4>1, <4>2 DEF IInv, ChunksInOrder
      <4>3. CASE first[c] <= i
        BY <4>1, <4>3, <2>3 DEF Chunk
      <4> QED BY <2>1, <4>2, <4>3
    <3>3. \A i \in n + 1 .. Len(Input[c]) : <<c, i>> \notin table
      BY <2>1, <2>3
    <3> QED BY <3>1, <3>2, <3>3
  <2> QED BY <2>2, <2>3 DEF IInv, ChunksInOrder
<1> QED BY <1>1, InductiveInvariant, PTL

(* Once the pool is closed no call changes the table.                      *)
THEOREM QuietWhenClosed == Spec => ClosedIsQuiet
<1>1. IInv /\ [Next]_vars => [pool = "closed" => UNCHANGED table]_vars
  <2> SUFFICES ASSUME IInv, Next, pool = "closed" PROVE UNCHANGED table
    OBVIOUS
  <2>1. ASSUME NEW c \in Calls, Begin(c) \/ CallStep(c)
        PROVE  UNCHANGED table
    BY <2>1, CallMoves DEF IInv, AttemptsHoldPool
  <2> QED BY <2>1 DEF Next, CloseStarts, CloseReturns
<1> QED BY <1>1, InductiveInvariant, PTL DEF Spec, ClosedIsQuiet

-----------------------------------------------------------------------------
(* The refinement.                                                         *)

status == [c \in Calls |-> IF pc[c] \in {"ready", "attempt"} THEN "writing" ELSE pc[c]]

(* Writing records that are there already changes nothing.                 *)
LEMMA PresentAddNothing ==
  ASSUME NEW c \in Calls, NEW S, \A i \in S : Present(Input[c][i])
  PROVE  Abstract!Insert(c, S) = table
BY DEF Abstract!Insert, Abstract!Added, Abstract!Present, Abstract!RowOf, Present, RowOf

(* The chunk a call writes is, since the chunks before it are written, the *)
(* prefix of the call's records up to the end of the chunk.                *)
LEMMA ChunkIsPrefix ==
  ASSUME TypeOK, ChunksInOrder, NEW c \in Calls
  PROVE  \E n \in 0 .. Len(Input[c]) : Inserted(c) = Abstract!Insert(c, 1 .. n)
<1> DEFINE last == first[c] + ChunkSize - 1
           n == IF last <= Len(Input[c]) THEN last ELSE Len(Input[c])
           Fresh(S) == {i \in S : /\ ~Present(Input[c][i])
                                  /\ \A j \in S : Input[c][j] = Input[c][i] => i <= j}
<1>1. first[c] \in Nat \ {0} /\ Len(Input[c]) \in Nat /\ n \in 0 .. Len(Input[c])
  BY DEF TypeOK
<1>2. Chunk(c) = {i \in 1 .. n : first[c] <= i}
  BY <1>1 DEF Chunk
<1>3. \A i \in 1 .. n : i \notin Chunk(c) => Present(Input[c][i])
  BY <1>1, <1>2 DEF ChunksInOrder
<1>4. Fresh(Chunk(c)) = Fresh(1 .. n)
  <2>1. ASSUME NEW i \in Fresh(Chunk(c))
        PROVE  i \in Fresh(1 .. n)
    BY <1>2, <1>3, <2>1
  <2>2. ASSUME NEW i \in Fresh(1 .. n)
        PROVE  i \in Fresh(Chunk(c))
    BY <1>2, <1>3, <2>2
  <2> QED BY <2>1, <2>2
<1>5. Inserted(c) = table \cup {<<c, i>> : i \in Fresh(Chunk(c))}
  BY DEF Inserted
<1>6. Abstract!Insert(c, 1 .. n) = table \cup {<<c, i>> : i \in Fresh(1 .. n)}
  BY DEF Abstract!Insert, Abstract!Added, Abstract!Present, Abstract!RowOf, Present, RowOf
<1> QED BY <1>1, <1>4, <1>5, <1>6

(* The call's status when it moves.                                        *)
LEMMA StatusMoves ==
  ASSUME TypeOK, NEW c \in Calls, NEW at \in {"ready", "attempt", "returned", "raised"},
         pc' = [pc EXCEPT ![c] = at]
  PROVE  status' = [status EXCEPT ![c] = IF at \in {"ready", "attempt"} THEN "writing" ELSE at]
BY DEF TypeOK, status

(* Within a call that goes on, the status stays.                           *)
LEMMA StatusStays ==
  ASSUME TypeOK, NEW c \in Calls, pc[c] \in {"ready", "attempt"},
         NEW at \in {"ready", "attempt"}, pc' = [pc EXCEPT ![c] = at]
  PROVE  status' = status
BY DEF TypeOK, status

(* A step of a call is a step of BulkInsert, or changes nothing it sees.   *)
LEMMA CallRefines ==
  ASSUME TypeOK, ChunksInOrder, NEW c \in Calls, Begin(c) \/ CallStep(c)
  PROVE  Abstract!Next \/ UNCHANGED <<table, status>>
<1>1. status = [d \in Calls |-> IF pc[d] \in {"ready", "attempt"} THEN "writing" ELSE pc[d]]
  BY DEF status
<1>2. \A n \in 0 .. Len(Input[c]) :
        /\ pc[c] \in {"ready", "attempt"}
        /\ table' = Abstract!Insert(c, 1 .. n)
        /\ status' = status \/ status' = [status EXCEPT ![c] = "raised"]
        => Abstract!Write(c)
  BY DEF Abstract!Write, status
<1>3. Abstract!Insert(c, 1 .. 0) = table /\ 0 \in 0 .. Len(Input[c])
  BY PresentAddNothing
<1>4. ASSUME pc[c] \in {"ready", "attempt"}, Keep(c, "raised"), UNCHANGED table
      PROVE  Abstract!Write(c)
  BY <1>2, <1>3, <1>4, StatusMoves DEF Keep, At
<1>5. CASE Begin(c)
  <2>1. status' = [status EXCEPT ![c] = "writing"] /\ status[c] = "idle"
    BY <1>5, StatusMoves DEF Begin, Keep, At, status
  <2>2. Abstract!Begin(c)
    BY <1>5, <2>1 DEF Begin, Abstract!Begin, status
  <2> QED BY <2>2 DEF Abstract!Next
<1>6. CASE Acquire(c)
  <2>1. CASE pool = "open"
    BY <1>6, <2>1, StatusStays DEF Acquire, Keep, At
  <2>2. CASE pool # "open"
    BY <1>6, <2>2, <1>4 DEF Acquire, Abstract!Next
  <2> QED BY <2>1, <2>2
<1>7. CASE Return(c)
  <2>1. \A i \in 1 .. Len(Input[c]) : Present(Input[c][i])
    BY <1>7 DEF Return, ChunksInOrder, TypeOK
  <2>2. table' = Abstract!Insert(c, 1 .. Len(Input[c]))
    BY <1>7, <2>1, PresentAddNothing DEF Return
  <2>3. status' = [status EXCEPT ![c] = "returned"] /\ status[c] = "writing"
    BY <1>7, StatusMoves DEF Return, Keep, At, status
  <2>4. Abstract!Return(c)
    BY <2>2, <2>3 DEF Abstract!Return, status
  <2> QED BY <2>4 DEF Abstract!Next
<1>8. CASE Written(c)
  <2>1. status' = status /\ pc[c] = "attempt"
    BY <1>8, StatusStays DEF Written, NextChunk, At
  <2>2. Abstract!Write(c)
    BY <1>8, <2>1, <1>2, ChunkIsPrefix DEF Written
  <2> QED BY <2>2 DEF Abstract!Next
<1>9. CASE CopyRejected(c)
  BY <1>9, StatusStays DEF CopyRejected, FallBack, At
<1>10. CASE SerializationFailure(c)
  <2>1. CASE MayRetry(c)
    BY <1>10, <2>1, StatusStays DEF SerializationFailure, MayRetry, TryAgain, At
  <2>2. CASE ~MayRetry(c)
    BY <1>10, <2>2, <1>4 DEF SerializationFailure, Abstract!Next
  <2> QED BY <2>1, <2>2
<1>11. CASE Fails(c)
  <2>1. CASE UNCHANGED table
    BY <1>11, <2>1, <1>4 DEF Fails, Abstract!Next
  <2>2. CASE pc[c] = "attempt" /\ table' = Inserted(c)
    <3>1. status' = [status EXCEPT ![c] = "raised"]
      BY <1>11, StatusMoves DEF Fails, Keep, At
    <3>2. Abstract!Write(c)
      BY <2>2, <3>1, <1>2, ChunkIsPrefix
    <3> QED BY <3>2 DEF Abstract!Next
  <2> QED BY <1>11, <2>1, <2>2 DEF Fails
<1> QED BY <1>5, <1>6, <1>7, <1>8, <1>9, <1>10, <1>11 DEF CallStep

(* The chunked writer with its fallbacks and retries is an insert-if-      *)
(* absent of each call's records, in order.                                *)
THEOREM Implements == Spec => InsertsIfAbsent
<1>1. Init => Abstract!Init
  BY DEF Init, Abstract!Init
<1>2. IInv /\ [Next]_vars => [Abstract!Next]_<<table, status>>
  <2> SUFFICES ASSUME IInv, [Next]_vars
               PROVE  Abstract!Next \/ UNCHANGED <<table, status>>
    OBVIOUS
  <2>1. CASE \E c \in Calls : Begin(c) \/ CallStep(c)
    BY <2>1, CallRefines DEF IInv
  <2>2. CASE CloseStarts \/ CloseReturns
    BY <2>2 DEF CloseStarts, CloseReturns, status
  <2>3. CASE UNCHANGED vars
    BY <2>3 DEF vars, status
  <2> QED BY <2>1, <2>2, <2>3 DEF Next
<1> QED BY <1>1, <1>2, InductiveInvariant, PTL DEF Spec, InsertsIfAbsent, Abstract!Spec, status
=============================================================================
