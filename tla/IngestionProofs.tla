-------------------------- MODULE IngestionProofs --------------------------
(***************************************************************************)
(* Proofs about Ingestion, for every set of symbols, every number of       *)
(* messages and retries and every set of malformed messages: types, when a *)
(* stream gives up, what the service knows of each record, their order,    *)
(* and what stop() leaves behind.                                          *)
(***************************************************************************)
EXTENDS Ingestion, TLAPS

USE IngestionAssumption

-----------------------------------------------------------------------------
(* The parts of the inductive invariant.                                   *)

\* How far start(), stop() and the tasks have come together.
Lifecycle ==
    /\ phase \in {"connecting", "connected"} =>
         /\ ~wsRunning /\ ~caught
         /\ \A s \in Symbols : stream[s] = "none" /\ retries[s] = 0 /\ failures[s] = 0
    /\ (phase = "streaming" /\ running) => wsRunning
    /\ phase \in {"shutdown", "exited"} => ~running
    /\ stats = "done" => ~running
    /\ caught => ~running /\ signalled /\ stopper # "none"
    /\ (caught /\ stopper = "streams") => phase = "streaming"

\* Once stop() has caught the streams none of them takes or sends a message.
Caught == caught => \A s \in Symbols : stream[s] \in {"none", "cancelled", "done"}

\* While the client runs the count of a stream is that of its failures.
Budget ==
    \A s \in Symbols :
        /\ stream[s] # "done" => retries[s] <= MaxRetries
        /\ wsRunning => retries[s] = failures[s]
        /\ running => stream[s] # "cancelled"

\* A record in a thread is the last one its stream has taken.
InThread ==
    \A r \in threads :
        /\ r[2] = received[r[1]]
        /\ stream[r[1]] \in {"sending", "cancelled", "done"}
        /\ r \notin reported

Taken == \A r \in reported : r[2] <= received[r[1]]

\* What was submitted was taken, before what is in a thread.
Submitted ==
    \A s \in Symbols : \A i \in 1 .. Len(submitted[s]) :
        /\ submitted[s][i] <= received[s]
        /\ <<s, received[s]>> \in threads => submitted[s][i] < received[s]

\* A record reported as sent is in the buffer or settled; what the buffer holds
\* of them when stop() comes to the producer is awaited.
Settling ==
    /\ reported \subseteq buffered \cup landed \cup expired
    /\ (caught /\ stopper # "streams") => reported \cap buffered \subseteq awaited
    /\ (caught /\ phase = "exited") => threads = {} /\ reported \cap buffered = {}

IInv ==
    /\ TypeOK /\ Lifecycle /\ Caught /\ Budget /\ GivesUpInTime
    /\ InThread /\ Taken /\ Submitted /\ SubmittedInOrder /\ FateKnown /\ Settling

-----------------------------------------------------------------------------
(* One lemma for each part: a step preserves it.                           *)


(* Types.                                                                  *)
LEMMA TypeStep ==
  ASSUME TypeOK, Budget, [Next]_vars
  PROVE  TypeOK'
<1>1. ASSUME NEW s \in Symbols, StreamConnects(s)
      PROVE  TypeOK'
  BY <1>1 DEF StreamConnects, AfterConnect, streams, kafka, service, TypeOK, Budget
<1>2. ASSUME NEW s \in Symbols, StreamFails(s)
      PROVE  TypeOK'
  <2>1. failures' \in [Symbols -> Nat]
    BY <1>2 DEF StreamFails, NextTurn, TypeOK
  <2>2. retries[s] \in Nat /\ retries[s] <= MaxRetries
    BY <1>2 DEF StreamFails, TypeOK, Budget
  <2>3. retries' \in [Symbols -> 0 .. MaxRetries + 1]
    <3>1. retries[s] + 1 \in 0 .. MaxRetries + 1
      BY <2>2
    <3>2. retries' = retries \/ retries' = [retries EXCEPT ![s] = retries[s] + 1]
      BY <1>2 DEF StreamFails, NextTurn
    <3> QED BY <3>1, <3>2 DEF TypeOK
  <2>4. stream' \in [Symbols -> {"none", "connecting", "listening", "sending", "sleeping",
                                 "cancelled", "done"}]
    BY <1>2 DEF StreamFails, NextTurn, TypeOK
  <2> QED BY <1>2, <2>1, <2>3, <2>4 DEF StreamFails, kafka, service, TypeOK
<1>3. ASSUME NEW s \in Symbols, StreamWakes(s)
      PROVE  TypeOK'
  BY <1>3 DEF StreamWakes, streams, kafka, service, TypeOK, Budget
<1>4. ASSUME NEW s \in Symbols, Receive(s)
      PROVE  TypeOK'
  <2>1. received[s] \in Nat /\ received[s] + 1 \in 1 .. MaxRecords
    BY <1>4 DEF Receive, TypeOK
  <2>2. <<s, received[s] + 1>> \in Records
    BY <2>1 DEF Records
  <2>3. received' \in [Symbols -> 0 .. MaxRecords]
    BY <1>4, <2>1 DEF Receive, TypeOK
  <2>4. threads' \subseteq Records /\ refused' \subseteq Records
    BY <1>4, <2>2 DEF Receive, TypeOK
  <2>5. stream' \in [Symbols -> {"none", "connecting", "listening", "sending", "sleeping",
                                 "cancelled", "done"}]
    BY <1>4 DEF Receive, WhilePublishing, TypeOK
  <2> QED BY <1>4, <2>3, <2>4, <2>5 DEF Receive, service, TypeOK
<1>5. ASSUME NEW s \in Symbols, Unwinds(s)
      PROVE  TypeOK'
  BY <1>5 DEF Unwinds, streams, kafka, service, TypeOK, Budget
<1>6. ASSUME NEW r \in Records, SendBuffers(r)
      PROVE  TypeOK'
  <2>1. submitted' \in [Symbols -> Seq(Nat)]
    <3>1. r[1] \in Symbols /\ r[2] \in Nat
      BY DEF Records
    <3>2. submitted[r[1]] \in Seq(Nat)
      BY <3>1 DEF TypeOK
    <3>3. Append(submitted[r[1]], r[2]) \in Seq(Nat)
      BY <3>1, <3>2
    <3> QED BY <1>6, <3>3 DEF SendBuffers, TypeOK
  <2>2. stream' \in [Symbols -> {"none", "connecting", "listening", "sending", "sleeping",
                                 "cancelled", "done"}]
    BY <1>6 DEF SendBuffers, Resumes, TypeOK
  <2>3. threads' \subseteq Records /\ buffered' \subseteq Records /\ reported' \subseteq
         Records
    BY <1>6 DEF SendBuffers, TypeOK
  <2> QED BY <1>6, <2>1, <2>2, <2>3 DEF SendBuffers, service, TypeOK
<1>7. ASSUME NEW r \in Records, SendFails(r)
      PROVE  TypeOK'
  BY <1>7 DEF SendFails, Resumes, Awaits, streams, kafka, service, TypeOK, Budget
<1>8. ASSUME NEW r \in Records, Deliver(r)
      PROVE  TypeOK'
  BY <1>8 DEF Deliver, streams, kafka, service, TypeOK, Budget
<1>9. ASSUME NEW r \in Records, Expire(r)
      PROVE  TypeOK'
  BY <1>9 DEF Expire, streams, kafka, service, TypeOK, Budget
<1>10. CASE Connected
  BY <1>10 DEF Connected, streams, kafka, service, TypeOK, Budget
<1>11. CASE ConnectRaises
  BY <1>11 DEF ConnectRaises, streams, kafka, service, TypeOK, Budget
<1>12. CASE StreamsStart
  BY <1>12 DEF StreamsStart, streams, kafka, service, TypeOK, Budget
<1>13. CASE StatsEnd
  BY <1>13 DEF StatsEnd, streams, kafka, service, TypeOK, Budget
<1>14. CASE Flush
  BY <1>14 DEF Flush, MayFlush, Ended, streams, kafka, service, TypeOK, Budget
<1>15. CASE CloseClient
  BY <1>15 DEF CloseClient, streams, kafka, service, TypeOK, Budget
<1>16. CASE CloseReturns
  BY <1>16 DEF CloseReturns, Settled, streams, kafka, service, TypeOK, Budget
<1>17. CASE MainReturns
  BY <1>17 DEF MainReturns, streams, kafka, service, TypeOK, Budget
<1>18. CASE Exit
  BY <1>18 DEF Exit, Settled, streams, kafka, service, TypeOK, Budget
<1>19. CASE Signal
  BY <1>19 DEF Signal, StopConnecting, StopConnected, StopStreaming, CancelStreams, Ended,
       streams, kafka, service, TypeOK, Budget
<1>20. CASE UNCHANGED vars
  BY <1>20 DEF vars, streams, kafka, service, TypeOK, Budget
<1> QED BY <1>1, <1>2, <1>3, <1>4, <1>5, <1>6, <1>7, <1>8, <1>9, <1>10, <1>11, <1>12, <1>13,
       <1>14, <1>15, <1>16, <1>17, <1>18, <1>19, <1>20
  DEF Next, StreamStep, ThreadStep, BrokerStep, ServiceStep

(* The lifecycle.                                                          *)
LEMMA LifecycleStep ==
  ASSUME TypeOK, Lifecycle, [Next]_vars
  PROVE  Lifecycle'
<1>1. ASSUME NEW s \in Symbols, StreamConnects(s)
      PROVE  Lifecycle'
  BY <1>1 DEF StreamConnects, AfterConnect, streams, kafka, service, TypeOK, Lifecycle
<1>2. ASSUME NEW s \in Symbols, StreamFails(s)
      PROVE  Lifecycle'
  BY <1>2 DEF StreamFails, NextTurn, streams, kafka, service, TypeOK, Lifecycle
<1>3. ASSUME NEW s \in Symbols, StreamWakes(s)
      PROVE  Lifecycle'
  BY <1>3 DEF StreamWakes, streams, kafka, service, TypeOK, Lifecycle
<1>4. ASSUME NEW s \in Symbols, Receive(s)
      PROVE  Lifecycle'
  BY <1>4 DEF Receive, CanPublish, WhilePublishing, streams, kafka, service, TypeOK,
       Lifecycle
<1>5. ASSUME NEW s \in Symbols, Unwinds(s)
      PROVE  Lifecycle'
  BY <1>5 DEF Unwinds, streams, kafka, service, TypeOK, Lifecycle
<1>6. ASSUME NEW r \in Records, SendBuffers(r)
      PROVE  Lifecycle'
  BY <1>6 DEF SendBuffers, Resumes, Awaits, streams, kafka, service, TypeOK, Lifecycle
<1>7. ASSUME NEW r \in Records, SendFails(r)
      PROVE  Lifecycle'
  BY <1>7 DEF SendFails, Resumes, Awaits, streams, kafka, service, TypeOK, Lifecycle
<1>8. ASSUME NEW r \in Records, Deliver(r)
      PROVE  Lifecycle'
  BY <1>8 DEF Deliver, streams, kafka, service, TypeOK, Lifecycle
<1>9. ASSUME NEW r \in Records, Expire(r)
      PROVE  Lifecycle'
  BY <1>9 DEF Expire, streams, kafka, service, TypeOK, Lifecycle
<1>10. CASE Connected
  BY <1>10 DEF Connected, streams, kafka, service, TypeOK, Lifecycle
<1>11. CASE ConnectRaises
  BY <1>11 DEF ConnectRaises, streams, kafka, service, TypeOK, Lifecycle
<1>12. CASE StreamsStart
  BY <1>12 DEF StreamsStart, streams, kafka, service, TypeOK, Lifecycle
<1>13. CASE StatsEnd
  BY <1>13 DEF StatsEnd, streams, kafka, service, TypeOK, Lifecycle
<1>14. CASE Flush
  BY <1>14 DEF Flush, MayFlush, Ended, streams, kafka, service, TypeOK, Lifecycle
<1>15. CASE CloseClient
  BY <1>15 DEF CloseClient, streams, kafka, service, TypeOK, Lifecycle
<1>16. CASE CloseReturns
  BY <1>16 DEF CloseReturns, Settled, streams, kafka, service, TypeOK, Lifecycle
<1>17. CASE MainReturns
  BY <1>17 DEF MainReturns, streams, kafka, service, TypeOK, Lifecycle
<1>18. CASE Exit
  BY <1>18 DEF Exit, Settled, streams, kafka, service, TypeOK, Lifecycle
<1>19. CASE Signal
  BY <1>19 DEF Signal, StopConnecting, StopConnected, StopStreaming, CancelStreams, Ended,
       streams, kafka, service, TypeOK, Lifecycle
<1>20. CASE UNCHANGED vars
  BY <1>20 DEF vars, streams, kafka, service, TypeOK, Lifecycle
<1> QED BY <1>1, <1>2, <1>3, <1>4, <1>5, <1>6, <1>7, <1>8, <1>9, <1>10, <1>11, <1>12, <1>13,
       <1>14, <1>15, <1>16, <1>17, <1>18, <1>19, <1>20
  DEF Next, StreamStep, ThreadStep, BrokerStep, ServiceStep

(* The streams that stop() has caught.                                     *)
LEMMA CaughtStep ==
  ASSUME TypeOK, Lifecycle, Caught, [Next]_vars
  PROVE  Caught'
<1>1. ASSUME NEW s \in Symbols, StreamConnects(s)
      PROVE  Caught'
  BY <1>1 DEF StreamConnects, AfterConnect, streams, kafka, service, TypeOK, Lifecycle,
       Caught
<1>2. ASSUME NEW s \in Symbols, StreamFails(s)
      PROVE  Caught'
  BY <1>2 DEF StreamFails, NextTurn, streams, kafka, service, TypeOK, Lifecycle, Caught
<1>3. ASSUME NEW s \in Symbols, StreamWakes(s)
      PROVE  Caught'
  BY <1>3 DEF StreamWakes, streams, kafka, service, TypeOK, Lifecycle, Caught
<1>4. ASSUME NEW s \in Symbols, Receive(s)
      PROVE  Caught'
  BY <1>4 DEF Receive, CanPublish, WhilePublishing, streams, kafka, service, TypeOK,
       Lifecycle, Caught
<1>5. ASSUME NEW s \in Symbols, Unwinds(s)
      PROVE  Caught'
  BY <1>5 DEF Unwinds, streams, kafka, service, TypeOK, Lifecycle, Caught
<1>6. ASSUME NEW r \in Records, SendBuffers(r)
      PROVE  Caught'
  BY <1>6 DEF SendBuffers, Resumes, Awaits, streams, kafka, service, TypeOK, Lifecycle,
       Caught
<1>7. ASSUME NEW r \in Records, SendFails(r)
      PROVE  Caught'
  BY <1>7 DEF SendFails, Resumes, Awaits, streams, kafka, service, TypeOK, Lifecycle, Caught
<1>8. ASSUME NEW r \in Records, Deliver(r)
      PROVE  Caught'
  BY <1>8 DEF Deliver, streams, kafka, service, TypeOK, Lifecycle, Caught
<1>9. ASSUME NEW r \in Records, Expire(r)
      PROVE  Caught'
  BY <1>9 DEF Expire, streams, kafka, service, TypeOK, Lifecycle, Caught
<1>10. CASE Connected
  BY <1>10 DEF Connected, streams, kafka, service, TypeOK, Lifecycle, Caught
<1>11. CASE ConnectRaises
  BY <1>11 DEF ConnectRaises, streams, kafka, service, TypeOK, Lifecycle, Caught
<1>12. CASE StreamsStart
  BY <1>12 DEF StreamsStart, streams, kafka, service, TypeOK, Lifecycle, Caught
<1>13. CASE StatsEnd
  BY <1>13 DEF StatsEnd, streams, kafka, service, TypeOK, Lifecycle, Caught
<1>14. CASE Flush
  BY <1>14 DEF Flush, MayFlush, Ended, streams, kafka, service, TypeOK, Lifecycle, Caught
<1>15. CASE CloseClient
  BY <1>15 DEF CloseClient, streams, kafka, service, TypeOK, Lifecycle, Caught
<1>16. CASE CloseReturns
  BY <1>16 DEF CloseReturns, Settled, streams, kafka, service, TypeOK, Lifecycle, Caught
<1>17. CASE MainReturns
  BY <1>17 DEF MainReturns, streams, kafka, service, TypeOK, Lifecycle, Caught
<1>18. CASE Exit
  BY <1>18 DEF Exit, Settled, streams, kafka, service, TypeOK, Lifecycle, Caught
<1>19. CASE Signal
  BY <1>19 DEF Signal, StopConnecting, StopConnected, StopStreaming, CancelStreams, Ended,
       streams, kafka, service, TypeOK, Lifecycle, Caught
<1>20. CASE UNCHANGED vars
  BY <1>20 DEF vars, streams, kafka, service, TypeOK, Lifecycle, Caught
<1> QED BY <1>1, <1>2, <1>3, <1>4, <1>5, <1>6, <1>7, <1>8, <1>9, <1>10, <1>11, <1>12, <1>13,
       <1>14, <1>15, <1>16, <1>17, <1>18, <1>19, <1>20
  DEF Next, StreamStep, ThreadStep, BrokerStep, ServiceStep

(* The count of each stream.                                               *)
LEMMA BudgetStep ==
  ASSUME TypeOK, Lifecycle, Budget, [Next]_vars
  PROVE  Budget'
<1>1. ASSUME NEW s \in Symbols, StreamConnects(s)
      PROVE  Budget'
  BY <1>1 DEF StreamConnects, AfterConnect, streams, kafka, service, TypeOK, Lifecycle,
       Budget
<1>2. ASSUME NEW s \in Symbols, StreamFails(s)
      PROVE  Budget'
  BY <1>2 DEF StreamFails, NextTurn, streams, kafka, service, TypeOK, Lifecycle, Budget
<1>3. ASSUME NEW s \in Symbols, StreamWakes(s)
      PROVE  Budget'
  BY <1>3 DEF StreamWakes, streams, kafka, service, TypeOK, Lifecycle, Budget
<1>4. ASSUME NEW s \in Symbols, Receive(s)
      PROVE  Budget'
  BY <1>4 DEF Receive, CanPublish, WhilePublishing, streams, kafka, service, TypeOK,
       Lifecycle, Budget
<1>5. ASSUME NEW s \in Symbols, Unwinds(s)
      PROVE  Budget'
  BY <1>5 DEF Unwinds, streams, kafka, service, TypeOK, Lifecycle, Budget
<1>6. ASSUME NEW r \in Records, SendBuffers(r)
      PROVE  Budget'
  BY <1>6 DEF SendBuffers, Resumes, Awaits, streams, kafka, service, TypeOK, Lifecycle,
       Budget
<1>7. ASSUME NEW r \in Records, SendFails(r)
      PROVE  Budget'
  BY <1>7 DEF SendFails, Resumes, Awaits, streams, kafka, service, TypeOK, Lifecycle, Budget
<1>8. ASSUME NEW r \in Records, Deliver(r)
      PROVE  Budget'
  BY <1>8 DEF Deliver, streams, kafka, service, TypeOK, Lifecycle, Budget
<1>9. ASSUME NEW r \in Records, Expire(r)
      PROVE  Budget'
  BY <1>9 DEF Expire, streams, kafka, service, TypeOK, Lifecycle, Budget
<1>10. CASE Connected
  BY <1>10 DEF Connected, streams, kafka, service, TypeOK, Lifecycle, Budget
<1>11. CASE ConnectRaises
  BY <1>11 DEF ConnectRaises, streams, kafka, service, TypeOK, Lifecycle, Budget
<1>12. CASE StreamsStart
  BY <1>12 DEF StreamsStart, streams, kafka, service, TypeOK, Lifecycle, Budget
<1>13. CASE StatsEnd
  BY <1>13 DEF StatsEnd, streams, kafka, service, TypeOK, Lifecycle, Budget
<1>14. CASE Flush
  BY <1>14 DEF Flush, MayFlush, Ended, streams, kafka, service, TypeOK, Lifecycle, Budget
<1>15. CASE CloseClient
  BY <1>15 DEF CloseClient, streams, kafka, service, TypeOK, Lifecycle, Budget
<1>16. CASE CloseReturns
  BY <1>16 DEF CloseReturns, Settled, streams, kafka, service, TypeOK, Lifecycle, Budget
<1>17. CASE MainReturns
  BY <1>17 DEF MainReturns, streams, kafka, service, TypeOK, Lifecycle, Budget
<1>18. CASE Exit
  BY <1>18 DEF Exit, Settled, streams, kafka, service, TypeOK, Lifecycle, Budget
<1>19. CASE Signal
  BY <1>19 DEF Signal, StopConnecting, StopConnected, StopStreaming, CancelStreams, Ended,
       streams, kafka, service, TypeOK, Lifecycle, Budget
<1>20. CASE UNCHANGED vars
  BY <1>20 DEF vars, streams, kafka, service, TypeOK, Lifecycle, Budget
<1> QED BY <1>1, <1>2, <1>3, <1>4, <1>5, <1>6, <1>7, <1>8, <1>9, <1>10, <1>11, <1>12, <1>13,
       <1>14, <1>15, <1>16, <1>17, <1>18, <1>19, <1>20
  DEF Next, StreamStep, ThreadStep, BrokerStep, ServiceStep

(* When a stream gives up.                                                 *)
LEMMA GivesUpStep ==
  ASSUME TypeOK, Lifecycle, Budget, GivesUpInTime, [Next]_vars
  PROVE  GivesUpInTime'
<1>1. ASSUME NEW s \in Symbols, StreamConnects(s)
      PROVE  GivesUpInTime'
  BY <1>1 DEF StreamConnects, AfterConnect, streams, kafka, service, TypeOK, Lifecycle,
       Budget, GivesUpInTime
<1>2. ASSUME NEW s \in Symbols, StreamFails(s)
      PROVE  GivesUpInTime'
  BY <1>2 DEF StreamFails, NextTurn, streams, kafka, service, TypeOK, Lifecycle, Budget,
       GivesUpInTime
<1>3. ASSUME NEW s \in Symbols, StreamWakes(s)
      PROVE  GivesUpInTime'
  BY <1>3 DEF StreamWakes, streams, kafka, service, TypeOK, Lifecycle, Budget, GivesUpInTime
<1>4. ASSUME NEW s \in Symbols, Receive(s)
      PROVE  GivesUpInTime'
  BY <1>4 DEF Receive, CanPublish, WhilePublishing, streams, kafka, service, TypeOK,
       Lifecycle, Budget, GivesUpInTime
<1>5. ASSUME NEW s \in Symbols, Unwinds(s)
      PROVE  GivesUpInTime'
  BY <1>5 DEF Unwinds, streams, kafka, service, TypeOK, Lifecycle, Budget, GivesUpInTime
<1>6. ASSUME NEW r \in Records, SendBuffers(r)
      PROVE  GivesUpInTime'
  BY <1>6 DEF SendBuffers, Resumes, Awaits, streams, kafka, service, TypeOK, Lifecycle,
       Budget, GivesUpInTime
<1>7. ASSUME NEW r \in Records, SendFails(r)
      PROVE  GivesUpInTime'
  BY <1>7 DEF SendFails, Resumes, Awaits, streams, kafka, service, TypeOK, Lifecycle,
       Budget, GivesUpInTime
<1>8. ASSUME NEW r \in Records, Deliver(r)
      PROVE  GivesUpInTime'
  BY <1>8 DEF Deliver, streams, kafka, service, TypeOK, Lifecycle, Budget, GivesUpInTime
<1>9. ASSUME NEW r \in Records, Expire(r)
      PROVE  GivesUpInTime'
  BY <1>9 DEF Expire, streams, kafka, service, TypeOK, Lifecycle, Budget, GivesUpInTime
<1>10. CASE Connected
  BY <1>10 DEF Connected, streams, kafka, service, TypeOK, Lifecycle, Budget, GivesUpInTime
<1>11. CASE ConnectRaises
  BY <1>11 DEF ConnectRaises, streams, kafka, service, TypeOK, Lifecycle, Budget,
       GivesUpInTime
<1>12. CASE StreamsStart
  BY <1>12 DEF StreamsStart, streams, kafka, service, TypeOK, Lifecycle, Budget,
       GivesUpInTime
<1>13. CASE StatsEnd
  BY <1>13 DEF StatsEnd, streams, kafka, service, TypeOK, Lifecycle, Budget, GivesUpInTime
<1>14. CASE Flush
  BY <1>14 DEF Flush, MayFlush, Ended, streams, kafka, service, TypeOK, Lifecycle, Budget,
       GivesUpInTime
<1>15. CASE CloseClient
  BY <1>15 DEF CloseClient, streams, kafka, service, TypeOK, Lifecycle, Budget,
       GivesUpInTime
<1>16. CASE CloseReturns
  BY <1>16 DEF CloseReturns, Settled, streams, kafka, service, TypeOK, Lifecycle, Budget,
       GivesUpInTime
<1>17. CASE MainReturns
  BY <1>17 DEF MainReturns, streams, kafka, service, TypeOK, Lifecycle, Budget,
       GivesUpInTime
<1>18. CASE Exit
  BY <1>18 DEF Exit, Settled, streams, kafka, service, TypeOK, Lifecycle, Budget,
       GivesUpInTime
<1>19. CASE Signal
  BY <1>19 DEF Signal, StopConnecting, StopConnected, StopStreaming, CancelStreams, Ended,
       streams, kafka, service, TypeOK, Lifecycle, Budget, GivesUpInTime
<1>20. CASE UNCHANGED vars
  BY <1>20 DEF vars, streams, kafka, service, TypeOK, Lifecycle, Budget, GivesUpInTime
<1> QED BY <1>1, <1>2, <1>3, <1>4, <1>5, <1>6, <1>7, <1>8, <1>9, <1>10, <1>11, <1>12, <1>13,
       <1>14, <1>15, <1>16, <1>17, <1>18, <1>19, <1>20
  DEF Next, StreamStep, ThreadStep, BrokerStep, ServiceStep

(* What is in a thread.                                                    *)
LEMMA InThreadStep ==
  ASSUME TypeOK, Lifecycle, InThread, Taken, [Next]_vars
  PROVE  InThread'
<1>1. ASSUME NEW s \in Symbols, StreamConnects(s)
      PROVE  InThread'
  BY <1>1 DEF StreamConnects, AfterConnect, streams, kafka, service, TypeOK, Lifecycle,
       InThread, Taken, Records
<1>2. ASSUME NEW s \in Symbols, StreamFails(s)
      PROVE  InThread'
  BY <1>2 DEF StreamFails, NextTurn, streams, kafka, service, TypeOK, Lifecycle, InThread,
       Taken, Records
<1>3. ASSUME NEW s \in Symbols, StreamWakes(s)
      PROVE  InThread'
  BY <1>3 DEF StreamWakes, streams, kafka, service, TypeOK, Lifecycle, InThread, Taken,
       Records
<1>4. ASSUME NEW s \in Symbols, Receive(s)
      PROVE  InThread'
  <2> DEFINE new == <<s, received[s] + 1>>
  <2>1. received[s] \in Nat /\ stream[s] = "listening"
    BY <1>4 DEF Receive, TypeOK
  <2>2. /\ received' = [received EXCEPT ![s] = received[s] + 1]
        /\ received \in [Symbols -> 0 .. MaxRecords]
        /\ \A q \in Symbols : q # s => stream'[q] = stream[q]
        /\ reported' = reported
        /\ \/ threads' = threads
           \/ threads' = threads \cup {new} /\ stream'[s] = "sending"
    BY <1>4 DEF Receive, WhilePublishing, TypeOK
  <2>3. ASSUME NEW q \in threads
        PROVE  /\ q[2] = received'[q[1]]
               /\ stream'[q[1]] \in {"sending", "cancelled", "done"}
               /\ q \notin reported'
    <3>1. /\ q[2] = received[q[1]] /\ q \notin reported
          /\ stream[q[1]] \in {"sending", "cancelled", "done"}
      BY DEF InThread
    <3>2. q[1] \in Symbols /\ q[1] # s
      BY <2>1, <3>1 DEF TypeOK, Records
    <3> QED BY <2>2, <3>1, <3>2
  <2>4. new \notin reported
    <3>1. new[1] = s /\ new[2] = received[s] + 1
      OBVIOUS
    <3> HIDE DEF new
    <3> QED BY <2>1, <3>1 DEF Taken
  <2>5. new[2] = received'[new[1]]
    BY <2>1, <2>2
  <2>6. ASSUME NEW q \in threads'
        PROVE  /\ q[2] = received'[q[1]]
               /\ stream'[q[1]] \in {"sending", "cancelled", "done"}
               /\ q \notin reported'
    <3>1. CASE q \in threads
      BY <2>3, <3>1
    <3>2. CASE q = new /\ stream'[s] = "sending"
      <4>1. new[1] = s
        OBVIOUS
      <4> HIDE DEF new
      <4> QED BY <2>2, <2>4, <2>5, <3>2, <4>1
    <3> QED BY <2>2, <3>1, <3>2
  <2> QED BY <2>6 DEF InThread
<1>5. ASSUME NEW s \in Symbols, Unwinds(s)
      PROVE  InThread'
  BY <1>5 DEF Unwinds, streams, kafka, service, TypeOK, Lifecycle, InThread, Taken, Records
<1>6. ASSUME NEW r \in Records, SendBuffers(r)
      PROVE  InThread'
  BY <1>6 DEF SendBuffers, Resumes, Awaits, streams, kafka, service, TypeOK, Lifecycle,
       InThread, Taken, Records
<1>7. ASSUME NEW r \in Records, SendFails(r)
      PROVE  InThread'
  <2>1. ASSUME NEW q \in threads'
        PROVE  /\ q[2] = received'[q[1]]
               /\ stream'[q[1]] \in {"sending", "cancelled", "done"}
               /\ q \notin reported'
    <3>1. q \in threads /\ q # r /\ r \in threads
      BY <1>7 DEF SendFails
    <3>2. /\ q[2] = received[q[1]] /\ r[2] = received[r[1]] /\ q \notin reported
          /\ stream[q[1]] \in {"sending", "cancelled", "done"}
      BY <3>1 DEF InThread
    <3>3. q[1] \in Symbols /\ q[1] # r[1]
      <4>1. q \in Records /\ q = <<q[1], q[2]>> /\ r = <<r[1], r[2]>>
        BY <3>1 DEF TypeOK, Records
      <4>2. q[1] = r[1] => q[2] = r[2]
        BY <3>2
      <4> QED BY <3>1, <4>1, <4>2 DEF Records
    <3>4. stream'[q[1]] = stream[q[1]] /\ received' = received /\ reported' = reported
      BY <1>7, <3>3 DEF SendFails, Resumes, TypeOK
    <3> QED BY <3>2, <3>4
  <2> QED BY <2>1 DEF InThread
<1>8. ASSUME NEW r \in Records, Deliver(r)
      PROVE  InThread'
  BY <1>8 DEF Deliver, streams, kafka, service, TypeOK, Lifecycle, InThread, Taken, Records
<1>9. ASSUME NEW r \in Records, Expire(r)
      PROVE  InThread'
  BY <1>9 DEF Expire, streams, kafka, service, TypeOK, Lifecycle, InThread, Taken, Records
<1>10. CASE Connected
  BY <1>10 DEF Connected, streams, kafka, service, TypeOK, Lifecycle, InThread, Taken,
       Records
<1>11. CASE ConnectRaises
  BY <1>11 DEF ConnectRaises, streams, kafka, service, TypeOK, Lifecycle, InThread, Taken,
       Records
<1>12. CASE StreamsStart
  BY <1>12 DEF StreamsStart, streams, kafka, service, TypeOK, Lifecycle, InThread, Taken,
       Records
<1>13. CASE StatsEnd
  BY <1>13 DEF StatsEnd, streams, kafka, service, TypeOK, Lifecycle, InThread, Taken,
       Records
<1>14. CASE Flush
  BY <1>14 DEF Flush, MayFlush, Ended, streams, kafka, service, TypeOK, Lifecycle, InThread,
       Taken, Records
<1>15. CASE CloseClient
  BY <1>15 DEF CloseClient, streams, kafka, service, TypeOK, Lifecycle, InThread, Taken,
       Records
<1>16. CASE CloseReturns
  BY <1>16 DEF CloseReturns, Settled, streams, kafka, service, TypeOK, Lifecycle, InThread,
       Taken, Records
<1>17. CASE MainReturns
  BY <1>17 DEF MainReturns, streams, kafka, service, TypeOK, Lifecycle, InThread, Taken,
       Records
<1>18. CASE Exit
  BY <1>18 DEF Exit, Settled, streams, kafka, service, TypeOK, Lifecycle, InThread, Taken,
       Records
<1>19. CASE Signal
  BY <1>19 DEF Signal, StopConnecting, StopConnected, StopStreaming, CancelStreams, Ended,
       streams, kafka, service, TypeOK, Lifecycle, InThread, Taken, Records
<1>20. CASE UNCHANGED vars
  BY <1>20 DEF vars, streams, kafka, service, TypeOK, Lifecycle, InThread, Taken, Records
<1> QED BY <1>1, <1>2, <1>3, <1>4, <1>5, <1>6, <1>7, <1>8, <1>9, <1>10, <1>11, <1>12, <1>13,
       <1>14, <1>15, <1>16, <1>17, <1>18, <1>19, <1>20
  DEF Next, StreamStep, ThreadStep, BrokerStep, ServiceStep

(* What is reported was taken.                                             *)
LEMMA TakenStep ==
  ASSUME TypeOK, InThread, Taken, [Next]_vars
  PROVE  Taken'
<1>1. ASSUME NEW s \in Symbols, StreamConnects(s)
      PROVE  Taken'
  BY <1>1 DEF StreamConnects, AfterConnect, streams, kafka, service, TypeOK, InThread,
       Taken, Records
<1>2. ASSUME NEW s \in Symbols, StreamFails(s)
      PROVE  Taken'
  BY <1>2 DEF StreamFails, NextTurn, streams, kafka, service, TypeOK, InThread, Taken,
       Records
<1>3. ASSUME NEW s \in Symbols, StreamWakes(s)
      PROVE  Taken'
  BY <1>3 DEF StreamWakes, streams, kafka, service, TypeOK, InThread, Taken, Records
<1>4. ASSUME NEW s \in Symbols, Receive(s)
      PROVE  Taken'
  BY <1>4 DEF Receive, CanPublish, WhilePublishing, streams, kafka, service, TypeOK,
       InThread, Taken, Records
<1>5. ASSUME NEW s \in Symbols, Unwinds(s)
      PROVE  Taken'
  BY <1>5 DEF Unwinds, streams, kafka, service, TypeOK, InThread, Taken, Records
<1>6. ASSUME NEW r \in Records, SendBuffers(r)
      PROVE  Taken'
  BY <1>6 DEF SendBuffers, Resumes, Awaits, streams, kafka, service, TypeOK, InThread,
       Taken, Records
<1>7. ASSUME NEW r \in Records, SendFails(r)
      PROVE  Taken'
  BY <1>7 DEF SendFails, Resumes, Awaits, streams, kafka, service, TypeOK, InThread, Taken,
       Records
<1>8. ASSUME NEW r \in Records, Deliver(r)
      PROVE  Taken'
  BY <1>8 DEF Deliver, streams, kafka, service, TypeOK, InThread, Taken, Records
<1>9. ASSUME NEW r \in Records, Expire(r)
      PROVE  Taken'
  BY <1>9 DEF Expire, streams, kafka, service, TypeOK, InThread, Taken, Records
<1>10. CASE Connected
  BY <1>10 DEF Connected, streams, kafka, service, TypeOK, InThread, Taken, Records
<1>11. CASE ConnectRaises
  BY <1>11 DEF ConnectRaises, streams, kafka, service, TypeOK, InThread, Taken, Records
<1>12. CASE StreamsStart
  BY <1>12 DEF StreamsStart, streams, kafka, service, TypeOK, InThread, Taken, Records
<1>13. CASE StatsEnd
  BY <1>13 DEF StatsEnd, streams, kafka, service, TypeOK, InThread, Taken, Records
<1>14. CASE Flush
  BY <1>14 DEF Flush, MayFlush, Ended, streams, kafka, service, TypeOK, InThread, Taken,
       Records
<1>15. CASE CloseClient
  BY <1>15 DEF CloseClient, streams, kafka, service, TypeOK, InThread, Taken, Records
<1>16. CASE CloseReturns
  BY <1>16 DEF CloseReturns, Settled, streams, kafka, service, TypeOK, InThread, Taken,
       Records
<1>17. CASE MainReturns
  BY <1>17 DEF MainReturns, streams, kafka, service, TypeOK, InThread, Taken, Records
<1>18. CASE Exit
  BY <1>18 DEF Exit, Settled, streams, kafka, service, TypeOK, InThread, Taken, Records
<1>19. CASE Signal
  BY <1>19 DEF Signal, StopConnecting, StopConnected, StopStreaming, CancelStreams, Ended,
       streams, kafka, service, TypeOK, InThread, Taken, Records
<1>20. CASE UNCHANGED vars
  BY <1>20 DEF vars, streams, kafka, service, TypeOK, InThread, Taken, Records
<1> QED BY <1>1, <1>2, <1>3, <1>4, <1>5, <1>6, <1>7, <1>8, <1>9, <1>10, <1>11, <1>12, <1>13,
       <1>14, <1>15, <1>16, <1>17, <1>18, <1>19, <1>20
  DEF Next, StreamStep, ThreadStep, BrokerStep, ServiceStep

(* What stop() waits for.                                                  *)
LEMMA SettlingStep ==
  ASSUME TypeOK, Lifecycle, Caught, InThread, Settling, [Next]_vars
  PROVE  Settling'
<1>1. ASSUME NEW s \in Symbols, StreamConnects(s)
      PROVE  Settling'
  BY <1>1 DEF StreamConnects, AfterConnect, streams, kafka, service, TypeOK, Lifecycle,
       Caught, InThread, Settling, Records
<1>2. ASSUME NEW s \in Symbols, StreamFails(s)
      PROVE  Settling'
  BY <1>2 DEF StreamFails, NextTurn, streams, kafka, service, TypeOK, Lifecycle, Caught,
       InThread, Settling, Records
<1>3. ASSUME NEW s \in Symbols, StreamWakes(s)
      PROVE  Settling'
  BY <1>3 DEF StreamWakes, streams, kafka, service, TypeOK, Lifecycle, Caught, InThread,
       Settling, Records
<1>4. ASSUME NEW s \in Symbols, Receive(s)
      PROVE  Settling'
  BY <1>4 DEF Receive, CanPublish, WhilePublishing, streams, kafka, service, TypeOK,
       Lifecycle, Caught, InThread, Settling, Records
<1>5. ASSUME NEW s \in Symbols, Unwinds(s)
      PROVE  Settling'
  BY <1>5 DEF Unwinds, streams, kafka, service, TypeOK, Lifecycle, Caught, InThread,
       Settling, Records
<1>6. ASSUME NEW r \in Records, SendBuffers(r)
      PROVE  Settling'
  BY <1>6 DEF SendBuffers, Resumes, Awaits, streams, kafka, service, TypeOK, Lifecycle,
       Caught, InThread, Settling, Records
<1>7. ASSUME NEW r \in Records, SendFails(r)
      PROVE  Settling'
  BY <1>7 DEF SendFails, Resumes, Awaits, streams, kafka, service, TypeOK, Lifecycle,
       Caught, InThread, Settling, Records
<1>8. ASSUME NEW r \in Records, Deliver(r)
      PROVE  Settling'
  BY <1>8 DEF Deliver, streams, kafka, service, TypeOK, Lifecycle, Caught, InThread,
       Settling, Records
<1>9. ASSUME NEW r \in Records, Expire(r)
      PROVE  Settling'
  BY <1>9 DEF Expire, streams, kafka, service, TypeOK, Lifecycle, Caught, InThread,
       Settling, Records
<1>10. CASE Connected
  BY <1>10 DEF Connected, streams, kafka, service, TypeOK, Lifecycle, Caught, InThread,
       Settling, Records
<1>11. CASE ConnectRaises
  BY <1>11 DEF ConnectRaises, streams, kafka, service, TypeOK, Lifecycle, Caught, InThread,
       Settling, Records
<1>12. CASE StreamsStart
  BY <1>12 DEF StreamsStart, streams, kafka, service, TypeOK, Lifecycle, Caught, InThread,
       Settling, Records
<1>13. CASE StatsEnd
  BY <1>13 DEF StatsEnd, streams, kafka, service, TypeOK, Lifecycle, Caught, InThread,
       Settling, Records
<1>14. CASE Flush
  BY <1>14 DEF Flush, MayFlush, Ended, streams, kafka, service, TypeOK, Lifecycle, Caught,
       InThread, Settling, Records
<1>15. CASE CloseClient
  BY <1>15 DEF CloseClient, streams, kafka, service, TypeOK, Lifecycle, Caught, InThread,
       Settling, Records
<1>16. CASE CloseReturns
  BY <1>16 DEF CloseReturns, Settled, streams, kafka, service, TypeOK, Lifecycle, Caught,
       InThread, Settling, Records
<1>17. CASE MainReturns
  BY <1>17 DEF MainReturns, streams, kafka, service, TypeOK, Lifecycle, Caught, InThread,
       Settling, Records
<1>18. CASE Exit
  BY <1>18 DEF Exit, Settled, streams, kafka, service, TypeOK, Lifecycle, Caught, InThread,
       Settling, Records
<1>19. CASE Signal
  BY <1>19 DEF Signal, StopConnecting, StopConnected, StopStreaming, CancelStreams, Ended,
       streams, kafka, service, TypeOK, Lifecycle, Caught, InThread, Settling, Records
<1>20. CASE UNCHANGED vars
  BY <1>20 DEF vars, streams, kafka, service, TypeOK, Lifecycle, Caught, InThread, Settling,
       Records
<1> QED BY <1>1, <1>2, <1>3, <1>4, <1>5, <1>6, <1>7, <1>8, <1>9, <1>10, <1>11, <1>12, <1>13,
       <1>14, <1>15, <1>16, <1>17, <1>18, <1>19, <1>20
  DEF Next, StreamStep, ThreadStep, BrokerStep, ServiceStep

(* What was submitted was taken.                                           *)
LEMMA SubmittedStep ==
  ASSUME TypeOK, InThread, Submitted, [Next]_vars
  PROVE  Submitted'
<1>1. ASSUME NEW s \in Symbols, StreamConnects(s)
      PROVE  Submitted'
  BY <1>1 DEF StreamConnects, AfterConnect, streams, kafka, service, TypeOK, Submitted
<1>2. ASSUME NEW s \in Symbols, StreamFails(s)
      PROVE  Submitted'
  BY <1>2 DEF StreamFails, NextTurn, streams, kafka, service, TypeOK, Submitted
<1>3. ASSUME NEW s \in Symbols, StreamWakes(s)
      PROVE  Submitted'
  BY <1>3 DEF StreamWakes, streams, kafka, service, TypeOK, Submitted
<1>4. ASSUME NEW s \in Symbols, Receive(s)
      PROVE  Submitted'
  <2> DEFINE new == <<s, received[s] + 1>>
  <2>1. /\ submitted' = submitted /\ threads' \subseteq threads \cup {new}
        /\ received' = [received EXCEPT ![s] = received[s] + 1]
        /\ received \in [Symbols -> 0 .. MaxRecords]
        /\ submitted \in [Symbols -> Seq(Nat)]
    BY <1>4 DEF Receive, kafka, TypeOK
  <2>2. ASSUME NEW q \in Symbols, NEW i \in 1 .. Len(submitted[q])
        PROVE  /\ submitted[q][i] <= received'[q]
               /\ <<q, received'[q]>> \in threads' => submitted[q][i] < received'[q]
    <3>1. submitted[q][i] <= received[q] /\ submitted[q][i] \in Nat /\ received[q] \in Nat
      <4>1. submitted[q] \in Seq(Nat)
        BY <2>1
      <4>2. submitted[q][i] \in Nat
        BY <4>1
      <4>3. submitted[q][i] <= received[q]
        BY DEF Submitted
      <4> QED BY <2>1, <4>2, <4>3
    <3>2. CASE q = s
      BY <2>1, <3>1, <3>2
    <3>3. CASE q # s
      <4>1. received'[q] = received[q] /\ <<q, received[q]>> # new
        BY <2>1, <3>3
      <4> QED BY <2>1, <3>1, <4>1 DEF Submitted
    <3> QED BY <3>2, <3>3
  <2> QED BY <2>1, <2>2 DEF Submitted
<1>5. ASSUME NEW s \in Symbols, Unwinds(s)
      PROVE  Submitted'
  BY <1>5 DEF Unwinds, streams, kafka, service, TypeOK, Submitted
<1>6. ASSUME NEW r \in Records, SendBuffers(r)
      PROVE  Submitted'
  <2>1. r[1] \in Symbols /\ r[2] \in Nat /\ r = <<r[1], r[2]>>
    BY DEF Records
  <2>2. received' = received /\ threads' = threads \ {r} /\ r[2] = received[r[1]]
    BY <1>6 DEF SendBuffers, InThread
  <2>3. ASSUME NEW s \in Symbols, s # r[1]
        PROVE  submitted'[s] = submitted[s] /\ (<<s, received[s]>> \in threads' => <<s,
               received[s]>> \in threads)
    BY <1>6, <2>1, <2>2, <2>3 DEF SendBuffers, TypeOK
  <2>4. /\ submitted'[r[1]] = Append(submitted[r[1]], r[2])
        /\ <<r[1], received[r[1]]>> \in threads /\ <<r[1], received[r[1]]>> \notin threads'
    BY <1>6, <2>1, <2>2 DEF SendBuffers, TypeOK
  <2>5. submitted[r[1]] \in Seq(Nat) /\ received[r[1]] \in Nat
    BY <2>1 DEF TypeOK
  <2>6. ASSUME NEW i \in 1 .. Len(submitted'[r[1]])
        PROVE  submitted'[r[1]][i] <= received[r[1]]
    <3>1. CASE i = Len(submitted[r[1]]) + 1
      BY <2>2, <2>4, <2>5, <3>1
    <3>2. CASE i \in 1 .. Len(submitted[r[1]])
      <4>1. submitted'[r[1]][i] = submitted[r[1]][i]
        BY <2>1, <2>4, <2>5, <3>2
      <4> QED BY <2>1, <3>2, <4>1 DEF Submitted
    <3> QED BY <2>4, <2>5, <3>1, <3>2
  <2>7. ASSUME NEW s \in Symbols, NEW i \in 1 .. Len(submitted'[s])
        PROVE  /\ submitted'[s][i] <= received'[s]
               /\ <<s, received'[s]>> \in threads' => submitted'[s][i] < received'[s]
    <3>1. CASE s = r[1]
      BY <2>2, <2>4, <2>6, <3>1
    <3>2. CASE s # r[1]
      BY <2>2, <2>3, <3>2 DEF Submitted
    <3> QED BY <3>1, <3>2
  <2> QED BY <2>7 DEF Submitted
<1>7. ASSUME NEW r \in Records, SendFails(r)
      PROVE  Submitted'
  BY <1>7 DEF SendFails, Resumes, Awaits, streams, kafka, service, TypeOK, Submitted
<1>8. ASSUME NEW r \in Records, Deliver(r)
      PROVE  Submitted'
  BY <1>8 DEF Deliver, streams, kafka, service, TypeOK, Submitted
<1>9. ASSUME NEW r \in Records, Expire(r)
      PROVE  Submitted'
  BY <1>9 DEF Expire, streams, kafka, service, TypeOK, Submitted
<1>10. CASE Connected
  BY <1>10 DEF Connected, streams, kafka, service, TypeOK, Submitted
<1>11. CASE ConnectRaises
  BY <1>11 DEF ConnectRaises, streams, kafka, service, TypeOK, Submitted
<1>12. CASE StreamsStart
  BY <1>12 DEF StreamsStart, streams, kafka, service, TypeOK, Submitted
<1>13. CASE StatsEnd
  BY <1>13 DEF StatsEnd, streams, kafka, service, TypeOK, Submitted
<1>14. CASE Flush
  BY <1>14 DEF Flush, MayFlush, Ended, streams, kafka, service, TypeOK, Submitted
<1>15. CASE CloseClient
  BY <1>15 DEF CloseClient, streams, kafka, service, TypeOK, Submitted
<1>16. CASE CloseReturns
  BY <1>16 DEF CloseReturns, Settled, streams, kafka, service, TypeOK, Submitted
<1>17. CASE MainReturns
  BY <1>17 DEF MainReturns, streams, kafka, service, TypeOK, Submitted
<1>18. CASE Exit
  BY <1>18 DEF Exit, Settled, streams, kafka, service, TypeOK, Submitted
<1>19. CASE Signal
  BY <1>19 DEF Signal, StopConnecting, StopConnected, StopStreaming, CancelStreams, Ended,
       streams, kafka, service, TypeOK, Submitted
<1>20. CASE UNCHANGED vars
  BY <1>20 DEF vars, streams, kafka, service, TypeOK, Submitted
<1> QED BY <1>1, <1>2, <1>3, <1>4, <1>5, <1>6, <1>7, <1>8, <1>9, <1>10, <1>11, <1>12, <1>13,
       <1>14, <1>15, <1>16, <1>17, <1>18, <1>19, <1>20
  DEF Next, StreamStep, ThreadStep, BrokerStep, ServiceStep

(* The order of what was submitted.                                        *)
LEMMA OrderStep ==
  ASSUME TypeOK, InThread, Submitted, SubmittedInOrder, [Next]_vars
  PROVE  SubmittedInOrder'
<1>1. ASSUME NEW s \in Symbols, StreamConnects(s)
      PROVE  SubmittedInOrder'
  BY <1>1 DEF StreamConnects, AfterConnect, streams, kafka, service, TypeOK,
       SubmittedInOrder
<1>2. ASSUME NEW s \in Symbols, StreamFails(s)
      PROVE  SubmittedInOrder'
  BY <1>2 DEF StreamFails, NextTurn, streams, kafka, service, TypeOK, SubmittedInOrder
<1>3. ASSUME NEW s \in Symbols, StreamWakes(s)
      PROVE  SubmittedInOrder'
  BY <1>3 DEF StreamWakes, streams, kafka, service, TypeOK, SubmittedInOrder
<1>4. ASSUME NEW s \in Symbols, Receive(s)
      PROVE  SubmittedInOrder'
  BY <1>4 DEF Receive, CanPublish, WhilePublishing, streams, kafka, service, TypeOK,
       SubmittedInOrder
<1>5. ASSUME NEW s \in Symbols, Unwinds(s)
      PROVE  SubmittedInOrder'
  BY <1>5 DEF Unwinds, streams, kafka, service, TypeOK, SubmittedInOrder
<1>6. ASSUME NEW r \in Records, SendBuffers(r)
      PROVE  SubmittedInOrder'
  <2>1. r[1] \in Symbols /\ r[2] \in Nat /\ r = <<r[1], r[2]>>
    BY DEF Records
  <2>2. r \in threads /\ r[2] = received[r[1]]
    BY <1>6 DEF SendBuffers, InThread
  <2>3. submitted[r[1]] \in Seq(Nat) /\ submitted'[r[1]] = Append(submitted[r[1]], r[2])
    BY <1>6, <2>1 DEF SendBuffers, TypeOK
  <2>4. \A i \in 1 .. Len(submitted[r[1]]) : submitted[r[1]][i] < r[2]
    BY <2>1, <2>2 DEF Submitted
  <2>5. ASSUME NEW i \in 1 .. Len(submitted'[r[1]]), NEW j \in 1 .. Len(submitted'[r[1]]), i
         < j
        PROVE  submitted'[r[1]][i] < submitted'[r[1]][j]
    <3>1. i \in 1 .. Len(submitted[r[1]]) /\ submitted'[r[1]][i] = submitted[r[1]][i]
      BY <2>1, <2>3, <2>5
    <3>2. CASE j = Len(submitted[r[1]]) + 1
      <4>1. submitted'[r[1]][j] = r[2]
        BY <2>1, <2>3, <3>2
      <4> QED BY <2>4, <3>1, <4>1
    <3>3. CASE j \in 1 .. Len(submitted[r[1]])
      <4>1. submitted'[r[1]][j] = submitted[r[1]][j]
        BY <2>1, <2>3, <3>3
      <4> QED BY <2>1, <2>5, <3>1, <3>3, <4>1 DEF SubmittedInOrder
    <3> QED BY <2>3, <3>2, <3>3
  <2>6. \A s \in Symbols : s # r[1] => submitted'[s] = submitted[s]
    BY <1>6, <2>1 DEF SendBuffers, TypeOK
  <2>7. ASSUME NEW s \in Symbols, NEW i \in 1 .. Len(submitted'[s]),
               NEW j \in 1 .. Len(submitted'[s]), i < j
        PROVE  submitted'[s][i] < submitted'[s][j]
    <3>1. CASE s = r[1]
      BY <2>5, <2>7, <3>1
    <3>2. CASE s # r[1]
      BY <2>6, <2>7, <3>2 DEF SubmittedInOrder
    <3> QED BY <3>1, <3>2
  <2> QED BY <2>7 DEF SubmittedInOrder
<1>7. ASSUME NEW r \in Records, SendFails(r)
      PROVE  SubmittedInOrder'
  BY <1>7 DEF SendFails, Resumes, Awaits, streams, kafka, service, TypeOK, SubmittedInOrder
<1>8. ASSUME NEW r \in Records, Deliver(r)
      PROVE  SubmittedInOrder'
  BY <1>8 DEF Deliver, streams, kafka, service, TypeOK, SubmittedInOrder
<1>9. ASSUME NEW r \in Records, Expire(r)
      PROVE  SubmittedInOrder'
  BY <1>9 DEF Expire, streams, kafka, service, TypeOK, SubmittedInOrder
<1>10. CASE Connected
  BY <1>10 DEF Connected, streams, kafka, service, TypeOK, SubmittedInOrder
<1>11. CASE ConnectRaises
  BY <1>11 DEF ConnectRaises, streams, kafka, service, TypeOK, SubmittedInOrder
<1>12. CASE StreamsStart
  BY <1>12 DEF StreamsStart, streams, kafka, service, TypeOK, SubmittedInOrder
<1>13. CASE StatsEnd
  BY <1>13 DEF StatsEnd, streams, kafka, service, TypeOK, SubmittedInOrder
<1>14. CASE Flush
  BY <1>14 DEF Flush, MayFlush, Ended, streams, kafka, service, TypeOK, SubmittedInOrder
<1>15. CASE CloseClient
  BY <1>15 DEF CloseClient, streams, kafka, service, TypeOK, SubmittedInOrder
<1>16. CASE CloseReturns
  BY <1>16 DEF CloseReturns, Settled, streams, kafka, service, TypeOK, SubmittedInOrder
<1>17. CASE MainReturns
  BY <1>17 DEF MainReturns, streams, kafka, service, TypeOK, SubmittedInOrder
<1>18. CASE Exit
  BY <1>18 DEF Exit, Settled, streams, kafka, service, TypeOK, SubmittedInOrder
<1>19. CASE Signal
  BY <1>19 DEF Signal, StopConnecting, StopConnected, StopStreaming, CancelStreams, Ended,
       streams, kafka, service, TypeOK, SubmittedInOrder
<1>20. CASE UNCHANGED vars
  BY <1>20 DEF vars, streams, kafka, service, TypeOK, SubmittedInOrder
<1> QED BY <1>1, <1>2, <1>3, <1>4, <1>5, <1>6, <1>7, <1>8, <1>9, <1>10, <1>11, <1>12, <1>13,
       <1>14, <1>15, <1>16, <1>17, <1>18, <1>19, <1>20
  DEF Next, StreamStep, ThreadStep, BrokerStep, ServiceStep

(* What the service knows of each record.                                  *)
LEMMA FateStep ==
  ASSUME TypeOK, Lifecycle, InThread, FateKnown, [Next]_vars
  PROVE  FateKnown'
<1>1. ASSUME NEW s \in Symbols, StreamConnects(s)
      PROVE  FateKnown'
  <2>1. \A q \in Symbols : Untold(q)' = Untold(q) /\ received'[q] = received[q]
    BY <1>1 DEF Untold, StreamConnects, streams, kafka, service
  <2> QED BY <1>1, <2>1 DEF FateKnown, TypeOK, StreamConnects, AfterConnect, streams, kafka,
         service
<1>2. ASSUME NEW s \in Symbols, StreamFails(s)
      PROVE  FateKnown'
  <2>1. \A q \in Symbols : Untold(q)' = Untold(q) /\ received'[q] = received[q]
    BY <1>2 DEF Untold, StreamFails, streams, kafka, service
  <2> QED BY <1>2, <2>1 DEF FateKnown, TypeOK, StreamFails, NextTurn, streams, kafka,
         service
<1>3. ASSUME NEW s \in Symbols, StreamWakes(s)
      PROVE  FateKnown'
  <2>1. \A q \in Symbols : Untold(q)' = Untold(q) /\ received'[q] = received[q]
    BY <1>3 DEF Untold, StreamWakes, streams, kafka, service
  <2> QED BY <1>3, <2>1 DEF FateKnown, TypeOK, StreamWakes, streams, kafka, service
<1>4. ASSUME NEW s \in Symbols, Receive(s)
      PROVE  FateKnown'
  <2> DEFINE n == received[s] + 1
  <2>1. Untold(s) = {} /\ received[s] \in Nat
    <3>1. stream[s] = "listening"
      BY <1>4 DEF Receive
    <3>2. Untold(s) = {}
      BY <3>1 DEF FateKnown
    <3> QED BY <3>2 DEF TypeOK
  <2>2. /\ received'[s] = n /\ reported' = reported
        /\ \/ <<s, n>> \in Malformed \cup refused' /\ refused \subseteq refused'
           \/ stream'[s] = "sending" /\ refused' = refused
    BY <1>4 DEF Receive, WhilePublishing, TypeOK
  <2>3. Untold(s)' \subseteq {n}
    BY <2>1, <2>2 DEF Untold
  <2>4. <<s, n>> \in Malformed \cup refused' => n \notin Untold(s)'
    BY DEF Untold
  <2>5. ASSUME NEW q \in Symbols, q # s
        PROVE  Untold(q)' = Untold(q) /\ stream'[q] = stream[q] /\ received'[q] =
               received[q]
    <3>1. received'[q] = received[q] /\ stream'[q] = stream[q] /\ reported' = reported
      BY <1>4, <2>5 DEF Receive, TypeOK
    <3>2. \A k : <<q, k>> \in refused' <=> <<q, k>> \in refused
      BY <1>4, <2>5 DEF Receive
    <3> QED BY <3>1, <3>2 DEF Untold
  <2>6. \/ Untold(s)' = {}
        \/ Untold(s)' = {received'[s]} /\ stream'[s] \in {"sending", "cancelled", "done"}
    <3> HIDE DEF n
    <3> QED BY <2>2, <2>3, <2>4
  <2>7. ASSUME NEW q \in Symbols
        PROVE  \/ Untold(q)' = {}
               \/ Untold(q)' = {received'[q]} /\ stream'[q] \in {"sending", "cancelled",
                      "done"}
    BY <2>5, <2>6 DEF FateKnown
  <2> QED BY <2>7 DEF FateKnown
<1>5. ASSUME NEW s \in Symbols, Unwinds(s)
      PROVE  FateKnown'
  <2>1. \A q \in Symbols : Untold(q)' = Untold(q) /\ received'[q] = received[q]
    BY <1>5 DEF Untold, Unwinds, streams, kafka, service
  <2> QED BY <1>5, <2>1 DEF FateKnown, TypeOK, Unwinds, streams, kafka, service
<1>6. ASSUME NEW r \in Records, SendBuffers(r)
      PROVE  FateKnown'
  <2>1. r[1] \in Symbols /\ r = <<r[1], r[2]>>
    BY DEF Records
  <2>2. r[2] = received[r[1]] /\ stream[r[1]] \in {"sending", "cancelled", "done"}
    BY <1>6 DEF SendBuffers, InThread
  <2>3. ASSUME NEW s \in Symbols
        PROVE  \/ Untold(s)' = {}
               \/ /\ Untold(s)' = {received'[s]}
                  /\ stream'[s] \in {"sending", "cancelled", "done"}
    <3>1. received' = received
      BY <1>6 DEF SendBuffers
    <3>2. CASE s = r[1] /\ Awaits(r)
      <4>1. Untold(s) \subseteq {r[2]}
        BY <2>2, <3>2 DEF FateKnown
      <4>2. r \in reported' \cup refused' /\ reported \subseteq reported' /\ refused
             \subseteq refused'
        BY <1>6, <3>2 DEF SendBuffers
      <4>3. Untold(s)' \subseteq Untold(s) /\ r[2] \notin Untold(s)'
        BY <2>1, <3>1, <3>2, <4>2 DEF Untold
      <4> QED BY <4>1, <4>3
    <3>3. CASE s # r[1] \/ ~Awaits(r)
      <4>1. \A n : <<s, n>> \in reported' \cup refused' <=> <<s, n>> \in reported \cup
             refused
        BY <1>6, <2>1, <3>3 DEF SendBuffers
      <4>2. Untold(s)' = Untold(s)
        BY <3>1, <4>1 DEF Untold
      <4>3. stream'[s] = stream[s]
        BY <1>6, <2>1, <3>3 DEF SendBuffers, Resumes, TypeOK
      <4> QED BY <3>1, <4>2, <4>3 DEF FateKnown
    <3> QED BY <3>2, <3>3
  <2> QED BY <2>3 DEF FateKnown
<1>7. ASSUME NEW r \in Records, SendFails(r)
      PROVE  FateKnown'
  <2>1. r[1] \in Symbols /\ r = <<r[1], r[2]>>
    BY DEF Records
  <2>2. r[2] = received[r[1]] /\ stream[r[1]] \in {"sending", "cancelled", "done"}
    BY <1>7 DEF SendFails, InThread
  <2>3. ASSUME NEW s \in Symbols
        PROVE  \/ Untold(s)' = {}
               \/ /\ Untold(s)' = {received'[s]}
                  /\ stream'[s] \in {"sending", "cancelled", "done"}
    <3>1. received' = received
      BY <1>7 DEF SendFails
    <3>2. CASE s = r[1] /\ Awaits(r)
      <4>1. Untold(s) \subseteq {r[2]}
        BY <2>2, <3>2 DEF FateKnown
      <4>2. r \in reported' \cup refused' /\ reported \subseteq reported' /\ refused
             \subseteq refused'
        BY <1>7, <3>2 DEF SendFails
      <4>3. Untold(s)' \subseteq Untold(s) /\ r[2] \notin Untold(s)'
        BY <2>1, <3>1, <3>2, <4>2 DEF Untold
      <4> QED BY <4>1, <4>3
    <3>3. CASE s # r[1] \/ ~Awaits(r)
      <4>1. \A n : <<s, n>> \in reported' \cup refused' <=> <<s, n>> \in reported \cup
             refused
        BY <1>7, <2>1, <3>3 DEF SendFails
      <4>2. Untold(s)' = Untold(s)
        BY <3>1, <4>1 DEF Untold
      <4>3. stream'[s] = stream[s]
        BY <1>7, <2>1, <3>3 DEF SendFails, Resumes, TypeOK
      <4> QED BY <3>1, <4>2, <4>3 DEF FateKnown
    <3> QED BY <3>2, <3>3
  <2> QED BY <2>3 DEF FateKnown
<1>8. ASSUME NEW r \in Records, Deliver(r)
      PROVE  FateKnown'
  <2>1. \A q \in Symbols : Untold(q)' = Untold(q) /\ received'[q] = received[q]
    BY <1>8 DEF Untold, Deliver, streams, kafka, service
  <2> QED BY <1>8, <2>1 DEF FateKnown, TypeOK, Deliver, streams, kafka, service
<1>9. ASSUME NEW r \in Records, Expire(r)
      PROVE  FateKnown'
  <2>1. \A q \in Symbols : Untold(q)' = Untold(q) /\ received'[q] = received[q]
    BY <1>9 DEF Untold, Expire, streams, kafka, service
  <2> QED BY <1>9, <2>1 DEF FateKnown, TypeOK, Expire, streams, kafka, service
<1>10. CASE Connected
  <2>1. \A q \in Symbols : Untold(q)' = Untold(q) /\ received'[q] = received[q]
    BY <1>10 DEF Untold, Connected, streams, kafka, service
  <2> QED BY <1>10, <2>1 DEF FateKnown, TypeOK, Connected, streams, kafka, service
<1>11. CASE ConnectRaises
  <2>1. \A q \in Symbols : Untold(q)' = Untold(q) /\ received'[q] = received[q]
    BY <1>11 DEF Untold, ConnectRaises, streams, kafka, service
  <2> QED BY <1>11, <2>1 DEF FateKnown, TypeOK, ConnectRaises, streams, kafka, service
<1>12. CASE StreamsStart
  <2>1. \A q \in Symbols : Untold(q)' = Untold(q) /\ received'[q] = received[q]
    BY <1>12 DEF Untold, StreamsStart, kafka
  <2>2. \A s \in Symbols : Untold(s) = {}
    BY <1>12 DEF StreamsStart, Lifecycle, FateKnown
  <2> QED BY <2>1, <2>2 DEF FateKnown
<1>13. CASE StatsEnd
  <2>1. \A q \in Symbols : Untold(q)' = Untold(q) /\ received'[q] = received[q]
    BY <1>13 DEF Untold, StatsEnd, streams, kafka, service
  <2> QED BY <1>13, <2>1 DEF FateKnown, TypeOK, StatsEnd, streams, kafka, service
<1>14. CASE Flush
  <2>1. \A q \in Symbols : Untold(q)' = Untold(q) /\ received'[q] = received[q]
    BY <1>14 DEF Untold, Flush, streams, kafka, service
  <2> QED BY <1>14, <2>1 DEF FateKnown, TypeOK, Flush, MayFlush, Ended, streams, kafka,
         service
<1>15. CASE CloseClient
  <2>1. \A q \in Symbols : Untold(q)' = Untold(q) /\ received'[q] = received[q]
    BY <1>15 DEF Untold, CloseClient, streams, kafka, service
  <2> QED BY <1>15, <2>1 DEF FateKnown, TypeOK, CloseClient, streams, kafka, service
<1>16. CASE CloseReturns
  <2>1. \A q \in Symbols : Untold(q)' = Untold(q) /\ received'[q] = received[q]
    BY <1>16 DEF Untold, CloseReturns, streams, kafka, service
  <2> QED BY <1>16, <2>1 DEF FateKnown, TypeOK, CloseReturns, Settled, streams, kafka,
         service
<1>17. CASE MainReturns
  <2>1. \A q \in Symbols : Untold(q)' = Untold(q) /\ received'[q] = received[q]
    BY <1>17 DEF Untold, MainReturns, streams, kafka, service
  <2> QED BY <1>17, <2>1 DEF FateKnown, TypeOK, MainReturns, streams, kafka, service
<1>18. CASE Exit
  <2>1. \A q \in Symbols : Untold(q)' = Untold(q) /\ received'[q] = received[q]
    BY <1>18 DEF Untold, Exit, streams, kafka, service
  <2> QED BY <1>18, <2>1 DEF FateKnown, TypeOK, Exit, Settled, streams, kafka, service
<1>19. CASE Signal
  <2>1. \A q \in Symbols : Untold(q)' = Untold(q) /\ received'[q] = received[q]
    BY <1>19 DEF Untold, Signal, streams, kafka, service
  <2> QED BY <1>19, <2>1 DEF FateKnown, TypeOK, Signal, StopConnecting, StopConnected,
         StopStreaming, CancelStreams, Ended, streams, kafka, service
<1>20. CASE UNCHANGED vars
  BY <1>20 DEF vars, streams, kafka, service, FateKnown, Untold
<1> QED BY <1>1, <1>2, <1>3, <1>4, <1>5, <1>6, <1>7, <1>8, <1>9, <1>10, <1>11, <1>12, <1>13,
       <1>14, <1>15, <1>16, <1>17, <1>18, <1>19, <1>20
  DEF Next, StreamStep, ThreadStep, BrokerStep, ServiceStep

-----------------------------------------------------------------------------
(* The invariant, and what follows.                                        *)

LEMMA InitIInv ==
  ASSUME Init
  PROVE  IInv
<1>1. TypeOK
  <2>1. <<>> \in Seq(Nat)
    OBVIOUS
  <2>2. submitted \in [Symbols -> Seq(Nat)]
    BY <2>1 DEF Init
  <2>3. retries \in [Symbols -> 0 .. MaxRetries + 1] /\ received \in [Symbols -> 0 ..
         MaxRecords]
    BY DEF Init
  <2> QED BY <2>2, <2>3 DEF Init, TypeOK
<1>2. Lifecycle /\ Caught /\ Budget /\ GivesUpInTime
  BY DEF Init, Lifecycle, Caught, Budget, GivesUpInTime
<1>3. InThread /\ Taken /\ Submitted /\ SubmittedInOrder /\ Settling
  BY DEF Init, InThread, Taken, Submitted, SubmittedInOrder, Settling
<1>4. FateKnown
  BY DEF Init, FateKnown, Untold
<1> QED BY <1>1, <1>2, <1>3, <1>4 DEF IInv

LEMMA StepIInv ==
  ASSUME IInv, [Next]_vars
  PROVE  IInv'
<1>1. TypeOK'
  BY TypeStep DEF IInv
<1>2. Lifecycle' /\ Caught'
  BY LifecycleStep, CaughtStep DEF IInv
<1>3. Budget' /\ GivesUpInTime'
  BY BudgetStep, GivesUpStep DEF IInv
<1>4. InThread' /\ Taken'
  BY InThreadStep, TakenStep DEF IInv
<1>5. Submitted' /\ SubmittedInOrder'
  BY SubmittedStep, OrderStep DEF IInv
<1>6. FateKnown' /\ Settling'
  BY FateStep, SettlingStep DEF IInv
<1> QED BY <1>1, <1>2, <1>3, <1>4, <1>5, <1>6 DEF IInv

(* The inductive invariant, from which the others follow.                  *)
THEOREM Invariant == Spec => []IInv
<1>1. Init => IInv
  BY InitIInv
<1>2. IInv /\ [Next]_vars => IInv'
  BY StepIInv
<1> QED BY <1>1, <1>2, PTL DEF Spec

(* Every variable keeps its type; no count passes _max_retries by more     *)
(* than one.                                                               *)
THEOREM TypeCorrect == Spec => []TypeOK
<1>1. IInv => TypeOK
  BY DEF IInv
<1> QED BY <1>1, Invariant, PTL

(* A stream gives up after exactly _max_retries + 1 failed connections,    *)
(* and not before, while the service runs.                                 *)
THEOREM GivesUp == Spec => []GivesUpInTime
<1>1. IInv => GivesUpInTime
  BY DEF IInv
<1> QED BY <1>1, Invariant, PTL

(* Of each stream at most one record's fate is unknown to the service.     *)
THEOREM FatesKnown == Spec => []FateKnown
<1>1. IInv => FateKnown
  BY DEF IInv
<1> QED BY <1>1, Invariant, PTL

(* The sends of one symbol keep the order in which it was received.        *)
THEOREM InOrder == Spec => []SubmittedInOrder
<1>1. IInv => SubmittedInOrder
  BY DEF IInv
<1> QED BY <1>1, Invariant, PTL

(* A process stopped by a signal while its streams ran leaves no record    *)
(* that was reported as sent in the buffer.                                *)
THEOREM SettledAtExit == Spec => []ReportedSettled
<1>1. IInv => ReportedSettled
  BY DEF IInv, Settling, ReportedSettled
<1> QED BY <1>1, Invariant, PTL

(* After stop() has caught the streams no record is turned away: what is   *)
(* refused was in a thread.                                                *)
THEOREM NoneTurned == Spec => NoneTurnedAway
<1> DEFINE Kept == caught => \A r \in refused' \ refused : r \in threads
<1>1. IInv /\ [Next]_vars => [Kept]_vars
  <2> SUFFICES ASSUME IInv, Next, caught, NEW q \in refused' \ refused
               PROVE  q \in threads
    OBVIOUS
  <2>0. \A s \in Symbols : stream[s] # "listening"
    BY DEF IInv, Caught
  <2>1. ASSUME NEW s \in Symbols, StreamConnects(s)
        PROVE  q \in threads
    BY <2>1, <2>0 DEF StreamConnects, AfterConnect, streams, kafka, service
  <2>2. ASSUME NEW s \in Symbols, StreamFails(s)
        PROVE  q \in threads
    BY <2>2, <2>0 DEF StreamFails, NextTurn, streams, kafka, service
  <2>3. ASSUME NEW s \in Symbols, StreamWakes(s)
        PROVE  q \in threads
    BY <2>3, <2>0 DEF StreamWakes, streams, kafka, service
  <2>4. ASSUME NEW s \in Symbols, Receive(s)
        PROVE  q \in threads
    BY <2>4, <2>0 DEF Receive, CanPublish, WhilePublishing, streams, kafka, service
  <2>5. ASSUME NEW s \in Symbols, Unwinds(s)
        PROVE  q \in threads
    BY <2>5, <2>0 DEF Unwinds, streams, kafka, service
  <2>6. ASSUME NEW r \in Records, SendBuffers(r)
        PROVE  q \in threads
    BY <2>6, <2>0 DEF SendBuffers, Resumes, Awaits, streams, kafka, service
  <2>7. ASSUME NEW r \in Records, SendFails(r)
        PROVE  q \in threads
    BY <2>7, <2>0 DEF SendFails, Resumes, Awaits, streams, kafka, service
  <2>8. ASSUME NEW r \in Records, Deliver(r)
        PROVE  q \in threads
    BY <2>8, <2>0 DEF Deliver, streams, kafka, service
  <2>9. ASSUME NEW r \in Records, Expire(r)
        PROVE  q \in threads
    BY <2>9, <2>0 DEF Expire, streams, kafka, service
  <2>10. CASE Connected
    BY <2>10, <2>0 DEF Connected, streams, kafka, service
  <2>11. CASE ConnectRaises
    BY <2>11, <2>0 DEF ConnectRaises, streams, kafka, service
  <2>12. CASE StreamsStart
    BY <2>12, <2>0 DEF StreamsStart, streams, kafka, service
  <2>13. CASE StatsEnd
    BY <2>13, <2>0 DEF StatsEnd, streams, kafka, service
  <2>14. CASE Flush
    BY <2>14, <2>0 DEF Flush, MayFlush, Ended, streams, kafka, service
  <2>15. CASE CloseClient
    BY <2>15, <2>0 DEF CloseClient, streams, kafka, service
  <2>16. CASE CloseReturns
    BY <2>16, <2>0 DEF CloseReturns, Settled, streams, kafka, service
  <2>17. CASE MainReturns
    BY <2>17, <2>0 DEF MainReturns, streams, kafka, service
  <2>18. CASE Exit
    BY <2>18, <2>0 DEF Exit, Settled, streams, kafka, service
  <2>19. CASE Signal
    BY <2>19, <2>0 DEF Signal, StopConnecting, StopConnected, StopStreaming, CancelStreams,
         Ended, streams, kafka, service
  <2>20. CASE UNCHANGED vars
    BY <2>20, <2>0 DEF vars, streams, kafka, service
  <2> QED BY <2>1, <2>2, <2>3, <2>4, <2>5, <2>6, <2>7, <2>8, <2>9, <2>10, <2>11, <2>12,
         <2>13, <2>14, <2>15, <2>16, <2>17, <2>18, <2>19, <2>20
    DEF Next, StreamStep, ThreadStep, BrokerStep, ServiceStep
<1> QED BY <1>1, Invariant, PTL DEF Spec, NoneTurnedAway
=============================================================================
