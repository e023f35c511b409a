----------------------------- MODULE Ingestion -----------------------------
(***************************************************************************)
(* The ingestion process: IngestionService with its BinanceWebSocketClient *)
(* and its RedpandaProducer, from the first await of start() to the exit   *)
(* of the process (src/src/ingestion/main.py, websocket_client.py,         *)
(* src/src/common/redpanda_client.py, setup_signal_handlers).              *)
(*                                                                         *)
(* Everything but the calls that run in worker threads (the sends, the     *)
(* flush and the close of the Kafka client) runs on one event loop, so an  *)
(* action is a run of one task from an await to the next.  Time is not     *)
(* modelled: the back-off of a stream is a sleep, the timeout of a flush   *)
(* may pass at any moment.                                                 *)
(***************************************************************************)
EXTENDS Naturals, Sequences, FiniteSets

CONSTANTS
    Symbols,      \* the streams: one per symbol
    MaxRecords,   \* bound: messages the exchange sends on a stream
    MaxRetries,   \* _max_retries
    Malformed     \* records that _handle_message or the parser turns down

Records == Symbols \X (1 .. MaxRecords)

ASSUME IngestionAssumption ==
    /\ MaxRecords \in Nat
    /\ MaxRetries \in Nat
    /\ Malformed \subseteq Records

VARIABLES
    phase,      \* where start(), main() and asyncio.run are
    running,    \* IngestionService._running
    wsRunning,  \* BinanceWebSocketClient._running
    stream,     \* the await each _connect_symbol task is at
    retries,    \* its retry_count
    received,   \* how many messages the stream has taken
    threads,    \* records whose send() is in a worker thread
    client,     \* the KafkaProducer, and what publish() sees of it
    buffered,   \* records in the client's buffer
    landed,     \* records in the topic
    expired,    \* records the client gave up, after its retries
    awaited,    \* what the thread of flush() or close() waits for
    reported,   \* records for which publish() returned True
    refused,    \* records for which it returned False
    stopper,    \* the await of the stop() that found _running true
    stats,      \* the task of _log_stats
    signalled,  \* a signal was handled
    failures,   \* history: connections lost or refused since the last one made
    submitted,  \* history: the order in which send() took the records
    caught      \* history: stop() found the streams started

streams == <<wsRunning, stream, retries, received, failures>>
kafka   == <<client, threads, buffered, landed, expired, awaited, submitted>>
service == <<phase, running, stopper, stats, signalled, caught>>
vars    == <<streams, kafka, service, reported, refused>>

Ended == {"none", "done"}          \* no task, or a task that is done()

Init ==
    /\ phase = "connecting" /\ running = TRUE
    /\ wsRunning = FALSE
    /\ stream = [s \in Symbols |-> "none"]
    /\ retries = [s \in Symbols |-> 0] /\ failures = [s \in Symbols |-> 0]
    /\ received = [s \in Symbols |-> 0]
    /\ client = "none"
    /\ threads = {} /\ buffered = {} /\ landed = {} /\ expired = {} /\ awaited = {}
    /\ reported = {} /\ refused = {}
    /\ submitted = [s \in Symbols |-> <<>>]
    /\ stopper = "none" /\ stats = "none"
    /\ signalled = FALSE /\ caught = FALSE

-----------------------------------------------------------------------------
(* start(): the producer connects, then the client's streams start.        *)

Connected ==
    /\ phase = "connecting"
    /\ phase' = "connected" /\ client' = "open"
    /\ UNCHANGED <<streams, threads, buffered, landed, expired, awaited, submitted,
                   running, stopper, stats, signalled, caught, reported, refused>>

\* connect() raises: the stop() of start()'s finally has nothing to close.
ConnectRaises ==
    /\ phase = "connecting"
    /\ phase' = "shutdown" /\ running' = FALSE
    /\ UNCHANGED <<streams, kafka, stopper, stats, signalled, caught, reported, refused>>

StreamsStart ==
    /\ phase = "connected"
    /\ phase' = "streaming" /\ wsRunning' = TRUE
    /\ stream' = [s \in Symbols |-> "connecting"]
    /\ stats' = IF running THEN "asleep" ELSE "done"
    /\ UNCHANGED <<retries, received, failures, kafka, running, stopper, signalled,
                   caught, reported, refused>>

\* _log_stats wakes up and finds that the service no longer runs.
StatsEnd ==
    /\ stats = "asleep" /\ ~running
    /\ stats' = "done"
    /\ UNCHANGED <<streams, kafka, phase, running, stopper, signalled, caught,
                   reported, refused>>

-----------------------------------------------------------------------------
(* One stream: _connect_symbol.                                            *)

KeepsCount(r) == r                         \* slip: no reset on connecting
AfterConnect(r) == 0                       \* retry_count once connected

\* Slip: retry_count starts anew in each turn.
NextTurnForgets(s) ==
    /\ failures' = [failures EXCEPT ![s] = IF @ > MaxRetries THEN @ ELSE @ + 1]
    /\ stream' = [stream EXCEPT ![s] = IF wsRunning THEN "sleeping" ELSE "done"]
    /\ UNCHANGED retries

\* Slip: the count is compared before it is increased.
NextTurnLate(s) ==
    /\ failures' = [failures EXCEPT ![s] = @ + 1]
    /\ retries' = [retries EXCEPT ![s] = @ + 1]
    /\ stream' = [stream EXCEPT ![s] =
                     IF retries[s] > MaxRetries \/ ~wsRunning THEN "done" ELSE "sleeping"]

\* The end of a turn of the loop: back off, or give up.
NextTurn(s) ==
    /\ failures' = [failures EXCEPT ![s] = @ + 1]
    /\ IF wsRunning
         THEN /\ retries' = [retries EXCEPT ![s] = @ + 1]
              /\ stream' = [stream EXCEPT ![s] =
                              IF retries[s] + 1 > MaxRetries THEN "done" ELSE "sleeping"]
         ELSE /\ stream' = [stream EXCEPT ![s] = "done"]
              /\ UNCHANGED retries

StreamConnects(s) ==
    /\ stream[s] = "connecting"
    /\ stream' = [stream EXCEPT ![s] = "listening"]
    /\ retries' = [retries EXCEPT ![s] = AfterConnect(@)]
    /\ failures' = [failures EXCEPT ![s] = 0]
    /\ UNCHANGED <<wsRunning, received, kafka, service, reported, refused>>

\* The connection is refused or lost, or ends normally.
StreamFails(s) ==
    /\ stream[s] \in {"connecting", "listening"}
    /\ NextTurn(s)
    /\ UNCHANGED <<wsRunning, received, kafka, service, reported, refused>>

StreamWakes(s) ==
    /\ stream[s] = "sleeping"
    /\ stream' = [stream EXCEPT ![s] = IF wsRunning THEN "connecting" ELSE "done"]
    /\ UNCHANGED <<wsRunning, retries, received, failures, kafka, service, reported, refused>>

\* publish() looks for a producer before it hands the send to a thread.
CanPublish == client \in {"open", "closing"}

GoesOn == "listening"                      \* slip: create_task(callback(...))

\* The stream waits for the callback before it takes another message.
WhilePublishing == "sending"

\* A message: malformed, turned away by publish(), or handed to a thread.
Receive(s) ==
    LET r == <<s, received[s] + 1>> IN
    /\ stream[s] = "listening" /\ received[s] < MaxRecords
    /\ received' = [received EXCEPT ![s] = @ + 1]
    /\ \/ /\ r \in Malformed
          /\ UNCHANGED <<stream, threads, refused>>
       \/ /\ r \notin Malformed /\ CanPublish
          /\ threads' = threads \cup {r}
          /\ stream' = [stream EXCEPT ![s] = WhilePublishing]
          /\ UNCHANGED refused
       \/ /\ r \notin Malformed /\ ~CanPublish
          /\ refused' = refused \cup {r}
          /\ UNCHANGED <<stream, threads>>
    /\ UNCHANGED <<wsRunning, retries, failures, client, buffered, landed, expired, awaited,
                   submitted, service, reported>>

\* The task that awaits the send of r is still there.
Awaits(r) == stream[r[1]] = "sending"

Resumes(r) == stream' = [stream EXCEPT ![r[1]] = IF Awaits(r) THEN "listening" ELSE @]

\* The thread buffers the record; publish() returns True, if anybody awaits it.
SendBuffers(r) ==
    /\ r \in threads /\ client = "open"
    /\ threads' = threads \ {r}
    /\ buffered' = buffered \cup {r}
    /\ submitted' = [submitted EXCEPT ![r[1]] = Append(@, r[2])]
    /\ reported' = IF Awaits(r) THEN reported \cup {r} ELSE reported
    /\ Resumes(r)
    /\ UNCHANGED <<wsRunning, retries, received, failures, client, landed, expired, awaited,
                   service, refused>>

\* The send raises, or was cancelled before a thread took it.
SendFails(r) ==
    /\ r \in threads
    /\ threads' = threads \ {r}
    /\ refused' = IF Awaits(r) THEN refused \cup {r} ELSE refused
    /\ Resumes(r)
    /\ UNCHANGED <<wsRunning, retries, received, failures, client, buffered, landed, expired,
                   awaited, submitted, service, reported>>

\* A cancelled stream has closed its connection.
Unwinds(s) ==
    /\ stream[s] = "cancelled"
    /\ stream' = [stream EXCEPT ![s] = "done"]
    /\ UNCHANGED <<wsRunning, retries, received, failures, kafka, service, reported, refused>>

-----------------------------------------------------------------------------
(* The Kafka client's sender thread and the broker.                        *)

Deliver(r) ==
    /\ phase # "exited" /\ r \in buffered
    /\ buffered' = buffered \ {r} /\ landed' = landed \cup {r}
    /\ UNCHANGED <<streams, client, threads, expired, awaited, submitted, service,
                   reported, refused>>

Expire(r) ==
    /\ phase # "exited" /\ r \in buffered
    /\ buffered' = buffered \ {r} /\ expired' = expired \cup {r}
    /\ UNCHANGED <<streams, client, threads, landed, awaited, submitted, service,
                   reported, refused>>

SettledAtOnce == TRUE                      \* slip: the client is closed without waiting

Settled == awaited \cap buffered = {}

-----------------------------------------------------------------------------
(* stop(), and how the process ends.                                       *)

NoCancel == UNCHANGED stream               \* slip: stop() only clears _running

CancelStreams ==
    stream' = [s \in Symbols |-> IF stream[s] \in Ended THEN stream[s] ELSE "cancelled"]

\* Slip: the producer is closed before the streams are stopped.
ProducerFirst ==
    /\ phase = "streaming"
    /\ stopper' = "flush" /\ caught' = TRUE
    /\ awaited' = buffered
    /\ UNCHANGED <<wsRunning, stream>>

\* stop() finds _running true, at one of the three awaits start() may be at:
\* no client yet; a client without tasks; a client with its streams.
StopConnecting ==
    /\ phase = "connecting"
    /\ stopper' = "done"
    /\ UNCHANGED <<wsRunning, stream, awaited, caught>>

StopConnected ==
    /\ phase = "connected"
    /\ stopper' = "flush" /\ awaited' = buffered
    /\ wsRunning' = FALSE
    /\ UNCHANGED <<stream, caught>>

StopStreaming ==
    /\ phase = "streaming"
    /\ stopper' = "streams" /\ caught' = TRUE
    /\ wsRunning' = FALSE /\ CancelStreams
    /\ UNCHANGED awaited

\* A signal; a second one finds _running false and does nothing.
Signal ==
    /\ ~signalled /\ phase \notin {"shutdown", "exited"}
    /\ signalled' = TRUE /\ running' = FALSE
    /\ \/ StopConnecting
       \/ StopConnected
       \/ StopStreaming
    /\ UNCHANGED <<phase, retries, received, failures, client, threads, buffered, landed,
                   expired, submitted, stats, reported, refused>>

\* When the client's stop() awaits its streams no longer: producer.close() flushes.
MayFlush == \A s \in Symbols : stream[s] \in Ended

Flush ==
    /\ stopper = "streams" /\ MayFlush
    /\ stopper' = "flush" /\ awaited' = buffered
    /\ UNCHANGED <<streams, client, threads, buffered, landed, expired, submitted, phase,
                   running, stats, signalled, caught, reported, refused>>

\* The flush returns, fails or times out; the client is closed.
CloseClient ==
    /\ stopper = "flush"
    /\ stopper' = "close" /\ client' = "closing" /\ awaited' = buffered
    /\ UNCHANGED <<streams, threads, buffered, landed, expired, submitted, phase, running,
                   stats, signalled, caught, reported, refused>>

CloseReturns ==
    /\ stopper = "close" /\ Settled
    /\ stopper' = "done" /\ client' = "closed"
    /\ UNCHANGED <<streams, threads, buffered, landed, expired, awaited, submitted, phase,
                   running, stats, signalled, caught, reported, refused>>

\* gather() returns when the streams and _log_stats are done; a stop() that
\* awaits the streams too is resumed first.  asyncio.run cancels what is left
\* of stop(), whose finally forgets the producer.
MainReturns ==
    /\ phase = "streaming" /\ stats = "done" /\ stopper # "streams"
    /\ \A s \in Symbols : stream[s] = "done"
    /\ phase' = "shutdown"
    /\ IF stopper \in {"flush", "close"}
         THEN stopper' = "cancelled" /\ client' = "closed"
         ELSE UNCHANGED <<stopper, client>>
    /\ UNCHANGED <<streams, threads, buffered, landed, expired, awaited, submitted, running,
                   stats, signalled, caught, reported, refused>>

\* asyncio.run joins the worker threads; what is buffered then is lost.
Exit ==
    /\ phase = "shutdown" /\ threads = {} /\ Settled
    /\ phase' = "exited"
    /\ UNCHANGED <<streams, kafka, running, stopper, stats, signalled, caught, reported, refused>>

-----------------------------------------------------------------------------
StreamStep(s) ==
    \/ StreamConnects(s) \/ StreamFails(s) \/ StreamWakes(s)
    \/ Receive(s) \/ Unwinds(s)

ThreadStep(r) == SendBuffers(r) \/ SendFails(r)

BrokerStep(r) == Deliver(r) \/ Expire(r)

ServiceStep ==
    \/ Connected \/ ConnectRaises \/ StreamsStart \/ StatsEnd
    \/ Flush \/ CloseClient \/ CloseReturns \/ MainReturns \/ Exit

Next ==
    \/ \E s \in Symbols : StreamStep(s)
    \/ \E r \in Records : ThreadStep(r) \/ BrokerStep(r)
    \/ ServiceStep
    \/ Signal

\* Awaits return, with success or failure; the client's sender thread settles
\* every record; connections succeed, fail and end as they like.
Fairness ==
    /\ \A s \in Symbols :
         /\ WF_vars(StreamConnects(s) \/ (stream[s] = "connecting" /\ StreamFails(s)))
         /\ WF_vars(StreamWakes(s) \/ Unwinds(s))
    /\ \A r \in Records : WF_vars(ThreadStep(r)) /\ WF_vars(BrokerStep(r))
    /\ WF_vars(ServiceStep)

Spec == Init /\ [][Next]_vars /\ Fairness

-----------------------------------------------------------------------------
(* Properties.                                                             *)

TypeOK ==
    /\ phase \in {"connecting", "connected", "streaming", "shutdown", "exited"}
    /\ running \in BOOLEAN /\ wsRunning \in BOOLEAN
    /\ signalled \in BOOLEAN /\ caught \in BOOLEAN
    /\ stream \in [Symbols -> {"none", "connecting", "listening", "sending", "sleeping",
                               "cancelled", "done"}]
    /\ retries \in [Symbols -> 0 .. MaxRetries + 1] /\ failures \in [Symbols -> Nat]
    /\ received \in [Symbols -> 0 .. MaxRecords]
    /\ client \in {"none", "open", "closing", "closed"}
    /\ stopper \in {"none", "streams", "flush", "close", "done", "cancelled"}
    /\ stats \in {"none", "asleep", "done"}
    /\ threads \subseteq Records /\ buffered \subseteq Records /\ landed \subseteq Records
    /\ expired \subseteq Records /\ awaited \subseteq Records
    /\ reported \subseteq Records /\ refused \subseteq Records
    /\ submitted \in [Symbols -> Seq(Nat)]

\* A process that a signal stopped while its streams ran exits with every
\* record publish() reported as sent in the topic or given up by the client:
\* none is still in the buffer, whether the flush timed out, the stop() was
\* itself cancelled because main() returned first, or a send was in a thread.
ReportedSettled ==
    phase = "exited" /\ caught => reported \subseteq landed \cup expired

\* The sends of one symbol take place in the order the records were received.
SubmittedInOrder ==
    \A s \in Symbols : \A i, j \in 1 .. Len(submitted[s]) :
        i < j => submitted[s][i] < submitted[s][j]

\* The fate of a record that can be published is known to the service, but for
\* one per stream: the one being sent, or that was when stop() cancelled it.
Untold(s) ==
    {n \in 1 .. received[s] : <<s, n>> \notin Malformed \cup reported \cup refused}

FateKnown ==
    \A s \in Symbols :
        \/ Untold(s) = {}
        \/ Untold(s) = {received[s]} /\ stream[s] \in {"sending", "cancelled", "done"}

\* While the service runs a stream ends exactly when one more connection than
\* _max_retries was refused or lost since the last that was made.
GivesUpInTime ==
    \A s \in Symbols :
        running => /\ stream[s] = "done" => failures[s] = MaxRetries + 1
                   /\ failures[s] > MaxRetries => stream[s] = "done"

\* A stop() that found the streams started closes the producer only after the
\* last of them: no record is refused for want of a producer.
NoneTurnedAway ==
    [][caught => \A r \in refused' \ refused : r \in threads]_vars

\* A stream that backs off connects again or ends.
StreamsSettle ==
    \A s \in Symbols : stream[s] = "sleeping" ~> stream[s] \in {"listening", "done"}

\* A signal that finds the streams started ends the process.
StopEnds == caught ~> phase = "exited"

\* Every signal ends the process (setup_signal_handlers: "for graceful
\* shutdown").  One that comes before the streams start does not.
SignalEnds == signalled ~> phase = "exited"

=============================================================================
