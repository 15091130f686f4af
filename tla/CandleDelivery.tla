---------------------------- MODULE CandleDelivery ----------------------------
(***************************************************************************)
(* How closed M1 candles reach the database: a collector worker fetches    *)
(* them from the provider in windows and sends them in batches, over a     *)
(* Redis stream with a consumer group or over HTTP, which also serves as   *)
(* the fallback.  Ingestion workers and API threads process the same       *)
(* events; users pause the feed and backfill ranges.                       *)
(*                                                                         *)
(* Every batch is an event with an id.  Requests time out, publications    *)
(* fail after they were stored, transactions are rolled back, processes    *)
(* end.  Time is counted in minutes; minute m has a candle, opened at m,   *)
(* when the provider has quoted prices in it.                              *)
(***************************************************************************)
EXTENDS Integers, Sequences, FiniteSets

CONSTANTS
  Consumers,    \* ingestion workers, the consumers of the group
  Threads,      \* API threads that serve HTTP ingestion
  Transports,   \* the values of INGESTION_TRANSPORT: a subset of {"redis", "http"}
  Window,       \* LIVE_CATCHUP_MAX_MINUTES
  BatchSize,    \* candle_batch_size
  MaxQuiet,     \* the market is never quiet for more minutes in a row
  MaxRequests,  \* bound: how often users pause (or resume) the feed or order a backfill
  MaxTime,      \* bound: the clock stops here
  MaxFailures   \* bound: failures of any kind

ASSUME DeliveryAssumption ==
  /\ Consumers \cap Threads = {}
  /\ Transports \subseteq {"redis", "http"}
  /\ {Window, BatchSize} \subseteq Nat \ {0}
  /\ {MaxQuiet, MaxRequests, MaxTime, MaxFailures} \subseteq Nat

VARIABLES
  now,        \* the clock
  market,     \* the minutes in which the provider has quoted prices
  collector,  \* the collector's worker for the feed
  events,     \* the candles of each event, in the order of sending
  stream,     \* the entry of each event in the Redis stream
  job,        \* what each consumer and API thread processes
  replied,    \* the HTTP requests answered, and how
  applied,    \* ingestion_events: how often each event has been applied
  stored,     \* candles
  dead,       \* the dead-letter stream
  dropped,    \* candles of events refused because the feed was paused
  feed,       \* market_feeds: paused, and resume_from_at
  failures,   \* how often something has failed
  pauses,     \* how often users have paused the feed, or resumed it though it ran
  backfills   \* how often they have ordered a backfill

api == <<stream, job, replied, applied, stored, dead, dropped>>
counters == <<failures, pauses, backfills>>
vars == <<now, market, collector, events, api, feed, counters>>

Minutes == 0 .. MaxTime
Actors == Consumers \cup Threads
Ids == DOMAIN events

Idle == [at |-> "idle", event |-> 0]
Entries == {"none", "new", "pending", "acked"}
Replies == {"none", "ok", "error"}

\* A consumer or thread that processes an event.
Busy == [at : {"received", "claimed", "applied", "rejected", "dead"}, event : Ids]

\* Type invariant.
TypeOK ==
  /\ now \in Minutes
  /\ market \subseteq Minutes
  /\ collector \in [at : {"stopped", "down", "live", "sending", "waiting"},
                    transport : Transports, cursor : Nat, rest : SUBSET Minutes, next : Nat, event : Nat]
  /\ events \in Seq(SUBSET Minutes)
  /\ stream \in Seq(Entries) /\ Len(stream) = Len(events)
  /\ replied \in Seq(Replies) /\ Len(replied) = Len(events)
  /\ applied \in Seq(Nat) /\ Len(applied) = Len(events)
  /\ job \in [Actors -> {Idle} \cup Busy]
  /\ stored \subseteq Minutes
  /\ dead \subseteq Ids
  /\ dropped \subseteq Minutes
  /\ feed \in [paused : BOOLEAN, resume : Nat]
  /\ failures \in 0 .. MaxFailures
  /\ {pauses, backfills} \subseteq 0 .. MaxRequests

Init ==
  /\ now = 0
  /\ market = {}
  /\ collector \in [at : {"down"}, transport : Transports, cursor : {0}, rest : {{}},
                     next : {0}, event : {0}]
  /\ events = <<>> /\ stream = <<>> /\ replied = <<>> /\ applied = <<>>
  /\ job = [a \in Actors |-> Idle]
  /\ stored = {} /\ dead = {} /\ dropped = {}
  /\ feed = [paused |-> FALSE, resume |-> 0]
  /\ failures = 0 /\ pauses = 0 /\ backfills = 0

\* A minute ends, with or without a candle.
Quiet == \A m \in market : m < now - MaxQuiet
MinutePasses ==
  /\ now < MaxTime
  /\ now' = now + 1
  /\ market' \in {market \cup {now}} \cup (IF Quiet THEN {} ELSE {market})
  /\ UNCHANGED <<collector, events, api, feed, counters>>

Failure ==
  /\ failures < MaxFailures
  /\ failures' = failures + 1
  /\ UNCHANGED <<pauses, backfills>>

-----------------------------------------------------------------------------
(* The collector. *)

\* The minutes after the newest candle of S: a set of one; 0 when S is empty.
After(S) == {n \in 0 .. MaxTime + 1 : (\A m \in S : m < n) /\ (n = 0 \/ n - 1 \in S)}

Later(x, y) == IF x >= y THEN x ELSE y

\* Mutant: the worker goes on where the clock is.
FromNow(newest) == now

\* Where a worker that has registered starts.
StartCursor(newest) == Later(newest, feed.resume)

\* The worker starts, or tries again after an exception: it registers the feed
\* and learns the newest stored candle.
Register ==
  /\ collector.at = "down"
  /\ \E newest \in After(stored) :
       collector' = [collector EXCEPT !.at = "live", !.cursor = StartCursor(newest),
                                      !.rest = {}, !.event = 0]
  /\ UNCHANGED <<now, market, events, api, feed, counters>>

\* What the provider returns for the catch-up window that begins at the cursor.
Fetched == {m \in market : collector.cursor <= m /\ m < collector.cursor + Window}

Poll ==
  /\ collector.at = "live" /\ Fetched # {}
  /\ \E next \in After(Fetched) :
       collector' = [collector EXCEPT !.at = "sending", !.rest = Fetched, !.next = next]
  /\ UNCHANGED <<now, market, events, api, feed, counters>>

\* The first candles of S, as many as a batch takes.
Batch(S) == {m \in S : Cardinality({k \in S : k < m}) < BatchSize}

\* Mutant: the cursor advances with the first batch.
SentAll(batch) ==
  [collector EXCEPT !.at = "live", !.cursor = collector.next, !.rest = {}, !.event = 0]

\* The collector after a batch was taken over: the cursor advances with the last.
Sent(batch) ==
  LET rest == collector.rest \ batch IN
  IF rest = {}
  THEN [collector EXCEPT !.at = "live", !.cursor = collector.next, !.rest = {}, !.event = 0]
  ELSE [collector EXCEPT !.at = "sending", !.rest = rest, !.event = 0]

\* A new event, with or without an entry in the stream.
NewEvent(batch, entry) ==
  /\ events' = Append(events, batch)
  /\ stream' = Append(stream, entry)
  /\ replied' = Append(replied, "none")
  /\ applied' = Append(applied, 0)

\* XADD succeeds.
Publish ==
  /\ collector.at = "sending" /\ collector.transport = "redis"
  /\ NewEvent(Batch(collector.rest), "new")
  /\ collector' = Sent(Batch(collector.rest))
  /\ UNCHANGED <<now, market, job, stored, dead, dropped, feed, counters>>

\* A thread takes the request for the newest event.
Received == [at |-> "received", event |-> Len(events) + 1]

\* The batch goes over HTTP: by configuration, or with the same event id because
\* XADD has failed, be it after the entry was stored.
Post ==
  /\ collector.at = "sending"
  /\ \E h \in Threads, entry \in {"none", "new"} :
       /\ job[h] = Idle
       /\ job' = [job EXCEPT ![h] = Received]
       /\ NewEvent(Batch(collector.rest), entry)
       /\ \/ collector.transport = "http" /\ entry = "none" /\ UNCHANGED counters
          \/ collector.transport = "redis" /\ Failure
  /\ collector' = [collector EXCEPT !.at = "waiting", !.event = Len(events) + 1]
  /\ UNCHANGED <<now, market, stored, dead, dropped, feed>>

\* The reply is a success, also for an event that was dropped or is a duplicate.
Accepted ==
  /\ collector.at = "waiting" /\ replied[collector.event] = "ok"
  /\ collector' = Sent(events[collector.event])
  /\ UNCHANGED <<now, market, events, api, feed, counters>>

Broken == [collector EXCEPT !.at = "down", !.rest = {}, !.event = 0]

\* An error reply is an exception that ends the worker's run.
Refused ==
  /\ collector.at = "waiting" /\ replied[collector.event] = "error"
  /\ collector' = Broken
  /\ UNCHANGED <<now, market, events, api, feed, counters>>

\* Any other exception: a timeout, a connection refused, a process that ends and
\* may be deployed again with the other transport.
CollectorFails ==
  /\ collector.at \in {"live", "sending", "waiting"}
  /\ Failure
  /\ \E transport \in Transports : collector' = [Broken EXCEPT !.transport = transport]
  /\ UNCHANGED <<now, market, events, api, feed>>

\* The supervisor stops the worker of a paused feed and starts it again later.
StopWorker ==
  /\ feed.paused /\ collector.at \in {"down", "live"}
  /\ collector' = [Broken EXCEPT !.at = "stopped"]
  /\ UNCHANGED <<now, market, events, api, feed, counters>>

StartWorker ==
  /\ ~feed.paused /\ collector.at = "stopped"
  /\ collector' = Broken
  /\ UNCHANGED <<now, market, events, api, feed, counters>>

\* A thread of its own fetches the range a user has ordered and sends it.
Backfill ==
  /\ pauses + backfills < MaxRequests
  /\ backfills' = backfills + 1
  /\ \E first, last \in Minutes :
       LET range == {m \in market : first <= m /\ m <= last} IN
       /\ range # {}
       /\ \/ collector.transport = "redis" /\ NewEvent(range, "new") /\ UNCHANGED job
          \/ /\ collector.transport = "http"
             /\ NewEvent(range, "none")
             /\ \E h \in Threads : job[h] = Idle /\ job' = [job EXCEPT ![h] = Received]
  /\ UNCHANGED <<now, market, collector, stored, dead, dropped, feed, failures, pauses>>

-----------------------------------------------------------------------------
(* Ingestion: the same transaction for a consumer and for an API thread. *)

\* The oldest entry nobody has read: XREADGROUP.
Read(c) ==
  /\ job[c] = Idle
  /\ \E e \in Ids :
       /\ stream[e] = "new" /\ \A d \in Ids : d < e => stream[d] # "new"
       /\ stream' = [stream EXCEPT ![e] = "pending"]
       /\ job' = [job EXCEPT ![c] = [at |-> "received", event |-> e]]
  /\ UNCHANGED <<now, market, collector, events, replied, applied, stored, dead, dropped,
                 feed, counters>>

\* Mutant: a consumer reclaims nothing.
NothingPending == {}

\* The entries XAUTOCLAIM may return: read, not acknowledged, and idle for a
\* minute, be it because their consumer ended, failed or is slow.
Reclaimable == {e \in Ids : stream[e] = "pending"}

Reclaim(c) ==
  /\ job[c] = Idle
  /\ \E e \in Reclaimable : job' = [job EXCEPT ![c] = [at |-> "received", event |-> e]]
  /\ UNCHANGED <<now, market, collector, events, stream, replied, applied, stored, dead,
                 dropped, feed, counters>>

\* The actor is done with its event: a consumer has still to acknowledge it.
Finished(a) ==
  IF a \in Consumers
  THEN /\ job' = [job EXCEPT ![a].at = "applied"]
       /\ UNCHANGED replied
  ELSE /\ job' = [job EXCEPT ![a] = Idle]
       /\ replied' = [replied EXCEPT ![job[a].event] = "ok"]

\* The event was applied before: _existing_result.
Known(a) ==
  /\ job[a].at = "received" /\ applied[job[a].event] > 0
  /\ Finished(a)
  /\ UNCHANGED <<now, market, collector, events, stream, applied, stored, dead, dropped,
                 feed, counters>>

\* The feed is paused: the batch is dropped, and the event leaves no trace.
Drop(a) ==
  /\ job[a].at = "received" /\ applied[job[a].event] = 0 /\ feed.paused
  /\ Finished(a)
  /\ dropped' = dropped \cup events[job[a].event]
  /\ UNCHANGED <<now, market, collector, events, stream, applied, stored, dead, feed, counters>>

\* INSERT ... ON CONFLICT DO NOTHING waits for the transaction of another actor
\* that has claimed the event; so does the insertion of its candles for one that
\* has inserted one of them.
ClaimedByOther(a, e) ==
  \E b \in Actors \ {a} : job[b].at = "claimed" /\ job[b].event = e

InsertedByOther(a, e) ==
  \E b \in Actors \ {a} :
    job[b].at = "claimed" /\ events[job[b].event] \cap events[e] # {}

\* Mutant: the event log is read, but not claimed.
NoWait(a, e) == FALSE

Waits(a, e) == ClaimedByOther(a, e) \/ InsertedByOther(a, e)

\* The event is claimed and its candles inserted.  The feed was looked at before.
Claim(a) ==
  /\ job[a].at = "received" /\ applied[job[a].event] = 0
  /\ ~Waits(a, job[a].event)
  /\ job' = [job EXCEPT ![a].at = "claimed"]
  /\ UNCHANGED <<now, market, collector, events, stream, replied, applied, stored, dead,
                 dropped, feed, counters>>

Commit(a) ==
  /\ job[a].at = "claimed"
  /\ applied' = [applied EXCEPT ![job[a].event] = @ + 1]
  /\ stored' = stored \cup events[job[a].event]
  /\ Finished(a)
  /\ UNCHANGED <<now, market, collector, events, stream, dead, dropped, feed, counters>>

\* The event is rejected: HTTP 4xx, or a ValueError or KeyError, of a strategy
\* for example.  A consumer moves it to the dead-letter stream.
Reject(a) ==
  /\ job[a].at \in {"received", "claimed"} /\ Failure
  /\ IF a \in Consumers
     THEN /\ job' = [job EXCEPT ![a].at = "rejected"]
          /\ UNCHANGED replied
     ELSE /\ job' = [job EXCEPT ![a] = Idle]
          /\ replied' = [replied EXCEPT ![job[a].event] = "error"]
  /\ UNCHANGED <<now, market, collector, events, stream, applied, stored, dead, dropped, feed>>

DeadLetter(c) ==
  /\ job[c].at = "rejected"
  /\ dead' = dead \cup {job[c].event}
  /\ job' = [job EXCEPT ![c].at = "dead"]
  /\ UNCHANGED <<now, market, collector, events, stream, replied, applied, stored, dropped,
                 feed, counters>>

\* Mutant: an entry is acknowledged as soon as it has been read.
AtOnce == {"received", "claimed", "applied", "dead"}

\* What a consumer has done before it acknowledges an entry.
Settled == {"applied", "dead"}

Acknowledge(c) ==
  /\ job[c].at \in Settled
  /\ stream' = [stream EXCEPT ![job[c].event] = "acked"]
  /\ job' = [job EXCEPT ![c] = Idle]
  /\ UNCHANGED <<now, market, collector, events, replied, applied, stored, dead, dropped,
                 feed, counters>>

\* A rollback, an error of Redis, the end of the process: a consumer leaves the
\* entry pending.
Abandon(a) ==
  /\ job[a] # Idle /\ Failure
  /\ job' = [job EXCEPT ![a] = Idle]
  /\ replied' = IF a \in Threads THEN [replied EXCEPT ![job[a].event] = "error"] ELSE replied
  /\ UNCHANGED <<now, market, collector, events, stream, applied, stored, dead, dropped, feed>>

-----------------------------------------------------------------------------
PauseFeed ==
  /\ ~feed.paused /\ pauses + backfills < MaxRequests
  /\ pauses' = pauses + 1
  /\ feed' = [feed EXCEPT !.paused = TRUE]
  /\ UNCHANGED <<now, market, collector, events, api, failures, backfills>>

\* Live data begins with the next minute, also when the feed was not paused.
ResumeFeed ==
  /\ \/ feed.paused /\ UNCHANGED pauses
     \/ ~feed.paused /\ pauses + backfills < MaxRequests /\ pauses' = pauses + 1
  /\ feed' = [paused |-> FALSE, resume |-> now + 1]
  /\ UNCHANGED <<now, market, collector, events, api, failures, backfills>>

Ingest(a) == Known(a) \/ Drop(a) \/ Claim(a) \/ Commit(a)

Next ==
  \/ MinutePasses
  \/ Register \/ Poll \/ Publish \/ Post \/ Accepted \/ Refused \/ CollectorFails
  \/ StopWorker \/ StartWorker \/ Backfill
  \/ \E c \in Consumers : Read(c) \/ Reclaim(c) \/ DeadLetter(c) \/ Acknowledge(c)
  \/ \E a \in Actors : Known(a) \/ Drop(a) \/ Claim(a) \/ Commit(a) \/ Reject(a) \/ Abandon(a)
  \/ PauseFeed \/ ResumeFeed

Spec == Init /\ [][Next]_vars

\* The clock runs, the collector and the consumers go on, transactions end, a
\* paused feed is resumed in the end; failures are bounded.
Fairness ==
  /\ WF_vars(MinutePasses)
  /\ WF_vars(Register) /\ WF_vars(Poll) /\ WF_vars(Publish \/ Post)
  /\ WF_vars(Accepted) /\ WF_vars(Refused)
  /\ WF_vars(StartWorker) /\ WF_vars(feed.paused /\ ResumeFeed)
  /\ \A c \in Consumers :
       /\ WF_vars(Read(c)) /\ WF_vars(Reclaim(c))
       /\ WF_vars(DeadLetter(c)) /\ WF_vars(Acknowledge(c))
  /\ \A a \in Actors : WF_vars(Ingest(a))

LiveSpec == Spec /\ Fairness

-----------------------------------------------------------------------------
(* Properties. *)

\* "Repeated event_id values do not create duplicate market data": an event is
\* applied at most once, though the stream and HTTP both carry it and two
\* consumers may process the same entry.
AppliedOnce == \A e \in Ids : applied[e] <= 1

\* The inductive invariant behind it: a claimed event has not been applied, and
\* nobody else has claimed it.
ClaimIsExclusive ==
  \A a \in Actors : job[a].at = "claimed" =>
    /\ applied[job[a].event] = 0
    /\ ~ClaimedByOther(a, job[a].event)

\* An event was applied, moved to the dead letters, or refused by a paused feed.
Handled(e) == applied[e] > 0 \/ e \in dead \/ events[e] \subseteq dropped

\* No entry of the stream is acknowledged before its event was handled, so that a
\* consumer that ends or fails half-way loses no candle.
AckedIsSettled == \A e \in Ids : stream[e] = "acked" => Handled(e)

\* The inductive invariant behind it: a consumer that may acknowledge an event
\* has handled it, or knows that somebody has.
SettledIsHandled ==
  \A c \in Consumers : job[c].at \in Settled => Handled(job[c].event)

Inv ==
  /\ TypeOK
  /\ ClaimIsExclusive /\ AppliedOnce
  /\ SettledIsHandled /\ AckedIsSettled

\* What can still bring the candle of minute m to the database.
OnItsWay(m) == \E e \in Ids : m \in events[e] /\ stream[e] \in {"new", "pending"}

\* Why it may legitimately be missing: a pause, or a rejected batch.
GivenUp(m) == m \in dropped \/ m < feed.resume \/ \E e \in dead : m \in events[e]

\* "Restarting the collector backfills missing candles": a worker never starts
\* at or moves beyond a candle that is neither stored, nor on its way, nor given up.
Accounted(m) == m \in stored \/ OnItsWay(m) \/ GivenUp(m)

NoHoleBehindCursor ==
  collector.at = "live" => \A m \in market : m < collector.cursor => Accounted(m)

\* The same, as long as no user has ordered a backfill: whatever fails, is sent
\* twice or overtakes, the worker itself leaves no hole.
NothingSkipped == backfills = 0 => NoHoleBehindCursor

\* "Stream pending entries do not grow continuously": what is queued is settled
\* and acknowledged in the end, whichever consumer fails with it.
Backlog == \E e \in Ids : stream[e] \in {"new", "pending"}
StreamDrains == Backlog ~> ~Backlog

\* Every candle of the market reaches the database unless it is given up, if no
\* user orders a backfill.
CandlesArrive ==
  [](backfills = 0) => \A m \in Minutes : m \in market ~> m \in stored \/ GivenUp(m)

=============================================================================
