------------------------ MODULE CandleDelivery_proofs ------------------------
(***************************************************************************)
(* Proofs about CandleDelivery, for any number of consumers, threads,      *)
(* events and failures.  An event is applied at most once: a claim         *)
(* excludes every other one until it is committed or rolled back, and is   *)
(* only made of an event that has not been applied.  What is acknowledged  *)
(* was handled.  The collector leaves no hole: what it sends, is stored    *)
(* and is passed by its cursor from the oldest candle on.                  *)
(***************************************************************************)
EXTENDS CandleDelivery, FiniteSetTheorems, TLAPS

USE DEF Entries, Replies, Idle

\* A new event extends the four sequences by one.
LEMMA NewEventTypes ==
  ASSUME TypeOK, NEW batch \in SUBSET Minutes, NEW entry \in Entries, NewEvent(batch, entry)
  PROVE  /\ events' \in Seq(SUBSET Minutes) /\ Len(events') = Len(events) + 1
         /\ stream' \in Seq(Entries) /\ Len(stream') = Len(events')
         /\ replied' \in Seq(Replies) /\ Len(replied') = Len(events')
         /\ applied' \in Seq(Nat) /\ Len(applied') = Len(events')
         /\ Ids \subseteq Ids' /\ Len(events) + 1 \in Ids'
         /\ \A e \in Ids : applied'[e] = applied[e]
  <1>1. /\ events \in Seq(SUBSET Minutes) /\ stream \in Seq(Entries)
        /\ replied \in Seq(Replies) /\ applied \in Seq(Nat)
        /\ Len(stream) = Len(events) /\ Len(replied) = Len(events)
        /\ Len(applied) = Len(events)
    BY DEF TypeOK
  <1>2. /\ events' = Append(events, batch) /\ stream' = Append(stream, entry)
        /\ replied' = Append(replied, "none") /\ applied' = Append(applied, 0)
    BY DEF NewEvent
  <1>3. Ids = 1 .. Len(events) /\ Ids' = 1 .. Len(events')
    BY <1>1, <1>2 DEF Ids
  <1> QED
    BY <1>1, <1>2, <1>3

\* The jobs of the actors stay jobs of known events when events are added.
LEMMA JobsKept ==
  ASSUME TypeOK, Ids \subseteq Ids', NEW h \in Actors,
         job' = job \/ \E e \in Ids' : job' = [job EXCEPT ![h] = [at |-> "received", event |-> e]]
  PROVE  job' \in [Actors -> {Idle} \cup Busy']
  <1>1. job \in [Actors -> {Idle} \cup Busy']
    BY DEF TypeOK, Busy
  <1>2. ASSUME NEW e \in Ids', job' = [job EXCEPT ![h] = [at |-> "received", event |-> e]]
        PROVE  job' \in [Actors -> {Idle} \cup Busy']
    <2>1. [at |-> "received", event |-> e] \in Busy'
      BY <1>2 DEF Busy
    <2> QED
      BY <1>1, <1>2, <2>1
  <1> QED
    BY <1>1, <1>2

\* Nothing has been sent and nobody has claimed anything at first.
LEMMA InitInv == Init => Inv
  <1> SUFFICES ASSUME Init PROVE Inv
    OBVIOUS
  <1>1. TypeOK
    BY DeliveryAssumption DEF Init, TypeOK, Minutes, Ids
  <1>2. ClaimIsExclusive /\ AppliedOnce
    BY DEF Init, ClaimIsExclusive, AppliedOnce, Ids, Actors
  <1>3. SettledIsHandled /\ AckedIsSettled
    BY DEF Init, SettledIsHandled, AckedIsSettled, Settled, Ids, Actors
  <1> QED
    BY <1>1, <1>2, <1>3 DEF Inv

-----------------------------------------------------------------------------
(* Types. *)

CollectorRow ==
  [at : {"stopped", "down", "live", "sending", "waiting"}, transport : Transports,
   cursor : Nat, rest : SUBSET Minutes, next : Nat, event : Nat]

\* The rows of a collector that has failed, and of one whose batch was taken over.
LEMMA CollectorRows ==
  ASSUME collector \in CollectorRow, NEW batch
  PROVE  /\ Broken \in CollectorRow /\ [Broken EXCEPT !.at = "stopped"] \in CollectorRow
         /\ \A t \in Transports : [Broken EXCEPT !.transport = t] \in CollectorRow
         /\ Sent(batch) \in CollectorRow
  <1>1. Broken \in CollectorRow
    BY DEF Broken, CollectorRow
  <1>2. ASSUME NEW t \in Transports PROVE [Broken EXCEPT !.transport = t] \in CollectorRow
    BY <1>1 DEF CollectorRow
  <1>3. [Broken EXCEPT !.at = "stopped"] \in CollectorRow
    BY <1>1 DEF CollectorRow
  <1>4. collector.rest \ batch \in SUBSET Minutes
    BY DEF CollectorRow
  <1>5. Sent(batch) \in CollectorRow
    BY <1>4 DEF Sent, CollectorRow
  <1> QED
    BY <1>1, <1>2, <1>3, <1>5

\* A step that leaves the events, the stream and ingestion alone keeps the types
\* when it keeps those of the other variables.
LEMMA TypesKept ==
  ASSUME TypeOK, UNCHANGED <<events, api>>,
         now' \in Minutes, market' \subseteq Minutes, collector' \in CollectorRow,
         feed' \in [paused : BOOLEAN, resume : Nat],
         failures' \in 0 .. MaxFailures, {pauses', backfills'} \subseteq 0 .. MaxRequests
  PROVE  TypeOK'
  <1>1. /\ events' = events /\ stream' = stream /\ job' = job /\ replied' = replied
        /\ applied' = applied /\ stored' = stored /\ dead' = dead /\ dropped' = dropped
    BY DEF api
  <1>2. Ids' = Ids /\ Minutes' = Minutes
    BY <1>1 DEF Ids, Minutes
  <1>3. Busy' = Busy
    BY <1>2 DEF Busy
  <1> QED
    BY <1>1, <1>2, <1>3 DEF TypeOK, CollectorRow, Minutes

\* The steps of the collector that send nothing.
LEMMA CollectorTypes ==
  ASSUME TypeOK,
         Register \/ Poll \/ Accepted \/ Refused \/ CollectorFails \/ StopWorker \/ StartWorker
  PROVE  TypeOK'
  <1>1. /\ collector \in CollectorRow /\ market \subseteq Minutes /\ now \in Minutes
        /\ feed \in [paused : BOOLEAN, resume : Nat] /\ feed.resume \in Nat
        /\ failures \in 0 .. MaxFailures /\ {pauses, backfills} \subseteq 0 .. MaxRequests
    BY DEF TypeOK, CollectorRow
  <1>2. ASSUME NEW S PROVE After(S) \subseteq Nat
    BY DeliveryAssumption DEF After
  <1>3. CASE Register
    <2>1. PICK newest \in After(stored) :
            collector' = [collector EXCEPT !.at = "live", !.cursor = StartCursor(newest),
                                           !.rest = {}, !.event = 0]
      BY <1>3 DEF Register
    <2>2. StartCursor(newest) \in Nat
      BY <1>1, <1>2 DEF StartCursor, Later
    <2>3. collector' \in CollectorRow
      BY <1>1, <2>1, <2>2 DEF CollectorRow
    <2> QED
      BY <1>1, <1>3, <2>3, TypesKept DEF Register, counters
  <1>4. CASE Poll
    <2>1. PICK next \in After(Fetched) :
            collector' = [collector EXCEPT !.at = "sending", !.rest = Fetched, !.next = next]
      BY <1>4 DEF Poll
    <2>2. Fetched \subseteq Minutes
      BY <1>1 DEF Fetched
    <2>3. collector' \in CollectorRow
      BY <1>1, <1>2, <2>1, <2>2 DEF CollectorRow
    <2> QED
      BY <1>1, <1>4, <2>3, TypesKept DEF Poll, counters
  <1>5. CASE Accepted
    <2>1. collector' \in CollectorRow
      BY <1>1, <1>5, CollectorRows DEF Accepted
    <2> QED
      BY <1>1, <1>5, <2>1, TypesKept DEF Accepted, counters
  <1>6. CASE Refused \/ StopWorker \/ StartWorker
    <2>1. collector' \in CollectorRow
      BY <1>1, <1>6, CollectorRows DEF Refused, StopWorker, StartWorker
    <2> QED
      BY <1>1, <1>6, <2>1, TypesKept DEF Refused, StopWorker, StartWorker, counters
  <1>7. CASE CollectorFails
    <2>1. collector' \in CollectorRow
      BY <1>1, <1>7, CollectorRows DEF CollectorFails
    <2>2. failures' \in 0 .. MaxFailures /\ UNCHANGED <<pauses, backfills>>
      BY <1>1, <1>7, DeliveryAssumption DEF CollectorFails, Failure
    <2> QED
      BY <1>1, <1>7, <2>1, <2>2, TypesKept DEF CollectorFails
  <1> QED
    BY <1>3, <1>4, <1>5, <1>6, <1>7

\* The steps that send an event.
LEMMA SendingTypes ==
  ASSUME TypeOK, Publish \/ Post \/ Backfill
  PROVE  TypeOK'
  <1>1. collector \in CollectorRow /\ market \subseteq Minutes /\ Len(events) \in Nat
    BY DEF TypeOK, CollectorRow
  <1>2. ASSUME NEW S \in SUBSET Minutes PROVE Batch(S) \in SUBSET Minutes
    BY DEF Batch
  <1>3. PICK batch \in SUBSET Minutes, entry \in Entries : NewEvent(batch, entry)
    <2>1. CASE Publish
      BY <1>1, <1>2, <2>1 DEF Publish, CollectorRow
    <2>2. CASE Post
      BY <1>1, <1>2, <2>2 DEF Post, CollectorRow
    <2>3. CASE Backfill
      BY <1>1, <2>3 DEF Backfill
    <2> QED
      BY <2>1, <2>2, <2>3
  <1> DEFINE Sequences ==
        /\ events' \in Seq(SUBSET Minutes) /\ Len(events') = Len(events) + 1
        /\ stream' \in Seq(Entries) /\ Len(stream') = Len(events')
        /\ replied' \in Seq(Replies) /\ Len(replied') = Len(events')
        /\ applied' \in Seq(Nat) /\ Len(applied') = Len(events')
        /\ Ids \subseteq Ids' /\ Len(events) + 1 \in Ids'
  <1>4. Sequences
    BY <1>3, NewEventTypes
  <1>5. job' \in [Actors -> {Idle} \cup Busy']
    <2>1. CASE job' = job
      BY <1>4, <2>1 DEF TypeOK, Busy
    <2>2. CASE \E h \in Threads : job' = [job EXCEPT ![h] = Received]
      <3>1. PICK h \in Threads : job' = [job EXCEPT ![h] = Received]
        BY <2>2
      <3>2. h \in Actors
        BY DEF Actors
      <3> QED
        BY <1>4, <3>1, <3>2, JobsKept DEF Received
    <2> QED
      BY <2>1, <2>2 DEF Publish, Post, Backfill
  <1>6. collector' \in CollectorRow
    <2>1. CASE Publish
      BY <1>1, <2>1, CollectorRows DEF Publish
    <2>2. CASE Post
      <3> DEFINE n == Len(events) + 1
      <3>1. collector' = [collector EXCEPT !.at = "waiting", !.event = n] /\ n \in Nat
        BY <1>1, <2>2 DEF Post
      <3> HIDE DEF n
      <3> QED
        BY <1>1, <3>1 DEF CollectorRow
    <2>3. CASE Backfill
      BY <1>1, <2>3 DEF Backfill
    <2> QED
      BY <2>1, <2>2, <2>3
  <1>7. failures' \in 0 .. MaxFailures /\ {pauses', backfills'} \subseteq 0 .. MaxRequests
    <2>1. /\ failures \in 0 .. MaxFailures /\ MaxFailures \in Nat /\ MaxRequests \in Nat
          /\ pauses \in 0 .. MaxRequests /\ backfills \in 0 .. MaxRequests
      BY DeliveryAssumption DEF TypeOK
    <2>2. CASE UNCHANGED counters
      BY <2>1, <2>2 DEF counters
    <2>3. CASE Failure
      BY <2>1, <2>3 DEF Failure
    <2>4. CASE Backfill
      BY <2>1, <2>4 DEF Backfill
    <2> QED
      BY <2>2, <2>3, <2>4 DEF Publish, Post
  <1>8. dead' \subseteq Ids'
    BY <1>4 DEF TypeOK, Publish, Post, Backfill
  <1> HIDE DEF Sequences
  <1>9. UNCHANGED <<now, market, stored, dropped, feed>>
    BY DEF Publish, Post, Backfill
  <1>10. Sequences
    BY <1>4
  <1> QED
    BY <1>5, <1>6, <1>7, <1>8, <1>9, <1>10 DEF TypeOK, CollectorRow, Sequences, Minutes

\* What the steps of consumers and threads leave alone, and how their sets grow.
LEMMA IngestionFrame ==
  ASSUME TypeOK, NEW a \in Actors,
         \/ a \in Consumers /\ (Read(a) \/ Reclaim(a) \/ DeadLetter(a) \/ Acknowledge(a))
         \/ Known(a) \/ Drop(a) \/ Claim(a) \/ Commit(a) \/ Reject(a) \/ Abandon(a)
  PROVE  /\ UNCHANGED <<now, market, collector, events, feed, pauses, backfills>>
         /\ failures' = failures \/ (failures < MaxFailures /\ failures' = failures + 1)
         /\ applied' = applied \/ Commit(a)
         /\ dead' = dead \/ (job[a] # Idle /\ dead' = dead \cup {job[a].event})
         /\ stored' = stored \/ (job[a] # Idle /\ stored' = stored \cup events[job[a].event])
         /\ dropped' = dropped \/ (job[a] # Idle /\ dropped' = dropped \cup events[job[a].event])
  <1>1. CASE Read(a)
    BY <1>1 DEF Read, counters
  <1>2. CASE Reclaim(a)
    BY <1>2 DEF Reclaim, counters
  <1>3. CASE DeadLetter(a)
    BY <1>3 DEF DeadLetter, counters, Idle
  <1>4. CASE Acknowledge(a)
    BY <1>4 DEF Acknowledge, counters
  <1>5. CASE Known(a)
    BY <1>5 DEF Known, counters
  <1>6. CASE Drop(a)
    BY <1>6 DEF Drop, counters, Idle
  <1>7. CASE Claim(a)
    BY <1>7 DEF Claim, counters
  <1>8. CASE Commit(a)
    BY <1>8 DEF Commit, counters, Idle
  <1>9. CASE Reject(a)
    BY <1>9 DEF Reject, Failure
  <1>10. CASE Abandon(a)
    BY <1>10 DEF Abandon, Failure
  <1> QED
    BY <1>1, <1>2, <1>3, <1>4, <1>5, <1>6, <1>7, <1>8, <1>9, <1>10

\* The steps of consumers and threads: each changes its own job, and at most the
\* entry, the reply and the count of the event it works on.
LEMMA IngestionTypes ==
  ASSUME TypeOK, NEW a \in Actors,
         \/ a \in Consumers /\ (Read(a) \/ Reclaim(a) \/ DeadLetter(a) \/ Acknowledge(a))
         \/ Known(a) \/ Drop(a) \/ Claim(a) \/ Commit(a) \/ Reject(a) \/ Abandon(a)
  PROVE  TypeOK'
  <1> DEFINE Rows ==
        /\ stream \in Seq(Entries) /\ Len(stream) = Len(events)
        /\ replied \in Seq(Replies) /\ Len(replied) = Len(events)
        /\ applied \in Seq(Nat) /\ Len(applied) = Len(events)
  <1>1. events' = events /\ Ids' = Ids /\ Busy' = Busy
    BY DEF Read, Reclaim, DeadLetter, Acknowledge, Known, Drop, Claim, Commit, Reject, Abandon,
           Ids, Busy
  <1>2. job[a] \in {Idle} \cup Busy /\ Ids = 1 .. Len(events)
    BY DEF TypeOK, Ids
  <1>3. job[a] # Idle => job[a].event \in Ids
    BY <1>2 DEF Busy
  <1>4. job' \in [Actors -> {Idle} \cup Busy]
    <2>1. CASE Read(a) \/ Reclaim(a)
      <3>1. PICK e \in Ids : job' = [job EXCEPT ![a] = [at |-> "received", event |-> e]]
        BY <2>1 DEF Read, Reclaim, Reclaimable
      <3> QED
        BY <1>1, <3>1, JobsKept
    <2>2. CASE \E at \in {"claimed", "applied", "rejected", "dead"} :
                 job[a] # Idle /\ job' = [job EXCEPT ![a].at = at]
      <3>1. PICK at \in {"claimed", "applied", "rejected", "dead"} :
              job[a] # Idle /\ job' = [job EXCEPT ![a].at = at]
        BY <2>2
      <3>2. [job[a] EXCEPT !.at = at] \in Busy
        BY <1>2, <3>1 DEF Busy
      <3> QED
        BY <3>1, <3>2 DEF TypeOK
    <2>3. CASE job' = [job EXCEPT ![a] = Idle]
      BY <2>3 DEF TypeOK
    <2> QED
      BY <2>1, <2>2, <2>3
         DEF DeadLetter, Acknowledge, Known, Drop, Claim, Commit, Reject, Abandon, Finished
  <1>5. Rows
    BY DEF TypeOK
  <1>6. stream' \in Seq(Entries) /\ Len(stream') = Len(events)
    <2>1. CASE stream' = stream
      BY <1>5, <2>1
    <2>2. CASE \E e \in Ids, x \in Entries : stream' = [stream EXCEPT ![e] = x]
      BY <1>2, <1>5, <2>2
    <2> QED
      BY <1>3, <2>1, <2>2
         DEF Read, Reclaim, DeadLetter, Acknowledge, Known, Drop, Claim, Commit, Reject,
             Abandon, Settled
  <1>7. replied' \in Seq(Replies) /\ Len(replied') = Len(events)
    <2>1. CASE replied' = replied
      BY <1>5, <2>1
    <2>2. CASE \E e \in Ids, x \in Replies : replied' = [replied EXCEPT ![e] = x]
      BY <1>2, <1>5, <2>2
    <2> QED
      BY <1>3, <2>1, <2>2
         DEF Read, Reclaim, DeadLetter, Acknowledge, Known, Drop, Claim, Commit, Reject,
             Abandon, Finished
  <1>8. applied' \in Seq(Nat) /\ Len(applied') = Len(events)
    <2>1. CASE applied' = applied
      BY <1>5, <2>1
    <2>2. CASE Commit(a)
      <3> DEFINE k == job[a].event
      <3>1. job[a].at = "claimed" /\ applied' = [applied EXCEPT ![k] = @ + 1]
        BY <2>2 DEF Commit
      <3>2. k \in 1 .. Len(events)
        BY <1>2, <1>3, <3>1 DEF Idle
      <3> HIDE DEF k
      <3> QED
        BY <1>5, <3>1, <3>2
    <2> QED
      BY <2>1, <2>2, IngestionFrame
  <1>9. dead' \subseteq Ids /\ stored' \subseteq Minutes /\ dropped' \subseteq Minutes
    <2>1. job[a] # Idle => events[job[a].event] \subseteq Minutes
      <3> DEFINE k == job[a].event
      <3>1. job[a] # Idle => k \in 1 .. Len(events)
        BY <1>2, <1>3
      <3>2. events \in Seq(SUBSET Minutes)
        BY DEF TypeOK
      <3> HIDE DEF k
      <3>3. job[a] # Idle => events[k] \in SUBSET Minutes
        BY <3>1, <3>2
      <3> QED
        BY <3>3 DEF k
    <2>2. dead \subseteq Ids /\ stored \subseteq Minutes /\ dropped \subseteq Minutes
      BY DEF TypeOK
    <2> QED
      BY <1>3, <2>1, <2>2, IngestionFrame
  <1>10. failures' \in 0 .. MaxFailures /\ UNCHANGED <<pauses, backfills>>
    <2>1. failures \in 0 .. MaxFailures /\ MaxFailures \in Nat
      BY DeliveryAssumption DEF TypeOK
    <2>2. /\ UNCHANGED <<pauses, backfills>>
          /\ failures' = failures \/ (failures < MaxFailures /\ failures' = failures + 1)
      BY IngestionFrame
    <2> QED
      BY <2>1, <2>2
  <1>11. UNCHANGED <<now, market, collector, feed>>
    BY IngestionFrame
  <1> QED
    BY <1>1, <1>4, <1>6, <1>7, <1>8, <1>9, <1>10, <1>11 DEF TypeOK, Minutes

\* Every step keeps the types: one case for each action.
LEMMA StepTypes ==
  ASSUME TypeOK, [Next]_vars
  PROVE  TypeOK'
  <1> DEFINE Kept ==
        /\ now \in Minutes /\ market \subseteq Minutes /\ collector \in CollectorRow
        /\ feed \in [paused : BOOLEAN, resume : Nat]
        /\ failures \in 0 .. MaxFailures
        /\ pauses \in 0 .. MaxRequests /\ backfills \in 0 .. MaxRequests
        /\ MaxTime \in Nat /\ MaxRequests \in Nat
  <1>0. Kept
    BY DeliveryAssumption DEF TypeOK, CollectorRow
  <1>1. CASE UNCHANGED vars
    BY <1>1, <1>0, TypesKept DEF vars, counters
  <1>2. CASE MinutePasses
    <2>1. now' \in Minutes /\ market' \subseteq Minutes
      BY <1>2, <1>0 DEF MinutePasses, Minutes
    <2> QED
      BY <1>2, <1>0, <2>1, TypesKept DEF MinutePasses, counters
  <1>3. CASE PauseFeed
    <2>1. feed' \in [paused : BOOLEAN, resume : Nat] /\ pauses' \in 0 .. MaxRequests
      <3>1. feed \in [paused : BOOLEAN, resume : Nat] /\ feed' = [feed EXCEPT !.paused = TRUE]
        BY <1>3, <1>0 DEF PauseFeed
      <3>2. pauses \in 0 .. MaxRequests /\ backfills \in 0 .. MaxRequests /\ MaxRequests \in Nat
        BY <1>0
      <3>3. pauses + backfills < MaxRequests /\ pauses' = pauses + 1
        BY <1>3 DEF PauseFeed
      <3>4. pauses' \in 0 .. MaxRequests
        BY <3>2, <3>3
      <3> QED
        BY <3>1, <3>4
    <2> QED
      BY <1>3, <1>0, <2>1, TypesKept DEF PauseFeed
  <1>8. CASE ResumeFeed
    <2>1. feed' \in [paused : BOOLEAN, resume : Nat]
      BY <1>8, <1>0 DEF ResumeFeed, Minutes
    <2>2. pauses' \in 0 .. MaxRequests
      <3>1. pauses \in 0 .. MaxRequests /\ backfills \in 0 .. MaxRequests /\ MaxRequests \in Nat
        BY <1>0
      <3>2. pauses' = pauses \/ (pauses + backfills < MaxRequests /\ pauses' = pauses + 1)
        BY <1>8 DEF ResumeFeed
      <3> QED
        BY <3>1, <3>2
    <2> QED
      BY <1>8, <1>0, <2>1, <2>2, TypesKept DEF ResumeFeed
  <1>4. CASE Register \/ Poll \/ Accepted \/ Refused \/ CollectorFails \/ StopWorker \/ StartWorker
    BY <1>4, CollectorTypes
  <1>5. CASE Publish \/ Post \/ Backfill
    BY <1>5, SendingTypes
  <1>6. ASSUME NEW a \in Actors,
               \/ a \in Consumers /\ (Read(a) \/ Reclaim(a) \/ DeadLetter(a) \/ Acknowledge(a))
               \/ Known(a) \/ Drop(a) \/ Claim(a) \/ Commit(a) \/ Reject(a) \/ Abandon(a)
        PROVE  TypeOK'
    BY <1>6, IngestionTypes
  <1>7. Consumers \subseteq Actors
    BY DEF Actors
  <1> QED
    BY <1>1, <1>2, <1>3, <1>4, <1>5, <1>6, <1>7, <1>8 DEF Next

-----------------------------------------------------------------------------
(* Claims. *)

Claims == ClaimIsExclusive /\ AppliedOnce

\* A step that claims nothing and applies nothing keeps the claims exclusive.
LEMMA ClaimsKept ==
  ASSUME TypeOK, Claims,
         \A a \in Actors : job'[a].at = "claimed" => job'[a] = job[a],
         \A e \in Ids : applied'[e] = applied[e],
         \A e \in Ids' \ Ids : applied'[e] = 0
  PROVE  Claims'
  <1>1. AppliedOnce'
    BY DEF Claims, AppliedOnce
  <1>2. ASSUME NEW a \in Actors, job'[a].at = "claimed"
        PROVE  applied'[job'[a].event] = 0 /\ ~ClaimedByOther(a, job[a].event)'
    <2>1. job'[a] = job[a] /\ job[a].at = "claimed"
      BY <1>2
    <2>2. job[a].event \in Ids
      BY <2>1 DEF TypeOK, Busy
    <2>3. applied[job[a].event] = 0 /\ ~ClaimedByOther(a, job[a].event)
      BY <2>1 DEF Claims, ClaimIsExclusive
    <2> QED
      BY <1>2, <2>1, <2>2, <2>3 DEF ClaimedByOther
  <1> QED
    BY <1>1, <1>2 DEF Claims, ClaimIsExclusive

\* A claim is only made when nobody else has claimed the event.
LEMMA ClaimClaims ==
  ASSUME TypeOK, Claims, NEW a \in Actors, Claim(a)
  PROVE  Claims'
  <1>1. /\ job' = [job EXCEPT ![a].at = "claimed"] /\ applied' = applied /\ events' = events
        /\ applied[job[a].event] = 0 /\ ~ClaimedByOther(a, job[a].event)
    BY DEF Claim, Waits
  <1>2. AppliedOnce'
    BY <1>1 DEF Claims, AppliedOnce, Ids
  <1>3. job'[a].event = job[a].event /\ \A b \in Actors \ {a} : job'[b] = job[b]
    BY <1>1 DEF TypeOK
  <1>4. ASSUME NEW b \in Actors, job'[b].at = "claimed"
        PROVE  applied'[job'[b].event] = 0 /\ ~ClaimedByOther(b, job[b].event)'
    <2>1. CASE b = a
      BY <1>1, <1>3, <2>1 DEF ClaimedByOther
    <2>2. CASE b # a
      <3>1. job'[b] = job[b] /\ job[b].at = "claimed"
        BY <1>3, <1>4, <2>2
      <3>2. applied[job[b].event] = 0 /\ ~ClaimedByOther(b, job[b].event)
        BY <3>1 DEF Claims, ClaimIsExclusive
      <3>3. job[a].event # job[b].event
        BY <1>1, <2>2, <3>1 DEF ClaimedByOther
      <3> QED
        BY <1>1, <1>3, <3>1, <3>2, <3>3 DEF ClaimedByOther
    <2> QED
      BY <2>1, <2>2
  <1> QED
    BY <1>2, <1>4 DEF Claims, ClaimIsExclusive

\* A commit applies an event nobody else has claimed, for the first time.
LEMMA CommitClaims ==
  ASSUME TypeOK, Claims, NEW a \in Actors, Commit(a)
  PROVE  Claims'
  <1>1. /\ job[a].at = "claimed" /\ events' = events
        /\ applied' = [applied EXCEPT ![job[a].event] = @ + 1]
        /\ job' = [job EXCEPT ![a].at = "applied"] \/ job' = [job EXCEPT ![a] = Idle]
    BY DEF Commit, Finished
  <1>2. job[a].event \in Ids /\ Ids' = Ids /\ Ids = DOMAIN applied
    BY <1>1 DEF TypeOK, Busy, Ids
  <1>3. applied[job[a].event] = 0 /\ ~ClaimedByOther(a, job[a].event)
    BY <1>1 DEF Claims, ClaimIsExclusive
  <1>4. /\ applied'[job[a].event] = 1
        /\ \A e \in Ids \ {job[a].event} : applied'[e] = applied[e]
    BY <1>1, <1>2, <1>3 DEF TypeOK
  <1>5. AppliedOnce'
    BY <1>2, <1>4 DEF Claims, AppliedOnce
  <1>6. job'[a].at # "claimed" /\ \A b \in Actors \ {a} : job'[b] = job[b]
    <2>1. job \in [Actors -> {Idle} \cup Busy]
      BY DEF TypeOK
    <2>2. job[a] \in Busy
      BY <1>1, <2>1 DEF Idle
    <2>3. CASE job' = [job EXCEPT ![a].at = "applied"]
      <3>1. [job[a] EXCEPT !.at = "applied"].at = "applied"
        BY <2>2 DEF Busy
      <3> QED
        BY <2>1, <2>3, <3>1
    <2>4. CASE job' = [job EXCEPT ![a] = Idle]
      BY <2>1, <2>4 DEF Idle
    <2> QED
      BY <1>1, <2>3, <2>4
  <1>7. ASSUME NEW b \in Actors, job'[b].at = "claimed"
        PROVE  applied'[job'[b].event] = 0 /\ ~ClaimedByOther(b, job[b].event)'
    <2>1. b # a /\ job'[b] = job[b] /\ job[b].at = "claimed"
      BY <1>6, <1>7
    <2>2. job[b].event \in Ids
      BY <2>1 DEF TypeOK, Busy
    <2>3. job[b].event # job[a].event
      BY <1>3, <2>1 DEF ClaimedByOther
    <2>4. applied[job[b].event] = 0 /\ ~ClaimedByOther(b, job[b].event)
      BY <2>1 DEF Claims, ClaimIsExclusive
    <2> QED
      BY <1>4, <1>6, <2>1, <2>2, <2>3, <2>4 DEF ClaimedByOther
  <1> QED
    BY <1>5, <1>7 DEF Claims, ClaimIsExclusive

\* The other steps of consumers and threads neither claim nor apply.
LEMMA OtherClaims ==
  ASSUME TypeOK, Claims, NEW a \in Actors,
         \/ Read(a) \/ Reclaim(a) \/ DeadLetter(a) \/ Acknowledge(a)
         \/ Known(a) \/ Drop(a) \/ Reject(a) \/ Abandon(a)
  PROVE  Claims'
  <1>1. applied' = applied /\ events' = events
    BY DEF Read, Reclaim, DeadLetter, Acknowledge, Known, Drop, Reject, Abandon
  <1>2. \A b \in Actors : job'[b].at = "claimed" => job'[b] = job[b]
    <2>1. CASE \E j : j.at # "claimed" /\ job' = [job EXCEPT ![a] = j]
      BY <2>1 DEF TypeOK
    <2>2. CASE \E at \in {"applied", "rejected", "dead"} : job' = [job EXCEPT ![a].at = at]
      BY <2>2 DEF TypeOK
    <2> QED
      BY <2>1, <2>2
         DEF Read, Reclaim, DeadLetter, Acknowledge, Known, Drop, Reject, Abandon, Finished
  <1> QED
    BY <1>1, <1>2, ClaimsKept DEF Ids

\* The steps of the collector, of users and of the clock.
LEMMA EnvironmentClaims ==
  ASSUME TypeOK, Claims,
         \/ MinutePasses \/ Register \/ Poll \/ Publish \/ Post \/ Accepted \/ Refused
         \/ CollectorFails \/ StopWorker \/ StartWorker \/ Backfill \/ PauseFeed \/ ResumeFeed
         \/ UNCHANGED vars
  PROVE  Claims'
  <1>1. \A a \in Actors : job'[a].at = "claimed" => job'[a] = job[a]
    <2>1. CASE job' = job
      BY <2>1
    <2>2. CASE \E h \in Threads : job' = [job EXCEPT ![h] = Received]
      BY <2>2 DEF TypeOK, Received
    <2> QED
      BY <2>1, <2>2
         DEF MinutePasses, Register, Poll, Publish, Post, Accepted, Refused, CollectorFails,
             StopWorker, StartWorker, Backfill, PauseFeed, ResumeFeed, vars, api
  <1>2. CASE UNCHANGED <<events, applied>>
    BY <1>1, <1>2, ClaimsKept DEF Ids
  <1>3. CASE \E batch : NewEvent(batch, "none") \/ NewEvent(batch, "new")
    <2>1. PICK batch : applied' = Append(applied, 0) /\ events' = Append(events, batch)
      BY <1>3 DEF NewEvent
    <2>2. /\ applied \in Seq(Nat) /\ events \in Seq(SUBSET Minutes)
          /\ Len(applied) = Len(events)
      BY DEF TypeOK
    <2>3. Ids = 1 .. Len(applied) /\ Ids' = 1 .. Len(applied) + 1
      BY <2>1, <2>2 DEF Ids
    <2>4. (\A e \in Ids : applied'[e] = applied[e]) /\ (\A e \in Ids' \ Ids : applied'[e] = 0)
      BY <2>1, <2>2, <2>3
    <2> QED
      BY <1>1, <2>4, ClaimsKept
  <1> QED
    BY <1>2, <1>3
       DEF MinutePasses, Register, Poll, Publish, Post, Accepted, Refused, CollectorFails,
           StopWorker, StartWorker, Backfill, PauseFeed, ResumeFeed, vars, api

\* Every step keeps the claims exclusive: one case for each action.
LEMMA StepClaims ==
  ASSUME TypeOK, Claims, [Next]_vars
  PROVE  Claims'
  <1>1. Consumers \subseteq Actors
    BY DEF Actors
  <1> QED
    BY <1>1, ClaimClaims, CommitClaims, OtherClaims, EnvironmentClaims DEF Next

-----------------------------------------------------------------------------
(* Settlement. *)

Settlement == SettledIsHandled /\ AckedIsSettled

\* What has been handled stays handled when the three records of it grow.
LEMMA HandledStays ==
  ASSUME NEW e, Handled(e), events'[e] = events[e],
         applied'[e] = applied[e] \/ applied'[e] > 0,
         dead \subseteq dead', dropped \subseteq dropped'
  PROVE  Handled(e)'
  BY DEF Handled

\* A step after which only handled events are newly settled or acknowledged.
LEMMA SettlementKept ==
  ASSUME TypeOK, Settlement,
         \A e \in Ids : e \in Ids' /\ (Handled(e) => Handled(e)'),
         \A c \in Consumers : job'[c].at \in Settled =>
           job'[c] = job[c] \/ Handled(job[c].event)',
         \A e \in Ids' : stream'[e] = "acked" =>
           (e \in Ids /\ stream'[e] = stream[e]) \/ Handled(e)'
  PROVE  Settlement'
  <1>1. ASSUME NEW c \in Consumers, job'[c].at \in Settled
        PROVE  Handled(job[c].event)'
    <2>1. CASE job'[c] = job[c]
      <3>1. job[c].at \in Settled /\ c \in Actors
        BY <1>1, <2>1 DEF Actors
      <3>2. job[c].event \in Ids
        BY <3>1 DEF TypeOK, Busy, Settled
      <3>3. Handled(job[c].event)
        BY <3>1 DEF Settlement, SettledIsHandled
      <3>4. Handled(job[c].event)'
        BY <2>1, <3>2, <3>3 DEF Handled
      <3> QED
        BY <3>4
    <2> QED
      BY <1>1, <2>1
  <1>2. ASSUME NEW e \in Ids', stream'[e] = "acked"
        PROVE  Handled(e)'
    BY <1>2 DEF Settlement, AckedIsSettled
  <1> QED
    BY <1>1, <1>2 DEF Settlement, SettledIsHandled, AckedIsSettled, Settled

\* Every other step of the collector, of users and of the clock.
LEMMA EnvironmentSettlement ==
  ASSUME TypeOK, Settlement,
         \/ MinutePasses \/ Register \/ Poll \/ Publish \/ Post \/ Accepted \/ Refused
         \/ CollectorFails \/ StopWorker \/ StartWorker \/ Backfill \/ PauseFeed \/ ResumeFeed
         \/ UNCHANGED vars
  PROVE  Settlement'
  <1>1. \A c \in Consumers : job'[c].at \in Settled => job'[c] = job[c]
    <2>1. CASE job' = job
      BY <2>1
    <2>2. CASE \E h \in Threads : job' = [job EXCEPT ![h] = Received]
      <3>1. job \in [Actors -> {Idle} \cup Busy] /\ Consumers \subseteq Actors
        BY DEF TypeOK, Actors
      <3> QED
        BY <2>2, <3>1 DEF Received, Settled
    <2> QED
      BY <2>1, <2>2
         DEF MinutePasses, Register, Poll, Publish, Post, Accepted, Refused, CollectorFails,
             StopWorker, StartWorker, Backfill, PauseFeed, ResumeFeed, vars, api
  <1>2. CASE UNCHANGED <<events, stream, applied, dead, dropped>>
    BY <1>1, <1>2, SettlementKept DEF Ids, Handled
  <1>3. CASE /\ \E batch : NewEvent(batch, "none") \/ NewEvent(batch, "new")
             /\ UNCHANGED <<dead, dropped>>
    <2>0. PICK batch : NewEvent(batch, "none") \/ NewEvent(batch, "new")
      BY <1>3
    <2>1. PICK entry \in {"none", "new"} :
            /\ applied' = Append(applied, 0) /\ events' = Append(events, batch)
            /\ stream' = Append(stream, entry)
      BY <2>0 DEF NewEvent
    <2>2. /\ applied \in Seq(Nat) /\ events \in Seq(SUBSET Minutes) /\ stream \in Seq(Entries)
          /\ Len(applied) = Len(events) /\ Len(stream) = Len(events)
      BY DEF TypeOK
    <2>3. Ids = 1 .. Len(events) /\ Ids' = 1 .. Len(events) + 1
      BY <2>1, <2>2 DEF Ids
    <2>4. ASSUME NEW e \in Ids
          PROVE  /\ events'[e] = events[e] /\ applied'[e] = applied[e]
                 /\ stream'[e] = stream[e] /\ e \in Ids'
      BY <2>1, <2>2, <2>3
    <2>5. \A e \in Ids : Handled(e) => Handled(e)'
      BY <1>3, <2>4, HandledStays
    <2>6. \A e \in Ids' \ Ids : stream'[e] = entry
      BY <2>1, <2>2, <2>3
    <2> QED
      BY <1>1, <2>1, <2>4, <2>5, <2>6, SettlementKept
  <1> QED
    BY <1>2, <1>3
       DEF MinutePasses, Register, Poll, Publish, Post, Accepted, Refused, CollectorFails,
           StopWorker, StartWorker, Backfill, PauseFeed, ResumeFeed, vars, api

\* The steps of consumers and threads.
LEMMA IngestionSettlement ==
  ASSUME TypeOK, Settlement, NEW a \in Actors,
         \/ a \in Consumers /\ (Read(a) \/ Reclaim(a) \/ DeadLetter(a) \/ Acknowledge(a))
         \/ Known(a) \/ Drop(a) \/ Claim(a) \/ Commit(a) \/ Reject(a) \/ Abandon(a)
  PROVE  Settlement'
  <1> DEFINE Shared == /\ events' = events /\ Ids' = Ids /\ Ids = DOMAIN applied /\ Ids = DOMAIN stream
                       /\ dead \subseteq dead' /\ dropped \subseteq dropped'
                       /\ \A b \in Actors \ {a} : job'[b] = job[b]
                       /\ \A e \in Ids : applied[e] \in Nat
                       /\ job \in [Actors -> {Idle} \cup Busy]
  <1>1. Shared
    <2>1. events' = events /\ Ids' = Ids /\ dead \subseteq dead' /\ dropped \subseteq dropped'
      BY IngestionFrame DEF Ids
    <2>2. \A b \in Actors \ {a} : job'[b] = job[b]
      BY DEF TypeOK, Read, Reclaim, DeadLetter, Acknowledge, Known, Drop, Claim, Commit,
             Reject, Abandon, Finished
    <2>3. /\ Ids = DOMAIN applied /\ Ids = DOMAIN stream /\ \A e \in Ids : applied[e] \in Nat
          /\ job \in [Actors -> {Idle} \cup Busy]
      BY DEF TypeOK, Ids
    <2> QED
      BY <2>1, <2>2, <2>3
  <1>2. job[a] # Idle => job[a] \in Busy /\ job[a].event \in Ids
    BY <1>1 DEF Busy
  <1> HIDE DEF Shared
  <1>3. \A e \in Ids : Handled(e) => Handled(e)'
    <2>1. CASE applied' = applied
      BY <1>1, <2>1, HandledStays DEF Shared
    <2>2. CASE Commit(a)
      <3>0. job[a].at = "claimed" /\ applied' = [applied EXCEPT ![job[a].event] = @ + 1]
        BY <2>2 DEF Commit
      <3>1. job[a].event \in Ids
        BY <1>2, <3>0 DEF Idle
      <3>2. \A e \in Ids : applied'[e] = applied[e] \/ applied'[e] > 0
        <4> DEFINE k == job[a].event
        <4>1. k \in Ids /\ applied' = [applied EXCEPT ![k] = @ + 1]
          BY <3>0, <3>1
        <4> HIDE DEF k
        <4> QED
          BY <1>1, <4>1 DEF Shared
      <3> QED
        BY <1>1, <3>2, HandledStays DEF Shared
    <2> QED
      BY <2>1, <2>2, IngestionFrame
  <1>4. ASSUME a \in Consumers, job'[a].at \in Settled
        PROVE  job'[a] = job[a] \/ Handled(job[a].event)'
    <2>1. CASE Read(a) \/ Reclaim(a) \/ Acknowledge(a) \/ Claim(a) \/ Reject(a) \/ Abandon(a)
      <3>1. CASE \E j : j.at \in {"idle", "received"} /\ job' = [job EXCEPT ![a] = j]
        BY <1>1, <1>4, <3>1 DEF Shared, Settled
      <3>2. CASE \E at \in {"claimed", "rejected"} :
                   job[a] # Idle /\ job' = [job EXCEPT ![a].at = at]
        <4>1. PICK at \in {"claimed", "rejected"} :
                job[a] # Idle /\ job' = [job EXCEPT ![a].at = at]
          BY <3>2
        <4>2. [job[a] EXCEPT !.at = at].at = at
          BY <1>2, <4>1 DEF Busy
        <4>3. job'[a].at = at
          BY <1>1, <4>1, <4>2 DEF Shared
        <4> QED
          BY <1>4, <4>1, <4>3 DEF Settled
      <3> QED
        BY <2>1, <3>1, <3>2 DEF Read, Reclaim, Acknowledge, Claim, Reject, Abandon
    <2>2. CASE Known(a) \/ Drop(a) \/ Commit(a) \/ DeadLetter(a)
      <3>1. PICK k \in Ids : job[a].event = k /\ job[a] \in Busy
        BY <1>2, <2>2 DEF Known, Drop, Commit, DeadLetter, Idle
      <3>2. job'[a].event = k
        <4>1. \E at : job' = [job EXCEPT ![a].at = at]
          BY <1>4, <2>2 DEF Known, Drop, Commit, DeadLetter, Finished
        <4>2. PICK at : job' = [job EXCEPT ![a].at = at]
          BY <4>1
        <4>3. [job[a] EXCEPT !.at = at].event = k
          BY <3>1 DEF Busy
        <4> QED
          BY <1>1, <4>2, <4>3 DEF Shared
      <3>3. Handled(k)'
        <4>1. /\ events'[k] = events[k] /\ applied[k] \in Nat /\ k \in DOMAIN applied
              /\ job[a].event = k
          BY <1>1, <3>1 DEF Shared
        <4>2. CASE Known(a)
          BY <4>1, <4>2 DEF Known, Handled
        <4>3. CASE Drop(a)
          BY <4>1, <4>3 DEF Drop, Handled
        <4>4. CASE Commit(a)
          BY <4>1, <4>4 DEF Commit, Handled
        <4>5. CASE DeadLetter(a)
          BY <4>1, <4>5 DEF DeadLetter, Handled
        <4> QED
          BY <2>2, <4>2, <4>3, <4>4, <4>5
      <3> QED
        BY <3>2, <3>3 DEF Handled
    <2> QED
      BY <2>1, <2>2
  <1>5. ASSUME NEW e \in Ids, stream'[e] = "acked", stream'[e] # stream[e]
        PROVE  Handled(e)'
    <2>1. CASE a \in Consumers /\ Acknowledge(a)
      <3>1. /\ job[a].at \in Settled /\ a \in Consumers
            /\ stream' = [stream EXCEPT ![job[a].event] = "acked"]
        BY <2>1 DEF Acknowledge, Settled
      <3>2. e = job[a].event
        BY <1>1, <1>5, <3>1 DEF Shared
      <3>3. Handled(e)
        BY <3>1, <3>2 DEF Settlement, SettledIsHandled
      <3> QED
        BY <1>3, <3>3
    <2>2. CASE Read(a)
      BY <1>1, <1>5, <2>2 DEF Read, Shared
    <2>3. CASE stream' = stream
      BY <1>5, <2>3
    <2> QED
      BY <2>1, <2>2, <2>3
         DEF Reclaim, DeadLetter, Known, Drop, Claim, Commit, Reject, Abandon
  <1>6. \A c \in Consumers : job'[c].at \in Settled =>
          job'[c] = job[c] \/ Handled(job[c].event)'
    <2>1. Consumers \subseteq Actors
      BY DEF Actors
    <2> QED
      BY <1>1, <1>4, <2>1 DEF Shared
  <1> QED
    BY <1>1, <1>3, <1>5, <1>6, SettlementKept DEF Shared

\* Every step keeps settlement: one case for each action.
LEMMA StepSettlement ==
  ASSUME TypeOK, Settlement, [Next]_vars
  PROVE  Settlement'
  <1>1. Consumers \subseteq Actors
    BY DEF Actors
  <1> QED
    BY <1>1, IngestionSettlement, EnvironmentSettlement DEF Next

-----------------------------------------------------------------------------
\* The inductive invariant: types, and claims that exclude each other.
THEOREM DeliveryInvariance == Spec => []Inv
  <1>1. Inv <=> TypeOK /\ Claims /\ Settlement
    BY DEF Inv, Claims, Settlement
  <1>2. Inv /\ [Next]_vars => Inv'
    <2> SUFFICES ASSUME Inv, [Next]_vars PROVE Inv'
      OBVIOUS
    <2>1. TypeOK' /\ Claims' /\ Settlement'
      BY <1>1, StepTypes, StepClaims, StepSettlement
    <2> QED
      BY <2>1 DEF Inv, Claims, Settlement
  <1> QED
    BY <1>2, InitInv, PTL DEF Spec

\* "Repeated event_id values do not create duplicate market data": whatever is
\* delivered twice, times out, fails or is reclaimed, an event is applied once.
THEOREM AppliedAtMostOnce == Spec => []AppliedOnce
  <1>1. Inv => AppliedOnce
    BY DEF Inv
  <1> QED
    BY <1>1, DeliveryInvariance, PTL

\* What is acknowledged has been handled, whichever consumers fail in between.
THEOREM AcknowledgedIsSettled == Spec => []AckedIsSettled
  <1>1. Inv => AckedIsSettled
    BY DEF Inv
  <1> QED
    BY <1>1, DeliveryInvariance, PTL

-----------------------------------------------------------------------------
(* No holes. *)

\* What the records agree on: candles are of minutes that have ended, what was
\* applied is stored, and what was answered with a success was applied or dropped.
Records ==
  /\ \A m \in market : m < now
  /\ feed.resume <= now + 1
  /\ stored \subseteq market /\ collector.rest \subseteq market
  /\ \A e \in Ids :
       /\ events[e] \subseteq market
       /\ applied[e] > 0 => events[e] \subseteq stored
       /\ replied[e] = "ok" => applied[e] > 0 \/ events[e] \subseteq dropped

\* Every candle before minute x is accounted for, or belongs to S.
Covered(x, S) == \A m \in market : m < x => Accounted(m) \/ m \in S

\* No candle of a minute to come is before x, unless a resumption gives it up.
Settles(x) == x <= now \/ x <= feed.resume

\* The worker is behind no hole: what is before its cursor is accounted for, or is
\* in the batches it has still to send.
WorkerInOrder ==
  /\ collector.at = "live" => Covered(collector.cursor, {}) /\ Settles(collector.cursor)
  /\ collector.at \in {"sending", "waiting"} =>
       /\ collector.next <= now
       /\ Covered(collector.next, collector.rest)
       /\ \A m \in collector.rest : m < collector.next
  /\ collector.at = "waiting" => collector.event \in Ids

\* So are its events, and the candles that were stored from them.
EventsInOrder ==
  /\ \A e \in Ids : \A x \in events[e] : Covered(x, events[e])
  /\ \A x \in stored : Covered(x, {})

InOrder == WorkerInOrder /\ EventsInOrder

\* How every step changes what accounts for candles.
Growth ==
  /\ stored \subseteq stored' /\ dropped \subseteq dropped' /\ dead \subseteq dead'
  /\ feed.resume <= feed'.resume
  /\ market \subseteq market' /\ market' \subseteq market \cup {now}
  /\ now <= now' /\ (now' = now => market' = market)
  /\ \A e \in Ids : e \in Ids' /\ events'[e] = events[e]
  /\ \A e \in Ids : stream[e] \in {"new", "pending"} =>
       stream'[e] \in {"new", "pending"} \/ Handled(e)

\* A new event comes after the others and changes none of them.
LEMMA NewEventKeeps ==
  ASSUME TypeOK, NEW batch \in SUBSET Minutes, NEW entry \in Entries, NewEvent(batch, entry)
  PROVE  /\ Ids' = Ids \cup {Len(events) + 1}
         /\ \A e \in Ids : /\ e # Len(events) + 1
                           /\ events'[e] = events[e] /\ stream'[e] = stream[e]
                           /\ replied'[e] = replied[e] /\ applied'[e] = applied[e]
         /\ events'[Len(events) + 1] = batch /\ stream'[Len(events) + 1] = entry
         /\ replied'[Len(events) + 1] = "none" /\ applied'[Len(events) + 1] = 0
  <1>1. /\ events \in Seq(SUBSET Minutes) /\ stream \in Seq(Entries)
        /\ replied \in Seq(Replies) /\ applied \in Seq(Nat)
        /\ Len(stream) = Len(events) /\ Len(replied) = Len(events)
        /\ Len(applied) = Len(events)
    BY DEF TypeOK
  <1>2. /\ events' = Append(events, batch) /\ stream' = Append(stream, entry)
        /\ replied' = Append(replied, "none") /\ applied' = Append(applied, 0)
    BY DEF NewEvent
  <1>3. Ids = 1 .. Len(events) /\ Ids' = 1 .. Len(events) + 1 /\ Len(events) \in Nat
    BY <1>1, <1>2 DEF Ids
  <1>4. Ids' = Ids \cup {Len(events) + 1}
    BY <1>3
  <1>5. ASSUME NEW e \in Ids
        PROVE  /\ e # Len(events) + 1
               /\ events'[e] = events[e] /\ stream'[e] = stream[e]
               /\ replied'[e] = replied[e] /\ applied'[e] = applied[e]
    BY <1>1, <1>2, <1>3
  <1>6. /\ events'[Len(events) + 1] = batch /\ stream'[Len(events) + 1] = entry
        /\ replied'[Len(events) + 1] = "none" /\ applied'[Len(events) + 1] = 0
    BY <1>1, <1>2
  <1> QED
    BY <1>4, <1>5, <1>6

\* A batch is taken from what is left to send.
LEMMA BatchIsPart ==
  ASSUME NEW S PROVE Batch(S) \subseteq S
  BY DEF Batch

\* The candles before one of a batch are in the batch too.
LEMMA BatchIsPrefix ==
  ASSUME NEW S \in SUBSET Minutes, NEW x \in Batch(S), NEW m \in S, m < x
  PROVE  m \in Batch(S)
  <1> DEFINE Before(y) == {k \in S : k < y}
  <1>1. x \in S /\ Cardinality(Before(x)) < BatchSize
    BY DEF Batch
  <1>2. S \subseteq Int
    BY DEF Minutes
  <1>3. Before(m) \subseteq Before(x)
    <2>1. x \in Int /\ m \in Int
      BY <1>1, <1>2
    <2>2. ASSUME NEW k \in S, k < m PROVE k < x
      <3>1. k \in Int
        BY <1>2
      <3> QED
        BY <2>1, <2>2, <3>1
    <2> QED
      BY <2>2
  <1>4. IsFiniteSet(Before(x))
    <2>1. IsFiniteSet(Minutes)
      BY FS_Interval, DeliveryAssumption DEF Minutes
    <2>2. Before(x) \subseteq Minutes
      OBVIOUS
    <2> QED
      BY <2>1, <2>2, FS_Subset
  <1>5. Cardinality(Before(m)) <= Cardinality(Before(x))
    BY <1>3, <1>4, FS_Subset
  <1>6. IsFiniteSet(Before(m))
    BY <1>3, <1>4, FS_Subset
  <1>7. Cardinality(Before(m)) \in Nat /\ Cardinality(Before(x)) \in Nat /\ BatchSize \in Nat
    BY <1>4, <1>6, FS_CardinalityType, DeliveryAssumption
  <1>8. Cardinality(Before(m)) < BatchSize
    BY <1>1, <1>5, <1>7
  <1> QED
    BY <1>8 DEF Batch

\* What is sent comes from the market; nothing else but the sender changes.
LEMMA SentEvent ==
  ASSUME TypeOK, Records, Publish \/ Post \/ Backfill
  PROVE  /\ \E batch \in SUBSET market, entry \in {"none", "new"} : NewEvent(batch, entry)
         /\ UNCHANGED <<now, market, stored, dead, dropped, feed>>
  <1>1. Batch(collector.rest) \subseteq market
    BY BatchIsPart DEF Records
  <1>2. CASE Publish
    BY <1>1, <1>2 DEF Publish
  <1>3. CASE Post
    BY <1>1, <1>3 DEF Post
  <1>4. CASE Backfill
    BY <1>4 DEF Backfill
  <1> QED
    BY <1>2, <1>3, <1>4

\* Every step only adds to what accounts for candles.
LEMMA StepGrowth ==
  ASSUME TypeOK, Settlement, Records, [Next]_vars
  PROVE  Growth
  <1>1. /\ now \in Nat /\ feed.resume \in Nat /\ feed.resume <= now + 1
        /\ market \subseteq Minutes
    BY DEF TypeOK, Records, Minutes
  <1>2. CASE /\ UNCHANGED <<events, api>>
             /\ feed' = feed \/ feed'.resume = feed.resume \/ feed'.resume = now + 1
             /\ \/ UNCHANGED <<now, market>>
                \/ now' = now + 1 /\ market' \in {market, market \cup {now}}
    <2>1. /\ events' = events /\ stream' = stream /\ stored' = stored /\ dead' = dead
          /\ dropped' = dropped /\ Ids' = Ids
      BY <1>2 DEF api, Ids
    <2>2. feed.resume <= feed'.resume
      BY <1>1, <1>2
    <2>3. /\ market \subseteq market' /\ market' \subseteq market \cup {now}
          /\ now <= now' /\ (now' = now => market' = market)
      BY <1>1, <1>2
    <2> QED
      BY <2>1, <2>2, <2>3 DEF Growth
  <1>3. CASE Publish \/ Post \/ Backfill
    <2>1. UNCHANGED <<now, market, stored, dead, dropped, feed>>
      BY <1>3, SentEvent
    <2>2. PICK batch \in SUBSET market, entry \in {"none", "new"} : NewEvent(batch, entry)
      BY <1>3, SentEvent
    <2>3. batch \in SUBSET Minutes /\ entry \in Entries
      BY <1>1
    <2>4. \A e \in Ids : e \in Ids' /\ events'[e] = events[e] /\ stream'[e] = stream[e]
      BY <2>2, <2>3, NewEventKeeps
    <2> QED
      BY <1>1, <2>1, <2>4 DEF Growth
  <1>4. ASSUME NEW a \in Actors,
               \/ a \in Consumers /\ (Read(a) \/ Reclaim(a) \/ DeadLetter(a) \/ Acknowledge(a))
               \/ Known(a) \/ Drop(a) \/ Claim(a) \/ Commit(a) \/ Reject(a) \/ Abandon(a)
        PROVE  Growth
    <2>1. /\ UNCHANGED <<now, market, events, feed>>
          /\ stored \subseteq stored' /\ dropped \subseteq dropped' /\ dead \subseteq dead'
      BY <1>4, IngestionFrame
    <2>2. Ids' = Ids /\ Ids = DOMAIN stream
      BY <2>1 DEF Ids, TypeOK
    <2>3. ASSUME NEW e \in Ids, stream[e] \in {"new", "pending"}
          PROVE  stream'[e] \in {"new", "pending"} \/ Handled(e)
      <3>1. CASE stream' = stream
        BY <2>3, <3>1
      <3>2. CASE \E d \in Ids : stream' = [stream EXCEPT ![d] = "pending"]
        BY <2>2, <2>3, <3>2
      <3>3. CASE a \in Consumers /\ Acknowledge(a)
        <4>1. job[a].at \in Settled /\ stream' = [stream EXCEPT ![job[a].event] = "acked"]
          BY <3>3 DEF Acknowledge
        <4>2. Handled(job[a].event)
          BY <3>3, <4>1 DEF Settlement, SettledIsHandled
        <4>3. CASE e = job[a].event
          BY <4>2, <4>3
        <4>4. CASE e # job[a].event
          BY <2>2, <2>3, <4>1, <4>4
        <4> QED
          BY <4>3, <4>4
      <3> QED
        BY <1>4, <3>1, <3>2, <3>3
           DEF Read, Reclaim, DeadLetter, Known, Drop, Claim, Commit, Reject, Abandon
    <2> QED
      BY <1>1, <2>1, <2>2, <2>3 DEF Growth
  <1>5. Consumers \subseteq Actors
    BY DEF Actors
  <1>6. CASE MinutePasses
    BY <1>2, <1>6 DEF MinutePasses
  <1>7. CASE \/ Register \/ Poll \/ Accepted \/ Refused \/ CollectorFails \/ StopWorker
             \/ StartWorker \/ UNCHANGED vars
    BY <1>2, <1>7 DEF Register, Poll, Accepted, Refused, CollectorFails, StopWorker, StartWorker,
                      vars, api
  <1>8. CASE PauseFeed \/ ResumeFeed
    <2>1. feed'.resume = feed.resume \/ feed'.resume = now + 1
      BY <1>8 DEF PauseFeed, ResumeFeed, TypeOK
    <2> QED
      BY <1>2, <1>8, <2>1 DEF PauseFeed, ResumeFeed
  <1> QED
    BY <1>3, <1>4, <1>5, <1>6, <1>7, <1>8 DEF Next

\* What accounts for a candle goes on doing so: an entry is only acknowledged when
\* its candles are stored, dropped or dead.
LEMMA AccountedStays ==
  ASSUME TypeOK, Records, Growth, NEW m \in market, Accounted(m),
         feed'.resume \in Nat
  PROVE  Accounted(m)'
  <1>1. feed.resume \in Nat /\ dead \subseteq Ids /\ m \in Int
    BY DEF TypeOK, Minutes
  <1>2. CASE m \in stored \/ m \in dropped \/ m < feed.resume
    BY <1>1, <1>2 DEF Growth, Accounted, GivenUp
  <1>3. ASSUME NEW e \in dead, m \in events[e] PROVE Accounted(m)'
    <2>1. e \in dead' /\ events'[e] = events[e]
      BY <1>1 DEF Growth
    <2> QED
      BY <1>3, <2>1 DEF Accounted, GivenUp
  <1>4. ASSUME NEW e \in Ids, m \in events[e], stream[e] \in {"new", "pending"}
        PROVE  Accounted(m)'
    <2>1. e \in Ids' /\ events'[e] = events[e]
      BY DEF Growth
    <2>2. CASE stream'[e] \in {"new", "pending"}
      BY <1>4, <2>1, <2>2 DEF Accounted, OnItsWay
    <2>3. CASE applied[e] > 0
      <3>1. m \in stored'
        BY <1>4, <2>3 DEF Records, Growth
      <3> QED
        BY <3>1 DEF Accounted
    <2>4. CASE e \in dead
      BY <1>3, <1>4, <2>4
    <2>5. CASE events[e] \subseteq dropped
      <3>1. m \in dropped'
        BY <1>4, <2>5 DEF Growth
      <3> QED
        BY <3>1 DEF Accounted, GivenUp
    <2> QED
      BY <1>4, <2>2, <2>3, <2>4, <2>5 DEF Growth, Handled
  <1> QED
    BY <1>2, <1>3, <1>4 DEF Accounted, OnItsWay, GivenUp

\* What was covered stays covered: a candle that is new is not before it, or was
\* given up by a resumption.
LEMMA CoveredStays ==
  ASSUME TypeOK, Records, Growth, feed'.resume \in Nat,
         NEW x \in Nat, NEW S, Covered(x, S), Settles(x)
  PROVE  \A m \in market' : m < x => Accounted(m)' \/ m \in S
  <1>1. now \in Nat /\ feed.resume \in Nat /\ feed.resume <= feed'.resume
    BY DEF TypeOK, Minutes, Growth
  <1>2. ASSUME NEW m \in market, m < x PROVE Accounted(m)' \/ m \in S
    BY <1>2, AccountedStays DEF Covered
  <1>3. ASSUME NEW m, m = now, m < x PROVE Accounted(m)'
    <2>1. m < feed'.resume
      BY <1>1, <1>3 DEF Settles
    <2> QED
      BY <2>1 DEF Accounted, GivenUp
  <1> QED
    BY <1>2, <1>3 DEF Growth

\* The steps that change neither events nor ingestion keep the records.
LEMMA EnvironmentRecords ==
  ASSUME TypeOK, TypeOK', Records, Growth, UNCHANGED <<events, api>>,
         collector'.rest \subseteq market, feed'.resume <= now' + 1
  PROVE  Records'
  <1>1. /\ events' = events /\ applied' = applied /\ stored' = stored /\ replied' = replied
        /\ dropped' = dropped /\ Ids' = Ids
    BY DEF api, Ids
  <1>2. now \in Nat /\ now' \in Nat /\ \A m \in market : m \in Nat
    BY DEF TypeOK, Minutes
  <1>3. \A m \in market' : m < now'
    BY <1>2 DEF Records, Growth
  <1>4. stored' \subseteq market' /\ collector'.rest \subseteq market'
    BY <1>1 DEF Records, Growth
  <1>5. ASSUME NEW e \in Ids
        PROVE  /\ events[e] \subseteq market'
               /\ applied[e] > 0 => events[e] \subseteq stored
               /\ replied[e] = "ok" => applied[e] > 0 \/ events[e] \subseteq dropped
    BY DEF Records, Growth
  <1> QED
    BY <1>1, <1>3, <1>4, <1>5 DEF Records

\* So do those that send an event.
LEMMA SendingRecords ==
  ASSUME TypeOK, Records, Publish \/ Post \/ Backfill
  PROVE  Records'
  <1>1. UNCHANGED <<now, market, stored, dead, dropped, feed>>
    BY SentEvent
  <1>2. PICK batch \in SUBSET market, entry \in {"none", "new"} : NewEvent(batch, entry)
    BY SentEvent
  <1>3. batch \in SUBSET Minutes /\ entry \in Entries
    BY DEF TypeOK
  <1>4. collector'.rest \subseteq collector.rest
    <2>1. CASE Publish
      BY <2>1 DEF Publish, Sent, TypeOK
    <2>2. CASE Post
      BY <2>2 DEF Post, TypeOK
    <2>3. CASE Backfill
      BY <2>3 DEF Backfill
    <2> QED
      BY <2>1, <2>2, <2>3
  <1>5. ASSUME NEW e \in Ids'
        PROVE  /\ events'[e] \subseteq market
               /\ applied'[e] > 0 => events'[e] \subseteq stored
               /\ replied'[e] = "ok" => applied'[e] > 0 \/ events'[e] \subseteq dropped
    <2>1. CASE e \in Ids
      <3>1. events'[e] = events[e] /\ replied'[e] = replied[e] /\ applied'[e] = applied[e]
        BY <1>2, <1>3, <2>1, NewEventKeeps
      <3> QED
        BY <2>1, <3>1 DEF Records
    <2>2. CASE e = Len(events) + 1
      BY <1>2, <1>3, <2>2, NewEventKeeps
    <2> QED
      BY <1>2, <1>3, <2>1, <2>2, NewEventKeeps
  <1> QED
    BY <1>1, <1>4, <1>5 DEF Records

\* So do those of consumers and threads.
LEMMA IngestionRecords ==
  ASSUME TypeOK, Records, Growth, NEW a \in Actors,
         \/ a \in Consumers /\ (Read(a) \/ Reclaim(a) \/ DeadLetter(a) \/ Acknowledge(a))
         \/ Known(a) \/ Drop(a) \/ Claim(a) \/ Commit(a) \/ Reject(a) \/ Abandon(a)
  PROVE  Records'
  <1> DEFINE k == job[a].event
  <1>1. UNCHANGED <<now, market, collector, events, feed>> /\ Ids' = Ids
    BY IngestionFrame DEF Ids
  <1>2. job[a] # Idle => k \in Ids
    BY DEF TypeOK, Busy
  <1>3. /\ Ids = DOMAIN applied /\ Ids = DOMAIN replied
        /\ \A e \in Ids : applied[e] \in Nat
    BY DEF TypeOK, Ids
  <1>4. stored' = stored \/ (job[a] # Idle /\ stored' = stored \cup events[k])
    BY IngestionFrame
  <1> HIDE DEF k
  <1>5. stored' \subseteq market
    BY <1>2, <1>4 DEF Records
  <1>6. ASSUME NEW e \in Ids, applied'[e] > 0
        PROVE  events[e] \subseteq stored'
    <2>1. CASE applied' = applied
      BY <1>6, <2>1 DEF Records, Growth
    <2>2. CASE Commit(a)
      <3>1. /\ applied' = [applied EXCEPT ![k] = @ + 1] /\ stored' = stored \cup events[k]
        BY <2>2 DEF Commit, k
      <3>2. CASE e = k
        BY <3>1, <3>2
      <3>3. CASE e # k
        BY <1>3, <1>6, <3>1, <3>3 DEF Records, Growth
      <3> QED
        BY <3>2, <3>3
    <2> QED
      BY <2>1, <2>2, IngestionFrame
  <1>7. ASSUME NEW e \in Ids, replied'[e] = "ok"
        PROVE  applied'[e] > 0 \/ events[e] \subseteq dropped'
    <2>1. CASE replied[e] = "ok"
      <3>1. applied[e] > 0 \/ events[e] \subseteq dropped
        BY <2>1 DEF Records
      <3>2. applied[e] > 0 => applied'[e] > 0
        <4>1. CASE applied' = applied
          BY <4>1
        <4>2. CASE Commit(a)
          <5>1. applied' = [applied EXCEPT ![k] = @ + 1]
            BY <4>2 DEF Commit, k
          <5> QED
            BY <1>3, <5>1
        <4> QED
          BY <4>1, <4>2, IngestionFrame
      <3> QED
        BY <3>1, <3>2 DEF Growth
    <2>2. CASE replied[e] # "ok"
      <3>1. /\ Known(a) \/ Drop(a) \/ Commit(a)
            /\ replied' = [replied EXCEPT ![k] = "ok"]
        BY <1>3, <1>7, <2>2
           DEF Read, Reclaim, DeadLetter, Acknowledge, Known, Drop, Claim, Commit, Reject,
               Abandon, Finished, k
      <3>2. e = k
        BY <1>3, <1>7, <2>2, <3>1
      <3>3. CASE Known(a)
        BY <3>2, <3>3 DEF Known, k
      <3>4. CASE Drop(a)
        BY <3>2, <3>4 DEF Drop, k
      <3>5. CASE Commit(a)
        <4>1. applied' = [applied EXCEPT ![k] = @ + 1]
          BY <3>5 DEF Commit, k
        <4>2. applied'[e] = applied[e] + 1 /\ applied[e] \in Nat
          BY <1>3, <3>2, <4>1
        <4>3. applied'[e] > 0
          BY <4>2
        <4> QED
          BY <4>3
      <3> QED
        BY <3>1, <3>3, <3>4, <3>5
    <2> QED
      BY <2>1, <2>2
  <1> QED
    BY <1>1, <1>5, <1>6, <1>7 DEF Records

\* Every step keeps the records.
LEMMA StepRecords ==
  ASSUME TypeOK, TypeOK', Settlement, Records, [Next]_vars
  PROVE  Records'
  <1>1. Growth
    BY StepGrowth
  <1>2. /\ now \in Nat /\ feed.resume \in Nat /\ feed.resume <= now + 1
        /\ collector.rest \subseteq market
    BY DEF TypeOK, Records, Minutes
  <1>3. CASE MinutePasses \/ PauseFeed \/ ResumeFeed \/ UNCHANGED vars
    <2>1. UNCHANGED <<events, api, collector>>
      BY <1>3 DEF MinutePasses, PauseFeed, ResumeFeed, vars
    <2>2. feed'.resume <= now' + 1
      <3>1. CASE MinutePasses \/ UNCHANGED vars
        BY <1>2, <3>1 DEF MinutePasses, vars
      <3>2. CASE PauseFeed
        BY <1>2, <3>2 DEF PauseFeed, TypeOK
      <3>3. CASE ResumeFeed
        BY <1>2, <3>3 DEF ResumeFeed
      <3> QED
        BY <1>3, <3>1, <3>2, <3>3
    <2> QED
      BY <1>1, <1>2, <2>1, <2>2, EnvironmentRecords
  <1>4. CASE Register \/ Poll \/ Accepted \/ Refused \/ CollectorFails \/ StopWorker \/ StartWorker
    <2>1. UNCHANGED <<now, market, events, api, feed>>
      BY <1>4 DEF Register, Poll, Accepted, Refused, CollectorFails, StopWorker, StartWorker
    <2>2. collector'.rest \subseteq collector.rest \cup Fetched
      <3>1. CASE Register \/ Poll
        BY <3>1 DEF Register, Poll, TypeOK
      <3>2. CASE Accepted
        BY <3>2 DEF Accepted, Sent, TypeOK
      <3>3. CASE Refused \/ CollectorFails \/ StopWorker \/ StartWorker
        <4>1. collector'.rest = {}
          BY <3>3 DEF Refused, CollectorFails, StopWorker, StartWorker, Broken, TypeOK
        <4> QED
          BY <4>1
      <3> QED
        BY <1>4, <3>1, <3>2, <3>3
    <2>3. Fetched \subseteq market
      BY DEF Fetched
    <2> QED
      BY <1>1, <1>2, <2>1, <2>2, <2>3, EnvironmentRecords
  <1>5. Consumers \subseteq Actors
    BY DEF Actors
  <1> QED
    BY <1>1, <1>3, <1>4, <1>5, SendingRecords, IngestionRecords DEF Next

\* The events and candles there were stay in order.
LEMMA OldEventsInOrder ==
  ASSUME TypeOK, TypeOK', Records, Growth, EventsInOrder
  PROVE  /\ \A e \in Ids : \A x \in events[e] :
              \A m \in market' : m < x => Accounted(m)' \/ m \in events[e]
         /\ \A x \in stored : \A m \in market' : m < x => Accounted(m)'
  <1>1. feed'.resume \in Nat /\ \A x \in market : x \in Nat /\ x < now /\ now \in Nat
    BY DEF TypeOK, Minutes, Records
  <1>2. \A x \in market : Settles(x)
    BY <1>1 DEF Settles
  <1>3. ASSUME NEW e \in Ids, NEW x \in events[e]
        PROVE  \A m \in market' : m < x => Accounted(m)' \/ m \in events[e]
    <2>1. x \in market
      BY DEF Records
    <2>2. Covered(x, events[e])
      BY DEF EventsInOrder
    <2> QED
      BY <1>1, <1>2, <2>1, <2>2, CoveredStays
  <1>4. ASSUME NEW x \in stored
        PROVE  \A m \in market' : m < x => Accounted(m)'
    <2>1. x \in market
      BY DEF Records
    <2>2. Covered(x, {})
      BY DEF EventsInOrder
    <2>3. \A m \in market' : m < x => Accounted(m)' \/ m \in {}
      BY <1>1, <1>2, <2>1, <2>2, CoveredStays
    <2> QED
      BY <2>3
  <1> QED
    BY <1>3, <1>4

\* A step that changes neither events nor stored candles keeps them in order.
LEMMA EventsKept ==
  ASSUME TypeOK, TypeOK', Records, Growth, EventsInOrder, UNCHANGED <<events, stored>>
  PROVE  EventsInOrder'
  <1>1. Ids' = Ids
    BY DEF Ids
  <1> QED
    BY <1>1, OldEventsInOrder DEF EventsInOrder, Covered

\* A step that leaves the worker alone keeps it in order.
LEMMA WorkerKept ==
  ASSUME TypeOK, TypeOK', Records, Growth, WorkerInOrder, UNCHANGED collector
  PROVE  WorkerInOrder'
  <1>1. /\ now \in Nat /\ now' \in Nat /\ feed.resume \in Nat /\ feed'.resume \in Nat
        /\ now <= now' /\ feed.resume <= feed'.resume
        /\ collector.cursor \in Nat /\ collector.next \in Nat
    BY DEF TypeOK, Minutes, Growth
  <1>2. ASSUME collector.at = "live"
        PROVE  /\ \A m \in market' : m < collector.cursor => Accounted(m)' \/ m \in {}
               /\ collector.cursor <= now' \/ collector.cursor <= feed'.resume
    <2>1. Covered(collector.cursor, {}) /\ Settles(collector.cursor)
      BY <1>2 DEF WorkerInOrder
    <2>2. collector.cursor <= now' \/ collector.cursor <= feed'.resume
      BY <1>1, <2>1 DEF Settles
    <2> QED
      BY <1>1, <2>1, <2>2, CoveredStays
  <1>3. ASSUME collector.at \in {"sending", "waiting"}
        PROVE  /\ \A m \in market' :
                    m < collector.next => Accounted(m)' \/ m \in collector.rest
               /\ collector.next <= now'
    <2>1. Covered(collector.next, collector.rest) /\ collector.next <= now
      BY <1>3 DEF WorkerInOrder
    <2>2. Settles(collector.next) /\ collector.next <= now'
      BY <1>1, <2>1 DEF Settles
    <2> QED
      BY <1>1, <2>1, <2>2, CoveredStays
  <1>4. collector.event \in Ids => collector.event \in Ids'
    BY DEF Growth
  <1> QED
    BY <1>2, <1>3, <1>4 DEF WorkerInOrder, Covered, Settles

\* The worker that registers starts after the newest stored candle, before which
\* none is missing, or with the resumption, which gives up what is before it.
LEMMA RegisterInOrder ==
  ASSUME TypeOK, TypeOK', Records, Growth, InOrder, Register
  PROVE  WorkerInOrder'
  <1>1. PICK newest \in After(stored) :
          collector' = [collector EXCEPT !.at = "live", !.cursor = StartCursor(newest),
                                         !.rest = {}, !.event = 0]
    BY DEF Register
  <1> DEFINE x == StartCursor(newest)
  <1>2. collector'.at = "live" /\ collector'.cursor = x
    BY <1>1 DEF TypeOK
  <1>3. /\ newest \in Nat /\ now \in Nat /\ feed.resume \in Nat /\ feed'.resume \in Nat
        /\ market \subseteq Nat
    BY DeliveryAssumption DEF TypeOK, Minutes, After
  <1>4. x \in Nat /\ (x = newest \/ x = feed.resume)
    BY <1>3 DEF StartCursor, Later
  <1>5. newest = 0 \/ newest - 1 \in stored
    BY DEF After
  <1>6. Settles(x)
    <2>1. CASE x = newest /\ newest - 1 \in stored
      <3>1. newest - 1 < now
        BY <2>1 DEF Records
      <3> QED
        BY <1>3, <2>1, <3>1 DEF Settles
    <2> QED
      BY <1>3, <1>4, <1>5, <2>1 DEF Settles
  <1>7. Covered(x, {})
    <2>1. ASSUME NEW m \in market, m < x PROVE Accounted(m)
      <3>1. CASE m < feed.resume
        BY <3>1 DEF Accounted, GivenUp
      <3>2. CASE m < newest /\ newest - 1 \in stored
        <4>1. m = newest - 1 \/ m < newest - 1
          BY <1>3, <3>2
        <4>2. Covered(newest - 1, {})
          BY <3>2 DEF InOrder, EventsInOrder
        <4>3. CASE m = newest - 1
          BY <3>2, <4>3 DEF Accounted
        <4>4. CASE m < newest - 1
          BY <4>2, <4>4 DEF Covered
        <4> QED
          BY <4>1, <4>3, <4>4
      <3> QED
        BY <1>3, <1>4, <1>5, <2>1, <3>1, <3>2
    <2> QED
      BY <2>1 DEF Covered
  <1> HIDE DEF x
  <1>8. \A m \in market' : m < x => Accounted(m)' \/ m \in {}
    BY <1>3, <1>4, <1>6, <1>7, CoveredStays
  <1>9. x <= now' \/ x <= feed'.resume
    BY <1>6 DEF Settles, Register
  <1> QED
    BY <1>2, <1>8, <1>9 DEF WorkerInOrder, Covered, Settles

\* The window the worker fetches begins at its cursor, and what was not fetched of
\* it lies behind the newest candle of it.
LEMMA PollInOrder ==
  ASSUME TypeOK, TypeOK', Records, Growth, InOrder, Poll
  PROVE  WorkerInOrder'
  <1>1. PICK next \in After(Fetched) :
          collector' = [collector EXCEPT !.at = "sending", !.rest = Fetched, !.next = next]
    BY DEF Poll
  <1>2. collector'.at = "sending" /\ collector'.rest = Fetched /\ collector'.next = next
    BY <1>1 DEF TypeOK
  <1>3. /\ next \in Nat /\ now \in Nat /\ feed'.resume \in Nat /\ market \subseteq Nat
        /\ collector.cursor \in Nat /\ Window \in Nat
    BY DeliveryAssumption DEF TypeOK, Minutes, After
  <1>4. (\A m \in Fetched : m < next) /\ next - 1 \in Fetched
    BY <1>3 DEF After, Poll, Fetched
  <1>5. next <= now
    <2>1. next - 1 < now
      BY <1>4 DEF Fetched, Records
    <2> QED
      BY <1>3, <2>1
  <1>6. Covered(next, Fetched)
    <2>1. ASSUME NEW m \in market, m < next PROVE Accounted(m) \/ m \in Fetched
      <3>1. CASE m < collector.cursor
        BY <3>1 DEF InOrder, WorkerInOrder, Covered, Poll
      <3>2. CASE collector.cursor <= m
        <4>1. next - 1 < collector.cursor + Window
          BY <1>4 DEF Fetched
        <4>2. m < collector.cursor + Window
          BY <1>3, <2>1, <4>1
        <4> QED
          BY <3>2, <4>2 DEF Fetched
      <3> QED
        BY <1>3, <3>1, <3>2
    <2> QED
      BY <2>1 DEF Covered
  <1>7. \A m \in market' : m < next => Accounted(m)' \/ m \in Fetched
    BY <1>3, <1>5, <1>6, CoveredStays DEF Settles
  <1>8. now' = now
    BY DEF Poll
  <1> QED
    BY <1>2, <1>4, <1>5, <1>7, <1>8 DEF WorkerInOrder, Covered

\* The worker is in order after a batch was taken over whose candles are accounted
\* for.
LEMMA SentInOrder ==
  ASSUME TypeOK, NEW batch, collector' = Sent(batch),
         collector.next <= now', \A m \in collector.rest : m < collector.next,
         \A m \in market' : m < collector.next => Accounted(m)' \/ m \in collector.rest,
         \A m \in batch : Accounted(m)'
  PROVE  WorkerInOrder'
  <1> DEFINE rest == collector.rest \ batch
  <1>1. \A m \in market' : m < collector.next => Accounted(m)' \/ m \in rest
    OBVIOUS
  <1>2. CASE rest = {}
    <2>1. collector'.at = "live" /\ collector'.cursor = collector.next
      BY <1>2 DEF Sent, TypeOK
    <2> QED
      BY <1>1, <1>2, <2>1 DEF WorkerInOrder, Covered, Settles
  <1>3. CASE rest # {}
    <2>1. /\ collector'.at = "sending" /\ collector'.rest = rest
          /\ collector'.next = collector.next
      BY <1>3 DEF Sent, TypeOK
    <2> QED
      BY <1>1, <2>1 DEF WorkerInOrder, Covered
  <1> QED
    BY <1>2, <1>3

\* What a worker that sends has fetched stays covered.
LEMMA WindowStays ==
  ASSUME TypeOK, TypeOK', Records, Growth, WorkerInOrder, UNCHANGED now,
         collector.at \in {"sending", "waiting"}
  PROVE  /\ collector.next <= now' /\ \A m \in collector.rest : m < collector.next
         /\ \A m \in market' : m < collector.next => Accounted(m)' \/ m \in collector.rest
  <1>1. collector.next \in Nat /\ feed'.resume \in Nat
    BY DEF TypeOK
  <1>2. /\ Covered(collector.next, collector.rest) /\ collector.next <= now
        /\ \A m \in collector.rest : m < collector.next
    BY DEF WorkerInOrder
  <1>3. Settles(collector.next)
    BY <1>2 DEF Settles
  <1> QED
    BY <1>1, <1>2, <1>3, CoveredStays

\* A success means that the batch was applied before, or dropped.
LEMMA AcceptedInOrder ==
  ASSUME TypeOK, TypeOK', Records, Growth, InOrder, Accepted
  PROVE  WorkerInOrder'
  <1> DEFINE e == collector.event
  <1>1. /\ collector.at = "waiting" /\ replied[e] = "ok" /\ collector' = Sent(events[e])
        /\ now' = now /\ stored' = stored /\ dropped' = dropped
    BY DEF Accepted, api
  <1>2. e \in Ids
    BY <1>1 DEF InOrder, WorkerInOrder
  <1>3. events[e] \subseteq stored \/ events[e] \subseteq dropped
    BY <1>1, <1>2 DEF Records
  <1>4. \A m \in events[e] : Accounted(m)'
    BY <1>1, <1>3 DEF Accounted, GivenUp
  <1>5. /\ collector.next <= now' /\ \A m \in collector.rest : m < collector.next
        /\ \A m \in market' : m < collector.next => Accounted(m)' \/ m \in collector.rest
    BY <1>1, WindowStays DEF InOrder
  <1> HIDE DEF e
  <1> QED
    BY <1>1, <1>4, <1>5, SentInOrder

\* A batch that is sent is the oldest part of what is left, and is on its way.
LEMMA SendingInOrder ==
  ASSUME TypeOK, TypeOK', Records, Growth, InOrder, Publish \/ Post
  PROVE  InOrder'
  <1> DEFINE batch == Batch(collector.rest)
             n == Len(events) + 1
  <1>1. /\ collector.at = "sending" /\ UNCHANGED <<now, market, stored>>
        /\ collector.rest \in SUBSET Minutes
    BY DEF Publish, Post, TypeOK
  <1>2. PICK entry \in {"none", "new"} : NewEvent(batch, entry) /\ (Publish => entry = "new")
    BY DEF Publish, Post
  <1>3. batch \in SUBSET Minutes /\ entry \in Entries /\ batch \subseteq collector.rest
    BY <1>1, BatchIsPart
  <1>4. /\ Ids' = Ids \cup {n} /\ \A e \in Ids : events'[e] = events[e]
        /\ events'[n] = batch /\ stream'[n] = entry
    BY <1>2, <1>3, NewEventKeeps
  <1>5. /\ collector.next <= now' /\ \A m \in collector.rest : m < collector.next
        /\ \A m \in market' : m < collector.next => Accounted(m)' \/ m \in collector.rest
    BY <1>1, WindowStays DEF InOrder
  <1>6. market' \subseteq Int /\ collector.next \in Nat
    BY DEF TypeOK, Minutes
  <1>7. ASSUME NEW x \in batch, NEW m \in market', m < x
        PROVE  Accounted(m)' \/ m \in batch
    <2>1. x \in Int /\ x < collector.next
      BY <1>1, <1>3, <1>5 DEF Minutes
    <2>2. m < collector.next
      BY <1>6, <1>7, <2>1
    <2>3. CASE m \in collector.rest
      BY <1>1, <1>7, <2>3, BatchIsPrefix
    <2> QED
      BY <1>5, <2>2, <2>3
  <1> HIDE DEF batch, n
  <1>8. EventsInOrder'
    BY <1>1, <1>4, <1>7, OldEventsInOrder DEF InOrder, EventsInOrder, Covered
  <1>9. CASE Publish
    <2>1. collector' = Sent(batch)
      BY <1>9 DEF Publish, batch
    <2>2. \A m \in batch : Accounted(m)'
      BY <1>2, <1>4, <1>9 DEF Accounted, OnItsWay
    <2>3. WorkerInOrder'
      BY <1>5, <2>1, <2>2, SentInOrder
    <2> QED
      BY <1>8, <2>3 DEF InOrder
  <1>10. CASE Post
    <2>1. /\ collector'.at = "waiting" /\ collector'.event = n
          /\ collector'.rest = collector.rest /\ collector'.next = collector.next
      BY <1>10 DEF Post, TypeOK, n
    <2>2. WorkerInOrder'
      BY <1>4, <1>5, <2>1 DEF WorkerInOrder, Covered
    <2> QED
      BY <1>8, <2>2 DEF InOrder
  <1> QED
    BY <1>9, <1>10

\* Candles are stored event by event.
LEMMA IngestionInOrder ==
  ASSUME TypeOK, TypeOK', Records, Growth, InOrder, NEW a \in Actors,
         \/ a \in Consumers /\ (Read(a) \/ Reclaim(a) \/ DeadLetter(a) \/ Acknowledge(a))
         \/ Known(a) \/ Drop(a) \/ Claim(a) \/ Commit(a) \/ Reject(a) \/ Abandon(a)
  PROVE  InOrder'
  <1> DEFINE k == job[a].event
  <1>1. UNCHANGED <<market, collector, events>> /\ Ids' = Ids
    BY IngestionFrame DEF Ids
  <1>2. job[a] # Idle => k \in Ids
    BY DEF TypeOK, Busy
  <1>3. stored' = stored \/ (job[a] # Idle /\ stored' = stored \cup events[k])
    BY IngestionFrame
  <1> HIDE DEF k
  <1>4. /\ \A e \in Ids : \A x \in events[e] :
             \A m \in market' : m < x => Accounted(m)' \/ m \in events[e]
        /\ \A x \in stored : \A m \in market' : m < x => Accounted(m)'
    BY OldEventsInOrder DEF InOrder
  <1>5. ASSUME NEW x \in stored', NEW m \in market', m < x
        PROVE  Accounted(m)'
    <2>1. CASE x \in stored
      BY <1>4, <1>5, <2>1
    <2>2. CASE k \in Ids /\ x \in events[k] /\ stored' = stored \cup events[k]
      <3>1. Accounted(m)' \/ m \in events[k]
        BY <1>4, <1>5, <2>2
      <3>2. m \in events[k] => m \in stored'
        BY <2>2
      <3> QED
        BY <3>1, <3>2 DEF Accounted
    <2> QED
      BY <1>2, <1>3, <1>5, <2>1, <2>2
  <1>6. EventsInOrder'
    BY <1>1, <1>4, <1>5 DEF EventsInOrder, Covered
  <1>7. WorkerInOrder'
    BY <1>1, WorkerKept DEF InOrder
  <1> QED
    BY <1>6, <1>7 DEF InOrder

\* Every step keeps the order, except that a user orders a backfill.
LEMMA StepInOrder ==
  ASSUME TypeOK, TypeOK', Settlement, Records, InOrder, [Next]_vars, ~Backfill
  PROVE  InOrder'
  <1>1. Growth
    BY StepGrowth
  <1>2. CASE MinutePasses \/ PauseFeed \/ ResumeFeed \/ UNCHANGED vars
    <2>1. UNCHANGED <<events, stored, collector>>
      BY <1>2 DEF MinutePasses, PauseFeed, ResumeFeed, vars, api
    <2> QED
      BY <1>1, <2>1, EventsKept, WorkerKept DEF InOrder
  <1>3. CASE Refused \/ CollectorFails \/ StopWorker \/ StartWorker
    <2>1. UNCHANGED <<events, stored>>
      BY <1>3 DEF Refused, CollectorFails, StopWorker, StartWorker, api
    <2>2. collector'.at \in {"down", "stopped"}
      BY <1>3 DEF Refused, CollectorFails, StopWorker, StartWorker, Broken, TypeOK
    <2>3. WorkerInOrder'
      BY <2>2 DEF WorkerInOrder
    <2> QED
      BY <1>1, <2>1, <2>3, EventsKept DEF InOrder
  <1>4. CASE Register \/ Poll \/ Accepted
    <2>1. UNCHANGED <<events, stored>>
      BY <1>4 DEF Register, Poll, Accepted, api
    <2>2. WorkerInOrder'
      BY <1>1, <1>4, RegisterInOrder, PollInOrder, AcceptedInOrder
    <2> QED
      BY <1>1, <2>1, <2>2, EventsKept DEF InOrder
  <1>5. Consumers \subseteq Actors
    BY DEF Actors
  <1> QED
    BY <1>1, <1>2, <1>3, <1>4, <1>5, SendingInOrder, IngestionInOrder DEF Next

\* The strengthening: what the records agree on, and the order of the events.
HoleInv == Records /\ (backfills = 0 => InOrder)

LEMMA InitHoles ==
  ASSUME Init PROVE HoleInv
  <1>1. Records
    BY DEF Init, Records, Ids
  <1>2. InOrder
    BY DEF Init, InOrder, WorkerInOrder, EventsInOrder, Ids
  <1> QED
    BY <1>1, <1>2 DEF HoleInv

LEMMA StepHoles ==
  ASSUME Inv, HoleInv, [Next]_vars
  PROVE  HoleInv'
  <1>1. TypeOK /\ Settlement /\ TypeOK'
    BY StepTypes DEF Inv, Settlement
  <1>2. Records'
    BY <1>1, StepRecords DEF HoleInv
  <1>3. ASSUME backfills' = 0 PROVE InOrder'
    <2>1. /\ backfills \in Nat
          /\ backfills' = backfills \/ (Backfill /\ backfills' = backfills + 1)
      <3>1. backfills \in Nat
        BY <1>1 DEF TypeOK
      <3>2. \A a \in Actors :
              \/ a \in Consumers /\ (Read(a) \/ Reclaim(a) \/ DeadLetter(a) \/ Acknowledge(a))
              \/ Known(a) \/ Drop(a) \/ Claim(a) \/ Commit(a) \/ Reject(a) \/ Abandon(a)
              => backfills' = backfills
        BY <1>1, IngestionFrame
      <3>3. Consumers \subseteq Actors
        BY DEF Actors
      <3> QED
        BY <3>1, <3>2, <3>3
           DEF Next, MinutePasses, Register, Poll, Publish, Post, Accepted, Refused,
               CollectorFails, StopWorker, StartWorker, Backfill, PauseFeed, ResumeFeed,
               counters, Failure, vars
    <2>2. backfills = 0 /\ ~Backfill
      BY <1>3, <2>1 DEF Backfill
    <2> QED
      BY <1>1, <2>2, StepInOrder DEF HoleInv
  <1> QED
    BY <1>2, <1>3 DEF HoleInv

\* "Restarting the collector backfills missing candles": unless a user orders a
\* backfill, the worker never starts at or moves beyond a candle that is neither
\* stored, nor on its way, nor given up, whatever fails, is sent twice or is
\* reclaimed in between.
THEOREM WorkerLeavesNoHole == Spec => []NothingSkipped
  <1>1. Inv /\ HoleInv => NothingSkipped
    BY DEF HoleInv, InOrder, WorkerInOrder, Covered, NothingSkipped, NoHoleBehindCursor
  <1>2. Init => HoleInv
    BY InitHoles
  <1>3. Inv /\ HoleInv /\ [Next]_vars => HoleInv'
    BY StepHoles
  <1> QED
    BY <1>1, <1>2, <1>3, DeliveryInvariance, PTL DEF Spec

=============================================================================
