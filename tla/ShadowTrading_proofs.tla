------------------------- MODULE ShadowTrading_proofs -------------------------
(***************************************************************************)
(* Proofs about ShadowTrading for any number of bots, sessions, prices and *)
(* moments: the types, one open position per bot and the refinement of     *)
(* slots, the runs that signals name, the pauses that positions are        *)
(* credited with, and their limits.                                        *)
(***************************************************************************)
EXTENDS ShadowTrading, SequenceTheorems, TLAPS

-----------------------------------------------------------------------------
(* Rows. *)

\* A function on 1..n is a sequence.
LEMMA FunctionIsSeq ==
  ASSUME NEW S, NEW n \in Nat, NEW f \in [1 .. n -> S]
  PROVE  f \in Seq(S) /\ Len(f) = n
  OBVIOUS

\* An element of a concatenation comes from one of the two sequences.
LEMMA ConcatRows ==
  ASSUME NEW S, NEW s \in Seq(S), NEW r \in Seq(S), NEW i \in DOMAIN (s \o r)
  PROVE  /\ i \in Int /\ Len(s) \in Int
         /\ \/ i \in DOMAIN s /\ (s \o r)[i] = s[i]
            \/ i - Len(s) \in DOMAIN r /\ (s \o r)[i] = r[i - Len(s)]
  <1>1. /\ s \o r \in Seq(S)
        /\ Len(s \o r) = Len(s) + Len(r)
        /\ \A k \in 1 .. Len(s) + Len(r) :
             (s \o r)[k] = IF k <= Len(s) THEN s[k] ELSE r[k - Len(s)]
    BY ConcatProperties
  <1>2. /\ Len(s) \in Nat /\ DOMAIN s = 1 .. Len(s)
        /\ Len(r) \in Nat /\ DOMAIN r = 1 .. Len(r)
        /\ DOMAIN (s \o r) = 1 .. Len(s \o r)
    BY <1>1, LenProperties
  <1>3. i \in 1 .. Len(s) + Len(r)
    BY <1>1, <1>2
  <1>4. CASE i <= Len(s)
    BY <1>1, <1>2, <1>3, <1>4
  <1>5. CASE ~(i <= Len(s))
    <2>1. i - Len(s) \in 1 .. Len(r)
      BY <1>2, <1>3, <1>5
    <2> QED
      BY <1>1, <1>2, <1>3, <1>5, <2>1
  <1> QED
    BY <1>4, <1>5

\* The elements of a sequence are those its concatenations begin with.
LEMMA ConcatKeeps ==
  ASSUME NEW S, NEW s \in Seq(S), NEW r \in Seq(S), NEW i \in DOMAIN s
  PROVE  i \in DOMAIN (s \o r) /\ (s \o r)[i] = s[i]
  <1>1. /\ Len(s) \in Nat /\ DOMAIN s = 1 .. Len(s) /\ Len(r) \in Nat
    BY LenProperties
  <1>2. i \in 1 .. Len(s) + Len(r) /\ i <= Len(s)
    BY <1>1
  <1>3. (s \o r)[i] = IF i <= Len(s) THEN s[i] ELSE r[i - Len(s)]
    BY <1>2, ConcatProperties
  <1> QED
    BY <1>2, <1>3

\* What the assumption says of single constants, and so of a quote.
LEMMA ConstantTypes ==
  /\ MaxTime \in Nat /\ SpreadPoints \in Nat
  /\ Prices \subseteq Int /\ CandleTimes \subseteq Nat
  /\ Versions \subseteq Nat /\ 1 \in Versions /\ Decisions \subseteq AllDecisions
  BY ConstantsAssumption DEF ConstantsAssumption

\* The types of a quote.
LEMMA QuoteTypes ==
  ASSUME NEW q \in Tick
  PROVE  q.at \in Nat /\ q.at <= MaxTime /\ q.bid \in Int
  <1>1. Time \subseteq Nat /\ \A x \in Time : x <= MaxTime
    BY ConstantTypes DEF Time
  <1>2. q.at \in Time /\ q.bid \in Prices
    BY DEF Tick
  <1> QED
    BY <1>1, <1>2, ConstantTypes

\* A new signal has no outcome; it becomes an open or a skipped one.
LEMMA SignalRows ==
  ASSUME NEW run \in Nat, NEW version \in Nat, NEW observed \in Nat,
         NEW direction \in AllDecisions
  PROVE  LET o == NewSignal(run, version, observed, direction)
         IN  o \in Outcome /\ o.status = "NONE" /\ o.opened = Null
  BY DEF NewSignal, Outcome, Statuses, CloseReasons, SkipReasons, Null

\* A row that is opened, or skipped, has its type.
LEMMA OutcomeRows ==
  ASSUME NEW o \in Outcome, NEW q \in Tick, NEW why \in SkipReasons
  PROVE  /\ Opened(o, q) \in Outcome
         /\ Opened(o, q).status = "OPEN"
         /\ Opened(o, q).opened = q.at
         /\ Skipped(o, why) \in Outcome
         /\ Skipped(o, why).status = "SKIPPED"
         /\ Skipped(o, why).opened = o.opened
  <1>1. q.at \in Int /\ q.bid \in Int /\ SpreadPoints \in Int
    BY QuoteTypes, ConstantTypes
  <1>2. (IF o.direction = "BUY" THEN q.bid + SpreadPoints ELSE q.bid) \in Int
    BY <1>1
  <1>3. Opened(o, q) \in Outcome /\ Opened(o, q).status = "OPEN" /\ Opened(o, q).opened = q.at
    BY <1>1, <1>2 DEF Opened, Outcome, Statuses
  <1>4. /\ Skipped(o, why) \in Outcome
        /\ Skipped(o, why).status = "SKIPPED"
        /\ Skipped(o, why).opened = o.opened
    BY DEF Skipped, Outcome, Statuses
  <1> QED
    BY <1>3, <1>4

\* A price has a distance from the entry.
LEMMA MoveIsInt ==
  ASSUME NEW o \in Outcome, NEW q \in Tick
  PROVE  Move(o, q) \in Int
  <1>1. q.bid \in Int /\ SpreadPoints \in Int /\ o.entry \in Int
    BY QuoteTypes, ConstantTypes DEF Outcome
  <1> QED
    BY <1>1 DEF Move

\* What an evaluation can decide.
LEMMA CloseReasonRange ==
  ASSUME NEW o, NEW q
  PROVE  CloseReason(o, q) \in CloseReasons \cup {"NONE"}
  BY DEF CloseReason, CloseReasons

\* An evaluation keeps the row's type, its opening and, unless it closes the
\* position, its status.
LEMMA EvaluateRow ==
  ASSUME NEW o \in Outcome, NEW q \in Tick
  PROVE  /\ Evaluate(o, q) \in Outcome
         /\ Evaluate(o, q).status \in {o.status, "CLOSED"}
  <1>1. /\ Larger(o.mfe, Move(o, q)) \in Nat
        /\ Larger(o.mae, -Move(o, q)) \in Nat
    BY MoveIsInt DEF Larger, Outcome
  <1>2. CloseReason(o, q) \in CloseReasons \cup {"NONE"}
    BY CloseReasonRange
  <1>3. q.at \in Int
    BY QuoteTypes
  <1> QED
    BY <1>1, <1>2, <1>3 DEF Evaluate, Outcome, Statuses

\* Writing back a row keeps its opening; its status becomes the one decided.
LEMMA FlushRow ==
  ASSUME NEW c \in Outcome, NEW old \in Outcome, NEW new \in Outcome,
         new.status \in {old.status, "CLOSED", "CANCELLED"}
  PROVE  /\ Flush(c, old, new) \in Outcome
         /\ Flush(c, old, new).opened = c.opened
         /\ Flush(c, old, new).status \in {c.status, "CLOSED", "CANCELLED"}
  <1> DEFINE status == Column(c.status, old.status, new.status)
             reason == Column(c.reason, old.reason, new.reason)
             evaluated == Column(c.evaluated, old.evaluated, new.evaluated)
             mfe == Column(c.mfe, old.mfe, new.mfe)
             mae == Column(c.mae, old.mae, new.mae)
             closed == Column(c.closed, old.closed, new.closed)
  <1>1. /\ status \in Statuses
        /\ reason \in CloseReasons \cup SkipReasons \cup {"NONE"}
    BY DEF Column, Outcome
  <1>2. evaluated \in Int /\ mfe \in Nat /\ mae \in Nat /\ closed \in Int
    BY DEF Column, Outcome
  <1>3. status \in {c.status, "CLOSED", "CANCELLED"}
    BY DEF Column
  <1>4. Flush(c, old, new) =
          [c EXCEPT !.status = status, !.reason = reason, !.evaluated = evaluated,
                    !.mfe = mfe, !.mae = mae, !.closed = closed]
    BY Zenon DEF Flush
  <1> HIDE DEF status, reason, evaluated, mfe, mae, closed
  <1>5. Flush(c, old, new).opened = c.opened /\ Flush(c, old, new).status = status
    BY <1>4 DEF Outcome
  <1>6. Flush(c, old, new) =
          [run |-> c.run, config |-> c.config, observed |-> c.observed,
           direction |-> c.direction, status |-> status, reason |-> reason,
           opened |-> c.opened, evaluated |-> evaluated, paused |-> c.paused,
           entry |-> c.entry, mfe |-> mfe, mae |-> mae, closed |-> closed]
    BY <1>4 DEF Outcome
  <1>7. Flush(c, old, new) \in Outcome
    BY <1>1, <1>2, <1>6 DEF Outcome
  <1> QED
    BY <1>3, <1>5, <1>7

-----------------------------------------------------------------------------
(* The state of a session. *)

\* A session that does nothing has its types.
LEMMA EmptySession ==
  /\ NoWork \in Work
  /\ Blank \in Outcome
  /\ NothingLoaded \in Loaded
  /\ NothingLoaded.new.status = NothingLoaded.old.status
  <1>1. Blank \in Outcome
    BY SignalRows DEF Blank, AllDecisions
  <1>2. NoWork \in Work
    BY DEF NoWork, Work, ConfigStatuses
  <1> QED
    BY <1>1, <1>2 DEF NothingLoaded, Loaded

\* What a transaction loads of a row, and what the end of a transaction leaves.
LEMMA LoadedRow ==
  ASSUME DatabaseOK, NEW b \in Bots, NEW rows \in SUBSET (DOMAIN outcomes[b])
  PROVE  /\ LoadOne(b, rows) \in Loaded
         /\ LoadOne(b, rows).new.status = LoadOne(b, rows).old.status
  <1>1. CASE rows = {}
    BY <1>1, EmptySession DEF LoadOne
  <1>2. CASE rows # {}
    <2> DEFINE i == CHOOSE i \in rows : TRUE
    <2>1. i \in rows /\ outcomes[b] \in Seq(Outcome)
      BY <1>2 DEF DatabaseOK
    <2>2. i \in Nat /\ outcomes[b][i] \in Outcome
      BY <2>1
    <2>3. LoadOne(b, rows) = [row |-> i, old |-> outcomes[b][i], new |-> outcomes[b][i]]
      BY <1>2 DEF LoadOne, Load
    <2> HIDE DEF i
    <2> QED
      BY <2>2, <2>3 DEF Loaded
  <1> QED
    BY <1>1, <1>2

\* A session that ends forgets all it had loaded.
LEMMA EndOfTransaction ==
  ASSUME SessionsOK, NEW t \in Sessions, End(t)
  PROVE  /\ SessionsOK'
         /\ WritesOnlyResolve => WritesOnlyResolve'
  <1>1. /\ op' \in [Sessions -> Ops]
        /\ lock' \in [Sessions -> [Bots -> LockModes]]
        /\ todo' \in [Sessions -> SUBSET (Bots \X Nat \X Versions)]
    BY DEF SessionsOK, End, Ops, LockModes
  <1>2. inserted' \in [Sessions -> [Bots -> Seq(Outcome)]]
    <2>1. [b \in Bots |-> <<>>] \in [Bots -> Seq(Outcome)]
      BY EmptySeq
    <2> QED
      BY <2>1 DEF SessionsOK, End
  <1>3. loaded' \in [Sessions -> [Bots -> Loaded]] /\ work' \in [Sessions -> Work]
    BY EmptySession DEF SessionsOK, End
  <1>4. ASSUME WritesOnlyResolve, NEW u \in Sessions, NEW b \in Bots
        PROVE  loaded'[u][b].new.status
                 \in {loaded'[u][b].old.status, "CLOSED", "CANCELLED"}
    <2>1. loaded'[u][b] \in {loaded[u][b], NothingLoaded}
      BY DEF SessionsOK, End
    <2> QED
      BY <1>4, <2>1, EmptySession DEF WritesOnlyResolve
  <1> QED
    BY <1>1, <1>2, <1>3, <1>4 DEF SessionsOK, WritesOnlyResolve

\* Writing back loaded rows changes neither the number of outcomes nor their
\* openings, and opens none.
LEMMA WrittenBackRows ==
  ASSUME TypeOK, WritesOnlyResolve, NEW t \in Sessions
  PROVE  /\ WrittenBack(t) \in [Bots -> Seq(Outcome)]
         /\ \A b \in Bots :
              /\ Len(WrittenBack(t)[b]) = Len(outcomes[b])
              /\ DOMAIN WrittenBack(t)[b] = DOMAIN outcomes[b]
              /\ \A i \in DOMAIN outcomes[b] :
                   /\ WrittenBack(t)[b][i].opened = outcomes[b][i].opened
                   /\ WrittenBack(t)[b][i].status
                        \in {outcomes[b][i].status, "CLOSED", "CANCELLED"}
  <1> DEFINE Row(b, i) == IF i = loaded[t][b].row
                          THEN Flush(outcomes[b][i], loaded[t][b].old, loaded[t][b].new)
                          ELSE outcomes[b][i]
  <1>1. ASSUME NEW b \in Bots, NEW i \in DOMAIN outcomes[b]
        PROVE  /\ Row(b, i) \in Outcome
               /\ Row(b, i).opened = outcomes[b][i].opened
               /\ Row(b, i).status \in {outcomes[b][i].status, "CLOSED", "CANCELLED"}
    <2>1. outcomes[b][i] \in Outcome
      BY DEF TypeOK, DatabaseOK
    <2>2. loaded[t][b].old \in Outcome /\ loaded[t][b].new \in Outcome
      BY DEF TypeOK, SessionsOK, Loaded
    <2>3. loaded[t][b].new.status \in {loaded[t][b].old.status, "CLOSED", "CANCELLED"}
      BY DEF WritesOnlyResolve
    <2> QED
      BY <2>1, <2>2, <2>3, FlushRow
  <1>2. ASSUME NEW b \in Bots
        PROVE  /\ WrittenBack(t)[b] = [i \in DOMAIN outcomes[b] |-> Row(b, i)]
               /\ WrittenBack(t)[b] \in Seq(Outcome)
               /\ Len(WrittenBack(t)[b]) = Len(outcomes[b])
    <2>1. /\ outcomes[b] \in Seq(Outcome) /\ Len(outcomes[b]) \in Nat
          /\ DOMAIN outcomes[b] = 1 .. Len(outcomes[b])
      BY DEF TypeOK, DatabaseOK
    <2>2. WrittenBack(t)[b] = [i \in DOMAIN outcomes[b] |-> Row(b, i)]
      BY DEF WrittenBack
    <2>3. WrittenBack(t)[b] \in [1 .. Len(outcomes[b]) -> Outcome]
      BY <1>1, <2>1, <2>2
    <2> QED
      BY <2>1, <2>2, <2>3, FunctionIsSeq
  <1>3. WrittenBack(t) = [b \in Bots |-> WrittenBack(t)[b]]
    BY DEF WrittenBack
  <1> HIDE DEF Row
  <1> QED
    BY <1>1, <1>2, <1>3

-----------------------------------------------------------------------------
(* Types: one lemma per action, together with what transactions carry.     *)

Types == TypeOK /\ WritesOnlyResolve /\ TransactionReads

\* The end of a transaction leaves the session idle, so it carries nothing.
LEMMA EndTypes ==
  ASSUME Types, NEW t \in Sessions, End(t), DatabaseOK', UNCHANGED <<now, feed>>
  PROVE  Types'
  <1>1. SessionsOK' /\ WritesOnlyResolve'
    BY EndOfTransaction DEF Types, TypeOK
  <1>2. ASSUME NEW u \in Sessions
        PROVE  ReadsOK(op'[u], work'[u])
    <2>1. op'[u] = "idle" \/ (op'[u] = op[u] /\ work'[u] = work[u])
      BY DEF End, Types, TypeOK, SessionsOK
    <2> QED
      BY <2>1 DEF Types, TransactionReads, ReadsOK
  <1>3. ASSUME NEW u \in Sessions
        PROVE  ReadsOK(op[u], work[u])'
    BY <1>2 DEF ReadsOK, Tick, Time
  <1> QED
    BY <1>1, <1>3 DEF Types, TypeOK, TransactionReads

\* Starting a transaction with typed work.
LEMMA StartTypes ==
  ASSUME Types, NEW t \in Sessions, NEW kind \in Ops, NEW record \in Work,
         Start(t, kind, record),
         ReadsOK(kind, record)
  PROVE  /\ op' \in [Sessions -> Ops]
         /\ work' \in [Sessions -> Work]
         /\ \A u \in Sessions : ReadsOK(op[u], work[u])'
  <1>1. \A u \in Sessions : ReadsOK(op'[u], work'[u])
    BY DEF Types, TypeOK, SessionsOK, TransactionReads, Start
  <1>2. \A u \in Sessions : ReadsOK(op[u], work[u])'
    BY <1>1 DEF ReadsOK, Tick, Time
  <1> QED
    BY <1>2 DEF Types, TypeOK, SessionsOK, TransactionReads, Start

\* Time keeps the types.
LEMMA TimePassesTypes ==
  ASSUME Types, TimePasses
  PROVE  Types'
  <1>1. now' \in Time /\ now <= now'
    BY ConstantTypes DEF Types, TypeOK, DatabaseOK, TimePasses, Time
  <1>2. TypeOK' /\ WritesOnlyResolve'
    BY <1>1 DEF Types, TypeOK, DatabaseOK, SessionsOK, WritesOnlyResolve, TimePasses,
                database, sessions, Tick, Time
  <1>3. feed'.paused <= now'
    <2>1. feed.paused <= now /\ now \in Int /\ feed.paused \in Int /\ feed' = feed
      BY ConstantTypes DEF Types, TypeOK, DatabaseOK, TransactionReads, TimePasses, database,
                           Time, Null
    <2> QED
      BY <1>1, <2>1 DEF Time
  <1> QED
    BY <1>2, <1>3 DEF Types, TransactionReads, ReadsOK, TimePasses, sessions, Tick, Time

\* The start of a quote batch keeps the types.
LEMMA QuoteBeginTypes ==
  ASSUME Types, NEW t \in Sessions, QuoteBegin(t)
  PROVE  Types'
  <1>1. Start(t, "quotes", NoWork) /\ "quotes" \in Ops /\ NoWork \in Work
    BY EmptySession DEF QuoteBegin, Ops
  <1>2. ASSUME NEW b \in Bots
        PROVE  /\ LoadOne(b, Evaluable(b)) \in Loaded
               /\ LoadOne(b, Evaluable(b)).new.status = LoadOne(b, Evaluable(b)).old.status
    <2>1. Evaluable(b) \in SUBSET (DOMAIN outcomes[b])
      BY DEF Evaluable
    <2> QED
      BY <2>1, LoadedRow DEF Types, TypeOK
  <1>3. loaded' = [loaded EXCEPT ![t] = [b \in Bots |-> LoadOne(b, Evaluable(b))]]
    BY DEF QuoteBegin
  <1>4. loaded' \in [Sessions -> [Bots -> Loaded]]
    BY <1>2, <1>3 DEF Types, TypeOK, SessionsOK
  <1>5. WritesOnlyResolve'
    BY <1>2, <1>3 DEF Types, TypeOK, SessionsOK, WritesOnlyResolve
  <1>6. ReadsOK("quotes", NoWork)
    BY DEF ReadsOK, NoWork
  <1> QED
    BY <1>1, <1>4, <1>5, <1>6, StartTypes
       DEF Types, TypeOK, DatabaseOK, SessionsOK, TransactionReads, QuoteBegin, database, Tick,
           Time

\* The work of a quote batch after one more quote.
LEMMA WorkOnQuote ==
  ASSUME NEW w \in Work, NEW q \in [at : Time \cup {Null}, bid : Int]
  PROVE  /\ [w EXCEPT !.quotes = w.quotes + 1, !.tick = q] \in Work
         /\ [w EXCEPT !.quotes = w.quotes + 1, !.tick = q].tick = q
  <1>1. w.quotes + 1 \in Nat
    BY DEF Work
  <1> QED
    BY <1>1 DEF Work

\* One pass over a quote keeps the types.
LEMMA QuoteEvaluateTypes ==
  ASSUME Types, NEW t \in Sessions, QuoteEvaluate(t)
  PROVE  Types'
  <1>1. PICK q \in Tick :
          /\ work' = [work EXCEPT ![t].quotes = @ + 1, ![t].tick = q]
          /\ loaded' = [loaded EXCEPT ![t] =
               [b \in Bots |-> EvaluateLoaded(loaded[t][b], q)]]
    BY DEF QuoteEvaluate
  <1>2. ASSUME NEW b \in Bots
        PROVE  /\ loaded'[t][b] \in Loaded
               /\ loaded'[t][b].new.status \in {loaded'[t][b].old.status, "CLOSED", "CANCELLED"}
    <2> DEFINE l == loaded[t][b]
    <2>1. l \in Loaded /\ l.new.status \in {l.old.status, "CLOSED", "CANCELLED"}
      BY DEF Types, TypeOK, SessionsOK, WritesOnlyResolve
    <2>2. l.new \in Outcome
      BY <2>1 DEF Loaded
    <2>3. Evaluate(l.new, q) \in Outcome /\ Evaluate(l.new, q).status \in {l.new.status, "CLOSED"}
      BY <2>2, EvaluateRow
    <2>4. loaded'[t][b] = EvaluateLoaded(l, q)
      BY <1>1 DEF Types, TypeOK, SessionsOK
    <2> HIDE DEF l
    <2> QED
      BY <2>1, <2>3, <2>4 DEF Loaded, EvaluateLoaded
  <1>3. ASSUME NEW u \in Sessions, u # t
        PROVE  loaded'[u] = loaded[u] /\ work'[u] = work[u]
    BY <1>1, <1>3 DEF Types, TypeOK, SessionsOK
  <1>4. loaded' \in [Sessions -> [Bots -> Loaded]] /\ WritesOnlyResolve'
    <2>1. loaded' = [u \in Sessions |-> loaded'[u]] /\ loaded'[t] = [b \in Bots |-> loaded'[t][b]]
      BY <1>1 DEF Types, TypeOK, SessionsOK
    <2>2. \A u \in Sessions : loaded'[u] \in [Bots -> Loaded]
      BY <1>2, <1>3, <2>1 DEF Types, TypeOK, SessionsOK
    <2>3. loaded' \in [Sessions -> [Bots -> Loaded]]
      BY <2>1, <2>2
    <2>4. WritesOnlyResolve'
      BY <1>2, <1>3 DEF Types, WritesOnlyResolve
    <2> QED
      BY <2>3, <2>4
  <1>5. work' \in [Sessions -> Work] /\ op'[t] = "quotes" /\ work'[t].tick = q
    <2>1. q.at \in Time /\ q.bid \in Int /\ q = [at |-> q.at, bid |-> q.bid]
      BY QuoteTypes DEF Tick
    <2>2. q \in [at : Time \cup {Null}, bid : Int]
      BY <2>1
    <2>3. work[t] \in Work
      BY DEF Types, TypeOK, SessionsOK
    <2>4. /\ [work[t] EXCEPT !.quotes = work[t].quotes + 1, !.tick = q] \in Work
          /\ [work[t] EXCEPT !.quotes = work[t].quotes + 1, !.tick = q].tick = q
      BY <2>2, <2>3, WorkOnQuote
    <2>5. work' = [work EXCEPT ![t] = [work[t] EXCEPT !.quotes = work[t].quotes + 1, !.tick = q]]
      BY <1>1 DEF Types, TypeOK, SessionsOK
    <2> QED
      BY <2>4, <2>5 DEF Types, TypeOK, SessionsOK, QuoteEvaluate
  <1>6. ASSUME NEW u \in Sessions
        PROVE  ReadsOK(op[u], work[u])'
    BY <1>3, <1>5 DEF Types, TransactionReads, ReadsOK, QuoteEvaluate, Tick, Time
  <1> QED
    BY <1>4, <1>5, <1>6
       DEF Types, TypeOK, DatabaseOK, SessionsOK, TransactionReads, QuoteEvaluate, database,
           Tick, Time

\* The commit of a quote batch keeps the types.
LEMMA QuoteCommitTypes ==
  ASSUME Types, NEW t \in Sessions, QuoteCommit(t)
  PROVE  Types'
  <1>1. outcomes' \in [Bots -> Seq(Outcome)]
    BY WrittenBackRows DEF Types, QuoteCommit
  <1>2. work[t].tick \in Tick
    BY DEF Types, TransactionReads, ReadsOK, QuoteCommit
  <1>3. tick' \in Tick
    BY <1>2 DEF Types, TypeOK, DatabaseOK, QuoteCommit, Newer
  <1>4. DatabaseOK'
    BY <1>1, <1>3 DEF Types, TypeOK, DatabaseOK, QuoteCommit, Tick, Time
  <1> QED
    BY <1>4, EndTypes DEF QuoteCommit

\* The start of a candle batch keeps the types.
LEMMA CandleBeginTypes ==
  ASSUME Types, NEW t \in Sessions, CandleBegin(t)
  PROVE  Types'
  <1>0. PICK batch \in SUBSET {c \in CandleTimes : c <= now} :
          \E latest \in Latest(candles \cup batch) :
            /\ Start(t, "candles", [NoWork EXCEPT !.candles = batch \ candles,
                                                  !.latest = latest, !.tick = tick])
            /\ todo' = [todo EXCEPT ![t] = ToEvaluate(latest)]
    BY DEF CandleBegin
  <1>1. PICK latest \in Latest(candles \cup batch) :
          /\ Start(t, "candles", [NoWork EXCEPT !.candles = batch \ candles,
                                                !.latest = latest, !.tick = tick])
          /\ todo' = [todo EXCEPT ![t] = ToEvaluate(latest)]
    BY <1>0
  <1> DEFINE record == [NoWork EXCEPT !.candles = batch \ candles,
                                      !.latest = latest, !.tick = tick]
  <1>2. record \in Work /\ record.tick \in Tick
    <2>1. latest \in Nat /\ batch \ candles \subseteq CandleTimes
      BY ConstantTypes DEF Latest, Types, TypeOK, DatabaseOK
    <2>2. tick \in [at : Time \cup {Null}, bid : Int] /\ tick \in Tick
      BY ConstantTypes DEF Types, TypeOK, DatabaseOK, Tick
    <2> QED
      BY <2>1, <2>2, EmptySession DEF NoWork, Work
  <1>3. ReadsOK("candles", record) /\ "candles" \in Ops
    BY <1>2 DEF ReadsOK, Ops
  <1>4. ToEvaluate(latest) \subseteq Bots \X Nat \X Versions
    <2>1. \A b \in Bots : DOMAIN runs[b] \subseteq Nat
      BY DEF Types, TypeOK, DatabaseOK
    <2>2. ASSUME NEW row \in ToEvaluate(latest)
          PROVE  row \in Bots \X Nat \X Versions
      <3>1. PICK b \in Bots : row \in {b} \X (DOMAIN runs[b]) \X {bot[b].config}
        BY DEF ToEvaluate
      <3>2. /\ row = <<row[1], row[2], row[3]>> /\ row[1] = b /\ row[2] \in DOMAIN runs[b]
            /\ runs[row[1]][row[2]] = [config |-> row[3], status |-> "ACTIVE"]
        BY <3>1 DEF ToEvaluate
      <3>3. runs[b][row[2]] \in Run
        BY <3>2 DEF Types, TypeOK, DatabaseOK
      <3>4. row[3] \in Versions
        BY <3>2, <3>3 DEF Run
      <3> QED
        BY <2>1, <3>2, <3>4
    <2> QED
      BY <2>2
  <1> HIDE DEF record
  <1> QED
    BY <1>1, <1>2, <1>3, <1>4, StartTypes
       DEF Types, TypeOK, DatabaseOK, SessionsOK, WritesOnlyResolve, TransactionReads,
           CandleBegin, database, record

\* The insertion of a signal keeps the types.
LEMMA CandleSignalTypes ==
  ASSUME Types, NEW t \in Sessions, CandleSignal(t)
  PROVE  Types'
  <1>1. PICK row \in todo[t], decision \in Decisions :
          /\ lock' = [lock EXCEPT ![t][row[1]] = IF @ = "none" THEN "share" ELSE @]
          /\ todo' = [todo EXCEPT ![t] = @ \ {row}]
          /\ inserted' = [inserted EXCEPT ![t][row[1]] =
               Append(@, NewSignal(row[2], SignalVersion(row), work[t].latest, decision))]
    BY DEF CandleSignal
  <1>2. row[1] \in Bots /\ row[2] \in Nat /\ row[3] \in Nat /\ decision \in AllDecisions
    <2>1. row \in Bots \X Nat \X Versions
      BY DEF Types, TypeOK, SessionsOK
    <2>2. row[1] \in Bots /\ row[2] \in Nat /\ row[3] \in Versions
      BY <2>1
    <2> QED
      BY <2>2, ConstantTypes
  <1>3. work[t].latest \in Nat
    BY DEF Types, TypeOK, SessionsOK, Work
  <1>4. NewSignal(row[2], SignalVersion(row), work[t].latest, decision) \in Outcome
    BY <1>2, <1>3, SignalRows DEF SignalVersion
  <1>5. Append(inserted[t][row[1]], NewSignal(row[2], SignalVersion(row), work[t].latest, decision))
          \in Seq(Outcome)
    BY <1>2, <1>4 DEF Types, TypeOK, SessionsOK
  <1>6. SessionsOK'
    BY <1>1, <1>2, <1>5 DEF Types, TypeOK, SessionsOK, CandleSignal, LockModes
  <1> QED
    BY <1>6 DEF Types, TypeOK, DatabaseOK, WritesOnlyResolve, TransactionReads, ReadsOK,
                CandleSignal, database, Tick, Time

\* The insertion of an outcome keeps the types.
LEMMA CandleOutcomeTypes ==
  ASSUME Types, NEW t \in Sessions, CandleOutcome(t)
  PROVE  Types'
  <1>1. PICK b \in Bots :
          /\ AwaitsOutcome(t, b)
          /\ lock' = [lock EXCEPT ![t][b] = OutcomeLock]
          /\ \E o \in {Skipped(inserted[t][b][Len(inserted[t][b])], "OPEN_POSITION_EXISTS"),
                       Skipped(inserted[t][b][Len(inserted[t][b])], "INVALID_POSITION_SIZE"),
                       Opened(inserted[t][b][Len(inserted[t][b])], work[t].tick)} :
               inserted' = [inserted EXCEPT ![t][b][Len(inserted[t][b])] = o]
    BY Zenon DEF CandleOutcome
  <1>15. PICK o \in {Skipped(inserted[t][b][Len(inserted[t][b])], "OPEN_POSITION_EXISTS"),
                    Skipped(inserted[t][b][Len(inserted[t][b])], "INVALID_POSITION_SIZE"),
                    Opened(inserted[t][b][Len(inserted[t][b])], work[t].tick)} :
          inserted' = [inserted EXCEPT ![t][b][Len(inserted[t][b])] = o]
    BY <1>1
  <1>2. inserted[t][b] \in Seq(Outcome) /\ Len(inserted[t][b]) \in 1 .. Len(inserted[t][b])
    BY <1>1 DEF Types, TypeOK, SessionsOK, AwaitsOutcome
  <1>3. o \in Outcome
    <2>1. inserted[t][b][Len(inserted[t][b])] \in Outcome
      BY <1>2
    <2>2. work[t].tick \in Tick
      BY DEF CandleOutcome, Types, TransactionReads, ReadsOK
    <2>3. {"OPEN_POSITION_EXISTS", "INVALID_POSITION_SIZE"} \subseteq SkipReasons
      BY DEF SkipReasons
    <2> QED
      BY <2>1, <2>2, <2>3, OutcomeRows
  <1>4. [inserted[t][b] EXCEPT ![Len(inserted[t][b])] = o] \in Seq(Outcome)
    BY <1>2, <1>3, ExceptSeq
  <1>5. SessionsOK'
    BY <1>1, <1>15, <1>4 DEF Types, TypeOK, SessionsOK, CandleOutcome, OutcomeLock, LockModes
  <1> QED
    BY <1>5 DEF Types, TypeOK, DatabaseOK, WritesOnlyResolve, TransactionReads, ReadsOK,
                CandleOutcome, database, Tick, Time

\* The commit of a candle batch keeps the types.
LEMMA CandleCommitTypes ==
  ASSUME Types, NEW t \in Sessions, CandleCommit(t)
  PROVE  Types'
  <1>1. outcomes' \in [Bots -> Seq(Outcome)]
    BY ConcatProperties DEF Types, TypeOK, DatabaseOK, SessionsOK, CandleCommit
  <1>2. candles' \subseteq CandleTimes
    BY DEF Types, TypeOK, DatabaseOK, SessionsOK, Work, CandleCommit
  <1>3. DatabaseOK'
    BY <1>1, <1>2 DEF Types, TypeOK, DatabaseOK, CandleCommit, Tick, Time
  <1> QED
    BY <1>3, EndTypes DEF CandleCommit

\* The versions of a bot that an activation reads.
LEMMA ConfigStatusTypes ==
  ASSUME Types, NEW b \in Bots, NEW v \in Versions
  PROVE  /\ v \in Nat
         /\ config[b][v] \in ConfigStatuses
         /\ Previous(b, v) \subseteq Nat
         /\ ActiveRuns(b) \subseteq Nat
  <1>1. Previous(b, v) \subseteq Nat
    <2>1. \A w \in Versions \ {v} : w \in Nat
      BY ConstantTypes
    <2> QED
      BY <2>1 DEF Previous
  <1>2. ActiveRuns(b) \subseteq Nat
    BY DEF ActiveRuns, Types, TypeOK, DatabaseOK
  <1> QED
    BY <1>1, <1>2, ConstantTypes DEF Types, TypeOK, DatabaseOK

\* What a request loads of the bot and of the version it activates.
LEMMA BotLoadedTypes ==
  ASSUME Types, NEW b \in Bots, NEW v \in Versions,
         NEW status \in ConfigStatuses, NEW previous \in Nat
  PROVE  /\ BotLoaded(b, v) \in Work
         /\ BotLoaded(b, v).version = v
         /\ [BotLoaded(b, v) EXCEPT !.status = status, !.previous = previous] \in Work
         /\ [BotLoaded(b, v) EXCEPT !.status = status, !.previous = previous].version = v
  <1>1. /\ v \in Nat
        /\ bot[b] \in [state : {"MONITORING", "STOPPED"}, archived : BOOLEAN, config : Nat]
    <2>1. v \in Nat /\ \A w \in Versions \cup {0} : w \in Nat
      BY ConstantTypes
    <2>2. bot[b] \in BotRow
      BY DEF Types, TypeOK, DatabaseOK
    <2> QED
      BY <2>1, <2>2 DEF BotRow
  <1>2. NoWork \in Work /\ {b} \in SUBSET Bots
    BY EmptySession
  <1> DEFINE w == [NoWork EXCEPT !.target = {b}, !.version = v, !.bot = bot[b]]
  <1>3. w \in Work /\ w.version = v
    BY <1>1, <1>2 DEF Work
  <1>4. BotLoaded(b, v) = w
    BY DEF BotLoaded
  <1> HIDE DEF w
  <1>5. /\ [w EXCEPT !.status = status, !.previous = previous] \in Work
        /\ [w EXCEPT !.status = status, !.previous = previous].version = v
    BY <1>3 DEF Work
  <1> QED
    BY <1>3, <1>4, <1>5

\* The start of an activation keeps the types.
LEMMA ActivateBeginTypes ==
  ASSUME Types, NEW t \in Sessions, ActivateBegin(t)
  PROVE  Types'
  <1>1. PICK b \in Bots, v \in Versions : \E previous \in Previous(b, v) :
          Start(t, "activate", [BotLoaded(b, v) EXCEPT !.status = "VALIDATED",
                                                       !.previous = previous])
    BY DEF ActivateBegin
  <1>5. PICK previous \in Previous(b, v) :
          Start(t, "activate", [BotLoaded(b, v) EXCEPT !.status = "VALIDATED",
                                                       !.previous = previous])
    BY <1>1
  <1> DEFINE record == [BotLoaded(b, v) EXCEPT !.status = "VALIDATED", !.previous = previous]
  <1>2. record \in Work /\ record.version = v
    BY ConfigStatusTypes, BotLoadedTypes DEF ConfigStatuses
  <1> HIDE DEF record
  <1>3. ReadsOK("activate", record) /\ "activate" \in Ops /\ Start(t, "activate", record)
    BY <1>5, <1>2 DEF ReadsOK, Ops, record
  <1>4. UNCHANGED <<now, database, lock, todo, inserted, loaded>>
    BY DEF ActivateBegin
  <1> QED
    BY <1>2, <1>3, <1>4, StartTypes
       DEF Types, TypeOK, DatabaseOK, SessionsOK, WritesOnlyResolve, TransactionReads,
           database, Tick, Time

\* The start of an edit keeps the types.
LEMMA EditBeginTypes ==
  ASSUME Types, NEW t \in Sessions, EditBegin(t)
  PROVE  Types'
  <1>1. PICK b \in Bots, v \in Versions : Start(t, "edit", BotLoaded(b, v))
    BY DEF EditBegin
  <1>2. BotLoaded(b, v) \in Work /\ ReadsOK("edit", BotLoaded(b, v)) /\ "edit" \in Ops
    BY ConfigStatusTypes, BotLoadedTypes DEF ReadsOK, Ops
  <1>3. UNCHANGED <<now, database, lock, todo, inserted, loaded>>
    BY DEF EditBegin
  <1> QED
    BY <1>1, <1>2, <1>3, StartTypes
       DEF Types, TypeOK, DatabaseOK, SessionsOK, WritesOnlyResolve, TransactionReads,
           database, Tick, Time

\* The flush of an edit keeps the types.
LEMMA EditFlushTypes ==
  ASSUME Types, NEW t \in Sessions, EditFlush(t)
  PROVE  Types'
  <1> DEFINE v == work[t].version
  <1>1. PICK b \in work[t].target, mode \in {"share", "nokey"} :
          /\ lock' = [lock EXCEPT ![t][b] = mode]
          /\ \E previous \in Previous(b, v) :
               work' = [work EXCEPT ![t].status = config[b][v], ![t].previous = previous]
    BY DEF EditFlush
  <1>8. PICK previous \in Previous(b, v) :
          work' = [work EXCEPT ![t].status = config[b][v], ![t].previous = previous]
    BY <1>1
  <1>2. work[t] \in Work /\ v \in Versions /\ b \in Bots
    BY DEF Types, TypeOK, SessionsOK, TransactionReads, ReadsOK, EditFlush, Work
  <1>3. config[b][v] \in ConfigStatuses /\ previous \in Nat
    BY <1>2, ConfigStatusTypes
  <1> HIDE DEF v
  <1>4. /\ work' \in [Sessions -> Work]
        /\ work'[t].version = v
        /\ \A u \in Sessions \ {t} : work'[u] = work[u]
    BY <1>8, <1>2, <1>3 DEF Types, TypeOK, SessionsOK, Work, v
  <1>5. op' = [op EXCEPT ![t] = "activate"]
    BY DEF EditFlush
  <1>6. SessionsOK'
    BY <1>1, <1>2, <1>4, <1>5 DEF Types, TypeOK, SessionsOK, EditFlush, Ops, LockModes
  <1>7. \A u \in Sessions : ReadsOK(op'[u], work'[u])
    BY <1>2, <1>4, <1>5 DEF Types, TypeOK, SessionsOK, TransactionReads, ReadsOK
  <1> QED
    BY <1>6, <1>7 DEF Types, TypeOK, DatabaseOK, WritesOnlyResolve, TransactionReads, ReadsOK,
                      EditFlush, database, Tick, Time

\* Superseding the previous version keeps the types.
LEMMA SupersedeTypes ==
  ASSUME Types, NEW t \in Sessions, Supersede(t)
  PROVE  Types'
  <1>1. PICK b \in work[t].target : work' = [work EXCEPT ![t].runs = ActiveRuns(b)]
    BY DEF Supersede
  <1>2. work[t] \in Work /\ work[t].version \in Versions /\ b \in Bots
    BY DEF Types, TypeOK, SessionsOK, TransactionReads, ReadsOK, Supersede, Work
  <1>3. ActiveRuns(b) \subseteq Nat
    BY <1>2, ConfigStatusTypes, ConstantTypes
  <1>4. /\ work' \in [Sessions -> Work]
        /\ work'[t].version = work[t].version
        /\ \A u \in Sessions \ {t} : work'[u] = work[u]
    BY <1>1, <1>2, <1>3 DEF Types, TypeOK, SessionsOK, Work
  <1>5. op' = [op EXCEPT ![t] = "supersede"]
    BY DEF Supersede
  <1>6. SessionsOK'
    BY <1>4, <1>5 DEF Types, TypeOK, SessionsOK, Supersede, Ops
  <1>7. \A u \in Sessions : ReadsOK(op'[u], work'[u])
    BY <1>2, <1>4, <1>5 DEF Types, TypeOK, SessionsOK, TransactionReads, ReadsOK
  <1> QED
    BY <1>6, <1>7 DEF Types, TypeOK, DatabaseOK, WritesOnlyResolve, TransactionReads, ReadsOK,
                      Supersede, database, Tick, Time

\* Superseding runs keeps them runs.
LEMMA SupersededRuns ==
  ASSUME NEW rows \in Seq(Run), NEW old
  PROVE  Superseded(rows, old) \in Seq(Run) /\ Len(Superseded(rows, old)) = Len(rows)
  <1>1. Len(rows) \in Nat /\ rows \in [1 .. Len(rows) -> Run] /\ DOMAIN rows = 1 .. Len(rows)
    BY LenProperties
  <1>2. \A r \in Run : [r EXCEPT !.status = "SUPERSEDED"] \in Run
    BY DEF Run
  <1>3. Superseded(rows, old) \in [1 .. Len(rows) -> Run]
    BY <1>1, <1>2 DEF Superseded
  <1> QED
    BY <1>1, <1>3, FunctionIsSeq

\* The commit of an activation keeps the types.
LEMMA ActivateCommitTypes ==
  ASSUME Types, NEW t \in Sessions, ActivateCommit(t)
  PROVE  Types'
  <1> DEFINE w == work[t]
  <1>1. PICK b \in w.target :
          /\ bot' = [bot EXCEPT ![b].state = Column(@, w.bot.state, "MONITORING"),
                                ![b].config = Column(@, w.bot.config, w.version)]
          /\ config' = [config EXCEPT ![b] = [v \in Versions |->
               IF v = w.previous THEN "SUPERSEDED"
               ELSE IF v = w.version THEN Column(@[v], w.status, "ACTIVE")
               ELSE @[v]]]
          /\ runs' = [runs EXCEPT ![b] =
               Append(Superseded(@, w.runs), [config |-> w.version, status |-> "ACTIVE"])]
    BY DEF ActivateCommit
  <1>2. w \in Work /\ w.version \in Versions /\ b \in Bots
    BY DEF Types, TypeOK, SessionsOK, TransactionReads, ReadsOK, ActivateCommit, Work
  <1> HIDE DEF w
  <1>3. bot' \in [Bots -> BotRow]
    <2> DEFINE state == Column(bot[b].state, w.bot.state, "MONITORING")
               version == Column(bot[b].config, w.bot.config, w.version)
    <2>1. bot[b] \in BotRow
      BY <1>2 DEF Types, TypeOK, DatabaseOK
    <2>2. state \in {"MONITORING", "STOPPED"} /\ version \in Versions \cup {0}
      BY <1>2, <2>1 DEF Column, BotRow
    <2>3. bot' = [bot EXCEPT ![b] = [bot[b] EXCEPT !.state = state, !.config = version]]
      BY <1>1, <1>2, <2>1 DEF Types, TypeOK, DatabaseOK, BotRow
    <2> HIDE DEF state, version
    <2>4. [bot[b] EXCEPT !.state = state, !.config = version] \in BotRow
      BY <2>1, <2>2 DEF BotRow
    <2> QED
      BY <2>3, <2>4 DEF Types, TypeOK, DatabaseOK
  <1>4. config' \in [Bots -> [Versions -> ConfigStatuses]]
    BY <1>1, <1>2 DEF Types, TypeOK, DatabaseOK, ConfigStatuses, Column
  <1>5. runs' \in [Bots -> Seq(Run)]
    <2>1. Superseded(runs[b], w.runs) \in Seq(Run)
      BY <1>2, SupersededRuns DEF Types, TypeOK, DatabaseOK
    <2>2. [config |-> w.version, status |-> "ACTIVE"] \in Run
      BY <1>2 DEF Run
    <2> QED
      BY <1>1, <1>2, <2>1, <2>2 DEF Types, TypeOK, DatabaseOK
  <1>6. DatabaseOK'
    BY <1>3, <1>4, <1>5 DEF Types, TypeOK, DatabaseOK, ActivateCommit, Tick, Time
  <1> QED
    BY <1>6, EndTypes DEF ActivateCommit

\* The start of archiving keeps the types.
LEMMA ArchiveBeginTypes ==
  ASSUME Types, NEW t \in Sessions, ArchiveBegin(t)
  PROVE  Types'
  <1>1. PICK b \in Bots :
          /\ Start(t, "archive", [NoWork EXCEPT !.target = {b}, !.runs = ActiveRuns(b)])
          /\ lock' = [lock EXCEPT ![t][b] = "nokey"]
          /\ loaded' = [loaded EXCEPT ![t][b] =
               IF OpenRows(b) = {} THEN NothingLoaded
               ELSE [LoadOne(b, OpenRows(b)) EXCEPT
                       !.new.status = "CANCELLED", !.new.reason = "BOT_ARCHIVED",
                       !.new.closed = now]]
    BY DEF ArchiveBegin
  <1> DEFINE record == [NoWork EXCEPT !.target = {b}, !.runs = ActiveRuns(b)]
  <1>2. record \in Work /\ ReadsOK("archive", record) /\ "archive" \in Ops
    <2>1. ActiveRuns(b) \subseteq Nat
      BY DEF ActiveRuns, Types, TypeOK, DatabaseOK
    <2> QED
      BY <2>1, EmptySession DEF Work, ReadsOK, Ops
  <1>3. /\ loaded'[t][b] \in Loaded
        /\ loaded'[t][b].new.status \in {loaded'[t][b].old.status, "CLOSED", "CANCELLED"}
    <2> DEFINE l == LoadOne(b, OpenRows(b))
    <2>1. l \in Loaded
      BY LoadedRow DEF OpenRows, Types, TypeOK
    <2>2. now \in Int /\ l.new \in Outcome
      BY <2>1, ConstantTypes DEF Types, TypeOK, DatabaseOK, Time, Loaded
    <2>3. loaded'[t][b] = NothingLoaded
            \/ loaded'[t][b] = [l EXCEPT !.new.status = "CANCELLED", !.new.reason = "BOT_ARCHIVED",
                                         !.new.closed = now]
      BY <1>1 DEF Types, TypeOK, SessionsOK
    <2> HIDE DEF l
    <2> DEFINE new == [l.new EXCEPT !.status = "CANCELLED", !.reason = "BOT_ARCHIVED",
                                    !.closed = now]
    <2>4. new \in Outcome /\ new.status = "CANCELLED"
      BY <2>2 DEF Outcome, Statuses, CloseReasons
    <2>5. loaded'[t][b] = NothingLoaded \/ loaded'[t][b] = [l EXCEPT !.new = new]
      BY <2>1, <2>2, <2>3 DEF Loaded, Outcome
    <2> HIDE DEF new
    <2> QED
      BY <2>1, <2>4, <2>5, EmptySession DEF Loaded
  <1>4. loaded' \in [Sessions -> [Bots -> Loaded]] /\ WritesOnlyResolve'
    BY <1>1, <1>3 DEF Types, TypeOK, SessionsOK, WritesOnlyResolve
  <1>5. lock' \in [Sessions -> [Bots -> LockModes]]
    BY <1>1 DEF Types, TypeOK, SessionsOK, LockModes
  <1> HIDE DEF record
  <1> QED
    BY <1>1, <1>2, <1>4, <1>5, StartTypes
       DEF Types, TypeOK, DatabaseOK, SessionsOK, TransactionReads, ArchiveBegin, database,
           Tick, Time, record

\* The commit of archiving keeps the types.
LEMMA ArchiveCommitTypes ==
  ASSUME Types, NEW t \in Sessions, ArchiveCommit(t)
  PROVE  Types'
  <1>1. PICK b \in work[t].target :
          /\ bot' = [bot EXCEPT ![b].archived = TRUE, ![b].state = "STOPPED"]
          /\ runs' = [runs EXCEPT ![b] = Superseded(@, work[t].runs)]
    BY DEF ArchiveCommit
  <1>2. b \in Bots
    BY DEF Types, TypeOK, SessionsOK, Work
  <1>3. bot' \in [Bots -> BotRow]
    <2>1. bot \in [Bots -> BotRow]
      BY DEF Types, TypeOK, DatabaseOK
    <2> QED
      BY <1>1, <1>2, <2>1 DEF BotRow
  <1>4. runs' \in [Bots -> Seq(Run)]
    BY <1>1, <1>2, SupersededRuns DEF Types, TypeOK, DatabaseOK
  <1>5. outcomes' \in [Bots -> Seq(Outcome)]
    BY WrittenBackRows DEF Types, ArchiveCommit
  <1>6. DatabaseOK'
    BY <1>3, <1>4, <1>5 DEF Types, TypeOK, DatabaseOK, ArchiveCommit, Tick, Time
  <1> QED
    BY <1>6, EndTypes DEF ArchiveCommit

\* A rollback keeps the types.
LEMMA RollbackTypes ==
  ASSUME Types, NEW t \in Sessions, Rollback(t)
  PROVE  Types'
  <1>1. DatabaseOK'
    BY DEF Types, TypeOK, DatabaseOK, Rollback, database, Tick, Time
  <1> QED
    BY <1>1, EndTypes DEF Rollback, database

\* A pause keeps the types.
LEMMA PauseFeedTypes ==
  ASSUME Types, PauseFeed
  PROVE  Types'
  <1>1. feed' \in [paused : Time \cup {Null}, resume : Nat \cup {Null}] /\ feed'.paused <= now
    BY ConstantTypes DEF Types, TypeOK, DatabaseOK, TransactionReads, PauseFeed, Time
  <1> QED
    BY <1>1 DEF Types, TypeOK, DatabaseOK, SessionsOK, WritesOnlyResolve, TransactionReads,
                PauseFeed, ReadsOK, sessions, Tick, Time

\* The UPDATE of resume_feed touches the paused time of open rows only.
ResumedRows(rows, seconds) ==
  [i \in DOMAIN rows |-> IF rows[i].status = "OPEN" THEN [rows[i] EXCEPT !.paused = @ + seconds]
                         ELSE rows[i]]

\* Adding a pause to the rows keeps types and statuses.
LEMMA ResumedRowsTypes ==
  ASSUME NEW rows \in Seq(Outcome), NEW seconds \in Nat
  PROVE  /\ ResumedRows(rows, seconds) \in Seq(Outcome)
         /\ Len(ResumedRows(rows, seconds)) = Len(rows)
         /\ DOMAIN ResumedRows(rows, seconds) = DOMAIN rows
         /\ \A i \in DOMAIN rows :
              /\ ResumedRows(rows, seconds)[i].status = rows[i].status
              /\ ResumedRows(rows, seconds)[i].opened = rows[i].opened
  <1>1. Len(rows) \in Nat /\ rows \in [1 .. Len(rows) -> Outcome] /\ DOMAIN rows = 1 .. Len(rows)
    BY LenProperties
  <1>2. ASSUME NEW o \in Outcome
        PROVE  /\ [o EXCEPT !.paused = o.paused + seconds] \in Outcome
               /\ [o EXCEPT !.paused = o.paused + seconds].status = o.status
               /\ [o EXCEPT !.paused = o.paused + seconds].opened = o.opened
    <2>1. o.paused + seconds \in Nat
      BY DEF Outcome
    <2> QED
      BY <2>1 DEF Outcome
  <1>3. ResumedRows(rows, seconds) \in [1 .. Len(rows) -> Outcome]
    BY <1>1, <1>2 DEF ResumedRows
  <1>4. \A i \in DOMAIN rows : /\ ResumedRows(rows, seconds)[i].status = rows[i].status
                               /\ ResumedRows(rows, seconds)[i].opened = rows[i].opened
    BY <1>1, <1>2 DEF ResumedRows
  <1> QED
    BY <1>1, <1>3, <1>4, FunctionIsSeq

\* Resuming adds the same pause to the rows of every bot.
LEMMA ResumedOutcomes ==
  ASSUME Types, ResumeFeed
  PROVE  \E seconds \in Nat : outcomes' = [b \in Bots |-> ResumedRows(outcomes[b], seconds)]
  <1> DEFINE seconds == IF Paused THEN now - feed.paused ELSE 0
  <1>1. seconds \in Nat
    BY ConstantTypes DEF Types, TypeOK, DatabaseOK, TransactionReads, Paused, Time
  <1>2. outcomes' = [b \in Bots |-> ResumedRows(outcomes[b], seconds)]
    BY DEF ResumeFeed, ResumedRows
  <1> QED
    BY <1>1, <1>2

\* A resume keeps the types.
LEMMA ResumeFeedTypes ==
  ASSUME Types, ResumeFeed
  PROVE  Types'
  <1>1. outcomes' \in [Bots -> Seq(Outcome)]
    BY ResumedOutcomes, ResumedRowsTypes DEF Types, TypeOK, DatabaseOK
  <1>2. feed' \in [paused : Time \cup {Null}, resume : Nat \cup {Null}] /\ feed'.paused <= now
    BY ConstantTypes DEF Types, TypeOK, DatabaseOK, ResumeFeed, Time, Null
  <1> QED
    BY <1>1, <1>2 DEF Types, TypeOK, DatabaseOK, SessionsOK, WritesOnlyResolve, TransactionReads,
                      ResumeFeed, ReadsOK, sessions, Tick, Time

\* Every step keeps the types.
LEMMA StepTypes ==
  ASSUME Types, [Next]_vars
  PROVE  Types'
  <1>1. CASE UNCHANGED vars
    BY <1>1 DEF Types, TypeOK, DatabaseOK, SessionsOK, WritesOnlyResolve, TransactionReads,
                ReadsOK, vars, database, sessions, Tick, Time
  <1>2. CASE Next
    BY <1>2, TimePassesTypes, PauseFeedTypes, ResumeFeedTypes, QuoteBeginTypes,
       QuoteEvaluateTypes, QuoteCommitTypes, CandleBeginTypes, CandleSignalTypes,
       CandleOutcomeTypes, CandleCommitTypes, ActivateBeginTypes, EditBeginTypes,
       EditFlushTypes, SupersedeTypes, ActivateCommitTypes,
       ArchiveBeginTypes, ArchiveCommitTypes, RollbackTypes DEF Next
  <1> QED
    BY <1>1, <1>2

\* The types hold at first.
LEMMA InitTypes ==
  ASSUME Init
  PROVE  Types
  <1>1. 0 \in Time
    BY ConstantTypes DEF Time
  <1>2. [b \in Bots |-> <<>>] \in [Bots -> Seq(Outcome)]
    BY EmptySeq
  <1>3. PICK new \in SUBSET Unconfigured :
          /\ bot = [b \in Bots |->
               [state |-> IF b \in new THEN "STOPPED" ELSE "MONITORING", archived |-> FALSE,
                config |-> IF b \in new THEN 0 ELSE 1]]
          /\ config = [b \in Bots |-> [v \in Versions |->
               IF v = 1 /\ b \notin new THEN "ACTIVE"
               ELSE IF v \in NewVersions THEN "ABSENT" ELSE "VALIDATED"]]
          /\ runs = [b \in Bots |->
               IF b \in new THEN <<>> ELSE <<[config |-> 1, status |-> "ACTIVE"]>>]
    BY Zenon DEF Init
  <1>7. bot \in [Bots -> BotRow]
    BY <1>3, ConstantTypes DEF BotRow
  <1>8. config \in [Bots -> [Versions -> ConfigStatuses]]
    BY <1>3 DEF ConfigStatuses
  <1>9. runs \in [Bots -> Seq(Run)]
    <2>1. <<>> \in Seq(Run) /\ <<[config |-> 1, status |-> "ACTIVE"]>> \in Seq(Run)
      BY EmptySeq, ConstantTypes DEF Run
    <2> QED
      BY <1>3, <2>1
  <1>4. DatabaseOK
    BY <1>1, <1>2, <1>7, <1>8, <1>9, ConstantTypes DEF Init, DatabaseOK, Tick
  <1>5. SessionsOK /\ WritesOnlyResolve
    BY <1>2, EmptySession DEF Init, SessionsOK, WritesOnlyResolve, Ops, LockModes
  <1>6. TransactionReads
    BY DEF Init, TransactionReads, ReadsOK, Null
  <1> QED
    BY <1>4, <1>5, <1>6 DEF Types, TypeOK

\* Types: every row and every session keeps its type, whatever the constants.
THEOREM TypeCorrect == Spec => []TypeOK
  <1>1. Init => Types
    BY InitTypes
  <1>2. Types /\ [Next]_vars => Types'
    BY StepTypes
  <1>3. Types => TypeOK
    BY DEF Types
  <1> QED
    BY <1>1, <1>2, <1>3, PTL DEF Spec

-----------------------------------------------------------------------------
(* Locks: an open position is created only under the bot's row lock.       *)

Locks ==
  /\ IdleIsClean
  /\ LocksCompatible
  /\ InsertedOpenIsAlone
  /\ OpenedRows
  /\ OneOpenPerBot

\* A step that opens no position among the committed rows.
NothingOpened ==
  \A b \in Bots :
    /\ DOMAIN outcomes'[b] = DOMAIN outcomes[b]
    /\ \A i \in DOMAIN outcomes[b] :
         /\ outcomes'[b][i].opened = outcomes[b][i].opened
         /\ outcomes'[b][i].status = "OPEN" => outcomes[b][i].status = "OPEN"

\* Conflicts of locks are mutual.
LEMMA ConflictSymmetric ==
  ASSUME NEW m, NEW n
  PROVE  Conflict(m, n) <=> Conflict(n, m)
  BY DEF Conflict

\* A step that opens nothing, in which every session keeps its locks and its
\* inserted rows or forgets them.
LEMMA KeepsLocks ==
  ASSUME Locks, NothingOpened,
         \A u \in Sessions :
           \/ /\ lock'[u] = lock[u] /\ inserted'[u] = inserted[u]
              /\ op'[u] = "idle" => op[u] = "idle"
              /\ op[u] = "candles" => op'[u] = "candles"
           \/ \A b \in Bots : lock'[u][b] = "none" /\ inserted'[u][b] = <<>>
  PROVE  Locks'
  <1>1. IdleIsClean'
    BY DEF Locks, IdleIsClean
  <1>2. LocksCompatible'
    BY DEF Locks, LocksCompatible, Conflict
  <1>3. InsertedOpenIsAlone'
    <2> SUFFICES ASSUME NEW t \in Sessions, NEW b \in Bots, NEW i \in DOMAIN inserted'[t][b],
                        inserted'[t][b][i].status = "OPEN"
                 PROVE  /\ lock'[t][b] = "update"
                        /\ ~HasOpen(outcomes'[b])
                        /\ \A j \in DOMAIN inserted'[t][b] :
                             inserted'[t][b][j].status = "OPEN" => j = i
      BY DEF InsertedOpenIsAlone, HasOpen
    <2>1. lock'[t] = lock[t] /\ inserted'[t] = inserted[t]
      OBVIOUS
    <2>2. ~HasOpen(outcomes[b])
      BY <2>1 DEF Locks, InsertedOpenIsAlone
    <2>3. ~HasOpen(outcomes'[b])
      BY <2>2 DEF HasOpen, NothingOpened
    <2> QED
      BY <2>1, <2>3 DEF Locks, InsertedOpenIsAlone
  <1>4. OpenedRows'
    BY DEF Locks, OpenedRows, NothingOpened
  <1>5. OneOpenPerBot'
    BY DEF Locks, OneOpenPerBot, OpenRows, NothingOpened
  <1> QED
    BY <1>1, <1>2, <1>3, <1>4, <1>5 DEF Locks

\* The end of a transaction that has opened nothing.
LEMMA EndLocks ==
  ASSUME Types, Locks, NEW t \in Sessions, End(t), NothingOpened
  PROVE  Locks'
  <1>1. \A b \in Bots : lock'[t][b] = "none" /\ inserted'[t][b] = <<>>
    BY DEF End, Types, TypeOK, SessionsOK
  <1>2. \A u \in Sessions \ {t} :
          lock'[u] = lock[u] /\ inserted'[u] = inserted[u] /\ op'[u] = op[u]
    BY DEF End, Types, TypeOK, SessionsOK
  <1> QED
    BY <1>1, <1>2, KeepsLocks

\* Writing back opens nothing and frees the locks of the session.
LEMMA WrittenBackLocks ==
  ASSUME Types, Locks, NEW t \in Sessions, QuoteCommit(t) \/ ArchiveCommit(t)
  PROVE  Locks'
  <1>1. End(t) /\ outcomes' = WrittenBack(t)
    BY DEF QuoteCommit, ArchiveCommit
  <1>2. NothingOpened
    BY <1>1, WrittenBackRows DEF Types, NothingOpened
  <1> QED
    BY <1>1, <1>2, EndLocks

\* Where no outcome changes, nothing opens.
LEMMA UnchangedOutcomes ==
  ASSUME UNCHANGED outcomes
  PROVE  NothingOpened
  BY DEF NothingOpened

\* A session other than a candle batch that locks the row of a bot.
LEMMA TakesLock ==
  ASSUME Types, Locks, NEW t \in Sessions, NEW b \in Bots, NEW mode \in {"share", "nokey"},
         NEW kind \in Ops \ {"idle"},
         CanLock(t, b, mode), op[t] # "candles",
         op' = [op EXCEPT ![t] = kind], lock' = [lock EXCEPT ![t][b] = mode],
         inserted' = inserted, outcomes' = outcomes
  PROVE  Locks'
  <1>1. \A c \in Bots : inserted[t][c] = <<>>
    BY DEF Locks, IdleIsClean
  <1>2. /\ lock'[t][b] = mode /\ \A c \in Bots \ {b} : lock'[t][c] = lock[t][c]
        /\ \A u \in Sessions \ {t} : lock'[u] = lock[u]
    BY DEF Types, TypeOK, SessionsOK
  <1>3. op'[t] = kind /\ \A u \in Sessions \ {t} : op'[u] = op[u]
    BY DEF Types, TypeOK, SessionsOK
  <1>4. IdleIsClean'
    BY <1>1, <1>2, <1>3 DEF Locks, IdleIsClean
  <1>5. LocksCompatible'
    BY <1>2, ConflictSymmetric DEF Locks, LocksCompatible, CanLock
  <1>6. InsertedOpenIsAlone'
    BY <1>1, <1>2 DEF Locks, InsertedOpenIsAlone, HasOpen
  <1> QED
    BY <1>4, <1>5, <1>6 DEF Locks, OpenedRows, OneOpenPerBot, OpenRows

\* Archiving takes the lock of the bot.
LEMMA ArchiveBeginLocks ==
  ASSUME Types, Locks, NEW t \in Sessions, ArchiveBegin(t)
  PROVE  Locks'
  <1>1. PICK b \in Bots :
          /\ CanLock(t, b, "nokey")
          /\ op[t] = "idle" /\ op' = [op EXCEPT ![t] = "archive"]
          /\ lock' = [lock EXCEPT ![t][b] = "nokey"]
    BY DEF ArchiveBegin, Start
  <1>2. inserted' = inserted /\ outcomes' = outcomes /\ "archive" \in Ops \ {"idle"}
    BY DEF ArchiveBegin, database, Ops
  <1> QED
    BY <1>1, <1>2, TakesLock

\* An edit that is flushed takes the lock of the bot.
LEMMA EditFlushLocks ==
  ASSUME Types, Locks, NEW t \in Sessions, EditFlush(t)
  PROVE  Locks'
  <1>1. PICK b \in work[t].target, mode \in {"share", "nokey"} :
          CanLock(t, b, mode) /\ lock' = [lock EXCEPT ![t][b] = mode]
    BY DEF EditFlush
  <1>2. /\ b \in Bots /\ op[t] = "edit" /\ op' = [op EXCEPT ![t] = "activate"]
        /\ inserted' = inserted /\ outcomes' = outcomes /\ "activate" \in Ops \ {"idle"}
    BY DEF Types, TypeOK, SessionsOK, Work, EditFlush, database, Ops
  <1> QED
    BY <1>1, <1>2, TakesLock

\* The insertion of a signal shares the lock of the bot's row and opens nothing.
LEMMA CandleSignalLocks ==
  ASSUME Types, Locks, NEW t \in Sessions, CandleSignal(t)
  PROVE  Locks'
  <1>1. PICK row \in todo[t], decision \in Decisions :
          /\ CanLock(t, row[1], "share")
          /\ lock' = [lock EXCEPT ![t][row[1]] = IF @ = "none" THEN "share" ELSE @]
          /\ inserted' = [inserted EXCEPT ![t][row[1]] =
               Append(@, NewSignal(row[2], SignalVersion(row), work[t].latest, decision))]
    BY DEF CandleSignal
  <1> DEFINE b == row[1]
             new == NewSignal(row[2], SignalVersion(row), work[t].latest, decision)
  <1>2. b \in Bots /\ new \in Outcome /\ new.status = "NONE" /\ new.opened = Null
    <2>1. row \in Bots \X Nat \X Versions
      BY DEF Types, TypeOK, SessionsOK
    <2>2. row[1] \in Bots /\ row[2] \in Nat /\ row[3] \in Nat /\ decision \in AllDecisions
      BY <2>1, ConstantTypes
    <2>3. work[t].latest \in Nat
      BY DEF Types, TypeOK, SessionsOK, Work
    <2> QED
      BY <2>2, <2>3, SignalRows DEF SignalVersion
  <1>3. op' = op /\ outcomes' = outcomes /\ op[t] = "candles"
    BY DEF CandleSignal, database
  <1>4. lock'[t][b] = (IF lock[t][b] = "none" THEN "share" ELSE lock[t][b])
    BY <1>1, <1>2 DEF Types, TypeOK, SessionsOK
  <1>5. inserted'[t][b] = Append(inserted[t][b], new)
    BY <1>1, <1>2 DEF Types, TypeOK, SessionsOK
  <1>6. \A u \in Sessions, c \in Bots :
          u # t \/ c # b => lock'[u][c] = lock[u][c] /\ inserted'[u][c] = inserted[u][c]
    BY <1>1, <1>2 DEF Types, TypeOK, SessionsOK
  <1>7. inserted[t][b] \in Seq(Outcome)
    BY <1>2 DEF Types, TypeOK, SessionsOK
  <1>8. CanLock(t, b, "share")
    BY <1>1
  <1> HIDE DEF b, new
  <1>9. /\ DOMAIN inserted'[t][b] = 1 .. Len(inserted[t][b]) + 1
        /\ DOMAIN inserted[t][b] = 1 .. Len(inserted[t][b])
        /\ \A i \in DOMAIN inserted[t][b] : inserted'[t][b][i] = inserted[t][b][i]
        /\ inserted'[t][b][Len(inserted[t][b]) + 1] = new
    BY <1>2, <1>5, <1>7
  <1>10. \A i \in DOMAIN inserted'[t][b] :
           inserted'[t][b][i] = new
             \/ (i \in DOMAIN inserted[t][b] /\ inserted'[t][b][i] = inserted[t][b][i])
    BY <1>7, <1>9
  <1>11. IdleIsClean'
    BY <1>3, <1>6 DEF Locks, IdleIsClean
  <1>12. LocksCompatible'
    BY <1>2, <1>4, <1>6, <1>8, ConflictSymmetric DEF Locks, LocksCompatible, CanLock
  <1>13. InsertedOpenIsAlone'
    <2> SUFFICES ASSUME NEW u \in Sessions, NEW c \in Bots, NEW i \in DOMAIN inserted'[u][c],
                        inserted'[u][c][i].status = "OPEN"
                 PROVE  /\ lock'[u][c] = "update"
                        /\ ~HasOpen(outcomes[c])
                        /\ \A j \in DOMAIN inserted'[u][c] :
                             inserted'[u][c][j].status = "OPEN" => j = i
      BY <1>3 DEF InsertedOpenIsAlone, HasOpen
    <2>1. CASE u # t \/ c # b
      BY <1>6, <2>1 DEF Locks, InsertedOpenIsAlone
    <2>2. CASE u = t /\ c = b
      <3>1. i \in DOMAIN inserted[t][b] /\ inserted[t][b][i].status = "OPEN"
        BY <1>2, <1>10, <2>2
      <3>2. lock[t][b] = "update" /\ ~HasOpen(outcomes[b])
        BY <1>2, <3>1 DEF Locks, InsertedOpenIsAlone
      <3>3. \A j \in DOMAIN inserted'[t][b] : inserted'[t][b][j].status = "OPEN" => j = i
        BY <1>2, <1>10, <3>1 DEF Locks, InsertedOpenIsAlone
      <3> QED
        BY <1>4, <2>2, <3>2, <3>3
    <2> QED
      BY <2>1, <2>2
  <1>14. OpenedRows'
    BY <1>2, <1>3, <1>6, <1>10 DEF Locks, OpenedRows
  <1>15. OneOpenPerBot'
    BY <1>3 DEF Locks, OneOpenPerBot, OpenRows
  <1> QED
    BY <1>11, <1>12, <1>13, <1>14, <1>15 DEF Locks

\* The outcome of a signal: it is opened only under FOR UPDATE, when no row of
\* the bot is open, committed or inserted by the same transaction.
LEMMA CandleOutcomeLocks ==
  ASSUME Types, Locks, NEW t \in Sessions, CandleOutcome(t)
  PROVE  Locks'
  <1>1. PICK b \in Bots, sized \in BOOLEAN :
          /\ AwaitsOutcome(t, b)
          /\ CanLock(t, b, OutcomeLock)
          /\ lock' = [lock EXCEPT ![t][b] = OutcomeLock]
          /\ inserted' = [inserted EXCEPT ![t][b][Len(inserted[t][b])] =
               CASE HasOpen(outcomes[b]) \/ HasOpen(inserted[t][b]) ->
                      Skipped(inserted[t][b][Len(inserted[t][b])], "OPEN_POSITION_EXISTS")
                 [] ~(HasOpen(outcomes[b]) \/ HasOpen(inserted[t][b])) /\ ~sized ->
                      Skipped(inserted[t][b][Len(inserted[t][b])], "INVALID_POSITION_SIZE")
                 [] OTHER -> Opened(inserted[t][b][Len(inserted[t][b])], work[t].tick)]
    BY Zenon DEF CandleOutcome
  <1> DEFINE n == Len(inserted[t][b])
             old == inserted[t][b][n]
             new == inserted'[t][b][n]
  <1>2. inserted[t][b] \in Seq(Outcome) /\ n \in Nat /\ n \in 1 .. n
    BY <1>1 DEF Types, TypeOK, SessionsOK, AwaitsOutcome
  <1>3. /\ op' = op /\ outcomes' = outcomes /\ op[t] = "candles"
        /\ lock'[t][b] = "update" /\ CanLock(t, b, "update")
        /\ \A u \in Sessions, c \in Bots :
             u # t \/ c # b => lock'[u][c] = lock[u][c] /\ inserted'[u][c] = inserted[u][c]
    BY <1>1 DEF CandleOutcome, OutcomeLock, database, Types, TypeOK, SessionsOK
  <1>4. /\ DOMAIN inserted[t][b] = 1 .. n /\ DOMAIN inserted'[t][b] = 1 .. n
        /\ \A i \in 1 .. n : i # n => inserted'[t][b][i] = inserted[t][b][i]
    BY <1>1, <1>2 DEF Types, TypeOK, SessionsOK
  <1>16. \A i \in DOMAIN inserted'[t][b] :
          i # n => i \in DOMAIN inserted[t][b] /\ inserted'[t][b][i] = inserted[t][b][i]
    BY <1>4
  <1>5. new \in {Skipped(old, "OPEN_POSITION_EXISTS"), Skipped(old, "INVALID_POSITION_SIZE"),
                 Opened(old, work[t].tick)}
    BY <1>1, <1>2 DEF Types, TypeOK, SessionsOK
  <1>6. HasOpen(outcomes[b]) \/ HasOpen(inserted[t][b]) => new = Skipped(old, "OPEN_POSITION_EXISTS")
    BY <1>1, <1>2 DEF Types, TypeOK, SessionsOK
  <1>7. /\ old \in Outcome /\ old.status = "NONE" /\ old.opened = Null
        /\ work[t].tick \in Tick
    <2>1. old.status = "NONE" /\ old \in Outcome
      BY <1>1, <1>2 DEF AwaitsOutcome, Pending
    <2>2. old.opened = Null
      BY <1>2, <1>4, <2>1 DEF Locks, OpenedRows
    <2> QED
      BY <1>3, <2>1, <2>2 DEF Types, TransactionReads, ReadsOK
  <1>8. (new.status = "OPEN") <=> (new.opened # Null)
    <2>1. {"OPEN_POSITION_EXISTS", "INVALID_POSITION_SIZE"} \subseteq SkipReasons
      BY DEF SkipReasons
    <2>2. work[t].tick.at # Null
      BY <1>7, QuoteTypes DEF Null
    <2> HIDE DEF old, new
    <2> QED
      BY <1>5, <1>7, <2>1, <2>2, OutcomeRows
  <1>9. new.status = "OPEN" => ~HasOpen(outcomes[b]) /\ ~HasOpen(inserted[t][b])
    <2>1. Skipped(old, "OPEN_POSITION_EXISTS").status # "OPEN"
      BY <1>7, OutcomeRows DEF SkipReasons
    <2> QED
      BY <1>6, <2>1
  <1> HIDE DEF n, old, new
  <1>10. IdleIsClean'
    BY <1>3 DEF Locks, IdleIsClean
  <1>11. LocksCompatible'
    BY <1>3, ConflictSymmetric DEF Locks, LocksCompatible, CanLock
  <1>12. InsertedOpenIsAlone'
    <2> SUFFICES ASSUME NEW u \in Sessions, NEW c \in Bots, NEW i \in DOMAIN inserted'[u][c],
                        inserted'[u][c][i].status = "OPEN"
                 PROVE  /\ lock'[u][c] = "update"
                        /\ ~HasOpen(outcomes[c])
                        /\ \A j \in DOMAIN inserted'[u][c] :
                             inserted'[u][c][j].status = "OPEN" => j = i
      BY <1>3 DEF InsertedOpenIsAlone, HasOpen
    <2>1. CASE u # t \/ c # b
      BY <1>3, <2>1 DEF Locks, InsertedOpenIsAlone
    <2>2. CASE u = t /\ c = b /\ i # n
      <3>1. i \in DOMAIN inserted[t][b] /\ inserted[t][b][i].status = "OPEN"
        BY <1>4, <2>2
      <3>2. HasOpen(inserted[t][b])
        BY <3>1 DEF HasOpen
      <3>3. new.status # "OPEN"
        BY <1>9, <3>2
      <3>4. ~HasOpen(outcomes[b])
        BY <3>1 DEF Locks, InsertedOpenIsAlone
      <3>5. \A j \in DOMAIN inserted'[t][b] : inserted'[t][b][j].status = "OPEN" => j = i
        <4> SUFFICES ASSUME NEW j \in DOMAIN inserted'[t][b], inserted'[t][b][j].status = "OPEN"
                     PROVE  j = i
          OBVIOUS
        <4>1. j # n
          BY <3>3 DEF new
        <4>2. j \in DOMAIN inserted[t][b] /\ inserted[t][b][j].status = "OPEN"
          BY <1>16, <4>1
        <4> QED
          BY <3>1, <4>2 DEF Locks, InsertedOpenIsAlone
      <3> QED
        BY <1>3, <2>2, <3>4, <3>5
    <2>3. CASE u = t /\ c = b /\ i = n
      <3>1. new.status = "OPEN"
        BY <2>3 DEF new
      <3>2. \A j \in DOMAIN inserted[t][b] : inserted[t][b][j].status # "OPEN"
        BY <1>9, <3>1 DEF HasOpen
      <3>3. \A j \in DOMAIN inserted'[t][b] : inserted'[t][b][j].status = "OPEN" => j = i
        <4> SUFFICES ASSUME NEW j \in DOMAIN inserted'[t][b], j # n
                     PROVE  inserted'[t][b][j].status # "OPEN"
          BY <2>3
        <4>1. j \in DOMAIN inserted[t][b] /\ inserted'[t][b][j] = inserted[t][b][j]
          BY <1>16
        <4> QED
          BY <3>2, <4>1
      <3> QED
        BY <1>3, <1>9, <2>3, <3>1, <3>3
    <2> QED
      BY <2>1, <2>2, <2>3
  <1>13. OpenedRows'
    <2>1. ASSUME NEW u \in Sessions, NEW c \in Bots, NEW i \in DOMAIN inserted'[u][c]
          PROVE  (inserted'[u][c][i].status = "OPEN") <=> (inserted'[u][c][i].opened # Null)
      <3>1. CASE u # t \/ c # b
        BY <1>3, <3>1 DEF Locks, OpenedRows
      <3>2. CASE u = t /\ c = b /\ i # n
        BY <1>16, <3>2 DEF Locks, OpenedRows
      <3>3. CASE u = t /\ c = b /\ i = n
        BY <1>8, <3>3 DEF new
      <3> QED
        BY <3>1, <3>2, <3>3
    <2> QED
      BY <1>3, <2>1 DEF Locks, OpenedRows
  <1>14. OneOpenPerBot'
    BY <1>3 DEF Locks, OneOpenPerBot, OpenRows
  <1> QED
    BY <1>10, <1>11, <1>12, <1>13, <1>14 DEF Locks

\* The commit: no other session can have opened a position of the same bot, and
\* none was committed since the lock was taken.
LEMMA CandleCommitLocks ==
  ASSUME Types, Locks, NEW t \in Sessions, CandleCommit(t)
  PROVE  Locks'
  <1>1. End(t) /\ outcomes' = [b \in Bots |-> outcomes[b] \o inserted[t][b]]
    BY DEF CandleCommit
  <1>2. ASSUME NEW b \in Bots, NEW i \in DOMAIN outcomes'[b]
        PROVE  /\ i \in Int /\ Len(outcomes[b]) \in Int
               /\ \/ i \in DOMAIN outcomes[b] /\ outcomes'[b][i] = outcomes[b][i]
                  \/ /\ i - Len(outcomes[b]) \in DOMAIN inserted[t][b]
                     /\ outcomes'[b][i] = inserted[t][b][i - Len(outcomes[b])]
    <2>1. outcomes[b] \in Seq(Outcome) /\ inserted[t][b] \in Seq(Outcome)
      BY DEF Types, TypeOK, DatabaseOK, SessionsOK
    <2>2. outcomes'[b] = outcomes[b] \o inserted[t][b]
      BY <1>1
    <2>3. i \in DOMAIN (outcomes[b] \o inserted[t][b])
      BY <2>2
    <2>4. LET s == outcomes[b]
              r == inserted[t][b]
          IN  /\ i \in Int /\ Len(s) \in Int
              /\ \/ i \in DOMAIN s /\ (s \o r)[i] = s[i]
                 \/ i - Len(s) \in DOMAIN r /\ (s \o r)[i] = r[i - Len(s)]
      BY <2>1, <2>3, ConcatRows
    <2> QED
      BY <2>2, <2>4
  <1>3. \A b \in Bots : lock'[t][b] = "none" /\ inserted'[t][b] = <<>>
    BY <1>1 DEF End, Types, TypeOK, SessionsOK
  <1>4. \A u \in Sessions \ {t} :
          lock'[u] = lock[u] /\ inserted'[u] = inserted[u] /\ op'[u] = op[u]
    BY <1>1 DEF End, Types, TypeOK, SessionsOK
  <1>5. ASSUME NEW b \in Bots, NEW i \in DOMAIN outcomes'[b], outcomes'[b][i].status = "OPEN"
        PROVE  \/ i \in OpenRows(b)
               \/ /\ i - Len(outcomes[b]) \in DOMAIN inserted[t][b]
                  /\ inserted[t][b][i - Len(outcomes[b])].status = "OPEN"
    BY <1>2, <1>5 DEF OpenRows
  <1>6. IdleIsClean'
    BY <1>3, <1>4 DEF Locks, IdleIsClean
  <1>7. LocksCompatible'
    BY <1>3, <1>4 DEF Locks, LocksCompatible, Conflict
  <1>8. InsertedOpenIsAlone'
    <2> SUFFICES ASSUME NEW u \in Sessions, NEW b \in Bots, NEW i \in DOMAIN inserted'[u][b],
                        inserted'[u][b][i].status = "OPEN"
                 PROVE  /\ lock'[u][b] = "update"
                        /\ ~HasOpen(outcomes'[b])
                        /\ \A j \in DOMAIN inserted'[u][b] :
                             inserted'[u][b][j].status = "OPEN" => j = i
      BY DEF InsertedOpenIsAlone, HasOpen
    <2>1. u # t /\ inserted'[u] = inserted[u] /\ lock'[u] = lock[u]
      BY <1>3, <1>4
    <2>2. /\ lock[u][b] = "update" /\ ~HasOpen(outcomes[b])
          /\ \A j \in DOMAIN inserted[u][b] : inserted[u][b][j].status = "OPEN" => j = i
      BY <2>1 DEF Locks, InsertedOpenIsAlone
    <2>3. lock[t][b] # "update"
      BY <2>1, <2>2 DEF Locks, LocksCompatible, Conflict
    <2>4. \A j \in DOMAIN inserted[t][b] : inserted[t][b][j].status # "OPEN"
      BY <2>3 DEF Locks, InsertedOpenIsAlone
    <2>5. ~HasOpen(outcomes'[b])
      BY <1>5, <2>2, <2>4 DEF HasOpen, OpenRows
    <2> QED
      BY <2>1, <2>2, <2>5
  <1>9. OpenedRows'
    <2>1. ASSUME NEW b \in Bots, NEW i \in DOMAIN outcomes'[b], outcomes'[b][i].status = "OPEN"
          PROVE  outcomes'[b][i].opened # Null
      BY <1>2, <2>1 DEF Locks, OpenedRows
    <2>2. ASSUME NEW u \in Sessions, NEW b \in Bots, NEW i \in DOMAIN inserted'[u][b]
          PROVE  (inserted'[u][b][i].status = "OPEN") <=> (inserted'[u][b][i].opened # Null)
      BY <1>3, <1>4 DEF Locks, OpenedRows
    <2> QED
      BY <2>1, <2>2 DEF OpenedRows
  <1>10. OneOpenPerBot'
    <2> SUFFICES ASSUME NEW b \in Bots,
                        NEW i \in DOMAIN outcomes'[b], outcomes'[b][i].status = "OPEN",
                        NEW j \in DOMAIN outcomes'[b], outcomes'[b][j].status = "OPEN"
                 PROVE  i = j
      BY DEF OneOpenPerBot, OpenRows
    <2>1. CASE i \in OpenRows(b)
      <3>1. HasOpen(outcomes[b])
        BY <2>1 DEF OpenRows, HasOpen
      <3>2. j \in OpenRows(b)
        BY <1>5, <3>1 DEF Locks, InsertedOpenIsAlone
      <3> QED
        BY <2>1, <3>2 DEF Locks, OneOpenPerBot
    <2>2. CASE i \notin OpenRows(b)
      <3>1. /\ i - Len(outcomes[b]) \in DOMAIN inserted[t][b]
            /\ inserted[t][b][i - Len(outcomes[b])].status = "OPEN"
        BY <1>5, <2>2
      <3>2. ~HasOpen(outcomes[b])
        BY <3>1 DEF Locks, InsertedOpenIsAlone
      <3>3. j \notin OpenRows(b)
        BY <3>2 DEF OpenRows, HasOpen
      <3>4. /\ j - Len(outcomes[b]) \in DOMAIN inserted[t][b]
            /\ inserted[t][b][j - Len(outcomes[b])].status = "OPEN"
        BY <1>5, <3>3
      <3>5. i - Len(outcomes[b]) = j - Len(outcomes[b])
        BY <3>1, <3>4 DEF Locks, InsertedOpenIsAlone
      <3> QED
        BY <1>2, <3>5
    <2> QED
      BY <2>1, <2>2
  <1> QED
    BY <1>6, <1>7, <1>8, <1>9, <1>10 DEF Locks

\* Every step keeps the invariant on locks and open rows.
LEMMA StepLocks ==
  ASSUME Types, Locks, [Next]_vars
  PROVE  Locks'
  <1>1. CASE UNCHANGED <<op, lock, inserted, outcomes>>
    BY <1>1, UnchangedOutcomes, KeepsLocks
  <1>2. CASE TimePasses \/ PauseFeed \/ UNCHANGED vars
    BY <1>1, <1>2 DEF TimePasses, PauseFeed, vars, database, sessions
  <1>3. CASE ResumeFeed
    <2>1. NothingOpened
      BY <1>3, ResumedOutcomes, ResumedRowsTypes
         DEF Types, TypeOK, DatabaseOK, NothingOpened
    <2> QED
      BY <1>3, <2>1, KeepsLocks DEF ResumeFeed, sessions
  <1>4. ASSUME NEW t \in Sessions
        PROVE  /\ QuoteBegin(t) \/ CandleBegin(t) \/ ActivateBegin(t) \/ EditBegin(t)
                    => Locks'
               /\ QuoteEvaluate(t) \/ Supersede(t) => Locks'
               /\ ActivateCommit(t) \/ Rollback(t) => Locks'
    <2>1. CASE QuoteBegin(t) \/ CandleBegin(t) \/ ActivateBegin(t) \/ EditBegin(t)
      <3>1. \E kind \in Ops \ {"idle"} : op[t] = "idle" /\ op' = [op EXCEPT ![t] = kind]
        BY <2>1 DEF QuoteBegin, CandleBegin, ActivateBegin, EditBegin, Start, Ops
      <3>2. \A u \in Sessions : /\ op'[u] = "idle" => op[u] = "idle"
                                /\ op[u] = "candles" => op'[u] = "candles"
        BY <3>1 DEF Types, TypeOK, SessionsOK
      <3> QED
        BY <2>1, <3>2, UnchangedOutcomes, KeepsLocks
           DEF QuoteBegin, CandleBegin, ActivateBegin, EditBegin, database
    <2>4. CASE Supersede(t)
      <3>1. \A u \in Sessions : /\ op'[u] = "idle" => op[u] = "idle"
                                /\ op[u] = "candles" => op'[u] = "candles"
        BY <2>4 DEF Types, TypeOK, SessionsOK, Supersede
      <3> QED
        BY <2>4, <3>1, UnchangedOutcomes, KeepsLocks DEF Supersede, database
    <2>2. CASE QuoteEvaluate(t)
      BY <1>1, <2>2 DEF QuoteEvaluate, database
    <2>3. CASE ActivateCommit(t) \/ Rollback(t)
      BY <2>3, UnchangedOutcomes, EndLocks DEF ActivateCommit, Rollback, database
    <2> QED
      BY <2>1, <2>2, <2>3, <2>4
  <1> QED
    BY <1>2, <1>3, <1>4, WrittenBackLocks, ArchiveBeginLocks, EditFlushLocks, CandleSignalLocks,
       CandleOutcomeLocks, CandleCommitLocks DEF Next

\* At first there is no lock and no open row.
LEMMA InitLocks ==
  ASSUME Init
  PROVE  Locks
  BY DEF Init, Locks, IdleIsClean, LocksCompatible, Conflict, InsertedOpenIsAlone, OpenedRows,
         OneOpenPerBot, OpenRows

\* The inductive invariant of the specification.
THEOREM Invariance == Spec => []Inv
  <1>1. Init => Types /\ Locks
    BY InitTypes, InitLocks
  <1>2. Types /\ Locks /\ [Next]_vars => Types' /\ Locks'
    BY StepTypes, StepLocks
  <1>3. Types /\ Locks => Inv
    BY DEF Types, Locks, Inv
  <1> QED
    BY <1>1, <1>2, <1>3, PTL DEF Spec

\* "One open shadow position per bot", for any number of bots and of sessions:
\* the row lock of create_signal_outcome is enough.
THEOREM OneOpenPosition == Spec => []OneOpenPerBot
  <1>1. Inv => OneOpenPerBot
    BY DEF Inv
  <1> QED
    BY <1>1, Invariance, PTL

-----------------------------------------------------------------------------
(* Refinement: the positions of each bot are a PositionSlots slot.         *)

\* Only the commit of a candle batch opens positions.
LEMMA StepOpens ==
  ASSUME Types, [Next]_vars, \A t \in Sessions : ~CandleCommit(t)
  PROVE  NothingOpened
  <1>1. CASE outcomes' = outcomes
    BY <1>1, UnchangedOutcomes
  <1>2. CASE ResumeFeed
    BY <1>2, ResumedOutcomes, ResumedRowsTypes DEF Types, TypeOK, DatabaseOK, NothingOpened
  <1>3. ASSUME NEW t \in Sessions, QuoteCommit(t) \/ ArchiveCommit(t)
        PROVE  NothingOpened
    BY <1>3, WrittenBackRows DEF Types, NothingOpened, QuoteCommit, ArchiveCommit
  <1>4. ASSUME NEW t \in Sessions,
               \/ QuoteBegin(t) \/ QuoteEvaluate(t) \/ CandleBegin(t) \/ CandleSignal(t)
               \/ CandleOutcome(t) \/ Rollback(t)
        PROVE  outcomes' = outcomes
    BY <1>4 DEF database, QuoteBegin, QuoteEvaluate, CandleBegin, CandleSignal, CandleOutcome,
                Rollback
  <1>5. ASSUME NEW t \in Sessions,
               \/ ActivateBegin(t) \/ EditBegin(t) \/ EditFlush(t) \/ Supersede(t)
               \/ ActivateCommit(t) \/ ArchiveBegin(t)
        PROVE  outcomes' = outcomes
    BY <1>5 DEF database, ActivateBegin, EditBegin, EditFlush, Supersede, ActivateCommit,
                ArchiveBegin
  <1>6. TimePasses \/ PauseFeed \/ UNCHANGED vars => outcomes' = outcomes
    BY DEF vars, database, TimePasses, PauseFeed
  <1> QED
    BY <1>1, <1>2, <1>3, <1>4, <1>5, <1>6 DEF Next

\* The slot of a bot is free exactly when it has no open row, and holds its
\* open row otherwise.
LEMMA OpenPositionIsRow ==
  ASSUME Types, Locks, NEW b \in Bots
  PROVE  /\ OpenRows(b) \subseteq EverOpen(b)
         /\ EverOpen(b) \subseteq Nat \ {0}
         /\ OpenRows(b) = {} => OpenPosition(b) = 0
         /\ \A i \in OpenRows(b) : OpenPosition(b) = i /\ OpenRows(b) = {i}
  <1>1. DOMAIN outcomes[b] \subseteq Nat \ {0}
    BY DEF Types, TypeOK, DatabaseOK
  <1>2. OpenRows(b) \subseteq EverOpen(b)
    BY DEF Locks, OpenedRows, OpenRows, EverOpen
  <1>3. \A i \in OpenRows(b) : OpenRows(b) = {i}
    BY DEF Locks, OneOpenPerBot
  <1>4. \A i \in OpenRows(b) : OpenPosition(b) = i
    BY <1>3 DEF OpenPosition
  <1> QED
    BY <1>1, <1>2, <1>3, <1>4 DEF OpenPosition, EverOpen

\* A step that opens nothing leaves the slot, or keeps it.
LEMMA KeepOrLeave ==
  ASSUME Types, Locks, Types', Locks', NothingOpened, NEW b \in Bots
  PROVE  /\ EverOpen(b)' = EverOpen(b)
         /\ \/ OpenPosition(b)' = OpenPosition(b)
            \/ OpenPosition(b) # 0 /\ OpenPosition(b)' = 0
  <1>1. EverOpen(b)' = EverOpen(b)
    BY DEF EverOpen, NothingOpened
  <1>2. OpenRows(b)' \subseteq OpenRows(b)
    BY DEF OpenRows, NothingOpened
  <1>3. CASE OpenRows(b) = {}
    <2>1. OpenRows(b)' = OpenRows(b)
      BY <1>2, <1>3
    <2> QED
      BY <1>1, <2>1 DEF OpenPosition
  <1>4. CASE OpenRows(b) # {}
    <2>1. PICK i \in OpenRows(b) : OpenRows(b) = {i} /\ OpenPosition(b) = i /\ i # 0
      BY <1>4, OpenPositionIsRow
    <2>2. CASE OpenRows(b)' = {}
      <3>1. OpenPosition(b)' = 0
        BY <2>2 DEF OpenPosition
      <3> QED
        BY <1>1, <2>1, <3>1
    <2>3. CASE OpenRows(b)' # {}
      <3>1. OpenRows(b)' = OpenRows(b)
        BY <1>2, <2>1, <2>3
      <3> QED
        BY <1>1, <3>1 DEF OpenPosition
    <2> QED
      BY <2>2, <2>3
  <1> QED
    BY <1>1, <1>3, <1>4

\* A commit of a candle batch takes the slot, when it is free, or keeps it.
LEMMA TakeOrKeep ==
  ASSUME Types, Locks, Types', Locks', NEW t \in Sessions, CandleCommit(t), NEW b \in Bots
  PROVE  \/ OpenPosition(b)' = OpenPosition(b) /\ EverOpen(b)' = EverOpen(b)
         \/ /\ OpenPosition(b) = 0
            /\ OpenPosition(b)' \notin EverOpen(b) \cup {0}
            /\ EverOpen(b)' = EverOpen(b) \cup {OpenPosition(b)'}
  <1> DEFINE s == outcomes[b]
             r == inserted[t][b]
  <1>1. s \in Seq(Outcome) /\ r \in Seq(Outcome) /\ outcomes'[b] = s \o r
    BY DEF Types, TypeOK, DatabaseOK, SessionsOK, CandleCommit
  <1> HIDE DEF s, r
  <1>2. /\ Len(s) \in Nat /\ Len(r) \in Nat
        /\ DOMAIN s = 1 .. Len(s) /\ DOMAIN r = 1 .. Len(r)
        /\ DOMAIN (s \o r) = 1 .. Len(s) + Len(r)
        /\ \A i \in 1 .. Len(s) : (s \o r)[i] = s[i]
        /\ \A k \in 1 .. Len(r) : (s \o r)[Len(s) + k] = r[k]
    <2>1. s \o r \in Seq(Outcome) /\ Len(s \o r) = Len(s) + Len(r)
      BY <1>1, ConcatProperties
    <2>2. /\ Len(s) \in Nat /\ DOMAIN s = 1 .. Len(s)
          /\ Len(r) \in Nat /\ DOMAIN r = 1 .. Len(r)
          /\ DOMAIN (s \o r) = 1 .. Len(s \o r)
      BY <1>1, <2>1, LenProperties
    <2>3. \A i \in 1 .. Len(s) + Len(r) :
            (s \o r)[i] = IF i <= Len(s) THEN s[i] ELSE r[i - Len(s)]
      BY <1>1, ConcatProperties
    <2>4. \A i \in 1 .. Len(s) : (s \o r)[i] = s[i]
      BY <2>2, <2>3
    <2>5. \A k \in 1 .. Len(r) : (s \o r)[Len(s) + k] = r[k]
      <3> SUFFICES ASSUME NEW k \in 1 .. Len(r)
                   PROVE  (s \o r)[Len(s) + k] = r[k]
        OBVIOUS
      <3>1. Len(s) + k \in 1 .. Len(s) + Len(r) /\ ~(Len(s) + k <= Len(s))
              /\ (Len(s) + k) - Len(s) = k
        BY <2>2
      <3> QED
        BY <2>3, <3>1
    <2> QED
      BY <2>1, <2>2, <2>4, <2>5
  <1>3. \A i \in DOMAIN (s \o r) :
          \/ i \in DOMAIN s /\ (s \o r)[i] = s[i]
          \/ i \in Int /\ i - Len(s) \in DOMAIN r /\ (s \o r)[i] = r[i - Len(s)]
    BY <1>1, ConcatRows
  <1>4. \A k \in DOMAIN r : (r[k].status = "OPEN") <=> (r[k].opened # Null)
    BY DEF Locks, OpenedRows, r
  <1>5. /\ \A i \in DOMAIN s : s[i].status = "OPEN" <=> i \in OpenRows(b)
        /\ \A i \in DOMAIN s : s[i].opened # Null <=> i \in EverOpen(b)
        /\ OpenRows(b) \subseteq DOMAIN s /\ EverOpen(b) \subseteq DOMAIN s
    BY DEF OpenRows, EverOpen, s
  <1>6. /\ OpenRows(b)' = {i \in DOMAIN (s \o r) : (s \o r)[i].status = "OPEN"}
        /\ EverOpen(b)' = {i \in DOMAIN (s \o r) : (s \o r)[i].opened # Null}
    BY <1>1 DEF OpenRows, EverOpen
  <1>7. CASE \A k \in DOMAIN r : r[k].status # "OPEN"
    <2>1. OpenRows(b)' = OpenRows(b)
      BY <1>2, <1>3, <1>5, <1>6, <1>7
    <2>2. EverOpen(b)' = EverOpen(b)
      <3>1. EverOpen(b) \subseteq EverOpen(b)'
        BY <1>2, <1>5, <1>6
      <3>2. ASSUME NEW i \in EverOpen(b)'
            PROVE  i \in EverOpen(b)
        BY <1>3, <1>4, <1>5, <1>6, <1>7
      <3> QED
        BY <3>1, <3>2
    <2> QED
      BY <2>1, <2>2 DEF OpenPosition
  <1>8. CASE \E k \in DOMAIN r : r[k].status = "OPEN"
    <2>1. PICK k \in DOMAIN r : r[k].status = "OPEN"
      BY <1>8
    <2>2. /\ OpenRows(b) = {}
          /\ \A j \in DOMAIN r : r[j].status = "OPEN" => j = k
      BY <2>1 DEF Locks, InsertedOpenIsAlone, HasOpen, OpenRows, r
    <2> DEFINE n == Len(s) + k
    <2>3. n \in DOMAIN (s \o r) /\ n \notin DOMAIN s /\ (s \o r)[n] = r[k] /\ n # 0
      BY <1>2, <2>1
    <2>4. \A i \in Int : i - Len(s) = k => i = n
      BY <1>2, <2>1
    <2> HIDE DEF n
    <2>5. OpenRows(b)' = {n}
      BY <1>3, <1>5, <1>6, <2>1, <2>2, <2>3, <2>4
    <2>6. EverOpen(b)' = EverOpen(b) \cup {n}
      <3>1. EverOpen(b) \subseteq EverOpen(b)'
        BY <1>2, <1>5, <1>6
      <3>2. n \in EverOpen(b)'
        BY <1>4, <1>6, <2>1, <2>3
      <3>3. ASSUME NEW i \in EverOpen(b)'
            PROVE  i \in EverOpen(b) \cup {n}
        BY <1>3, <1>4, <1>5, <1>6, <2>2, <2>4
      <3> QED
        BY <3>1, <3>2, <3>3
    <2>7. OpenPosition(b) = 0 /\ OpenPosition(b)' = n
      BY <2>2, <2>5 DEF OpenPosition
    <2> QED
      BY <1>5, <2>3, <2>6, <2>7
  <1> QED
    BY <1>7, <1>8

\* The transactions, row locks and column-wise updates of the code implement
\* the slots: a position takes the free slot of its bot, leaves it once, and no
\* older copy of a row brings it back.
THEOREM Refinement == Spec => ImplementsSlots
  <1>1. Init => Slots!Init
    <2> SUFFICES ASSUME Init
                 PROVE  \A b \in Bots : OpenPosition(b) = 0 /\ EverOpen(b) = {}
      BY DEF Slots!Init
    <2>1. \A b \in Bots : outcomes[b] \in Seq(Outcome) /\ Len(outcomes[b]) = 0
      BY EmptySeq DEF Init
    <2>2. \A b \in Bots : DOMAIN outcomes[b] = {}
      <3>1. \A b \in Bots : DOMAIN outcomes[b] = 1 .. 0
        BY <2>1, LenProperties
      <3>2. 1 .. 0 = {}
        OBVIOUS
      <3> QED
        BY <3>1, <3>2
    <2> QED
      BY <2>2 DEF OpenPosition, OpenRows, EverOpen
  <1>2. Types /\ Locks /\ [Next]_vars /\ Types' /\ Locks' => [Slots!Next]_(Slots!slots)
    <2> SUFFICES ASSUME Types, Locks, [Next]_vars, Types', Locks'
                 PROVE  Slots!Next
      OBVIOUS
    <2>1. ASSUME NEW b \in Bots
          PROVE  OpenPosition(b)' \in Nat /\ EverOpen(b)' \in SUBSET Nat
      <3>1. \A i \in DOMAIN outcomes'[b] : i \in Nat
        BY DEF Types, TypeOK, DatabaseOK
      <3>2. OpenPosition(b)' \in {0} \cup OpenRows(b)'
        BY DEF OpenPosition
      <3> QED
        BY <3>1, <3>2 DEF OpenRows, EverOpen
    <2>2. ASSUME NEW b \in Bots
          PROVE  \/ /\ OpenPosition(b) = 0
                    /\ OpenPosition(b)' \notin EverOpen(b) \cup {0}
                    /\ EverOpen(b)' = EverOpen(b) \cup {OpenPosition(b)'}
                 \/ OpenPosition(b) # 0 /\ OpenPosition(b)' = 0 /\ EverOpen(b)' = EverOpen(b)
                 \/ OpenPosition(b)' = OpenPosition(b) /\ EverOpen(b)' = EverOpen(b)
      BY StepOpens, KeepOrLeave, TakeOrKeep
    <2> QED
      BY <2>1, <2>2 DEF Slots!Next, Slots!Take, Slots!Leave, Slots!Keep
  <1>3. Init => Types /\ Locks
    BY InitTypes, InitLocks
  <1>4. Types /\ Locks /\ [Next]_vars => Types' /\ Locks'
    BY StepTypes, StepLocks
  <1> QED
    BY <1>1, <1>2, <1>3, <1>4, PTL DEF Spec, ImplementsSlots, Slots!Spec

-----------------------------------------------------------------------------
(* Signals and runs: what a signal names is a run of its bot, with the      *)
(* version that run was started with.                                       *)

\* The rows of a candle batch, its uncommitted signals and the committed ones.
FromRun(b, r, v) == r \in DOMAIN runs[b] /\ v = runs[b][r].config

RowsMatch ==
  \A b \in Bots :
    /\ \A i \in DOMAIN outcomes[b] : FromRun(b, outcomes[b][i].run, outcomes[b][i].config)
    /\ \A t \in Sessions : \A i \in DOMAIN inserted[t][b] :
         FromRun(b, inserted[t][b][i].run, inserted[t][b][i].config)
    /\ \A t \in Sessions : \A row \in todo[t] : row[1] = b => FromRun(b, row[2], row[3])

SameSignal(o, p) == o.run = p.run /\ o.config = p.config /\ o.observed = p.observed

\* A write-back, a resume, the opening and the skipping of a row keep its run,
\* its version and its candle.
LEMMA RowKeepsSignal ==
  ASSUME NEW o \in Outcome
  PROVE  /\ \A old, new : SameSignal(Flush(o, old, new), o)
         /\ \A seconds : SameSignal([o EXCEPT !.paused = seconds], o)
         /\ \A q : SameSignal(Opened(o, q), o)
         /\ \A why : SameSignal(Skipped(o, why), o)
  <1>1. ASSUME NEW old, NEW new
        PROVE  SameSignal(Flush(o, old, new), o)
    <2> DEFINE status == Column(o.status, old.status, new.status)
               reason == Column(o.reason, old.reason, new.reason)
               evaluated == Column(o.evaluated, old.evaluated, new.evaluated)
               mfe == Column(o.mfe, old.mfe, new.mfe)
               mae == Column(o.mae, old.mae, new.mae)
               closed == Column(o.closed, old.closed, new.closed)
    <2>1. Flush(o, old, new) =
            [o EXCEPT !.status = status, !.reason = reason, !.evaluated = evaluated,
                      !.mfe = mfe, !.mae = mae, !.closed = closed]
      BY Zenon DEF Flush
    <2> HIDE DEF status, reason, evaluated, mfe, mae, closed
    <2> QED
      BY <2>1 DEF Outcome, SameSignal
  <1>2. ASSUME NEW seconds
        PROVE  SameSignal([o EXCEPT !.paused = seconds], o)
    BY DEF Outcome, SameSignal
  <1>3. ASSUME NEW q, NEW why
        PROVE  SameSignal(Opened(o, q), o) /\ SameSignal(Skipped(o, why), o)
    <2> DEFINE entry == IF o.direction = "BUY" THEN q.bid + SpreadPoints ELSE q.bid
    <2>1. Opened(o, q) = [o EXCEPT !.status = "OPEN", !.opened = q.at, !.evaluated = q.at,
                                   !.entry = entry]
      BY Zenon DEF Opened
    <2> HIDE DEF entry
    <2> QED
      BY <2>1 DEF Outcome, SameSignal, Skipped
  <1> QED
    BY <1>1, <1>2, <1>3

\* Runs are added and superseded; none disappears or changes its version.
LEMMA RunsGrow ==
  ASSUME Types, [Next]_vars, NEW b \in Bots, NEW r \in DOMAIN runs[b]
  PROVE  r \in DOMAIN runs'[b] /\ runs'[b][r].config = runs[b][r].config
  <1>1. /\ runs \in [Bots -> Seq(Run)] /\ runs[b] \in Seq(Run)
        /\ DOMAIN runs[b] = 1 .. Len(runs[b]) /\ Len(runs[b]) \in Nat
    BY DEF Types, TypeOK, DatabaseOK
  <1>2. ASSUME NEW old
        PROVE  /\ Superseded(runs[b], old) \in Seq(Run)
               /\ DOMAIN Superseded(runs[b], old) = DOMAIN runs[b]
               /\ Len(Superseded(runs[b], old)) = Len(runs[b])
               /\ Superseded(runs[b], old)[r].config = runs[b][r].config
    <2>1. Superseded(runs[b], old) \in Seq(Run) /\ Len(Superseded(runs[b], old)) = Len(runs[b])
      BY <1>1, SupersededRuns
    <2>2. DOMAIN Superseded(runs[b], old) = DOMAIN runs[b]
      BY DEF Superseded
    <2>3. runs[b][r] \in Run
      BY <1>1
    <2>4. \/ Superseded(runs[b], old)[r] = runs[b][r]
          \/ Superseded(runs[b], old)[r] = [runs[b][r] EXCEPT !.status = "SUPERSEDED"]
      BY DEF Superseded
    <2> QED
      BY <2>1, <2>2, <2>3, <2>4 DEF Run
  <1>3. ASSUME NEW t \in Sessions, ArchiveCommit(t)
        PROVE  r \in DOMAIN runs'[b] /\ runs'[b][r].config = runs[b][r].config
    <2>1. PICK c \in work[t].target : runs' = [runs EXCEPT ![c] = Superseded(@, work[t].runs)]
      BY <1>3 DEF ArchiveCommit
    <2>2. runs'[b] = runs[b] \/ runs'[b] = Superseded(runs[b], work[t].runs)
      BY <1>1, <2>1
    <2> QED
      BY <1>2, <2>2
  <1>4. ASSUME NEW t \in Sessions, ActivateCommit(t)
        PROVE  r \in DOMAIN runs'[b] /\ runs'[b][r].config = runs[b][r].config
    <2> DEFINE run == [config |-> work[t].version, status |-> "ACTIVE"]
               rows == Superseded(runs[b], work[t].runs)
    <2>1. PICK c \in work[t].target :
            runs' = [runs EXCEPT ![c] = Append(Superseded(@, work[t].runs), run)]
      BY <1>4 DEF ActivateCommit
    <2>2. runs'[b] = runs[b] \/ runs'[b] = Append(rows, run)
      BY <1>1, <2>1
    <2>3. rows \in Seq(Run) /\ DOMAIN rows = DOMAIN runs[b] /\ Len(rows) = Len(runs[b])
            /\ rows[r].config = runs[b][r].config
      BY <1>2
    <2> HIDE DEF rows, run
    <2>4. r \in DOMAIN Append(rows, run) /\ Append(rows, run)[r] = rows[r]
      BY <1>1, <2>3
    <2> QED
      BY <2>2, <2>3, <2>4
  <1>5. runs' = runs \/ \E t \in Sessions : ArchiveCommit(t) \/ ActivateCommit(t)
    BY DEF Next, vars, database, TimePasses, PauseFeed, ResumeFeed, QuoteBegin, QuoteEvaluate,
           QuoteCommit, CandleBegin, CandleSignal, CandleOutcome, CandleCommit, ActivateBegin,
           EditBegin, EditFlush, Supersede, ArchiveBegin, Rollback
  <1> QED
    BY <1>3, <1>4, <1>5

\* Only the commit of a candle batch adds signals; any other step keeps them.
LEMMA KeptSignals ==
  ASSUME Types, [Next]_vars, \A t \in Sessions : ~CandleCommit(t),
         NEW b \in Bots, NEW i \in DOMAIN outcomes'[b]
  PROVE  i \in DOMAIN outcomes[b] /\ SameSignal(outcomes'[b][i], outcomes[b][i])
  <1>1. /\ outcomes[b] \in Seq(Outcome)
        /\ \A j \in DOMAIN outcomes[b] : outcomes[b][j] \in Outcome
    BY DEF Types, TypeOK, DatabaseOK
  <1>2. CASE outcomes' = outcomes
    BY <1>2 DEF SameSignal
  <1>3. CASE ResumeFeed
    <2>1. PICK seconds \in Nat : outcomes' = [c \in Bots |-> ResumedRows(outcomes[c], seconds)]
      BY <1>3, ResumedOutcomes
    <2>2. i \in DOMAIN outcomes[b]
      BY <2>1 DEF ResumedRows
    <2>3. \/ outcomes'[b][i] = outcomes[b][i]
          \/ outcomes'[b][i] = [outcomes[b][i] EXCEPT !.paused = outcomes[b][i].paused + seconds]
      BY <2>1, <2>2 DEF ResumedRows
    <2>4. SameSignal(outcomes[b][i], outcomes[b][i])
      BY DEF SameSignal
    <2>5. SameSignal([outcomes[b][i] EXCEPT !.paused = outcomes[b][i].paused + seconds],
                     outcomes[b][i])
      BY <1>1, <2>2, RowKeepsSignal
    <2> QED
      BY <2>2, <2>3, <2>4, <2>5
  <1>4. ASSUME NEW t \in Sessions, QuoteCommit(t) \/ ArchiveCommit(t)
        PROVE  i \in DOMAIN outcomes[b] /\ SameSignal(outcomes'[b][i], outcomes[b][i])
    <2>1. outcomes' = WrittenBack(t)
      BY <1>4 DEF QuoteCommit, ArchiveCommit
    <2>2. i \in DOMAIN outcomes[b]
      BY <2>1 DEF WrittenBack
    <2>3. \/ outcomes'[b][i] = outcomes[b][i]
          \/ outcomes'[b][i] = Flush(outcomes[b][i], loaded[t][b].old, loaded[t][b].new)
      BY <2>1, <2>2 DEF WrittenBack
    <2>4. SameSignal(outcomes[b][i], outcomes[b][i])
      BY DEF SameSignal
    <2>5. SameSignal(Flush(outcomes[b][i], loaded[t][b].old, loaded[t][b].new), outcomes[b][i])
      BY <1>1, <2>2, RowKeepsSignal
    <2> QED
      BY <2>2, <2>3, <2>4, <2>5
  <1>5. \/ outcomes' = outcomes \/ ResumeFeed
        \/ \E t \in Sessions : QuoteCommit(t) \/ ArchiveCommit(t)
    BY DEF Next, vars, database, TimePasses, PauseFeed, QuoteBegin, QuoteEvaluate,
           CandleBegin, CandleSignal, CandleOutcome, ActivateBegin,
           EditBegin, EditFlush, Supersede, ActivateCommit, ArchiveBegin, Rollback
  <1> QED
    BY <1>2, <1>3, <1>4, <1>5

\* A committed signal keeps its run and version, or has just been committed by
\* the candle batch that inserted it.
LEMMA CommittedSignals ==
  ASSUME Types, [Next]_vars, NEW b \in Bots, NEW i \in DOMAIN outcomes'[b]
  PROVE  \/ i \in DOMAIN outcomes[b] /\ SameSignal(outcomes'[b][i], outcomes[b][i])
         \/ \E t \in Sessions : \E j \in DOMAIN inserted[t][b] :
              SameSignal(outcomes'[b][i], inserted[t][b][j])
  <1>1. /\ outcomes[b] \in Seq(Outcome)
        /\ \A j \in DOMAIN outcomes[b] : outcomes[b][j] \in Outcome
    BY DEF Types, TypeOK, DatabaseOK
  <1>2. ASSUME NEW t \in Sessions, CandleCommit(t)
        PROVE  \/ i \in DOMAIN outcomes[b] /\ outcomes'[b][i] = outcomes[b][i]
               \/ \E j \in DOMAIN inserted[t][b] : outcomes'[b][i] = inserted[t][b][j]
    <2>1. inserted[t][b] \in Seq(Outcome) /\ outcomes'[b] = outcomes[b] \o inserted[t][b]
      BY <1>2 DEF Types, TypeOK, SessionsOK, CandleCommit
    <2>2. i \in DOMAIN (outcomes[b] \o inserted[t][b])
      BY <2>1
    <2>3. \/ /\ i \in DOMAIN outcomes[b]
             /\ (outcomes[b] \o inserted[t][b])[i] = outcomes[b][i]
          \/ /\ i - Len(outcomes[b]) \in DOMAIN inserted[t][b]
             /\ (outcomes[b] \o inserted[t][b])[i] = inserted[t][b][i - Len(outcomes[b])]
      BY <1>1, <2>1, <2>2, ConcatRows
    <2> QED
      BY <2>1, <2>3
  <1>3. CASE \A t \in Sessions : ~CandleCommit(t)
    BY <1>3, KeptSignals
  <1> QED
    BY <1>2, <1>3 DEF SameSignal

\* An uncommitted signal keeps its run and version, or has just been inserted
\* for a row of the batch.
LEMMA InsertedSignals ==
  ASSUME Types, [Next]_vars, NEW t \in Sessions, NEW b \in Bots, NEW i \in DOMAIN inserted'[t][b]
  PROVE  \/ i \in DOMAIN inserted[t][b] /\ SameSignal(inserted'[t][b][i], inserted[t][b][i])
         \/ \E row \in todo[t] : /\ row[1] = b
                                 /\ inserted'[t][b][i].run = row[2]
                                 /\ inserted'[t][b][i].config = row[3]
  <1>1. /\ inserted \in [Sessions -> [Bots -> Seq(Outcome)]]
        /\ inserted[t][b] \in Seq(Outcome)
        /\ \A j \in DOMAIN inserted[t][b] : inserted[t][b][j] \in Outcome
    BY DEF Types, TypeOK, SessionsOK
  <1>2. CASE inserted'[t][b] = inserted[t][b]
    BY <1>2 DEF SameSignal
  <1>3. ASSUME NEW u \in Sessions, End(u)
        PROVE  inserted'[t][b] = inserted[t][b]
    <2>1. inserted'[t][b] = inserted[t][b] \/ inserted'[t][b] = <<>>
      BY <1>1, <1>3 DEF End
    <2> QED
      BY <2>1
  <1>4. ASSUME NEW u \in Sessions, CandleSignal(u), inserted'[t][b] # inserted[t][b]
        PROVE  \/ i \in DOMAIN inserted[t][b] /\ inserted'[t][b][i] = inserted[t][b][i]
               \/ \E row \in todo[t] : /\ row[1] = b
                                       /\ inserted'[t][b][i].run = row[2]
                                       /\ inserted'[t][b][i].config = row[3]
    <2>1. PICK row \in todo[u], decision \in Decisions :
            inserted' = [inserted EXCEPT ![u][row[1]] =
              Append(@, NewSignal(row[2], SignalVersion(row), work[u].latest, decision))]
      BY <1>4 DEF CandleSignal
    <2> DEFINE new == NewSignal(row[2], SignalVersion(row), work[u].latest, decision)
    <2>2. u = t /\ row[1] = b /\ inserted'[t][b] = Append(inserted[t][b], new)
      BY <1>1, <1>4, <2>1
    <2>3. new.run = row[2] /\ new.config = row[3]
      BY DEF NewSignal, SignalVersion
    <2> HIDE DEF new
    <2>4. \/ i \in DOMAIN inserted[t][b] /\ inserted'[t][b][i] = inserted[t][b][i]
          \/ inserted'[t][b][i] = new
      BY <1>1, <2>2
    <2> QED
      BY <2>2, <2>3, <2>4
  <1>5. ASSUME NEW u \in Sessions, CandleOutcome(u), inserted'[t][b] # inserted[t][b]
        PROVE  i \in DOMAIN inserted[t][b] /\ SameSignal(inserted'[t][b][i], inserted[t][b][i])
    <2>1. PICK c \in Bots :
            \E o \in {Skipped(inserted[u][c][Len(inserted[u][c])], "OPEN_POSITION_EXISTS"),
                      Skipped(inserted[u][c][Len(inserted[u][c])], "INVALID_POSITION_SIZE"),
                      Opened(inserted[u][c][Len(inserted[u][c])], work[u].tick)} :
              inserted' = [inserted EXCEPT ![u][c][Len(inserted[u][c])] = o]
      BY <1>5, Zenon DEF CandleOutcome
    <2> DEFINE n == Len(inserted[t][b])
               last == inserted[t][b][n]
    <2>2. PICK o \in {Skipped(inserted[u][c][Len(inserted[u][c])], "OPEN_POSITION_EXISTS"),
                      Skipped(inserted[u][c][Len(inserted[u][c])], "INVALID_POSITION_SIZE"),
                      Opened(inserted[u][c][Len(inserted[u][c])], work[u].tick)} :
            inserted' = [inserted EXCEPT ![u][c][Len(inserted[u][c])] = o]
      BY <2>1
    <2>3. u = t /\ c = b
      BY <1>1, <1>5, <2>2
    <2>4. inserted'[t][b] = [inserted[t][b] EXCEPT ![n] = o]
      BY <1>1, <2>2, <2>3
    <2>5. \/ o = Skipped(last, "OPEN_POSITION_EXISTS")
          \/ o = Skipped(last, "INVALID_POSITION_SIZE")
          \/ o = Opened(last, work[t].tick)
      BY <2>2, <2>3
    <2>6. i \in DOMAIN inserted[t][b]
            /\ (inserted'[t][b][i] = inserted[t][b][i] \/ (i = n /\ inserted'[t][b][i] = o))
      BY <1>1, <2>4
    <2>7. i = n => SameSignal(o, last)
      BY <1>1, <2>5, <2>6, RowKeepsSignal
    <2> QED
      BY <2>6, <2>7 DEF SameSignal
  <1>6. \/ inserted' = inserted
        \/ \E u \in Sessions : End(u) \/ CandleSignal(u) \/ CandleOutcome(u)
    BY DEF Next, vars, sessions, TimePasses, PauseFeed, ResumeFeed, QuoteBegin, QuoteEvaluate,
           QuoteCommit, CandleBegin, CandleCommit, ActivateBegin,
           EditBegin, EditFlush, Supersede, ActivateCommit, ArchiveBegin, ArchiveCommit, Rollback
  <1> QED
    BY <1>2, <1>3, <1>4, <1>5, <1>6 DEF SameSignal

\* A row a batch has yet to evaluate was there, or has just been read, joined
\* with the run of its version.
LEMMA BatchRows ==
  ASSUME Types, [Next]_vars, NEW t \in Sessions, NEW row \in todo'[t]
  PROVE  row \in todo[t] \/ FromRun(row[1], row[2], row[3])
  <1>1. todo \in [Sessions -> SUBSET (Bots \X Nat \X Versions)]
    BY DEF Types, TypeOK, SessionsOK
  <1>2. ASSUME NEW u \in Sessions, End(u)
        PROVE  row \in todo[t]
    BY <1>1, <1>2 DEF End
  <1>3. ASSUME NEW u \in Sessions, CandleSignal(u)
        PROVE  row \in todo[t]
    <2>1. PICK gone : todo' = [todo EXCEPT ![u] = @ \ {gone}]
      BY <1>3 DEF CandleSignal
    <2> QED
      BY <1>1, <2>1
  <1>4. ASSUME NEW u \in Sessions, CandleBegin(u)
        PROVE  row \in todo[t] \/ FromRun(row[1], row[2], row[3])
    <2>1. PICK latest : todo' = [todo EXCEPT ![u] = ToEvaluate(latest)]
      BY <1>4 DEF CandleBegin
    <2>2. row \in todo[t] \/ row \in ToEvaluate(latest)
      BY <1>1, <2>1
    <2>3. ASSUME row \in ToEvaluate(latest)
          PROVE  FromRun(row[1], row[2], row[3])
      <3>1. PICK b \in Bots : row \in {b} \X (DOMAIN runs[b]) \X {bot[b].config}
        BY <2>3 DEF ToEvaluate
      <3>2. runs[row[1]][row[2]] = [config |-> row[3], status |-> "ACTIVE"]
        BY <2>3 DEF ToEvaluate
      <3> QED
        BY <3>1, <3>2 DEF FromRun
    <2> QED
      BY <2>2, <2>3
  <1>5. \/ todo' = todo
        \/ \E u \in Sessions : End(u) \/ CandleSignal(u) \/ CandleBegin(u)
    BY DEF Next, vars, sessions, TimePasses, PauseFeed, ResumeFeed, QuoteBegin, QuoteEvaluate,
           QuoteCommit, CandleCommit, CandleOutcome, ActivateBegin,
           EditBegin, EditFlush, Supersede, ActivateCommit, ArchiveBegin, ArchiveCommit, Rollback
  <1> QED
    BY <1>2, <1>3, <1>4, <1>5

\* What named a run of its bot still does after the step.
LEMMA StepRowsMatch ==
  ASSUME Types, RowsMatch, [Next]_vars
  PROVE  RowsMatch'
  <1> SUFFICES ASSUME NEW b \in Bots
      PROVE  /\ \A i \in DOMAIN outcomes'[b] :
                  FromRun(b, outcomes[b][i].run, outcomes[b][i].config)'
             /\ \A t \in Sessions : \A i \in DOMAIN inserted'[t][b] :
                  FromRun(b, inserted[t][b][i].run, inserted[t][b][i].config)'
             /\ \A t \in Sessions : \A row \in todo'[t] :
                  row[1] = b => FromRun(b, row[2], row[3])'
    BY DEF RowsMatch, FromRun
  <1>1. ASSUME NEW r, NEW v, FromRun(b, r, v)
        PROVE  FromRun(b, r, v)'
    BY <1>1, RunsGrow DEF FromRun
  <1>2. ASSUME NEW o, NEW p, SameSignal(o, p), FromRun(b, p.run, p.config)
        PROVE  FromRun(b, o.run, o.config)
    BY <1>2 DEF SameSignal
  <1>3. ASSUME NEW i \in DOMAIN outcomes'[b]
        PROVE  FromRun(b, outcomes'[b][i].run, outcomes'[b][i].config)
    BY <1>2, CommittedSignals DEF RowsMatch
  <1>4. ASSUME NEW t \in Sessions, NEW i \in DOMAIN inserted'[t][b]
        PROVE  FromRun(b, inserted'[t][b][i].run, inserted'[t][b][i].config)
    BY <1>2, InsertedSignals DEF RowsMatch
  <1>5. ASSUME NEW t \in Sessions, NEW row \in todo'[t], row[1] = b
        PROVE  FromRun(b, row[2], row[3])
    BY <1>5, BatchRows DEF RowsMatch
  <1>6. ASSUME NEW r, NEW v, FromRun(b, r, v)
        PROVE  r \in DOMAIN runs'[b] /\ v = runs'[b][r].config
    BY <1>1, <1>6, RunsGrow DEF FromRun
  <1> QED
    BY <1>3, <1>4, <1>5, <1>6 DEF FromRun

\* At first there is no signal and no batch.
LEMMA InitRowsMatch ==
  ASSUME Init
  PROVE  RowsMatch
  <1>1. DOMAIN << >> = {}
    OBVIOUS
  <1>2. ASSUME NEW b \in Bots
        PROVE  /\ DOMAIN outcomes[b] = {}
               /\ \A t \in Sessions : DOMAIN inserted[t][b] = {} /\ todo[t] = {}
    BY <1>1 DEF Init
  <1> QED
    BY <1>2 DEF RowsMatch

\* Signals and runs: "a signal links to the run and the configuration version
\* that raised it", for any number of bots, versions, sessions and activations
\* that overlap with the batch.
THEOREM SignalsMatchRuns == Spec => []SignalMatchesRun
  <1>1. Init => Types /\ RowsMatch
    BY InitTypes, InitRowsMatch
  <1>2. Types /\ RowsMatch /\ [Next]_vars => Types' /\ RowsMatch'
    BY StepTypes, StepRowsMatch
  <1>3. RowsMatch => SignalMatchesRun
    BY DEF RowsMatch, SignalMatchesRun, FromRun
  <1> QED
    BY <1>1, <1>2, <1>3, PTL DEF Spec

-----------------------------------------------------------------------------
(* Pauses: the paused time of a position lies within its life.             *)

\* The moment up to which pauses have been credited: a pause that goes on is
\* credited when it ends.
Credited == IF Paused THEN feed.paused ELSE now

\* The invariant: a position and its credit end by the moment up to which
\* pauses are credited; no tick is later than the clock, and the one a candle
\* batch opens positions at was read before the pause that goes on.
Lives ==
  /\ tick.at <= now
  /\ \A t \in Sessions :
       /\ op[t] = "quotes" => work[t].tick.at <= now
       /\ op[t] = "candles" => work[t].tick.at <= Credited
  /\ \A b \in Bots :
       /\ \A i \in DOMAIN outcomes[b] :
            outcomes[b][i].opened # Null
              => outcomes[b][i].opened + outcomes[b][i].paused <= Credited
       /\ \A t \in Sessions : \A i \in DOMAIN inserted[t][b] :
            /\ inserted[t][b][i].paused = 0
            /\ inserted[t][b][i].opened # Null => inserted[t][b][i].opened <= Credited

\* That moment is one of the past, and does not go back.
LEMMA CreditGrows ==
  ASSUME Types, [Next]_vars
  PROVE  /\ now \in Int /\ now' \in Int /\ now <= now'
         /\ Credited \in Int /\ Credited' \in Int /\ Credited <= Credited' /\ Credited <= now
         /\ ResumeFeed => Credited' = now
  <1>1. Types'
    BY StepTypes
  <1>2. Time \subseteq Int /\ Null \in Int
    BY ConstantTypes DEF Time, Null
  <1>3. /\ now \in Int /\ now' \in Int
        /\ feed.paused \in Int /\ feed'.paused \in Int /\ feed.paused <= now
    BY <1>1, <1>2 DEF Types, TypeOK, DatabaseOK, TransactionReads
  <1>4. Credited \in Int /\ Credited' \in Int /\ Credited <= now
    BY <1>3 DEF Credited, Paused
  <1>5. ASSUME TimePasses
        PROVE  now <= now' /\ Credited <= Credited'
    <2>1. now' = now + 1 /\ feed' = feed
      BY <1>5 DEF TimePasses, database
    <2> QED
      BY <1>3, <2>1 DEF Credited, Paused
  <1>6. ASSUME PauseFeed
        PROVE  now <= now' /\ Credited <= Credited'
    <2>1. now' = now /\ feed'.paused = IF Paused THEN feed.paused ELSE now
      BY <1>6 DEF PauseFeed, Types, TypeOK, DatabaseOK
    <2> QED
      BY <1>3, <2>1 DEF Credited, Paused
  <1>7. ASSUME ResumeFeed
        PROVE  now <= now' /\ Credited <= Credited' /\ Credited' = now
    <2>1. now' = now /\ feed'.paused = Null
      BY <1>7 DEF ResumeFeed
    <2>2. Credited' = now
      BY <2>1 DEF Credited, Paused
    <2> QED
      BY <1>3, <1>4, <2>1, <2>2
  <1>8. ASSUME UNCHANGED <<now, feed>>
        PROVE  now <= now' /\ Credited <= Credited'
    BY <1>3, <1>4, <1>8 DEF Credited, Paused
  <1>9. ASSUME NEW t \in Sessions,
               \/ QuoteBegin(t) \/ QuoteEvaluate(t) \/ QuoteCommit(t) \/ CandleBegin(t)
               \/ CandleSignal(t) \/ CandleOutcome(t) \/ CandleCommit(t) \/ Rollback(t)
        PROVE  UNCHANGED <<now, feed>>
    BY <1>9 DEF database, QuoteBegin, QuoteEvaluate, QuoteCommit, CandleBegin, CandleSignal,
                CandleOutcome, CandleCommit, Rollback
  <1>10. ASSUME NEW t \in Sessions,
                \/ ActivateBegin(t) \/ EditBegin(t) \/ EditFlush(t) \/ Supersede(t)
                \/ ActivateCommit(t) \/ ArchiveBegin(t) \/ ArchiveCommit(t)
         PROVE  UNCHANGED <<now, feed>>
    BY <1>10 DEF database, ActivateBegin, EditBegin, EditFlush, Supersede, ActivateCommit,
                 ArchiveBegin, ArchiveCommit
  <1>11. UNCHANGED vars => UNCHANGED <<now, feed>>
    BY DEF vars, database
  <1>12. TimePasses \/ PauseFeed \/ ResumeFeed \/ UNCHANGED <<now, feed>>
    BY <1>9, <1>10, <1>11 DEF Next
  <1>13. now <= now' /\ Credited <= Credited'
    BY <1>5, <1>6, <1>7, <1>8, <1>12
  <1> QED
    BY <1>3, <1>4, <1>7, <1>13

\* A write-back, an opening and a skip leave the credit of a row alone, and
\* only an opening sets its opening time; a resume adds to the credit.
LEMMA RowLife ==
  ASSUME NEW o \in Outcome
  PROVE  /\ \A old, new : /\ Flush(o, old, new).opened = o.opened
                          /\ Flush(o, old, new).paused = o.paused
         /\ \A x : /\ [o EXCEPT !.paused = x].opened = o.opened
                   /\ [o EXCEPT !.paused = x].paused = x
         /\ \A q : Opened(o, q).opened = q.at /\ Opened(o, q).paused = o.paused
         /\ \A why : Skipped(o, why).opened = o.opened /\ Skipped(o, why).paused = o.paused
  <1>1. ASSUME NEW old, NEW new
        PROVE  Flush(o, old, new).opened = o.opened /\ Flush(o, old, new).paused = o.paused
    <2> DEFINE status == Column(o.status, old.status, new.status)
               reason == Column(o.reason, old.reason, new.reason)
               evaluated == Column(o.evaluated, old.evaluated, new.evaluated)
               mfe == Column(o.mfe, old.mfe, new.mfe)
               mae == Column(o.mae, old.mae, new.mae)
               closed == Column(o.closed, old.closed, new.closed)
    <2>1. Flush(o, old, new) =
            [o EXCEPT !.status = status, !.reason = reason, !.evaluated = evaluated,
                      !.mfe = mfe, !.mae = mae, !.closed = closed]
      BY Zenon DEF Flush
    <2> HIDE DEF status, reason, evaluated, mfe, mae, closed
    <2> QED
      BY <2>1 DEF Outcome
  <1>2. ASSUME NEW x
        PROVE  [o EXCEPT !.paused = x].opened = o.opened /\ [o EXCEPT !.paused = x].paused = x
    BY DEF Outcome
  <1>3. ASSUME NEW q, NEW why
        PROVE  /\ Opened(o, q).opened = q.at /\ Opened(o, q).paused = o.paused
               /\ Skipped(o, why).opened = o.opened /\ Skipped(o, why).paused = o.paused
    <2> DEFINE entry == IF o.direction = "BUY" THEN q.bid + SpreadPoints ELSE q.bid
    <2>1. Opened(o, q) = [o EXCEPT !.status = "OPEN", !.opened = q.at, !.evaluated = q.at,
                                   !.entry = entry]
      BY Zenon DEF Opened
    <2> HIDE DEF entry
    <2> QED
      BY <2>1 DEF Outcome, Skipped
  <1> QED
    BY <1>1, <1>2, <1>3

\* The committed positions keep within their life.
LEMMA CommittedLives ==
  ASSUME Types, Lives, [Next]_vars, NEW b \in Bots, NEW i \in DOMAIN outcomes'[b],
         outcomes'[b][i].opened # Null
  PROVE  outcomes'[b][i].opened + outcomes'[b][i].paused <= Credited'
  <1>1. /\ outcomes[b] \in Seq(Outcome)
        /\ \A j \in DOMAIN outcomes[b] : outcomes[b][j] \in Outcome
    BY DEF Types, TypeOK, DatabaseOK
  <1>2. ASSUME i \in DOMAIN outcomes[b], outcomes'[b][i].opened = outcomes[b][i].opened,
               outcomes'[b][i].paused = outcomes[b][i].paused
        PROVE  outcomes'[b][i].opened + outcomes'[b][i].paused <= Credited'
    <2>1. outcomes[b][i].opened \in Int /\ outcomes[b][i].paused \in Int
      BY <1>1, <1>2 DEF Outcome
    <2>2. outcomes[b][i].opened + outcomes[b][i].paused <= Credited
      BY <1>2 DEF Lives
    <2> QED
      BY <1>2, <2>1, <2>2, CreditGrows
  <1>3. CASE outcomes' = outcomes
    BY <1>2, <1>3
  <1>4. CASE ResumeFeed
    <2> DEFINE seconds == IF Paused THEN now - feed.paused ELSE 0
               o == outcomes[b][i]
    <2>1. outcomes' = [c \in Bots |-> [j \in DOMAIN outcomes[c] |->
            IF outcomes[c][j].status = "OPEN"
            THEN [outcomes[c][j] EXCEPT !.paused = outcomes[c][j].paused + seconds]
            ELSE outcomes[c][j]]]
      BY <1>4 DEF ResumeFeed
    <2>2. i \in DOMAIN outcomes[b] /\ o \in Outcome
      BY <1>1, <2>1
    <2>3. outcomes'[b][i] \in {o, [o EXCEPT !.paused = o.paused + seconds]}
      BY <2>1, <2>2
    <2>4. CASE outcomes'[b][i] = o
      BY <1>2, <2>2, <2>4
    <2>5. CASE outcomes'[b][i] = [o EXCEPT !.paused = o.paused + seconds]
      <3>1. outcomes'[b][i].opened = o.opened /\ outcomes'[b][i].paused = o.paused + seconds
        BY <2>2, <2>5, RowLife
      <3>2. o.opened + o.paused <= Credited
        BY <2>2, <3>1 DEF Lives
      <3>3. o.opened \in Int /\ o.paused \in Int
        BY <2>2 DEF Outcome
      <3>4. seconds \in Int /\ Credited + seconds = now
        BY CreditGrows DEF Credited
      <3>5. Credited' = now /\ Credited \in Int /\ now \in Int
        BY <1>4, CreditGrows
      <3> HIDE DEF o, seconds
      <3> QED
        BY <3>1, <3>2, <3>3, <3>4, <3>5
    <2> QED
      BY <2>3, <2>4, <2>5
  <1>5. ASSUME NEW t \in Sessions, QuoteCommit(t) \/ ArchiveCommit(t)
        PROVE  /\ i \in DOMAIN outcomes[b]
               /\ outcomes'[b][i].opened = outcomes[b][i].opened
               /\ outcomes'[b][i].paused = outcomes[b][i].paused
    <2>1. outcomes' = WrittenBack(t)
      BY <1>5 DEF QuoteCommit, ArchiveCommit
    <2>2. i \in DOMAIN outcomes[b]
      BY <2>1 DEF WrittenBack
    <2>3. \/ outcomes'[b][i] = outcomes[b][i]
          \/ outcomes'[b][i] = Flush(outcomes[b][i], loaded[t][b].old, loaded[t][b].new)
      BY <2>1, <2>2 DEF WrittenBack
    <2>4. outcomes[b][i] \in Outcome
      BY <1>1, <2>2
    <2> QED
      BY <2>2, <2>3, <2>4, RowLife
  <1>6. ASSUME NEW t \in Sessions, CandleCommit(t)
        PROVE  outcomes'[b][i].opened + outcomes'[b][i].paused <= Credited'
    <2>1. outcomes' = [c \in Bots |-> outcomes[c] \o inserted[t][c]]
      BY <1>6 DEF CandleCommit
    <2>2. inserted[t][b] \in Seq(Outcome) /\ outcomes'[b] = outcomes[b] \o inserted[t][b]
      BY <2>1 DEF Types, TypeOK, SessionsOK
    <2>3. i \in DOMAIN (outcomes[b] \o inserted[t][b])
      BY <2>2
    <2>4. \/ /\ i \in DOMAIN outcomes[b]
             /\ (outcomes[b] \o inserted[t][b])[i] = outcomes[b][i]
          \/ /\ i - Len(outcomes[b]) \in DOMAIN inserted[t][b]
             /\ (outcomes[b] \o inserted[t][b])[i] = inserted[t][b][i - Len(outcomes[b])]
      BY <1>1, <2>2, <2>3, ConcatRows
    <2>5. CASE i \in DOMAIN outcomes[b] /\ outcomes'[b][i] = outcomes[b][i]
      BY <1>2, <2>5
    <2>6. ASSUME NEW j \in DOMAIN inserted[t][b], outcomes'[b][i] = inserted[t][b][j]
          PROVE  outcomes'[b][i].opened + outcomes'[b][i].paused <= Credited'
      <3>1. outcomes'[b][i].opened <= Credited /\ outcomes'[b][i].paused = 0
        BY <2>6 DEF Lives
      <3>2. inserted[t][b][j] \in Outcome
        BY <2>2, <2>6
      <3>3. outcomes'[b][i].opened \in Int
        BY <2>6, <3>2 DEF Outcome
      <3> QED
        BY <3>1, <3>3, CreditGrows
    <2> QED
      BY <2>2, <2>4, <2>5, <2>6
  <1>7. \/ outcomes' = outcomes \/ ResumeFeed
        \/ \E t \in Sessions : QuoteCommit(t) \/ ArchiveCommit(t) \/ CandleCommit(t)
    BY DEF Next, vars, database, TimePasses, PauseFeed, QuoteBegin, QuoteEvaluate,
           CandleBegin, CandleSignal, CandleOutcome, ActivateBegin,
           EditBegin, EditFlush, Supersede, ActivateCommit, ArchiveBegin, Rollback
  <1> QED
    BY <1>2, <1>3, <1>4, <1>5, <1>6, <1>7

\* So do the inserted ones, which no resume has credited with anything.
LEMMA InsertedLives ==
  ASSUME Types, Lives, [Next]_vars,
         NEW t \in Sessions, NEW b \in Bots, NEW i \in DOMAIN inserted'[t][b]
  PROVE  /\ inserted'[t][b][i].paused = 0
         /\ inserted'[t][b][i].opened # Null => inserted'[t][b][i].opened <= Credited'
  <1>1. /\ inserted \in [Sessions -> [Bots -> Seq(Outcome)]]
        /\ inserted[t][b] \in Seq(Outcome)
        /\ \A j \in DOMAIN inserted[t][b] : inserted[t][b][j] \in Outcome
    BY DEF Types, TypeOK, SessionsOK
  <1>2. ASSUME i \in DOMAIN inserted[t][b],
               inserted'[t][b][i].opened = inserted[t][b][i].opened,
               inserted'[t][b][i].paused = inserted[t][b][i].paused
        PROVE  /\ inserted'[t][b][i].paused = 0
               /\ inserted'[t][b][i].opened # Null => inserted'[t][b][i].opened <= Credited'
    <2>1. inserted[t][b][i].opened \in Int
      BY <1>1, <1>2 DEF Outcome
    <2>2. /\ inserted[t][b][i].paused = 0
          /\ inserted[t][b][i].opened # Null => inserted[t][b][i].opened <= Credited
      BY <1>2 DEF Lives
    <2> QED
      BY <1>2, <2>1, <2>2, CreditGrows
  <1>3. CASE inserted'[t][b] = inserted[t][b]
    BY <1>2, <1>3
  <1>4. ASSUME NEW u \in Sessions, End(u)
        PROVE  inserted'[t][b] = inserted[t][b]
    <2>1. inserted'[t][b] = inserted[t][b] \/ inserted'[t][b] = <<>>
      BY <1>1, <1>4 DEF End
    <2> QED
      BY <2>1
  <1>5. ASSUME NEW u \in Sessions, CandleSignal(u), inserted'[t][b] # inserted[t][b]
        PROVE  \/ i \in DOMAIN inserted[t][b] /\ inserted'[t][b][i] = inserted[t][b][i]
               \/ inserted'[t][b][i].paused = 0 /\ inserted'[t][b][i].opened = Null
    <2>1. PICK row \in todo[u], decision \in Decisions :
            inserted' = [inserted EXCEPT ![u][row[1]] =
              Append(@, NewSignal(row[2], SignalVersion(row), work[u].latest, decision))]
      BY <1>5 DEF CandleSignal
    <2> DEFINE new == NewSignal(row[2], SignalVersion(row), work[u].latest, decision)
    <2>2. inserted'[t][b] = Append(inserted[t][b], new)
      BY <1>1, <1>5, <2>1
    <2>3. new.paused = 0 /\ new.opened = Null
      BY DEF NewSignal
    <2> HIDE DEF new
    <2> QED
      BY <1>1, <2>2, <2>3
  <1>6. ASSUME NEW u \in Sessions, CandleOutcome(u), inserted'[t][b] # inserted[t][b]
        PROVE  /\ inserted'[t][b][i].paused = 0
               /\ inserted'[t][b][i].opened # Null => inserted'[t][b][i].opened <= Credited'
    <2>1. PICK c \in Bots :
            \E o \in {Skipped(inserted[u][c][Len(inserted[u][c])], "OPEN_POSITION_EXISTS"),
                      Skipped(inserted[u][c][Len(inserted[u][c])], "INVALID_POSITION_SIZE"),
                      Opened(inserted[u][c][Len(inserted[u][c])], work[u].tick)} :
              inserted' = [inserted EXCEPT ![u][c][Len(inserted[u][c])] = o]
      BY <1>6, Zenon DEF CandleOutcome
    <2> DEFINE n == Len(inserted[t][b])
               last == inserted[t][b][n]
    <2>2. PICK o \in {Skipped(inserted[u][c][Len(inserted[u][c])], "OPEN_POSITION_EXISTS"),
                      Skipped(inserted[u][c][Len(inserted[u][c])], "INVALID_POSITION_SIZE"),
                      Opened(inserted[u][c][Len(inserted[u][c])], work[u].tick)} :
            inserted' = [inserted EXCEPT ![u][c][Len(inserted[u][c])] = o]
      BY <2>1
    <2>3. u = t /\ c = b
      BY <1>1, <1>6, <2>2
    <2>4. inserted'[t][b] = [inserted[t][b] EXCEPT ![n] = o]
      BY <1>1, <2>2, <2>3
    <2>5. \/ o = Skipped(last, "OPEN_POSITION_EXISTS")
          \/ o = Skipped(last, "INVALID_POSITION_SIZE")
          \/ o = Opened(last, work[t].tick)
      BY <2>2, <2>3
    <2>6. i \in DOMAIN inserted[t][b]
            /\ (inserted'[t][b][i] = inserted[t][b][i] \/ (i = n /\ inserted'[t][b][i] = o))
      BY <1>1, <2>4
    <2>7. CASE o.opened = last.opened /\ o.paused = last.paused
      BY <1>2, <2>6, <2>7
    <2>8. CASE o.opened = work[t].tick.at /\ o.paused = last.paused /\ inserted'[t][b][i] = o
                 /\ i = n
      <3>1. work[t].tick.at <= Credited /\ work[t].tick \in Tick
        BY <1>6, <2>3 DEF Lives, CandleOutcome, Types, TransactionReads, ReadsOK
      <3>2. work[t].tick.at \in Int
        BY <3>1, QuoteTypes
      <3>3. last.paused = 0
        BY <2>6, <2>8 DEF Lives
      <3> QED
        BY <2>8, <3>1, <3>2, <3>3, CreditGrows
    <2>9. CASE inserted'[t][b][i] = inserted[t][b][i]
      BY <1>2, <2>6, <2>9
    <2>10. i = n => /\ o.paused = last.paused
                    /\ o.opened = last.opened \/ o.opened = work[t].tick.at
      <3>1. ASSUME i = n
            PROVE  last \in Outcome
        BY <1>1, <2>6, <3>1
      <3> HIDE DEF last
      <3> QED
        BY <2>5, <3>1, RowLife
    <2> QED
      BY <2>6, <2>7, <2>8, <2>9, <2>10
  <1>7. \/ inserted' = inserted
        \/ \E u \in Sessions : End(u) \/ CandleSignal(u) \/ CandleOutcome(u)
    BY DEF Next, vars, sessions, TimePasses, PauseFeed, ResumeFeed, QuoteBegin, QuoteEvaluate,
           QuoteCommit, CandleBegin, CandleCommit, ActivateBegin,
           EditBegin, EditFlush, Supersede, ActivateCommit, ArchiveBegin, ArchiveCommit, Rollback
  <1> QED
    BY <1>2, <1>3, <1>4, <1>5, <1>6, <1>7

\* The ticks a transaction works with have been taken by now, and before the
\* pause that goes on when positions are opened at them.
LEMMA TicksTaken ==
  ASSUME Types, Lives, [Next]_vars, NEW t \in Sessions
  PROVE  /\ tick'.at <= now'
         /\ op'[t] = "quotes" => work'[t].tick.at <= now'
         /\ op'[t] = "candles" => work'[t].tick.at <= Credited'
  <1>1. /\ op \in [Sessions -> Ops] /\ work \in [Sessions -> Work]
        /\ tick.at \in Int
    BY QuoteTypes DEF Types, TypeOK, DatabaseOK, SessionsOK
  <1>2. /\ op[t] = "candles" => work[t].tick.at \in Int
        /\ op[t] = "quotes" => work[t].tick.at \in Int
    <2>1. work[t].tick.at \in Time \cup {Null}
      BY <1>1 DEF Work
    <2> QED
      BY <2>1, ConstantTypes DEF Time, Null
  <1>3. CASE tick' = tick /\ op'[t] = op[t] /\ work'[t].tick = work[t].tick
    BY <1>1, <1>2, <1>3, CreditGrows DEF Lives
  <1>4. CASE tick' = tick /\ op'[t] \notin {"quotes", "candles"}
    BY <1>1, <1>4, CreditGrows DEF Lives
  <1>5. ASSUME NEW u \in Sessions, QuoteBegin(u) \/ CandleBegin(u)
        PROVE  /\ tick'.at <= now'
               /\ op'[t] = "quotes" => work'[t].tick.at <= now'
               /\ op'[t] = "candles" => work'[t].tick.at <= Credited'
    <2>1. CASE u # t
      BY <1>1, <1>3, <1>5, <2>1 DEF QuoteBegin, CandleBegin, Start, database
    <2>2. CASE u = t /\ QuoteBegin(u)
      <3>1. op'[t] = "quotes" /\ work'[t] = NoWork /\ tick' = tick /\ now' = now
        BY <1>1, <2>2 DEF QuoteBegin, Start, database
      <3>2. work'[t].tick.at = -1 /\ 0 <= now
        BY <3>1, ConstantTypes DEF NoWork, Null, Types, TypeOK, DatabaseOK, Time
      <3> QED
        BY <3>1, <3>2, CreditGrows DEF Lives
    <2>3. CASE u = t /\ CandleBegin(u)
      <3>1. PICK batch, latest :
              Start(t, "candles", [NoWork EXCEPT !.candles = batch, !.latest = latest,
                                                 !.tick = tick])
        BY <2>3 DEF CandleBegin
      <3>2. op'[t] = "candles" /\ work'[t].tick = tick
        BY <1>1, <3>1 DEF Start, NoWork
      <3>3. ~Paused /\ tick' = tick /\ now' = now /\ feed' = feed
        BY <2>3 DEF CandleBegin, database
      <3>4. Credited' = now
        BY <3>3 DEF Credited, Paused
      <3> QED
        BY <3>2, <3>3, <3>4 DEF Lives
    <2> QED
      BY <1>5, <2>1, <2>2, <2>3
  <1>6. ASSUME NEW u \in Sessions, QuoteEvaluate(u)
        PROVE  /\ tick'.at <= now'
               /\ op'[t] = "quotes" => work'[t].tick.at <= now'
               /\ op'[t] = "candles" => work'[t].tick.at <= Credited'
    <2>1. CASE u # t
      BY <1>1, <1>3, <1>6, <2>1 DEF QuoteEvaluate, database
    <2>2. CASE u = t
      <3>1. PICK q \in Tick :
              q.at <= now /\ work' = [work EXCEPT ![t].quotes = @ + 1, ![t].tick = q]
        BY <1>6, <2>2 DEF QuoteEvaluate
      <3>2. work'[t].tick = q /\ op' = op /\ op[t] = "quotes" /\ now' = now /\ tick' = tick
        BY <1>1, <1>6, <2>2, <3>1 DEF QuoteEvaluate, database, Work
      <3> QED
        BY <3>1, <3>2 DEF Lives
    <2> QED
      BY <2>1, <2>2
  <1>7. ASSUME NEW u \in Sessions, End(u), tick'.at <= now'
        PROVE  /\ tick'.at <= now'
               /\ op'[t] = "quotes" => work'[t].tick.at <= now'
               /\ op'[t] = "candles" => work'[t].tick.at <= Credited'
    <2>1. CASE u # t
      BY <1>1, <1>2, <1>7, <2>1, CreditGrows DEF End, Lives
    <2>2. CASE u = t
      BY <1>1, <1>7, <2>2 DEF End
    <2> QED
      BY <2>1, <2>2
  <1>8. ASSUME NEW u \in Sessions, QuoteCommit(u)
        PROVE  tick'.at <= now'
    BY <1>8 DEF QuoteCommit, Newer, Lives
  <1>9. ASSUME NEW u \in Sessions,
               CandleCommit(u) \/ ActivateCommit(u) \/ ArchiveCommit(u) \/ Rollback(u)
        PROVE  tick'.at <= now'
    BY <1>9 DEF CandleCommit, ActivateCommit, ArchiveCommit, Rollback, database, Lives
  <1>10. ASSUME NEW u \in Sessions, ActivateBegin(u) \/ EditBegin(u) \/ ArchiveBegin(u)
                                    \/ EditFlush(u) \/ Supersede(u)
         PROVE  /\ tick' = tick
                /\ \/ op'[t] \notin {"quotes", "candles"}
                   \/ op'[t] = op[t] /\ work'[t].tick = work[t].tick
    BY <1>1, <1>10 DEF ActivateBegin, EditBegin, ArchiveBegin, EditFlush, Supersede, Start,
                       database
  <1>11. ASSUME \/ TimePasses \/ PauseFeed \/ ResumeFeed \/ UNCHANGED vars
                \/ \E u \in Sessions : CandleSignal(u) \/ CandleOutcome(u)
         PROVE  tick' = tick /\ op'[t] = op[t] /\ work'[t].tick = work[t].tick
    BY <1>11 DEF TimePasses, PauseFeed, ResumeFeed, vars, sessions, database, CandleSignal,
                 CandleOutcome
  <1>12. \A u \in Sessions : QuoteCommit(u) \/ CandleCommit(u) \/ ActivateCommit(u)
                               \/ ArchiveCommit(u) \/ Rollback(u) => End(u)
    BY DEF QuoteCommit, CandleCommit, ActivateCommit, ArchiveCommit, Rollback
  <1> QED
    BY <1>3, <1>4, <1>5, <1>6, <1>7, <1>8, <1>9, <1>10, <1>11, <1>12 DEF Next

\* Every step keeps positions within their lives.
LEMMA StepLives ==
  ASSUME Types, Lives, [Next]_vars
  PROVE  Lives'
  <1>1. tick'.at <= now'
    <2>1. CASE Sessions = {}
      BY <2>1, QuoteTypes, CreditGrows
         DEF Lives, Next, TimePasses, PauseFeed, ResumeFeed, vars, database, Types, TypeOK,
             DatabaseOK
    <2> QED
      BY <2>1, TicksTaken
  <1> QED
    BY <1>1, TicksTaken, CommittedLives, InsertedLives DEF Lives

\* At first nothing has been opened.
LEMMA InitLives ==
  ASSUME Init
  PROVE  Lives
  <1>1. DOMAIN << >> = {}
    OBVIOUS
  <1>2. ASSUME NEW b \in Bots
        PROVE  /\ DOMAIN outcomes[b] = {}
               /\ \A t \in Sessions : DOMAIN inserted[t][b] = {}
    BY <1>1 DEF Init
  <1>3. tick.at = 0 /\ now = 0 /\ \A t \in Sessions : op[t] = "idle"
    BY DEF Init
  <1> QED
    BY <1>2, <1>3 DEF Lives

\* Pauses: a position is credited with no time before its opening, nor twice
\* with the same pause, for any number of pauses, bots and sessions, even when
\* a pause begins while batches are in flight.
THEOREM CreditWithinLife == Spec => []PausedWithinLife
  <1>1. Init => Types /\ Lives
    BY InitTypes, InitLives
  <1>2. Types /\ Lives /\ [Next]_vars => Types' /\ Lives'
    BY StepTypes, StepLives
  <1>3. Types /\ Lives => PausedWithinLife
    <2> SUFFICES ASSUME Types, Lives, NEW b \in Bots, NEW i \in DOMAIN outcomes[b],
                        outcomes[b][i].opened # Null
                 PROVE  outcomes[b][i].opened + outcomes[b][i].paused <= now
      BY DEF PausedWithinLife
    <2>1. outcomes[b][i].opened + outcomes[b][i].paused <= Credited
      BY DEF Lives
    <2>2. outcomes[b][i] \in Outcome
      BY DEF Types, TypeOK, DatabaseOK
    <2>3. outcomes[b][i].opened \in Int /\ outcomes[b][i].paused \in Int
      BY <2>2 DEF Outcome
    <2>4. Credited <= now /\ Credited \in Int /\ now \in Int
      BY ConstantTypes DEF Credited, Paused, Types, TypeOK, DatabaseOK, TransactionReads, Time,
                           Null
    <2> QED
      BY <2>1, <2>3, <2>4
  <1> QED
    BY <1>1, <1>2, <1>3, PTL DEF Spec

-----------------------------------------------------------------------------
(* Limits: an open position has not been evaluated past its deadline, nor     *)
(* at its barriers, and neither has a copy a session works with.              *)

WithinLimits(o) ==
  o.status = "OPEN" => /\ o.evaluated < o.opened + o.paused + MaxTradeDuration
                       /\ o.mfe < TakeProfitPoints /\ o.mae < StopLossPoints

\* A copy was open when it was loaded; the row it was loaded from has its
\* opening, and at least its pauses.
CopyOf(l, rows) ==
  l.row # 0 => /\ l.row \in DOMAIN rows
               /\ l.old.status = "OPEN"
               /\ l.new.opened = rows[l.row].opened
               /\ l.new.paused <= rows[l.row].paused
               /\ WithinLimits(l.new)

\* A position that was opened by a transaction still under way has not moved.
Unmoved(o) == o.paused = 0 /\ o.mfe = 0 /\ o.mae = 0 /\ WithinLimits(o)

Limits ==
  \A b \in Bots :
    /\ \A i \in DOMAIN outcomes[b] : WithinLimits(outcomes[b][i])
    /\ \A t \in Sessions :
         /\ \A i \in DOMAIN inserted[t][b] : Unmoved(inserted[t][b][i])
         /\ CopyOf(loaded[t][b], outcomes[b])

\* The limits are positive numbers.
LEMMA LimitTypes ==
  /\ MaxTradeDuration \in Int /\ MaxTradeDuration > 0
  /\ TakeProfitPoints \in Int /\ TakeProfitPoints > 0
  /\ StopLossPoints \in Int /\ StopLossPoints > 0
  BY ConstantsAssumption DEF ConstantsAssumption

\* An evaluation that leaves the position open leaves it within its limits.
LEMMA EvaluateLimits ==
  ASSUME NEW o \in Outcome, NEW q \in Tick, WithinLimits(o)
  PROVE  /\ WithinLimits(Evaluate(o, q))
         /\ Evaluate(o, q).opened = o.opened /\ Evaluate(o, q).paused = o.paused
  <1> DEFINE mfe == Larger(o.mfe, Move(o, q))
             mae == Larger(o.mae, -Move(o, q))
             seen == [o EXCEPT !.mfe = mfe, !.mae = mae, !.evaluated = q.at]
             closed == [seen EXCEPT !.status = "CLOSED", !.reason = CloseReason(o, q),
                                    !.closed = q.at]
  <1>1. /\ Move(o, q) \in Int /\ o.mfe \in Int /\ o.mae \in Int /\ o.opened \in Int
        /\ o.paused \in Int /\ o.evaluated \in Int /\ q.at \in Int
    BY MoveIsInt, QuoteTypes DEF Outcome
  <1>2. /\ seen.status = o.status /\ seen.mfe = mfe /\ seen.mae = mae /\ seen.evaluated = q.at
        /\ seen.opened = o.opened /\ seen.paused = o.paused
        /\ closed.status = "CLOSED" /\ closed.opened = o.opened /\ closed.paused = o.paused
    BY DEF Outcome
  <1>3. CASE q.at <= o.evaluated
    <2>1. ~(q.at > o.evaluated)
      BY <1>1, <1>3
    <2>2. Evaluate(o, q) = o
      BY <1>3, <2>1 DEF Evaluate
    <2> QED
      BY <2>2
  <1>4. CASE ~(q.at <= o.evaluated) /\ CloseReason(o, q) = "NONE"
    <2>1. q.at > o.evaluated
      BY <1>1, <1>4
    <2>2. Evaluate(o, q) = seen
      BY <1>4, <2>1 DEF Evaluate
    <2>3. /\ Move(o, q) > -StopLossPoints /\ Move(o, q) < TakeProfitPoints
          /\ q.at < o.opened + o.paused + MaxTradeDuration
      BY <1>1, <1>4, LimitTypes DEF CloseReason
    <2>4. o.mfe < TakeProfitPoints => mfe < TakeProfitPoints
      BY <1>1, <2>3, LimitTypes DEF Larger
    <2>5. o.mae < StopLossPoints => mae < StopLossPoints
      BY <1>1, <2>3, LimitTypes DEF Larger
    <2> HIDE DEF mfe, mae, seen, closed
    <2>6. WithinLimits(seen)
      BY <1>2, <2>3, <2>4, <2>5 DEF WithinLimits
    <2> QED
      BY <1>2, <2>2, <2>6
  <1>5. CASE ~(q.at <= o.evaluated) /\ CloseReason(o, q) # "NONE"
    <2>1. q.at > o.evaluated
      BY <1>1, <1>5
    <2>2. Evaluate(o, q) = closed
      BY <1>5, <2>1 DEF Evaluate
    <2> HIDE DEF mfe, mae, seen, closed
    <2> QED
      BY <1>2, <2>2 DEF WithinLimits
  <1> QED
    BY <1>3, <1>4, <1>5

\* A write-back of a copy leaves the row closed, or within its limits: each
\* column is that of the row or that of the copy, and both are within them.
LEMMA FlushLimits ==
  ASSUME NEW o \in Outcome, NEW old \in Outcome, NEW new \in Outcome,
         new.status \in {old.status, "CLOSED", "CANCELLED"}, old.status = "OPEN",
         new.opened = o.opened, new.paused <= o.paused, WithinLimits(o), WithinLimits(new)
  PROVE  WithinLimits(Flush(o, old, new))
  <1> DEFINE status == Column(o.status, old.status, new.status)
             reason == Column(o.reason, old.reason, new.reason)
             evaluated == Column(o.evaluated, old.evaluated, new.evaluated)
             mfe == Column(o.mfe, old.mfe, new.mfe)
             mae == Column(o.mae, old.mae, new.mae)
             closed == Column(o.closed, old.closed, new.closed)
  <1>1. /\ o.opened \in Int /\ o.paused \in Int /\ new.paused \in Int
        /\ o.evaluated \in Int /\ new.evaluated \in Int
    BY DEF Outcome
  <1>2. status = "OPEN" => o.status = "OPEN" /\ new.status = "OPEN"
    BY DEF Column
  <1>3. /\ evaluated \in {o.evaluated, new.evaluated}
        /\ mfe \in {o.mfe, new.mfe} /\ mae \in {o.mae, new.mae}
    BY DEF Column
  <1>4. Flush(o, old, new) =
          [o EXCEPT !.status = status, !.reason = reason, !.evaluated = evaluated,
                    !.mfe = mfe, !.mae = mae, !.closed = closed]
    BY Zenon DEF Flush
  <1> HIDE DEF status, reason, evaluated, mfe, mae, closed
  <1>5. /\ Flush(o, old, new).status = status /\ Flush(o, old, new).evaluated = evaluated
        /\ Flush(o, old, new).mfe = mfe /\ Flush(o, old, new).mae = mae
        /\ Flush(o, old, new).opened = o.opened /\ Flush(o, old, new).paused = o.paused
    BY <1>4 DEF Outcome
  <1>6. ASSUME status = "OPEN"
        PROVE  /\ evaluated < o.opened + o.paused + MaxTradeDuration
               /\ mfe < TakeProfitPoints /\ mae < StopLossPoints
    <2>1. /\ o.evaluated < o.opened + o.paused + MaxTradeDuration
          /\ o.mfe < TakeProfitPoints /\ o.mae < StopLossPoints
      BY <1>2, <1>6 DEF WithinLimits
    <2>2. /\ new.evaluated < o.opened + new.paused + MaxTradeDuration
          /\ new.mfe < TakeProfitPoints /\ new.mae < StopLossPoints
      BY <1>2, <1>6 DEF WithinLimits
    <2>3. new.evaluated < o.opened + o.paused + MaxTradeDuration
      BY <1>1, <2>2, LimitTypes
    <2> QED
      BY <1>3, <2>1, <2>2, <2>3
  <1> QED
    BY <1>5, <1>6 DEF WithinLimits

\* A resume moves the deadline of a row later.
LEMMA ResumedRow ==
  ASSUME NEW o \in Outcome, NEW seconds \in Nat
  PROVE  LET r == [o EXCEPT !.paused = o.paused + seconds]
         IN  /\ r.opened = o.opened /\ r.paused >= o.paused
             /\ WithinLimits(o) => WithinLimits(r)
  <1> DEFINE r == [o EXCEPT !.paused = o.paused + seconds]
  <1>1. /\ r.status = o.status /\ r.opened = o.opened /\ r.paused = o.paused + seconds
        /\ r.evaluated = o.evaluated /\ r.mfe = o.mfe /\ r.mae = o.mae
    BY DEF Outcome
  <1>2. o.opened \in Int /\ o.paused \in Int /\ o.evaluated \in Int
    BY DEF Outcome
  <1> HIDE DEF r
  <1>3. r.paused >= o.paused
    BY <1>1, <1>2
  <1>4. WithinLimits(o) => WithinLimits(r)
    BY <1>1, <1>2, LimitTypes DEF WithinLimits
  <1> QED
    BY <1>1, <1>3, <1>4 DEF r

\* Committed rows keep their place, their opening and their pauses, and stay
\* within their limits.
LEMMA CommittedLimits ==
  ASSUME Types, Limits, [Next]_vars, NEW b \in Bots
  PROVE  /\ \A i \in DOMAIN outcomes[b] :
              /\ i \in DOMAIN outcomes'[b]
              /\ outcomes'[b][i].opened = outcomes[b][i].opened
              /\ outcomes'[b][i].paused >= outcomes[b][i].paused
         /\ \A i \in DOMAIN outcomes'[b] : WithinLimits(outcomes'[b][i])
  <1>1. /\ outcomes[b] \in Seq(Outcome)
        /\ \A i \in DOMAIN outcomes[b] : outcomes[b][i] \in Outcome
    BY DEF Types, TypeOK, DatabaseOK
  <1>2. \A i \in DOMAIN outcomes[b] : outcomes[b][i].paused >= outcomes[b][i].paused
    BY <1>1 DEF Outcome
  <1>3. CASE outcomes' = outcomes
    BY <1>2, <1>3 DEF Limits
  <1>4. CASE ResumeFeed
    <2>1. PICK seconds \in Nat : outcomes' = [c \in Bots |-> ResumedRows(outcomes[c], seconds)]
      BY <1>4, ResumedOutcomes
    <2>2. DOMAIN outcomes'[b] = DOMAIN outcomes[b]
      BY <2>1 DEF ResumedRows
    <2>3. ASSUME NEW i \in DOMAIN outcomes[b]
          PROVE  /\ outcomes'[b][i].opened = outcomes[b][i].opened
                 /\ outcomes'[b][i].paused >= outcomes[b][i].paused
                 /\ WithinLimits(outcomes'[b][i])
      <3>1. \/ outcomes'[b][i] = outcomes[b][i]
            \/ outcomes'[b][i] = [outcomes[b][i] EXCEPT !.paused = outcomes[b][i].paused + seconds]
        BY <2>1 DEF ResumedRows
      <3>2. WithinLimits(outcomes[b][i]) /\ outcomes[b][i] \in Outcome
        BY <1>1 DEF Limits
      <3> QED
        BY <1>2, <3>1, <3>2, ResumedRow
    <2> QED
      BY <2>2, <2>3
  <1>5. ASSUME NEW t \in Sessions, QuoteCommit(t) \/ ArchiveCommit(t)
        PROVE  /\ DOMAIN outcomes'[b] = DOMAIN outcomes[b]
               /\ \A i \in DOMAIN outcomes[b] :
                    /\ outcomes'[b][i].opened = outcomes[b][i].opened
                    /\ outcomes'[b][i].paused = outcomes[b][i].paused
                    /\ WithinLimits(outcomes'[b][i])
    <2>1. outcomes' = WrittenBack(t)
      BY <1>5 DEF QuoteCommit, ArchiveCommit
    <2>2. DOMAIN outcomes'[b] = DOMAIN outcomes[b]
      BY <2>1 DEF WrittenBack
    <2>3. ASSUME NEW i \in DOMAIN outcomes[b]
          PROVE  /\ outcomes'[b][i].opened = outcomes[b][i].opened
                 /\ outcomes'[b][i].paused = outcomes[b][i].paused
                 /\ WithinLimits(outcomes'[b][i])
      <3>1. outcomes[b][i] \in Outcome /\ WithinLimits(outcomes[b][i]) /\ i # 0
        BY <1>1 DEF Limits
      <3>2. CASE i # loaded[t][b].row
        BY <2>1, <3>1, <3>2 DEF WrittenBack
      <3>3. CASE i = loaded[t][b].row
        <4>1. loaded[t][b] \in Loaded
          BY DEF Types, TypeOK, SessionsOK
        <4>2. loaded[t][b].old \in Outcome /\ loaded[t][b].new \in Outcome
          BY <4>1 DEF Loaded
        <4>3. loaded[t][b].new.status \in {loaded[t][b].old.status, "CLOSED", "CANCELLED"}
          BY DEF Types, WritesOnlyResolve
        <4>4. CopyOf(loaded[t][b], outcomes[b])
          BY DEF Limits
        <4>5. outcomes'[b][i] = Flush(outcomes[b][i], loaded[t][b].old, loaded[t][b].new)
          BY <2>1, <3>3 DEF WrittenBack
        <4>6. WithinLimits(outcomes'[b][i])
          BY <3>1, <3>3, <4>2, <4>3, <4>4, <4>5, FlushLimits DEF CopyOf
        <4> QED
          BY <3>1, <4>5, <4>6, RowLife
      <3> QED
        BY <3>2, <3>3
    <2> QED
      BY <2>2, <2>3
  <1>6. ASSUME NEW t \in Sessions, CandleCommit(t)
        PROVE  /\ \A i \in DOMAIN outcomes[b] :
                    i \in DOMAIN outcomes'[b] /\ outcomes'[b][i] = outcomes[b][i]
               /\ \A i \in DOMAIN outcomes'[b] : WithinLimits(outcomes'[b][i])
    <2>1. outcomes' = [c \in Bots |-> outcomes[c] \o inserted[t][c]]
      BY <1>6 DEF CandleCommit
    <2>2. inserted[t][b] \in Seq(Outcome) /\ outcomes'[b] = outcomes[b] \o inserted[t][b]
      BY <2>1 DEF Types, TypeOK, SessionsOK
    <2>3. ASSUME NEW i \in DOMAIN outcomes[b]
          PROVE  i \in DOMAIN outcomes'[b] /\ outcomes'[b][i] = outcomes[b][i]
      <3>1. /\ i \in DOMAIN (outcomes[b] \o inserted[t][b])
            /\ (outcomes[b] \o inserted[t][b])[i] = outcomes[b][i]
        BY <1>1, <2>2, ConcatKeeps
      <3> QED
        BY <2>2, <3>1
    <2>4. ASSUME NEW i \in DOMAIN outcomes'[b]
          PROVE  WithinLimits(outcomes'[b][i])
      <3>1. i \in DOMAIN (outcomes[b] \o inserted[t][b])
        BY <2>2, <2>4
      <3>2. \/ /\ i \in DOMAIN outcomes[b]
               /\ (outcomes[b] \o inserted[t][b])[i] = outcomes[b][i]
            \/ /\ i - Len(outcomes[b]) \in DOMAIN inserted[t][b]
               /\ (outcomes[b] \o inserted[t][b])[i] = inserted[t][b][i - Len(outcomes[b])]
        BY <1>1, <2>2, <3>1, ConcatRows
      <3> QED
        BY <2>2, <3>2 DEF Limits, Unmoved
    <2> QED
      BY <2>3, <2>4
  <1>7. \/ outcomes' = outcomes \/ ResumeFeed
        \/ \E t \in Sessions : QuoteCommit(t) \/ ArchiveCommit(t) \/ CandleCommit(t)
    BY DEF Next, vars, database, TimePasses, PauseFeed, QuoteBegin, QuoteEvaluate,
           CandleBegin, CandleSignal, CandleOutcome, ActivateBegin,
           EditBegin, EditFlush, Supersede, ActivateCommit, ArchiveBegin, Rollback
  <1> QED
    BY <1>2, <1>3, <1>4, <1>5, <1>6, <1>7

\* A position is within its limits when a batch opens it, and a signal that is
\* skipped has none.
LEMMA OpenedUnmoved ==
  ASSUME NEW o \in Outcome, NEW q \in Tick, Unmoved(o)
  PROVE  /\ Unmoved(Opened(o, q))
         /\ \A why : Unmoved(Skipped(o, why))
  <1> DEFINE entry == IF o.direction = "BUY" THEN q.bid + SpreadPoints ELSE q.bid
  <1>1. Opened(o, q) = [o EXCEPT !.status = "OPEN", !.opened = q.at, !.evaluated = q.at,
                                 !.entry = entry]
    BY Zenon DEF Opened
  <1> HIDE DEF entry
  <1>2. /\ Opened(o, q).opened = q.at /\ Opened(o, q).evaluated = q.at
        /\ Opened(o, q).paused = 0 /\ Opened(o, q).mfe = 0 /\ Opened(o, q).mae = 0
    BY <1>1 DEF Outcome, Unmoved
  <1>3. q.at \in Int
    BY QuoteTypes
  <1>4. Unmoved(Opened(o, q))
    BY <1>2, <1>3, LimitTypes DEF WithinLimits, Unmoved
  <1>5. ASSUME NEW why
        PROVE  Unmoved(Skipped(o, why))
    <2>1. /\ Skipped(o, why).status = "SKIPPED" /\ Skipped(o, why).paused = 0
          /\ Skipped(o, why).mfe = 0 /\ Skipped(o, why).mae = 0
      BY DEF Skipped, Outcome, Unmoved
    <2> QED
      BY <2>1 DEF Unmoved, WithinLimits
  <1> QED
    BY <1>4, <1>5

\* Nothing moves a position before it is committed.
LEMMA InsertedLimits ==
  ASSUME Types, Limits, [Next]_vars,
         NEW t \in Sessions, NEW b \in Bots, NEW i \in DOMAIN inserted'[t][b]
  PROVE  Unmoved(inserted'[t][b][i])
  <1>1. /\ inserted \in [Sessions -> [Bots -> Seq(Outcome)]]
        /\ inserted[t][b] \in Seq(Outcome)
        /\ \A j \in DOMAIN inserted[t][b] :
             inserted[t][b][j] \in Outcome /\ Unmoved(inserted[t][b][j])
    BY DEF Types, TypeOK, SessionsOK, Limits
  <1>2. CASE inserted'[t][b] = inserted[t][b]
    BY <1>1, <1>2
  <1>3. ASSUME NEW u \in Sessions, End(u)
        PROVE  inserted'[t][b] = inserted[t][b]
    <2>1. inserted'[t][b] = inserted[t][b] \/ inserted'[t][b] = <<>>
      BY <1>1, <1>3 DEF End
    <2> QED
      BY <2>1
  <1>4. ASSUME NEW u \in Sessions, CandleSignal(u), inserted'[t][b] # inserted[t][b]
        PROVE  Unmoved(inserted'[t][b][i])
    <2>1. PICK row \in todo[u], decision \in Decisions :
            inserted' = [inserted EXCEPT ![u][row[1]] =
              Append(@, NewSignal(row[2], SignalVersion(row), work[u].latest, decision))]
      BY <1>4 DEF CandleSignal
    <2> DEFINE new == NewSignal(row[2], SignalVersion(row), work[u].latest, decision)
    <2>2. inserted'[t][b] = Append(inserted[t][b], new)
      BY <1>1, <1>4, <2>1
    <2>3. Unmoved(new)
      BY DEF NewSignal, Unmoved, WithinLimits
    <2> HIDE DEF new
    <2>4. \/ i \in DOMAIN inserted[t][b] /\ inserted'[t][b][i] = inserted[t][b][i]
          \/ inserted'[t][b][i] = new
      BY <1>1, <2>2
    <2> QED
      BY <1>1, <2>3, <2>4
  <1>5. ASSUME NEW u \in Sessions, CandleOutcome(u), inserted'[t][b] # inserted[t][b]
        PROVE  Unmoved(inserted'[t][b][i])
    <2>1. PICK c \in Bots :
            \E o \in {Skipped(inserted[u][c][Len(inserted[u][c])], "OPEN_POSITION_EXISTS"),
                      Skipped(inserted[u][c][Len(inserted[u][c])], "INVALID_POSITION_SIZE"),
                      Opened(inserted[u][c][Len(inserted[u][c])], work[u].tick)} :
              inserted' = [inserted EXCEPT ![u][c][Len(inserted[u][c])] = o]
      BY <1>5, Zenon DEF CandleOutcome
    <2> DEFINE n == Len(inserted[t][b])
               last == inserted[t][b][n]
    <2>2. PICK o \in {Skipped(inserted[u][c][Len(inserted[u][c])], "OPEN_POSITION_EXISTS"),
                      Skipped(inserted[u][c][Len(inserted[u][c])], "INVALID_POSITION_SIZE"),
                      Opened(inserted[u][c][Len(inserted[u][c])], work[u].tick)} :
            inserted' = [inserted EXCEPT ![u][c][Len(inserted[u][c])] = o]
      BY <2>1
    <2>3. u = t /\ c = b
      BY <1>1, <1>5, <2>2
    <2>4. inserted'[t][b] = [inserted[t][b] EXCEPT ![n] = o]
      BY <1>1, <2>2, <2>3
    <2>5. \/ o = Skipped(last, "OPEN_POSITION_EXISTS")
          \/ o = Skipped(last, "INVALID_POSITION_SIZE")
          \/ o = Opened(last, work[t].tick)
      BY <2>2, <2>3
    <2>6. i \in DOMAIN inserted[t][b]
            /\ (inserted'[t][b][i] = inserted[t][b][i] \/ (i = n /\ inserted'[t][b][i] = o))
      BY <1>1, <2>4
    <2>7. work[t].tick \in Tick
      BY <1>5, <2>3 DEF CandleOutcome, Types, TransactionReads, ReadsOK
    <2>8. i = n => Unmoved(o)
      <3>1. ASSUME i = n
            PROVE  last \in Outcome /\ Unmoved(last)
        BY <1>1, <2>6, <3>1
      <3> HIDE DEF last
      <3> QED
        BY <2>5, <2>7, <3>1, OpenedUnmoved
    <2> QED
      BY <1>1, <2>6, <2>8
  <1>6. \/ inserted' = inserted
        \/ \E u \in Sessions : End(u) \/ CandleSignal(u) \/ CandleOutcome(u)
    BY DEF Next, vars, sessions, TimePasses, PauseFeed, ResumeFeed, QuoteBegin, QuoteEvaluate,
           QuoteCommit, CandleBegin, CandleCommit, ActivateBegin,
           EditBegin, EditFlush, Supersede, ActivateCommit, ArchiveBegin, ArchiveCommit, Rollback
  <1> QED
    BY <1>2, <1>3, <1>4, <1>5, <1>6

\* A row that is loaded is an open one.
LEMMA LoadedCopy ==
  ASSUME Types, Limits, NEW b \in Bots, NEW rows \in SUBSET OpenRows(b)
  PROVE  CopyOf(LoadOne(b, rows), outcomes[b])
  <1>1. CASE rows = {}
    BY <1>1 DEF LoadOne, NothingLoaded, CopyOf
  <1>2. CASE rows # {}
    <2> DEFINE i == CHOOSE i \in rows : TRUE
    <2>1. i \in DOMAIN outcomes[b] /\ outcomes[b][i].status = "OPEN"
      BY <1>2 DEF OpenRows
    <2>2. LoadOne(b, rows) = [row |-> i, old |-> outcomes[b][i], new |-> outcomes[b][i]]
      BY <1>2 DEF LoadOne, Load
    <2> HIDE DEF i
    <2>3. outcomes[b] \in Seq(Outcome)
      BY DEF Types, TypeOK, DatabaseOK
    <2>4. outcomes[b][i] \in Outcome
      BY <2>1, <2>3
    <2>5. outcomes[b][i].paused <= outcomes[b][i].paused
      BY <2>4 DEF Outcome
    <2> QED
      BY <2>1, <2>2, <2>5 DEF CopyOf, Limits
  <1> QED
    BY <1>1, <1>2

\* A copy follows the rows: they keep their openings and their pauses.
LEMMA CopyFollows ==
  ASSUME Types, Limits, [Next]_vars, NEW b \in Bots, NEW l \in Loaded, CopyOf(l, outcomes[b])
  PROVE  CopyOf(l, outcomes'[b])
  <1> SUFFICES ASSUME l.row # 0
               PROVE  CopyOf(l, outcomes'[b])
    BY DEF CopyOf
  <1>1. /\ l.row \in DOMAIN outcomes[b] /\ l.new.opened = outcomes[b][l.row].opened
        /\ l.new.paused <= outcomes[b][l.row].paused
    BY DEF CopyOf
  <1>2. /\ l.row \in DOMAIN outcomes'[b]
        /\ outcomes'[b][l.row].opened = outcomes[b][l.row].opened
        /\ outcomes'[b][l.row].paused >= outcomes[b][l.row].paused
    BY <1>1, CommittedLimits
  <1>3. /\ outcomes[b] \in Seq(Outcome) /\ outcomes'[b] \in Seq(Outcome)
    BY StepTypes DEF Types, TypeOK, DatabaseOK
  <1>4. outcomes[b][l.row] \in Outcome /\ outcomes'[b][l.row] \in Outcome /\ l.new \in Outcome
    BY <1>1, <1>2, <1>3 DEF Loaded
  <1>5. \A o \in Outcome : o.paused \in Int
    BY DEF Outcome
  <1>6. l.new.paused <= outcomes'[b][l.row].paused
    BY <1>1, <1>2, <1>4, <1>5
  <1> QED
    BY <1>1, <1>2, <1>6 DEF CopyOf

\* What a session works with is a copy of an open row.
LEMMA LoadedLimits ==
  ASSUME Types, Limits, [Next]_vars, NEW t \in Sessions, NEW b \in Bots
  PROVE  CopyOf(loaded'[t][b], outcomes'[b])
  <1>1. /\ loaded \in [Sessions -> [Bots -> Loaded]] /\ loaded[t][b] \in Loaded
        /\ CopyOf(loaded[t][b], outcomes[b])
    BY DEF Types, TypeOK, SessionsOK, Limits
  <1>2. CASE loaded'[t][b] = loaded[t][b]
    BY <1>1, <1>2, CopyFollows
  <1>3. CASE loaded'[t][b] = NothingLoaded
    BY <1>3 DEF CopyOf, NothingLoaded
  <1>4. ASSUME NEW u \in Sessions, End(u)
        PROVE  loaded'[t][b] \in {loaded[t][b], NothingLoaded}
    BY <1>1, <1>4 DEF End
  <1>5. ASSUME NEW u \in Sessions, QuoteBegin(u), loaded'[t][b] # loaded[t][b]
        PROVE  CopyOf(loaded'[t][b], outcomes'[b])
    <2>1. loaded' = [loaded EXCEPT ![u] = [c \in Bots |-> LoadOne(c, Evaluable(c))]]
          /\ outcomes' = outcomes
      BY <1>5 DEF QuoteBegin, database
    <2>2. loaded'[t][b] = LoadOne(b, Evaluable(b))
      BY <1>1, <1>5, <2>1
    <2>3. Evaluable(b) \subseteq OpenRows(b)
      BY DEF Evaluable, OpenRows
    <2> QED
      BY <2>1, <2>2, <2>3, LoadedCopy
  <1>6. ASSUME NEW u \in Sessions, QuoteEvaluate(u), loaded'[t][b] # loaded[t][b]
        PROVE  CopyOf(loaded'[t][b], outcomes'[b])
    <2>1. PICK q \in Tick :
            loaded' = [loaded EXCEPT ![u] = [c \in Bots |-> EvaluateLoaded(loaded[u][c], q)]]
      BY <1>6 DEF QuoteEvaluate
    <2>2. outcomes' = outcomes
      BY <1>6 DEF QuoteEvaluate, database
    <2>3. loaded'[t][b] = EvaluateLoaded(loaded[t][b], q)
      BY <1>1, <1>6, <2>1
    <2>4. loaded[t][b].row # 0
          /\ loaded'[t][b] = [loaded[t][b] EXCEPT !.new = Evaluate(loaded[t][b].new, q)]
      BY <1>6, <2>3 DEF EvaluateLoaded
    <2>5. /\ loaded'[t][b].row = loaded[t][b].row /\ loaded'[t][b].old = loaded[t][b].old
          /\ loaded'[t][b].new = Evaluate(loaded[t][b].new, q) /\ loaded[t][b].new \in Outcome
      BY <1>1, <2>4 DEF Loaded
    <2>6. WithinLimits(loaded[t][b].new)
      BY <1>1, <2>4 DEF CopyOf
    <2>7. /\ WithinLimits(loaded'[t][b].new)
          /\ loaded'[t][b].new.opened = loaded[t][b].new.opened
          /\ loaded'[t][b].new.paused = loaded[t][b].new.paused
      BY <2>5, <2>6, EvaluateLimits
    <2> QED
      BY <1>1, <2>2, <2>5, <2>7 DEF CopyOf
  <1>7. ASSUME NEW u \in Sessions, ArchiveBegin(u), loaded'[t][b] # loaded[t][b]
        PROVE  CopyOf(loaded'[t][b], outcomes'[b])
    <2>1. PICK c \in Bots :
            loaded' = [loaded EXCEPT ![u][c] =
               IF OpenRows(c) = {} THEN NothingLoaded
               ELSE [LoadOne(c, OpenRows(c)) EXCEPT
                       !.new.status = "CANCELLED", !.new.reason = "BOT_ARCHIVED",
                       !.new.closed = now]]
      BY <1>7 DEF ArchiveBegin
    <2>2. outcomes' = outcomes
      BY <1>7 DEF ArchiveBegin, database
    <2> DEFINE l == LoadOne(b, OpenRows(b))
               new == [l.new EXCEPT !.status = "CANCELLED", !.reason = "BOT_ARCHIVED",
                                    !.closed = now]
    <2>3. l \in Loaded /\ l.new \in Outcome
      <3>1. l \in Loaded
        BY LoadedRow DEF OpenRows, Types, TypeOK
      <3> QED
        BY <3>1 DEF Loaded
    <2>4. CopyOf(l, outcomes[b])
      BY LoadedCopy
    <2>5. \/ loaded'[t][b] = NothingLoaded
          \/ loaded'[t][b] = [l EXCEPT !.new.status = "CANCELLED", !.new.reason = "BOT_ARCHIVED",
                                       !.new.closed = now]
      BY <1>1, <1>7, <2>1
    <2> HIDE DEF l
    <2>6. /\ new.status = "CANCELLED" /\ new.opened = l.new.opened /\ new.paused = l.new.paused
      BY <2>3 DEF Outcome
    <2>7. loaded'[t][b] = NothingLoaded \/ loaded'[t][b] = [l EXCEPT !.new = new]
      BY <2>3, <2>5 DEF Loaded, Outcome
    <2> HIDE DEF new
    <2>8. CASE loaded'[t][b] = [l EXCEPT !.new = new]
      <3>1. /\ loaded'[t][b].row = l.row /\ loaded'[t][b].old = l.old /\ loaded'[t][b].new = new
        BY <2>3, <2>8 DEF Loaded
      <3> QED
        BY <2>2, <2>4, <2>6, <3>1 DEF CopyOf, WithinLimits
    <2> QED
      BY <1>3, <2>7, <2>8
  <1>8. \/ loaded' = loaded
        \/ \E u \in Sessions : End(u) \/ QuoteBegin(u) \/ QuoteEvaluate(u) \/ ArchiveBegin(u)
    BY DEF Next, vars, sessions, TimePasses, PauseFeed, ResumeFeed, QuoteCommit,
           CandleBegin, CandleSignal, CandleOutcome, CandleCommit, ActivateBegin,
           EditBegin, EditFlush, Supersede, ActivateCommit, ArchiveCommit, Rollback
  <1> QED
    BY <1>2, <1>3, <1>4, <1>5, <1>6, <1>7, <1>8

\* Every step keeps rows and copies within their limits.
LEMMA StepLimits ==
  ASSUME Types, Limits, [Next]_vars
  PROVE  Limits'
  BY CommittedLimits, InsertedLimits, LoadedLimits DEF Limits

\* At first there is no row.
LEMMA InitLimits ==
  ASSUME Init
  PROVE  Limits
  <1>1. DOMAIN << >> = {}
    OBVIOUS
  <1>2. ASSUME NEW b \in Bots
        PROVE  /\ DOMAIN outcomes[b] = {}
               /\ \A t \in Sessions : DOMAIN inserted[t][b] = {} /\ loaded[t][b].row = 0
    BY <1>1 DEF Init, NothingLoaded
  <1> QED
    BY <1>2 DEF Limits, CopyOf

\* Limits: whatever batches, resumes and archivings overlap, no evaluation of an
\* open position is at or past its deadline, and none has seen its barriers.
\* Writing only the columns that changed may mix those of two evaluations, but
\* each of them is within the limits.
THEOREM NeverPastLimits == Spec => []OpenWithinLimits
  <1>1. Init => Types /\ Limits
    BY InitTypes, InitLimits
  <1>2. Types /\ Limits /\ [Next]_vars => Types' /\ Limits'
    BY StepTypes, StepLimits
  <1>3. Limits => OpenWithinLimits
    BY DEF Limits, WithinLimits, OpenWithinLimits, OpenBeforeDeadline, OpenWithinBarriers, OpenRows
  <1> QED
    BY <1>1, <1>2, <1>3, PTL DEF Spec

=============================================================================
