---------------------------- MODULE ShadowTrading ----------------------------
(***************************************************************************)
(* The shadow-trading core: market data arrives, bots raise signals, each  *)
(* BUY or SELL signal becomes a theoretical position (a signal outcome),   *)
(* quotes close it.  One market feed, several bots, and every request      *)
(* served by its own database transaction.                                 *)
(*                                                                         *)
(* A transaction is several actions: it reads at one moment (READ          *)
(* COMMITTED), works on its own copies, and writes when it commits.  The   *)
(* interleavings of API threads, ingestion workers and users are those of  *)
(* the Sessions.  Time is a logical clock whose unit is that of the        *)
(* configured durations.                                                   *)
(***************************************************************************)
EXTENDS Integers, Sequences

CONSTANTS
  Bots,              \* the bots assigned to the feed
  Sessions,          \* database sessions: API threads and ingestion workers
  UserOps,           \* what users do: a subset of AllUserOps
  Unconfigured,      \* the bots that may have no active version at first
  Versions,          \* configuration versions of a bot; version 1 is the first
  NewVersions,       \* those of them that do not exist at first
  CandleTimes,       \* opening times of the candles the collector may send
  Prices,            \* bid prices, in points
  Decisions,         \* what the strategy may decide: a subset of AllDecisions
  SpreadPoints,      \* ask - bid
  StopLossPoints,    \* theoretical_trade.stop_loss_points
  TakeProfitPoints,  \* theoretical_trade.take_profit_points
  MaxTradeDuration,  \* theoretical_trade.max_trade_duration_minutes
  StaleAfter,        \* filters.stale_after_seconds
  MaxTime,           \* bound: the clock stops here
  MaxLag,            \* bound: a quote reaches the database at most this late
  MaxBatch,          \* bound: quotes of one quote batch
  MaxRuns            \* bound: a bot with this many runs activates no more

AllUserOps == {"PAUSE", "ARCHIVE", "ACTIVATE", "APPLY", "CHANGE_MODE"}
AllDecisions == {"BUY", "SELL", "NO_TRADE"}

ASSUME ConstantsAssumption ==
  /\ Unconfigured \subseteq Bots
  /\ UserOps \subseteq AllUserOps
  /\ Decisions \subseteq AllDecisions
  /\ Versions \subseteq Nat \ {0} /\ 1 \in Versions
  /\ NewVersions \subseteq Versions \ {1}
  /\ CandleTimes \subseteq Nat
  /\ Prices \subseteq Int /\ Prices # {}
  /\ {SpreadPoints, MaxTime, MaxLag, MaxRuns} \subseteq Nat
  /\ {StopLossPoints, TakeProfitPoints, MaxTradeDuration, StaleAfter, MaxBatch}
        \subseteq Nat \ {0}

VARIABLES
  now,       \* the clock
  tick,      \* market_ticks: the newest one
  candles,   \* candles: opening times of the complete M1 candles
  feed,      \* market_feeds: paused_at and resume_from_at
  bot,       \* bots: state, archived_at # NULL, active_config_version_id
  config,    \* config_versions: the status of each version of each bot
  runs,      \* runs: the runs of each bot, in order of creation
  outcomes,  \* signals, each with its signal_outcomes row
  op,        \* what the transaction of each session does
  lock,      \* the lock each session holds on the row of each bot
  todo,      \* candle batch: the (bot, run, version) rows to evaluate
  inserted,  \* candle batch: rows inserted and not committed, by bot
  loaded,    \* quote batch, archiving: the outcome row loaded of each bot
  work       \* the rest of a transaction's local state

database == <<tick, candles, feed, bot, config, runs, outcomes>>
sessions == <<op, lock, todo, inserted, loaded, work>>
vars == <<now, database, sessions>>

-----------------------------------------------------------------------------
(* Rows. *)

Null == -1                    \* a NULL timestamp
Time == 0 .. MaxTime
Tick == [at : Time, bid : Prices]

Statuses == {"NONE", "SKIPPED", "OPEN", "CLOSED", "CANCELLED"}
CloseReasons == {"TAKE_PROFIT", "STOP_LOSS", "TIMEOUT", "DATA_GAP", "BOT_ARCHIVED"}
SkipReasons == {"OPEN_POSITION_EXISTS", "INVALID_POSITION_SIZE"}

\* A signal and its outcome; status "NONE" is a signal without an outcome row.
Outcome ==
  [run : Nat, config : Nat, observed : Nat, direction : AllDecisions,
   status : Statuses, reason : CloseReasons \cup SkipReasons \cup {"NONE"},
   opened : Int, evaluated : Int, paused : Nat,
   entry : Int, mfe : Nat, mae : Nat, closed : Int]

\* active_config_version_id is NULL, here 0, until a version is activated.
BotRow ==
  [state : {"MONITORING", "STOPPED"}, archived : BOOLEAN, config : Versions \cup {0}]

ConfigStatuses == {"ABSENT", "VALIDATED", "ACTIVE", "SUPERSEDED"}
Run == [config : Versions, status : {"ACTIVE", "SUPERSEDED"}]

\* The signal row evaluate_signal_from_context adds, before any outcome.
NewSignal(run, version, observed, direction) ==
  [run |-> run, config |-> version, observed |-> observed, direction |-> direction,
   status |-> "NONE", reason |-> "NONE", opened |-> Null, evaluated |-> Null,
   paused |-> 0, entry |-> 0, mfe |-> 0, mae |-> 0, closed |-> Null]

Blank == NewSignal(0, 0, 0, "NO_TRADE")

-----------------------------------------------------------------------------
(* The state of a transaction. *)

Ops == {"idle", "quotes", "candles", "archive", "edit", "activate", "supersede"}

\* Row locks PostgreSQL takes on a row of bots: the foreign keys of signals and
\* signal_outcomes, an UPDATE of bots, SELECT ... FOR UPDATE.
LockModes == {"none", "share", "nokey", "update"}

Conflict(m, n) ==
  /\ "none" \notin {m, n}
  /\ "update" \in {m, n} \/ (m = "nokey" /\ n = "nokey")

CanLock(t, b, mode) == \A u \in Sessions \ {t} : ~Conflict(mode, lock[u][b])

Loaded == [row : Nat, old : Outcome, new : Outcome]
NothingLoaded == [row |-> 0, old |-> Blank, new |-> Blank]
Load(b, i) == [row |-> i, old |-> outcomes[b][i], new |-> outcomes[b][i]]

NoWork ==
  [target |-> {}, quotes |-> 0, tick |-> [at |-> Null, bid |-> 0], candles |-> {},
   latest |-> 0, version |-> 0, previous |-> 0, runs |-> {},
   bot |-> [state |-> "STOPPED", archived |-> FALSE, config |-> 0],
   status |-> "SUPERSEDED"]

Work ==
  [target : SUBSET Bots, quotes : Nat, tick : [at : Time \cup {Null}, bid : Int],
   candles : SUBSET CandleTimes, latest : Nat, version : Nat, previous : Nat,
   runs : SUBSET Nat, status : ConfigStatuses,
   bot : [state : {"MONITORING", "STOPPED"}, archived : BOOLEAN, config : Nat]]

Start(t, kind, record) ==
  /\ op[t] = "idle"
  /\ op' = [op EXCEPT ![t] = kind]
  /\ work' = [work EXCEPT ![t] = record]

\* COMMIT or ROLLBACK: the session forgets everything and releases its locks.
End(t) ==
  /\ op' = [op EXCEPT ![t] = "idle"]
  /\ lock' = [lock EXCEPT ![t] = [b \in Bots |-> "none"]]
  /\ todo' = [todo EXCEPT ![t] = {}]
  /\ inserted' = [inserted EXCEPT ![t] = [b \in Bots |-> <<>>]]
  /\ loaded' = [loaded EXCEPT ![t] = [b \in Bots |-> NothingLoaded]]
  /\ work' = [work EXCEPT ![t] = NoWork]

\* The unit of work writes a column only when its value differs from the one
\* loaded; a column it did not change keeps what others committed meanwhile.
Column(current, old, new) == IF new # old THEN new ELSE current

Flush(current, old, new) ==
  [current EXCEPT
     !.status = Column(current.status, old.status, new.status),
     !.reason = Column(current.reason, old.reason, new.reason),
     !.evaluated = Column(current.evaluated, old.evaluated, new.evaluated),
     !.mfe = Column(current.mfe, old.mfe, new.mfe),
     !.mae = Column(current.mae, old.mae, new.mae),
     !.closed = Column(current.closed, old.closed, new.closed)]

\* The committed outcomes after session t writes back the rows it loaded.
WrittenBack(t) ==
  [b \in Bots |->
     [i \in DOMAIN outcomes[b] |->
        IF i = loaded[t][b].row
        THEN Flush(outcomes[b][i], loaded[t][b].old, loaded[t][b].new)
        ELSE outcomes[b][i]]]

-----------------------------------------------------------------------------
Init ==
  /\ now = 0
  /\ tick \in [at : {0}, bid : Prices]
  /\ candles = {}
  /\ feed = [paused |-> Null, resume |-> Null]
  /\ \E new \in SUBSET Unconfigured :
       /\ bot = [b \in Bots |->
            [state |-> IF b \in new THEN "STOPPED" ELSE "MONITORING", archived |-> FALSE,
             config |-> IF b \in new THEN 0 ELSE 1]]
       /\ config = [b \in Bots |-> [v \in Versions |->
            IF v = 1 /\ b \notin new THEN "ACTIVE"
            ELSE IF v \in NewVersions THEN "ABSENT" ELSE "VALIDATED"]]
       /\ runs = [b \in Bots |->
            IF b \in new THEN <<>> ELSE <<[config |-> 1, status |-> "ACTIVE"]>>]
  /\ outcomes = [b \in Bots |-> <<>>]
  /\ op = [t \in Sessions |-> "idle"]
  /\ lock = [t \in Sessions |-> [b \in Bots |-> "none"]]
  /\ todo = [t \in Sessions |-> {}]
  /\ inserted = [t \in Sessions |-> [b \in Bots |-> <<>>]]
  /\ loaded = [t \in Sessions |-> [b \in Bots |-> NothingLoaded]]
  /\ work = [t \in Sessions |-> NoWork]

TimePasses ==
  /\ now < MaxTime
  /\ now' = now + 1
  /\ UNCHANGED <<database, sessions>>

Paused == feed.paused # Null

Monitored(b) == ~bot[b].archived /\ bot[b].state = "MONITORING"

-----------------------------------------------------------------------------
(* Quote batches. *)

\* Mutant: the query forgets that only open outcomes are evaluated.
AnyStatus(b) ==
  IF Monitored(b) THEN {i \in DOMAIN outcomes[b] : outcomes[b][i].opened # Null} ELSE {}

\* The rows the query of ingest_quote_batch joins: bot, outcome, run, version.
Evaluable(b) ==
  IF Monitored(b)
  THEN {i \in DOMAIN outcomes[b] :
          /\ outcomes[b][i].status = "OPEN"
          /\ runs[b][outcomes[b][i].run].status = "ACTIVE"
          /\ config[b][outcomes[b][i].config] = "ACTIVE"}
  ELSE {}

LoadOne(b, rows) == IF rows = {} THEN NothingLoaded ELSE Load(b, CHOOSE i \in rows : TRUE)

\* A paused feed drops the batch before claiming the event: no transaction.
QuoteBegin(t) ==
  /\ ~Paused
  /\ Start(t, "quotes", NoWork)
  /\ loaded' = [loaded EXCEPT ![t] = [b \in Bots |-> LoadOne(b, Evaluable(b))]]
  /\ UNCHANGED <<now, database, lock, todo, inserted>>

\* How far the price an exit would get has moved in the position's favour.
Move(o, q) ==
  IF o.direction = "BUY" THEN q.bid - o.entry ELSE o.entry - (q.bid + SpreadPoints)

Larger(x, y) == IF x >= y THEN x ELSE y

\* Mutant: strict comparisons with the barriers and the deadline.
StrictCloseReason(o, q) ==
  IF q.at - (o.evaluated + o.paused) > StaleAfter THEN "DATA_GAP"
  ELSE IF Move(o, q) < -StopLossPoints THEN "STOP_LOSS"
  ELSE IF Move(o, q) > TakeProfitPoints THEN "TAKE_PROFIT"
  ELSE IF q.at > o.opened + o.paused + MaxTradeDuration THEN "TIMEOUT"
  ELSE "NONE"

\* Mutant: no check for a data gap and no timeout.
BarriersOnly(o, q) ==
  IF Move(o, q) <= -StopLossPoints THEN "STOP_LOSS"
  ELSE IF Move(o, q) >= TakeProfitPoints THEN "TAKE_PROFIT"
  ELSE "NONE"

\* Mutant: the last evaluation is shifted twice by the paused time.
PauseCountedTwice(o, q) ==
  IF q.at - (o.evaluated + 2 * o.paused) > StaleAfter THEN "DATA_GAP"
  ELSE IF Move(o, q) <= -StopLossPoints THEN "STOP_LOSS"
  ELSE IF Move(o, q) >= TakeProfitPoints THEN "TAKE_PROFIT"
  ELSE IF q.at >= o.opened + o.paused + MaxTradeDuration THEN "TIMEOUT"
  ELSE "NONE"

\* Gap first, then the barriers, then the timeout; a feed pause shifts both the
\* opening and the last evaluation by the whole paused time of the outcome.
CloseReason(o, q) ==
  IF q.at - (o.evaluated + o.paused) > StaleAfter THEN "DATA_GAP"
  ELSE IF Move(o, q) <= -StopLossPoints THEN "STOP_LOSS"
  ELSE IF Move(o, q) >= TakeProfitPoints THEN "TAKE_PROFIT"
  ELSE IF q.at >= o.opened + o.paused + MaxTradeDuration THEN "TIMEOUT"
  ELSE "NONE"

\* Mutant: a tick that does not close the position leaves no trace of itself.
EvaluateOnlyCloses(o, q) ==
  IF q.at > o.evaluated /\ CloseReason(o, q) # "NONE"
  THEN [o EXCEPT !.status = "CLOSED", !.reason = CloseReason(o, q), !.closed = q.at,
                 !.evaluated = q.at]
  ELSE o

\* evaluate_open_outcome on a row passed as loaded_outcome.
Evaluate(o, q) ==
  LET seen == [o EXCEPT !.mfe = Larger(@, Move(o, q)), !.mae = Larger(@, -Move(o, q)),
                        !.evaluated = q.at]
  IN  CASE q.at <= o.evaluated -> o
        [] q.at > o.evaluated /\ CloseReason(o, q) = "NONE" -> seen
        [] OTHER -> [seen EXCEPT !.status = "CLOSED", !.reason = CloseReason(o, q),
                                 !.closed = q.at]

EvaluateLoaded(l, q) ==
  IF l.row = 0 THEN l ELSE [l EXCEPT !.new = Evaluate(l.new, q)]

\* One pass of the loop over the quotes of the batch, which are in the order in
\* which the collector took them.
QuoteEvaluate(t) ==
  /\ op[t] = "quotes" /\ work[t].quotes < MaxBatch
  /\ \E q \in Tick :
       /\ now - MaxLag <= q.at /\ q.at <= now /\ work[t].tick.at <= q.at
       /\ work' = [work EXCEPT ![t].quotes = @ + 1, ![t].tick = q]
       /\ loaded' = [loaded EXCEPT ![t] =
            [b \in Bots |-> EvaluateLoaded(loaded[t][b], q)]]
  /\ UNCHANGED <<now, database, op, lock, todo, inserted>>

Newer(q, r) == IF q.at > r.at THEN q ELSE r

QuoteCommit(t) ==
  /\ op[t] = "quotes" /\ work[t].quotes > 0
  /\ outcomes' = WrittenBack(t)
  /\ tick' = Newer(work[t].tick, tick)
  /\ End(t)
  /\ UNCHANGED <<now, candles, feed, bot, config, runs>>

-----------------------------------------------------------------------------
(* Candle batches. *)

\* The opening time of the newest candle: a set of one.
Latest(S) == {x \in S : \A y \in S : y <= x}

\* Mutant: only a signal with an open position counts as a duplicate.
OpenDuplicate(b, r, latest) ==
  \E i \in DOMAIN outcomes[b] :
    /\ outcomes[b][i].run = r /\ outcomes[b][i].observed = latest
    /\ outcomes[b][i].status = "OPEN"

Duplicate(b, r, latest) ==
  \E i \in DOMAIN outcomes[b] : outcomes[b][i].run = r /\ outcomes[b][i].observed = latest

\* The (bot, run, version) rows the query of ingest_candle_batch joins, without
\* those that have a signal at the latest candle already.
ToEvaluate(latest) ==
  {row \in UNION {{b} \X (DOMAIN runs[b]) \X {bot[b].config} : b \in Bots} :
     LET b == row[1]
         r == row[2]
     IN  /\ Monitored(b)
         /\ config[b][row[3]] = "ACTIVE"
         /\ runs[b][r] = [config |-> row[3], status |-> "ACTIVE"]
         /\ ~Duplicate(b, r, latest)}

\* INSERT ... ON CONFLICT DO NOTHING waits for another transaction that has
\* inserted one of the candles.  A batch without a new candle changes nothing.
CandleBegin(t) ==
  /\ ~Paused
  /\ \E batch \in SUBSET {c \in CandleTimes : c <= now} :
       /\ batch \ candles # {}
       /\ \A u \in Sessions : work[u].candles \cap batch = {}
       /\ \E latest \in Latest(candles \cup batch) :
            /\ Start(t, "candles", [NoWork EXCEPT !.candles = batch \ candles,
                                                  !.latest = latest, !.tick = tick])
            /\ todo' = [todo EXCEPT ![t] = ToEvaluate(latest)]
  /\ UNCHANGED <<now, database, lock, inserted, loaded>>

\* A BUY or SELL row whose outcome create_signal_outcome has not added yet.
Pending(o) == o.status = "NONE" /\ o.direction # "NO_TRADE"
AwaitsOutcome(t, b) ==
  LET rows == inserted[t][b] IN rows # <<>> /\ Pending(rows[Len(rows)])

\* Mutant: the version is read from the bot again.
CurrentVersion(row) == bot[row[1]].config

\* The version the query has joined with the run.
SignalVersion(row) == row[3]

\* The signal row: its foreign key shares the lock of the bot's row.
CandleSignal(t) ==
  /\ op[t] = "candles"
  /\ \A b \in Bots : ~AwaitsOutcome(t, b)
  /\ \E row \in todo[t], decision \in Decisions :
       LET b == row[1]
           r == row[2]
       IN  /\ CanLock(t, b, "share")
           /\ lock' = [lock EXCEPT ![t][b] = IF @ = "none" THEN "share" ELSE @]
           /\ todo' = [todo EXCEPT ![t] = @ \ {row}]
           /\ inserted' = [inserted EXCEPT ![t][b] =
                Append(@, NewSignal(r, SignalVersion(row), work[t].latest, decision))]
  /\ UNCHANGED <<now, database, op, loaded, work>>

HasOpen(rows) == \E i \in DOMAIN rows : rows[i].status = "OPEN"

\* BUY opens at the ask, SELL at the bid, at the time of the newest tick.
Opened(o, q) ==
  [o EXCEPT !.status = "OPEN", !.opened = q.at, !.evaluated = q.at,
            !.entry = IF o.direction = "BUY" THEN q.bid + SpreadPoints ELSE q.bid]

Skipped(o, why) == [o EXCEPT !.status = "SKIPPED", !.reason = why]

\* Mutant: the bot's row is read without FOR UPDATE.
PlainRead == "share"

\* The outcome row, under SELECT ... FOR UPDATE of the bot.  It does not look
\* at the bot's state again.  "sized": calculate_position_size found a volume.
OutcomeLock == "update"

CandleOutcome(t) ==
  /\ op[t] = "candles"
  /\ \E b \in Bots, sized \in BOOLEAN :
       LET rows == inserted[t][b]
           row == rows[Len(rows)]
           occupied == HasOpen(outcomes[b]) \/ HasOpen(rows)
       IN  /\ AwaitsOutcome(t, b)
           /\ CanLock(t, b, OutcomeLock)
           /\ lock' = [lock EXCEPT ![t][b] = OutcomeLock]
           /\ inserted' = [inserted EXCEPT ![t][b][Len(rows)] =
                CASE occupied -> Skipped(row, "OPEN_POSITION_EXISTS")
                  [] ~occupied /\ ~sized -> Skipped(row, "INVALID_POSITION_SIZE")
                  [] OTHER -> Opened(row, work[t].tick)]
  /\ UNCHANGED <<now, database, op, todo, loaded, work>>

CandleCommit(t) ==
  /\ op[t] = "candles" /\ todo[t] = {}
  /\ \A b \in Bots : ~AwaitsOutcome(t, b)
  /\ candles' = candles \cup work[t].candles
  /\ outcomes' = [b \in Bots |-> outcomes[b] \o inserted[t][b]]
  /\ End(t)
  /\ UNCHANGED <<now, tick, feed, bot, config, runs>>

-----------------------------------------------------------------------------
(* Users: activation, archiving, pausing. *)

\* The version activate_config_version supersedes: any one ACTIVE version other
\* than the new one; 0 when there is none.
Previous(b, v) ==
  LET others == {w \in Versions \ {v} : config[b][w] = "ACTIVE"}
  IN  IF others = {} THEN {0} ELSE others

ActiveRuns(b) == {r \in DOMAIN runs[b] : runs[b][r].status = "ACTIVE"}

\* The bot as the request loads it, and the version it wants to activate.
BotLoaded(b, v) == [NoWork EXCEPT !.target = {b}, !.version = v, !.bot = bot[b]]

\* activate_config takes any VALIDATED version; it does not look at archived_at.
ActivateBegin(t) ==
  /\ "ACTIVATE" \in UserOps
  /\ \E b \in Bots, v \in Versions : \E previous \in Previous(b, v) :
       /\ config[b][v] = "VALIDATED" /\ Len(runs[b]) < MaxRuns
       /\ Start(t, "activate", [BotLoaded(b, v) EXCEPT !.status = "VALIDATED",
                                                      !.previous = previous])
  /\ UNCHANGED <<now, database, lock, todo, inserted, loaded>>

\* apply_strategy and update_overrides activate a version they create, whatever
\* archived_at says; a change of mode activates the active version once more.
EditBegin(t) ==
  /\ \E b \in Bots, v \in Versions :
       /\ Len(runs[b]) < MaxRuns
       /\ \/ /\ "APPLY" \in UserOps
             /\ config[b][v] = "ABSENT" /\ \A u \in Sessions : work[u].version # v
          \/ /\ "CHANGE_MODE" \in UserOps
             /\ v = bot[b].config /\ ~bot[b].archived
       /\ Start(t, "edit", BotLoaded(b, v))
  /\ UNCHANGED <<now, database, lock, todo, inserted, loaded>>

\* The changes of the bot, and the new version, are flushed before the reads of
\* activate_config_version: an UPDATE of the bot's row, or only the foreign key
\* of the new version when the bot's own columns stay as they are.
EditFlush(t) ==
  /\ op[t] = "edit"
  /\ LET v == work[t].version IN
     \E b \in work[t].target, mode \in {"share", "nokey"} : \E previous \in Previous(b, v) :
       /\ mode = "share" => config[b][v] = "ABSENT"
       /\ CanLock(t, b, mode)
       /\ lock' = [lock EXCEPT ![t][b] = mode]
       /\ work' = [work EXCEPT ![t].status = config[b][v], ![t].previous = previous]
  /\ op' = [op EXCEPT ![t] = "activate"]
  /\ UNCHANGED <<now, database, todo, inserted, loaded>>

\* The row of a version is locked by the session that has superseded it and has
\* not committed.
VersionLocked(t, b, v) ==
  \E u \in Sessions \ {t} :
    op[u] = "supersede" /\ b \in work[u].target /\ work[u].previous = v

\* The query for the active runs flushes the previous version first, and so
\* runs after the commit of whoever has superseded that version.
Supersede(t) ==
  /\ op[t] = "activate"
  /\ \E b \in work[t].target :
       /\ ~VersionLocked(t, b, work[t].previous)
       /\ work' = [work EXCEPT ![t].runs = ActiveRuns(b)]
  /\ op' = [op EXCEPT ![t] = "supersede"]
  /\ UNCHANGED <<now, database, lock, todo, inserted, loaded>>

\* Mutant: the runs of the version before stay active.
StaysActive(rows, old) == rows

Superseded(rows, old) ==
  [r \in DOMAIN rows |->
     IF r \in old THEN [rows[r] EXCEPT !.status = "SUPERSEDED"] ELSE rows[r]]

\* The other writes are in the flush of the commit, the bot's row among them.
ActivateCommit(t) ==
  /\ op[t] = "supersede"
  /\ LET w == work[t] IN
     \E b \in w.target :
       /\ CanLock(t, b, "nokey") /\ ~VersionLocked(t, b, w.version)
       /\ bot' = [bot EXCEPT
            ![b].state = Column(@, w.bot.state, "MONITORING"),
            ![b].config = Column(@, w.bot.config, w.version)]
       /\ config' = [config EXCEPT ![b] = [v \in Versions |->
            IF v = w.previous THEN "SUPERSEDED"
            ELSE IF v = w.version THEN Column(@[v], w.status, "ACTIVE")
            ELSE @[v]]]
       /\ runs' = [runs EXCEPT ![b] =
            Append(Superseded(@, w.runs), [config |-> w.version, status |-> "ACTIVE"])]
  /\ End(t)
  /\ UNCHANGED <<now, tick, candles, feed, outcomes>>

OpenRows(b) == {i \in DOMAIN outcomes[b] : outcomes[b][i].status = "OPEN"}

\* The UPDATE of the bot comes first; runs and open outcomes are read under it.
ArchiveBegin(t) ==
  /\ "ARCHIVE" \in UserOps
  /\ \E b \in Bots :
       /\ CanLock(t, b, "nokey")
       /\ Start(t, "archive", [NoWork EXCEPT !.target = {b}, !.runs = ActiveRuns(b)])
       /\ lock' = [lock EXCEPT ![t][b] = "nokey"]
       /\ loaded' = [loaded EXCEPT ![t][b] =
            IF OpenRows(b) = {} THEN NothingLoaded
            ELSE [LoadOne(b, OpenRows(b)) EXCEPT
                    !.new.status = "CANCELLED", !.new.reason = "BOT_ARCHIVED",
                    !.new.closed = now]]
  /\ UNCHANGED <<now, database, todo, inserted>>

ArchiveCommit(t) ==
  /\ op[t] = "archive"
  /\ \E b \in work[t].target :
       /\ bot' = [bot EXCEPT ![b].archived = TRUE, ![b].state = "STOPPED"]
       /\ runs' = [runs EXCEPT ![b] = Superseded(@, work[t].runs)]
  /\ outcomes' = WrittenBack(t)
  /\ End(t)
  /\ UNCHANGED <<now, tick, candles, feed, config>>

\* An exception, a deadlock victim or the end of the process.
Rollback(t) ==
  /\ op[t] # "idle"
  /\ End(t)
  /\ UNCHANGED <<now, database>>

\* PAUSE takes effect when the command is created, RESUME when the collector
\* reports that it succeeded.
PauseFeed ==
  /\ "PAUSE" \in UserOps
  /\ feed' = [feed EXCEPT !.paused = IF Paused THEN @ ELSE now]
  /\ UNCHANGED <<now, tick, candles, bot, config, runs, outcomes, sessions>>

\* Mutant: paused_at is not cleared.
StaysPaused ==
  /\ "PAUSE" \in UserOps
  /\ LET seconds == IF Paused THEN now - feed.paused ELSE 0 IN
     outcomes' = [b \in Bots |-> [i \in DOMAIN outcomes[b] |->
        IF outcomes[b][i].status = "OPEN"
        THEN [outcomes[b][i] EXCEPT !.paused = @ + seconds]
        ELSE outcomes[b][i]]]
  /\ feed' = [feed EXCEPT !.resume = now + 1]
  /\ UNCHANGED <<now, tick, candles, bot, config, runs, sessions>>

\* One UPDATE adds the paused time to every open outcome of the feed's bots.
ResumeFeed ==
  /\ "PAUSE" \in UserOps
  /\ LET seconds == IF Paused THEN now - feed.paused ELSE 0 IN
     outcomes' = [b \in Bots |-> [i \in DOMAIN outcomes[b] |->
        IF outcomes[b][i].status = "OPEN"
        THEN [outcomes[b][i] EXCEPT !.paused = @ + seconds]
        ELSE outcomes[b][i]]]
  /\ feed' = [paused |-> Null, resume |-> now + 1]
  /\ UNCHANGED <<now, tick, candles, bot, config, runs, sessions>>

Next ==
  \/ TimePasses
  \/ PauseFeed
  \/ ResumeFeed
  \/ \E t \in Sessions :
       \/ QuoteBegin(t)
       \/ QuoteEvaluate(t)
       \/ QuoteCommit(t)
       \/ CandleBegin(t)
       \/ CandleSignal(t)
       \/ CandleOutcome(t)
       \/ CandleCommit(t)
       \/ ActivateBegin(t)
       \/ EditBegin(t)
       \/ EditFlush(t)
       \/ Supersede(t)
       \/ ActivateCommit(t)
       \/ ArchiveBegin(t)
       \/ ArchiveCommit(t)
       \/ Rollback(t)

Spec == Init /\ [][Next]_vars

\* The collector samples the current quote again and again, and no failure to
\* store it lasts for ever; transactions end.  Users owe nothing.
FreshQuote(t) == QuoteEvaluate(t) /\ tick.at < now /\ work'[t].tick.at = now
DeliverNewer(t) == QuoteCommit(t) /\ work[t].tick.at > tick.at

Fairness ==
  /\ WF_vars(TimePasses)
  /\ SF_vars(\E t \in Sessions : QuoteBegin(t))
  /\ SF_vars(\E t \in Sessions : FreshQuote(t))
  /\ SF_vars(\E t \in Sessions : DeliverNewer(t))
  /\ \A t \in Sessions :
       /\ WF_vars(QuoteEvaluate(t)) /\ WF_vars(QuoteCommit(t))
       /\ WF_vars(CandleSignal(t)) /\ WF_vars(CandleOutcome(t)) /\ WF_vars(CandleCommit(t))
       /\ WF_vars(ArchiveCommit(t))
       /\ WF_vars(EditFlush(t)) /\ WF_vars(Supersede(t)) /\ WF_vars(ActivateCommit(t))

LiveSpec == Spec /\ Fairness

-----------------------------------------------------------------------------
(* Properties. *)

\* Type invariant: the rows of the database and the state of the sessions.
DatabaseOK ==
  /\ now \in Time
  /\ tick \in Tick
  /\ candles \subseteq CandleTimes
  /\ feed \in [paused : Time \cup {Null}, resume : Nat \cup {Null}]
  /\ bot \in [Bots -> BotRow]
  /\ config \in [Bots -> [Versions -> ConfigStatuses]]
  /\ runs \in [Bots -> Seq(Run)]
  /\ outcomes \in [Bots -> Seq(Outcome)]

SessionsOK ==
  /\ op \in [Sessions -> Ops]
  /\ lock \in [Sessions -> [Bots -> LockModes]]
  /\ todo \in [Sessions -> SUBSET (Bots \X Nat \X Versions)]
  /\ inserted \in [Sessions -> [Bots -> Seq(Outcome)]]
  /\ loaded \in [Sessions -> [Bots -> Loaded]]
  /\ work \in [Sessions -> Work]

TypeOK == DatabaseOK /\ SessionsOK

\* "One open shadow position per bot", whatever transactions run side by side:
\* the bot's row lock alone ensures it, the partial unique index never has to.
OneOpenPerBot ==
  \A b \in Bots : \A i, j \in OpenRows(b) : i = j

\* The inductive invariant behind the safety theorems.  A session that is idle
\* holds no lock, only a candle batch inserts rows; the locks held on a bot do not conflict; a row
\* written back is closed or cancelled, or keeps its status; an inserted row
\* that is open is the only open one of its bot, and its session has the bot's
\* row locked FOR UPDATE.
IdleIsClean ==
  \A t \in Sessions, b \in Bots :
    /\ op[t] = "idle" => lock[t][b] = "none"
    /\ op[t] # "candles" => inserted[t][b] = <<>>

LocksCompatible ==
  \A t, u \in Sessions, b \in Bots : t # u => ~Conflict(lock[t][b], lock[u][b])

WritesOnlyResolve ==
  \A t \in Sessions, b \in Bots :
    loaded[t][b].new.status \in {loaded[t][b].old.status, "CLOSED", "CANCELLED"}

InsertedOpenIsAlone ==
  \A t \in Sessions, b \in Bots : \A i \in DOMAIN inserted[t][b] :
    inserted[t][b][i].status = "OPEN" =>
      /\ lock[t][b] = "update"
      /\ ~HasOpen(outcomes[b])
      /\ \A j \in DOMAIN inserted[t][b] : inserted[t][b][j].status = "OPEN" => j = i

\* A row has an opening time from the moment it is open, and an inserted row
\* has one only when it is open.
OpenedRows ==
  \A b \in Bots :
    /\ \A i \in DOMAIN outcomes[b] :
         outcomes[b][i].status = "OPEN" => outcomes[b][i].opened # Null
    /\ \A t \in Sessions : \A i \in DOMAIN inserted[t][b] :
         (inserted[t][b][i].status = "OPEN") <=> (inserted[t][b][i].opened # Null)

\* What a transaction works with has been read from rows of the right type.
ReadsOK(kind, w) ==
  /\ kind = "candles" \/ (kind = "quotes" /\ w.quotes > 0) => w.tick \in Tick
  /\ kind \in {"edit", "activate", "supersede"} => w.version \in Versions

TransactionReads ==
  /\ feed.paused <= now
  /\ \A t \in Sessions : ReadsOK(op[t], work[t])

Inv ==
  /\ TypeOK
  /\ IdleIsClean
  /\ LocksCompatible
  /\ WritesOnlyResolve
  /\ InsertedOpenIsAlone
  /\ OpenedRows
  /\ TransactionReads
  /\ OneOpenPerBot

\* A position still open was never evaluated at or after its deadline, counting
\* the time its feed was paused: the timeout is not missed by an evaluation
\* that ran on an older copy of the row.
OpenBeforeDeadline ==
  \A b \in Bots : \A i \in OpenRows(b) :
    LET o == outcomes[b][i] IN o.evaluated < o.opened + o.paused + MaxTradeDuration

\* A position still open has never been seen at its stop loss or take profit.
OpenWithinBarriers ==
  \A b \in Bots : \A i \in OpenRows(b) :
    /\ outcomes[b][i].mfe < TakeProfitPoints
    /\ outcomes[b][i].mae < StopLossPoints

\* Whatever write-backs overlap, a position outlives neither its deadline nor its
\* barriers.
OpenWithinLimits == OpenBeforeDeadline /\ OpenWithinBarriers

\* Every signal links to a run of its bot and to the configuration version that
\* run was started with, even when versions are activated meanwhile.
SignalMatchesRun ==
  \A b \in Bots : \A i \in DOMAIN outcomes[b] :
    LET o == outcomes[b][i]
    IN  o.run \in DOMAIN runs[b] /\ o.config = runs[b][o.run].config

\* The paused time a position is credited with lies within its life so far, so
\* that neither its deadline nor its duration counts a pause twice.
PausedWithinLife ==
  \A b \in Bots : \A i \in DOMAIN outcomes[b] :
    LET o == outcomes[b][i] IN o.opened # Null => o.opened + o.paused <= now

\* The positions of each bot behave as one slot that is taken, left and never
\* taken by the same position again: overlapping transactions neither open a
\* second position nor reopen a resolved one by writing back an older copy.
OpenPosition(b) == IF OpenRows(b) = {} THEN 0 ELSE CHOOSE i \in OpenRows(b) : TRUE
EverOpen(b) == {i \in DOMAIN outcomes[b] : outcomes[b][i].opened # Null}

Slots == INSTANCE PositionSlots WITH
  slot <- [b \in Bots |-> OpenPosition(b)],
  taken <- [b \in Bots |-> EverOpen(b)]

ImplementsSlots == Slots!Spec

\* The properties below hold when transactions do not overlap (one session).

\* A candle raises at most one signal in a run of a bot, although every batch
\* looks at the newest candle again.
SignalOncePerCandle ==
  \A b \in Bots : \A i, j \in DOMAIN outcomes[b] :
    /\ outcomes[b][i].run = outcomes[b][j].run
    /\ outcomes[b][i].observed = outcomes[b][j].observed
    => i = j

\* A resolved outcome is final: nothing changes it any more.
ResolvedIsFinal ==
  [][\A b \in Bots : \A i \in DOMAIN outcomes[b] :
       outcomes[b][i].status \in {"SKIPPED", "CLOSED", "CANCELLED"}
         => outcomes'[b][i] = outcomes[b][i]]_vars

\* A closed outcome is not evaluated again by the quotes that follow in the
\* batch that closed it.
ClosedIsNotEvaluated ==
  [][\A t \in Sessions, b \in Bots :
       loaded[t][b].new.status = "CLOSED" /\ loaded'[t][b].row = loaded[t][b].row
         => loaded'[t][b].new = loaded[t][b].new]_vars

\* No quote is missed: an open position that quote batches still evaluate has
\* been evaluated up to the newest stored tick.  A DATA_GAP close is therefore
\* never caused by data the database already had.
EvaluatedUpToNewestTick ==
  \A b \in Bots : \A i \in Evaluable(b) : outcomes[b][i].evaluated >= tick.at

\* A bot that monitors can raise signals: its active version has the status
\* ACTIVE and exactly one active run.  (Two sessions break this: a change
\* of mode that loaded the bot before another activation committed.)
ActiveVersionRuns ==
  \A b \in Bots : Monitored(b) =>
    /\ config[b][bot[b].config] = "ACTIVE"
    /\ \E r \in DOMAIN runs[b] :
         ActiveRuns(b) = {r} /\ runs[b][r].config = bot[b].config

\* An archived bot holds no open position.
ArchivedHasNoOpen ==
  \A b \in Bots : bot[b].archived => OpenRows(b) = {}

\* "Activation supersedes the previous active version": one version is active.
\* (Two sessions break this too: both read the same previous version.)
OneActiveVersion ==
  \A b \in Bots : \A v, w \in Versions :
    config[b][v] = "ACTIVE" /\ config[b][w] = "ACTIVE" => v = w

\* Whatever order bots are edited, activated and archived in, version, run and
\* position agree.
LifecycleIsConsistent == ActiveVersionRuns /\ ArchivedHasNoOpen /\ OneActiveVersion

\* "A data gap longer than stale_after_seconds closes": an evaluation after such a
\* gap does not leave the position open.  Every quote of a batch may come that much
\* after the one before; and the pauses of a position are taken off every gap, those
\* after the pause too, which the sentence does not say.
\* (Two sessions break this: an older write-back moves the last evaluation back.)
LongestGap(o) == MaxBatch * (StaleAfter + o.paused)

GapCloses ==
  [][\A b \in Bots : \A i \in OpenRows(b) :
       outcomes'[b][i].evaluated - outcomes[b][i].evaluated > LongestGap(outcomes'[b][i])
       => outcomes'[b][i].status # "OPEN"]_vars

\* "Signal -> virtual position -> outcome": once users leave the feed running, a
\* position whose timeout, shifted by the pauses so far, falls within the modelled
\* time is resolved in the end.
Due(b, x) ==
  \E i \in OpenRows(b) :
    outcomes[b][i].opened = x /\ x + outcomes[b][i].paused + MaxTradeDuration <= MaxTime

PositionsResolve ==
  <>[]~Paused =>
    \A b \in Bots, x \in 0 .. MaxTime - MaxTradeDuration : Due(b, x) ~> ~Due(b, x)

=============================================================================
