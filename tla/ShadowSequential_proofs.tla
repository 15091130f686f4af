------------------------ MODULE ShadowSequential_proofs ------------------------
(***************************************************************************)
(* Proofs of what ShadowTrading promises as long as transactions do not    *)
(* overlap, that is with one database session, for any number of bots,     *)
(* versions, prices, candles, pauses and moments.                          *)
(***************************************************************************)
EXTENDS ShadowTrading_proofs

\* Transactions do not overlap.
OneSession == \A t, u \in Sessions : t = u

\* A write-back writes the status and the last evaluation where they changed.
LEMMA FlushColumns ==
  ASSUME NEW o \in Outcome, NEW old, NEW new
  PROVE  /\ Flush(o, old, new).status = Column(o.status, old.status, new.status)
         /\ Flush(o, old, new).evaluated = Column(o.evaluated, old.evaluated, new.evaluated)
  <1> DEFINE status == Column(o.status, old.status, new.status)
             reason == Column(o.reason, old.reason, new.reason)
             evaluated == Column(o.evaluated, old.evaluated, new.evaluated)
             mfe == Column(o.mfe, old.mfe, new.mfe)
             mae == Column(o.mae, old.mae, new.mae)
             closed == Column(o.closed, old.closed, new.closed)
  <1>1. Flush(o, old, new) =
          [o EXCEPT !.status = status, !.reason = reason, !.evaluated = evaluated,
                    !.mfe = mfe, !.mae = mae, !.closed = closed]
    BY Zenon DEF Flush
  <1> HIDE DEF status, reason, evaluated, mfe, mae, closed
  <1>2. Flush(o, old, new).status = status /\ Flush(o, old, new).evaluated = evaluated
    BY <1>1 DEF Outcome
  <1> QED
    BY <1>2 DEF status, evaluated

-----------------------------------------------------------------------------
(* Loaded rows: what a transaction has loaded is still so.                 *)

\* A row that a transaction has loaded is an open one of its bot and has been
\* evaluated by nobody else; archiving has loaded every open row.
Fresh ==
  \A t \in Sessions, b \in Bots :
    /\ loaded[t][b].row # 0 =>
         /\ op[t] \in {"quotes", "archive"}
         /\ loaded[t][b].row \in OpenRows(b)
         /\ loaded[t][b].old.status = "OPEN"
         /\ loaded[t][b].old.evaluated = outcomes[b][loaded[t][b].row].evaluated
         /\ op[t] = "archive" => loaded[t][b].new.status = "CANCELLED"
    /\ op[t] = "archive" /\ b \in work[t].target =>
         \A i \in OpenRows(b) : loaded[t][b].row = i

\* A transaction loads one of the rows it looks for, or none when there is none.
LEMMA LoadsOne ==
  ASSUME Types, NEW b \in Bots, NEW rows \in SUBSET OpenRows(b)
  PROVE  LET l == LoadOne(b, rows)
         IN  /\ l \in Loaded
             /\ rows = {} <=> l.row = 0
             /\ l.row # 0 => /\ l.row \in rows /\ l.old = outcomes[b][l.row]
                             /\ l.new = outcomes[b][l.row] /\ l.old.status = "OPEN"
  <1>1. rows \subseteq DOMAIN outcomes[b] /\ DOMAIN outcomes[b] \subseteq Nat \ {0}
    BY DEF OpenRows, Types, TypeOK, DatabaseOK
  <1>2. LoadOne(b, rows) \in Loaded
    BY <1>1, LoadedRow DEF Types, TypeOK
  <1>3. CASE rows = {}
    BY <1>2, <1>3 DEF LoadOne, NothingLoaded
  <1>4. CASE rows # {}
    <2> DEFINE i == CHOOSE i \in rows : TRUE
    <2>1. i \in rows /\ i # 0
      BY <1>1, <1>4
    <2>2. LoadOne(b, rows) = [row |-> i, old |-> outcomes[b][i], new |-> outcomes[b][i]]
      BY <1>4 DEF LoadOne, Load
    <2> HIDE DEF i
    <2> QED
      BY <1>2, <1>4, <2>1, <2>2 DEF OpenRows
  <1> QED
    BY <1>3, <1>4

\* A step that leaves what sessions do and have loaded, and closes no row.
LEMMA StaysFresh ==
  ASSUME Types, Fresh, UNCHANGED <<op, loaded, work>>,
         \A b \in Bots : /\ OpenRows(b)' = OpenRows(b)
                         /\ \A i \in OpenRows(b) :
                              outcomes'[b][i].evaluated = outcomes[b][i].evaluated
  PROVE  Fresh'
  BY DEF Fresh

\* Every step of one session keeps what it has loaded fresh.
LEMMA StepFresh ==
  ASSUME OneSession, Types, Locks, Fresh, [Next]_vars
  PROVE  Fresh'
  <1>1. /\ op \in [Sessions -> Ops] /\ loaded \in [Sessions -> [Bots -> Loaded]]
        /\ work \in [Sessions -> Work]
    BY DEF Types, TypeOK, SessionsOK
  <1>2. CASE UNCHANGED <<op, loaded, work, outcomes>>
    BY <1>2, StaysFresh DEF OpenRows
  <1>3. CASE ResumeFeed
    <2>1. UNCHANGED <<op, loaded, work>>
      BY <1>3 DEF ResumeFeed, sessions
    <2>2. PICK seconds \in Nat : outcomes' = [b \in Bots |-> ResumedRows(outcomes[b], seconds)]
      BY <1>3, ResumedOutcomes
    <2>3. ASSUME NEW b \in Bots
          PROVE  /\ OpenRows(b)' = OpenRows(b)
                 /\ \A i \in OpenRows(b) : outcomes'[b][i].evaluated = outcomes[b][i].evaluated
      <3>1. outcomes[b] \in Seq(Outcome) /\ \A i \in DOMAIN outcomes[b] : outcomes[b][i] \in Outcome
        BY DEF Types, TypeOK, DatabaseOK
      <3>2. outcomes'[b] = ResumedRows(outcomes[b], seconds)
        BY <2>2
      <3>3. /\ DOMAIN outcomes'[b] = DOMAIN outcomes[b]
            /\ \A i \in DOMAIN outcomes[b] : outcomes'[b][i].status = outcomes[b][i].status
        BY <3>1, <3>2, ResumedRowsTypes
      <3>4. ASSUME NEW i \in DOMAIN outcomes[b]
            PROVE  outcomes'[b][i].evaluated = outcomes[b][i].evaluated
        <4>1. outcomes[b][i] \in Outcome
          BY <3>1
        <4>2. \/ outcomes'[b][i] = outcomes[b][i]
              \/ outcomes'[b][i] = [outcomes[b][i] EXCEPT !.paused = outcomes[b][i].paused + seconds]
          BY <3>2 DEF ResumedRows
        <4> QED
          BY <4>1, <4>2 DEF Outcome
      <3> QED
        BY <3>3, <3>4 DEF OpenRows
    <2> QED
      BY <2>1, <2>3, StaysFresh
  <1>4. ASSUME NEW t \in Sessions, QuoteBegin(t)
        PROVE  Fresh'
    <2>1. /\ op'[t] = "quotes" /\ outcomes' = outcomes
          /\ \A b \in Bots : loaded'[t][b] = LoadOne(b, Evaluable(b))
      BY <1>1, <1>4 DEF QuoteBegin, Start, database
    <2>2. \A b \in Bots : Evaluable(b) \subseteq OpenRows(b)
      BY DEF Evaluable, OpenRows
    <2>3. \A b \in Bots : OpenRows(b)' = OpenRows(b)
      BY <2>1 DEF OpenRows
    <2>4. ASSUME NEW b \in Bots, loaded'[t][b].row # 0
          PROVE  /\ loaded'[t][b].row \in OpenRows(b)
                 /\ loaded'[t][b].old.status = "OPEN"
                 /\ loaded'[t][b].old.evaluated = outcomes[b][loaded'[t][b].row].evaluated
      BY <2>1, <2>2, <2>4, LoadsOne
    <2> QED
      BY <2>1, <2>3, <2>4 DEF Fresh, OneSession
  <1>5. ASSUME NEW t \in Sessions, QuoteEvaluate(t)
        PROVE  Fresh'
    <2>1. PICK q : loaded' = [loaded EXCEPT ![t] = [b \in Bots |-> EvaluateLoaded(loaded[t][b], q)]]
      BY <1>5 DEF QuoteEvaluate
    <2>2. op' = op /\ op[t] = "quotes" /\ outcomes' = outcomes
      BY <1>5 DEF QuoteEvaluate, database
    <2>3. ASSUME NEW b \in Bots
          PROVE  loaded'[t][b].row = loaded[t][b].row /\ loaded'[t][b].old = loaded[t][b].old
      <3>1. loaded[t][b] \in Loaded /\ loaded'[t][b] = EvaluateLoaded(loaded[t][b], q)
        BY <1>1, <2>1
      <3> QED
        BY <3>1 DEF EvaluateLoaded, Loaded
    <2>4. \A b \in Bots : OpenRows(b)' = OpenRows(b)
      BY <2>2 DEF OpenRows
    <2> QED
      BY <2>2, <2>3, <2>4 DEF Fresh, OneSession
  <1>6. ASSUME NEW t \in Sessions, End(t)
        PROVE  Fresh'
    <2>1. op'[t] = "idle" /\ \A b \in Bots : loaded'[t][b].row = 0
      BY <1>1, <1>6 DEF End, NothingLoaded
    <2> QED
      BY <2>1 DEF Fresh, OneSession
  <1>7. ASSUME NEW t \in Sessions, op[t] \notin {"quotes", "archive"}, op'[t] # "archive",
               UNCHANGED loaded
        PROVE  Fresh'
    <2>1. \A b \in Bots : loaded'[t][b].row = 0
      BY <1>7 DEF Fresh
    <2> QED
      BY <1>7, <2>1 DEF Fresh, OneSession
  <1>8. ASSUME NEW t \in Sessions, ArchiveBegin(t)
        PROVE  Fresh'
    <2>1. PICK b \in Bots :
            /\ Start(t, "archive", [NoWork EXCEPT !.target = {b}, !.runs = ActiveRuns(b)])
            /\ loaded' = [loaded EXCEPT ![t][b] =
                 IF OpenRows(b) = {} THEN NothingLoaded
                 ELSE [LoadOne(b, OpenRows(b)) EXCEPT
                         !.new.status = "CANCELLED", !.new.reason = "BOT_ARCHIVED",
                         !.new.closed = now]]
      BY <1>8 DEF ArchiveBegin
    <2>2. /\ op[t] = "idle" /\ op'[t] = "archive" /\ outcomes' = outcomes
          /\ work'[t].target = {b}
      BY <1>1, <1>8, <2>1 DEF ArchiveBegin, Start, database, NoWork
    <2>3. \A c \in Bots : OpenRows(c)' = OpenRows(c)
      BY <2>2 DEF OpenRows
    <2>4. \A c \in Bots \ {b} : loaded'[t][c] = loaded[t][c] /\ loaded[t][c].row = 0
      BY <1>1, <2>1, <2>2 DEF Fresh
    <2>5. CASE OpenRows(b) = {}
      <3>1. loaded'[t][b].row = 0
        BY <1>1, <2>1, <2>5 DEF NothingLoaded
      <3> QED
        BY <2>2, <2>3, <2>4, <2>5, <3>1 DEF Fresh, OneSession
    <2>6. CASE OpenRows(b) # {}
      <3> DEFINE l == LoadOne(b, OpenRows(b))
      <3>1. /\ l \in Loaded /\ l.row \in OpenRows(b) /\ l.old = outcomes[b][l.row]
            /\ l.old.status = "OPEN"
        BY <2>6, LoadsOne
      <3>2. loaded'[t][b] = [l EXCEPT !.new.status = "CANCELLED", !.new.reason = "BOT_ARCHIVED",
                                      !.new.closed = now]
        BY <1>1, <2>1, <2>6
      <3> HIDE DEF l
      <3>3. /\ loaded'[t][b].row = l.row /\ loaded'[t][b].old = l.old
            /\ loaded'[t][b].new.status = "CANCELLED"
        <4> DEFINE new == [l.new EXCEPT !.status = "CANCELLED", !.reason = "BOT_ARCHIVED",
                                        !.closed = now]
        <4>1. l.new \in Outcome
          BY <3>1 DEF Loaded
        <4>2. new.status = "CANCELLED"
          BY <4>1 DEF Outcome
        <4>3. loaded'[t][b] = [l EXCEPT !.new = new]
          BY <3>1, <3>2, <4>1 DEF Loaded, Outcome
        <4> HIDE DEF new
        <4> QED
          BY <3>1, <4>2, <4>3 DEF Loaded
      <3>4. \A i \in OpenRows(b) : l.row = i
        BY <3>1 DEF Locks, OneOpenPerBot
      <3> QED
        BY <2>2, <2>3, <2>4, <3>1, <3>3, <3>4 DEF Fresh, OneSession
    <2> QED
      BY <2>5, <2>6
  <1>9. ASSUME NEW t \in Sessions,
               CandleBegin(t) \/ ActivateBegin(t) \/ EditBegin(t) \/ EditFlush(t) \/ Supersede(t)
        PROVE  op[t] \notin {"quotes", "archive"} /\ op'[t] # "archive" /\ UNCHANGED loaded
    BY <1>1, <1>9 DEF CandleBegin, ActivateBegin, EditBegin, EditFlush, Supersede, Start
  <1>10. ASSUME \/ TimePasses \/ PauseFeed \/ UNCHANGED vars
                \/ \E t \in Sessions : CandleSignal(t) \/ CandleOutcome(t)
         PROVE  UNCHANGED <<op, loaded, work, outcomes>>
    BY <1>10 DEF TimePasses, PauseFeed, vars, sessions, database, CandleSignal, CandleOutcome
  <1>11. \A t \in Sessions : QuoteCommit(t) \/ CandleCommit(t) \/ ActivateCommit(t)
                               \/ ArchiveCommit(t) \/ Rollback(t) => End(t)
    BY DEF QuoteCommit, CandleCommit, ActivateCommit, ArchiveCommit, Rollback
  <1> QED
    BY <1>2, <1>3, <1>4, <1>5, <1>6, <1>7, <1>8, <1>9, <1>10, <1>11 DEF Next

\* At first nothing is loaded.
LEMMA InitFresh ==
  ASSUME Init
  PROVE  Fresh
  BY DEF Init, Fresh, NothingLoaded

\* The state of a system whose transactions do not overlap.
Sound == Types /\ Locks /\ Fresh

LEMMA InitSound ==
  ASSUME Init
  PROVE  Sound
  BY InitTypes, InitLocks, InitFresh DEF Sound

LEMMA StepSound ==
  ASSUME OneSession, Sound, [Next]_vars
  PROVE  Sound'
  BY StepTypes, StepLocks, StepFresh DEF Sound

\* Finality: once a position is resolved nothing changes it any more, whatever
\* quotes, pauses and archiving follow.
THEOREM ResolvedForGood == OneSession => (Spec => ResolvedIsFinal)
  <1> SUFFICES ASSUME OneSession
               PROVE  Spec => ResolvedIsFinal
    OBVIOUS
  <1>1. Init => Sound
    BY InitSound
  <1>2. Sound /\ [Next]_vars => Sound'
    BY StepSound
  <1>3. Sound /\ [Next]_vars =>
          [\A b \in Bots : \A i \in DOMAIN outcomes[b] :
             outcomes[b][i].status \in {"SKIPPED", "CLOSED", "CANCELLED"}
               => outcomes'[b][i] = outcomes[b][i]]_vars
    <2> SUFFICES ASSUME Sound, [Next]_vars, NEW b \in Bots, NEW i \in DOMAIN outcomes[b],
                        outcomes[b][i].status \in {"SKIPPED", "CLOSED", "CANCELLED"}
                 PROVE  outcomes'[b][i] = outcomes[b][i]
      OBVIOUS
    <2>1. outcomes[b] \in Seq(Outcome) /\ i \notin OpenRows(b)
      BY DEF Sound, Types, TypeOK, DatabaseOK, OpenRows
    <2>2. CASE ResumeFeed
      <3>1. PICK seconds \in Nat : outcomes' = [c \in Bots |-> ResumedRows(outcomes[c], seconds)]
        BY <2>2, ResumedOutcomes DEF Sound
      <3> QED
        BY <3>1 DEF ResumedRows
    <2>3. ASSUME NEW t \in Sessions, QuoteCommit(t) \/ ArchiveCommit(t)
          PROVE  outcomes'[b][i] = outcomes[b][i]
      <3>1. outcomes' = WrittenBack(t)
        BY <2>3 DEF QuoteCommit, ArchiveCommit
      <3>2. i # loaded[t][b].row
        <4>1. i # 0
          BY <2>1
        <4> QED
          BY <2>1, <4>1 DEF Sound, Fresh
      <3> QED
        BY <3>1, <3>2 DEF WrittenBack
    <2>4. ASSUME NEW t \in Sessions, CandleCommit(t)
          PROVE  outcomes'[b][i] = outcomes[b][i]
      <3>1. outcomes' = [c \in Bots |-> outcomes[c] \o inserted[t][c]]
        BY <2>4 DEF CandleCommit
      <3>2. inserted[t][b] \in Seq(Outcome) /\ outcomes'[b] = outcomes[b] \o inserted[t][b]
        BY <3>1 DEF Sound, Types, TypeOK, SessionsOK
      <3>3. (outcomes[b] \o inserted[t][b])[i] = outcomes[b][i]
        BY <2>1, <3>2, ConcatKeeps
      <3> QED
        BY <3>2, <3>3
    <2>5. \/ outcomes' = outcomes \/ ResumeFeed
          \/ \E t \in Sessions : QuoteCommit(t) \/ ArchiveCommit(t) \/ CandleCommit(t)
      BY DEF Next, vars, database, TimePasses, PauseFeed, QuoteBegin, QuoteEvaluate,
             CandleBegin, CandleSignal, CandleOutcome, ActivateBegin,
             EditBegin, EditFlush, Supersede, ActivateCommit, ArchiveBegin, Rollback
    <2> QED
      BY <2>2, <2>3, <2>4, <2>5
  <1> QED
    BY <1>1, <1>2, <1>3, PTL DEF Spec, ResolvedIsFinal

-----------------------------------------------------------------------------
(* Archiving: an archived bot holds no open position.                      *)

\* No candle batch has rows of an archived bot in flight.
Archived ==
  /\ ArchivedHasNoOpen
  /\ \A t \in Sessions, b \in Bots : op[t] = "candles" /\ bot[b].archived =>
       DOMAIN inserted[t][b] = {} /\ \A row \in todo[t] : row[1] # b

\* Only archiving archives, and nothing takes it back.
LEMMA ArchivedKept ==
  ASSUME Types, [Next]_vars, NEW b \in Bots
  PROVE  \/ bot'[b].archived = bot[b].archived
         \/ \E t \in Sessions : ArchiveCommit(t) /\ b \in work[t].target
  <1>1. bot \in [Bots -> BotRow]
    BY DEF Types, TypeOK, DatabaseOK
  <1>2. ASSUME NEW t \in Sessions, ActivateCommit(t)
        PROVE  bot'[b].archived = bot[b].archived
    <2>1. PICK c \in work[t].target :
            bot' = [bot EXCEPT ![c].state = Column(@, work[t].bot.state, "MONITORING"),
                               ![c].config = Column(@, work[t].bot.config, work[t].version)]
      BY <1>2 DEF ActivateCommit
    <2> QED
      BY <1>1, <2>1 DEF BotRow
  <1>3. ASSUME NEW t \in Sessions, ArchiveCommit(t), b \notin work[t].target
        PROVE  bot'[b] = bot[b]
    <2>1. PICK c \in work[t].target :
            bot' = [bot EXCEPT ![c].archived = TRUE, ![c].state = "STOPPED"]
      BY <1>3 DEF ArchiveCommit
    <2> QED
      BY <1>1, <1>3, <2>1
  <1>4. bot' = bot \/ \E t \in Sessions : ActivateCommit(t) \/ ArchiveCommit(t)
    BY DEF Next, vars, database, TimePasses, PauseFeed, ResumeFeed, QuoteBegin, QuoteEvaluate,
           QuoteCommit, CandleBegin, CandleSignal, CandleOutcome, CandleCommit, ActivateBegin,
           EditBegin, EditFlush, Supersede, ArchiveBegin, Rollback
  <1> QED
    BY <1>2, <1>3, <1>4

\* Archiving cancels the open position of its bot.
LEMMA ArchiveCancels ==
  ASSUME Sound, NEW t \in Sessions, ArchiveCommit(t), NEW b \in work[t].target
  PROVE  OpenRows(b)' = {}
  <1>1. outcomes' = WrittenBack(t) /\ op[t] = "archive" /\ b \in Bots
    BY DEF ArchiveCommit, Sound, Types, TypeOK, SessionsOK, Work
  <1>2. SUFFICES ASSUME NEW i \in DOMAIN outcomes'[b], outcomes'[b][i].status = "OPEN"
                 PROVE  FALSE
    BY DEF OpenRows
  <1>3. /\ i \in DOMAIN outcomes[b] /\ outcomes[b][i] \in Outcome
        /\ outcomes[b][i].status = "OPEN"
    <2>1. i \in DOMAIN outcomes[b]
      BY <1>1 DEF WrittenBack
    <2>2. outcomes'[b][i].status \in {outcomes[b][i].status, "CLOSED", "CANCELLED"}
      BY <1>1, <2>1, WrittenBackRows DEF Sound, Types
    <2> QED
      BY <1>1, <1>2, <2>1, <2>2 DEF Sound, Types, TypeOK, DatabaseOK
  <1>4. /\ loaded[t][b].row = i /\ loaded[t][b].old.status = "OPEN"
        /\ loaded[t][b].new.status = "CANCELLED"
    <2>1. loaded[t][b].row = i /\ i # 0
      BY <1>1, <1>3 DEF Sound, Fresh, OpenRows, Types, TypeOK, DatabaseOK
    <2> QED
      BY <1>1, <2>1 DEF Sound, Fresh
  <1>5. outcomes'[b][i] = Flush(outcomes[b][i], loaded[t][b].old, loaded[t][b].new)
    BY <1>1, <1>3, <1>4 DEF WrittenBack
  <1>6. Column(outcomes[b][i].status, loaded[t][b].old.status, loaded[t][b].new.status)
          = "CANCELLED"
    BY <1>4 DEF Column
  <1>7. Flush(outcomes[b][i], loaded[t][b].old, loaded[t][b].new).status
          = Column(outcomes[b][i].status, loaded[t][b].old.status, loaded[t][b].new.status)
    BY <1>3, FlushColumns
  <1> QED
    BY <1>2, <1>5, <1>6, <1>7

\* Every step of one session leaves archived bots without open positions.
LEMMA StepArchived ==
  ASSUME OneSession, Sound, Archived, [Next]_vars
  PROVE  Archived'
  <1>1. ASSUME NEW t \in Sessions, ArchiveCommit(t)
        PROVE  Archived'
    <2>1. End(t) /\ \A u \in Sessions : ~CandleCommit(u)
      BY <1>1 DEF ArchiveCommit, CandleCommit, OneSession
    <2>2. NothingOpened
      BY <2>1, StepOpens DEF Sound
    <2>3. ASSUME NEW b \in Bots, bot'[b].archived
          PROVE  OpenRows(b)' = {}
      <3>1. CASE b \in work[t].target
        BY <1>1, <3>1, ArchiveCancels
      <3>2. CASE b \notin work[t].target
        <4>1. bot[b].archived
          BY <2>3, <3>2, ArchivedKept DEF Sound, OneSession
        <4> QED
          BY <2>2, <4>1 DEF Archived, ArchivedHasNoOpen, NothingOpened, OpenRows
      <3> QED
        BY <3>1, <3>2
    <2>4. op'[t] = "idle"
      BY <2>1 DEF End, Sound, Types, TypeOK, SessionsOK
    <2> QED
      BY <2>3, <2>4 DEF Archived, ArchivedHasNoOpen, OneSession
  <1>2. ASSUME NEW t \in Sessions, CandleCommit(t)
        PROVE  Archived'
    <2>1. /\ End(t) /\ bot' = bot /\ op[t] = "candles"
          /\ outcomes' = [b \in Bots |-> outcomes[b] \o inserted[t][b]]
      BY <1>2 DEF CandleCommit
    <2>2. ASSUME NEW b \in Bots, bot[b].archived
          PROVE  OpenRows(b)' = {}
      <3>1. /\ outcomes[b] \in Seq(Outcome) /\ inserted[t][b] \in Seq(Outcome)
            /\ outcomes'[b] = outcomes[b] \o inserted[t][b]
        BY <2>1 DEF Sound, Types, TypeOK, DatabaseOK, SessionsOK
      <3>2. DOMAIN inserted[t][b] = {} /\ OpenRows(b) = {}
        BY <2>1, <2>2 DEF Archived, ArchivedHasNoOpen
      <3>3. ASSUME NEW i \in DOMAIN (outcomes[b] \o inserted[t][b])
            PROVE  i \in DOMAIN outcomes[b]
                     /\ (outcomes[b] \o inserted[t][b])[i] = outcomes[b][i]
        <4>1. ~ (i - Len(outcomes[b]) \in DOMAIN inserted[t][b])
          BY <3>2
        <4>2. \/ /\ i \in DOMAIN outcomes[b]
                 /\ (outcomes[b] \o inserted[t][b])[i] = outcomes[b][i]
              \/ i - Len(outcomes[b]) \in DOMAIN inserted[t][b]
          BY <3>1, ConcatRows
        <4> QED
          BY <4>1, <4>2
      <3> QED
        BY <3>1, <3>2, <3>3 DEF OpenRows
    <2>3. op'[t] = "idle"
      BY <2>1 DEF End, Sound, Types, TypeOK, SessionsOK
    <2> QED
      BY <2>1, <2>2, <2>3 DEF Archived, ArchivedHasNoOpen, OneSession
  <1>3. CASE \A t \in Sessions : ~ArchiveCommit(t) /\ ~CandleCommit(t)
    <2>1. NothingOpened
      BY <1>3, StepOpens DEF Sound
    <2>2. \A b \in Bots : bot'[b].archived = bot[b].archived
      BY <1>3, ArchivedKept DEF Sound
    <2>3. ArchivedHasNoOpen'
      BY <2>1, <2>2 DEF Archived, ArchivedHasNoOpen, NothingOpened, OpenRows
    <2>4. ASSUME NEW t \in Sessions, NEW b \in Bots, op'[t] = "candles", bot[b].archived
          PROVE  DOMAIN inserted'[t][b] = {} /\ \A row \in todo'[t] : row[1] # b
      <3>1. /\ op \in [Sessions -> Ops]
            /\ todo \in [Sessions -> SUBSET (Bots \X Nat \X Versions)]
            /\ inserted \in [Sessions -> [Bots -> Seq(Outcome)]]
        BY DEF Sound, Types, TypeOK, SessionsOK
      <3>2. CASE CandleBegin(t)
        <4>1. PICK latest : todo' = [todo EXCEPT ![t] = ToEvaluate(latest)]
          BY <3>2 DEF CandleBegin
        <4>2. op[t] = "idle" /\ inserted' = inserted
          BY <3>2 DEF CandleBegin, Start
        <4>3. \A row \in ToEvaluate(latest) : Monitored(row[1])
          BY DEF ToEvaluate
        <4>4. inserted[t][b] = <<>>
          BY <4>2 DEF Sound, Locks, IdleIsClean
        <4> QED
          BY <2>4, <3>1, <4>1, <4>2, <4>3, <4>4 DEF Monitored
      <3>3. CASE CandleSignal(t)
        <4>1. op[t] = "candles" /\ \A row \in todo[t] : row[1] # b
          BY <2>4, <3>3 DEF CandleSignal, Archived
        <4>2. PICK row, new :
                /\ row \in todo[t]
                /\ todo' = [todo EXCEPT ![t] = @ \ {row}]
                /\ inserted' = [inserted EXCEPT ![t][row[1]] = new]
          BY <3>3 DEF CandleSignal
        <4>3. inserted'[t][b] = inserted[t][b] /\ todo'[t] \subseteq todo[t]
          BY <3>1, <4>1, <4>2
        <4> QED
          BY <2>4, <4>1, <4>3 DEF Archived
      <3>4. CASE CandleOutcome(t)
        <4>1. op[t] = "candles" /\ todo' = todo
          BY <3>4 DEF CandleOutcome
        <4>2. PICK c, new : /\ c \in Bots /\ AwaitsOutcome(t, c)
                            /\ inserted' = [inserted EXCEPT ![t][c] = new]
          BY <3>4, Zenon DEF CandleOutcome
        <4>3. DOMAIN inserted[t][b] = {}
          BY <2>4, <4>1 DEF Archived
        <4>4. c # b
          BY <3>1, <4>2, <4>3 DEF AwaitsOutcome
        <4> QED
          BY <2>4, <3>1, <4>1, <4>2, <4>3, <4>4 DEF Archived
      <3>5. ASSUME op[t] = "candles", inserted' = inserted, todo' = todo
            PROVE  DOMAIN inserted'[t][b] = {} /\ \A row \in todo'[t] : row[1] # b
        BY <2>4, <3>5 DEF Archived
      <3>6. ASSUME \/ TimePasses \/ PauseFeed \/ ResumeFeed \/ UNCHANGED vars
                   \/ QuoteEvaluate(t)
            PROVE  op[t] = "candles" /\ inserted' = inserted /\ todo' = todo
        BY <2>4, <3>6 DEF TimePasses, PauseFeed, ResumeFeed, QuoteEvaluate, vars, sessions
      <3>7. ~QuoteBegin(t) /\ ~ActivateBegin(t) /\ ~EditBegin(t) /\ ~EditFlush(t)
              /\ ~Supersede(t) /\ ~ArchiveBegin(t)
        BY <2>4, <3>1 DEF QuoteBegin, ActivateBegin, EditBegin, EditFlush, Supersede,
                          ArchiveBegin, Start
      <3>8. ~QuoteCommit(t) /\ ~ActivateCommit(t) /\ ~Rollback(t)
        BY <2>4, <3>1 DEF QuoteCommit, ActivateCommit, Rollback, End
      <3>9. \A u \in Sessions : u = t
        BY DEF OneSession
      <3> QED
        BY <1>3, <3>2, <3>3, <3>4, <3>5, <3>6, <3>7, <3>8, <3>9 DEF Next
    <2> QED
      BY <2>2, <2>3, <2>4 DEF Archived
  <1> QED
    BY <1>1, <1>2, <1>3

-----------------------------------------------------------------------------
(* Activation: version, run and bot agree.                                 *)

\* What an activation has read of its bot is still so.
Activations ==
  /\ ActiveVersionRuns
  /\ OneActiveVersion
  /\ \A t \in Sessions : \A b \in work[t].target :
       /\ work[t].target = {b}
       /\ op[t] \in {"edit", "activate", "supersede"} => work[t].bot = bot[b]
       /\ op[t] \in {"activate", "supersede"} =>
            /\ work[t].previous \in Previous(b, work[t].version)
            /\ work[t].status = config[b][work[t].version]
       /\ op[t] = "supersede" => work[t].runs = ActiveRuns(b)

\* Superseding the active runs and adding one leaves that one alone active.
LEMMA NewestRunsAlone ==
  ASSUME NEW rows \in Seq(Run), NEW old, NEW run \in Run, run.status = "ACTIVE",
         \A r \in DOMAIN rows : rows[r].status = "ACTIVE" => r \in old
  PROVE  LET new == Append(Superseded(rows, old), run)
         IN  \E r \in DOMAIN new :
               /\ new[r] = run
               /\ \A x \in DOMAIN new : new[x].status = "ACTIVE" <=> x = r
  <1> DEFINE n == Len(rows) + 1
             earlier == Superseded(rows, old)
             new == Append(earlier, run)
  <1>1. /\ earlier \in Seq(Run) /\ Len(earlier) = Len(rows)
        /\ Len(rows) \in Nat /\ DOMAIN rows = 1 .. Len(rows)
        /\ rows \in [1 .. Len(rows) -> Run]
    BY SupersededRuns, LenProperties
  <1>2. ASSUME NEW r \in DOMAIN rows
        PROVE  earlier[r].status # "ACTIVE"
    <2>1. rows[r] \in Run
      BY <1>1
    <2>2. CASE r \in old
      <3>1. earlier[r] = [rows[r] EXCEPT !.status = "SUPERSEDED"]
        BY <2>2 DEF Superseded
      <3> QED
        BY <2>1, <3>1 DEF Run
    <2>3. CASE r \notin old
      <3>1. earlier[r] = rows[r]
        BY <2>3 DEF Superseded
      <3> QED
        BY <2>3, <3>1
    <2> QED
      BY <2>2, <2>3
  <1> HIDE DEF earlier
  <1>3. /\ DOMAIN new = 1 .. n /\ new[n] = run /\ n \in DOMAIN new
        /\ \A r \in 1 .. Len(rows) : new[r] = earlier[r]
    BY <1>1
  <1>4. \A r \in 1 .. n : r = n \/ r \in 1 .. Len(rows)
    BY <1>1
  <1> HIDE DEF new, n
  <1>5. \A x \in DOMAIN new : new[x].status = "ACTIVE" <=> x = n
    BY <1>1, <1>2, <1>3, <1>4
  <1>6. \E r \in DOMAIN new : /\ new[r] = run
                              /\ \A x \in DOMAIN new : new[x].status = "ACTIVE" <=> x = r
    BY <1>3, <1>5
  <1> QED
    BY <1>6 DEF new, earlier

\* The commit of an activation by one session leaves the new version and the new
\* run alone active, and the bot points at them.
LEMMA ActivationCommits ==
  ASSUME OneSession, Sound, Activations, NEW t \in Sessions, ActivateCommit(t)
  PROVE  Activations'
  <1> DEFINE w == work[t]
  <1>1. PICK b \in w.target :
          /\ bot' = [bot EXCEPT ![b].state = Column(@, w.bot.state, "MONITORING"),
                                ![b].config = Column(@, w.bot.config, w.version)]
          /\ config' = [config EXCEPT ![b] = [v \in Versions |->
               IF v = w.previous THEN "SUPERSEDED"
               ELSE IF v = w.version THEN Column(@[v], w.status, "ACTIVE")
               ELSE @[v]]]
          /\ runs' = [runs EXCEPT ![b] =
               Append(Superseded(@, w.runs), [config |-> w.version, status |-> "ACTIVE"])]
    BY DEF ActivateCommit
  <1>2. /\ w \in Work /\ w.version \in Versions /\ b \in Bots
        /\ w.bot = bot[b] /\ w.previous \in Previous(b, w.version)
        /\ w.status = config[b][w.version] /\ w.runs = ActiveRuns(b)
    BY DEF Activations, Sound, Types, TypeOK, SessionsOK, TransactionReads, ReadsOK,
           ActivateCommit, Work
  <1>3. /\ bot \in [Bots -> BotRow] /\ config \in [Bots -> [Versions -> ConfigStatuses]]
        /\ runs \in [Bots -> Seq(Run)]
    BY DEF Sound, Types, TypeOK, DatabaseOK
  <1>4. w.previous # w.version /\ 0 \notin Versions
    BY <1>2, ConstantsAssumption DEF Previous, ConstantsAssumption
  <1> HIDE DEF w
  <1>5. bot'[b].config = w.version
    <2>1. bot[b] \in BotRow
      BY <1>2, <1>3
    <2>2. Column(bot[b].config, w.bot.config, w.version) = w.version
      BY <1>2 DEF Column
    <2> QED
      BY <1>1, <1>2, <1>3, <2>1, <2>2 DEF BotRow
  <1>6. \A v \in Versions : config'[b][v] =
          IF v = w.previous THEN "SUPERSEDED"
          ELSE IF v = w.version THEN Column(config[b][v], w.status, "ACTIVE")
          ELSE config[b][v]
    BY <1>1, <1>2, <1>3
  <1>7. config'[b][w.version] = "ACTIVE"
    <2>1. Column(config[b][w.version], w.status, "ACTIVE") = "ACTIVE"
      BY <1>2 DEF Column
    <2> QED
      BY <1>2, <1>4, <1>6, <2>1
  <1>8. ASSUME NEW v \in Versions, config'[b][v] = "ACTIVE"
        PROVE  v = w.version
    <2>1. SUFFICES ASSUME v # w.version
                   PROVE  FALSE
      OBVIOUS
    <2>2. v # w.previous /\ config[b][v] = "ACTIVE"
      BY <1>6, <1>8, <2>1
    <2>3. w.previous \in Versions /\ config[b][w.previous] = "ACTIVE"
      BY <1>2, <2>1, <2>2 DEF Previous
    <2> QED
      BY <1>2, <2>2, <2>3 DEF Activations, OneActiveVersion
  <1>9. \E r \in DOMAIN runs'[b] :
          ActiveRuns(b)' = {r} /\ runs'[b][r].config = w.version
    <2> DEFINE run == [config |-> w.version, status |-> "ACTIVE"]
    <2>1. run \in Run /\ run.status = "ACTIVE" /\ run.config = w.version
      BY <1>2 DEF Run
    <2>2. runs'[b] = Append(Superseded(runs[b], w.runs), run)
      BY <1>1, <1>2, <1>3
    <2>3. \A r \in DOMAIN runs[b] : runs[b][r].status = "ACTIVE" => r \in w.runs
      BY <1>2 DEF ActiveRuns
    <2> HIDE DEF run
    <2>4. runs[b] \in Seq(Run)
      BY <1>2, <1>3
    <2>5. \E r \in DOMAIN runs'[b] :
            /\ runs'[b][r] = run
            /\ \A x \in DOMAIN runs'[b] : runs'[b][x].status = "ACTIVE" <=> x = r
      BY <2>1, <2>2, <2>3, <2>4, NewestRunsAlone
    <2> QED
      BY <2>1, <2>5 DEF ActiveRuns
  <1>10. \A c \in Bots \ {b} : bot'[c] = bot[c] /\ config'[c] = config[c] /\ runs'[c] = runs[c]
    BY <1>1, <1>3
  <1>11. ActiveVersionRuns'
    <2> SUFFICES ASSUME NEW c \in Bots, Monitored(c)'
                 PROVE  /\ config'[c][bot'[c].config] = "ACTIVE"
                        /\ \E r \in DOMAIN runs'[c] :
                             ActiveRuns(c)' = {r} /\ runs'[c][r].config = bot'[c].config
      BY DEF ActiveVersionRuns
    <2>1. CASE c = b
      BY <1>5, <1>7, <1>9, <2>1
    <2>2. CASE c # b
      <3>1. Monitored(c) /\ ActiveRuns(c)' = ActiveRuns(c)
        BY <1>10, <2>2 DEF Monitored, ActiveRuns
      <3> QED
        BY <1>10, <2>2, <3>1 DEF Activations, ActiveVersionRuns
    <2> QED
      BY <2>1, <2>2
  <1>12. OneActiveVersion'
    BY <1>8, <1>10 DEF Activations, OneActiveVersion
  <1>13. op'[t] = "idle" /\ work'[t].target = {}
    BY DEF ActivateCommit, End, NoWork, Sound, Types, TypeOK, SessionsOK
  <1> QED
    BY <1>11, <1>12, <1>13 DEF Activations, OneSession

\* Where bots, versions and runs stay as they are, so does what was read of
\* them; a session that starts or ends reads anew.
LEMMA ReadsStay ==
  ASSUME OneSession, Sound, Activations, UNCHANGED <<bot, config, runs>>,
         NEW t \in Sessions,
         \A b \in work'[t].target :
           /\ work'[t].target = {b}
           /\ op'[t] \in {"edit", "activate", "supersede"} => work'[t].bot = bot[b]
           /\ op'[t] \in {"activate", "supersede"} =>
                /\ work'[t].previous \in Previous(b, work'[t].version)
                /\ work'[t].status = config[b][work'[t].version]
           /\ op'[t] = "supersede" => work'[t].runs = ActiveRuns(b)
  PROVE  Activations'
  <1>1. ActiveVersionRuns' /\ OneActiveVersion'
    BY DEF Activations, ActiveVersionRuns, OneActiveVersion, Monitored, ActiveRuns
  <1>2. \A b, v : Previous(b, v)' = Previous(b, v)
    BY DEF Previous
  <1>3. \A b : ActiveRuns(b)' = ActiveRuns(b)
    BY DEF ActiveRuns
  <1> QED
    BY <1>1, <1>2, <1>3 DEF Activations, OneSession

\* Every step of one session keeps version, run and bot in agreement.
LEMMA StepActivations ==
  ASSUME OneSession, Sound, Activations, [Next]_vars
  PROVE  Activations'
  <1>1. op \in [Sessions -> Ops] /\ work \in [Sessions -> Work]
    BY DEF Sound, Types, TypeOK, SessionsOK
  <1>2. CASE UNCHANGED <<bot, config, runs, op, work>>
    <2>1. ActiveVersionRuns' /\ OneActiveVersion'
      BY <1>2 DEF Activations, ActiveVersionRuns, OneActiveVersion, Monitored, ActiveRuns
    <2>2. \A b, v : Previous(b, v)' = Previous(b, v)
      BY <1>2 DEF Previous
    <2>3. \A b : ActiveRuns(b)' = ActiveRuns(b)
      BY <1>2 DEF ActiveRuns
    <2> QED
      BY <1>2, <2>1, <2>2, <2>3 DEF Activations
  <1>3. ASSUME NEW t \in Sessions, UNCHANGED <<bot, config, runs>>,
               op'[t] \notin {"edit", "activate", "supersede"},
               \A b \in work'[t].target : work'[t].target = {b}
        PROVE  Activations'
    BY <1>3, ReadsStay
  <1>4. ASSUME NEW t \in Sessions, ActivateBegin(t)
        PROVE  Activations'
    <2>1. PICK b \in Bots, v \in Versions, previous \in Versions \cup {0} :
            /\ config[b][v] = "VALIDATED" /\ previous \in Previous(b, v)
            /\ Start(t, "activate", [BotLoaded(b, v) EXCEPT !.status = "VALIDATED",
                                                           !.previous = previous])
      BY <1>4 DEF ActivateBegin, Previous
    <2>2. /\ work'[t].target = {b} /\ work'[t].bot = bot[b] /\ work'[t].version = v
          /\ work'[t].previous = previous /\ work'[t].status = "VALIDATED"
          /\ op'[t] = "activate"
      BY <1>1, <2>1 DEF Start, BotLoaded, NoWork
    <2>3. UNCHANGED <<bot, config, runs>>
      BY <1>4 DEF ActivateBegin, database
    <2> QED
      BY <2>1, <2>2, <2>3, ReadsStay
  <1>5. ASSUME NEW t \in Sessions, EditBegin(t)
        PROVE  Activations'
    <2>1. PICK b \in Bots, v \in Versions : Start(t, "edit", BotLoaded(b, v))
      BY <1>5 DEF EditBegin
    <2>2. work'[t].target = {b} /\ work'[t].bot = bot[b] /\ op'[t] = "edit"
      BY <1>1, <2>1 DEF Start, BotLoaded, NoWork
    <2>3. UNCHANGED <<bot, config, runs>>
      BY <1>5 DEF EditBegin, database
    <2> QED
      BY <2>2, <2>3, ReadsStay
  <1>6. ASSUME NEW t \in Sessions, EditFlush(t)
        PROVE  Activations'
    <2>1. PICK b, previous :
            /\ b \in work[t].target
            /\ previous \in Previous(b, work[t].version)
            /\ work' = [work EXCEPT ![t].status = config[b][work[t].version],
                                    ![t].previous = previous]
      BY <1>6 DEF EditFlush
    <2>2. /\ work'[t].target = work[t].target /\ work'[t].bot = work[t].bot
          /\ work'[t].version = work[t].version /\ work'[t].previous = previous
          /\ work'[t].status = config[b][work[t].version]
      BY <1>1, <2>1 DEF Work
    <2>3. /\ op[t] = "edit" /\ op'[t] = "activate" /\ UNCHANGED <<bot, config, runs>>
      BY <1>1, <1>6 DEF EditFlush, database
    <2>4. work[t].target = {b}
      BY <2>1 DEF Activations
    <2>5. work[t].bot = bot[b]
      BY <2>1, <2>3 DEF Activations
    <2>6. UNCHANGED <<bot, config, runs>>
      BY <2>3
    <2>7. ASSUME NEW c \in work'[t].target
          PROVE  /\ work'[t].target = {c}
                 /\ work'[t].bot = bot[c]
                 /\ work'[t].previous \in Previous(c, work'[t].version)
                 /\ work'[t].status = config[c][work'[t].version]
      <3>1. c = b
        BY <2>2, <2>4
      <3> QED
        BY <2>1, <2>2, <2>4, <2>5, <3>1
    <2>8. op'[t] # "supersede"
      BY <2>3
    <2> QED
      BY <2>6, <2>7, <2>8, ReadsStay
  <1>7. ASSUME NEW t \in Sessions, Supersede(t)
        PROVE  Activations'
    <2>1. PICK b \in work[t].target : work' = [work EXCEPT ![t].runs = ActiveRuns(b)]
      BY <1>7 DEF Supersede
    <2>2. /\ work'[t].target = work[t].target /\ work'[t].bot = work[t].bot
          /\ work'[t].version = work[t].version /\ work'[t].previous = work[t].previous
          /\ work'[t].status = work[t].status /\ work'[t].runs = ActiveRuns(b)
      BY <1>1, <2>1 DEF Work
    <2>3. /\ op[t] = "activate" /\ op'[t] = "supersede" /\ UNCHANGED <<bot, config, runs>>
      BY <1>1, <1>7 DEF Supersede, database
    <2>4. work[t].target = {b}
      BY DEF Activations
    <2> QED
      BY <2>1, <2>2, <2>3, <2>4, ReadsStay DEF Activations
  <1>8. ASSUME NEW t \in Sessions, ArchiveCommit(t)
        PROVE  Activations'
    <2>1. PICK b \in work[t].target :
            /\ bot' = [bot EXCEPT ![b].archived = TRUE, ![b].state = "STOPPED"]
            /\ runs' = [runs EXCEPT ![b] = Superseded(@, work[t].runs)]
      BY <1>8 DEF ArchiveCommit
    <2>2. b \in Bots /\ config' = config /\ End(t)
      BY <1>1, <1>8 DEF ArchiveCommit, Work
    <2>3. /\ bot \in [Bots -> BotRow] /\ runs \in [Bots -> Seq(Run)]
      BY DEF Sound, Types, TypeOK, DatabaseOK
    <2>4. /\ bot'[b].archived
          /\ \A c \in Bots \ {b} : bot'[c] = bot[c] /\ runs'[c] = runs[c]
      BY <2>1, <2>2, <2>3 DEF BotRow
    <2>5. ActiveVersionRuns'
      BY <2>2, <2>4 DEF Activations, ActiveVersionRuns, Monitored, ActiveRuns
    <2>6. OneActiveVersion'
      BY <2>2 DEF Activations, OneActiveVersion
    <2>7. op'[t] = "idle" /\ work'[t].target = {}
      BY <1>1, <2>2 DEF End, NoWork
    <2> QED
      BY <2>5, <2>6, <2>7 DEF Activations, OneSession
  <1>9. ASSUME NEW t \in Sessions,
               QuoteCommit(t) \/ CandleCommit(t) \/ Rollback(t)
        PROVE  Activations'
    <2>1. End(t) /\ UNCHANGED <<bot, config, runs>>
      BY <1>9 DEF QuoteCommit, CandleCommit, Rollback, database
    <2>2. op'[t] = "idle" /\ work'[t].target = {}
      BY <1>1, <2>1 DEF End, NoWork
    <2> QED
      BY <1>3, <2>1, <2>2
  <1>10. ASSUME NEW t \in Sessions, QuoteBegin(t) \/ CandleBegin(t)
         PROVE  Activations'
    <2>1. UNCHANGED <<bot, config, runs>> /\ op'[t] \in {"quotes", "candles"}
      BY <1>1, <1>10 DEF QuoteBegin, CandleBegin, Start, database
    <2>2. ASSUME QuoteBegin(t)
          PROVE  work'[t].target = {}
      BY <1>1, <2>2 DEF QuoteBegin, Start, NoWork
    <2>3. ASSUME CandleBegin(t)
          PROVE  work'[t].target = {}
      <3>1. PICK batch, latest :
              Start(t, "candles", [NoWork EXCEPT !.candles = batch, !.latest = latest,
                                                 !.tick = tick])
        BY <2>3 DEF CandleBegin
      <3> QED
        BY <1>1, <3>1 DEF Start, NoWork
    <2> QED
      BY <1>3, <1>10, <2>1, <2>2, <2>3
  <1>11. ASSUME NEW t \in Sessions, ArchiveBegin(t)
         PROVE  Activations'
    <2>1. PICK b \in Bots :
            Start(t, "archive", [NoWork EXCEPT !.target = {b}, !.runs = ActiveRuns(b)])
      BY <1>11 DEF ArchiveBegin
    <2>2. work'[t].target = {b} /\ op'[t] = "archive"
      BY <1>1, <2>1 DEF Start, NoWork
    <2>3. UNCHANGED <<bot, config, runs>>
      BY <1>11 DEF ArchiveBegin, database
    <2> QED
      BY <1>3, <2>2, <2>3
  <1>12. ASSUME NEW t \in Sessions, QuoteEvaluate(t)
         PROVE  Activations'
    <2>1. PICK q : work' = [work EXCEPT ![t].quotes = @ + 1, ![t].tick = q]
      BY <1>12 DEF QuoteEvaluate
    <2>2. work'[t].target = work[t].target
      BY <1>1, <2>1 DEF Work
    <2>3. op'[t] = "quotes" /\ UNCHANGED <<bot, config, runs>>
      BY <1>12 DEF QuoteEvaluate, database
    <2> QED
      BY <1>3, <2>2, <2>3 DEF Activations
  <1>13. ASSUME \/ TimePasses \/ PauseFeed \/ ResumeFeed \/ UNCHANGED vars
                \/ \E t \in Sessions : CandleSignal(t) \/ CandleOutcome(t)
         PROVE  UNCHANGED <<bot, config, runs, op, work>>
    BY <1>13 DEF TimePasses, PauseFeed, ResumeFeed, vars, sessions, database, CandleSignal,
                 CandleOutcome
  <1> QED
    BY <1>2, <1>4, <1>5, <1>6, <1>7, <1>8, <1>9, <1>10, <1>11, <1>12, <1>13, ActivationCommits
       DEF Next

\* At first a bot that monitors has one version and one run, both active.
LEMMA InitActivations ==
  ASSUME Init
  PROVE  Archived /\ Activations
  <1>1. PICK new \in SUBSET Unconfigured :
          /\ bot = [b \in Bots |->
               [state |-> IF b \in new THEN "STOPPED" ELSE "MONITORING", archived |-> FALSE,
                config |-> IF b \in new THEN 0 ELSE 1]]
          /\ config = [b \in Bots |-> [v \in Versions |->
               IF v = 1 /\ b \notin new THEN "ACTIVE"
               ELSE IF v \in NewVersions THEN "ABSENT" ELSE "VALIDATED"]]
          /\ runs = [b \in Bots |->
               IF b \in new THEN <<>> ELSE <<[config |-> 1, status |-> "ACTIVE"]>>]
    BY Zenon DEF Init
  <1>2. ActiveVersionRuns
    <2> SUFFICES ASSUME NEW b \in Bots, Monitored(b)
                 PROVE  /\ config[b][bot[b].config] = "ACTIVE"
                        /\ \E r \in DOMAIN runs[b] :
                             ActiveRuns(b) = {r} /\ runs[b][r].config = bot[b].config
      BY DEF ActiveVersionRuns
    <2>1. b \notin new /\ bot[b].config = 1
      BY <1>1 DEF Monitored
    <2>2. config[b][1] = "ACTIVE"
      BY <1>1, <2>1, ConstantTypes
    <2>3. runs[b] = <<[config |-> 1, status |-> "ACTIVE"]>>
      BY <1>1, <2>1
    <2>4. DOMAIN runs[b] = {1} /\ runs[b][1] = [config |-> 1, status |-> "ACTIVE"]
      BY <2>3
    <2>5. ActiveRuns(b) = {1}
      BY <2>4 DEF ActiveRuns
    <2> QED
      BY <2>1, <2>2, <2>4, <2>5
  <1>3. OneActiveVersion
    BY <1>1 DEF OneActiveVersion
  <1>4. Archived
    BY <1>1 DEF Init, Archived, ArchivedHasNoOpen
  <1>5. \A t \in Sessions : op[t] = "idle" /\ work[t].target = {}
    BY DEF Init, NoWork
  <1> QED
    BY <1>2, <1>3, <1>4, <1>5 DEF Activations

\* Lifecycle: whatever order bots are edited, activated and archived in, for
\* any number of bots and versions, a bot that monitors has one active version
\* and one active run, of that version, and an archived bot holds no position.
THEOREM LifecycleSound == OneSession => (Spec => []LifecycleIsConsistent)
  <1> SUFFICES ASSUME OneSession
               PROVE  Spec => []LifecycleIsConsistent
    OBVIOUS
  <1>1. Init => Sound /\ Archived /\ Activations
    BY InitSound, InitActivations
  <1>2. Sound /\ Archived /\ Activations /\ [Next]_vars => Sound' /\ Archived' /\ Activations'
    BY StepSound, StepArchived, StepActivations
  <1>3. Archived /\ Activations => LifecycleIsConsistent
    BY DEF Archived, Activations, LifecycleIsConsistent
  <1> QED
    BY <1>1, <1>2, <1>3, PTL DEF Spec

-----------------------------------------------------------------------------
(* Signals: a candle raises one signal at most in a run of a bot.          *)

HasSignal(rows, r, latest) ==
  \E i \in DOMAIN rows : rows[i].run = r /\ rows[i].observed = latest

\* The rows of a batch are of different runs, none of which has a signal at the
\* newest candle, committed or inserted.
Distinct ==
  /\ SignalOncePerCandle
  /\ \A t \in Sessions :
       /\ op[t] # "candles" => todo[t] = {}
       /\ \A row, other \in todo[t] : row[1] = other[1] /\ row[2] = other[2] => row = other
       /\ \A row \in todo[t] : ~HasSignal(outcomes[row[1]], row[2], work[t].latest)
       /\ \A row \in todo[t], b \in Bots : \A i \in DOMAIN inserted[t][b] :
            row[1] = b => inserted[t][b][i].run # row[2]
       /\ \A b \in Bots : \A i \in DOMAIN inserted[t][b] :
            /\ inserted[t][b][i].observed = work[t].latest
            /\ ~HasSignal(outcomes[b], inserted[t][b][i].run, work[t].latest)
            /\ \A j \in DOMAIN inserted[t][b] :
                 inserted[t][b][j].run = inserted[t][b][i].run => i = j

\* A step that keeps the committed signals.
KeptRows ==
  \A b \in Bots :
    /\ DOMAIN outcomes'[b] = DOMAIN outcomes[b]
    /\ \A i \in DOMAIN outcomes[b] : SameSignal(outcomes'[b][i], outcomes[b][i])

\* Every step but the commit of a candle batch does.
LEMMA StepKeepsRows ==
  ASSUME Types, [Next]_vars, \A t \in Sessions : ~CandleCommit(t)
  PROVE  KeptRows
  BY StepOpens, KeptSignals DEF KeptRows, NothingOpened

\* Such a step neither makes nor removes a duplicate.
LEMMA KeptDuplicates ==
  ASSUME KeptRows
  PROVE  /\ SignalOncePerCandle => SignalOncePerCandle'
         /\ \A b \in Bots : \A r, latest :
              HasSignal(outcomes'[b], r, latest) => HasSignal(outcomes[b], r, latest)
  <1>1. ASSUME NEW b \in Bots, NEW i \in DOMAIN outcomes'[b]
        PROVE  /\ i \in DOMAIN outcomes[b]
               /\ outcomes'[b][i].run = outcomes[b][i].run
               /\ outcomes'[b][i].observed = outcomes[b][i].observed
    BY DEF KeptRows, SameSignal
  <1>2. SignalOncePerCandle => SignalOncePerCandle'
    BY <1>1 DEF SignalOncePerCandle
  <1>3. ASSUME NEW b \in Bots, NEW r, NEW latest, HasSignal(outcomes'[b], r, latest)
        PROVE  HasSignal(outcomes[b], r, latest)
    BY <1>1, <1>3 DEF HasSignal
  <1> QED
    BY <1>2, <1>3

\* A step that leaves a batch as it is, or a session without one.
LEMMA KeepsBatch ==
  ASSUME Types, Distinct, KeptRows, UNCHANGED <<todo, inserted>>,
         \A t \in Sessions :
           /\ op[t] = "candles" => op'[t] = "candles"
           /\ \/ work'[t].latest = work[t].latest
              \/ todo[t] = {} /\ \A b \in Bots : DOMAIN inserted[t][b] = {}
  PROVE  Distinct'
  <1>1. todo \in [Sessions -> SUBSET (Bots \X Nat \X Versions)]
    BY DEF Types, TypeOK, SessionsOK
  <1>2. ASSUME NEW t \in Sessions, NEW row \in todo[t]
        PROVE  ~HasSignal(outcomes'[row[1]], row[2], work'[t].latest)
    <2>1. row[1] \in Bots /\ work'[t].latest = work[t].latest
      BY <1>1
    <2>2. ~HasSignal(outcomes[row[1]], row[2], work[t].latest)
      BY DEF Distinct
    <2> QED
      BY <2>1, <2>2, KeptDuplicates
  <1>3. ASSUME NEW t \in Sessions, NEW b \in Bots, NEW i \in DOMAIN inserted[t][b]
        PROVE  /\ inserted[t][b][i].observed = work'[t].latest
               /\ ~HasSignal(outcomes'[b], inserted[t][b][i].run, work'[t].latest)
    <2>1. work'[t].latest = work[t].latest
      OBVIOUS
    <2>2. /\ inserted[t][b][i].observed = work[t].latest
          /\ ~HasSignal(outcomes[b], inserted[t][b][i].run, work[t].latest)
      BY DEF Distinct
    <2> QED
      BY <2>1, <2>2, KeptDuplicates
  <1>4. SignalOncePerCandle'
    BY KeptDuplicates DEF Distinct
  <1> QED
    BY <1>2, <1>3, <1>4 DEF Distinct

\* A session that ends leaves no batch.
LEMMA EndsBatch ==
  ASSUME OneSession, Types, SignalOncePerCandle', NEW t \in Sessions, End(t)
  PROVE  Distinct'
  <1>1. DOMAIN << >> = {}
    OBVIOUS
  <1>2. todo'[t] = {} /\ \A b \in Bots : DOMAIN inserted'[t][b] = {}
    BY <1>1 DEF End, Types, TypeOK, SessionsOK
  <1> QED
    BY <1>2 DEF Distinct, OneSession

\* The commit of a batch adds no second signal.
LEMMA CommitsDistinct ==
  ASSUME Types, Distinct, NEW t \in Sessions, CandleCommit(t)
  PROVE  SignalOncePerCandle'
  <1> SUFFICES ASSUME NEW b \in Bots, NEW i \in DOMAIN outcomes'[b], NEW j \in DOMAIN outcomes'[b],
                      outcomes'[b][i].run = outcomes'[b][j].run,
                      outcomes'[b][i].observed = outcomes'[b][j].observed
               PROVE  i = j
    BY DEF SignalOncePerCandle
  <1> DEFINE n == Len(outcomes[b])
             rows == inserted[t][b]
  <1>1. outcomes' = [c \in Bots |-> outcomes[c] \o inserted[t][c]]
    BY DEF CandleCommit
  <1>2. /\ outcomes[b] \in Seq(Outcome) /\ rows \in Seq(Outcome)
        /\ outcomes'[b] = outcomes[b] \o rows
    BY <1>1 DEF Types, TypeOK, DatabaseOK, SessionsOK
  <1>3. ASSUME NEW k \in DOMAIN outcomes'[b]
        PROVE  /\ k \in Int /\ n \in Int
               /\ \/ k \in DOMAIN outcomes[b] /\ outcomes'[b][k] = outcomes[b][k]
                  \/ k - n \in DOMAIN rows /\ outcomes'[b][k] = rows[k - n]
    <2>1. k \in DOMAIN (outcomes[b] \o rows)
      BY <1>2
    <2>2. /\ k \in Int /\ n \in Int
          /\ \/ k \in DOMAIN outcomes[b] /\ (outcomes[b] \o rows)[k] = outcomes[b][k]
             \/ k - n \in DOMAIN rows /\ (outcomes[b] \o rows)[k] = rows[k - n]
      BY <1>2, <2>1, ConcatRows
    <2> QED
      BY <1>2, <2>2
  <1>4. ASSUME NEW k \in DOMAIN outcomes[b], NEW m \in DOMAIN rows
        PROVE  ~(outcomes[b][k].run = rows[m].run /\ outcomes[b][k].observed = rows[m].observed)
    BY DEF Distinct, HasSignal
  <1>5. CASE i \in DOMAIN outcomes[b] /\ j \in DOMAIN outcomes[b]
               /\ outcomes'[b][i] = outcomes[b][i] /\ outcomes'[b][j] = outcomes[b][j]
    BY <1>5 DEF Distinct, SignalOncePerCandle
  <1>6. ASSUME i - n \in DOMAIN rows, j - n \in DOMAIN rows,
               outcomes'[b][i] = rows[i - n], outcomes'[b][j] = rows[j - n]
        PROVE  i = j
    <2>1. i - n = j - n
      BY <1>6 DEF Distinct
    <2> HIDE DEF n
    <2> QED
      BY <1>3, <2>1
  <1> QED
    BY <1>3, <1>4, <1>5, <1>6

\* A batch that begins evaluates each run of a bot once, and only those without
\* a signal at the newest candle.
LEMMA BeginsBatch ==
  ASSUME OneSession, Types, Locks, Distinct, NEW t \in Sessions, CandleBegin(t)
  PROVE  Distinct'
  <1>1. PICK batch, latest :
          /\ Start(t, "candles", [NoWork EXCEPT !.candles = batch, !.latest = latest,
                                                !.tick = tick])
          /\ todo' = [todo EXCEPT ![t] = ToEvaluate(latest)]
    BY DEF CandleBegin
  <1>2. /\ op'[t] = "candles" /\ work'[t].latest = latest /\ todo'[t] = ToEvaluate(latest)
        /\ op[t] = "idle" /\ UNCHANGED <<outcomes, inserted>>
    BY <1>1 DEF CandleBegin, Start, NoWork, database, Types, TypeOK, SessionsOK
  <1>3. ASSUME NEW b \in Bots
        PROVE  DOMAIN inserted[t][b] = {}
    <2>1. inserted[t][b] = <<>>
      BY <1>2 DEF Locks, IdleIsClean
    <2> QED
      BY <2>1
  <1>4. ASSUME NEW row \in ToEvaluate(latest)
        PROVE  /\ row = <<row[1], row[2], bot[row[1]].config>>
               /\ ~HasSignal(outcomes[row[1]], row[2], latest)
    <2>1. PICK b \in Bots : row \in {b} \X (DOMAIN runs[b]) \X {bot[b].config}
      BY DEF ToEvaluate
    <2>2. ~HasSignal(outcomes[row[1]], row[2], latest)
      BY DEF ToEvaluate, Duplicate, HasSignal
    <2> QED
      BY <2>1, <2>2
  <1>5. SignalOncePerCandle'
    BY <1>2 DEF Distinct, SignalOncePerCandle
  <1>6. ASSUME NEW row \in todo'[t], NEW other \in todo'[t],
               row[1] = other[1], row[2] = other[2]
        PROVE  row = other
    BY <1>2, <1>4, <1>6
  <1>7. \A row \in todo'[t] : ~HasSignal(outcomes'[row[1]], row[2], work'[t].latest)
    BY <1>2, <1>4
  <1> QED
    BY <1>2, <1>3, <1>5, <1>6, <1>7 DEF Distinct, OneSession

\* A signal is of a run of which the batch has inserted none.
LEMMA SignalsDistinct ==
  ASSUME OneSession, Types, Distinct, NEW t \in Sessions, CandleSignal(t)
  PROVE  Distinct'
  <1>1. PICK row \in todo[t], decision \in Decisions :
          /\ todo' = [todo EXCEPT ![t] = @ \ {row}]
          /\ inserted' = [inserted EXCEPT ![t][row[1]] =
               Append(@, NewSignal(row[2], SignalVersion(row), work[t].latest, decision))]
    BY DEF CandleSignal
  <1> DEFINE b == row[1]
             new == NewSignal(row[2], SignalVersion(row), work[t].latest, decision)
             rows == inserted[t][b]
             n == Len(rows) + 1
  <1>2. /\ op[t] = "candles" /\ UNCHANGED <<op, work, outcomes>> /\ b \in Bots
        /\ todo'[t] = todo[t] \ {row}
        /\ inserted'[t][b] = Append(rows, new) /\ rows \in Seq(Outcome)
        /\ \A c \in Bots \ {b} : inserted'[t][c] = inserted[t][c]
    BY <1>1 DEF CandleSignal, database, Types, TypeOK, SessionsOK
  <1>3. new.run = row[2] /\ new.observed = work[t].latest
    BY DEF NewSignal
  <1>4. ~HasSignal(outcomes[b], row[2], work[t].latest) /\ \A i \in DOMAIN rows : rows[i].run # row[2]
    BY <1>2 DEF Distinct
  <1>5. \A other \in todo'[t] : ~(other[1] = b /\ other[2] = row[2])
    BY <1>2 DEF Distinct
  <1> HIDE DEF new
  <1>6. ASSUME NEW i \in DOMAIN inserted'[t][b]
        PROVE  \/ i \in DOMAIN rows /\ inserted'[t][b][i] = rows[i]
               \/ i = n /\ inserted'[t][b][i] = new
    BY <1>2
  <1>7. SignalOncePerCandle'
    BY <1>2 DEF Distinct, SignalOncePerCandle
  <1>8. ASSUME NEW i \in DOMAIN inserted'[t][b]
        PROVE  /\ inserted'[t][b][i].observed = work[t].latest
               /\ ~HasSignal(outcomes[b], inserted'[t][b][i].run, work[t].latest)
               /\ \A other \in todo'[t] : other[1] = b => inserted'[t][b][i].run # other[2]
               /\ \A j \in DOMAIN inserted'[t][b] :
                    inserted'[t][b][j].run = inserted'[t][b][i].run => i = j
    <2>1. CASE i = n /\ inserted'[t][b][i] = new
      BY <1>3, <1>4, <1>5, <1>6, <2>1
    <2>2. CASE i \in DOMAIN rows /\ inserted'[t][b][i] = rows[i]
      <3>1. /\ rows[i].observed = work[t].latest
            /\ ~HasSignal(outcomes[b], rows[i].run, work[t].latest)
            /\ \A other \in todo[t] : other[1] = b => rows[i].run # other[2]
            /\ \A j \in DOMAIN rows : rows[j].run = rows[i].run => i = j
        BY <1>2, <2>2 DEF Distinct
      <3> QED
        BY <1>2, <1>3, <1>4, <1>6, <2>2, <3>1
    <2> QED
      BY <1>6, <2>1, <2>2
  <1>9. ASSUME NEW c \in Bots \ {b}, NEW i \in DOMAIN inserted'[t][c]
         PROVE  /\ inserted'[t][c][i].observed = work[t].latest
                /\ ~HasSignal(outcomes[c], inserted'[t][c][i].run, work[t].latest)
                /\ \A other \in todo'[t] : other[1] = c => inserted'[t][c][i].run # other[2]
                /\ \A j \in DOMAIN inserted'[t][c] :
                     inserted'[t][c][j].run = inserted'[t][c][i].run => i = j
    BY <1>2 DEF Distinct
  <1>10. /\ \A other, another \in todo'[t] :
              other[1] = another[1] /\ other[2] = another[2] => other = another
         /\ \A other \in todo'[t] : ~HasSignal(outcomes[other[1]], other[2], work[t].latest)
    BY <1>2 DEF Distinct
  <1>11. \A u \in Sessions : u = t
    BY DEF OneSession
  <1> HIDE DEF b, n
  <1>12. ASSUME NEW c \in Bots, NEW i \in DOMAIN inserted'[t][c]
         PROVE  /\ inserted'[t][c][i].observed = work[t].latest
                /\ ~HasSignal(outcomes[c], inserted'[t][c][i].run, work[t].latest)
                /\ \A other \in todo'[t] : other[1] = c => inserted'[t][c][i].run # other[2]
                /\ \A j \in DOMAIN inserted'[t][c] :
                     inserted'[t][c][j].run = inserted'[t][c][i].run => i = j
    <2>1. CASE c = b
      BY <1>8, <2>1
    <2>2. CASE c # b
      BY <1>9, <2>2
    <2> QED
      BY <2>1, <2>2
  <1>13. UNCHANGED <<op, work, outcomes>> /\ op[t] = "candles"
    BY <1>2
  <1> QED
    BY <1>7, <1>10, <1>11, <1>12, <1>13 DEF Distinct

\* The outcome of a signal keeps its run and its candle.
LEMMA OutcomesDistinct ==
  ASSUME OneSession, Types, Distinct, NEW t \in Sessions, CandleOutcome(t)
  PROVE  Distinct'
  <1>1. PICK b \in Bots :
          /\ AwaitsOutcome(t, b)
          /\ \E o \in {Skipped(inserted[t][b][Len(inserted[t][b])], "OPEN_POSITION_EXISTS"),
                       Skipped(inserted[t][b][Len(inserted[t][b])], "INVALID_POSITION_SIZE"),
                       Opened(inserted[t][b][Len(inserted[t][b])], work[t].tick)} :
               inserted' = [inserted EXCEPT ![t][b][Len(inserted[t][b])] = o]
    BY Zenon DEF CandleOutcome
  <1> DEFINE n == Len(inserted[t][b])
             last == inserted[t][b][n]
  <1>2. PICK o \in {Skipped(last, "OPEN_POSITION_EXISTS"), Skipped(last, "INVALID_POSITION_SIZE"),
                    Opened(last, work[t].tick)} :
          inserted' = [inserted EXCEPT ![t][b][n] = o]
    BY <1>1
  <1>3. /\ inserted[t][b] \in Seq(Outcome) /\ n \in DOMAIN inserted[t][b] /\ last \in Outcome
        /\ UNCHANGED <<op, work, todo, outcomes>>
    BY <1>1 DEF Types, TypeOK, SessionsOK, AwaitsOutcome, CandleOutcome, database
  <1>4. SameSignal(o, last)
    <2> HIDE DEF last, n
    <2> QED
      BY <1>2, <1>3, RowKeepsSignal
  <1>5. ASSUME NEW c \in Bots
        PROVE  /\ DOMAIN inserted'[t][c] = DOMAIN inserted[t][c]
               /\ \A i \in DOMAIN inserted[t][c] :
                    /\ inserted'[t][c][i].run = inserted[t][c][i].run
                    /\ inserted'[t][c][i].observed = inserted[t][c][i].observed
    <2>1. CASE c # b
      BY <1>2, <2>1 DEF Types, TypeOK, SessionsOK
    <2>2. CASE c = b
      <3>1. inserted'[t][b] = [inserted[t][b] EXCEPT ![n] = o]
        BY <1>2 DEF Types, TypeOK, SessionsOK
      <3>2. \A i \in DOMAIN inserted[t][b] :
              inserted'[t][b][i] = IF i = n THEN o ELSE inserted[t][b][i]
        BY <1>3, <3>1
      <3>3. DOMAIN inserted'[t][b] = DOMAIN inserted[t][b]
        BY <1>3, <3>1
      <3> QED
        BY <1>4, <2>2, <3>2, <3>3 DEF SameSignal
    <2> QED
      BY <2>1, <2>2
  <1>6. SignalOncePerCandle'
    BY <1>3 DEF Distinct, SignalOncePerCandle
  <1>7. \A u \in Sessions : u = t
    BY DEF OneSession
  <1> HIDE DEF last, n
  <1>8. ASSUME NEW c \in Bots, NEW i \in DOMAIN inserted'[t][c]
        PROVE  /\ inserted'[t][c][i].observed = work[t].latest
               /\ ~HasSignal(outcomes[c], inserted'[t][c][i].run, work[t].latest)
               /\ \A row \in todo[t] : row[1] = c => inserted'[t][c][i].run # row[2]
               /\ \A j \in DOMAIN inserted'[t][c] :
                    inserted'[t][c][j].run = inserted'[t][c][i].run => i = j
    BY <1>5 DEF Distinct
  <1>9. /\ op[t] # "candles" => todo[t] = {}
        /\ \A row, other \in todo[t] : row[1] = other[1] /\ row[2] = other[2] => row = other
        /\ \A row \in todo[t] : ~HasSignal(outcomes[row[1]], row[2], work[t].latest)
    BY DEF Distinct
  <1> QED
    BY <1>3, <1>6, <1>7, <1>8, <1>9 DEF Distinct

\* Every step of one session keeps signals distinct.
LEMMA StepDistinct ==
  ASSUME OneSession, Types, Locks, Distinct, [Next]_vars
  PROVE  Distinct'
  <1>1. op \in [Sessions -> Ops] /\ work \in [Sessions -> Work]
    BY DEF Types, TypeOK, SessionsOK
  <1>2. ASSUME NEW t \in Sessions, CandleCommit(t)
        PROVE  Distinct'
    BY <1>2, CommitsDistinct, EndsBatch DEF CandleCommit
  <1>3. ASSUME NEW t \in Sessions,
               QuoteCommit(t) \/ ActivateCommit(t) \/ ArchiveCommit(t) \/ Rollback(t)
        PROVE  Distinct'
    <2>1. End(t)
      BY <1>3 DEF QuoteCommit, ActivateCommit, ArchiveCommit, Rollback
    <2>2. CASE \A u \in Sessions : ~CandleCommit(u)
      BY <2>1, <2>2, StepKeepsRows, KeptDuplicates, EndsBatch DEF Distinct
    <2> QED
      BY <1>2, <2>2
  <1>4. ASSUME NEW t \in Sessions,
               QuoteBegin(t) \/ ActivateBegin(t) \/ EditBegin(t) \/ ArchiveBegin(t)
        PROVE  Distinct'
    <2>1. op[t] = "idle" /\ UNCHANGED <<todo, inserted, outcomes>>
      BY <1>4 DEF QuoteBegin, ActivateBegin, EditBegin, ArchiveBegin, Start, database
    <2>2. todo[t] = {} /\ \A b \in Bots : DOMAIN inserted[t][b] = {}
      <3>1. \A b \in Bots : inserted[t][b] = <<>>
        BY <2>1 DEF Locks, IdleIsClean
      <3> QED
        BY <2>1, <3>1 DEF Distinct
    <2>3. KeptRows
      BY <2>1 DEF KeptRows, SameSignal
    <2>4. \A u \in Sessions : u = t
      BY DEF OneSession
    <2> QED
      BY <2>1, <2>2, <2>3, <2>4, KeepsBatch
  <1>5. ASSUME NEW t \in Sessions, QuoteEvaluate(t) \/ EditFlush(t) \/ Supersede(t)
        PROVE  Distinct'
    <2>1. /\ op[t] # "candles" /\ UNCHANGED <<todo, inserted, outcomes>>
          /\ work'[t].latest = work[t].latest
      <3>1. op[t] # "candles" /\ UNCHANGED <<todo, inserted, outcomes>>
        BY <1>5 DEF QuoteEvaluate, EditFlush, Supersede, database
      <3>2. QuoteEvaluate(t) => work'[t].latest = work[t].latest
        BY <1>1 DEF QuoteEvaluate, Work
      <3>3. ASSUME EditFlush(t)
            PROVE  work'[t].latest = work[t].latest
        <4>1. PICK status, previous :
                work' = [work EXCEPT ![t].status = status, ![t].previous = previous]
          BY <3>3 DEF EditFlush
        <4> QED
          BY <1>1, <4>1 DEF Work
      <3>4. ASSUME Supersede(t)
            PROVE  work'[t].latest = work[t].latest
        <4>1. PICK old : work' = [work EXCEPT ![t].runs = old]
          BY <3>4 DEF Supersede
        <4> QED
          BY <1>1, <4>1 DEF Work
      <3> QED
        BY <1>5, <3>1, <3>2, <3>3, <3>4
    <2>2. KeptRows
      BY <2>1 DEF KeptRows, SameSignal
    <2>3. \A u \in Sessions : u = t
      BY DEF OneSession
    <2> QED
      BY <2>1, <2>2, <2>3, KeepsBatch
  <1>6. ASSUME TimePasses \/ PauseFeed \/ ResumeFeed \/ UNCHANGED vars
        PROVE  Distinct'
    <2>1. UNCHANGED <<op, work, todo, inserted>>
      BY <1>6 DEF TimePasses, PauseFeed, ResumeFeed, vars, sessions
    <2>2. CASE \A u \in Sessions : ~CandleCommit(u)
      BY <2>1, <2>2, StepKeepsRows, KeepsBatch
    <2> QED
      BY <1>2, <2>2
  <1> QED
    BY <1>2, <1>3, <1>4, <1>5, <1>6, BeginsBatch, SignalsDistinct, OutcomesDistinct DEF Next

\* At first there is no signal.
LEMMA InitDistinct ==
  ASSUME Init
  PROVE  Distinct
  <1>1. DOMAIN << >> = {}
    OBVIOUS
  <1>2. /\ \A b \in Bots : DOMAIN outcomes[b] = {}
        /\ \A t \in Sessions : todo[t] = {} /\ \A b \in Bots : DOMAIN inserted[t][b] = {}
    BY <1>1 DEF Init
  <1> QED
    BY <1>2 DEF Distinct, SignalOncePerCandle

\* Signals: however often batches bring candles that are stored already, each
\* run of a bot has one signal at most at a candle, for any number of candles.
THEOREM OneSignalPerCandle == OneSession => (Spec => []SignalOncePerCandle)
  <1> SUFFICES ASSUME OneSession
               PROVE  Spec => []SignalOncePerCandle
    OBVIOUS
  <1>1. Init => Types /\ Locks /\ Distinct
    BY InitTypes, InitLocks, InitDistinct
  <1>2. Types /\ Locks /\ Distinct /\ [Next]_vars => Types' /\ Locks' /\ Distinct'
    BY StepTypes, StepLocks, StepDistinct
  <1>3. Distinct => SignalOncePerCandle
    BY DEF Distinct
  <1> QED
    BY <1>1, <1>2, <1>3, PTL DEF Spec

-----------------------------------------------------------------------------
(* Evaluations: no stored quote is missed by an open position.             *)

\* A quote batch carries every row that is still evaluated, up to the newest of
\* its own quotes and of the stored ones; a candle batch opens positions at the
\* newest stored tick.
Current ==
  /\ EvaluatedUpToNewestTick
  /\ \A t \in Sessions :
       /\ op[t] = "quotes" => \A b \in Bots : \A i \in Evaluable(b) :
            /\ loaded[t][b].row = i
            /\ loaded[t][b].new.evaluated >= tick.at
            /\ loaded[t][b].new.evaluated >= work[t].tick.at
       /\ op[t] = "candles" => work[t].tick = tick
       /\ \A b \in Bots : \A i \in DOMAIN inserted[t][b] :
            inserted[t][b][i].status = "OPEN" => inserted[t][b][i].evaluated = tick.at

\* A step that evaluates no other rows than before.
NoMoreEvaluable == \A b \in Bots : Evaluable(b)' \subseteq Evaluable(b)

LEMMA StaysEvaluable ==
  ASSUME Types, [Next]_vars, \A t \in Sessions : ~CandleCommit(t),
         UNCHANGED <<bot, config, runs>>
  PROVE  NoMoreEvaluable
  <1> SUFFICES ASSUME NEW b \in Bots, NEW i \in Evaluable(b)'
               PROVE  i \in Evaluable(b)
    BY DEF NoMoreEvaluable
  <1>1. /\ Monitored(b)' /\ i \in DOMAIN outcomes'[b] /\ outcomes'[b][i].status = "OPEN"
        /\ runs'[b][outcomes'[b][i].run].status = "ACTIVE"
        /\ config'[b][outcomes'[b][i].config] = "ACTIVE"
    BY DEF Evaluable
  <1>2. /\ i \in DOMAIN outcomes[b] /\ outcomes[b][i].status = "OPEN"
        /\ outcomes'[b][i].run = outcomes[b][i].run
        /\ outcomes'[b][i].config = outcomes[b][i].config
    BY <1>1, StepOpens, KeptSignals DEF NothingOpened, SameSignal
  <1>3. Monitored(b)
    BY <1>1 DEF Monitored
  <1> QED
    BY <1>1, <1>2, <1>3 DEF Evaluable

\* An evaluation sees its quote.
LEMMA EvaluateSees ==
  ASSUME NEW o \in Outcome, NEW q \in Tick
  PROVE  /\ Evaluate(o, q) \in Outcome
         /\ Evaluate(o, q).evaluated >= q.at
         /\ Evaluate(o, q).evaluated >= o.evaluated
  <1>1. q.at \in Int /\ o.evaluated \in Int
    BY QuoteTypes DEF Outcome
  <1>2. Evaluate(o, q) \in Outcome
    BY EvaluateRow
  <1>3. CASE q.at <= o.evaluated
    <2>1. ~(q.at > o.evaluated)
      BY <1>1, <1>3
    <2>2. Evaluate(o, q) = o
      BY <1>3, <2>1 DEF Evaluate
    <2>3. Evaluate(o, q).evaluated = o.evaluated
      BY <2>2
    <2>4. o.evaluated >= q.at /\ o.evaluated >= o.evaluated
      BY <1>1, <1>3
    <2> QED
      BY <1>2, <2>3, <2>4, Zenon
  <1>4. CASE ~(q.at <= o.evaluated)
    <2> DEFINE seen == [o EXCEPT !.mfe = Larger(@, Move(o, q)), !.mae = Larger(@, -Move(o, q)),
                                 !.evaluated = q.at]
    <2>1. seen.evaluated = q.at
      BY DEF Outcome
    <2>2. q.at > o.evaluated
      BY <1>1, <1>4
    <2>3. \/ Evaluate(o, q) = seen
          \/ Evaluate(o, q) = [seen EXCEPT !.status = "CLOSED", !.reason = CloseReason(o, q),
                                           !.closed = q.at]
      BY <1>4, <2>2 DEF Evaluate
    <2>4. [seen EXCEPT !.status = "CLOSED", !.reason = CloseReason(o, q), !.closed = q.at].evaluated
            = q.at
      BY DEF Outcome
    <2> HIDE DEF seen
    <2>5. Evaluate(o, q).evaluated = q.at
      BY <2>1, <2>3, <2>4, Zenon
    <2>6. q.at >= q.at /\ q.at >= o.evaluated
      BY <1>1, <2>2
    <2> QED
      BY <1>2, <2>5, <2>6, Zenon
  <1> QED
    BY <1>3, <1>4

\* A step that changes no row and no tick, nor what sessions carry.
LEMMA StaysCurrent ==
  ASSUME Types, Current, NoMoreEvaluable, UNCHANGED <<tick, inserted, loaded>>,
         \A b \in Bots : \A i \in Evaluable(b)' :
           outcomes'[b][i].evaluated = outcomes[b][i].evaluated,
         \A t \in Sessions : /\ op'[t] = "quotes" => op[t] = "quotes"
                             /\ op'[t] = "candles" => op[t] = "candles"
                             /\ op'[t] \in {"quotes", "candles"} => work'[t].tick = work[t].tick
  PROVE  Current'
  <1>1. EvaluatedUpToNewestTick'
    BY DEF Current, EvaluatedUpToNewestTick, NoMoreEvaluable
  <1> QED
    BY <1>1 DEF Current, NoMoreEvaluable

\* A session that ends carries nothing.
LEMMA EndsCurrent ==
  ASSUME OneSession, Types, EvaluatedUpToNewestTick', NEW t \in Sessions, End(t)
  PROVE  Current'
  <1>1. DOMAIN << >> = {}
    OBVIOUS
  <1>2. op'[t] = "idle" /\ \A b \in Bots : DOMAIN inserted'[t][b] = {}
    BY <1>1 DEF End, Types, TypeOK, SessionsOK
  <1> QED
    BY <1>2 DEF Current, OneSession

\* The commit of a quote batch evaluates up to the tick it stores.
LEMMA QuotesCurrent ==
  ASSUME OneSession, Sound, Current, [Next]_vars, NEW t \in Sessions, QuoteCommit(t)
  PROVE  EvaluatedUpToNewestTick'
  <1>1. /\ op[t] = "quotes" /\ outcomes' = WrittenBack(t)
        /\ tick' = Newer(work[t].tick, tick) /\ UNCHANGED <<bot, config, runs>>
    BY DEF QuoteCommit
  <1>2. NoMoreEvaluable
    <2>1. \A u \in Sessions : ~CandleCommit(u)
      BY <1>1 DEF CandleCommit, OneSession
    <2> QED
      BY <1>1, <2>1, StaysEvaluable DEF Sound
  <1> SUFFICES ASSUME NEW b \in Bots, NEW i \in Evaluable(b)'
               PROVE  outcomes'[b][i].evaluated >= tick'.at
    BY DEF EvaluatedUpToNewestTick
  <1>3. i \in Evaluable(b) /\ i \in DOMAIN outcomes[b] /\ outcomes[b][i] \in Outcome /\ i # 0
    BY <1>2 DEF NoMoreEvaluable, Evaluable, Sound, Types, TypeOK, DatabaseOK
  <1>4. /\ loaded[t][b].row = i
        /\ loaded[t][b].new.evaluated >= tick.at
        /\ loaded[t][b].new.evaluated >= work[t].tick.at
    BY <1>1, <1>3 DEF Current
  <1>5. loaded[t][b].old.evaluated = outcomes[b][i].evaluated
    BY <1>3, <1>4 DEF Sound, Fresh
  <1>6. outcomes'[b][i] = Flush(outcomes[b][i], loaded[t][b].old, loaded[t][b].new)
    BY <1>1, <1>3, <1>4 DEF WrittenBack
  <1>7. outcomes'[b][i].evaluated = loaded[t][b].new.evaluated
    <2>1. outcomes'[b][i].evaluated
            = Column(outcomes[b][i].evaluated, loaded[t][b].old.evaluated,
                     loaded[t][b].new.evaluated)
      BY <1>3, <1>6, FlushColumns
    <2> QED
      BY <1>5, <2>1 DEF Column
  <1>8. tick' = tick \/ tick' = work[t].tick
    BY <1>1 DEF Newer
  <1> QED
    BY <1>4, <1>7, <1>8

\* The commit of a candle batch opens positions evaluated at the newest tick.
LEMMA CandlesCurrent ==
  ASSUME OneSession, Sound, Current, NEW t \in Sessions, CandleCommit(t)
  PROVE  EvaluatedUpToNewestTick'
  <1>1. /\ outcomes' = [b \in Bots |-> outcomes[b] \o inserted[t][b]]
        /\ tick' = tick /\ UNCHANGED <<bot, config, runs>>
    BY DEF CandleCommit
  <1> SUFFICES ASSUME NEW b \in Bots, NEW i \in Evaluable(b)'
               PROVE  outcomes'[b][i].evaluated >= tick.at
    BY <1>1 DEF EvaluatedUpToNewestTick
  <1>2. /\ outcomes[b] \in Seq(Outcome) /\ inserted[t][b] \in Seq(Outcome)
        /\ outcomes'[b] = outcomes[b] \o inserted[t][b]
    BY <1>1 DEF Sound, Types, TypeOK, DatabaseOK, SessionsOK
  <1>3. /\ Monitored(b)' /\ i \in DOMAIN outcomes'[b] /\ outcomes'[b][i].status = "OPEN"
        /\ runs'[b][outcomes'[b][i].run].status = "ACTIVE"
        /\ config'[b][outcomes'[b][i].config] = "ACTIVE"
    BY DEF Evaluable
  <1>4. \/ i \in DOMAIN outcomes[b] /\ outcomes'[b][i] = outcomes[b][i]
        \/ i - Len(outcomes[b]) \in DOMAIN inserted[t][b]
             /\ outcomes'[b][i] = inserted[t][b][i - Len(outcomes[b])]
    <2>1. i \in DOMAIN (outcomes[b] \o inserted[t][b])
      BY <1>2, <1>3
    <2>2. \/ i \in DOMAIN outcomes[b] /\ (outcomes[b] \o inserted[t][b])[i] = outcomes[b][i]
          \/ i - Len(outcomes[b]) \in DOMAIN inserted[t][b]
               /\ (outcomes[b] \o inserted[t][b])[i] = inserted[t][b][i - Len(outcomes[b])]
      BY <1>2, <2>1, ConcatRows
    <2> QED
      BY <1>2, <2>2
  <1>5. CASE i \in DOMAIN outcomes[b] /\ outcomes'[b][i] = outcomes[b][i]
    <2>1. Monitored(b)
      BY <1>1, <1>3 DEF Monitored
    <2>2. runs' = runs /\ config' = config
      BY <1>1
    <2>3. /\ outcomes[b][i].status = "OPEN"
          /\ runs[b][outcomes[b][i].run].status = "ACTIVE"
          /\ config[b][outcomes[b][i].config] = "ACTIVE"
      BY <1>3, <1>5, <2>2
    <2>4. i \in Evaluable(b)
      BY <1>5, <2>1, <2>3 DEF Evaluable
    <2> QED
      BY <1>1, <1>5, <2>4 DEF Current, EvaluatedUpToNewestTick
  <1>6. ASSUME NEW j \in DOMAIN inserted[t][b], outcomes'[b][i] = inserted[t][b][j]
        PROVE  outcomes'[b][i].evaluated >= tick.at
    <2>1. outcomes'[b][i].evaluated = tick.at
      BY <1>3, <1>6 DEF Current
    <2>2. tick.at \in Int
      BY QuoteTypes DEF Sound, Types, TypeOK, DatabaseOK
    <2> QED
      BY <2>1, <2>2
  <1> QED
    BY <1>4, <1>5, <1>6

\* Archiving cancels, and evaluates nothing.
LEMMA ArchiveCurrent ==
  ASSUME OneSession, Sound, Current, [Next]_vars, NEW t \in Sessions, ArchiveCommit(t)
  PROVE  EvaluatedUpToNewestTick'
  <1>1. /\ op[t] = "archive" /\ outcomes' = WrittenBack(t) /\ UNCHANGED <<tick, config>>
    BY DEF ArchiveCommit
  <1>2. PICK b \in work[t].target :
          /\ bot' = [bot EXCEPT ![b].archived = TRUE, ![b].state = "STOPPED"]
          /\ runs' = [runs EXCEPT ![b] = Superseded(@, work[t].runs)]
    BY DEF ArchiveCommit
  <1>3. /\ b \in Bots /\ bot \in [Bots -> BotRow] /\ runs \in [Bots -> Seq(Run)]
    BY DEF Sound, Types, TypeOK, DatabaseOK, SessionsOK, Work
  <1>4. /\ bot'[b].archived
        /\ \A c \in Bots \ {b} : bot'[c] = bot[c] /\ runs'[c] = runs[c]
    BY <1>2, <1>3 DEF BotRow
  <1> SUFFICES ASSUME NEW c \in Bots, NEW i \in Evaluable(c)'
               PROVE  outcomes'[c][i].evaluated >= tick.at
    BY <1>1 DEF EvaluatedUpToNewestTick
  <1>5. /\ Monitored(c)' /\ i \in DOMAIN outcomes'[c] /\ outcomes'[c][i].status = "OPEN"
        /\ runs'[c][outcomes'[c][i].run].status = "ACTIVE"
        /\ config'[c][outcomes'[c][i].config] = "ACTIVE"
    BY DEF Evaluable
  <1>6. c # b
    BY <1>4, <1>5 DEF Monitored
  <1>7. i \in DOMAIN outcomes[c] /\ outcomes[c][i] \in Outcome
    <2>1. i \in DOMAIN outcomes[c]
      BY <1>1, <1>5 DEF WrittenBack
    <2>2. outcomes[c] \in Seq(Outcome)
      BY DEF Sound, Types, TypeOK, DatabaseOK
    <2> QED
      BY <2>1, <2>2
  <1>8. i # loaded[t][c].row
    <2> SUFFICES ASSUME i = loaded[t][c].row
                 PROVE  FALSE
      OBVIOUS
    <2>1. i # 0
      BY <1>7 DEF Sound, Types, TypeOK, DatabaseOK
    <2>2. loaded[t][c].old.status = "OPEN" /\ loaded[t][c].new.status = "CANCELLED"
      BY <1>1, <2>1 DEF Sound, Fresh
    <2>3. outcomes'[c][i] = Flush(outcomes[c][i], loaded[t][c].old, loaded[t][c].new)
      BY <1>1, <1>7 DEF WrittenBack
    <2>4. outcomes'[c][i].status = "CANCELLED"
      BY <1>7, <2>2, <2>3, FlushColumns DEF Column
    <2> QED
      BY <1>5, <2>4
  <1>9. outcomes'[c][i] = outcomes[c][i]
    BY <1>1, <1>7, <1>8 DEF WrittenBack
  <1>10. i \in Evaluable(c)
    <2>1. Monitored(c)
      BY <1>4, <1>5, <1>6 DEF Monitored
    <2> QED
      BY <1>1, <1>4, <1>5, <1>6, <1>7, <1>9, <2>1 DEF Evaluable
  <1> QED
    BY <1>9, <1>10 DEF Current, EvaluatedUpToNewestTick

\* An activation supersedes the run of every position opened before.
LEMMA ActivateCurrent ==
  ASSUME OneSession, Sound, Activations, RowsMatch, Current,
         NEW t \in Sessions, ActivateCommit(t)
  PROVE  EvaluatedUpToNewestTick'
  <1>1. /\ op[t] = "supersede" /\ UNCHANGED <<tick, outcomes>>
    BY DEF ActivateCommit
  <1>2. PICK b \in work[t].target :
          /\ bot' = [bot EXCEPT
               ![b].state = Column(@, work[t].bot.state, "MONITORING"),
               ![b].config = Column(@, work[t].bot.config, work[t].version)]
          /\ config' = [config EXCEPT ![b] = [v \in Versions |->
               IF v = work[t].previous THEN "SUPERSEDED"
               ELSE IF v = work[t].version THEN Column(@[v], work[t].status, "ACTIVE")
               ELSE @[v]]]
          /\ runs' = [runs EXCEPT ![b] =
               Append(Superseded(@, work[t].runs),
                      [config |-> work[t].version, status |-> "ACTIVE"])]
    BY DEF ActivateCommit
  <1>3. /\ b \in Bots /\ bot \in [Bots -> BotRow] /\ runs \in [Bots -> Seq(Run)]
        /\ config \in [Bots -> [Versions -> ConfigStatuses]]
        /\ work[t].runs = ActiveRuns(b) /\ work[t].version \in Versions
    BY <1>1 DEF Activations, Sound, Types, TypeOK, DatabaseOK, SessionsOK, Work,
                TransactionReads, ReadsOK
  <1>4. \A c \in Bots \ {b} : bot'[c] = bot[c] /\ runs'[c] = runs[c] /\ config'[c] = config[c]
    BY <1>2, <1>3
  <1> SUFFICES ASSUME NEW c \in Bots, NEW i \in Evaluable(c)'
               PROVE  outcomes[c][i].evaluated >= tick.at
    BY <1>1 DEF EvaluatedUpToNewestTick
  <1>5. /\ Monitored(c)' /\ i \in DOMAIN outcomes[c] /\ outcomes[c][i].status = "OPEN"
        /\ runs'[c][outcomes[c][i].run].status = "ACTIVE"
        /\ config'[c][outcomes[c][i].config] = "ACTIVE"
    BY <1>1 DEF Evaluable
  <1>6. CASE c # b
    <2>1. Monitored(c)
      BY <1>4, <1>5, <1>6 DEF Monitored
    <2>2. i \in Evaluable(c)
      BY <1>4, <1>5, <1>6, <2>1 DEF Evaluable
    <2> QED
      BY <2>2 DEF Current, EvaluatedUpToNewestTick
  <1>7. ASSUME c = b
        PROVE  FALSE
    <2> DEFINE r == outcomes[b][i].run
               run == [config |-> work[t].version, status |-> "ACTIVE"]
               earlier == Superseded(runs[b], work[t].runs)
    <2>1. r \in DOMAIN runs[b]
      BY <1>3, <1>5, <1>7 DEF RowsMatch, FromRun
    <2>2. /\ earlier \in Seq(Run) /\ Len(earlier) = Len(runs[b]) /\ runs[b] \in Seq(Run)
          /\ runs[b][r] \in Run
      BY <1>3, <2>1, SupersededRuns
    <2>3. earlier[r].status # "ACTIVE"
      <3>1. CASE r \in work[t].runs
        <4>1. earlier[r] = [runs[b][r] EXCEPT !.status = "SUPERSEDED"]
          BY <2>1, <3>1 DEF Superseded
        <4> QED
          BY <2>2, <4>1 DEF Run
      <3>2. CASE r \notin work[t].runs
        <4>1. earlier[r] = runs[b][r]
          BY <2>1, <3>2 DEF Superseded
        <4> QED
          BY <1>3, <2>1, <3>2, <4>1 DEF ActiveRuns
      <3> QED
        BY <3>1, <3>2
    <2>4. runs'[b] = Append(earlier, run)
      BY <1>2, <1>3
    <2> HIDE DEF earlier, run, r
    <2>5. runs'[b][r] = earlier[r]
      BY <2>1, <2>2, <2>4
    <2>6. runs'[b][r].status = "ACTIVE"
      BY <1>5, <1>7 DEF r
    <2> QED
      BY <2>3, <2>5, <2>6
  <1> QED
    BY <1>6, <1>7

\* A quote batch that begins loads what is still evaluated.
LEMMA BeginsQuotes ==
  ASSUME OneSession, Sound, Current, NEW t \in Sessions, QuoteBegin(t)
  PROVE  Current'
  <1>1. /\ op[t] = "idle" /\ op'[t] = "quotes" /\ work'[t] = NoWork
        /\ UNCHANGED <<tick, bot, config, runs, outcomes, inserted>>
        /\ \A b \in Bots : loaded'[t][b] = LoadOne(b, Evaluable(b))
    BY DEF QuoteBegin, Start, database, Sound, Types, TypeOK, SessionsOK
  <1>2. \A b \in Bots : Evaluable(b)' = Evaluable(b)
    BY <1>1 DEF Evaluable, Monitored
  <1>3. ASSUME NEW b \in Bots, NEW i \in Evaluable(b)
        PROVE  /\ loaded'[t][b].row = i
               /\ loaded'[t][b].new.evaluated >= tick.at
               /\ loaded'[t][b].new.evaluated >= work'[t].tick.at
    <2> DEFINE l == LoadOne(b, Evaluable(b))
    <2>1. Evaluable(b) \subseteq OpenRows(b)
      BY DEF Evaluable, OpenRows
    <2>2. l.row \in Evaluable(b) /\ l.new = outcomes[b][l.row]
      BY <1>3, <2>1, LoadsOne DEF Sound
    <2>3. l.row = i
      BY <2>1, <2>2 DEF Sound, Locks, OneOpenPerBot
    <2>4. outcomes[b][i].evaluated >= tick.at
      BY DEF Current, EvaluatedUpToNewestTick
    <2>5. work'[t].tick.at = -1 /\ tick.at \in Nat
      BY <1>1, QuoteTypes DEF NoWork, Null, Sound, Types, TypeOK, DatabaseOK
    <2>6. outcomes[b][i].evaluated \in Int
      <3>1. outcomes[b][i] \in Outcome
        BY DEF Evaluable, Sound, Types, TypeOK, DatabaseOK
      <3> QED
        BY <3>1 DEF Outcome
    <2> QED
      BY <1>1, <2>2, <2>3, <2>4, <2>5, <2>6
  <1>4. EvaluatedUpToNewestTick'
    BY <1>1, <1>2 DEF Current, EvaluatedUpToNewestTick
  <1> QED
    BY <1>1, <1>2, <1>3, <1>4 DEF Current, OneSession

\* Each quote of the batch evaluates the rows it carries.
LEMMA EvaluatesQuotes ==
  ASSUME OneSession, Sound, Current, NEW t \in Sessions, QuoteEvaluate(t)
  PROVE  Current'
  <1>1. PICK q \in Tick :
          /\ work[t].tick.at <= q.at
          /\ work' = [work EXCEPT ![t].quotes = @ + 1, ![t].tick = q]
          /\ loaded' = [loaded EXCEPT ![t] = [b \in Bots |-> EvaluateLoaded(loaded[t][b], q)]]
    BY DEF QuoteEvaluate
  <1>2. /\ op[t] = "quotes" /\ work'[t].tick = q
        /\ UNCHANGED <<op, tick, bot, config, runs, outcomes, inserted>>
    BY <1>1 DEF QuoteEvaluate, database, Sound, Types, TypeOK, SessionsOK, Work
  <1>3. \A b \in Bots : Evaluable(b)' = Evaluable(b)
    BY <1>2 DEF Evaluable, Monitored
  <1>4. ASSUME NEW b \in Bots, NEW i \in Evaluable(b)
        PROVE  /\ loaded'[t][b].row = i
               /\ loaded'[t][b].new.evaluated >= tick.at
               /\ loaded'[t][b].new.evaluated >= work'[t].tick.at
    <2>1. loaded[t][b] \in Loaded /\ loaded[t][b].new \in Outcome
      BY DEF Sound, Types, TypeOK, SessionsOK, Loaded
    <2>2. loaded[t][b].row = i /\ loaded[t][b].new.evaluated >= tick.at /\ i # 0
      BY <1>2 DEF Current, Evaluable, Sound, Types, TypeOK, DatabaseOK
    <2>3. loaded'[t][b] = [loaded[t][b] EXCEPT !.new = Evaluate(loaded[t][b].new, q)]
      <3>1. loaded'[t][b] = EvaluateLoaded(loaded[t][b], q)
        BY <1>1 DEF Sound, Types, TypeOK, SessionsOK
      <3> QED
        BY <2>2, <3>1 DEF EvaluateLoaded
    <2>4. /\ loaded'[t][b].row = i /\ loaded'[t][b].new = Evaluate(loaded[t][b].new, q)
      BY <2>1, <2>2, <2>3 DEF Loaded
    <2>5. /\ Evaluate(loaded[t][b].new, q) \in Outcome
          /\ Evaluate(loaded[t][b].new, q).evaluated >= q.at
          /\ Evaluate(loaded[t][b].new, q).evaluated >= loaded[t][b].new.evaluated
      BY <2>1, EvaluateSees
    <2>6. /\ Evaluate(loaded[t][b].new, q).evaluated \in Int
          /\ loaded[t][b].new.evaluated \in Int /\ tick.at \in Int
      <3>1. \A o \in Outcome : o.evaluated \in Int
        BY DEF Outcome
      <3>2. tick \in Tick
        BY DEF Sound, Types, TypeOK, DatabaseOK
      <3>3. tick.at \in Int
        BY <3>2, QuoteTypes
      <3> QED
        BY <2>1, <2>5, <3>1, <3>3
    <2> QED
      BY <1>2, <2>2, <2>4, <2>5, <2>6
  <1>5. EvaluatedUpToNewestTick'
    BY <1>2, <1>3 DEF Current, EvaluatedUpToNewestTick
  <1> QED
    BY <1>2, <1>3, <1>4, <1>5 DEF Current, OneSession

\* A candle batch opens positions at the tick it has read, still the newest.
LEMMA BatchCurrent ==
  ASSUME OneSession, Sound, Current, NEW t \in Sessions,
         CandleBegin(t) \/ CandleSignal(t) \/ CandleOutcome(t)
  PROVE  Current'
  <1>1. UNCHANGED <<tick, bot, config, runs, outcomes, loaded>>
    BY DEF CandleBegin, CandleSignal, CandleOutcome, database
  <1>2. \A b \in Bots : Evaluable(b)' = Evaluable(b)
    BY <1>1 DEF Evaluable, Monitored
  <1>3. EvaluatedUpToNewestTick'
    BY <1>1, <1>2 DEF Current, EvaluatedUpToNewestTick
  <1>4. op'[t] = "candles" /\ work'[t].tick = tick
    <2>1. CASE CandleBegin(t)
      <3>1. PICK batch, latest :
              Start(t, "candles", [NoWork EXCEPT !.candles = batch, !.latest = latest,
                                                 !.tick = tick])
        BY <2>1 DEF CandleBegin
      <3> QED
        BY <3>1 DEF Start, NoWork, Sound, Types, TypeOK, SessionsOK
    <2>2. CASE CandleSignal(t) \/ CandleOutcome(t)
      BY <2>2 DEF CandleSignal, CandleOutcome, Current
    <2> QED
      BY <2>1, <2>2
  <1>5. ASSUME NEW b \in Bots, NEW i \in DOMAIN inserted'[t][b], inserted'[t][b][i].status = "OPEN"
        PROVE  inserted'[t][b][i].evaluated = tick.at
    <2>1. /\ inserted[t][b] \in Seq(Outcome)
          /\ inserted \in [Sessions -> [Bots -> Seq(Outcome)]]
      BY DEF Sound, Types, TypeOK, SessionsOK
    <2>2. ASSUME i \in DOMAIN inserted[t][b], inserted'[t][b][i] = inserted[t][b][i]
          PROVE  inserted'[t][b][i].evaluated = tick.at
      BY <1>5, <2>2 DEF Current
    <2>3. CASE CandleBegin(t)
      BY <2>2, <2>3 DEF CandleBegin
    <2>4. CASE CandleSignal(t)
      <3>1. PICK row \in todo[t], decision \in Decisions :
              inserted' = [inserted EXCEPT ![t][row[1]] =
                Append(@, NewSignal(row[2], SignalVersion(row), work[t].latest, decision))]
        BY <2>4 DEF CandleSignal
      <3> DEFINE new == NewSignal(row[2], SignalVersion(row), work[t].latest, decision)
      <3>2. new.status = "NONE"
        BY DEF NewSignal
      <3> HIDE DEF new
      <3>3. inserted'[t][b] \in {inserted[t][b], Append(inserted[t][b], new)}
        BY <2>1, <3>1 DEF new
      <3>4. inserted'[t][b][i] = new
              \/ (i \in DOMAIN inserted[t][b] /\ inserted'[t][b][i] = inserted[t][b][i])
        <4>1. CASE inserted'[t][b] = inserted[t][b]
          BY <4>1
        <4>2. CASE inserted'[t][b] = Append(inserted[t][b], new)
          <5>1. inserted'[t][b][i] = new \/ i \in 1..Len(inserted[t][b])
            BY <2>1, <4>2
          <5>2. ASSUME i \in 1..Len(inserted[t][b])
                PROVE  inserted'[t][b][i] = inserted[t][b][i] /\ i \in DOMAIN inserted[t][b]
            BY <2>1, <4>2, <5>2
          <5> QED
            BY <5>1, <5>2
        <4> QED
          BY <3>3, <4>1, <4>2
      <3> QED
        BY <1>5, <2>2, <3>2, <3>4
    <2>5. CASE CandleOutcome(t)
      <3>1. PICK c \in Bots :
              /\ AwaitsOutcome(t, c)
              /\ \E o \in {Skipped(inserted[t][c][Len(inserted[t][c])], "OPEN_POSITION_EXISTS"),
                           Skipped(inserted[t][c][Len(inserted[t][c])], "INVALID_POSITION_SIZE"),
                           Opened(inserted[t][c][Len(inserted[t][c])], work[t].tick)} :
                   inserted' = [inserted EXCEPT ![t][c][Len(inserted[t][c])] = o]
        BY <2>5, Zenon DEF CandleOutcome
      <3> DEFINE n == Len(inserted[t][c])
                 last == inserted[t][c][n]
      <3>2. PICK o \in {Skipped(last, "OPEN_POSITION_EXISTS"),
                        Skipped(last, "INVALID_POSITION_SIZE"), Opened(last, work[t].tick)} :
              inserted' = [inserted EXCEPT ![t][c][n] = o]
        BY <3>1
      <3>3. n \in DOMAIN inserted[t][c] /\ last \in Outcome
        BY <3>1 DEF Sound, Types, TypeOK, SessionsOK, AwaitsOutcome
      <3>4. o.status = "OPEN" => o.evaluated = work[t].tick.at
        <4> HIDE DEF last, n
        <4> QED
          BY <3>2, <3>3 DEF Skipped, Opened, Outcome
      <3>5. work[t].tick = tick
        BY <2>5 DEF CandleOutcome, Current
      <3>6. inserted'[t][b][i] = o
              \/ (i \in DOMAIN inserted[t][b] /\ inserted'[t][b][i] = inserted[t][b][i])
        <4>1. CASE b = c
          <5>1. inserted'[t][b] = [inserted[t][b] EXCEPT ![n] = o]
            BY <2>1, <3>2, <4>1
          <5> QED
            BY <2>1, <5>1
        <4>2. CASE b # c
          BY <2>1, <3>2, <4>2
        <4> QED
          BY <4>1, <4>2
      <3> QED
        BY <1>5, <2>2, <3>4, <3>5, <3>6
    <2> QED
      BY <2>3, <2>4, <2>5
  <1> QED
    BY <1>1, <1>3, <1>4, <1>5 DEF Current, OneSession

\* Every step of one session keeps evaluations up to date.
LEMMA StepCurrent ==
  ASSUME OneSession, Sound, Activations, RowsMatch, Current, [Next]_vars
  PROVE  Current'
  <1>1. /\ op \in [Sessions -> Ops] /\ work \in [Sessions -> Work]
    BY DEF Sound, Types, TypeOK, SessionsOK
  <1>2. ASSUME NEW t \in Sessions,
               QuoteCommit(t) \/ CandleCommit(t) \/ ArchiveCommit(t) \/ ActivateCommit(t)
        PROVE  Current'
    <2>1. EvaluatedUpToNewestTick'
      BY <1>2, QuotesCurrent, CandlesCurrent, ArchiveCurrent, ActivateCurrent
    <2>2. End(t)
      BY <1>2 DEF QuoteCommit, CandleCommit, ArchiveCommit, ActivateCommit
    <2> QED
      BY <2>1, <2>2, EndsCurrent DEF Sound
  <1>3. ASSUME NEW t \in Sessions, Rollback(t)
        PROVE  Current'
    <2>1. End(t) /\ UNCHANGED <<tick, bot, config, runs, outcomes>>
      BY <1>3 DEF Rollback, database
    <2>2. \A b \in Bots : Evaluable(b)' = Evaluable(b)
      BY <2>1 DEF Evaluable, Monitored
    <2>3. EvaluatedUpToNewestTick'
      BY <2>1, <2>2 DEF Current, EvaluatedUpToNewestTick
    <2> QED
      BY <2>1, <2>3, EndsCurrent DEF Sound
  <1>4. ASSUME NEW t \in Sessions, ActivateBegin(t) \/ EditBegin(t) \/ EditFlush(t) \/ Supersede(t)
        PROVE  Current'
    <2>1. /\ op'[t] \notin {"quotes", "candles"}
          /\ UNCHANGED <<tick, inserted, loaded, bot, config, runs, outcomes>>
      BY <1>1, <1>4 DEF ActivateBegin, EditBegin, EditFlush, Supersede, Start, database
    <2>2. \A b \in Bots : Evaluable(b)' = Evaluable(b)
      BY <2>1 DEF Evaluable, Monitored
    <2>3. \A u \in Sessions : u = t
      BY DEF OneSession
    <2> QED
      BY <2>1, <2>2, <2>3, StaysCurrent DEF NoMoreEvaluable, Sound
  <1>5. ASSUME NEW t \in Sessions, ArchiveBegin(t)
        PROVE  Current'
    <2>1. /\ op'[t] = "archive"
          /\ UNCHANGED <<tick, inserted, bot, config, runs, outcomes>>
      BY <1>1, <1>5 DEF ArchiveBegin, Start, database
    <2>2. \A b \in Bots : Evaluable(b)' = Evaluable(b)
      BY <2>1 DEF Evaluable, Monitored
    <2>3. EvaluatedUpToNewestTick'
      BY <2>1, <2>2 DEF Current, EvaluatedUpToNewestTick
    <2> QED
      BY <2>1, <2>3 DEF Current, OneSession
  <1>6. ASSUME \/ TimePasses \/ PauseFeed \/ UNCHANGED vars
        PROVE  Current'
    <2>1. UNCHANGED <<tick, inserted, loaded, op, work, bot, config, runs, outcomes>>
      BY <1>6 DEF TimePasses, PauseFeed, vars, database, sessions
    <2>2. \A b \in Bots : Evaluable(b)' = Evaluable(b)
      BY <2>1 DEF Evaluable, Monitored
    <2> QED
      BY <2>1, <2>2, StaysCurrent DEF NoMoreEvaluable, Sound
  <1>7. ASSUME ResumeFeed
        PROVE  Current'
    <2>1. UNCHANGED <<tick, inserted, loaded, op, work, bot, config, runs>>
      BY <1>7 DEF ResumeFeed, sessions
    <2>2. PICK seconds \in Nat : outcomes' = [b \in Bots |-> ResumedRows(outcomes[b], seconds)]
      BY <1>7, ResumedOutcomes DEF Sound
    <2>3. ASSUME NEW b \in Bots, NEW i \in Evaluable(b)'
          PROVE  /\ i \in Evaluable(b)
                 /\ outcomes'[b][i].evaluated = outcomes[b][i].evaluated
      <3>1. i \in DOMAIN outcomes[b] /\ outcomes[b][i] \in Outcome
        <4>1. i \in DOMAIN outcomes'[b]
          BY DEF Evaluable
        <4>2. i \in DOMAIN outcomes[b]
          BY <2>2, <4>1 DEF ResumedRows
        <4>3. outcomes[b] \in Seq(Outcome)
          BY DEF Sound, Types, TypeOK, DatabaseOK
        <4> QED
          BY <4>2, <4>3
      <3>2. \/ outcomes'[b][i] = outcomes[b][i]
            \/ outcomes'[b][i] = [outcomes[b][i] EXCEPT !.paused = outcomes[b][i].paused + seconds]
        BY <2>2, <3>1 DEF ResumedRows
      <3>3. /\ outcomes'[b][i].evaluated = outcomes[b][i].evaluated
            /\ outcomes'[b][i].status = outcomes[b][i].status
            /\ outcomes'[b][i].run = outcomes[b][i].run
            /\ outcomes'[b][i].config = outcomes[b][i].config
        BY <3>1, <3>2 DEF Outcome
      <3>4. Monitored(b)' = Monitored(b)
        BY <2>1 DEF Monitored
      <3> QED
        BY <2>1, <3>1, <3>3, <3>4 DEF Evaluable
    <2> QED
      BY <2>1, <2>3, StaysCurrent DEF NoMoreEvaluable, Sound
  <1> QED
    BY <1>2, <1>3, <1>4, <1>5, <1>6, <1>7, BeginsQuotes, EvaluatesQuotes, BatchCurrent DEF Next

\* At first there is no position.
LEMMA InitCurrent ==
  ASSUME Init
  PROVE  Current
  <1>1. DOMAIN << >> = {}
    OBVIOUS
  <1>2. \A b \in Bots : DOMAIN outcomes[b] = {}
    BY <1>1 DEF Init
  <1>3. \A t \in Sessions : op[t] = "idle" /\ \A b \in Bots : DOMAIN inserted[t][b] = {}
    BY <1>1 DEF Init
  <1> QED
    BY <1>2, <1>3 DEF Current, EvaluatedUpToNewestTick, Evaluable

\* Evaluations: an open position of an active run has seen every stored quote,
\* so that no gap is found in data the database had, for quotes in any order
\* and however late, pauses, activations and archiving between them.
THEOREM NoQuoteMissed == OneSession => (Spec => []EvaluatedUpToNewestTick)
  <1> SUFFICES ASSUME OneSession
               PROVE  Spec => []EvaluatedUpToNewestTick
    OBVIOUS
  <1> DEFINE All == Sound /\ Activations /\ RowsMatch /\ Current
  <1>1. Init => All
    BY InitSound, InitActivations, InitRowsMatch, InitCurrent
  <1>2. All /\ [Next]_vars => All'
    BY StepSound, StepActivations, StepRowsMatch, StepCurrent DEF Sound
  <1>3. All => EvaluatedUpToNewestTick
    BY DEF Current
  <1> QED
    BY <1>1, <1>2, <1>3, PTL DEF Spec

-----------------------------------------------------------------------------
(* Gaps: how far one commit moves the last evaluation of an open position. *)

\* While a position that a quote batch has loaded is open, every quote of the
\* batch has moved it on by no more than the allowed gap and its pauses.
Spanned(l, quotes) ==
  l.row # 0 /\ l.new.status = "OPEN" =>
    l.new.evaluated - l.old.evaluated <= quotes * (StaleAfter + l.new.paused)

Gaps ==
  \A t \in Sessions : op[t] = "quotes" =>
    /\ work[t].quotes <= MaxBatch
    /\ \A b \in Bots : Spanned(loaded[t][b], work[t].quotes)

\* More quotes, or more pauses, allow a longer gap.
LEMMA LongerSpan ==
  ASSUME NEW k \in Nat, NEW m \in Nat, k <= m, NEW x \in Nat, NEW y \in Nat, x <= y
  PROVE  k * x <= m * y /\ k * x \in Nat /\ m * y \in Nat
  <1> DEFINE e == y - x
             f == m - k
  <1>1. e \in Nat /\ f \in Nat /\ y = x + e /\ m = k + f
    OBVIOUS
  <1> HIDE DEF e, f
  <1>2. m * y = k * x + k * e + f * y
    BY <1>1
  <1>3. \A c, d \in Nat : c * d \in Nat
    OBVIOUS
  <1>4. k * x \in Nat /\ k * e \in Nat /\ f * y \in Nat /\ m * y \in Nat
    BY <1>1, <1>3
  <1> QED
    BY <1>2, <1>4

LEMMA OneMoreSpan ==
  ASSUME NEW k \in Nat, NEW x \in Nat
  PROVE  k * x + x = (k + 1) * x
  OBVIOUS

\* A quote that leaves the position open comes within the allowed gap.
LEMMA EvaluateSpan ==
  ASSUME NEW o \in Outcome, NEW q \in Tick
  PROVE  LET new == Evaluate(o, q)
         IN  new.status = "OPEN" =>
               /\ o.status = "OPEN" /\ new.paused = o.paused
               /\ new.evaluated <= o.evaluated + StaleAfter + o.paused
  <1> DEFINE seen == [o EXCEPT !.mfe = Larger(o.mfe, Move(o, q)),
                               !.mae = Larger(o.mae, -Move(o, q)), !.evaluated = q.at]
             closed == [seen EXCEPT !.status = "CLOSED", !.reason = CloseReason(o, q),
                                    !.closed = q.at]
  <1>1. /\ q.at \in Int /\ o.evaluated \in Int /\ o.paused \in Nat /\ StaleAfter \in Nat
    BY QuoteTypes, ConstantsAssumption DEF Outcome, ConstantsAssumption
  <1>2. /\ seen.status = o.status /\ seen.paused = o.paused /\ seen.evaluated = q.at
        /\ closed.status = "CLOSED"
    BY DEF Outcome
  <1>3. CloseReason(o, q) = "NONE" => q.at - (o.evaluated + o.paused) <= StaleAfter
    BY <1>1 DEF CloseReason
  <1>4. CASE q.at <= o.evaluated
    <2>1. Evaluate(o, q) = o
      BY <1>1, <1>4 DEF Evaluate
    <2> QED
      BY <1>1, <2>1
  <1>5. CASE q.at > o.evaluated /\ CloseReason(o, q) = "NONE"
    <2>1. Evaluate(o, q) = seen
      BY <1>1, <1>5 DEF Evaluate
    <2> HIDE DEF seen
    <2> QED
      BY <1>1, <1>2, <1>3, <1>5, <2>1
  <1>6. CASE q.at > o.evaluated /\ CloseReason(o, q) # "NONE"
    <2>1. Evaluate(o, q) = closed
      BY <1>1, <1>6 DEF Evaluate
    <2> HIDE DEF closed
    <2> QED
      BY <1>2, <2>1
  <1> QED
    BY <1>1, <1>4, <1>5, <1>6

\* A loaded row after one more quote.
LEMMA OneMoreQuote ==
  ASSUME NEW l \in Loaded, NEW q \in Tick, NEW quotes \in Nat, Spanned(l, quotes)
  PROVE  Spanned(EvaluateLoaded(l, q), quotes + 1)
  <1>1. l.new \in Outcome /\ l.old \in Outcome
    BY DEF Loaded
  <1>2. CASE l.row = 0
    BY <1>2 DEF EvaluateLoaded, Spanned
  <1>3. CASE l.row # 0
    <2> DEFINE new == Evaluate(l.new, q)
               after == EvaluateLoaded(l, q)
    <2>1. after = [l EXCEPT !.new = new]
      BY <1>3 DEF EvaluateLoaded
    <2>2. after.row = l.row /\ after.old = l.old /\ after.new = new
      BY <2>1 DEF Loaded
    <2>3. new.status = "OPEN" =>
            /\ l.new.status = "OPEN" /\ new.paused = l.new.paused
            /\ new.evaluated <= l.new.evaluated + StaleAfter + l.new.paused
      BY <1>1, EvaluateSpan
    <2>4. new \in Outcome
      BY <1>1, EvaluateRow
    <2>5. /\ new.evaluated \in Int /\ l.new.evaluated \in Int /\ l.old.evaluated \in Int
          /\ l.new.paused \in Nat /\ StaleAfter \in Nat /\ StaleAfter + l.new.paused \in Nat
      BY <1>1, <2>4, ConstantsAssumption DEF Outcome, ConstantsAssumption
    <2>6. quotes * (StaleAfter + l.new.paused) + (StaleAfter + l.new.paused)
            = (quotes + 1) * (StaleAfter + l.new.paused)
      BY <2>5, OneMoreSpan
    <2>7. /\ quotes * (StaleAfter + l.new.paused) \in Int
          /\ (quotes + 1) * (StaleAfter + l.new.paused) \in Int
      BY <2>5
    <2> HIDE DEF new, after
    <2>8. ASSUME after.row # 0, after.new.status = "OPEN"
          PROVE  after.new.evaluated - after.old.evaluated
                   <= (quotes + 1) * (StaleAfter + after.new.paused)
      <3>1. /\ new.paused = l.new.paused
            /\ new.evaluated <= l.new.evaluated + StaleAfter + l.new.paused
            /\ l.new.evaluated - l.old.evaluated <= quotes * (StaleAfter + l.new.paused)
        BY <1>3, <2>2, <2>3, <2>8 DEF Spanned
      <3>2. new.evaluated - l.old.evaluated <= (quotes + 1) * (StaleAfter + l.new.paused)
        BY <2>5, <2>6, <2>7, <3>1
      <3> QED
        BY <2>2, <3>1, <3>2
    <2> QED
      BY <2>8 DEF Spanned, after
  <1> QED
    BY <1>2, <1>3

\* Every step of one session keeps its gaps.
LEMMA StepGaps ==
  ASSUME OneSession, Sound, Gaps, [Next]_vars
  PROVE  Gaps'
  <1>1. /\ op \in [Sessions -> Ops] /\ loaded \in [Sessions -> [Bots -> Loaded]]
        /\ work \in [Sessions -> Work]
    BY DEF Sound, Types, TypeOK, SessionsOK
  <1>2. CASE UNCHANGED <<op, loaded, work>>
    BY <1>2 DEF Gaps, Spanned
  <1>3. ASSUME NEW t \in Sessions, QuoteBegin(t)
        PROVE  Gaps'
    <2>1. /\ work'[t] = NoWork
          /\ \A b \in Bots : loaded'[t][b] = LoadOne(b, Evaluable(b))
      BY <1>1, <1>3 DEF QuoteBegin, Start
    <2>2. work'[t].quotes = 0 /\ MaxBatch \in Nat
      BY <2>1, ConstantsAssumption DEF NoWork, ConstantsAssumption
    <2>3. ASSUME NEW b \in Bots
          PROVE  Spanned(loaded'[t][b], 0)
      <3> DEFINE l == LoadOne(b, Evaluable(b))
      <3>1. Evaluable(b) \subseteq OpenRows(b)
        BY DEF Evaluable, OpenRows
      <3>2. l \in Loaded /\ (l.row # 0 => l.new = l.old)
        BY <3>1, LoadsOne DEF Sound
      <3>3. /\ l.new.evaluated \in Int /\ l.new.paused \in Nat /\ StaleAfter \in Nat
        BY <3>2, ConstantsAssumption DEF Loaded, Outcome, ConstantsAssumption
      <3> HIDE DEF l
      <3>4. 0 * (StaleAfter + l.new.paused) = 0
        BY <3>3
      <3>5. Spanned(l, 0)
        BY <3>2, <3>3, <3>4 DEF Spanned
      <3> QED
        BY <2>1, <3>5 DEF l
    <2> QED
      BY <2>2, <2>3 DEF Gaps, OneSession
  <1>4. ASSUME NEW t \in Sessions, QuoteEvaluate(t)
        PROVE  Gaps'
    <2>1. PICK q \in Tick :
            /\ work' = [work EXCEPT ![t].quotes = @ + 1, ![t].tick = q]
            /\ loaded' = [loaded EXCEPT ![t] = [b \in Bots |-> EvaluateLoaded(loaded[t][b], q)]]
      BY <1>4 DEF QuoteEvaluate
    <2>2. op[t] = "quotes" /\ work[t].quotes < MaxBatch
      BY <1>4 DEF QuoteEvaluate
    <2>3. work[t].quotes \in Nat /\ MaxBatch \in Nat
      BY <1>1, ConstantsAssumption DEF Work, ConstantsAssumption
    <2>4. work'[t].quotes = work[t].quotes + 1
      BY <1>1, <2>1 DEF Work
    <2>5. ASSUME NEW b \in Bots
          PROVE  Spanned(loaded'[t][b], work[t].quotes + 1)
      <3>1. loaded'[t][b] = EvaluateLoaded(loaded[t][b], q) /\ loaded[t][b] \in Loaded
        BY <1>1, <2>1
      <3>2. Spanned(loaded[t][b], work[t].quotes)
        BY <2>2 DEF Gaps
      <3> QED
        BY <2>3, <3>1, <3>2, OneMoreQuote
    <2> QED
      BY <2>2, <2>3, <2>4, <2>5 DEF Gaps, OneSession
  <1>5. ASSUME NEW t \in Sessions, op'[t] # "quotes"
        PROVE  Gaps'
    BY <1>5 DEF Gaps, OneSession
  <1>6. ASSUME NEW t \in Sessions, End(t)
        PROVE  op'[t] # "quotes"
    BY <1>1, <1>6 DEF End
  <1>7. ASSUME NEW t \in Sessions,
               \/ CandleBegin(t) \/ ActivateBegin(t) \/ EditBegin(t) \/ ArchiveBegin(t)
               \/ EditFlush(t) \/ Supersede(t) \/ CandleSignal(t) \/ CandleOutcome(t)
        PROVE  op'[t] # "quotes"
    BY <1>1, <1>7 DEF CandleBegin, ActivateBegin, EditBegin, EditFlush, Supersede, ArchiveBegin,
                      CandleSignal, CandleOutcome, Start
  <1>8. TimePasses \/ PauseFeed \/ ResumeFeed \/ UNCHANGED vars => UNCHANGED <<op, loaded, work>>
    BY DEF TimePasses, PauseFeed, ResumeFeed, vars, sessions
  <1>9. \A t \in Sessions : QuoteCommit(t) \/ CandleCommit(t) \/ ActivateCommit(t)
                              \/ ArchiveCommit(t) \/ Rollback(t) => End(t)
    BY DEF QuoteCommit, CandleCommit, ActivateCommit, ArchiveCommit, Rollback
  <1> QED
    BY <1>2, <1>3, <1>4, <1>5, <1>6, <1>7, <1>8, <1>9 DEF Next

\* What a quote batch writes back to an open position that stays open.
LEMMA WrittenSpan ==
  ASSUME Sound, Limits, Gaps, NEW t \in Sessions, QuoteCommit(t),
         NEW b \in Bots, NEW i \in OpenRows(b), i = loaded[t][b].row,
         outcomes'[b][i].status = "OPEN"
  PROVE  outcomes'[b][i].evaluated - outcomes[b][i].evaluated <= LongestGap(outcomes'[b][i])
  <1> DEFINE l == loaded[t][b]
             o == outcomes[b][i]
             flushed == Flush(o, l.old, l.new)
  <1>1. /\ op[t] = "quotes" /\ l \in Loaded /\ l.new \in Outcome /\ l.old \in Outcome
        /\ o \in Outcome /\ l.row # 0 /\ work[t].quotes \in Nat
    BY DEF QuoteCommit, OpenRows, Sound, Types, TypeOK, DatabaseOK, SessionsOK, Loaded, Work
  <1>2. outcomes'[b][i] = flushed
    BY DEF QuoteCommit, WrittenBack, OpenRows
  <1>3. flushed.status = Column(o.status, l.old.status, l.new.status)
        /\ flushed.evaluated = Column(o.evaluated, l.old.evaluated, l.new.evaluated)
    BY <1>1, FlushColumns
  <1>4. flushed.paused = o.paused
    BY <1>1, Zenon DEF Flush, Outcome
  <1>5. /\ l.old.status = "OPEN" /\ l.old.evaluated = o.evaluated
        /\ l.new.paused <= o.paused
    BY <1>1 DEF Sound, Fresh, Limits, CopyOf
  <1>6. work[t].quotes <= MaxBatch /\ Spanned(l, work[t].quotes)
    BY <1>1 DEF Gaps
  <1>7. /\ l.new.evaluated \in Int /\ o.evaluated \in Int /\ l.new.paused \in Nat /\ o.paused \in Nat
        /\ StaleAfter \in Nat /\ MaxBatch \in Nat
    BY <1>1, ConstantsAssumption DEF Outcome, ConstantsAssumption
  <1> HIDE DEF l, o, flushed
  <1>8. l.new.status = "OPEN" /\ flushed.evaluated = l.new.evaluated
    BY <1>2, <1>3, <1>5 DEF Column
  <1>9. l.new.evaluated - o.evaluated <= work[t].quotes * (StaleAfter + l.new.paused)
    BY <1>1, <1>5, <1>6, <1>8 DEF Spanned
  <1>10. /\ work[t].quotes * (StaleAfter + l.new.paused) <= MaxBatch * (StaleAfter + o.paused)
         /\ work[t].quotes * (StaleAfter + l.new.paused) \in Nat
         /\ MaxBatch * (StaleAfter + o.paused) \in Nat
    <2> DEFINE x == StaleAfter + l.new.paused
               y == StaleAfter + o.paused
    <2>1. x \in Nat /\ y \in Nat /\ x <= y
      BY <1>5, <1>7
    <2> HIDE DEF x, y
    <2>2. work[t].quotes * x <= MaxBatch * y /\ work[t].quotes * x \in Nat /\ MaxBatch * y \in Nat
      BY <1>1, <1>6, <1>7, <2>1, LongerSpan
    <2> QED
      BY <2>2 DEF x, y
  <1>11. l.new.evaluated - o.evaluated <= MaxBatch * (StaleAfter + o.paused)
    BY <1>7, <1>9, <1>10
  <1> QED
    BY <1>2, <1>4, <1>8, <1>11 DEF LongestGap, o

\* Gaps: an evaluation after a longer gap than the quotes of its batch and the
\* pauses of the position explain closes it, whatever was paused, resumed and
\* delivered late before.
THEOREM GapsClose == OneSession => (Spec => GapCloses)
  <1> SUFFICES ASSUME OneSession
               PROVE  Spec => GapCloses
    OBVIOUS
  <1>1. Init => Sound /\ Limits /\ Gaps
    BY InitSound, InitLimits DEF Init, Gaps
  <1>2. Sound /\ Limits /\ Gaps /\ [Next]_vars => Sound' /\ Limits' /\ Gaps'
    BY StepSound, StepLimits, StepGaps DEF Sound
  <1>3. Sound /\ Limits /\ Gaps /\ [Next]_vars =>
          [\A b \in Bots : \A i \in OpenRows(b) :
             outcomes'[b][i].evaluated - outcomes[b][i].evaluated > LongestGap(outcomes'[b][i])
             => outcomes'[b][i].status # "OPEN"]_vars
    <2> SUFFICES ASSUME Sound, Limits, Gaps, [Next]_vars, NEW b \in Bots, NEW i \in OpenRows(b),
                        outcomes'[b][i].status = "OPEN"
                 PROVE  ~(outcomes'[b][i].evaluated - outcomes[b][i].evaluated
                            > LongestGap(outcomes'[b][i]))
      OBVIOUS
    <2>1. /\ outcomes[b] \in Seq(Outcome) /\ i \in DOMAIN outcomes[b] /\ outcomes[b][i] \in Outcome
          /\ outcomes'[b] \in Seq(Outcome)
      BY StepSound DEF Sound, Types, TypeOK, DatabaseOK, OpenRows
    <2>2. ASSUME outcomes'[b][i].evaluated = outcomes[b][i].evaluated, outcomes'[b][i] \in Outcome
          PROVE  ~(outcomes'[b][i].evaluated - outcomes[b][i].evaluated
                     > LongestGap(outcomes'[b][i]))
      <3>1. /\ outcomes[b][i].evaluated \in Int /\ outcomes'[b][i].paused \in Nat
            /\ StaleAfter \in Nat /\ MaxBatch \in Nat
        BY <2>1, <2>2, ConstantsAssumption DEF Outcome, ConstantsAssumption
      <3>2. StaleAfter + outcomes'[b][i].paused \in Nat
        BY <3>1
      <3>3. LongestGap(outcomes'[b][i]) >= 0 /\ LongestGap(outcomes'[b][i]) \in Int
        BY <3>1, <3>2 DEF LongestGap
      <3> QED
        BY <2>2, <3>1, <3>3
    <2>3. CASE outcomes'[b][i] = outcomes[b][i]
      BY <2>1, <2>2, <2>3
    <2>4. CASE ResumeFeed
      <3>1. PICK seconds \in Nat : outcomes' = [c \in Bots |-> ResumedRows(outcomes[c], seconds)]
        BY <2>4, ResumedOutcomes DEF Sound
      <3>2. \/ outcomes'[b][i] = outcomes[b][i]
            \/ outcomes'[b][i] = [outcomes[b][i] EXCEPT !.paused = outcomes[b][i].paused + seconds]
        BY <2>1, <3>1 DEF ResumedRows
      <3> DEFINE o == outcomes[b][i]
                 resumed == [o EXCEPT !.paused = o.paused + seconds]
      <3>3. o \in Outcome
        BY <2>1
      <3> HIDE DEF o
      <3>4. o.paused + seconds \in Nat
        BY <3>3 DEF Outcome
      <3>5. resumed \in Outcome /\ resumed.evaluated = o.evaluated
        BY <3>3, <3>4 DEF Outcome
      <3>6. outcomes'[b][i] \in {o, resumed}
        BY <3>2 DEF o
      <3> HIDE DEF resumed
      <3>7. outcomes'[b][i].evaluated = outcomes[b][i].evaluated /\ outcomes'[b][i] \in Outcome
        BY <3>3, <3>5, <3>6 DEF o
      <3> QED
        BY <2>2, <3>7
    <2>5. ASSUME NEW t \in Sessions, QuoteCommit(t) \/ ArchiveCommit(t), i # loaded[t][b].row
          PROVE  outcomes'[b][i] = outcomes[b][i]
      <3>1. outcomes' = WrittenBack(t)
        BY <2>5 DEF QuoteCommit, ArchiveCommit
      <3> QED
        BY <2>1, <2>5, <3>1 DEF WrittenBack
    <2>6. ASSUME NEW t \in Sessions, QuoteCommit(t), i = loaded[t][b].row
          PROVE  ~(outcomes'[b][i].evaluated - outcomes[b][i].evaluated
                     > LongestGap(outcomes'[b][i]))
      <3>1. outcomes'[b][i].evaluated - outcomes[b][i].evaluated <= LongestGap(outcomes'[b][i])
        BY <2>6, WrittenSpan
      <3>2. outcomes'[b][i] \in Outcome
        <4>1. outcomes'[b][i] = Flush(outcomes[b][i], loaded[t][b].old, loaded[t][b].new)
          BY <2>1, <2>6 DEF QuoteCommit, WrittenBack
        <4>2. loaded[t][b] \in Loaded /\ loaded[t][b].new.status \in {loaded[t][b].old.status, "CLOSED", "CANCELLED"}
          BY <2>1, <2>6 DEF Sound, Types, TypeOK, SessionsOK, WritesOnlyResolve
        <4> QED
          BY <2>1, <4>1, <4>2, FlushRow DEF Loaded
      <3>3. /\ outcomes[b][i].evaluated \in Int /\ outcomes'[b][i].evaluated \in Int
            /\ LongestGap(outcomes'[b][i]) \in Int
        <4>1. \A o \in Outcome : o.evaluated \in Int /\ o.paused \in Nat
          BY DEF Outcome
        <4>2. MaxBatch \in Nat /\ StaleAfter \in Nat
          BY ConstantsAssumption DEF ConstantsAssumption
        <4>3. StaleAfter + outcomes'[b][i].paused \in Nat
          BY <3>2, <4>1, <4>2
        <4> QED
          BY <2>1, <3>2, <4>1, <4>2, <4>3 DEF LongestGap
      <3> QED
        BY <3>1, <3>3
    <2>7. ASSUME NEW t \in Sessions, ArchiveCommit(t), i = loaded[t][b].row
          PROVE  FALSE
      <3>1. outcomes'[b][i] = Flush(outcomes[b][i], loaded[t][b].old, loaded[t][b].new)
        BY <2>1, <2>7 DEF ArchiveCommit, WrittenBack
      <3>2. op[t] = "archive" /\ i # 0
        BY <2>1, <2>7 DEF ArchiveCommit
      <3>3. loaded[t][b].old.status = "OPEN" /\ loaded[t][b].new.status = "CANCELLED"
        BY <2>7, <3>2 DEF Sound, Fresh
      <3>4. outcomes'[b][i].status = "CANCELLED"
        BY <2>1, <3>1, <3>3, FlushColumns DEF Column
      <3> QED
        BY <3>4
    <2>8. ASSUME NEW t \in Sessions, CandleCommit(t)
          PROVE  outcomes'[b][i] = outcomes[b][i]
      <3>1. outcomes' = [c \in Bots |-> outcomes[c] \o inserted[t][c]]
        BY <2>8 DEF CandleCommit
      <3>2. inserted[t][b] \in Seq(Outcome) /\ outcomes'[b] = outcomes[b] \o inserted[t][b]
        BY <3>1 DEF Sound, Types, TypeOK, SessionsOK
      <3>3. (outcomes[b] \o inserted[t][b])[i] = outcomes[b][i]
        BY <2>1, <3>2, ConcatKeeps
      <3> QED
        BY <3>2, <3>3
    <2>9. \/ outcomes' = outcomes \/ ResumeFeed
          \/ \E t \in Sessions : QuoteCommit(t) \/ ArchiveCommit(t) \/ CandleCommit(t)
      BY DEF Next, vars, database, TimePasses, PauseFeed, QuoteBegin, QuoteEvaluate,
             CandleBegin, CandleSignal, CandleOutcome, ActivateBegin,
             EditBegin, EditFlush, Supersede, ActivateCommit, ArchiveBegin, Rollback
    <2> QED
      BY <2>3, <2>4, <2>5, <2>6, <2>7, <2>8, <2>9
  <1> QED
    BY <1>1, <1>2, <1>3, PTL DEF Spec, GapCloses

=============================================================================
