--------------------------- MODULE CollectorControl ---------------------------
(***************************************************************************)
(* The control plane of the collector.  Users write commands, settings and *)
(* deletions into the database; the supervisor of the collector polls      *)
(* them, reconciles its instrument workers, carries out the commands in    *)
(* order and reports each one.  PAUSE acts on the feed when it is created  *)
(* and again when it is reported, RESUME only when it is reported.  Each   *)
(* request is a transaction of its own and may fail on its way.            *)
(***************************************************************************)
EXTENDS Integers, Sequences, FiniteSets

CONSTANTS
  Keys,          \* instruments: provider, environment and symbol
  All,           \* the target of a command for every feed
  Actions,       \* the commands that users give
  Reported,      \* the statuses that heartbeats report
  PollLimit,     \* how many commands a poll takes
  MaxCommands,   \* bound: the number of commands
  MaxCrashes,    \* bound: how often the collector crashes
  MaxDeletes     \* bound: how often a feed is deleted

ASSUME ControlAssumption ==
  /\ All \notin Keys
  /\ Reported \cap {"ABSENT", "REGISTERED", "PAUSED", "none"} = {}
  /\ Actions \subseteq {"PAUSE", "RESUME", "RECONNECT", "BACKFILL"}
  /\ {PollLimit, MaxCommands, MaxCrashes, MaxDeletes} \subseteq Nat

VARIABLES
  instrument,      \* collector_instrument_configurations
  feed,            \* market_feeds
  globallyPaused,  \* collector_configurations.globally_paused
  commands,        \* collector_commands, in the order of created_at
  collector,       \* the supervisor of the collector
  beat,            \* the heartbeat of each feed that has been let in: its status
  crashes, deletes,
  raised           \* a request of the collector has failed

vars == <<instrument, feed, globallyPaused, commands, collector, beat, crashes, deletes, raised>>
settings == <<instrument, globallyPaused>>
bounds == <<crashes, deletes>>

NoFeed == [status |-> "ABSENT", paused |-> FALSE]
Feed ==
  {f \in [status : {"REGISTERED", "PAUSED"} \cup Reported, paused : BOOLEAN] :
     f.status = "PAUSED" => f.paused}

Ended == {"SUCCEEDED", "FAILED", "DELETED"}

\* reached: the feeds there were for the command when it was created, and still are.
Command ==
  [action : Actions, target : Keys \cup {All}, status : {"PENDING", "RUNNING"} \cup Ended,
   reached : SUBSET Keys]

NoBackfill == [k \in Keys |-> 0]

\* The supervisor: what it does, the instruments that were to be collected in its
\* last poll, those it holds back, those it has a worker for, the commands it has
\* still to carry out, the command of the backfill thread of each instrument.
Supervisor(at) ==
  [at |-> at, wanted |-> {}, paused |-> {}, workers |-> {}, queue |-> {}, backfill |-> NoBackfill]

\* Type invariant: the rows of the database and the state of the supervisor.  A feed
\* whose status is PAUSED has a time of its pause.
TypeOK ==
  /\ instrument \in [Keys -> {"ABSENT", "ENABLED", "DISABLED"}]
  /\ feed \in [Keys -> Feed \cup {NoFeed}]
  /\ globallyPaused \in BOOLEAN
  /\ commands \in Seq(Command) /\ Len(commands) <= MaxCommands
  /\ collector \in [at : {"down", "polled", "handling", "reporting"}, wanted : SUBSET Keys,
                    paused : SUBSET Keys, workers : SUBSET Keys,
                    queue : SUBSET DOMAIN commands, backfill : [Keys -> {0} \cup DOMAIN commands]]
  /\ beat \in [Keys -> Reported \cup {"none"}]
  /\ crashes \in 0 .. MaxCrashes /\ deletes \in 0 .. MaxDeletes /\ raised \in BOOLEAN

Init ==
  /\ instrument = [k \in Keys |-> "ABSENT"]
  /\ feed = [k \in Keys |-> NoFeed]
  /\ globallyPaused = FALSE
  /\ commands = <<>>
  /\ collector = Supervisor("down")
  /\ beat = [k \in Keys |-> "none"]
  /\ crashes = 0 /\ deletes = 0 /\ raised = FALSE

-----------------------------------------------------------------------------
(* Feeds. *)

\* Mutant: only the status counts.
StatusOnly(f) == f.status = "PAUSED"

\* A paused feed takes no data, specification or heartbeat.
Blocked(f) == f.status = "PAUSED" \/ f.paused

PauseFeed(f) == [status |-> "PAUSED", paused |-> TRUE]

ResumeFeed(f) == [status |-> "REGISTERED", paused |-> FALSE]

\* The feeds a command reaches, of those that exist.
Reaches(target, k) == target \in {k, All}
Targeted(target) == {k \in Keys : Reaches(target, k) /\ feed[k] # NoFeed}

Registered(f) == IF f = NoFeed THEN [status |-> "REGISTERED", paused |-> FALSE] ELSE f

-----------------------------------------------------------------------------
(* Requests of users. *)

\* A backfill is refused while another one of the feed is active.
Refused(action, target) ==
  action = "BACKFILL" /\ \E c \in DOMAIN commands :
    /\ commands[c].action = "BACKFILL" /\ commands[c].target = target
    /\ commands[c].status \in {"PENDING", "RUNNING"}

CreateCommand(action, target) ==
  /\ Len(commands) < MaxCommands
  /\ target = All => action \in {"PAUSE", "RESUME"}
  /\ target \in Keys => feed[target] # NoFeed
  /\ ~Refused(action, target)
  /\ commands' = Append(commands, [action |-> action, target |-> target, status |-> "PENDING",
                                   reached |-> Targeted(target)])
  /\ IF action = "PAUSE"
     THEN /\ feed' = [k \in Keys |-> IF k \in Targeted(target) THEN PauseFeed(feed[k]) ELSE feed[k]]
          /\ globallyPaused' = (globallyPaused \/ target = All)
     ELSE UNCHANGED <<feed, globallyPaused>>
  /\ UNCHANGED <<instrument, collector, beat, bounds, raised>>

\* A user gives a command up: whatever the collector reports later is ignored.
DeleteCommand(c) ==
  /\ commands[c].status \notin Ended
  /\ commands' = [commands EXCEPT ![c].status = "FAILED"]
  /\ UNCHANGED <<settings, feed, collector, beat, bounds, raised>>

\* An instrument is enabled (create_instrument, settings) or disabled (settings).
Enable(k) ==
  /\ instrument[k] = "DISABLED"
  /\ instrument' = [instrument EXCEPT ![k] = "ENABLED"]
  /\ UNCHANGED <<globallyPaused, feed, commands, collector, beat, bounds, raised>>

Disable(k) ==
  /\ instrument[k] = "ENABLED" /\ feed[k] # NoFeed
  /\ instrument' = [instrument EXCEPT ![k] = "DISABLED"]
  /\ UNCHANGED <<globallyPaused, feed, commands, collector, beat, bounds, raised>>

\* The feed goes with everything that refers to it, its commands included; a
\* heartbeat that was let in finds no row.
DeleteFeed(k) ==
  /\ feed[k] # NoFeed /\ deletes < MaxDeletes
  /\ deletes' = deletes + 1
  /\ feed' = [feed EXCEPT ![k] = NoFeed]
  /\ instrument' = [instrument EXCEPT ![k] = "DISABLED"]
  /\ beat' = [beat EXCEPT ![k] = "none"]
  /\ commands' = [c \in DOMAIN commands |->
       [commands[c] EXCEPT !.status = IF commands[c].target = k THEN "DELETED" ELSE @,
                           !.reached = @ \ {k}]]
  /\ UNCHANGED <<globallyPaused, collector, crashes, raised>>

-----------------------------------------------------------------------------
(* The control loop of the supervisor. *)

\* Mutant: commands that were interrupted stay with the collector.
NotRequeued(command) == command

\* Registration gives back what an earlier process has left behind.
Requeued(command) == IF command.status = "RUNNING" THEN [command EXCEPT !.status = "PENDING"] ELSE command

Start ==
  /\ collector.at = "down"
  /\ commands' = [c \in DOMAIN commands |-> Requeued(commands[c])]
  /\ instrument' = [k \in Keys |-> IF instrument[k] = "ABSENT" THEN "ENABLED" ELSE instrument[k]]
  /\ collector' = Supervisor("handling")
  /\ UNCHANGED <<globallyPaused, feed, beat, bounds, raised>>

Wanted(k) == instrument[k] = "ENABLED" /\ feed[k].status # "PAUSED" /\ ~globallyPaused

Waiting == {c \in DOMAIN commands : commands[c].status = "PENDING"}

\* The oldest commands, as many as the limit allows.
Polled == {c \in Waiting : Cardinality({d \in Waiting : d < c}) < PollLimit}

PollStatus == [c \in DOMAIN commands |->
  IF c \in Polled THEN [commands[c] EXCEPT !.status = "RUNNING"] ELSE commands[c]]

\* Every command of the last poll has been carried out, or given up.
Idle == collector.at = "handling" /\ collector.queue = {}

Poll ==
  /\ Idle
  /\ commands' = PollStatus
  /\ collector' = [collector EXCEPT !.at = "polled", !.queue = Polled,
                                    !.wanted = {k \in Keys : Wanted(k)}]
  /\ UNCHANGED <<settings, feed, beat, bounds, raised>>

\* The answer to the poll is lost, though the commands are taken.
PollLost ==
  /\ Idle /\ ~raised
  /\ raised' = TRUE
  /\ commands' = PollStatus
  /\ UNCHANGED <<settings, feed, collector, beat, bounds>>

\* Mutant: workers are stopped, and none is started.
OnlyStopped(s) == s.workers \cap (s.wanted \ s.paused)

Desired(s) == s.wanted \ s.paused

\* Workers are stopped and started as the poll has said.
Reconcile ==
  /\ collector.at = "polled"
  /\ collector' = [collector EXCEPT !.workers = Desired(collector), !.wanted = {}, !.at = "handling"]
  /\ UNCHANGED <<settings, feed, commands, beat, bounds, raised>>

\* Mutant: the newest command is carried out first.
Latest == CHOOSE c \in collector.queue : \A d \in collector.queue : d <= c

\* The command at hand, the oldest of those that are left of the poll.
Current == CHOOSE c \in collector.queue : \A d \in collector.queue : c <= d

Symbols(target) == {k \in Keys : Reaches(target, k)}

\* Mutant: RESUME does not release what is held back.
HeldForGood(held, command) ==
  IF command.action = "PAUSE" /\ command.target # All THEN held \cup {command.target} ELSE held

\* The instruments held back: a PAUSE for every feed relies on globally_paused.
HeldBack(held, command) ==
  CASE command.action = "PAUSE" /\ command.target # All -> held \cup {command.target}
    [] command.action = "RESUME" -> held \ Symbols(command.target)
    [] OTHER -> held

\* What the supervisor does for a command before it reports it.
Carried(s, command) ==
  [s EXCEPT !.paused = HeldBack(@, command),
            !.workers = IF command.action \in {"PAUSE", "RECONNECT"}
                        THEN @ \ Symbols(command.target) ELSE @]

\* A backfill for which there is no thread yet.
Threaded(command) == command.action = "BACKFILL" /\ collector.backfill[command.target] = 0

\* A backfill gets a thread of its own, which reports; one more is refused.
Handle ==
  /\ collector.at = "handling" /\ collector.queue # {}
  /\ LET command == commands[Current] IN
     \/ /\ Threaded(command)
        /\ collector' = [collector EXCEPT !.backfill[command.target] = Current, !.queue = @ \ {Current}]
     \/ /\ ~Threaded(command)
        /\ collector' = [Carried(collector, command) EXCEPT !.at = "reporting"]
  /\ UNCHANGED <<settings, feed, commands, beat, bounds, raised>>

\* update_command looks at the status: a command that has ended stays as it is.
Reportable(c) == commands[c].status \notin Ended

\* What update_command does for a command that has been carried out.
Applied(c, status) ==
  LET command == commands[c]
      effective == status = "SUCCEEDED" /\ Reportable(c)
  IN  /\ commands' = IF Reportable(c) THEN [commands EXCEPT ![c].status = status] ELSE commands
      /\ feed' = [k \in Keys |->
           CASE effective /\ k \in Targeted(command.target) /\ command.action = "PAUSE" -> PauseFeed(feed[k])
             [] effective /\ k \in Targeted(command.target) /\ command.action = "RESUME" -> ResumeFeed(feed[k])
             [] OTHER -> feed[k]]
      /\ globallyPaused' =
           CASE effective /\ command.action = "RESUME" -> FALSE
             [] effective /\ command.action = "PAUSE" /\ command.target = All -> TRUE
             [] OTHER -> globallyPaused

Outcome(c) == IF commands[c].action = "BACKFILL" THEN "FAILED" ELSE "SUCCEEDED"

Report ==
  /\ collector.at = "reporting" /\ commands[Current].status # "DELETED"
  /\ Applied(Current, Outcome(Current))
  /\ collector' = [collector EXCEPT !.at = "handling", !.queue = @ \ {Current}]
  /\ UNCHANGED <<instrument, beat, bounds, raised>>

\* The report fails: the command has been deleted, or the request or its answer is
\* lost.  The exception leaves the loop over the commands.
ReportFails ==
  /\ collector.at = "reporting"
  /\ \/ commands[Current].status = "DELETED" /\ UNCHANGED <<commands, feed, globallyPaused>>
     \/ ~raised /\ UNCHANGED <<commands, feed, globallyPaused>>
     \/ ~raised /\ commands[Current].status # "DELETED" /\ Applied(Current, Outcome(Current))
  /\ raised' = TRUE
  /\ collector' = [collector EXCEPT !.at = "handling", !.queue = {}]
  /\ UNCHANGED <<instrument, beat, bounds>>

Crash ==
  /\ collector.at # "down" /\ crashes < MaxCrashes
  /\ crashes' = crashes + 1
  /\ collector' = Supervisor("down")
  /\ UNCHANGED <<settings, feed, commands, beat, deletes, raised>>

-----------------------------------------------------------------------------
(* The threads of the collector. *)

\* A worker, or a backfill, registers its feed.
RegisterFeed(k) ==
  /\ k \in collector.workers \/ collector.backfill[k] # 0
  /\ feed[k] = NoFeed
  /\ feed' = [feed EXCEPT ![k] = Registered(@)]
  /\ UNCHANGED <<settings, commands, collector, beat, bounds, raised>>

\* A heartbeat of a worker reads the feed and is let in; one that reports the
\* status the feed has already writes none.
HeartbeatRead(k) ==
  /\ k \in collector.workers /\ feed[k] # NoFeed /\ ~Blocked(feed[k]) /\ beat[k] = "none"
  /\ \E status \in Reported \ {feed[k].status} : beat' = [beat EXCEPT ![k] = status]
  /\ UNCHANGED <<settings, feed, commands, collector, bounds, raised>>

\* It commits without looking again, also when its worker has been stopped.
HeartbeatCommit(k) ==
  /\ beat[k] # "none"
  /\ feed' = [feed EXCEPT ![k].status = beat[k]]
  /\ beat' = [beat EXCEPT ![k] = "none"]
  /\ UNCHANGED <<settings, commands, collector, bounds, raised>>

\* A backfill has stored its range, or has failed, and reports that.
BackfillEnd(k) ==
  /\ collector.backfill[k] # 0
  /\ \E status \in {"SUCCEEDED", "FAILED"} :
       \/ /\ commands[collector.backfill[k]].status # "DELETED"
          /\ Applied(collector.backfill[k], status) /\ UNCHANGED raised
       \/ /\ ~raised \/ commands[collector.backfill[k]].status = "DELETED"
          /\ raised' = TRUE /\ UNCHANGED <<commands, feed, globallyPaused>>
  /\ collector' = [collector EXCEPT !.backfill[k] = 0]
  /\ UNCHANGED <<instrument, beat, bounds>>

Next ==
  \/ \E action \in Actions, target \in Keys \cup {All} : CreateCommand(action, target)
  \/ \E c \in DOMAIN commands : DeleteCommand(c)
  \/ \E k \in Keys :
       \/ Enable(k) \/ Disable(k) \/ DeleteFeed(k)
       \/ RegisterFeed(k) \/ HeartbeatRead(k) \/ HeartbeatCommit(k) \/ BackfillEnd(k)
  \/ Start \/ Poll \/ PollLost \/ Reconcile \/ Handle \/ Report \/ ReportFails \/ Crash

Spec == Init /\ [][Next]_vars

\* The platform restarts the collector, whose loop goes on whatever a request
\* raises; a backfill ends.
Fairness ==
  /\ WF_vars(Start) /\ WF_vars(Poll) /\ WF_vars(Reconcile)
  /\ WF_vars(Handle) /\ WF_vars(Report) /\ WF_vars(ReportFails)
  /\ \A k \in Keys : WF_vars(BackfillEnd(k)) /\ WF_vars(RegisterFeed(k))

LiveSpec == Spec /\ Fairness

-----------------------------------------------------------------------------
(* Properties. *)

\* The commands that pause or resume the feed of an instrument.
Wishes(k) ==
  {c \in DOMAIN commands : /\ commands[c].action \in {"PAUSE", "RESUME"}
                           /\ Reaches(commands[c].target, k) /\ commands[c].status # "DELETED"}

Open(c) == commands[c].status \notin Ended

\* The last word holds: when the last command for a feed has succeeded and none
\* before it is open, the feed is paused exactly if that command was PAUSE, though
\* commands are carried out late, twice, or by another process.  A failed request
\* of the collector (raised) breaks it: what it has left behind is carried out
\* after newer commands.  A PAUSE for every feed leaves out those that are
\* registered later.
LastWordHolds ==
  raised \/ \A k \in Keys :
    \A c \in Wishes(k) :
      /\ feed[k] # NoFeed /\ commands[c].status = "SUCCEEDED"
      /\ \A d \in Wishes(k) : d <= c /\ ~Open(d)
      /\ commands[c].action = "RESUME" \/ k \in commands[c].reached
      => (Blocked(feed[k]) <=> commands[c].action = "PAUSE")

\* A paused feed takes data again only when a RESUME for it succeeds.
PausedUntilResumed ==
  [][\A k \in Keys : Blocked(feed[k]) /\ feed'[k] # NoFeed /\ ~Blocked(feed'[k]) =>
       \E c \in Wishes(k) :
         commands[c].action = "RESUME" /\ Open(c) /\ commands'[c].status = "SUCCEEDED"]_vars

\* An instrument the collector holds back is paused in the database too, unless a
\* command for it is open or was cancelled, or its feed has been deleted.
HeldBackIsPaused ==
  \A k \in collector.paused :
    \/ feed[k] = NoFeed \/ deletes > 0
    \/ \E c \in Wishes(k) : commands[c].status # "SUCCEEDED"
    \/ Blocked(feed[k])

\* Every command ends, though the collector crashes in between, unless a request of
\* the collector fails: the commands of that poll then stay RUNNING until the
\* collector is started again.
CommandsEnd ==
  []~raised => \A c \in 1 .. MaxCommands :
    c \in DOMAIN commands /\ Open(c) ~> c \in DOMAIN commands /\ ~Open(c)

\* What stays enabled and not paused is collected in the end, unless the collector
\* holds it back.
EnabledIsCollected ==
  \A k \in Keys :
    <>[](Wanted(k) /\ k \notin collector.paused) => []<>(k \in collector.workers)

=============================================================================
