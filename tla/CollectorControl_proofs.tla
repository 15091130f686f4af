------------------------ MODULE CollectorControl_proofs ------------------------
(***************************************************************************)
(* Proofs about CollectorControl, for any number of feeds, commands,       *)
(* crashes and deletions: a pause lasts until a RESUME succeeds, what the  *)
(* collector holds back is paused, and the last command decides.           *)
(***************************************************************************)
EXTENDS CollectorControl, FiniteSetTheorems, WellFoundedInduction, TLAPS

-----------------------------------------------------------------------------
(* Commands and the queue. *)

\* The commands are rows 1, 2, ...
LEMMA Rows ==
  ASSUME TypeOK
  PROVE  /\ Len(commands) \in Nat /\ DOMAIN commands = 1 .. Len(commands)
         /\ \A c \in DOMAIN commands : c \in Nat /\ commands[c] \in Command
<1> QED
  BY DEF TypeOK

\* What is changed row by row is still a sequence of commands.
LEMMA SameRows ==
  ASSUME TypeOK, NEW f \in [DOMAIN commands -> Command]
  PROVE  f \in Seq(Command) /\ Len(f) = Len(commands) /\ DOMAIN f = DOMAIN commands
<1>1. Len(commands) \in Nat /\ DOMAIN commands = 1 .. Len(commands)
  BY Rows
<1> QED
  BY <1>1

\* A queue that is not empty has an oldest command.
LEMMA Oldest ==
  ASSUME TypeOK, collector.queue # {}
  PROVE  /\ Current \in collector.queue /\ Current \in DOMAIN commands
         /\ \A d \in collector.queue : Current <= d
<1>1. collector.queue \subseteq Nat /\ collector.queue \subseteq DOMAIN commands
  BY Rows DEF TypeOK
<1>2. PICK c \in collector.queue : \A d \in collector.queue : ~ (<<d, c>> \in OpToRel(<, Nat))
  BY <1>1, NatLessThanWellFounded, WFMin
<1>3. \A d \in collector.queue : c <= d
  <2> SUFFICES ASSUME NEW d \in collector.queue, d < c PROVE FALSE
    BY <1>1
  <2>1. <<d, c>> \in Nat \X Nat /\ <<d, c>>[1] < <<d, c>>[2]
    BY <1>1
  <2>2. <<d, c>> \in OpToRel(<, Nat)
    BY <2>1 DEF OpToRel
  <2> QED
    BY <1>2, <2>2
<1>4. Current \in collector.queue /\ \A d \in collector.queue : Current <= d
  BY <1>3 DEF Current
<1> QED
  BY <1>1, <1>4

\* An older command that waits is polled too.
LEMMA PolledInOrder ==
  ASSUME TypeOK, NEW c \in Polled, NEW d \in Waiting, d < c
  PROVE  d \in Polled
<1> DEFINE Older(e) == {i \in Waiting : i < e}
<1>1. c \in Waiting /\ Cardinality(Older(c)) < PollLimit
  BY DEF Polled
<1>2. Waiting \subseteq 1 .. Len(commands) /\ Len(commands) \in Nat
  BY Rows DEF Waiting
<1>3. IsFiniteSet(1 .. Len(commands))
  BY <1>2, FS_Interval
<1>4. Older(c) \in SUBSET (1 .. Len(commands)) /\ Older(d) \in SUBSET Older(c)
  <2>1. \A e \in Waiting : e \in Int
    BY <1>2
  <2>2. \A e \in Older(d) : e \in Older(c)
    BY <1>1, <2>1
  <2> QED
    BY <1>2, <2>2
<1>5. IsFiniteSet(Older(c))
  <2> HIDE DEF Older
  <2> QED
    BY <1>3, <1>4, FS_Subset
<1>6. Cardinality(Older(d)) <= Cardinality(Older(c)) /\ IsFiniteSet(Older(d))
  <2> HIDE DEF Older
  <2> QED
    BY <1>4, <1>5, FS_Subset
<1>7. Cardinality(Older(d)) \in Nat /\ Cardinality(Older(c)) \in Nat
  <2> HIDE DEF Older
  <2> QED
    BY <1>5, <1>6, FS_CardinalityType
<1>8. Cardinality(Older(d)) < PollLimit
  <2> HIDE DEF Older
  <2> QED
    BY <1>1, <1>6, <1>7, ControlAssumption
<1> QED
  BY <1>8 DEF Polled

-----------------------------------------------------------------------------
(* Types. *)

\* The parts of a command that stay: what it does and to which feed.
Same(c) == commands'[c].action = commands[c].action /\ commands'[c].target = commands[c].target

\* What update_command does to the rows: the status of the command it is about,
\* unless that has ended, and the feeds that command reaches.
LEMMA AppliedRows ==
  ASSUME TypeOK, NEW c \in DOMAIN commands, NEW status \in {"SUCCEEDED", "FAILED"},
         Applied(c, status)
  PROVE  /\ commands' \in Seq(Command) /\ Len(commands') = Len(commands)
         /\ DOMAIN commands' = DOMAIN commands
         /\ \A d \in DOMAIN commands : d # c => commands'[d] = commands[d]
         /\ commands'[c] = IF Reportable(c) THEN [commands[c] EXCEPT !.status = status] ELSE commands[c]
         /\ feed' \in [Keys -> Feed \cup {NoFeed}]
         /\ globallyPaused' \in BOOLEAN
<1>1. commands[c] \in Command /\ [commands[c] EXCEPT !.status = status] \in Command
  BY Rows DEF Command, Ended
<1>2. commands \in [DOMAIN commands -> Command]
  BY Rows DEF TypeOK
<1>3. commands' = IF Reportable(c) THEN [commands EXCEPT ![c].status = status] ELSE commands
  BY DEF Applied
<1>4. commands' \in [DOMAIN commands -> Command]
  BY <1>1, <1>2, <1>3
<1>5. commands' \in Seq(Command) /\ Len(commands') = Len(commands) /\ DOMAIN commands' = DOMAIN commands
  BY <1>4, SameRows
<1>6. feed' \in [Keys -> Feed \cup {NoFeed}]
  BY DEF Applied, TypeOK, Feed, PauseFeed, ResumeFeed
<1>7. globallyPaused' \in BOOLEAN
  BY DEF Applied, TypeOK
<1> QED
  BY <1>2, <1>3, <1>5, <1>6, <1>7

\* The initial state has the types.
LEMMA InitTypes == Init => TypeOK
<1> SUFFICES ASSUME Init PROVE TypeOK
  OBVIOUS
<1>1. commands \in Seq(Command) /\ Len(commands) = 0 /\ DOMAIN commands = {}
  BY DEF Init
<1>2. crashes \in 0 .. MaxCrashes /\ deletes \in 0 .. MaxDeletes /\ 0 <= MaxCommands
  BY ControlAssumption DEF Init
<1> QED
  BY <1>1, <1>2 DEF Init, TypeOK, Supervisor, NoBackfill

\* The requests of users keep the types.
LEMMA UserTypes ==
  ASSUME TypeOK, \/ \E action \in Actions, target \in Keys \cup {All} : CreateCommand(action, target)
                 \/ \E c \in DOMAIN commands : DeleteCommand(c)
                 \/ \E k \in Keys : Enable(k) \/ Disable(k) \/ DeleteFeed(k)
  PROVE  TypeOK'
<1> USE Rows
<1>1. ASSUME NEW action \in Actions, NEW target \in Keys \cup {All}, CreateCommand(action, target)
      PROVE  TypeOK'
  <2> DEFINE row == [action |-> action, target |-> target, status |-> "PENDING",
                     reached |-> Targeted(target)]
  <2>1. row \in Command
    BY DEF Command, Targeted
  <2>2. commands' = Append(commands, row) /\ Len(commands) < MaxCommands
    BY <1>1 DEF CreateCommand
  <2>3. /\ commands' \in Seq(Command) /\ Len(commands') <= MaxCommands
        /\ DOMAIN commands \subseteq DOMAIN commands'
    <3> HIDE DEF row
    <3> QED
      BY <2>1, <2>2, ControlAssumption DEF TypeOK
  <2>4. feed' \in [Keys -> Feed \cup {NoFeed}] /\ globallyPaused' \in BOOLEAN
    <3>1. feed \in [Keys -> Feed \cup {NoFeed}] /\ globallyPaused \in BOOLEAN
      BY DEF TypeOK
    <3>2. \A k \in Keys : PauseFeed(feed[k]) \in Feed
      BY DEF PauseFeed, Feed
    <3>3. CASE action = "PAUSE"
      BY <1>1, <3>1, <3>2, <3>3 DEF CreateCommand
    <3>4. CASE action # "PAUSE"
      BY <1>1, <3>1, <3>4 DEF CreateCommand
    <3> QED
      BY <3>3, <3>4
  <2>5. UNCHANGED <<instrument, collector, beat, crashes, deletes, raised>>
    BY <1>1 DEF CreateCommand, bounds
  <2> QED
    BY <2>3, <2>4, <2>5 DEF TypeOK
<1>2. ASSUME NEW c \in DOMAIN commands, DeleteCommand(c) PROVE TypeOK'
  <2>1. /\ commands' = [commands EXCEPT ![c].status = "FAILED"]
        /\ UNCHANGED <<instrument, globallyPaused, feed, collector, beat, crashes, deletes, raised>>
    BY <1>2 DEF DeleteCommand, settings, bounds
  <2>2. [commands[c] EXCEPT !.status = "FAILED"] \in Command
    BY DEF Command, Ended
  <2>3. commands' \in [DOMAIN commands -> Command]
    BY <2>1, <2>2 DEF TypeOK
  <2>4. commands' \in Seq(Command) /\ Len(commands') = Len(commands) /\ DOMAIN commands' = DOMAIN commands
    BY <2>3, SameRows
  <2> QED
    BY <2>1, <2>4 DEF TypeOK
<1>3. ASSUME NEW k \in Keys, Enable(k) \/ Disable(k) PROVE TypeOK'
  BY <1>3 DEF TypeOK, Enable, Disable, bounds
<1>4. ASSUME NEW k \in Keys, DeleteFeed(k) PROVE TypeOK'
  <2>1. commands' \in [DOMAIN commands -> Command]
    <3>1. \A c \in DOMAIN commands :
            [commands[c] EXCEPT !.status = IF commands[c].target = k THEN "DELETED" ELSE @,
                                !.reached = @ \ {k}] \in Command
      BY DEF Command, Ended
    <3> QED
      BY <1>4, <3>1 DEF DeleteFeed
  <2>2. commands' \in Seq(Command) /\ Len(commands') = Len(commands) /\ DOMAIN commands' = DOMAIN commands
    BY <2>1, SameRows
  <2>3. deletes' \in 0 .. MaxDeletes
    <3>1. MaxDeletes \in Nat
      BY ControlAssumption
    <3>2. deletes \in 0 .. MaxDeletes
      BY DEF TypeOK
    <3>3. deletes < MaxDeletes /\ deletes' = deletes + 1
      BY <1>4 DEF DeleteFeed
    <3> QED
      BY <3>1, <3>2, <3>3
  <2>4. /\ feed' = [feed EXCEPT ![k] = NoFeed]
        /\ instrument' = [instrument EXCEPT ![k] = "DISABLED"]
        /\ beat' = [beat EXCEPT ![k] = "none"]
        /\ UNCHANGED <<globallyPaused, collector, crashes, raised>>
    BY <1>4 DEF DeleteFeed
  <2> QED
    BY <2>2, <2>3, <2>4 DEF TypeOK
<1> QED
  BY <1>1, <1>2, <1>3, <1>4

\* The control loop keeps the types.
LEMMA LoopTypes ==
  ASSUME TypeOK, collector.at = "reporting" => collector.queue # {},
         Start \/ Poll \/ PollLost \/ Reconcile \/ Handle \/ Report \/ ReportFails \/ Crash
  PROVE  TypeOK'
<1> USE Rows
<1>1. ASSUME commands' \in [DOMAIN commands -> Command]
      PROVE  commands' \in Seq(Command) /\ Len(commands') = Len(commands) /\ DOMAIN commands' = DOMAIN commands
  BY <1>1, SameRows
<1>2. CASE Start
  <2>1. commands' \in [DOMAIN commands -> Command]
    <3>1. \A c \in DOMAIN commands : Requeued(commands[c]) \in Command
      BY DEF Command, Requeued
    <3> QED
      BY <1>2, <3>1 DEF Start
  <2> QED
    BY <1>1, <1>2, <2>1 DEF Start, TypeOK, Supervisor, NoBackfill, bounds
<1>3. CASE Poll \/ PollLost
  <2>1. commands' \in [DOMAIN commands -> Command]
    <3>1. \A c \in DOMAIN commands : [commands[c] EXCEPT !.status = "RUNNING"] \in Command
      BY DEF Command
    <3> QED
      BY <1>3, <3>1 DEF Poll, PollLost, PollStatus
  <2>2. Polled \subseteq DOMAIN commands /\ {k \in Keys : Wanted(k)} \subseteq Keys
    BY DEF Polled, Waiting
  <2>3. UNCHANGED <<instrument, globallyPaused, feed, beat, crashes, deletes>> /\ raised' \in BOOLEAN
    BY <1>3 DEF Poll, PollLost, TypeOK, settings, bounds
  <2>4. \/ UNCHANGED collector
        \/ collector' = [collector EXCEPT !.at = "polled", !.queue = Polled,
                                          !.wanted = {k \in Keys : Wanted(k)}]
    BY <1>3 DEF Poll, PollLost
  <2>5. /\ commands' \in Seq(Command) /\ Len(commands') = Len(commands)
        /\ DOMAIN commands' = DOMAIN commands
    BY <1>1, <2>1
  <2> QED
    BY <2>2, <2>3, <2>4, <2>5 DEF TypeOK
<1>4. CASE Reconcile
  BY <1>4 DEF Reconcile, TypeOK, Desired, settings, bounds
<1>5. CASE Handle
  <2>1. Current \in DOMAIN commands
    BY <1>5, Oldest DEF Handle
  <2>2. commands[Current] \in Command
    BY <2>1
  <2>3. UNCHANGED <<instrument, globallyPaused, feed, commands, beat, crashes, deletes, raised>>
    BY <1>5 DEF Handle, settings, bounds
  <2> DEFINE command == commands[Current]
  <2>4. CASE collector' = [collector EXCEPT !.backfill[command.target] = Current,
                                            !.queue = @ \ {Current}]
    BY <2>1, <2>3, <2>4 DEF TypeOK
  <2>5. CASE collector' = [Carried(collector, command) EXCEPT !.at = "reporting"]
    <3>1. HeldBack(collector.paused, command) \in SUBSET Keys
      BY <2>2 DEF TypeOK, HeldBack, Command
    <3> QED
      BY <2>3, <2>5, <3>1 DEF TypeOK, Carried
  <2> QED
    BY <1>5, <2>4, <2>5 DEF Handle
<1>6. ASSUME collector.at = "reporting", NEW status \in {"SUCCEEDED", "FAILED"}, Applied(Current, status)
      PROVE  /\ commands' \in Seq(Command) /\ Len(commands') = Len(commands)
             /\ DOMAIN commands' = DOMAIN commands
             /\ feed' \in [Keys -> Feed \cup {NoFeed}]
             /\ globallyPaused' \in BOOLEAN
  <2>1. Current \in DOMAIN commands
    BY <1>6, Oldest
  <2> QED
    BY <1>6, <2>1, AppliedRows
<1>7. Outcome(Current) \in {"SUCCEEDED", "FAILED"}
  BY DEF Outcome
<1>8. CASE Report
  <2>1. /\ collector' = [collector EXCEPT !.at = "handling", !.queue = @ \ {Current}]
        /\ UNCHANGED <<instrument, beat, crashes, deletes, raised>>
    BY <1>8 DEF Report, bounds
  <2> QED
    BY <1>6, <1>7, <1>8, <2>1 DEF Report, TypeOK
<1>9. CASE ReportFails
  <2>1. /\ collector' = [collector EXCEPT !.at = "handling", !.queue = {}]
        /\ UNCHANGED <<instrument, beat, crashes, deletes>> /\ raised' \in BOOLEAN
    BY <1>9 DEF ReportFails, bounds
  <2>2. \/ UNCHANGED <<commands, feed, globallyPaused>>
        \/ Applied(Current, Outcome(Current))
    BY <1>9 DEF ReportFails
  <2>3. collector.at = "reporting"
    BY <1>9 DEF ReportFails
  <2> QED
    BY <1>6, <1>7, <2>1, <2>2, <2>3 DEF TypeOK
<1>10. CASE Crash
  <2>1. crashes' \in 0 .. MaxCrashes
    <3>1. MaxCrashes \in Nat
      BY ControlAssumption
    <3> QED
      BY <1>10, <3>1 DEF Crash, TypeOK
  <2>2. /\ collector' = Supervisor("down")
        /\ UNCHANGED <<instrument, globallyPaused, feed, commands, beat, deletes, raised>>
    BY <1>10 DEF Crash, settings
  <2> QED
    BY <2>1, <2>2 DEF TypeOK, Supervisor, NoBackfill
<1> QED
  BY <1>2, <1>3, <1>4, <1>5, <1>8, <1>9, <1>10

\* The threads of the collector keep the types.
LEMMA ThreadTypes ==
  ASSUME TypeOK, NEW k \in Keys,
         RegisterFeed(k) \/ HeartbeatRead(k) \/ HeartbeatCommit(k) \/ BackfillEnd(k)
  PROVE  TypeOK'
<1>1. CASE RegisterFeed(k)
  BY <1>1 DEF RegisterFeed, Registered, TypeOK, Feed, settings, bounds
<1>2. CASE HeartbeatRead(k)
  BY <1>2 DEF HeartbeatRead, TypeOK, settings, bounds
<1>3. CASE HeartbeatCommit(k)
  <2>1. beat[k] \in Reported
    BY <1>3 DEF HeartbeatCommit, TypeOK
  <2>2. \A f \in Feed \cup {NoFeed} : [f EXCEPT !.status = beat[k]] \in Feed
    <3>1. beat[k] # "PAUSED"
      BY <2>1, ControlAssumption
    <3>2. \A f \in Feed : [f EXCEPT !.status = beat[k]] \in Feed
      BY <2>1, <3>1 DEF Feed
    <3>3. [NoFeed EXCEPT !.status = beat[k]] \in Feed
      BY <2>1, <3>1 DEF Feed, NoFeed
    <3> QED
      BY <3>2, <3>3
  <2> QED
    BY <1>3, <2>2 DEF HeartbeatCommit, TypeOK, settings, bounds
<1>4. CASE BackfillEnd(k)
  <2>1. collector.backfill[k] \in DOMAIN commands
    BY <1>4 DEF BackfillEnd, TypeOK
  <2>2. /\ collector' = [collector EXCEPT !.backfill[k] = 0]
        /\ UNCHANGED <<instrument, beat, crashes, deletes>> /\ raised' \in BOOLEAN
    BY <1>4 DEF BackfillEnd, TypeOK, bounds
  <2>3. PICK status \in {"SUCCEEDED", "FAILED"} :
          \/ Applied(collector.backfill[k], status)
          \/ UNCHANGED <<commands, feed, globallyPaused>>
    BY <1>4 DEF BackfillEnd
  <2>4. /\ commands' \in Seq(Command) /\ Len(commands') = Len(commands)
        /\ DOMAIN commands' = DOMAIN commands
        /\ feed' \in [Keys -> Feed \cup {NoFeed}] /\ globallyPaused' \in BOOLEAN
    BY <2>1, <2>3, AppliedRows DEF TypeOK
  <2> QED
    BY <2>2, <2>4 DEF TypeOK
<1> QED
  BY <1>1, <1>2, <1>3, <1>4

\* While the supervisor reports, it has a command at hand.
HasCommand == collector.at = "reporting" => collector.queue # {}

\* What the state needs for a step: the types, and a command that is reported.
Typed == TypeOK /\ HasCommand

\* Every step keeps the types, and reports begin with a command at hand.
LEMMA StepTypes == Typed /\ [Next]_vars => Typed'
<1> SUFFICES ASSUME Typed, [Next]_vars PROVE TypeOK' /\ HasCommand'
  BY DEF Typed
<1>1. TypeOK /\ (collector.at = "reporting" => collector.queue # {})
  BY DEF Typed, HasCommand
<1>2. CASE UNCHANGED vars
  BY <1>1, <1>2 DEF vars, TypeOK, HasCommand
<1>3. CASE Next
  <2>1. TypeOK'
    BY <1>1, <1>3, UserTypes, LoopTypes, ThreadTypes DEF Next
  <2>2. ASSUME Handle PROVE HasCommand'
    BY <1>1, <2>2 DEF Handle, HasCommand, TypeOK, Carried
  <2>3. ASSUME Start \/ Poll \/ PollLost \/ Reconcile \/ Report \/ ReportFails \/ Crash PROVE HasCommand'
    <3>1. CASE Start \/ Crash
      BY <3>1 DEF Start, Crash, Supervisor, HasCommand
    <3>2. CASE Poll \/ Reconcile \/ Report \/ ReportFails
      <4>1. collector'.at \in {"polled", "handling"}
        BY <1>1, <3>2 DEF Poll, Reconcile, Report, ReportFails, TypeOK
      <4> QED
        BY <4>1 DEF HasCommand
    <3>3. CASE PollLost
      BY <1>1, <3>3 DEF PollLost, HasCommand
    <3> QED
      BY <2>3, <3>1, <3>2, <3>3
  <2>4. ASSUME NEW k \in Keys, BackfillEnd(k) PROVE HasCommand'
    BY <1>1, <2>4 DEF BackfillEnd, HasCommand, TypeOK
  <2>5. ASSUME UNCHANGED collector PROVE HasCommand'
    BY <1>1, <2>5 DEF HasCommand
  <2>6. \/ Handle
        \/ Start \/ Poll \/ PollLost \/ Reconcile \/ Report \/ ReportFails \/ Crash
        \/ \E k \in Keys : BackfillEnd(k)
        \/ UNCHANGED collector
    BY <1>3 DEF Next, CreateCommand, DeleteCommand, Enable, Disable, DeleteFeed, RegisterFeed,
                HeartbeatRead, HeartbeatCommit
  <2> QED
    BY <2>1, <2>2, <2>3, <2>4, <2>5, <2>6
<1> QED
  BY <1>2, <1>3

\* Initially nothing is reported.
LEMMA InitTyped == Init => Typed
<1> QED
  BY InitTypes DEF Init, Typed, HasCommand, Supervisor

\* The tables, and what the collector holds, have their types.
THEOREM TypeCorrect == Spec => []TypeOK
<1>1. Typed => TypeOK
  BY DEF Typed
<1> QED
  BY InitTyped, StepTypes, <1>1, PTL DEF Spec

-----------------------------------------------------------------------------
(* A pause lasts. *)

\* A heartbeat that commits neither pauses nor resumes a feed.
LEMMA HeartbeatKeeps ==
  ASSUME TypeOK, NEW h \in Keys, HeartbeatCommit(h), NEW k \in Keys, feed[k] # NoFeed
  PROVE  (Blocked(feed'[k]) <=> Blocked(feed[k])) /\ feed'[k] # NoFeed
<1>1. feed[k] \in Feed /\ feed \in [Keys -> Feed \cup {NoFeed}]
  BY DEF TypeOK
<1>2. beat[h] \in Reported /\ beat[h] # "PAUSED" /\ beat[h] # "ABSENT"
  BY ControlAssumption DEF TypeOK, HeartbeatCommit
<1>3. feed' = [feed EXCEPT ![h].status = beat[h]]
  BY DEF HeartbeatCommit
<1>4. CASE k # h
  BY <1>1, <1>3, <1>4
<1>5. CASE k = h
  <2>1. feed'[k] = [feed[k] EXCEPT !.status = beat[h]]
    BY <1>1, <1>3, <1>5
  <2> QED
    BY <1>1, <1>2, <2>1 DEF Feed, NoFeed, Blocked
<1> QED
  BY <1>4, <1>5

\* A feed that was paused and is not any more was resumed by the report of a RESUME.
LEMMA AppliedResumes ==
  ASSUME TypeOK, NEW c \in DOMAIN commands, NEW status \in {"SUCCEEDED", "FAILED"},
         Applied(c, status), commands[c].status # "DELETED", NEW k \in Keys,
         Blocked(feed[k]), ~ Blocked(feed'[k])
  PROVE  /\ c \in Wishes(k) /\ commands[c].action = "RESUME" /\ Open(c)
         /\ commands'[c].status = "SUCCEEDED"
<1>1. /\ status = "SUCCEEDED" /\ Reportable(c) /\ k \in Targeted(commands[c].target)
      /\ commands[c].action = "RESUME"
  BY DEF Applied, PauseFeed, Blocked
<1>2. commands'[c] = [commands[c] EXCEPT !.status = status] /\ commands[c] \in Command
  BY <1>1, AppliedRows, Rows
<1>3. commands'[c].status = "SUCCEEDED"
  BY <1>1, <1>2 DEF Command
<1> QED
  BY <1>1, <1>3 DEF Wishes, Targeted, Open, Reportable

\* A paused feed takes data again only when a RESUME for it succeeds, whatever
\* heartbeats, registrations and repeated commands come in between.
Resumes(k) ==
  Blocked(feed[k]) /\ feed'[k] # NoFeed /\ ~Blocked(feed'[k]) =>
    \E c \in Wishes(k) :
      commands[c].action = "RESUME" /\ Open(c) /\ commands'[c].status = "SUCCEEDED"

\* Every step of the system obeys it.
LEMMA StepResumes ==
  ASSUME Typed, [Next]_vars, NEW k \in Keys
  PROVE  Resumes(k)
<1> SUFFICES ASSUME Blocked(feed[k]), feed'[k] # NoFeed, ~Blocked(feed'[k])
             PROVE  \E c \in Wishes(k) :
                      commands[c].action = "RESUME" /\ Open(c) /\ commands'[c].status = "SUCCEEDED"
  BY DEF Resumes
<1>1. TypeOK /\ (collector.at = "reporting" => collector.queue # {})
  BY DEF Typed, HasCommand
<1>2. feed[k] # NoFeed /\ feed \in [Keys -> Feed \cup {NoFeed}]
  BY <1>1 DEF Blocked, NoFeed, TypeOK
<1>3. CASE UNCHANGED feed
  BY <1>3
<1>4. ASSUME NEW action \in Actions, NEW target \in Keys \cup {All}, CreateCommand(action, target)
      PROVE  FALSE
  BY <1>2, <1>4 DEF CreateCommand, PauseFeed, Blocked
<1>5. ASSUME NEW h \in Keys, DeleteFeed(h) \/ RegisterFeed(h) PROVE FALSE
  BY <1>2, <1>5 DEF DeleteFeed, RegisterFeed
<1>6. ASSUME NEW h \in Keys, HeartbeatCommit(h) PROVE FALSE
  BY <1>1, <1>2, <1>6, HeartbeatKeeps
<1>7. ASSUME NEW c \in DOMAIN commands, NEW status \in {"SUCCEEDED", "FAILED"},
             Applied(c, status), commands[c].status # "DELETED"
      PROVE  \E d \in Wishes(k) :
               commands[d].action = "RESUME" /\ Open(d) /\ commands'[d].status = "SUCCEEDED"
  BY <1>1, <1>7, AppliedResumes
<1>8. CASE Report \/ ReportFails
  <2>1. Current \in DOMAIN commands
    BY <1>1, <1>8, Oldest DEF Report, ReportFails
  <2>2. Outcome(Current) \in {"SUCCEEDED", "FAILED"}
    BY DEF Outcome
  <2>3. \/ UNCHANGED feed
        \/ Applied(Current, Outcome(Current)) /\ commands[Current].status # "DELETED"
    BY <1>8 DEF Report, ReportFails
  <2> QED
    BY <1>3, <1>7, <2>1, <2>2, <2>3
<1>9. ASSUME NEW h \in Keys, BackfillEnd(h)
      PROVE  \E c \in Wishes(k) :
               commands[c].action = "RESUME" /\ Open(c) /\ commands'[c].status = "SUCCEEDED"
  <2>1. collector.backfill[h] \in DOMAIN commands
    BY <1>1, <1>9 DEF BackfillEnd, TypeOK
  <2>2. \/ UNCHANGED feed
        \/ \E status \in {"SUCCEEDED", "FAILED"} :
             /\ Applied(collector.backfill[h], status)
             /\ commands[collector.backfill[h]].status # "DELETED"
    BY <1>9 DEF BackfillEnd
  <2> QED
    BY <1>3, <1>7, <2>1, <2>2
<1>10. \/ UNCHANGED feed
       \/ \E action \in Actions, target \in Keys \cup {All} : CreateCommand(action, target)
       \/ \E h \in Keys : DeleteFeed(h) \/ RegisterFeed(h) \/ HeartbeatCommit(h) \/ BackfillEnd(h)
       \/ Report \/ ReportFails
  BY DEF Next, vars, DeleteCommand, Enable, Disable, HeartbeatRead, Start, Poll, PollLost,
         Reconcile, Handle, Crash
<1> QED
  BY <1>3, <1>4, <1>5, <1>6, <1>8, <1>9, <1>10

\* A paused feed takes data again only when a RESUME for it succeeds.
THEOREM PauseLasts == Spec => PausedUntilResumed
<1>1. Typed /\ [Next]_vars => [\A k \in Keys : Resumes(k)]_vars
  BY StepResumes
<1> QED
  BY InitTyped, StepTypes, <1>1, PTL DEF Spec, PausedUntilResumed, Resumes

-----------------------------------------------------------------------------
(* What a step does to commands and feeds. *)

\* What remains of a command: it does the same, and once it has ended it has ended.
Kept(c) ==
  /\ c \in DOMAIN commands' /\ Same(c)
  /\ commands'[c].reached \subseteq commands[c].reached
  /\ commands[c].status \in Ended => commands'[c].status \in Ended
  /\ commands[c].status = "SUCCEEDED" => commands'[c].status \in {"SUCCEEDED", "DELETED"}
  /\ commands'[c].status = "DELETED" => commands[c].status = "DELETED" \/ deletes' = deletes + 1

\* A new command is the newest, waits, and is about feeds that there are.
New(c) ==
  /\ c = Len(commands) + 1 /\ commands'[c].status = "PENDING"
  /\ commands'[c].target \in Keys => feed'[commands'[c].target] # NoFeed
  /\ \A k \in commands'[c].reached : feed'[k] # NoFeed

\* A command that is applied remains.
LEMMA AppliedKeeps ==
  ASSUME TypeOK, NEW c \in DOMAIN commands, NEW status \in {"SUCCEEDED", "FAILED"},
         Applied(c, status)
  PROVE  DOMAIN commands' = DOMAIN commands /\ \A d \in DOMAIN commands : Kept(d)
<1>1. /\ DOMAIN commands' = DOMAIN commands
      /\ \A d \in DOMAIN commands : d # c => commands'[d] = commands[d]
      /\ commands'[c] = IF Reportable(c) THEN [commands[c] EXCEPT !.status = status] ELSE commands[c]
  BY AppliedRows
<1>2. \A d \in DOMAIN commands : commands[d] \in Command
  BY Rows
<1> QED
  BY <1>1, <1>2 DEF Kept, Same, Reportable, Command, Ended

\* Commands are created, never removed, and remain what they are.
LEMMA RowsKept ==
  ASSUME Typed, [Next]_vars
  PROVE  /\ \A c \in DOMAIN commands : Kept(c)
         /\ \A c \in DOMAIN commands' \ DOMAIN commands : New(c)
<1>1. TypeOK /\ (collector.at = "reporting" => collector.queue # {})
  BY DEF Typed, HasCommand
<1>2. /\ Len(commands) \in Nat /\ DOMAIN commands = 1 .. Len(commands)
      /\ \A c \in DOMAIN commands : c \in Nat /\ commands[c] \in Command
  BY <1>1, Rows
<1> DEFINE Goal == /\ \A c \in DOMAIN commands : Kept(c)
                   /\ \A c \in DOMAIN commands' \ DOMAIN commands : New(c)
<1>3. ASSUME UNCHANGED commands PROVE Goal
  BY <1>2, <1>3 DEF Kept, Same
<1>4. ASSUME NEW action \in Actions, NEW target \in Keys \cup {All}, CreateCommand(action, target)
      PROVE  Goal
  <2> DEFINE row == [action |-> action, target |-> target, status |-> "PENDING",
                     reached |-> Targeted(target)]
  <2>1. commands' = Append(commands, row)
    BY <1>4 DEF CreateCommand
  <2>2. commands \in Seq(Command)
    BY <1>1 DEF TypeOK
  <2>3. /\ DOMAIN commands' = 1 .. Len(commands) + 1
        /\ \A c \in DOMAIN commands : commands'[c] = commands[c]
        /\ commands'[Len(commands) + 1] = row
    <3> HIDE DEF row
    <3> QED
      BY <1>2, <2>1, <2>2
  <2>4. \A c \in DOMAIN commands : Kept(c)
    BY <1>2, <2>3 DEF Kept, Same
  <2>5. \A k \in Keys : feed[k] # NoFeed => feed'[k] # NoFeed
    <3>1. \A k \in Keys : PauseFeed(feed[k]) # NoFeed
      BY DEF PauseFeed, NoFeed
    <3>2. CASE action = "PAUSE"
      BY <1>4, <3>1, <3>2 DEF CreateCommand
    <3>3. CASE action # "PAUSE"
      BY <1>4, <3>3 DEF CreateCommand
    <3> QED
      BY <3>2, <3>3
  <2>6. target \in Keys => feed[target] # NoFeed
    BY <1>4 DEF CreateCommand
  <2>7. New(Len(commands) + 1)
    BY <2>3, <2>5, <2>6 DEF New, Targeted
  <2> QED
    BY <1>2, <2>3, <2>4, <2>7
<1>5. ASSUME NEW c \in DOMAIN commands, DeleteCommand(c) PROVE Goal
  <2>1. commands' = [commands EXCEPT ![c].status = "FAILED"] /\ commands[c].status \notin Ended
    BY <1>5 DEF DeleteCommand
  <2> QED
    BY <1>2, <2>1 DEF Kept, Same, Ended, Command
<1>6. ASSUME NEW k \in Keys, DeleteFeed(k) PROVE Goal
  <2>1. /\ DOMAIN commands' = DOMAIN commands
        /\ \A c \in DOMAIN commands : commands'[c] =
             [commands[c] EXCEPT !.status = IF commands[c].target = k THEN "DELETED" ELSE @,
                                 !.reached = @ \ {k}]
        /\ deletes' = deletes + 1
    BY <1>6 DEF DeleteFeed
  <2>2. ASSUME NEW c \in DOMAIN commands PROVE Kept(c)
    <3>1. commands[c] \in Command
      BY <1>2
    <3>2. /\ Same(c) /\ commands'[c].reached = commands[c].reached \ {k}
          /\ commands'[c].status \in {"DELETED", commands[c].status}
      BY <2>1, <3>1 DEF Command, Same
    <3> QED
      BY <2>1, <3>2 DEF Kept, Ended
  <2> QED
    BY <2>1, <2>2
<1>7. CASE Start
  BY <1>2, <1>7 DEF Start, Requeued, Kept, Same, Ended, Command
<1>8. CASE Poll \/ PollLost
  <2>1. /\ DOMAIN commands' = DOMAIN commands
        /\ \A c \in DOMAIN commands :
             \/ commands'[c] = commands[c]
             \/ c \in Polled /\ commands'[c] = [commands[c] EXCEPT !.status = "RUNNING"]
    BY <1>8 DEF Poll, PollLost, PollStatus
  <2>2. \A c \in Polled : commands[c].status = "PENDING"
    BY DEF Polled, Waiting
  <2> QED
    BY <1>2, <2>1, <2>2 DEF Kept, Same, Ended, Command
<1>9. CASE Report \/ ReportFails
  <2>1. Current \in DOMAIN commands
    BY <1>1, <1>9, Oldest DEF Report, ReportFails
  <2>2. Outcome(Current) \in {"SUCCEEDED", "FAILED"}
    BY DEF Outcome
  <2>3. UNCHANGED commands \/ Applied(Current, Outcome(Current))
    BY <1>9 DEF Report, ReportFails
  <2>4. CASE Applied(Current, Outcome(Current))
    BY <1>1, <2>1, <2>2, <2>4, AppliedKeeps
  <2> QED
    BY <1>3, <2>3, <2>4
<1>10. ASSUME NEW k \in Keys, BackfillEnd(k) PROVE Goal
  <2>1. collector.backfill[k] \in DOMAIN commands
    BY <1>1, <1>10 DEF BackfillEnd, TypeOK
  <2>2. UNCHANGED commands \/ \E status \in {"SUCCEEDED", "FAILED"} : Applied(collector.backfill[k], status)
    BY <1>10 DEF BackfillEnd
  <2>3. ASSUME NEW status \in {"SUCCEEDED", "FAILED"}, Applied(collector.backfill[k], status)
        PROVE  Goal
    BY <1>1, <2>1, <2>3, AppliedKeeps
  <2> QED
    BY <1>3, <2>2, <2>3
<1>11. \/ UNCHANGED commands
       \/ \E action \in Actions, target \in Keys \cup {All} : CreateCommand(action, target)
       \/ \E c \in DOMAIN commands : DeleteCommand(c)
       \/ \E k \in Keys : DeleteFeed(k) \/ BackfillEnd(k)
       \/ Start \/ Poll \/ PollLost \/ Report \/ ReportFails
  BY DEF Next, vars, Enable, Disable, HeartbeatRead, HeartbeatCommit, RegisterFeed, Reconcile,
         Handle, Crash
<1> QED
  BY <1>3, <1>4, <1>5, <1>6, <1>7, <1>8, <1>9, <1>10, <1>11

\* A feed goes only when it is deleted.
LEMMA FeedsKept ==
  ASSUME Typed, [Next]_vars, NEW k \in Keys, feed[k] # NoFeed, feed'[k] = NoFeed
  PROVE  DeleteFeed(k)
<1>1. TypeOK /\ feed \in [Keys -> Feed \cup {NoFeed}]
  BY DEF Typed, TypeOK
<1>2. \A f : PauseFeed(f) # NoFeed /\ ResumeFeed(f) # NoFeed
  BY DEF PauseFeed, ResumeFeed, NoFeed
<1>3. ASSUME NEW action \in Actions, NEW target \in Keys \cup {All}, CreateCommand(action, target)
      PROVE  FALSE
  <2>1. CASE action = "PAUSE"
    BY <1>2, <1>3, <2>1 DEF CreateCommand
  <2>2. CASE action # "PAUSE"
    BY <1>3, <2>2 DEF CreateCommand
  <2> QED
    BY <2>1, <2>2
<1>4. ASSUME NEW h \in Keys, HeartbeatCommit(h) PROVE FALSE
  BY <1>1, <1>4, HeartbeatKeeps
<1>5. ASSUME NEW h \in Keys, RegisterFeed(h) PROVE FALSE
  BY <1>1, <1>5 DEF RegisterFeed
<1>6. ASSUME NEW c, NEW status, Applied(c, status) PROVE FALSE
  BY <1>2, <1>6 DEF Applied
<1>7. ASSUME NEW h \in Keys, DeleteFeed(h) PROVE h = k
  BY <1>1, <1>7 DEF DeleteFeed
<1>8. \/ UNCHANGED feed
      \/ \E action \in Actions, target \in Keys \cup {All} : CreateCommand(action, target)
      \/ \E h \in Keys : DeleteFeed(h) \/ RegisterFeed(h) \/ HeartbeatCommit(h)
      \/ \E c, status : Applied(c, status)
  BY DEF Next, vars, DeleteCommand, Enable, Disable, HeartbeatRead, Start, Poll, PollLost,
         Reconcile, Handle, Crash, Report, ReportFails, BackfillEnd
<1> QED
  BY <1>3, <1>4, <1>5, <1>6, <1>7, <1>8

-----------------------------------------------------------------------------
(* What the collector holds back. *)

\* A thread is for a backfill.
BackfillsOnly ==
  \A k \in Keys : collector.backfill[k] # 0 => commands[collector.backfill[k]].action = "BACKFILL"

\* What is still to be carried out has not succeeded, backfills apart.
QueueUnfinished ==
  \A c \in collector.queue : commands[c].action # "BACKFILL" => commands[c].status # "SUCCEEDED"

BeatsFeed == \A k \in Keys : beat[k] # "none" => feed[k] # NoFeed

ReachedExist == \A c \in DOMAIN commands : \A k \in commands[c].reached : feed[k] # NoFeed

\* As long as no feed has been deleted, commands and what is held back have their feeds.
Undeleted ==
  deletes = 0 =>
    /\ \A c \in DOMAIN commands :
         /\ commands[c].status # "DELETED"
         /\ commands[c].target \in Keys => feed[commands[c].target] # NoFeed
    /\ \A k \in collector.paused : feed[k] # NoFeed

\* A RESUME is reported when what it is about has been released.
Released ==
  collector.at = "reporting" /\ commands[Current].action = "RESUME" =>
    Symbols(commands[Current].target) \cap collector.paused = {}

HeldInv ==
  /\ Typed /\ BackfillsOnly /\ QueueUnfinished /\ BeatsFeed /\ ReachedExist
  /\ Undeleted /\ Released /\ HeldBackIsPaused

\* How a step changes the supervisor: it polls, it takes up a command, or what it
\* has to do becomes less.
LEMMA SupervisorSteps ==
  ASSUME Typed, [Next]_vars
  PROVE  \/ Poll
         \/ Handle
         \/ /\ collector'.queue \subseteq collector.queue
            /\ collector'.paused \subseteq collector.paused
            /\ \A k \in Keys : collector'.backfill[k] \in {0, collector.backfill[k]}
            /\ collector'.at = "reporting" => collector.at = "reporting" /\ collector'.queue = collector.queue
<1>1. TypeOK
  BY DEF Typed
<1> DEFINE Less == /\ collector'.queue \subseteq collector.queue
                   /\ collector'.paused \subseteq collector.paused
                   /\ \A k \in Keys : collector'.backfill[k] \in {0, collector.backfill[k]}
                   /\ collector'.at = "reporting" =>
                        collector.at = "reporting" /\ collector'.queue = collector.queue
<1>2. ASSUME UNCHANGED collector PROVE Less
  BY <1>2
<1>3. CASE Start \/ Crash
  BY <1>3 DEF Start, Crash, Supervisor, NoBackfill
<1>4. ASSUME Reconcile \/ Report \/ ReportFails PROVE Less
  <2>1. /\ collector'.at = "handling" /\ collector'.queue \subseteq collector.queue
        /\ collector'.paused = collector.paused /\ collector'.backfill = collector.backfill
    <3>1. CASE Reconcile
      BY <1>1, <3>1 DEF Reconcile, TypeOK
    <3>2. CASE Report \/ ReportFails
      <4>1. \/ collector' = [collector EXCEPT !.at = "handling", !.queue = @ \ {Current}]
            \/ collector' = [collector EXCEPT !.at = "handling", !.queue = {}]
        BY <3>2 DEF Report, ReportFails
      <4>2. CASE collector' = [collector EXCEPT !.at = "handling", !.queue = @ \ {Current}]
        BY <1>1, <4>2 DEF TypeOK
      <4>3. CASE collector' = [collector EXCEPT !.at = "handling", !.queue = {}]
        BY <1>1, <4>3 DEF TypeOK
      <4> QED
        BY <4>1, <4>2, <4>3
    <3> QED
      BY <1>4, <3>1, <3>2
  <2> QED
    BY <2>1
<1>5. ASSUME NEW k \in Keys, BackfillEnd(k) PROVE Less
  BY <1>1, <1>5 DEF BackfillEnd, TypeOK
<1>6. \/ UNCHANGED collector
      \/ Start \/ Crash \/ Poll \/ Handle \/ Reconcile \/ Report \/ ReportFails
      \/ \E k \in Keys : BackfillEnd(k)
  BY DEF Next, vars, CreateCommand, DeleteCommand, Enable, Disable, DeleteFeed, RegisterFeed,
         HeartbeatRead, HeartbeatCommit, PollLost
<1> QED
  BY <1>2, <1>3, <1>4, <1>5, <1>6

\* A command that succeeds is a backfill, or the one that is reported.
LEMMA Finishing ==
  ASSUME Typed, BackfillsOnly, [Next]_vars, NEW c \in DOMAIN commands,
         commands[c].status # "SUCCEEDED", commands'[c].status = "SUCCEEDED",
         commands[c].action # "BACKFILL"
  PROVE  /\ collector.at = "reporting" /\ c = Current /\ Applied(c, "SUCCEEDED") /\ Reportable(c)
         /\ c \notin collector'.queue
<1>1. TypeOK /\ (collector.at = "reporting" => collector.queue # {})
  BY DEF Typed, HasCommand
<1>2. /\ Len(commands) \in Nat /\ DOMAIN commands = 1 .. Len(commands) /\ commands \in Seq(Command)
      /\ \A d \in DOMAIN commands : commands[d] \in Command
  BY <1>1, Rows DEF TypeOK
<1>3. ASSUME NEW action \in Actions, NEW target \in Keys \cup {All}, CreateCommand(action, target)
      PROVE  FALSE
  <2>1. PICK row : commands' = Append(commands, row)
    BY <1>3 DEF CreateCommand
  <2> QED
    BY <1>2, <2>1
<1>4. ASSUME NEW d \in DOMAIN commands, DeleteCommand(d) PROVE FALSE
  BY <1>2, <1>4 DEF DeleteCommand, Command
<1>5. ASSUME NEW k \in Keys, DeleteFeed(k) PROVE FALSE
  <2>1. commands'[c].status \in {"DELETED", commands[c].status}
    BY <1>2, <1>5 DEF DeleteFeed, Command
  <2> QED
    BY <2>1
<1>6. CASE Start
  BY <1>2, <1>6 DEF Start, Requeued, Command
<1>7. CASE Poll \/ PollLost
  BY <1>2, <1>7 DEF Poll, PollLost, PollStatus, Command
<1>8. CASE Report \/ ReportFails
  <2>1. Current \in DOMAIN commands
    BY <1>1, <1>8, Oldest DEF Report, ReportFails
  <2>2. Outcome(Current) \in {"SUCCEEDED", "FAILED"}
    BY DEF Outcome
  <2>3. Applied(Current, Outcome(Current)) /\ collector.at = "reporting"
    BY <1>8 DEF Report, ReportFails
  <2>4. c = Current /\ Reportable(c) /\ Outcome(c) = "SUCCEEDED"
    BY <1>1, <1>2, <2>1, <2>2, <2>3, AppliedRows DEF Command
  <2>5. c \notin collector'.queue
    BY <1>1, <1>8, <2>4 DEF Report, ReportFails, TypeOK
  <2> QED
    BY <2>3, <2>4, <2>5
<1>9. ASSUME NEW k \in Keys, BackfillEnd(k) PROVE FALSE
  <2>1. collector.backfill[k] \in DOMAIN commands /\ commands[collector.backfill[k]].action = "BACKFILL"
    BY <1>1, <1>9 DEF BackfillEnd, TypeOK, BackfillsOnly
  <2>2. \/ UNCHANGED commands
        \/ \E status \in {"SUCCEEDED", "FAILED"} : Applied(collector.backfill[k], status)
    BY <1>9 DEF BackfillEnd
  <2>3. c # collector.backfill[k]
    BY <2>1
  <2>4. ASSUME NEW status \in {"SUCCEEDED", "FAILED"}, Applied(collector.backfill[k], status) PROVE FALSE
    BY <1>1, <2>1, <2>3, <2>4, AppliedRows
  <2> QED
    BY <2>2, <2>4
<1>10. \/ UNCHANGED commands
       \/ \E action \in Actions, target \in Keys \cup {All} : CreateCommand(action, target)
       \/ \E d \in DOMAIN commands : DeleteCommand(d)
       \/ \E k \in Keys : DeleteFeed(k) \/ BackfillEnd(k)
       \/ Start \/ Poll \/ PollLost \/ Report \/ ReportFails
  BY DEF Next, vars, Enable, Disable, HeartbeatRead, HeartbeatCommit, RegisterFeed, Reconcile,
         Handle, Crash
<1> QED
  BY <1>3, <1>4, <1>5, <1>6, <1>7, <1>8, <1>9, <1>10

\* What Poll and Handle do to the supervisor.
LEMMA PollStep ==
  ASSUME Typed, Poll
  PROVE  /\ collector'.queue = Polled /\ collector'.paused = collector.paused
         /\ collector'.backfill = collector.backfill /\ collector'.at = "polled"
         /\ \A c \in Polled : c \in DOMAIN commands /\ commands'[c].status = "RUNNING"
         /\ collector.queue = {} /\ collector.at = "handling"
<1>1. TypeOK
  BY DEF Typed
<1>2. \A c \in DOMAIN commands : commands[c] \in Command
  BY <1>1, Rows
<1> QED
  BY <1>1, <1>2 DEF Poll, Idle, PollStatus, Polled, Waiting, TypeOK, Command

\* What Handle does: a backfill leaves the queue for its thread, any other command
\* is carried out and reported.
LEMMA HandleStep ==
  ASSUME Typed, Handle
  PROVE  /\ Current \in DOMAIN commands /\ Current \in collector.queue
         /\ \A c \in collector.queue : Current <= c
         /\ UNCHANGED <<commands, feed, globallyPaused, beat, deletes, raised>>
         /\ \/ /\ commands[Current].action = "BACKFILL"
               /\ collector'.queue = collector.queue \ {Current}
               /\ collector'.paused = collector.paused /\ collector'.at = "handling"
               /\ \A k \in Keys : collector'.backfill[k] \in {Current, collector.backfill[k]}
            \/ /\ collector'.queue = collector.queue /\ collector'.backfill = collector.backfill
               /\ collector'.paused = HeldBack(collector.paused, commands[Current])
               /\ collector'.at = "reporting"
<1>1. TypeOK /\ collector.queue # {} /\ collector.at = "handling"
  BY DEF Typed, Handle
<1>2. /\ Current \in DOMAIN commands /\ Current \in collector.queue
      /\ \A c \in collector.queue : Current <= c
  BY <1>1, Oldest
<1>3. UNCHANGED <<commands, feed, globallyPaused, beat, deletes, raised>>
  BY DEF Handle, settings, bounds
<1> DEFINE command == commands[Current]
<1>4. CASE Threaded(command) /\ collector' = [collector EXCEPT !.backfill[command.target] = Current,
                                                              !.queue = @ \ {Current}]
  BY <1>1, <1>2, <1>3, <1>4 DEF TypeOK, Threaded
<1>5. CASE collector' = [Carried(collector, command) EXCEPT !.at = "reporting"]
  BY <1>1, <1>2, <1>3, <1>5 DEF TypeOK, Carried
<1> QED
  BY <1>4, <1>5 DEF Handle

\* A thread is for a backfill after every step.
LEMMA StepBackfills == HeldInv /\ [Next]_vars => BackfillsOnly'
<1> SUFFICES ASSUME HeldInv, [Next]_vars, NEW k \in Keys, collector'.backfill[k] # 0
             PROVE  commands'[collector'.backfill[k]].action = "BACKFILL"
  BY DEF BackfillsOnly
<1>1. Typed /\ BackfillsOnly
  BY DEF HeldInv
<1>2. \A c \in DOMAIN commands : commands'[c].action = commands[c].action
  BY <1>1, RowsKept DEF Kept, Same
<1>3. CASE collector'.backfill[k] = collector.backfill[k]
  <2>1. collector.backfill[k] \in DOMAIN commands
    BY <1>1, <1>3 DEF Typed, TypeOK
  <2> QED
    BY <1>1, <1>2, <1>3, <2>1 DEF BackfillsOnly
<1>4. CASE Handle
  BY <1>1, <1>2, <1>3, <1>4, HandleStep
<1>5. CASE Poll
  BY <1>1, <1>3, <1>5, PollStep
<1> QED
  BY <1>1, <1>3, <1>4, <1>5, SupervisorSteps

\* What succeeds leaves the queue.
LEMMA StepUnfinished == HeldInv /\ [Next]_vars => QueueUnfinished'
<1> SUFFICES ASSUME HeldInv, [Next]_vars, NEW c \in collector'.queue,
                    commands'[c].action # "BACKFILL", commands'[c].status = "SUCCEEDED"
             PROVE  FALSE
  BY DEF QueueUnfinished
<1>1. Typed /\ BackfillsOnly /\ QueueUnfinished
  BY DEF HeldInv
<1>2. CASE Poll
  BY <1>1, <1>2, PollStep
<1>3. ASSUME c \in collector.queue PROVE FALSE
  <2>1. c \in DOMAIN commands
    BY <1>1, <1>3 DEF Typed, TypeOK
  <2>2. commands[c].action # "BACKFILL"
    BY <1>1, <2>1, RowsKept DEF Kept, Same
  <2>3. commands[c].status # "SUCCEEDED"
    BY <1>1, <1>3, <2>2 DEF QueueUnfinished
  <2> QED
    BY <1>1, <2>1, <2>2, <2>3, Finishing
<1>4. CASE Handle
  BY <1>1, <1>3, <1>4, HandleStep
<1> QED
  BY <1>1, <1>2, <1>3, <1>4, SupervisorSteps

\* A heartbeat that was let in is forgotten when its feed is deleted.
LEMMA StepBeats == HeldInv /\ [Next]_vars => BeatsFeed'
<1> SUFFICES ASSUME HeldInv, [Next]_vars, NEW k \in Keys, beat'[k] # "none", feed'[k] = NoFeed
             PROVE  FALSE
  BY DEF BeatsFeed
<1>1. Typed /\ BeatsFeed /\ beat \in [Keys -> Reported \cup {"none"}]
  BY DEF HeldInv, Typed, TypeOK
<1>2. CASE HeartbeatRead(k)
  BY <1>2 DEF HeartbeatRead
<1>3. ~ HeartbeatRead(k) => beat[k] # "none"
  <2>1. \/ UNCHANGED beat
        \/ \E h \in Keys : HeartbeatRead(h) \/ HeartbeatCommit(h) \/ DeleteFeed(h)
    BY DEF Next, vars, CreateCommand, DeleteCommand, Enable, Disable, Start, Poll, PollLost,
           Reconcile, Handle, Report, ReportFails, Crash, RegisterFeed, BackfillEnd
  <2> QED
    BY <1>1, <2>1 DEF HeartbeatRead, HeartbeatCommit, DeleteFeed
<1>4. CASE beat[k] # "none"
  <2>1. feed[k] # NoFeed
    BY <1>1, <1>4 DEF BeatsFeed
  <2>2. DeleteFeed(k)
    BY <1>1, <2>1, FeedsKept
  <2> QED
    BY <1>1, <2>2 DEF DeleteFeed
<1> QED
  BY <1>2, <1>3, <1>4

\* What a command has reached exists as long as the command says so.
LEMMA StepReached == HeldInv /\ [Next]_vars => ReachedExist'
<1> SUFFICES ASSUME HeldInv, [Next]_vars, NEW c \in DOMAIN commands', NEW k \in commands'[c].reached,
                    feed'[k] = NoFeed
             PROVE  FALSE
  BY DEF ReachedExist
<1>1. Typed /\ ReachedExist
  BY DEF HeldInv
<1>2. c \in DOMAIN commands /\ k \in commands[c].reached
  BY <1>1, RowsKept DEF New, Kept
<1>3. feed[k] # NoFeed /\ k \in Keys /\ commands[c] \in Command
  BY <1>1, <1>2, Rows DEF ReachedExist, Typed, Command
<1>4. DeleteFeed(k)
  BY <1>1, <1>3, FeedsKept
<1> QED
  BY <1>2, <1>3, <1>4 DEF DeleteFeed, Command

\* Deletions are counted.
LEMMA Deletions ==
  ASSUME Typed, [Next]_vars
  PROVE  \/ deletes' = deletes /\ \A k \in Keys : ~ DeleteFeed(k)
         \/ deletes' = deletes + 1
<1>1. deletes \in Nat
  BY DEF Typed, TypeOK
<1>2. CASE UNCHANGED deletes
  BY <1>1, <1>2 DEF DeleteFeed
<1>3. UNCHANGED deletes \/ \E k \in Keys : DeleteFeed(k)
  BY DEF Next, vars, bounds, CreateCommand, DeleteCommand, Enable, Disable, Start,
         Poll, PollLost, Reconcile, Handle, Report, ReportFails, Crash, RegisterFeed,
         HeartbeatRead, HeartbeatCommit, BackfillEnd
<1> QED
  BY <1>2, <1>3 DEF DeleteFeed

\* A deletion that was counted is one of a feed.
LEMMA DeletedSome ==
  ASSUME Typed, [Next]_vars, deletes' = deletes + 1
  PROVE  \E k \in Keys : DeleteFeed(k)
<1>1. deletes' # deletes
  BY DEF Typed, TypeOK
<1> QED
  BY <1>1 DEF Next, vars, bounds, CreateCommand, DeleteCommand, Enable, Disable, Start,
         Poll, PollLost, Reconcile, Handle, Report, ReportFails, Crash, RegisterFeed,
         HeartbeatRead, HeartbeatCommit, BackfillEnd

\* Commands and what is held back keep their feeds until a feed is deleted.
LEMMA StepUndeleted == HeldInv /\ [Next]_vars => Undeleted'
<1> SUFFICES ASSUME HeldInv, [Next]_vars, deletes' = 0 PROVE Undeleted'
  BY DEF Undeleted
<1>1. Typed /\ Undeleted /\ deletes \in Nat
  BY DEF HeldInv, Typed, TypeOK
<1>2. deletes = 0 /\ \A k \in Keys : ~ DeleteFeed(k)
  BY <1>1, Deletions
<1>3. \A k \in Keys : feed[k] # NoFeed => feed'[k] # NoFeed
  BY <1>1, <1>2, FeedsKept
<1>4. ASSUME NEW c \in DOMAIN commands'
      PROVE  /\ commands'[c].status # "DELETED"
             /\ commands'[c].target \in Keys => feed'[commands'[c].target] # NoFeed
  <2>1. CASE c \in DOMAIN commands
    BY <1>1, <1>2, <1>3, <2>1, RowsKept DEF Kept, Same, Undeleted
  <2>2. CASE c \notin DOMAIN commands
    BY <1>1, <1>4, <2>2, RowsKept DEF New
  <2> QED
    BY <2>1, <2>2
<1>5. ASSUME NEW k \in collector'.paused PROVE feed'[k] # NoFeed
  <2>1. collector.paused \subseteq Keys /\ collector'.paused \subseteq Keys
    BY <1>1, StepTypes DEF Typed, TypeOK
  <2>2. CASE k \in collector.paused
    BY <1>1, <1>2, <1>3, <2>1, <2>2 DEF Undeleted
  <2>3. CASE Handle /\ k \notin collector.paused
    <3>1. commands[Current].target = k /\ Current \in DOMAIN commands
      BY <1>1, <1>5, <2>3, HandleStep DEF HeldBack
    <3> QED
      BY <1>1, <1>2, <1>3, <1>5, <2>1, <3>1 DEF Undeleted
  <2> QED
    BY <1>1, <1>5, <2>2, <2>3, SupervisorSteps, PollStep
<1> QED
  BY <1>4, <1>5 DEF Undeleted

\* A RESUME is carried out before it is reported.
LEMMA StepReleased == HeldInv /\ [Next]_vars => Released'
<1> SUFFICES ASSUME HeldInv, [Next]_vars, collector'.at = "reporting",
                    commands'[Current'].action = "RESUME"
             PROVE  Symbols(commands'[Current'].target) \cap collector'.paused = {}
  BY DEF Released
<1>1. Typed /\ Released
  BY DEF HeldInv
<1>2. CASE Handle
  <2>1. /\ Current \in DOMAIN commands /\ commands' = commands
        /\ collector'.queue = collector.queue
        /\ collector'.paused = HeldBack(collector.paused, commands[Current])
    BY <1>1, <1>2, HandleStep
  <2>2. Current' = Current
    BY <2>1 DEF Current
  <2> QED
    BY <2>1, <2>2 DEF HeldBack
<1>3. CASE collector.at = "reporting" /\ collector'.queue = collector.queue
           /\ collector'.paused \subseteq collector.paused
  <2>1. Current' = Current
    BY <1>3 DEF Current
  <2>2. Current \in DOMAIN commands
    BY <1>1, <1>3, Oldest DEF Typed, HasCommand
  <2>3. Same(Current)
    BY <1>1, <2>2, RowsKept DEF Kept
  <2> QED
    BY <1>1, <1>3, <2>1, <2>3 DEF Same, Released
<1> QED
  BY <1>1, <1>2, <1>3, SupervisorSteps, PollStep

\* What is held back stays paused: a RESUME that succeeds has been released before,
\* and a PAUSE that succeeds pauses.
LEMMA StepHeld == HeldInv /\ [Next]_vars => HeldBackIsPaused'
<1> SUFFICES ASSUME HeldInv, [Next]_vars PROVE HeldBackIsPaused'
  OBVIOUS
<1>1. /\ Typed /\ TypeOK /\ BackfillsOnly /\ QueueUnfinished /\ Undeleted /\ Released
      /\ HeldBackIsPaused /\ Typed'
  BY StepTypes DEF HeldInv, Typed
<1>2. Undeleted' /\ deletes \in Nat /\ deletes' \in Nat
  BY <1>1, StepUndeleted DEF Typed, TypeOK
<1> SUFFICES ASSUME NEW k \in collector'.paused, feed'[k] # NoFeed, deletes' = 0,
                    \A c \in Wishes(k)' : commands'[c].status = "SUCCEEDED", ~ Blocked(feed'[k])
             PROVE  FALSE
  BY <1>2 DEF HeldBackIsPaused
<1>3. deletes = 0
  BY <1>1, <1>2, Deletions
<1>4. k \in Keys
  BY <1>1 DEF Typed, TypeOK
<1>5. ASSUME NEW c \in Wishes(k)
      PROVE  /\ c \in DOMAIN commands /\ c \in Wishes(k)' /\ commands[c].action \in {"PAUSE", "RESUME"}
             /\ Reaches(commands[c].target, k)
  <2>1. c \in DOMAIN commands /\ Kept(c)
    BY <1>1, RowsKept DEF Wishes
  <2>2. commands'[c].status # "DELETED"
    BY <1>2, <2>1 DEF Undeleted, Kept
  <2> QED
    BY <2>1, <2>2 DEF Wishes, Kept, Same
<1>6. ASSUME NEW c \in Wishes(k), commands[c].status # "SUCCEEDED", k \in collector.paused PROVE FALSE
  <2>1. commands'[c].status = "SUCCEEDED" /\ commands[c].action # "BACKFILL" /\ c \in DOMAIN commands
    BY <1>5, <1>6
  <2>2. collector.at = "reporting" /\ c = Current /\ Applied(c, "SUCCEEDED") /\ Reportable(c)
    BY <1>1, <1>6, <2>1, Finishing
  <2>3. CASE commands[c].action = "RESUME"
    BY <1>1, <1>4, <1>5, <1>6, <2>2, <2>3 DEF Released, Symbols
  <2>4. CASE commands[c].action = "PAUSE"
    <3>1. feed[k] # NoFeed
      BY <1>1, <1>3, <1>6 DEF Undeleted
    <3>2. feed'[k] = PauseFeed(feed[k])
      BY <1>4, <1>5, <2>2, <2>4, <3>1 DEF Applied, Targeted
    <3> QED
      BY <3>2 DEF PauseFeed, Blocked
  <2> QED
    BY <1>5, <2>3, <2>4
<1>7. CASE k \in collector.paused
  <2>1. feed[k] # NoFeed
    BY <1>1, <1>3, <1>7 DEF Undeleted
  <2>2. CASE Blocked(feed[k])
    <3>1. PICK c \in Wishes(k) : Open(c)
      BY <1>1, <1>4, <2>2, StepResumes DEF Resumes
    <3> QED
      BY <1>6, <1>7, <3>1 DEF Open, Ended
  <2>3. CASE \E c \in Wishes(k) : commands[c].status # "SUCCEEDED"
    BY <1>6, <1>7, <2>3
  <2> QED
    BY <1>1, <1>3, <1>7, <2>1, <2>2, <2>3 DEF HeldBackIsPaused
<1>8. CASE Handle /\ k \notin collector.paused
  <2>1. /\ Current \in DOMAIN commands /\ Current \in collector.queue /\ commands' = commands
        /\ commands[Current].action = "PAUSE" /\ commands[Current].target = k
    BY <1>1, <1>8, HandleStep DEF HeldBack
  <2>2. commands[Current].status # "DELETED" /\ commands[Current].status # "SUCCEEDED"
    BY <1>1, <1>3, <2>1 DEF Undeleted, QueueUnfinished
  <2>3. Current \in Wishes(k)
    BY <2>1, <2>2 DEF Wishes, Reaches
  <2> QED
    BY <1>5, <2>1, <2>2, <2>3
<1> QED
  BY <1>1, <1>7, <1>8, SupervisorSteps, PollStep

\* The invariant is kept by every step.
LEMMA StepHeldInv == HeldInv /\ [Next]_vars => HeldInv'
<1> QED
  BY StepTypes, StepBackfills, StepUnfinished, StepBeats, StepReached, StepUndeleted, StepReleased,
     StepHeld DEF HeldInv

\* It holds at first, when nothing is held back.
LEMMA InitHeldInv == Init => HeldInv
<1> SUFFICES ASSUME Init PROVE HeldInv
  OBVIOUS
<1>1. Typed
  BY InitTyped
<1>2. /\ collector.at = "down" /\ collector.queue = {} /\ collector.paused = {}
      /\ \A k \in Keys : collector.backfill[k] = 0
  BY DEF Init, Supervisor, NoBackfill
<1>3. DOMAIN commands = {} /\ \A k \in Keys : beat[k] = "none"
  BY DEF Init
<1> QED
  BY <1>1, <1>2, <1>3 DEF HeldInv, BackfillsOnly, QueueUnfinished, BeatsFeed, ReachedExist,
                          Undeleted, Released, HeldBackIsPaused

\* What the collector holds back is paused in the database.
THEOREM HeldBack_IsPaused == Spec => []HeldBackIsPaused
<1>1. HeldInv => HeldBackIsPaused
  BY DEF HeldInv
<1> QED
  BY InitHeldInv, StepHeldInv, <1>1, PTL DEF Spec

-----------------------------------------------------------------------------
(* The last word. *)

\* What is older than a command of the queue, and is open, is in the queue too.
QueueFirst ==
  \A c \in collector.queue : \A d \in DOMAIN commands :
    d < c /\ Open(d) /\ commands[d].action # "BACKFILL" => d \in collector.queue

\* What is running is in the queue.
RunningInQueue ==
  collector.at # "down" => \A d \in DOMAIN commands :
    commands[d].status = "RUNNING" /\ commands[d].action # "BACKFILL" => d \in collector.queue

\* A command succeeds when those before it have ended.
Ordered ==
  \A k \in Keys : \A c, d \in Wishes(k) : commands[c].status = "SUCCEEDED" /\ d < c => ~ Open(d)

Orderly == ~ raised => QueueFirst /\ RunningInQueue /\ Ordered

LastWordInv == HeldInv /\ Orderly /\ LastWordHolds

\* The steps of the supervisor as long as no request fails.
LEMMA LoopSteps ==
  ASSUME Typed, [Next]_vars, ~ raised'
  PROVE  /\ ~ raised
         /\ \/ Poll \/ Handle \/ Start \/ Crash \/ Report
            \/ /\ collector'.queue = collector.queue
               /\ collector'.at = "down" => collector.at = "down"
               /\ collector.at = "down" => collector'.at = "down"
<1>1. TypeOK
  BY DEF Typed
<1>2. CASE Reconcile
  BY <1>1, <1>2 DEF Reconcile, TypeOK
<1>3. ASSUME NEW k \in Keys, BackfillEnd(k)
      PROVE  ~ raised /\ collector'.queue = collector.queue /\ collector'.at = collector.at
  BY <1>1, <1>3 DEF BackfillEnd, TypeOK
<1>4. ~ PollLost /\ ~ ReportFails
  BY DEF PollLost, ReportFails
<1>5. \/ UNCHANGED <<collector, raised>>
      \/ Poll \/ Handle \/ Start \/ Crash \/ Report \/ Reconcile
      \/ \E k \in Keys : BackfillEnd(k)
  BY <1>4 DEF Next, vars, CreateCommand, DeleteCommand, Enable, Disable, DeleteFeed, RegisterFeed,
         HeartbeatRead, HeartbeatCommit
<1>6. CASE Poll \/ Handle \/ Start \/ Crash \/ Report
  BY <1>6 DEF Poll, Handle, Start, Crash, Report
<1> QED
  BY <1>2, <1>3, <1>5, <1>6 DEF Reconcile

\* What a report does: its command has ended, and leaves the queue.
LEMMA ReportStep ==
  ASSUME Typed, Report
  PROVE  /\ collector'.queue = collector.queue \ {Current} /\ collector'.at = "handling"
         /\ collector.at = "reporting"
         /\ Current \in DOMAIN commands /\ commands'[Current].status \in Ended
<1>1. TypeOK /\ collector.at = "reporting" /\ collector.queue # {}
  BY DEF Typed, HasCommand, Report
<1>2. Current \in DOMAIN commands /\ Outcome(Current) \in {"SUCCEEDED", "FAILED"}
  BY <1>1, Oldest DEF Outcome
<1>3. commands[Current] \in Command
  BY <1>1, <1>2, Rows
<1>4. commands'[Current] = IF Reportable(Current)
                           THEN [commands[Current] EXCEPT !.status = Outcome(Current)]
                           ELSE commands[Current]
  BY <1>1, <1>2, AppliedRows DEF Report
<1>5. commands'[Current].status \in Ended
  BY <1>2, <1>3, <1>4 DEF Reportable, Ended, Command
<1>6. collector' = [collector EXCEPT !.at = "handling", !.queue = @ \ {Current}]
  BY DEF Report
<1> QED
  BY <1>1, <1>2, <1>5, <1>6 DEF TypeOK

\* Only a poll makes a command run.
LEMMA Running ==
  ASSUME Typed, [Next]_vars, ~ raised', NEW c \in DOMAIN commands,
         commands'[c].status = "RUNNING"
  PROVE  /\ ~ Start
         /\ commands[c].status = "RUNNING" \/ (Poll /\ c \in Polled)
<1>1. TypeOK /\ (collector.at = "reporting" => collector.queue # {})
  BY DEF Typed, HasCommand
<1>2. /\ Len(commands) \in Nat /\ DOMAIN commands = 1 .. Len(commands) /\ commands \in Seq(Command)
      /\ \A d \in DOMAIN commands : commands[d] \in Command
  BY <1>1, Rows DEF TypeOK
<1>3. CASE Start
  BY <1>2, <1>3 DEF Start, Requeued, Command
<1>4. ASSUME ~ Start, commands[c].status # "RUNNING" PROVE Poll /\ c \in Polled
  <2>1. ASSUME NEW action \in Actions, NEW target \in Keys \cup {All}, CreateCommand(action, target)
        PROVE  FALSE
    <3>1. PICK row : commands' = Append(commands, row)
      BY <2>1 DEF CreateCommand
    <3> QED
      BY <1>2, <1>4, <3>1
  <2>2. ASSUME NEW d \in DOMAIN commands, DeleteCommand(d) PROVE FALSE
    BY <1>2, <1>4, <2>2 DEF DeleteCommand, Command
  <2>3. ASSUME NEW k \in Keys, DeleteFeed(k) PROVE FALSE
    <3>1. commands'[c].status \in {"DELETED", commands[c].status}
      BY <1>2, <2>3 DEF DeleteFeed, Command
    <3> QED
      BY <1>4, <3>1
  <2>4. ASSUME NEW d \in DOMAIN commands, NEW status \in {"SUCCEEDED", "FAILED"}, Applied(d, status)
        PROVE  FALSE
    BY <1>1, <1>2, <1>4, <2>4, AppliedRows DEF Command
  <2>5. CASE Report
    <3>1. Current \in DOMAIN commands /\ Outcome(Current) \in {"SUCCEEDED", "FAILED"}
      BY <1>1, <2>5, Oldest DEF Report, Outcome
    <3> QED
      BY <2>4, <2>5, <3>1 DEF Report
  <2>6. ASSUME NEW k \in Keys, BackfillEnd(k) PROVE FALSE
    <3>1. collector.backfill[k] \in DOMAIN commands
      BY <1>1, <2>6 DEF BackfillEnd, TypeOK
    <3>2. \E status \in {"SUCCEEDED", "FAILED"} : Applied(collector.backfill[k], status)
      BY <2>6 DEF BackfillEnd
    <3> QED
      BY <2>4, <3>1, <3>2
  <2>7. CASE Poll
    BY <1>2, <1>4, <2>7 DEF Poll, PollStatus
  <2>8. \/ UNCHANGED commands
        \/ \E action \in Actions, target \in Keys \cup {All} : CreateCommand(action, target)
        \/ \E d \in DOMAIN commands : DeleteCommand(d)
        \/ \E k \in Keys : DeleteFeed(k) \/ BackfillEnd(k)
        \/ Poll \/ Report
    BY <1>4 DEF Next, vars, Enable, Disable, HeartbeatRead, HeartbeatCommit, RegisterFeed, Reconcile,
           Handle, Crash, PollLost, ReportFails
  <2> QED
    BY <1>4, <2>1, <2>2, <2>3, <2>5, <2>6, <2>7, <2>8
<1> QED
  BY <1>3, <1>4

\* The queue stays a prefix of the open commands, backfills apart.
LEMMA StepQueueFirst ==
  ASSUME HeldInv, Orderly, [Next]_vars, ~ raised' PROVE QueueFirst'
<1> SUFFICES ASSUME NEW c \in collector'.queue, NEW d \in DOMAIN commands', d < c,
                    commands'[d].status \notin Ended, commands'[d].action # "BACKFILL"
             PROVE  d \in collector'.queue
  BY DEF QueueFirst, Open
<1>1. Typed /\ TypeOK /\ QueueFirst /\ RunningInQueue
  BY LoopSteps DEF HeldInv, Typed, Orderly
<1>2. Len(commands) \in Nat /\ DOMAIN commands = 1 .. Len(commands)
  BY <1>1, Rows
<1>3. ASSUME c \in DOMAIN commands
      PROVE  d \in DOMAIN commands /\ Open(d) /\ commands[d].action # "BACKFILL"
  <2>1. d \in DOMAIN commands
    BY <1>1, <1>2, <1>3, RowsKept DEF New
  <2> QED
    BY <1>1, <2>1, RowsKept DEF Kept, Same, Open
<1>4. ASSUME c \in collector.queue PROVE d \in collector.queue
  <2>1. c \in DOMAIN commands
    BY <1>1, <1>4 DEF TypeOK
  <2> QED
    BY <1>1, <1>3, <1>4, <2>1 DEF QueueFirst
<1>5. CASE Poll
  <2>1. c \in Polled /\ c \in DOMAIN commands /\ collector.queue = {} /\ collector.at = "handling"
        /\ collector'.queue = Polled
    BY <1>1, <1>5, PollStep
  <2>2. d \in DOMAIN commands /\ Open(d) /\ commands[d].action # "BACKFILL" /\ commands[d] \in Command
    BY <1>1, <1>3, <2>1, Rows
  <2>3. commands[d].status # "RUNNING"
    BY <1>1, <2>1, <2>2 DEF RunningInQueue
  <2>4. d \in Waiting
    BY <2>2, <2>3 DEF Waiting, Open, Command
  <2> QED
    BY <1>1, <2>1, <2>4, PolledInOrder
<1>6. CASE Handle
  <2>1. c \in collector.queue /\ (d # Current => d \in collector'.queue \/ d \notin collector.queue)
        /\ (commands[Current].action = "BACKFILL" \/ collector'.queue = collector.queue)
    BY <1>1, <1>6, HandleStep
  <2>2. c \in DOMAIN commands
    BY <1>1, <2>1 DEF TypeOK
  <2> QED
    BY <1>3, <1>4, <2>1, <2>2
<1>7. CASE Report
  <2>1. c \in collector.queue /\ d # Current /\ collector'.queue = collector.queue \ {Current}
    BY <1>1, <1>7, ReportStep
  <2> QED
    BY <1>4, <2>1
<1>8. CASE Start \/ Crash
  BY <1>8 DEF Start, Crash, Supervisor
<1>9. CASE collector'.queue = collector.queue
  BY <1>4, <1>9
<1> QED
  BY <1>1, <1>5, <1>6, <1>7, <1>8, <1>9, LoopSteps

\* A running command stays in the queue until it is reported.
LEMMA StepRunning ==
  ASSUME HeldInv, Orderly, [Next]_vars, ~ raised' PROVE RunningInQueue'
<1> SUFFICES ASSUME collector'.at # "down", NEW d \in DOMAIN commands',
                    commands'[d].status = "RUNNING", commands'[d].action # "BACKFILL"
             PROVE  d \in collector'.queue
  BY DEF RunningInQueue
<1>1. Typed /\ TypeOK /\ RunningInQueue
  BY LoopSteps DEF HeldInv, Typed, Orderly
<1>2. d \in DOMAIN commands /\ commands[d].action # "BACKFILL"
  BY <1>1, RowsKept DEF New, Kept, Same
<1>3. ~ Start /\ (commands[d].status = "RUNNING" \/ (Poll /\ d \in Polled))
  BY <1>1, <1>2, Running
<1>4. ASSUME ~ Poll, collector.at # "down" PROVE d \in collector.queue
  BY <1>1, <1>2, <1>3, <1>4 DEF RunningInQueue
<1>5. CASE Poll
  <2>1. collector.queue = {} /\ collector.at = "handling" /\ collector'.queue = Polled
    BY <1>1, <1>5, PollStep
  <2> QED
    BY <1>1, <1>2, <1>3, <2>1 DEF RunningInQueue
<1>6. CASE Handle
  <2>1. collector.at # "down" /\ ~ Poll
    BY <1>6 DEF Handle, Poll, Idle
  <2> QED
    BY <1>1, <1>2, <1>4, <1>6, <2>1, HandleStep
<1>7. CASE Report
  <2>1. collector.at # "down" /\ ~ Poll /\ d # Current /\ collector'.queue = collector.queue \ {Current}
    BY <1>1, <1>7, ReportStep DEF Poll, Idle, Ended
  <2> QED
    BY <1>4, <2>1
<1>8. CASE Crash
  BY <1>8 DEF Crash, Supervisor
<1>9. CASE collector'.queue = collector.queue /\ collector.at # "down"
  BY <1>4, <1>5, <1>9
<1> QED
  BY <1>1, <1>3, <1>5, <1>6, <1>7, <1>8, <1>9, LoopSteps

\* The command that is reported is the oldest open one.
LEMMA StepOrdered ==
  ASSUME HeldInv, Orderly, [Next]_vars, ~ raised' PROVE Ordered'
<1> SUFFICES ASSUME NEW k \in Keys, NEW c \in Wishes(k)', NEW d \in Wishes(k)',
                    commands'[c].status = "SUCCEEDED", d < c, commands'[d].status \notin Ended
             PROVE  FALSE
  BY DEF Ordered, Open
<1>1. Typed /\ TypeOK /\ BackfillsOnly /\ QueueFirst /\ Ordered
  BY LoopSteps DEF HeldInv, Typed, Orderly
<1>2. Len(commands) \in Nat /\ DOMAIN commands = 1 .. Len(commands)
  BY <1>1, Rows
<1>3. c \in DOMAIN commands /\ d \in DOMAIN commands
  BY <1>1, <1>2, RowsKept DEF New, Wishes
<1>4. /\ Open(d) /\ commands[d].action \in {"PAUSE", "RESUME"} /\ Reaches(commands[d].target, k)
      /\ commands[c].action \in {"PAUSE", "RESUME"} /\ Reaches(commands[c].target, k)
  BY <1>1, <1>3, RowsKept DEF Kept, Same, Open, Wishes
<1>5. d \in Wishes(k)
  BY <1>3, <1>4 DEF Wishes, Open, Ended
<1>6. CASE commands[c].status = "SUCCEEDED"
  <2>1. c \in Wishes(k)
    BY <1>3, <1>4, <1>6 DEF Wishes
  <2> QED
    BY <1>1, <1>4, <1>5, <1>6, <2>1 DEF Ordered
<1>7. CASE commands[c].status # "SUCCEEDED"
  <2>1. commands[c].action # "BACKFILL" /\ commands[d].action # "BACKFILL"
    BY <1>4
  <2>2. collector.at = "reporting" /\ c = Current
    BY <1>1, <1>3, <1>7, <2>1, Finishing
  <2>3. c \in collector.queue /\ \A e \in collector.queue : c <= e
    BY <1>1, <2>2, Oldest DEF Typed, HasCommand
  <2>4. d \in collector.queue
    BY <1>1, <1>3, <1>4, <2>1, <2>3 DEF QueueFirst
  <2> QED
    BY <1>2, <1>3, <2>3, <2>4
<1> QED
  BY <1>6, <1>7

\* A feed that was not paused and is now was paused by a new PAUSE, or by the report
\* of one.
LEMMA StepPauses ==
  ASSUME Typed, BeatsFeed, [Next]_vars, NEW k \in Keys,
         feed'[k] # NoFeed, ~ Blocked(feed[k]), Blocked(feed'[k])
  PROVE  \/ \E d \in Wishes(k) : Open(d)
         \/ Len(commands) + 1 \in Wishes(k)'
<1>1. TypeOK /\ (collector.at = "reporting" => collector.queue # {})
      /\ feed \in [Keys -> Feed \cup {NoFeed}]
  BY DEF Typed, HasCommand, TypeOK
<1>2. Len(commands) \in Nat /\ commands \in Seq(Command)
  BY <1>1, Rows DEF TypeOK
<1>3. CASE UNCHANGED feed
  BY <1>3
<1>4. ASSUME NEW action \in Actions, NEW target \in Keys \cup {All}, CreateCommand(action, target)
      PROVE  Len(commands) + 1 \in Wishes(k)'
  <2> DEFINE row == [action |-> action, target |-> target, status |-> "PENDING",
                     reached |-> Targeted(target)]
  <2>1. commands' = Append(commands, row)
    BY <1>4 DEF CreateCommand
  <2>2. Len(commands) + 1 \in DOMAIN commands' /\ commands'[Len(commands) + 1] = row
    <3> HIDE DEF row
    <3> QED
      BY <1>2, <2>1
  <2>3. action = "PAUSE" /\ k \in Targeted(target)
    BY <1>1, <1>4 DEF CreateCommand
  <2> QED
    BY <2>2, <2>3 DEF Wishes, Targeted
<1>5. ASSUME NEW h \in Keys, DeleteFeed(h) \/ RegisterFeed(h) PROVE FALSE
  <2>1. CASE DeleteFeed(h)
    BY <1>1, <2>1 DEF DeleteFeed
  <2>2. CASE RegisterFeed(h)
    <3>1. feed' = [feed EXCEPT ![h] = [status |-> "REGISTERED", paused |-> FALSE]]
      BY <2>2 DEF RegisterFeed, Registered
    <3> QED
      BY <1>1, <3>1 DEF Blocked
  <2> QED
    BY <1>5, <2>1, <2>2
<1>6. ASSUME NEW h \in Keys, HeartbeatCommit(h) PROVE FALSE
  <2>1. CASE feed[k] # NoFeed
    BY <1>1, <1>6, <2>1, HeartbeatKeeps
  <2>2. CASE feed[k] = NoFeed
    BY <1>1, <1>6, <2>2 DEF HeartbeatCommit, BeatsFeed
  <2> QED
    BY <2>1, <2>2
<1>7. ASSUME NEW d \in DOMAIN commands, NEW status \in {"SUCCEEDED", "FAILED"}, Applied(d, status)
      PROVE  \E e \in Wishes(k) : Open(e)
  <2>1. /\ Reportable(d) /\ k \in Targeted(commands[d].target)
        /\ commands[d].action \in {"PAUSE", "RESUME"}
    BY <1>7 DEF Applied
  <2>2. d \in Wishes(k) /\ Open(d)
    BY <2>1 DEF Wishes, Targeted, Reportable, Open, Ended
  <2> QED
    BY <2>2
<1>8. CASE Report \/ ReportFails
  <2>1. Current \in DOMAIN commands
    BY <1>1, <1>8, Oldest DEF Report, ReportFails
  <2>2. Outcome(Current) \in {"SUCCEEDED", "FAILED"}
    BY DEF Outcome
  <2>3. UNCHANGED feed \/ Applied(Current, Outcome(Current))
    BY <1>8 DEF Report, ReportFails
  <2> QED
    BY <1>3, <1>7, <2>1, <2>2, <2>3
<1>9. ASSUME NEW h \in Keys, BackfillEnd(h) PROVE \E e \in Wishes(k) : Open(e)
  <2>1. collector.backfill[h] \in DOMAIN commands
    BY <1>1, <1>9 DEF BackfillEnd, TypeOK
  <2>2. \/ UNCHANGED feed
        \/ \E status \in {"SUCCEEDED", "FAILED"} : Applied(collector.backfill[h], status)
    BY <1>9 DEF BackfillEnd
  <2> QED
    BY <1>3, <1>7, <2>1, <2>2
<1>10. \/ UNCHANGED feed
       \/ \E action \in Actions, target \in Keys \cup {All} : CreateCommand(action, target)
       \/ \E h \in Keys : DeleteFeed(h) \/ RegisterFeed(h) \/ HeartbeatCommit(h) \/ BackfillEnd(h)
       \/ Report \/ ReportFails
  BY DEF Next, vars, DeleteCommand, Enable, Disable, HeartbeatRead, Start, Poll, PollLost,
         Reconcile, Handle, Crash
<1> QED
  BY <1>3, <1>4, <1>5, <1>6, <1>8, <1>9, <1>10

\* What LastWordHolds says of one command.
LEMMA StepLastWord ==
  ASSUME LastWordInv, [Next]_vars PROVE LastWordHolds'
<1> SUFFICES ASSUME ~ raised', NEW k \in Keys, NEW c \in Wishes(k)',
                    feed'[k] # NoFeed, commands'[c].status = "SUCCEEDED",
                    \A d \in Wishes(k)' : d <= c /\ ~ Open(d)',
                    commands'[c].action = "RESUME" \/ k \in commands'[c].reached
             PROVE  Blocked(feed'[k]) <=> commands'[c].action = "PAUSE"
  BY DEF LastWordHolds, Open
<1>1. /\ Typed /\ TypeOK /\ BackfillsOnly /\ BeatsFeed /\ ReachedExist /\ Ordered
      /\ LastWordHolds /\ ~ raised
  BY LoopSteps DEF LastWordInv, HeldInv, Typed, Orderly
<1>2. Len(commands) \in Nat /\ DOMAIN commands = 1 .. Len(commands)
  BY <1>1, Rows
<1>3. c \in DOMAIN commands /\ Kept(c)
  BY <1>1, RowsKept DEF New, Wishes
<1>4. /\ commands'[c].action = commands[c].action /\ commands[c].action \in {"PAUSE", "RESUME"}
      /\ Reaches(commands[c].target, k)
      /\ commands[c].action = "RESUME" \/ k \in commands[c].reached
  BY <1>3 DEF Kept, Same, Wishes
<1>5. CASE commands[c].status # "SUCCEEDED"
  <2>1. Applied(c, "SUCCEEDED") /\ Reportable(c)
    BY <1>1, <1>3, <1>4, <1>5, Finishing
  <2>2. feed[k] # NoFeed
    BY <2>1 DEF Applied, Targeted
  <2>3. k \in Targeted(commands[c].target)
    BY <1>4, <2>2 DEF Targeted
  <2>4. feed'[k] = IF commands[c].action = "PAUSE" THEN PauseFeed(feed[k]) ELSE ResumeFeed(feed[k])
    BY <1>4, <2>1, <2>3 DEF Applied
  <2> QED
    BY <1>4, <2>4 DEF Blocked, PauseFeed, ResumeFeed
<1>6. CASE commands[c].status = "SUCCEEDED"
  <2>1. c \in Wishes(k)
    BY <1>3, <1>4, <1>6 DEF Wishes
  <2>2. ASSUME NEW d \in Wishes(k) PROVE d <= c /\ ~ Open(d)
    <3>1. /\ d \in DOMAIN commands /\ Kept(d) /\ commands[d].status # "DELETED"
          /\ commands[d].action \in {"PAUSE", "RESUME"} /\ Reaches(commands[d].target, k)
      BY <1>1, RowsKept DEF Wishes
    <3>2. CASE commands'[d].status = "DELETED"
      <4>1. PICK h \in Keys : DeleteFeed(h)
        BY <1>1, <3>1, <3>2, Deletions, DeletedSome DEF Kept
      <4>2. commands[d] \in Command
        BY <1>1, <3>1, Rows
      <4>3. commands[d].target = h
        BY <3>1, <3>2, <4>1, <4>2 DEF DeleteFeed, Command
      <4>4. h = k
        BY <3>1, <4>3, ControlAssumption DEF Reaches
      <4> QED
        BY <1>1, <4>1, <4>4 DEF DeleteFeed, TypeOK
    <3>3. CASE commands'[d].status # "DELETED"
      <4>1. d \in Wishes(k)'
        BY <3>1, <3>3 DEF Wishes, Kept, Same
      <4>2. d <= c
        BY <4>1
      <4>3. CASE d = c
        BY <1>6, <4>3 DEF Open, Ended
      <4>4. CASE d # c
        BY <1>1, <1>2, <1>3, <1>6, <2>1, <3>1, <4>2, <4>4 DEF Ordered
      <4> QED
        BY <4>2, <4>3, <4>4
    <3> QED
      BY <3>2, <3>3
  <2>3. Len(commands) + 1 \notin Wishes(k)'
    BY <1>2, <1>3
  <2>4. Blocked(feed'[k]) => Blocked(feed[k])
    BY <1>1, <2>2, <2>3, StepPauses
  <2>5. CASE feed[k] = NoFeed
    <3>1. commands[c].action = "RESUME"
      BY <1>1, <1>3, <1>4, <2>5 DEF ReachedExist
    <3>2. ~ Blocked(feed[k])
      BY <2>5 DEF Blocked, NoFeed
    <3> QED
      BY <1>4, <2>4, <3>1, <3>2
  <2>6. CASE feed[k] # NoFeed
    <3>1. Blocked(feed[k]) <=> commands[c].action = "PAUSE"
      BY <1>1, <1>4, <1>6, <2>1, <2>2, <2>6 DEF LastWordHolds
    <3>2. Blocked(feed[k]) => Blocked(feed'[k])
      BY <1>1, <2>2, StepResumes DEF Resumes
    <3> QED
      BY <1>4, <2>4, <3>1, <3>2
  <2> QED
    BY <2>5, <2>6
<1> QED
  BY <1>5, <1>6

\* The invariant is kept by every step.
LEMMA StepLastWordInv == LastWordInv /\ [Next]_vars => LastWordInv'
<1> SUFFICES ASSUME LastWordInv, [Next]_vars PROVE LastWordInv'
  OBVIOUS
<1>1. HeldInv /\ Orderly
  BY DEF LastWordInv
<1>2. Orderly'
  BY <1>1, StepQueueFirst, StepRunning, StepOrdered DEF Orderly
<1> QED
  BY <1>1, <1>2, StepHeldInv, StepLastWord DEF LastWordInv

\* It holds at first, when there are no commands.
LEMMA InitLastWordInv == Init => LastWordInv
<1> SUFFICES ASSUME Init PROVE LastWordInv
  OBVIOUS
<1>1. collector.queue = {} /\ collector.at = "down" /\ DOMAIN commands = {}
  BY DEF Init, Supervisor
<1> QED
  BY <1>1, InitHeldInv DEF LastWordInv, Orderly, QueueFirst, RunningInQueue, Ordered, LastWordHolds,
                           Wishes

\* As long as no request of the collector fails, the last command for a feed decides
\* whether it is paused, over crashes, restarts and cancelled commands.
THEOREM LastWord == Spec => []LastWordHolds
<1>1. LastWordInv => LastWordHolds
  BY DEF LastWordInv
<1> QED
  BY InitLastWordInv, StepLastWordInv, <1>1, PTL DEF Spec

=============================================================================
