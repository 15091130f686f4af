--------------------------- MODULE OptimizationJobs ---------------------------
(***************************************************************************)
(* Asynchronous parameter optimizations.  They are queued, claimed,        *)
(* cancelled and reset like backtests, but an execution is a sequence of   *)
(* transactions: it deletes the trials it finds, searches, commits every   *)
(* few trials, validates the best ones on later candles and keeps the      *)
(* winner in best_candidate.  So a crash, a cancellation or a failure      *)
(* leaves a part of the trials behind.                                     *)
(***************************************************************************)
EXTENDS Integers, FiniteSets

CONSTANTS
  RunCount,         \* bound: the number of optimization runs
  Workers,          \* worker processes
  Started,          \* the workers that are running at first
  Users,            \* sessions of users that cancel runs
  Trials,           \* n_trials
  CommitInterval,   \* OPTIMIZATION_COMMIT_INTERVAL
  CancelInterval,   \* OPTIMIZATION_CANCEL_CHECK_INTERVAL
  CandidateLimit,   \* VALIDATION_CANDIDATE_LIMIT
  Scores,           \* the ranks of the scores of trials
  MaxCrashes,       \* bound: how often worker processes crash
  MaxUnstored       \* bound: how often a failure cannot be stored

ASSUME OptimizationAssumption ==
  /\ {RunCount, MaxCrashes, MaxUnstored} \subseteq Nat
  /\ {Trials, CommitInterval, CancelInterval, CandidateLimit} \subseteq Nat \ {0}
  /\ Scores \subseteq Nat \ {0}
  /\ Started \subseteq Workers

Runs == 1 .. RunCount     \* in the order of created_at

VARIABLES
  optimization,  \* optimization_runs
  run,           \* runs.status, of the run of each optimization
  trials,        \* optimization_trials, committed
  attempts,      \* how often each optimization has been claimed
  worker,        \* the state of each worker process
  cancel,        \* what the cancel request of each user has loaded
  crashes,
  unstored       \* how often a failure could not be stored

vars == <<optimization, run, trials, attempts, worker, cancel, crashes, unstored>>
database == <<optimization, run, trials>>

Terminal == {"SUCCEEDED", "FAILED", "CANCELLED"}
Statuses == {"ABSENT", "PENDING", "RUNNING", "CANCEL_REQUESTED"} \cup Terminal
RunStatuses == {"ABSENT", "QUEUED", "RUNNING", "COMPLETED", "FAILED", "CANCELLED"}

Nobody == -1     \* no best candidate

\* A trial: its number (those of the search come before those of the validation),
\* the search trial whose parameters it uses (itself, in the search), the rank of its
\* score, 0 when it has failed, and the execution.
Trial == [number : Nat, of : Nat, score : Scores \cup {0}, attempt : Nat]

Counts == [succeeded : Nat, failed : Nat]
NoCounts == [succeeded |-> 0, failed |-> 0]

Row ==
  [status : Statuses, completed : Nat, total : Nat, best : Nat \cup {Nobody}, summary : Counts]

Absent == [status |-> "ABSENT", completed |-> 0, total |-> 0, best |-> Nobody, summary |-> NoCounts]

Resting(where) ==
  [at |-> where, job |-> 0, attempt |-> 0, loaded |-> "ABSENT", made |-> {}, saved |-> {},
   best |-> Nobody, stored |-> Nobody, top |-> 0, chosen |-> {}]

\* A process that executes: the status it has loaded, the trials it has made and
\* those of them it has committed, its best candidate and the one it has committed,
\* the best score of this phase, the candidates it validates.
Process ==
  {Resting("down"), Resting("idle")} \cup
  [at : {"claimed", "searching", "validating"}, job : Runs, attempt : Nat, loaded : Statuses,
   made : SUBSET Trial, saved : SUBSET Trial, best : Nat \cup {Nobody},
   stored : Nat \cup {Nobody}, top : Scores \cup {0}, chosen : SUBSET Trial]

NoRequest == [job |-> 0, loaded |-> "ABSENT"]
Request == [job : Runs, loaded : {"PENDING", "RUNNING"}]

\* Type invariant: the rows of the database and the state of the processes.
TypeOK ==
  /\ optimization \in [Runs -> Row]
  /\ run \in [Runs -> RunStatuses]
  /\ trials \in [Runs -> SUBSET Trial]
  /\ attempts \in [Runs -> Nat]
  /\ worker \in [Workers -> Process]
  /\ cancel \in [Users -> {NoRequest} \cup Request]
  /\ crashes \in 0 .. MaxCrashes /\ unstored \in 0 .. MaxUnstored

Init ==
  /\ optimization = [o \in Runs |-> Absent]
  /\ run = [o \in Runs |-> "ABSENT"]
  /\ trials = [o \in Runs |-> {}]
  /\ attempts = [o \in Runs |-> 0]
  /\ worker = [w \in Workers |-> Resting(IF w \in Started THEN "idle" ELSE "down")]
  /\ cancel = [u \in Users |-> NoRequest]
  /\ crashes = 0 /\ unstored = 0

-----------------------------------------------------------------------------
(* The API. *)

Create(o) ==
  /\ optimization[o].status = "ABSENT"
  /\ \A i \in Runs : i < o => optimization[i].status # "ABSENT"
  /\ optimization' = [optimization EXCEPT ![o].status = "PENDING", ![o].total = Trials]
  /\ run' = [run EXCEPT ![o] = "QUEUED"]
  /\ UNCHANGED <<trials, attempts, worker, cancel, crashes, unstored>>

\* The request loads the run; for one that has ended it changes nothing.
CancelRead(u, o) ==
  /\ cancel[u] = NoRequest
  /\ optimization[o].status \in {"PENDING", "RUNNING"}
  /\ cancel' = [cancel EXCEPT ![u] = [job |-> o, loaded |-> optimization[o].status]]
  /\ UNCHANGED <<database, attempts, worker, crashes, unstored>>

\* The write does not look at the row again.
CancelCommit(u) ==
  /\ cancel[u] # NoRequest
  /\ LET o == cancel[u].job
         pending == cancel[u].loaded = "PENDING"
     IN  /\ optimization' = [optimization EXCEPT
              ![o].status = IF pending THEN "CANCELLED" ELSE "CANCEL_REQUESTED"]
         /\ run' = [run EXCEPT ![o] = IF pending THEN "CANCELLED" ELSE @]
  /\ cancel' = [cancel EXCEPT ![u] = NoRequest]
  /\ UNCHANGED <<trials, attempts, worker, crashes, unstored>>

-----------------------------------------------------------------------------
(* The queue. *)

\* Mutant: nothing is queued again.
NoneInterrupted == {}

\* What reset_interrupted_optimizations queues again: the runs of every worker.
Interrupted == {o \in Runs : optimization[o].status = "RUNNING"}

\* A process starts.  The trials and the best candidate stay.
Start(w) ==
  /\ worker[w].at = "down"
  /\ optimization' = [o \in Runs |->
       IF o \in Interrupted
       THEN [optimization[o] EXCEPT !.status = "PENDING", !.completed = 0, !.total = 0]
       ELSE optimization[o]]
  /\ worker' = [worker EXCEPT ![w] = Resting("idle")]
  /\ UNCHANGED <<run, trials, attempts, cancel, crashes, unstored>>

Claimable == {o \in Runs : optimization[o].status = "PENDING"}

\* The oldest pending row, under FOR UPDATE SKIP LOCKED, in one transaction.
Claim(w) ==
  /\ worker[w].at = "idle"
  /\ \E o \in Claimable :
       /\ \A i \in Claimable : o <= i
       /\ optimization' = [optimization EXCEPT ![o].status = "RUNNING",
                                               ![o].completed = 0, ![o].total = Trials]
       /\ run' = [run EXCEPT ![o] = "RUNNING"]
       /\ attempts' = [attempts EXCEPT ![o] = @ + 1]
       /\ worker' = [worker EXCEPT ![w] =
            [Resting("claimed") EXCEPT !.job = o, !.attempt = attempts[o] + 1]]
  /\ UNCHANGED <<trials, cancel, crashes, unstored>>

-----------------------------------------------------------------------------
(* The execution. *)

\* Mutant: the best candidate of an earlier execution is kept.
Kept(row) == [row EXCEPT !.completed = 0, !.total = Trials]

\* What an execution starts from.
Cleared(row) == [row EXCEPT !.best = Nobody, !.summary = NoCounts, !.completed = 0, !.total = Trials]

\* What is left of the trials R of earlier executions.
Discarded(R) == {}

\* The trials of earlier executions are deleted, and that is committed.
Begin(w) ==
  /\ worker[w].at = "claimed"
  /\ LET o == worker[w].job IN
     /\ worker' = [worker EXCEPT ![w].at = "searching", ![w].loaded = optimization[o].status]
     /\ trials' = [trials EXCEPT ![o] = Discarded(@)]
     /\ optimization' = [optimization EXCEPT ![o] = Cleared(@)]
  /\ UNCHANGED <<run, attempts, cancel, crashes, unstored>>

Searched(R) == {t \in R : t.number < Trials}
Validated(R) == {t \in R : t.number >= Trials}
Succeeded(R) == {t \in R : t.score > 0}
Failed(R) == {t \in R : t.score = 0}

\* ORDER BY score DESC, trial_number ASC.
Before(s, t) == s.score > t.score \/ (s.score = t.score /\ s.number < t.number)

\* The trial t comes before every other one of R.
First(t, R) == \A s \in R \ {t} : Before(t, s)

CountsOf(R) == [succeeded |-> Cardinality(Succeeded(R)), failed |-> Cardinality(Failed(R))]

\* A commit of the execution p: the trials R it has made and its best candidate,
\* which is written when it is another than the one p has committed last.
Committed(row, p, R, best, total) ==
  [row EXCEPT !.best = IF best = p.stored THEN @ ELSE best,
              !.completed = Cardinality(R), !.total = total]

Save(w, R, best, total) ==
  LET o == worker[w].job IN
  /\ trials' = [trials EXCEPT ![o] = @ \cup (R \ worker[w].saved)]
  /\ optimization' = [optimization EXCEPT ![o] = Committed(@, worker[w], R, best, total)]

CommitCheckpoint(completed, total) == completed % CommitInterval = 0 /\ completed < total

\* A trial that becomes the best candidate; one that has failed never does.
Better(trial, top) == trial.score > top

\* The trial is made in memory; the next commit stores it.
Make(w, trial, total) ==
  LET R == worker[w].made \cup {trial}
      better == Better(trial, worker[w].top)
      best == IF better THEN trial.number ELSE worker[w].best
      commit == CommitCheckpoint(Cardinality(R), total)
  IN  /\ worker' = [worker EXCEPT ![w].made = R, ![w].best = best,
                                  ![w].top = IF better THEN trial.score ELSE @,
                                  ![w].saved = IF commit THEN R ELSE @,
                                  ![w].stored = IF commit THEN best ELSE @]
      /\ \/ commit /\ Save(w, R, best, total)
         \/ ~commit /\ UNCHANGED <<optimization, trials>>
      /\ UNCHANGED <<run, attempts, cancel, crashes, unstored>>

\* uq_optimization_trial_number: nobody has stored or inserted this trial.
Free(w, number) ==
  LET others == {v \in Workers \ {w} : worker[v].job = worker[w].job} IN
  \A t \in trials[worker[w].job] \cup UNION {worker[v].made \ worker[v].saved : v \in others} :
    t.number # number

\* Mutant: cancellation requests are not looked at.
NeverSeen(w, index) == FALSE

\* The execution looks for a request every so many trials.
CancelSeen(w, index) ==
  index % CancelInterval = 0 /\ optimization[worker[w].job].status = "CANCEL_REQUESTED"

\* One trial of the search, which succeeds with a score or fails.
SearchTrial(w) ==
  /\ worker[w].at = "searching"
  /\ LET number == Cardinality(worker[w].made) IN
     /\ number < Trials /\ ~CancelSeen(w, number) /\ Free(w, number)
     /\ \E score \in Scores \cup {0} :
          Make(w, [number |-> number, of |-> number, score |-> score,
                   attempt |-> worker[w].attempt], Trials)

\* Mutant: the candidates are the first that have succeeded.
FirstOf(R) ==
  {t \in Succeeded(R) : Cardinality({s \in Succeeded(R) : s.number < t.number}) < CandidateLimit}

\* The candidates: the best trials of the search, as many as the limit allows.
TopOf(R) ==
  {t \in Succeeded(R) : Cardinality({s \in Succeeded(R) : Before(s, t)}) < CandidateLimit}

\* The search has ended: its candidates are chosen from what the session sees.  The
\* best of the search stays the best candidate until a validation succeeds.
Select(w) ==
  /\ worker[w].at = "searching" /\ Cardinality(worker[w].made) = Trials
  /\ LET made == worker[w].made
         candidates == TopOf(Searched(trials[worker[w].job] \cup made))
     IN  /\ candidates # {}
         /\ Save(w, made, worker[w].best, Trials + Cardinality(candidates))
         /\ worker' = [worker EXCEPT ![w].at = "validating", ![w].saved = made,
                                     ![w].stored = worker[w].best, ![w].top = 0,
                                     ![w].chosen = candidates]
  /\ UNCHANGED <<run, attempts, cancel, crashes, unstored>>

\* The candidates still to be validated, of which the best is next.
Waiting(w) == {t \in worker[w].chosen : \A v \in Validated(worker[w].made) : v.of # t.number}

Index(w) == Cardinality(Validated(worker[w].made))
Total(w) == Trials + Cardinality(worker[w].chosen)

ValidationTrial(w) ==
  /\ worker[w].at = "validating" /\ Waiting(w) # {}
  /\ ~CancelSeen(w, Index(w)) /\ Free(w, Trials + Index(w))
  /\ \E candidate \in Waiting(w), score \in Scores \cup {0} :
       /\ First(candidate, Waiting(w))
       /\ Make(w, [number |-> Trials + Index(w), of |-> candidate.number, score |-> score,
                   attempt |-> worker[w].attempt], Total(w))

\* What the execution p writes when it ends: its last trials, and a status that
\* differs from the one it has loaded.
EndRow(row, p, status, total) ==
  [Committed(row, p, p.made, p.best, total) EXCEPT
     !.status = IF p.loaded = status THEN @ ELSE status,
     !.summary = CountsOf(p.made)]

End(w, status, runStatus) ==
  LET o == worker[w].job
      total == IF worker[w].at = "searching" THEN Trials ELSE Total(w)
  IN  /\ trials' = [trials EXCEPT ![o] = @ \cup (worker[w].made \ worker[w].saved)]
      /\ optimization' = [optimization EXCEPT ![o] = EndRow(@, worker[w], status, total)]
      /\ run' = [run EXCEPT ![o] = runStatus]
      /\ worker' = [worker EXCEPT ![w] = Resting("idle")]
      /\ UNCHANGED <<attempts, cancel, crashes, unstored>>

EndCancelled(w) ==
  /\ \/ worker[w].at = "searching" /\ Cardinality(worker[w].made) < Trials
        /\ CancelSeen(w, Cardinality(worker[w].made))
     \/ worker[w].at = "validating" /\ Waiting(w) # {} /\ CancelSeen(w, Index(w))
  /\ End(w, "CANCELLED", "CANCELLED")

Succeed(w) ==
  /\ worker[w].at = "validating" /\ Waiting(w) = {}
  /\ Succeeded(Validated(worker[w].made)) # {}
  /\ End(w, "SUCCEEDED", "COMPLETED")

\* An exception: nothing to search, no candidate, no successful validation, a
\* trial number already taken, an error of the database.  What was not committed
\* is rolled back, though it is counted.
Fail(w) ==
  /\ worker[w].at \in {"claimed", "searching", "validating"}
  /\ LET o == worker[w].job IN
     /\ optimization' = [optimization EXCEPT
          ![o].status = "FAILED", ![o].summary = CountsOf(worker[w].made)]
     /\ run' = [run EXCEPT ![o] = "FAILED"]
  /\ worker' = [worker EXCEPT ![w] = Resting("idle")]
  /\ UNCHANGED <<trials, attempts, cancel, crashes, unstored>>

\* The failure itself cannot be stored, and that is only logged.
FailUnstored(w) ==
  /\ worker[w].at \in {"claimed", "searching", "validating"} /\ unstored < MaxUnstored
  /\ unstored' = unstored + 1
  /\ worker' = [worker EXCEPT ![w] = Resting("idle")]
  /\ UNCHANGED <<database, attempts, cancel, crashes>>

\* The process ends, by itself or by an exception nothing catches.
Crash(w) ==
  /\ worker[w].at # "down" /\ crashes < MaxCrashes
  /\ crashes' = crashes + 1
  /\ worker' = [worker EXCEPT ![w] = Resting("down")]
  /\ UNCHANGED <<database, attempts, cancel, unstored>>

Execute(w) ==
  \/ Begin(w) \/ SearchTrial(w) \/ Select(w) \/ ValidationTrial(w)
  \/ EndCancelled(w) \/ Succeed(w) \/ Fail(w)

Next ==
  \/ \E o \in Runs : Create(o)
  \/ \E u \in Users, o \in Runs : CancelRead(u, o)
  \/ \E u \in Users : CancelCommit(u)
  \/ \E w \in Workers :
       \/ Start(w) \/ Claim(w)
       \/ Begin(w) \/ SearchTrial(w) \/ Select(w) \/ ValidationTrial(w)
       \/ EndCancelled(w) \/ Succeed(w) \/ Fail(w)
       \/ FailUnstored(w) \/ Crash(w)

Spec == Init /\ [][Next]_vars

\* The platform restarts a crashed worker; a running one keeps polling and its
\* executions go on; the transactions of users end.
Fairness ==
  /\ \A w \in Workers : WF_vars(Start(w)) /\ WF_vars(Claim(w)) /\ WF_vars(Execute(w))
  /\ \A u \in Users : WF_vars(CancelCommit(u))

LiveSpec == Spec /\ Fairness

-----------------------------------------------------------------------------
(* Properties. *)

\* The stored trials of a run are those of one execution, however often it was
\* interrupted.  "Optuna workers can also scale horizontally": this would have to
\* hold for several workers too.
OneExecution ==
  \A o \in Runs : \A s, t \in trials[o] : s.attempt = t.attempt

\* The best of the trials R: the validation has the last word, and of equal scores
\* the first counts.
IsBest(n, R) ==
  LET winners == IF Succeeded(Validated(R)) # {} THEN Succeeded(Validated(R)) ELSE Succeeded(R)
  IN  IF winners = {} THEN n = Nobody
      ELSE \E t \in winners : t.number = n /\ First(t, winners)

\* The stored best candidate is the best of the trials that are stored with it,
\* after every commit, crash, rollback and cancellation.
BestIsStored == \A o \in Runs : IsBest(optimization[o].best, trials[o])

\* A run that has succeeded has stored every trial of the search and a validation
\* of as many as the limit allows, none of which is worse than one it left out; a
\* validation is its best candidate, and the summary counts what is stored.
Complete(R, row) ==
  LET found == Succeeded(Searched(R))
      validated == {t.of : t \in Validated(R)}
  IN  /\ {t.number : t \in Searched(R)} = 0 .. Trials - 1
      /\ validated \subseteq {t.number : t \in found}
      /\ Cardinality(validated) = Cardinality(Validated(R))
      /\ \/ Cardinality(validated) = CandidateLimit
         \/ Cardinality(validated) = Cardinality(found)
      /\ \A s, t \in found : s.number \notin validated /\ t.number \in validated => t.score >= s.score
      /\ row.best >= Trials
      /\ row.summary = CountsOf(R) /\ row.completed = row.total

SucceededIsComplete ==
  \A o \in Runs : optimization[o].status = "SUCCEEDED" => Complete(trials[o], optimization[o])

\* The progress of a run is what it has stored, and trials are stored from the
\* first on, so that an interrupted run shows a prefix of its trials.
Executing(o) == \E w \in Workers : worker[w].job = o /\ worker[w].at # "claimed"

ProgressIsStored ==
  \A o \in Runs : Executing(o) =>
    /\ optimization[o].completed = Cardinality(trials[o])
    /\ {t.number : t \in trials[o]} = 0 .. Cardinality(trials[o]) - 1

\* What every commit stores agrees: the best candidate and the progress with the
\* trials.
CommitsAgree == BestIsStored /\ ProgressIsStored

\* "An optimization run reaches a terminal state and stores top trials": unless a
\* user cancels, or the failure itself cannot be stored.
Undisturbed == unstored = 0 /\ \A u \in Users : cancel[u] = NoRequest

RunsTerminate ==
  []Undisturbed =>
    \A o \in Runs : optimization[o].status # "ABSENT" ~> optimization[o].status \in Terminal

\* A request that is stored while the search has a checkpoint ahead is honoured:
\* the run does not succeed any more.
CheckpointAhead(w) ==
  \/ worker[w].at = "claimed"
  \/ /\ worker[w].at = "searching"
     /\ \E n \in Cardinality(worker[w].made) .. Trials - 1 : n % CancelInterval = 0

CancelIsHonoured ==
  \A o \in Runs :
    /\ optimization[o].status = "CANCEL_REQUESTED"
    /\ \E w \in Workers : worker[w].job = o /\ CheckpointAhead(w)
    ~> optimization[o].status # "SUCCEEDED" /\ \A w \in Workers : worker[w].job # o

=============================================================================
