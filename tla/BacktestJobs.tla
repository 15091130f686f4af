----------------------------- MODULE BacktestJobs -----------------------------
(***************************************************************************)
(* Asynchronous backtests: the API queues experiments, worker processes    *)
(* claim and execute them, users cancel them, workers crash and restart.   *)
(*                                                                         *)
(* The only communication is the row of the experiment in PostgreSQL (the  *)
(* Redis channel merely wakes an idle worker).  An execution is one long   *)
(* transaction; its progress reports use a second, short one.              *)
(***************************************************************************)
EXTENDS Naturals

CONSTANTS
  JobCount,     \* bound: the number of experiments
  Workers,      \* worker processes
  Started,      \* the workers that are running at first
  Users,        \* sessions of users that cancel experiments
  MaxCrashes    \* bound: how often worker processes crash

ASSUME JobsAssumption ==
  /\ JobCount \in Nat /\ MaxCrashes \in Nat
  /\ Started \subseteq Workers

Jobs == 1 .. JobCount     \* in the order of created_at

VARIABLES
  experiment,  \* backtest_experiments.status
  run,         \* runs.status, of the run of each experiment
  trades,      \* backtest_trades: the executions whose trades are stored
  attempts,    \* how often each experiment has been claimed
  worker,      \* the state of each worker process
  cancel,      \* what the cancel request of each user has loaded
  crashes

vars == <<experiment, run, trades, attempts, worker, cancel, crashes>>

Terminal == {"SUCCEEDED", "FAILED", "CANCELLED"}
Statuses == {"ABSENT", "PENDING", "RUNNING", "CANCEL_REQUESTED"} \cup Terminal
RunStatuses == {"ABSENT", "QUEUED", "RUNNING", "COMPLETED", "FAILED", "CANCELLED"}

Resting(where) ==
  [at |-> where, job |-> 0, attempt |-> 0, loaded |-> "ABSENT", deleted |-> {}]

\* A process that executes: its job, the number of the execution, the status and
\* the trades it has found.
Process ==
  {Resting("down"), Resting("idle")} \cup
  [at : {"claimed", "running", "cancelling", "done"}, job : Jobs, attempt : Nat,
   loaded : Statuses, deleted : SUBSET Nat]

NoRequest == [job |-> 0, loaded |-> "ABSENT"]
Request == [job : Jobs, loaded : {"PENDING", "RUNNING"}]

\* Type invariant: the rows of the database and the state of the processes.
TypeOK ==
  /\ experiment \in [Jobs -> Statuses]
  /\ run \in [Jobs -> RunStatuses]
  /\ trades \in [Jobs -> SUBSET Nat]
  /\ attempts \in [Jobs -> Nat]
  /\ worker \in [Workers -> Process]
  /\ cancel \in [Users -> {NoRequest} \cup Request]
  /\ crashes \in 0 .. MaxCrashes

Init ==
  /\ experiment = [j \in Jobs |-> "ABSENT"]
  /\ run = [j \in Jobs |-> "ABSENT"]
  /\ trades = [j \in Jobs |-> {}]
  /\ attempts = [j \in Jobs |-> 0]
  /\ worker = [w \in Workers |-> Resting(IF w \in Started THEN "idle" ELSE "down")]
  /\ cancel = [u \in Users |-> NoRequest]
  /\ crashes = 0

-----------------------------------------------------------------------------
(* The API. *)

Create(j) ==
  /\ experiment[j] = "ABSENT"
  /\ \A i \in Jobs : i < j => experiment[i] # "ABSENT"
  /\ experiment' = [experiment EXCEPT ![j] = "PENDING"]
  /\ run' = [run EXCEPT ![j] = "QUEUED"]
  /\ UNCHANGED <<trades, attempts, worker, cancel, crashes>>

\* The request loads the experiment.  One that has ended, or whose cancellation
\* is requested, ends the request with no change.
CancelRead(u, j) ==
  /\ cancel[u] = NoRequest
  /\ experiment[j] \in {"PENDING", "RUNNING"}
  /\ cancel' = [cancel EXCEPT ![u] = [job |-> j, loaded |-> experiment[j]]]
  /\ UNCHANGED <<experiment, run, trades, attempts, worker, crashes>>

\* Mutant: the run is left as it is.
RunKept(loaded, status) == status

\* What a cancel request that has loaded the experiment writes to its run.
RunAfterCancel(loaded, status) == IF loaded = "PENDING" THEN "CANCELLED" ELSE status

\* The write does not look at the row again.
CancelCommit(u) ==
  /\ cancel[u] # NoRequest
  /\ LET j == cancel[u].job
         loaded == cancel[u].loaded
     IN  /\ experiment' = [experiment EXCEPT
              ![j] = IF loaded = "PENDING" THEN "CANCELLED" ELSE "CANCEL_REQUESTED"]
         /\ run' = [run EXCEPT ![j] = RunAfterCancel(loaded, @)]
  /\ cancel' = [cancel EXCEPT ![u] = NoRequest]
  /\ UNCHANGED <<trades, attempts, worker, crashes>>

-----------------------------------------------------------------------------
(* The worker. *)

\* Mutant: nothing is queued again.
NoneInterrupted == {}

\* The experiments reset_interrupted_backtests queues again: those of every
\* worker, but not those with a cancellation requested.
Interrupted == {j \in Jobs : experiment[j] = "RUNNING"}

\* The process starts; the runs keep their status.
Start(w) ==
  /\ worker[w].at = "down"
  /\ experiment' = [j \in Jobs |-> IF j \in Interrupted THEN "PENDING" ELSE experiment[j]]
  /\ worker' = [worker EXCEPT ![w] = Resting("idle")]
  /\ UNCHANGED <<run, trades, attempts, cancel, crashes>>

\* Mutant: a claim does not exclude the experiments already claimed.
NotEnded == {j \in Jobs : experiment[j] \in {"PENDING", "RUNNING"}}

Claimable == {j \in Jobs : experiment[j] = "PENDING"}

\* The oldest pending row, under FOR UPDATE SKIP LOCKED, in one transaction.
Claim(w) ==
  /\ worker[w].at = "idle"
  /\ \E j \in Claimable :
       /\ \A i \in Claimable : j <= i
       /\ experiment' = [experiment EXCEPT ![j] = "RUNNING"]
       /\ run' = [run EXCEPT ![j] = "RUNNING"]
       /\ attempts' = [attempts EXCEPT ![j] = @ + 1]
       /\ worker' = [worker EXCEPT ![w] =
            [Resting("claimed") EXCEPT !.job = j, !.attempt = attempts[j] + 1]]
  /\ UNCHANGED <<trades, cancel, crashes>>

\* execute_backtest loads the experiment, whatever its status is by now, and
\* deletes the trades it finds, in a transaction that stays open.
ExecuteBegin(w) ==
  /\ worker[w].at = "claimed"
  /\ LET j == worker[w].job IN
     worker' = [worker EXCEPT ![w].at = "running", ![w].loaded = experiment[j],
                              ![w].deleted = trades[j]]
  /\ UNCHANGED <<experiment, run, trades, attempts, cancel, crashes>>

\* Mutant: cancellation requests are not looked at.
Ignored(status) == FALSE

\* What the progress reporter looks for.
CancelSeen(status) == status = "CANCEL_REQUESTED"

\* A progress report finds the request: BacktestCancelled.
Cancelled(w) ==
  /\ worker[w].at = "running"
  /\ CancelSeen(experiment[worker[w].job])
  /\ worker' = [worker EXCEPT ![w].at = "cancelling"]
  /\ UNCHANGED <<experiment, run, trades, attempts, cancel, crashes>>

\* Mutant: the trades are committed before the status.
TradesFirst(w) ==
  /\ worker[w].at = "running"
  /\ ~CancelSeen(experiment[worker[w].job])
  /\ worker' = [worker EXCEPT ![w].at = "done"]
  /\ trades' = [trades EXCEPT ![worker[w].job] =
       (@ \ worker[w].deleted) \cup {worker[w].attempt}]
  /\ UNCHANGED <<experiment, run, attempts, cancel, crashes>>

\* The last progress report, after which a request comes too late.
LastReport(w) ==
  /\ worker[w].at = "running"
  /\ ~CancelSeen(experiment[worker[w].job])
  /\ worker' = [worker EXCEPT ![w].at = "done"]
  /\ UNCHANGED <<experiment, run, trades, attempts, cancel, crashes>>

\* The trades, the status and the status of the run are committed together.  A
\* status equal to the one loaded is not written.
Succeed(w) ==
  /\ worker[w].at = "done"
  /\ LET j == worker[w].job IN
     /\ experiment' = [experiment EXCEPT
          ![j] = IF worker[w].loaded = "SUCCEEDED" THEN @ ELSE "SUCCEEDED"]
     /\ run' = [run EXCEPT ![j] = "COMPLETED"]
     /\ trades' = [trades EXCEPT ![j] = (@ \ worker[w].deleted) \cup {worker[w].attempt}]
  /\ worker' = [worker EXCEPT ![w] = Resting("idle")]
  /\ UNCHANGED <<attempts, cancel, crashes>>

\* After a rollback, and on a row read again: the trades stay as they were.
EndWith(w, status) ==
  /\ experiment' = [experiment EXCEPT ![worker[w].job] = status]
  /\ run' = [run EXCEPT ![worker[w].job] = status]
  /\ worker' = [worker EXCEPT ![w] = Resting("idle")]
  /\ UNCHANGED <<trades, attempts, cancel, crashes>>

EndCancelled(w) == worker[w].at = "cancelling" /\ EndWith(w, "CANCELLED")

Fail(w) == worker[w].at \in {"running", "done"} /\ EndWith(w, "FAILED")

\* The process ends, by itself or by an exception nothing catches.
Crash(w) ==
  /\ worker[w].at # "down" /\ crashes < MaxCrashes
  /\ crashes' = crashes + 1
  /\ worker' = [worker EXCEPT ![w] = Resting("down")]
  /\ UNCHANGED <<experiment, run, trades, attempts, cancel>>

Execute(w) ==
  ExecuteBegin(w) \/ Cancelled(w) \/ LastReport(w) \/ Succeed(w) \/ EndCancelled(w) \/ Fail(w)

\* Everything but the start of a worker.
Step ==
  \/ \E j \in Jobs : Create(j)
  \/ \E u \in Users, j \in Jobs : CancelRead(u, j)
  \/ \E u \in Users : CancelCommit(u)
  \/ \E w \in Workers :
       \/ Claim(w)
       \/ ExecuteBegin(w)
       \/ Cancelled(w)
       \/ LastReport(w)
       \/ Succeed(w)
       \/ EndCancelled(w)
       \/ Fail(w)
       \/ Crash(w)

Next == Step \/ \E w \in Workers : Start(w)

Spec == Init /\ [][Next]_vars

\* The platform restarts a crashed worker; a running one keeps polling and its
\* executions end; the transactions of users end.
WorkersGoOn == \A w \in Workers : WF_vars(Claim(w)) /\ WF_vars(Execute(w))

RequestsEnd == \A u \in Users : WF_vars(CancelCommit(u))

LiveSpec == Spec /\ WorkersGoOn /\ RequestsEnd /\ \A w \in Workers : WF_vars(Start(w))

-----------------------------------------------------------------------------
(* Deployments in which a worker only starts while no worker executes an    *)
(* experiment that the start would queue again: a single worker, whose      *)
(* start finds nobody executing, or several that are started in a quiet     *)
(* moment.  In the others Start breaks ExecutedAlone.                       *)

Quiet == \A v \in Workers : worker[v].job \notin Interrupted

StartQuietly(w) == Quiet /\ Start(w)

QuietNext == Step \/ \E w \in Workers : StartQuietly(w)

QuietSpec == Init /\ [][QuietNext]_vars

QuietLiveSpec ==
  QuietSpec /\ WorkersGoOn /\ RequestsEnd /\ \A w \in Workers : WF_vars(StartQuietly(w))

-----------------------------------------------------------------------------
(* Properties. *)

\* "Claims are atomic, but one backtest is not split across processes": no
\* experiment is executed by two workers at the same time, however many workers
\* claim, crash and start.
ExecutedAlone ==
  \A v, w \in Workers : worker[v].job # 0 /\ worker[v].job = worker[w].job => v = w

\* An experiment has the trades of one execution at most, of exactly one when it has
\* succeeded, and none while it waits or runs or when it has failed, however often its
\* worker crashed and was asked to cancel.  (A request that comes too late gives an
\* experiment that has succeeded another status, and leaves its trades.)
ResultsOnce ==
  \A j \in Jobs :
    /\ \A m, n \in trades[j] : m = n
    /\ experiment[j] = "SUCCEEDED" => trades[j] # {}
    /\ experiment[j] \in {"ABSENT", "PENDING", "RUNNING", "FAILED"} => trades[j] = {}

Executing(j) == \E w \in Workers : worker[w].job = j

\* "A backtest reaches a terminal state": every experiment ends, over crashes, restarts
\* and cancel requests, except one whose worker crashed with a cancellation requested.
\* The start of a worker does not look for that one, nor does a claim.
Abandoned(j) == experiment[j] = "CANCEL_REQUESTED" /\ ~Executing(j)

JobsTerminate ==
  \A j \in Jobs : experiment[j] # "ABSENT" ~> experiment[j] \in Terminal \/ Abandoned(j)

\* The run of an experiment that has ended says how, whatever cancel requests
\* and crashes came in between.
RunOf == [SUCCEEDED |-> "COMPLETED", FAILED |-> "FAILED", CANCELLED |-> "CANCELLED"]

RunAgrees ==
  \A j \in Jobs : experiment[j] \in Terminal => run[j] = RunOf[experiment[j]]

\* The inductive invariant behind ExecutedAlone and RunAgrees, where workers start
\* quietly: what a worker executes is never pending, so that nobody claims it once
\* more, and has not succeeded, so that its end is written to both rows.
ClaimedIsNotPending ==
  \A w \in Workers : worker[w].job # 0 => experiment[worker[w].job] \notin {"ABSENT", "PENDING"}

UnfinishedWhenExecuted ==
  \A w \in Workers : worker[w].job # 0 =>
    worker[w].loaded # "SUCCEEDED" /\ experiment[worker[w].job] # "SUCCEEDED"

Inv == TypeOK /\ ClaimedIsNotPending /\ ExecutedAlone /\ UnfinishedWhenExecuted /\ RunAgrees

\* A request that reaches an experiment before the last progress report of its
\* execution is honoured: it ends without results, or its worker crashes.
CancelIsHonoured ==
  \A j \in Jobs :
    /\ experiment[j] = "CANCEL_REQUESTED"
    /\ \E w \in Workers : worker[w].job = j /\ worker[w].at \in {"claimed", "running"}
    ~> experiment[j] = "CANCELLED" \/ (~Executing(j) /\ experiment[j] # "SUCCEEDED")

=============================================================================
