-------------------------- MODULE BacktestJobs_proofs --------------------------
(***************************************************************************)
(* Theorems about BacktestJobs, for any number of experiments, workers,    *)
(* users and crashes, where workers start quietly; a single worker always  *)
(* does.                                                                   *)
(***************************************************************************)
EXTENDS BacktestJobs, TLAPS

-----------------------------------------------------------------------------
(* Types. *)

\* Initially the variables have their types.
LEMMA InitTypes == Init => TypeOK
<1> SUFFICES ASSUME Init PROVE TypeOK
  OBVIOUS
<1>1. \A w \in Workers : worker[w] \in Process
  BY DEF Init, Process
<1>2. worker \in [Workers -> Process]
  BY <1>1 DEF Init
<1>3. cancel \in [Users -> {NoRequest} \cup Request]
  BY DEF Init
<1>4. crashes \in 0 .. MaxCrashes
  BY JobsAssumption DEF Init
<1> QED
  BY <1>2, <1>3, <1>4 DEF Init, TypeOK, Statuses, RunStatuses

\* What an executing process looks like.
LEMMA ProcessFacts ==
  ASSUME TypeOK, NEW w \in Workers, worker[w].at \notin {"down", "idle"}
  PROVE  /\ worker[w].job \in Jobs
         /\ worker[w] \in [at : {"claimed", "running", "cancelling", "done"}, job : Jobs,
                           attempt : Nat, loaded : Statuses, deleted : SUBSET Nat]
<1>1. worker[w] \in Process
  BY DEF TypeOK
<1> QED
  BY <1>1 DEF Process, Resting

\* Every step keeps the types.
LEMMA StepTypes == TypeOK /\ [Next]_vars => TypeOK'
<1> SUFFICES ASSUME TypeOK, [Next]_vars PROVE TypeOK'
  OBVIOUS
<1> USE JobsAssumption
<1>1. ASSUME NEW j \in Jobs, Create(j) PROVE TypeOK'
  BY <1>1 DEF TypeOK, Create, Statuses, RunStatuses
<1>2. ASSUME NEW u \in Users, NEW j \in Jobs, CancelRead(u, j) PROVE TypeOK'
  BY <1>2 DEF TypeOK, CancelRead, Request
<1>3. ASSUME NEW u \in Users, CancelCommit(u) PROVE TypeOK'
  BY <1>3 DEF TypeOK, CancelCommit, RunAfterCancel, Statuses, RunStatuses, Terminal
<1>4. ASSUME NEW w \in Workers, Start(w) PROVE TypeOK'
  BY <1>4 DEF TypeOK, Start, Statuses, Process
<1>5. ASSUME NEW w \in Workers, Claim(w) PROVE TypeOK'
  <2>1. PICK j \in Claimable :
          /\ experiment' = [experiment EXCEPT ![j] = "RUNNING"]
          /\ run' = [run EXCEPT ![j] = "RUNNING"]
          /\ attempts' = [attempts EXCEPT ![j] = @ + 1]
          /\ worker' = [worker EXCEPT ![w] =
               [Resting("claimed") EXCEPT !.job = j, !.attempt = attempts[j] + 1]]
    BY <1>5 DEF Claim
  <2>2. j \in Jobs /\ attempts[j] + 1 \in Nat
    BY <2>1 DEF Claimable, TypeOK
  <2>3. [Resting("claimed") EXCEPT !.job = j, !.attempt = attempts[j] + 1] \in Process
    BY <2>2 DEF Resting, Process, Statuses
  <2> QED
    BY <1>5, <2>1, <2>2, <2>3 DEF TypeOK, Claim, Statuses, RunStatuses
<1>6. ASSUME NEW w \in Workers, ExecuteBegin(w) PROVE TypeOK'
  <2> DEFINE j == worker[w].job
  <2>1. j \in Jobs
    BY <1>6, ProcessFacts DEF ExecuteBegin
  <2>2. experiment[j] \in Statuses /\ trades[j] \in SUBSET Nat
    BY <2>1 DEF TypeOK
  <2>3. worker' = [worker EXCEPT ![w] =
          [@ EXCEPT !.at = "running", !.loaded = experiment[j], !.deleted = trades[j]]]
    BY <1>6 DEF ExecuteBegin, TypeOK
  <2>4. [worker[w] EXCEPT !.at = "running", !.loaded = experiment[j], !.deleted = trades[j]]
          \in Process
    BY <1>6, <2>2, ProcessFacts DEF ExecuteBegin, Process
  <2> QED
    BY <1>6, <2>3, <2>4 DEF TypeOK, ExecuteBegin
<1>7. ASSUME NEW w \in Workers, Cancelled(w) PROVE TypeOK'
  <2>1. [worker[w] EXCEPT !.at = "cancelling"] \in Process
    BY <1>7, ProcessFacts DEF Cancelled, Process
  <2> QED
    BY <1>7, <2>1 DEF TypeOK, Cancelled
<1>8. ASSUME NEW w \in Workers, LastReport(w) PROVE TypeOK'
  <2>1. [worker[w] EXCEPT !.at = "done"] \in Process
    BY <1>8, ProcessFacts DEF LastReport, Process
  <2> QED
    BY <1>8, <2>1 DEF TypeOK, LastReport
<1>9. ASSUME NEW w \in Workers, Succeed(w) PROVE TypeOK'
  <2>1. worker[w].job \in Jobs /\ worker[w].attempt \in Nat
    BY <1>9, ProcessFacts DEF Succeed
  <2> QED
    BY <1>9, <2>1 DEF TypeOK, Succeed, Statuses, RunStatuses, Terminal, Process
<1>10. ASSUME NEW w \in Workers, EndCancelled(w) \/ Fail(w) PROVE TypeOK'
  <2>1. worker[w].job \in Jobs
    BY <1>10, ProcessFacts DEF EndCancelled, Fail
  <2> QED
    BY <1>10, <2>1
    DEF TypeOK, EndCancelled, Fail, EndWith, Statuses, RunStatuses, Terminal, Process
<1>11. ASSUME NEW w \in Workers, Crash(w) PROVE TypeOK'
  BY <1>11 DEF TypeOK, Crash, Process
<1>12. CASE UNCHANGED vars
  BY <1>12 DEF TypeOK, vars
<1> QED
  BY <1>1, <1>2, <1>3, <1>4, <1>5, <1>6, <1>7, <1>8, <1>9, <1>10, <1>11, <1>12 DEF Next, Step

\* A quiet start is a start.
LEMMA QuietIsNext == [QuietNext]_vars => [Next]_vars
<1> QED
  BY DEF QuietNext, Next, StartQuietly

\* A single worker always starts quietly: the one that starts executes nothing.
LEMMA SoleIsQuiet ==
  ASSUME \A v, w \in Workers : v = w
  PROVE  Spec => QuietSpec
<1>1. ASSUME TypeOK, NEW w \in Workers, Start(w) PROVE StartQuietly(w)
  <2>1. worker[w].job = 0
    BY <1>1 DEF Start, TypeOK, Process, Resting
  <2>2. 0 \notin Interrupted
    BY DEF Interrupted, Jobs
  <2> QED
    BY <1>1, <2>1, <2>2 DEF StartQuietly, Quiet
<1>2. TypeOK /\ [Next]_vars => [QuietNext]_vars
  BY <1>1 DEF Next, QuietNext
<1> QED
  BY InitTypes, StepTypes, <1>2, PTL DEF Spec, QuietSpec

-----------------------------------------------------------------------------
(* Claims are atomic, and the experiment and its run agree. *)

\* A step of one worker leaves the other workers alone, and a quiet start queues no
\* experiment again that a worker executes.  SUCCEEDED and FAILED are only written by
\* the worker that executes, each together with the run; a cancel request writes no
\* other terminal status than CANCELLED, with the run.
LEMMA StepAlone == Inv /\ [QuietNext]_vars => Inv'
<1> SUFFICES ASSUME Inv, [QuietNext]_vars PROVE Inv'
  OBVIOUS
<1>0. TypeOK /\ TypeOK'
  BY StepTypes, QuietIsNext DEF Inv
<1>a. \A w \in Workers : worker[w].job # 0 =>
        worker[w].job \in Jobs /\ worker[w].at \notin {"down", "idle"}
  BY <1>0 DEF TypeOK, Process, Resting
<1> DEFINE Rest ==
      ClaimedIsNotPending' /\ ExecutedAlone' /\ UnfinishedWhenExecuted' /\ RunAgrees'
<1> SUFFICES Rest
  BY <1>0 DEF Inv
<1> USE DEF Inv, ClaimedIsNotPending, ExecutedAlone, UnfinishedWhenExecuted, RunAgrees,
            RunOf, Terminal
<1>1. ASSUME NEW j \in Jobs, Create(j) PROVE Rest
  BY <1>0, <1>1, <1>a DEF Create, TypeOK
<1>2. ASSUME NEW u \in Users, NEW j \in Jobs, CancelRead(u, j) PROVE Rest
  BY <1>2 DEF CancelRead
<1>3. ASSUME NEW u \in Users, CancelCommit(u) PROVE Rest
  BY <1>0, <1>3, <1>a DEF CancelCommit, RunAfterCancel, TypeOK, Request
<1>4. ASSUME NEW w \in Workers, StartQuietly(w) PROVE Rest
  <2>1. \A v \in Workers : worker'[v] = IF v = w THEN Resting("idle") ELSE worker[v]
    BY <1>0, <1>4 DEF StartQuietly, Start, TypeOK
  <2>2. \A j \in Jobs : experiment'[j] = IF experiment[j] = "RUNNING" THEN "PENDING"
                                                                      ELSE experiment[j]
    BY <1>0, <1>4 DEF StartQuietly, Start, Interrupted, TypeOK
  <2>3. \A v \in Workers : worker[v].job \in Jobs => experiment[worker[v].job] # "RUNNING"
    BY <1>4 DEF StartQuietly, Quiet, Interrupted
  <2>4. \A v \in Workers : worker'[v].job # 0 =>
          v # w /\ worker'[v] = worker[v] /\ experiment'[worker[v].job] = experiment[worker[v].job]
    BY <2>1, <2>2, <2>3, <1>a DEF Resting
  <2>5. run' = run
    BY <1>4 DEF StartQuietly, Start
  <2> QED
    BY <2>2, <2>4, <2>5
<1>5. ASSUME NEW w \in Workers, Claim(w) PROVE Rest
  <2>1. PICK j \in Claimable :
          /\ experiment' = [experiment EXCEPT ![j] = "RUNNING"]
          /\ run' = [run EXCEPT ![j] = "RUNNING"]
          /\ worker' = [worker EXCEPT ![w] =
               [Resting("claimed") EXCEPT !.job = j, !.attempt = attempts[j] + 1]]
    BY <1>5 DEF Claim
  <2>2. j \in Jobs /\ experiment[j] = "PENDING"
    BY DEF Claimable
  <2>3. worker'[w].job = j /\ worker'[w].loaded = "ABSENT"
    BY <1>0, <2>1 DEF TypeOK, Resting
  <2>4. \A v \in Workers \ {w} : worker'[v] = worker[v] /\ worker[v].job # j
    <3>1. j # 0
      BY <2>2, JobsAssumption DEF Jobs
    <3>2. \A v \in Workers : worker[v].job # j
      BY <2>2, <3>1
    <3> QED
      BY <1>0, <2>1, <3>2 DEF TypeOK
  <2>5. \A i \in Jobs : /\ experiment'[i] = IF i = j THEN "RUNNING" ELSE experiment[i]
                        /\ run'[i] = IF i = j THEN "RUNNING" ELSE run[i]
    BY <1>0, <2>1, <2>2 DEF TypeOK
  <2> QED
    BY <2>2, <2>3, <2>4, <2>5, <1>a
<1>6. ASSUME NEW w \in Workers, ExecuteBegin(w) \/ Cancelled(w) \/ LastReport(w) PROVE Rest
  <2>1. \A v \in Workers : /\ worker'[v].job = worker[v].job
                           /\ worker'[v].loaded \in {worker[v].loaded, experiment[worker[v].job]}
    BY <1>0, <1>6, ProcessFacts DEF ExecuteBegin, Cancelled, LastReport, TypeOK
  <2>2. experiment' = experiment /\ run' = run
    BY <1>6 DEF ExecuteBegin, Cancelled, LastReport
  <2> QED
    BY <2>1, <2>2
<1>7. ASSUME NEW w \in Workers, worker[w].at \notin {"down", "idle"}, NEW s, NEW r,
             \/ s = "SUCCEEDED" /\ r = "COMPLETED"
             \/ s \in {"CANCELLED", "FAILED"} /\ r = s,
             experiment' = [experiment EXCEPT ![worker[w].job] = s],
             run' = [run EXCEPT ![worker[w].job] = r],
             worker' = [worker EXCEPT ![w] = Resting("idle")]
      PROVE  Rest
  <2>1. worker[w].job \in Jobs /\ worker[w].job # 0
    BY <1>0, <1>7, ProcessFacts DEF Jobs
  <2>2. \A v \in Workers : worker'[v] = IF v = w THEN Resting("idle") ELSE worker[v]
    BY <1>0, <1>7 DEF TypeOK
  <2>3. \A i \in Jobs : /\ experiment'[i] = IF i = worker[w].job THEN s ELSE experiment[i]
                        /\ run'[i] = IF i = worker[w].job THEN r ELSE run[i]
    BY <1>0, <1>7, <2>1 DEF TypeOK
  <2>4. \A v \in Workers : worker'[v].job # 0 =>
          /\ worker'[v] = worker[v]
          /\ experiment'[worker[v].job] = experiment[worker[v].job]
    BY <2>1, <2>2, <2>3, <1>a DEF Resting
  <2>5. ClaimedIsNotPending' /\ UnfinishedWhenExecuted'
    BY <2>4
  <2>6. ExecutedAlone'
    BY <2>4
  <2>7. RunAgrees'
    BY <2>3, <1>7
  <2> QED
    BY <2>5, <2>6, <2>7
<1>8. ASSUME NEW w \in Workers, Succeed(w) PROVE Rest
  <2>1. worker[w].job \in Jobs /\ worker[w].job # 0
    BY <1>0, <1>8, ProcessFacts DEF Succeed, Jobs
  <2>2. experiment' = [experiment EXCEPT ![worker[w].job] = "SUCCEEDED"]
    BY <1>8, <2>1 DEF Succeed
  <2>3. /\ worker[w].at = "done" /\ worker' = [worker EXCEPT ![w] = Resting("idle")]
        /\ run' = [run EXCEPT ![worker[w].job] = "COMPLETED"]
    BY <1>8 DEF Succeed
  <2> QED
    BY <1>7, <2>2, <2>3
<1>9. ASSUME NEW w \in Workers, EndCancelled(w) \/ Fail(w) PROVE Rest
  <2>1. PICK s \in {"CANCELLED", "FAILED"} : EndWith(w, s)
    BY <1>9 DEF EndCancelled, Fail
  <2>2. worker[w].at \notin {"down", "idle"}
    BY <1>9 DEF EndCancelled, Fail
  <2> QED
    BY <1>7, <2>1, <2>2 DEF EndWith
<1>10. ASSUME NEW w \in Workers, Crash(w) PROVE Rest
  <2>1. \A v \in Workers : worker'[v] = IF v = w THEN Resting("down") ELSE worker[v]
    BY <1>0, <1>10 DEF Crash, TypeOK
  <2> QED
    BY <1>10, <2>1 DEF Crash, Resting
<1>11. CASE UNCHANGED vars
  BY <1>11 DEF vars
<1> QED
  BY <1>1, <1>2, <1>3, <1>4, <1>5, <1>6, <1>8, <1>9, <1>10, <1>11 DEF QuietNext, Step

\* Initially nothing is executed.
LEMMA InitAlone == Init => Inv
<1> QED
  BY InitTypes
  DEF Init, Inv, ClaimedIsNotPending, ExecutedAlone, UnfinishedWhenExecuted, RunAgrees,
      Terminal, Resting

\* "Job claims are atomic, but one backtest is not split across processes": with any
\* number of workers that claim, crash and start again, of experiments and of cancel
\* requests no experiment is executed by two workers, if a worker only starts while
\* nobody executes an experiment its start would queue again.
THEOREM ClaimedOnce == QuietSpec => []ExecutedAlone
<1>1. Inv => ExecutedAlone
  BY DEF Inv
<1> QED
  BY InitAlone, StepAlone, <1>1, PTL DEF QuietSpec

\* In the same deployments the run of an experiment that has ended says how it ended,
\* whatever cancel requests race the claim, the execution and its end.
THEOREM EndsAgree == QuietSpec => []RunAgrees
<1>1. Inv => RunAgrees
  BY DEF Inv
<1> QED
  BY InitAlone, StepAlone, <1>1, PTL DEF QuietSpec

\* With a single worker both hold without a condition on its starts.
THEOREM SoleWorkerAgrees ==
  ASSUME \A v, w \in Workers : v = w
  PROVE  Spec => []RunAgrees
<1> QED
  BY SoleIsQuiet, EndsAgree, PTL

-----------------------------------------------------------------------------
(* Results are stored once. *)

\* What is executed has no trades yet, whatever its status has become meanwhile.
ExecutedHasNone ==
  \A w \in Workers : worker[w].job # 0 => trades[worker[w].job] = {}

OnceInv == Inv /\ ExecutedHasNone /\ ResultsOnce

\* Every step keeps it.
LEMMA StepOnce == OnceInv /\ [QuietNext]_vars => OnceInv'
<1> SUFFICES ASSUME OnceInv, [QuietNext]_vars PROVE OnceInv'
  OBVIOUS
<1>0. Inv'
  BY StepAlone DEF OnceInv
<1>1. TypeOK /\ ExecutedAlone
  BY DEF OnceInv, Inv
<1>2. ASSUME NEW w \in Workers, worker[w].job # 0
      PROVE  worker[w].job \in Jobs /\ worker[w].at \notin {"down", "idle"}
  <2>1. worker[w] \in Process
    BY <1>1 DEF TypeOK
  <2> QED
    BY <1>2, <2>1 DEF Process, Resting
<1> DEFINE Rest == ExecutedHasNone' /\ ResultsOnce'
           Bare == {"ABSENT", "PENDING", "RUNNING", "FAILED"}
<1> SUFFICES Rest
  BY <1>0 DEF OnceInv
<1> USE DEF OnceInv, ExecutedHasNone, ResultsOnce
<1>3. ASSUME NEW j \in Jobs, Create(j) PROVE Rest
  BY <1>1, <1>3 DEF Create, TypeOK
<1>4. ASSUME NEW u \in Users, NEW j \in Jobs, CancelRead(u, j) PROVE Rest
  BY <1>4 DEF CancelRead
<1>5. ASSUME NEW u \in Users, CancelCommit(u) PROVE Rest
  <2>1. /\ UNCHANGED <<worker, trades>>
        /\ \A j \in Jobs : experiment'[j] \in {experiment[j], "CANCELLED", "CANCEL_REQUESTED"}
    BY <1>1, <1>5 DEF CancelCommit, TypeOK
  <2> QED
    BY <2>1
<1>6. ASSUME NEW w \in Workers, StartQuietly(w) PROVE Rest
  <2>1. \A v \in Workers : worker'[v] = IF v = w THEN Resting("idle") ELSE worker[v]
    BY <1>1, <1>6 DEF StartQuietly, Start, TypeOK
  <2>2. /\ trades' = trades
        /\ \A j \in Jobs : \/ experiment'[j] = experiment[j]
                           \/ experiment[j] = "RUNNING" /\ experiment'[j] = "PENDING"
    BY <1>1, <1>6 DEF StartQuietly, Start, TypeOK, Interrupted
  <2> QED
    BY <2>1, <2>2 DEF Resting
<1>7. ASSUME NEW w \in Workers, Claim(w) PROVE Rest
  <2>1. PICK j \in Claimable :
          /\ experiment' = [experiment EXCEPT ![j] = "RUNNING"]
          /\ worker' = [worker EXCEPT ![w] =
               [Resting("claimed") EXCEPT !.job = j, !.attempt = attempts[j] + 1]]
          /\ trades' = trades
    BY <1>7 DEF Claim
  <2>2. j \in Jobs /\ experiment[j] = "PENDING" /\ trades[j] = {}
    BY DEF Claimable
  <2>3. \A v \in Workers : worker'[v] = worker[v] \/ worker'[v].job = j
    BY <1>1, <2>1 DEF TypeOK, Resting
  <2>4. \A i \in Jobs : experiment'[i] = IF i = j THEN "RUNNING" ELSE experiment[i]
    BY <1>1, <2>1, <2>2 DEF TypeOK
  <2> QED
    BY <2>1, <2>2, <2>3, <2>4
<1>8. ASSUME NEW w \in Workers, ExecuteBegin(w) \/ Cancelled(w) \/ LastReport(w) PROVE Rest
  <2>1. UNCHANGED <<experiment, trades>>
    BY <1>8 DEF ExecuteBegin, Cancelled, LastReport
  <2>2. worker[w] \in [at : {"claimed", "running", "cancelling", "done"}, job : Jobs,
                       attempt : Nat, loaded : Statuses, deleted : SUBSET Nat]
    BY <1>1, <1>8, ProcessFacts DEF ExecuteBegin, Cancelled, LastReport
  <2>3. \A v \in Workers : worker'[v].job = worker[v].job
    <3>1. CASE ExecuteBegin(w)
      <4>1. worker' = [worker EXCEPT ![w] = [worker[w] EXCEPT !.at = "running",
                         !.loaded = experiment[worker[w].job], !.deleted = trades[worker[w].job]]]
        BY <1>1, <3>1 DEF ExecuteBegin, TypeOK
      <4> QED
        BY <1>1, <2>2, <4>1 DEF TypeOK
    <3>2. CASE Cancelled(w) \/ LastReport(w)
      <4>1. \E at : worker' = [worker EXCEPT ![w].at = at]
        BY <3>2 DEF Cancelled, LastReport
      <4> QED
        BY <1>1, <2>2, <4>1 DEF TypeOK
    <3> QED
      BY <1>8, <3>1, <3>2
  <2> QED
    BY <2>1, <2>3
<1>a. ASSUME NEW w \in Workers, worker[w].at \notin {"down", "idle"},
             worker' = [worker EXCEPT ![w] = Resting("idle")]
      PROVE  \A v \in Workers : worker'[v].job # 0 =>
               worker'[v] = worker[v] /\ worker[v].job # worker[w].job
  <2>1. worker[w].job # 0
    BY <1>1, <1>a, ProcessFacts DEF Jobs
  <2> QED
    BY <1>1, <1>a, <2>1 DEF TypeOK, Resting, ExecutedAlone
<1>9. ASSUME NEW w \in Workers, Succeed(w) PROVE Rest
  <2> DEFINE j == worker[w].job
  <2>1. j \in Jobs /\ j # 0
    BY <1>1, <1>9, ProcessFacts DEF Succeed, Jobs
  <2>2. \A v \in Workers : worker'[v].job # 0 => worker'[v] = worker[v] /\ worker[v].job # j
    BY <1>9, <1>a DEF Succeed
  <2>3. trades[j] = {} /\ worker[w].loaded # "SUCCEEDED"
    BY <2>1 DEF Inv, UnfinishedWhenExecuted
  <2>4. \A i \in Jobs :
          /\ experiment'[i] = IF i = j THEN "SUCCEEDED" ELSE experiment[i]
          /\ trades'[i] = IF i = j THEN {worker[w].attempt} ELSE trades[i]
    BY <1>1, <1>9, <2>1, <2>3 DEF Succeed, TypeOK
  <2>5. ExecutedHasNone'
    BY <1>2, <2>2, <2>4
  <2>6. ResultsOnce'
    BY <2>4
  <2> QED
    BY <2>5, <2>6
<1>10. ASSUME NEW w \in Workers, EndCancelled(w) \/ Fail(w) PROVE Rest
  <2> DEFINE j == worker[w].job
  <2>1. PICK s \in {"CANCELLED", "FAILED"} : EndWith(w, s)
    BY <1>10 DEF EndCancelled, Fail
  <2>2. j \in Jobs /\ j # 0
    BY <1>1, <1>10, ProcessFacts DEF EndCancelled, Fail, Jobs
  <2>3. \A v \in Workers : worker'[v].job # 0 => worker'[v] = worker[v]
    BY <1>10, <2>1, <1>a DEF EndWith, EndCancelled, Fail
  <2>4. trades[j] = {}
    BY <2>2
  <2>5. /\ trades' = trades
        /\ \A i \in Jobs : experiment'[i] = IF i = j THEN s ELSE experiment[i]
    BY <1>1, <2>1, <2>2 DEF EndWith, TypeOK
  <2> QED
    BY <2>3, <2>4, <2>5
<1>11. ASSUME NEW w \in Workers, Crash(w) PROVE Rest
  <2>1. \A v \in Workers : worker'[v] = IF v = w THEN Resting("down") ELSE worker[v]
    BY <1>1, <1>11 DEF Crash, TypeOK
  <2> QED
    BY <1>11, <2>1 DEF Crash, Resting
<1>12. CASE UNCHANGED vars
  BY <1>12 DEF vars
<1> QED
  BY <1>3, <1>4, <1>5, <1>6, <1>7, <1>8, <1>9, <1>10, <1>11, <1>12 DEF QuietNext, Step

\* Initially there are neither trades nor executions.
LEMMA InitOnce == Init => OnceInv
<1> QED
  BY InitAlone DEF Init, OnceInv, ExecutedHasNone, ResultsOnce, Resting

\* An experiment has the trades of one execution at most, of exactly one when it has
\* succeeded and none when it failed or goes on, however many workers claim, crash and
\* start quietly, and whatever cancel requests race them.
THEOREM StoredOnce == QuietSpec => []ResultsOnce
<1>1. OnceInv => ResultsOnce
  BY DEF OnceInv
<1> QED
  BY InitOnce, StepOnce, <1>1, PTL DEF QuietSpec

\* With a single worker that crashes and starts again as it likes, too.
THEOREM SoleWorkerStoresOnce ==
  ASSUME \A v, w \in Workers : v = w
  PROVE  Spec => []ResultsOnce
<1> QED
  BY SoleIsQuiet, StoredOnce, PTL

=============================================================================
