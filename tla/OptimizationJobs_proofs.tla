------------------------ MODULE OptimizationJobs_proofs ------------------------
(***************************************************************************)
(* Proofs about OptimizationJobs: the types for any number of workers, and *)
(* what one worker stores, for any number of runs, trials, users, crashes  *)
(* and failures: every commit leaves the trials of one execution, its best *)
(* candidate and its progress in agreement, and a run that has succeeded   *)
(* has stored every trial it was to make.                                  *)
(***************************************************************************)
EXTENDS OptimizationJobs, FiniteSetTheorems, TLAPS

-----------------------------------------------------------------------------
(* Types. *)

\* What a process has in memory, and what is stored, is finite.
FiniteWork ==
  /\ \A w \in Workers : IsFiniteSet(worker[w].made) /\ IsFiniteSet(worker[w].chosen)
  /\ \A o \in Runs : IsFiniteSet(trials[o])

Typed == TypeOK /\ FiniteWork

\* The constants that are numbers.
LEMMA Numbers ==
  /\ Trials \in Nat \ {0} /\ CommitInterval \in Nat \ {0} /\ CancelInterval \in Nat \ {0}
  /\ CandidateLimit \in Nat \ {0} /\ MaxCrashes \in Nat /\ MaxUnstored \in Nat
  /\ \A score \in Scores \cup {0} : score \in Nat
<1> QED
  BY OptimizationAssumption

\* A process that executes, and one that does not.
LEMMA Processes ==
  ASSUME TypeOK, NEW w \in Workers
  PROVE  /\ worker[w] \in Process
         /\ worker[w].at \in {"down", "idle"} =>
              worker[w] \in {Resting("down"), Resting("idle")} /\ worker[w].job = 0
         /\ worker[w].at \notin {"down", "idle"} =>
              worker[w] \in [at : {"claimed", "searching", "validating"}, job : Runs, attempt : Nat,
                             loaded : Statuses, made : SUBSET Trial, saved : SUBSET Trial,
                             best : Nat \cup {Nobody}, stored : Nat \cup {Nobody},
                             top : Scores \cup {0}, chosen : SUBSET Trial]
<1>1. worker[w] \in Process
  BY DEF TypeOK
<1> QED
  BY <1>1 DEF Process, Resting

\* A part of a finite set of trials has a size.
LEMMA Parts ==
  ASSUME NEW R, IsFiniteSet(R)
  PROVE  /\ IsFiniteSet(Searched(R)) /\ IsFiniteSet(Validated(R))
         /\ IsFiniteSet(Succeeded(R)) /\ IsFiniteSet(Failed(R))
         /\ Cardinality(R) \in Nat /\ Cardinality(Validated(R)) \in Nat
         /\ CountsOf(R) \in Counts
<1>1. /\ Searched(R) \in SUBSET R /\ Validated(R) \in SUBSET R
      /\ Succeeded(R) \in SUBSET R /\ Failed(R) \in SUBSET R
  BY DEF Searched, Validated, Succeeded, Failed
<1>2. /\ IsFiniteSet(Searched(R)) /\ IsFiniteSet(Validated(R))
      /\ IsFiniteSet(Succeeded(R)) /\ IsFiniteSet(Failed(R))
  BY <1>1, FS_Subset
<1>3. \A S : IsFiniteSet(S) => Cardinality(S) \in Nat
  BY FS_CardinalityType
<1> QED
  BY <1>2, <1>3 DEF CountsOf, Counts

\* What is stored of finite sets is finite.
LEMMA StoredFinite ==
  ASSUME Typed, NEW w \in Workers, NEW R, IsFiniteSet(R), NEW o \in Runs,
         trials' = [trials EXCEPT ![o] = @ \cup (R \ worker[w].saved)]
  PROVE  \A i \in Runs : IsFiniteSet(trials'[i])
<1>1. trials \in [Runs -> SUBSET Trial] /\ \A i \in Runs : IsFiniteSet(trials[i])
  BY DEF Typed, TypeOK, FiniteWork
<1>2. IsFiniteSet(R \ worker[w].saved)
  BY FS_Subset
<1>3. IsFiniteSet(trials[o] \cup (R \ worker[w].saved))
  BY <1>1, <1>2, FS_Union
<1> QED
  BY <1>1, <1>3

\* A trial that is made keeps the types.
LEMMA MakeTypes ==
  ASSUME Typed, NEW w \in Workers, worker[w].at \in {"searching", "validating"},
         NEW trial \in Trial, NEW total \in Nat, Make(w, trial, total)
  PROVE  Typed'
<1>1. TypeOK /\ IsFiniteSet(worker[w].made)
  BY DEF Typed, FiniteWork
<1>2. worker[w] \in [at : {"claimed", "searching", "validating"}, job : Runs, attempt : Nat,
                     loaded : Statuses, made : SUBSET Trial, saved : SUBSET Trial,
                     best : Nat \cup {Nobody}, stored : Nat \cup {Nobody},
                     top : Scores \cup {0}, chosen : SUBSET Trial]
  BY <1>1, Processes
<1> DEFINE R == worker[w].made \cup {trial}
           best == IF Better(trial, worker[w].top) THEN trial.number ELSE worker[w].best
           next == [worker[w] EXCEPT !.made = R, !.best = best,
                      !.top = IF Better(trial, worker[w].top) THEN trial.score ELSE @,
                      !.saved = IF CommitCheckpoint(Cardinality(R), total) THEN R ELSE @,
                      !.stored = IF CommitCheckpoint(Cardinality(R), total) THEN best ELSE @]
<1>3. IsFiniteSet(R) /\ R \in SUBSET Trial /\ Cardinality(R) \in Nat
  BY <1>1, <1>2, FS_AddElement, FS_CardinalityType
<1>4. best \in Nat \cup {Nobody}
  BY <1>2 DEF Trial
<1>5. next \in Process /\ next.made = R /\ next.chosen = worker[w].chosen
  BY <1>2, <1>3, <1>4 DEF Process, Trial
<1>6. worker' = [worker EXCEPT ![w] = next]
  BY DEF Make
<1>7. /\ UNCHANGED <<run, attempts, cancel, crashes, unstored>>
      /\ UNCHANGED <<optimization, trials>> \/ Save(w, R, best, total)
  BY DEF Make
<1> HIDE DEF R, best, next
<1>8. worker' \in [Workers -> Process]
  BY <1>1, <1>5, <1>6 DEF TypeOK
<1>9. \A v \in Workers : IsFiniteSet(worker'[v].made) /\ IsFiniteSet(worker'[v].chosen)
  BY <1>1, <1>3, <1>5, <1>6 DEF TypeOK, Typed, FiniteWork
<1>11. \A o \in Runs : IsFiniteSet(trials'[o])
  <2>1. CASE Save(w, R, best, total)
    BY <1>2, <1>3, <2>1, StoredFinite DEF Save
  <2>2. CASE UNCHANGED trials
    BY <2>2 DEF Typed, FiniteWork
  <2> QED
    BY <1>7, <2>1, <2>2
<1>10. optimization' \in [Runs -> Row] /\ trials' \in [Runs -> SUBSET Trial]
  <2>1. optimization \in [Runs -> Row] /\ trials \in [Runs -> SUBSET Trial]
    BY <1>1 DEF TypeOK
  <2>2. CASE Save(w, R, best, total)
    <3>1. \A row \in Row : Committed(row, worker[w], R, best, total) \in Row
      BY <1>3, <1>4 DEF Committed, Row
    <3> QED
      BY <1>2, <1>3, <2>1, <2>2, <3>1 DEF Save
  <2> QED
    BY <1>7, <2>1, <2>2
<1> QED
  BY <1>1, <1>7, <1>8, <1>9, <1>10, <1>11 DEF Typed, TypeOK, FiniteWork

\* A process that has come to rest has nothing in memory.
LEMMA RestTypes ==
  ASSUME Typed, NEW w \in Workers, NEW at \in {"down", "idle"},
         worker' = [worker EXCEPT ![w] = Resting(at)]
  PROVE  /\ worker' \in [Workers -> Process]
         /\ \A v \in Workers : IsFiniteSet(worker'[v].made) /\ IsFiniteSet(worker'[v].chosen)
<1>1. Resting(at) \in Process /\ Resting(at).made = {} /\ Resting(at).chosen = {}
  BY DEF Process, Resting
<1>2. IsFiniteSet({})
  BY FS_EmptySet
<1> HIDE DEF Resting
<1> QED
  BY <1>1, <1>2 DEF Typed, TypeOK, FiniteWork

\* The end of an execution keeps the types.
LEMMA EndTypes ==
  ASSUME Typed, NEW w \in Workers, worker[w].at \in {"searching", "validating"},
         NEW status \in Statuses, NEW runStatus \in RunStatuses, End(w, status, runStatus)
  PROVE  Typed'
<1>1. TypeOK /\ IsFiniteSet(worker[w].made) /\ IsFiniteSet(worker[w].chosen)
  BY DEF Typed, FiniteWork
<1>2. worker[w] \in [at : {"claimed", "searching", "validating"}, job : Runs, attempt : Nat,
                     loaded : Statuses, made : SUBSET Trial, saved : SUBSET Trial,
                     best : Nat \cup {Nobody}, stored : Nat \cup {Nobody},
                     top : Scores \cup {0}, chosen : SUBSET Trial]
  BY <1>1, Processes
<1> DEFINE total == IF worker[w].at = "searching" THEN Trials ELSE Total(w)
<1>3. CountsOf(worker[w].made) \in Counts /\ Cardinality(worker[w].made) \in Nat
  BY <1>1, Parts
<1>4. optimization' \in [Runs -> Row]
  <2>1. total \in Nat
    BY <1>1, Numbers, FS_CardinalityType DEF Total
  <2>2. \A row \in Row : EndRow(row, worker[w], status, total) \in Row
    BY <1>2, <1>3, <2>1 DEF EndRow, Committed, Row
  <2> QED
    BY <1>1, <1>2, <2>2 DEF End, TypeOK
<1>5. trials' \in [Runs -> SUBSET Trial] /\ run' \in [Runs -> RunStatuses]
  BY <1>1, <1>2 DEF End, TypeOK
<1>6. worker' = [worker EXCEPT ![w] = Resting("idle")] /\ UNCHANGED <<attempts, cancel, crashes, unstored>>
  BY DEF End
<1>7. FiniteWork' /\ worker' \in [Workers -> Process]
  <2>1. \A o \in Runs : IsFiniteSet(trials'[o])
    BY <1>1, <1>2, StoredFinite DEF End
  <2> QED
    BY <1>6, <2>1, RestTypes DEF FiniteWork
<1> QED
  BY <1>1, <1>4, <1>5, <1>6, <1>7 DEF Typed, TypeOK

\* Initially the variables have their types.
LEMMA InitTypes == Init => Typed
<1> SUFFICES ASSUME Init PROVE Typed
  OBVIOUS
<1>1. \A w \in Workers : worker[w] \in Process /\ worker[w].made = {} /\ worker[w].chosen = {}
  BY DEF Init, Process, Resting
<1>2. worker \in [Workers -> Process]
  BY <1>1 DEF Init
<1>3. IsFiniteSet({})
  BY FS_EmptySet
<1>4. Absent \in Row
  BY DEF Absent, Row, Statuses, NoCounts, Counts
<1>5. optimization \in [Runs -> Row]
  BY <1>4 DEF Init
<1>6. cancel \in [Users -> {NoRequest} \cup Request] /\ run \in [Runs -> RunStatuses]
      /\ trials \in [Runs -> SUBSET Trial] /\ attempts \in [Runs -> Nat]
  BY DEF Init, RunStatuses
<1>7. crashes \in 0 .. MaxCrashes /\ unstored \in 0 .. MaxUnstored
  BY Numbers DEF Init
<1>8. FiniteWork
  <2>1. \A o \in Runs : trials[o] = {}
    BY DEF Init
  <2> QED
    BY <1>1, <1>3, <2>1 DEF FiniteWork
<1> QED
  BY <1>2, <1>5, <1>6, <1>7, <1>8 DEF Typed, TypeOK

\* The requests of users keep the types.
LEMMA UserTypes ==
  ASSUME Typed, \/ \E o \in Runs : Create(o)
                \/ \E u \in Users, o \in Runs : CancelRead(u, o)
                \/ \E u \in Users : CancelCommit(u)
  PROVE  Typed'
<1>1. TypeOK /\ FiniteWork
  BY DEF Typed
<1>2. UNCHANGED <<trials, worker>>
  BY DEF Create, CancelRead, CancelCommit, database
<1>3. FiniteWork'
  BY <1>1, <1>2 DEF FiniteWork
<1>4. ASSUME NEW o \in Runs, Create(o) PROVE TypeOK'
  BY <1>1, <1>4, Numbers DEF TypeOK, Create, Row, Statuses, RunStatuses
<1>5. ASSUME NEW u \in Users, NEW o \in Runs, CancelRead(u, o) PROVE TypeOK'
  BY <1>1, <1>5 DEF TypeOK, CancelRead, Request, database
<1>6. ASSUME NEW u \in Users, CancelCommit(u) PROVE TypeOK'
  <2>1. cancel[u].job \in Runs
    BY <1>1, <1>6 DEF TypeOK, CancelCommit, Request
  <2> QED
    BY <1>1, <1>6, <2>1 DEF TypeOK, CancelCommit, Row, Statuses, RunStatuses, Terminal
<1> QED
  BY <1>3, <1>4, <1>5, <1>6 DEF Typed

\* The steps of a process keep the types.
LEMMA ProcessTypes ==
  ASSUME Typed, NEW w \in Workers,
         \/ Start(w) \/ Claim(w) \/ Begin(w) \/ SearchTrial(w) \/ Select(w) \/ ValidationTrial(w)
         \/ EndCancelled(w) \/ Succeed(w) \/ Fail(w) \/ FailUnstored(w) \/ Crash(w)
  PROVE  Typed'
<1>1. /\ TypeOK /\ FiniteWork /\ worker \in [Workers -> Process]
      /\ \A o \in Runs : IsFiniteSet(trials[o])
      /\ \A v \in Workers : IsFiniteSet(worker[v].made) /\ IsFiniteSet(worker[v].chosen)
  BY DEF Typed, TypeOK, FiniteWork
<1> DEFINE Busy == [at : {"claimed", "searching", "validating"}, job : Runs, attempt : Nat,
                    loaded : Statuses, made : SUBSET Trial, saved : SUBSET Trial,
                    best : Nat \cup {Nobody}, stored : Nat \cup {Nobody},
                    top : Scores \cup {0}, chosen : SUBSET Trial]
<1>2. worker[w].at \notin {"down", "idle"} => worker[w] \in Busy
  BY <1>1, Processes
<1>3. ASSUME NEW p \in Busy, IsFiniteSet(p.made), IsFiniteSet(p.chosen),
             worker' = [worker EXCEPT ![w] = p]
      PROVE  /\ worker' \in [Workers -> Process]
             /\ \A v \in Workers : IsFiniteSet(worker'[v].made) /\ IsFiniteSet(worker'[v].chosen)
  <2>1. p \in Process
    BY DEF Process
  <2> HIDE DEF Busy
  <2> QED
    BY <1>1, <1>3, <2>1
<1>4. CASE Start(w)
  <2>1. optimization' \in [Runs -> Row]
    BY <1>1, <1>4 DEF Start, TypeOK, Row, Statuses
  <2>2. worker' = [worker EXCEPT ![w] = Resting("idle")] /\ UNCHANGED <<run, trials, attempts, cancel, crashes, unstored>>
    BY <1>4 DEF Start
  <2>3. /\ worker' \in [Workers -> Process]
        /\ \A v \in Workers : IsFiniteSet(worker'[v].made) /\ IsFiniteSet(worker'[v].chosen)
    BY <2>2, RestTypes
  <2> QED
    BY <1>1, <2>1, <2>2, <2>3 DEF Typed, TypeOK, FiniteWork
<1>5. CASE Claim(w)
  <2>1. PICK o \in Runs :
          /\ optimization' = [optimization EXCEPT ![o].status = "RUNNING",
                                                  ![o].completed = 0, ![o].total = Trials]
          /\ run' = [run EXCEPT ![o] = "RUNNING"]
          /\ attempts' = [attempts EXCEPT ![o] = @ + 1]
          /\ worker' = [worker EXCEPT ![w] =
               [Resting("claimed") EXCEPT !.job = o, !.attempt = attempts[o] + 1]]
    BY <1>5 DEF Claim, Claimable
  <2> DEFINE p == [Resting("claimed") EXCEPT !.job = o, !.attempt = attempts[o] + 1]
  <2>2. attempts[o] + 1 \in Nat /\ attempts' \in [Runs -> Nat]
    BY <1>1, <2>1 DEF TypeOK
  <2>3. p \in Busy /\ p.made = {} /\ p.chosen = {}
    BY <2>1, <2>2 DEF Resting, Statuses
  <2>4. optimization' \in [Runs -> Row] /\ run' \in [Runs -> RunStatuses]
    <3>1. optimization[o] \in Row /\ optimization \in [Runs -> Row] /\ run \in [Runs -> RunStatuses]
      BY <1>1 DEF TypeOK
    <3>2. [optimization[o] EXCEPT !.status = "RUNNING", !.completed = 0, !.total = Trials] \in Row
      BY <3>1, Numbers DEF Row, Statuses
    <3>3. \A i \in Runs : optimization'[i] =
            IF i = o THEN [optimization[o] EXCEPT !.status = "RUNNING", !.completed = 0, !.total = Trials]
            ELSE optimization[i]
      BY <2>1, <3>1
    <3>4. optimization' \in [Runs -> Row]
      BY <2>1, <3>1, <3>2, <3>3
    <3> QED
      BY <2>1, <3>1, <3>4 DEF RunStatuses
  <2>5. IsFiniteSet({})
    BY FS_EmptySet
  <2>6. /\ worker' \in [Workers -> Process]
        /\ \A v \in Workers : IsFiniteSet(worker'[v].made) /\ IsFiniteSet(worker'[v].chosen)
    <3>1. worker' = [worker EXCEPT ![w] = p]
      BY <2>1
    <3> HIDE DEF p
    <3> QED
      BY <1>3, <2>3, <2>5, <3>1
  <2>7. UNCHANGED <<trials, cancel, crashes, unstored>>
    BY <1>5 DEF Claim
  <2> QED
    BY <1>1, <2>2, <2>4, <2>6, <2>7 DEF Typed, TypeOK, FiniteWork
<1>6. CASE Begin(w)
  <2> DEFINE o == worker[w].job
             p == [worker[w] EXCEPT !.at = "searching", !.loaded = optimization[o].status]
  <2>1. worker[w] \in Busy /\ o \in Runs
    BY <1>2, <1>6 DEF Begin
  <2>2. p \in Busy /\ p.made = worker[w].made /\ p.chosen = worker[w].chosen
    BY <1>1, <2>1 DEF TypeOK, Row
  <2>3. worker' = [worker EXCEPT ![w] = p]
    BY <1>1, <1>6 DEF Begin, TypeOK
  <2>4. /\ worker' \in [Workers -> Process]
        /\ \A v \in Workers : IsFiniteSet(worker'[v].made) /\ IsFiniteSet(worker'[v].chosen)
    <3> HIDE DEF p
    <3> QED
      BY <1>1, <1>3, <2>2, <2>3
  <2>5. trials' = [trials EXCEPT ![o] = {}] /\ optimization' = [optimization EXCEPT ![o] = Cleared(@)]
        /\ UNCHANGED <<run, attempts, cancel, crashes, unstored>>
    BY <1>6 DEF Begin, Discarded
  <2>6. trials' \in [Runs -> SUBSET Trial] /\ \A i \in Runs : IsFiniteSet(trials'[i])
    BY <1>1, <2>5, FS_EmptySet DEF TypeOK
  <2>7. optimization' \in [Runs -> Row]
    <3>1. \A row \in Row : Cleared(row) \in Row
      BY Numbers DEF Cleared, Row, NoCounts, Counts
    <3> QED
      BY <1>1, <2>5, <3>1 DEF TypeOK
  <2> QED
    BY <1>1, <2>4, <2>5, <2>6, <2>7 DEF Typed, TypeOK, FiniteWork
<1>7. CASE SearchTrial(w)
  <2> DEFINE number == Cardinality(worker[w].made)
  <2>1. worker[w] \in Busy /\ number \in Nat
    BY <1>1, <1>2, <1>7, FS_CardinalityType DEF SearchTrial
  <2>2. PICK score \in Scores \cup {0} :
          Make(w, [number |-> number, of |-> number, score |-> score,
                   attempt |-> worker[w].attempt], Trials)
    BY <1>7 DEF SearchTrial
  <2>3. [number |-> number, of |-> number, score |-> score, attempt |-> worker[w].attempt] \in Trial
    BY <2>1 DEF Trial
  <2> QED
    BY <1>7, <2>2, <2>3, MakeTypes, Numbers DEF SearchTrial
<1>8. CASE Select(w)
  <2> DEFINE made == worker[w].made
             chosen == TopOf(Searched(trials[worker[w].job] \cup made))
             p == [worker[w] EXCEPT !.at = "validating", !.saved = made,
                                    !.stored = worker[w].best, !.top = 0, !.chosen = chosen]
             total == Trials + Cardinality(chosen)
  <2>1. worker[w] \in Busy /\ worker[w].job \in Runs /\ IsFiniteSet(made)
    BY <1>1, <1>2, <1>8 DEF Select
  <2>2. chosen \in SUBSET Trial /\ chosen \in SUBSET (trials[worker[w].job] \cup made)
    BY <1>1, <2>1 DEF TopOf, Searched, Succeeded, TypeOK
  <2>3. IsFiniteSet(chosen)
    <3>1. IsFiniteSet(trials[worker[w].job] \cup made)
      BY <1>1, <2>1, FS_Union
    <3> QED
      BY <2>2, <3>1, FS_Subset
  <2>4. total \in Nat /\ Cardinality(made) \in Nat
    BY <2>1, <2>3, FS_CardinalityType, Numbers
  <2>5. worker' = [worker EXCEPT ![w] = p]
    BY <1>1, <1>8 DEF Select, TypeOK
  <2>6. Save(w, made, worker[w].best, total) /\ UNCHANGED <<run, attempts, cancel, crashes, unstored>>
    BY <1>8 DEF Select
  <2>7. p \in Busy /\ p.made = made /\ p.chosen = chosen
    <3> HIDE DEF chosen
    <3> QED
      BY <2>1, <2>2
  <2>8. optimization' \in [Runs -> Row] /\ trials' \in [Runs -> SUBSET Trial]
    <3> HIDE DEF total, chosen
    <3>1. \A row \in Row : Committed(row, worker[w], made, worker[w].best, total) \in Row
      BY <2>1, <2>4 DEF Committed, Row
    <3> QED
      BY <1>1, <2>1, <2>6, <3>1 DEF Save, TypeOK
  <2>9. \A i \in Runs : IsFiniteSet(trials'[i])
    BY <2>1, <2>6, StoredFinite DEF Save
  <2>10. /\ worker' \in [Workers -> Process]
         /\ \A v \in Workers : IsFiniteSet(worker'[v].made) /\ IsFiniteSet(worker'[v].chosen)
    <3> HIDE DEF p, chosen, total, made
    <3> QED
      BY <1>3, <2>1, <2>3, <2>5, <2>7
  <2> QED
    BY <1>1, <2>6, <2>8, <2>9, <2>10 DEF Typed, TypeOK, FiniteWork
<1>9. CASE ValidationTrial(w)
  <2>1. worker[w] \in Busy /\ Trials + Index(w) \in Nat
    BY <1>1, <1>2, <1>9, Parts, Numbers DEF ValidationTrial, Index
  <2>2. Total(w) \in Nat
    BY <1>1, FS_CardinalityType, Numbers DEF Total
  <2>3. PICK candidate \in Waiting(w), score \in Scores \cup {0} :
          Make(w, [number |-> Trials + Index(w), of |-> candidate.number, score |-> score,
                   attempt |-> worker[w].attempt], Total(w))
    BY <1>9 DEF ValidationTrial
  <2>4. candidate \in Trial
    BY <2>1 DEF Waiting
  <2>5. [number |-> Trials + Index(w), of |-> candidate.number, score |-> score,
         attempt |-> worker[w].attempt] \in Trial
    BY <2>1, <2>4 DEF Trial
  <2> QED
    BY <1>9, <2>2, <2>3, <2>5, MakeTypes DEF ValidationTrial
<1>10. CASE EndCancelled(w) \/ Succeed(w)
  BY <1>10, EndTypes DEF EndCancelled, Succeed, Statuses, Terminal, RunStatuses
<1>11. CASE Fail(w)
  <2>1. worker[w] \in Busy /\ CountsOf(worker[w].made) \in Counts
    BY <1>1, <1>2, <1>11, Parts DEF Fail
  <2>2. /\ optimization' = [optimization EXCEPT ![worker[w].job].status = "FAILED",
                                                ![worker[w].job].summary = CountsOf(worker[w].made)]
        /\ run' = [run EXCEPT ![worker[w].job] = "FAILED"]
        /\ worker' = [worker EXCEPT ![w] = Resting("idle")]
        /\ UNCHANGED <<trials, attempts, cancel, crashes, unstored>>
    BY <1>11 DEF Fail
  <2>3. /\ worker' \in [Workers -> Process]
        /\ \A v \in Workers : IsFiniteSet(worker'[v].made) /\ IsFiniteSet(worker'[v].chosen)
    BY <2>2, RestTypes
  <2>4. optimization' \in [Runs -> Row] /\ run' \in [Runs -> RunStatuses]
    BY <1>1, <2>1, <2>2 DEF TypeOK, Row, Statuses, Terminal, RunStatuses
  <2> QED
    BY <1>1, <2>2, <2>3, <2>4 DEF Typed, TypeOK, FiniteWork
<1>12. CASE FailUnstored(w) \/ Crash(w)
  <2>1. /\ \E at \in {"down", "idle"} : worker' = [worker EXCEPT ![w] = Resting(at)]
        /\ UNCHANGED <<optimization, run, trials, attempts, cancel>>
    BY <1>12 DEF FailUnstored, Crash, database
  <2>2. crashes' \in 0 .. MaxCrashes /\ unstored' \in 0 .. MaxUnstored
    <3>1. crashes \in 0 .. MaxCrashes /\ unstored \in 0 .. MaxUnstored
      BY <1>1 DEF TypeOK
    <3> QED
      BY <1>12, <3>1, Numbers DEF FailUnstored, Crash
  <2>3. /\ worker' \in [Workers -> Process]
        /\ \A v \in Workers : IsFiniteSet(worker'[v].made) /\ IsFiniteSet(worker'[v].chosen)
    BY <2>1, RestTypes
  <2> QED
    BY <1>1, <2>1, <2>2, <2>3 DEF Typed, TypeOK, FiniteWork
<1> QED
  BY <1>4, <1>5, <1>6, <1>7, <1>8, <1>9, <1>10, <1>11, <1>12

\* Every step keeps the types.
LEMMA StepTypes == Typed /\ [Next]_vars => Typed'
<1> SUFFICES ASSUME Typed, [Next]_vars PROVE Typed'
  OBVIOUS
<1>1. CASE UNCHANGED vars
  BY <1>1 DEF vars, Typed, TypeOK, FiniteWork
<1> QED
  BY <1>1, UserTypes, ProcessTypes DEF Next

\* The tables and the processes have their types, for any number of workers.
THEOREM TypeCorrect == Spec => []TypeOK
<1>1. Typed => TypeOK
  BY DEF Typed
<1> QED
  BY InitTypes, StepTypes, <1>1, PTL DEF Spec

-----------------------------------------------------------------------------
(* Trials and the best of them. *)

\* The trials R have the first numbers.
Numbered(R) == IsFiniteSet(R) /\ {t.number : t \in R} = 0 .. Cardinality(R) - 1

\* Of the trials W, which have succeeded, the one with number n leads with score top.
Leads(n, top, W) ==
  IF W = {} THEN top = 0
  ELSE \E t \in W : t.number = n /\ t.score = top /\ First(t, W)

\* No trials have the first numbers.
LEMMA NoneNumbered == Numbered({}) /\ Cardinality({}) = 0
<1>1. IsFiniteSet({}) /\ Cardinality({}) = 0
  BY FS_EmptySet
<1>2. 0 .. 0 - 1 = {}
  OBVIOUS
<1> QED
  BY <1>1, <1>2 DEF Numbered

\* The next trial has the next number.
LEMMA NumberedAdd ==
  ASSUME NEW R \in SUBSET Trial, Numbered(R), NEW trial \in Trial, trial.number = Cardinality(R)
  PROVE  /\ Numbered(R \cup {trial}) /\ Cardinality(R \cup {trial}) = Cardinality(R) + 1
         /\ \A t \in R : t.number < trial.number
<1>1. IsFiniteSet(R) /\ Cardinality(R) \in Nat
  BY FS_CardinalityType DEF Numbered
<1>2. \A t \in R : t.number \in 0 .. Cardinality(R) - 1
  BY DEF Numbered
<1>3. trial \notin R
  BY <1>1, <1>2
<1>4. IsFiniteSet(R \cup {trial}) /\ Cardinality(R \cup {trial}) = Cardinality(R) + 1
  BY <1>1, <1>3, FS_AddElement
<1>5. {t.number : t \in R \cup {trial}} = {t.number : t \in R} \cup {Cardinality(R)}
  OBVIOUS
<1>6. 0 .. (Cardinality(R) + 1) - 1 = (0 .. Cardinality(R) - 1) \cup {Cardinality(R)}
  BY <1>1
<1>7. {t.number : t \in R} = 0 .. Cardinality(R) - 1
  BY DEF Numbered
<1>8. {t.number : t \in R \cup {trial}} = 0 .. Cardinality(R \cup {trial}) - 1
  BY <1>4, <1>5, <1>6, <1>7
<1>9. \A t \in R : t.number < trial.number
  BY <1>1, <1>2
<1> QED
  BY <1>4, <1>8, <1>9 DEF Numbered

\* What becomes of the parts of R when a trial is added.
LEMMA PartsAdd ==
  ASSUME NEW R \in SUBSET Trial, NEW trial \in Trial
  PROVE  /\ Succeeded(R \cup {trial}) =
              IF trial.score > 0 THEN Succeeded(R) \cup {trial} ELSE Succeeded(R)
         /\ Validated(R \cup {trial}) =
              IF trial.number >= Trials THEN Validated(R) \cup {trial} ELSE Validated(R)
<1> QED
  BY DEF Succeeded, Validated

\* A later trial leads if its score is higher than what has led.
LEMMA LeadsAdd ==
  ASSUME NEW W \in SUBSET Trial, \A t \in W : t.score > 0, NEW n, NEW top, Leads(n, top, W),
         NEW trial \in Trial, \A t \in W : t.number < trial.number
  PROVE  Leads(IF Better(trial, top) THEN trial.number ELSE n,
               IF Better(trial, top) THEN trial.score ELSE top,
               IF trial.score > 0 THEN W \cup {trial} ELSE W)
<1>1. /\ trial.score \in Nat /\ trial.number \in Nat
      /\ \A t \in W : t.score \in Nat /\ t.number \in Nat
  BY Numbers DEF Trial
<1>2. CASE W = {}
  <2>1. top = 0
    BY <1>2 DEF Leads
  <2>2. CASE trial.score > 0
    <3>1. Better(trial, top) /\ First(trial, {trial})
      BY <2>1, <2>2 DEF Better, First
    <3> QED
      BY <1>2, <2>2, <3>1 DEF Leads
  <2>3. CASE ~ (trial.score > 0)
    BY <1>1, <1>2, <2>1, <2>3 DEF Leads, Better
  <2> QED
    BY <2>2, <2>3
<1>3. CASE W # {}
  <2>1. PICK t \in W : t.number = n /\ t.score = top /\ First(t, W)
    BY <1>3 DEF Leads
  <2>2. \A s \in W : s.score <= top
    BY <1>1, <2>1 DEF First, Before
  <2>3. CASE trial.score > top
    <3>1. Better(trial, top) /\ trial.score > 0
      BY <1>1, <2>1, <2>3 DEF Better
    <3>2. First(trial, W \cup {trial})
      BY <1>1, <2>1, <2>2, <2>3 DEF First, Before
    <3> QED
      BY <3>1, <3>2 DEF Leads
  <2>4. CASE ~ (trial.score > top)
    <3>1. ~ Better(trial, top)
      BY <2>4 DEF Better
    <3>2. Before(t, trial)
      BY <1>1, <2>1, <2>4 DEF Before
    <3>3. First(t, W \cup {trial})
      BY <2>1, <3>2 DEF First
    <3> QED
      BY <1>3, <2>1, <3>1, <3>3 DEF Leads
  <2> QED
    BY <2>3, <2>4
<1> QED
  BY <1>2, <1>3

-----------------------------------------------------------------------------
(* A sole worker. *)

\* The trials a process has made: the next one has the next number, and all are of its
\* execution.
Making(p) == Numbered(p.made) /\ \A t \in p.made : t.attempt = p.attempt

\* Its best candidate leads the search; once a validation has succeeded it leads those.
Leading(p) ==
  /\ p.at = "searching" =>
       /\ \A t \in p.made : t.number < Trials
       /\ Leads(p.best, p.top, Succeeded(p.made))
       /\ Succeeded(p.made) = {} => p.best = Nobody
  /\ p.at = "validating" =>
       /\ Cardinality(p.made) = Trials + Cardinality(Validated(p.made))
       /\ Leads(p.best, p.top, Succeeded(Validated(p.made)))
       /\ Succeeded(Validated(p.made)) = {} => IsBest(p.best, p.made)

\* What it has committed is what is stored.
Stored(p, row, T) ==
  /\ T = p.saved /\ p.saved \subseteq p.made /\ Numbered(p.saved)
  /\ row.completed = Cardinality(p.saved) /\ row.best = p.stored

Active(w) == worker[w].at \in {"searching", "validating"}

Consistent(w) ==
  Active(w) =>
    /\ Making(worker[w]) /\ Leading(worker[w])
    /\ Stored(worker[w], optimization[worker[w].job], trials[worker[w].job])

\* A process that has claimed a run has nothing of an earlier execution in memory.
Fresh(w) ==
  worker[w].at = "claimed" =>
    /\ worker[w].made = {} /\ worker[w].saved = {}
    /\ worker[w].best = Nobody /\ worker[w].stored = Nobody /\ worker[w].top = 0

SoleInv(w) == Typed /\ Consistent(w) /\ Fresh(w) /\ BestIsStored /\ OneExecution

\* The best candidate of a process is the best of what it has made.
LEMMA LeaderIsBest ==
  ASSUME NEW p, p.at \in {"searching", "validating"}, p.made \in SUBSET Trial, Leading(p)
  PROVE  IsBest(p.best, p.made)
<1> DEFINE V == Succeeded(Validated(p.made))
<1>1. CASE p.at = "searching"
  <2>1. \A t \in p.made : t.number < Trials
    BY <1>1 DEF Leading
  <2>2. \A t \in p.made : t.number \in Nat
    BY DEF Trial
  <2>3. V = {}
    BY <2>1, <2>2, Numbers DEF Validated, Succeeded
  <2>4. Leads(p.best, p.top, Succeeded(p.made)) /\ (Succeeded(p.made) = {} => p.best = Nobody)
    BY <1>1 DEF Leading
  <2> QED
    BY <2>3, <2>4 DEF IsBest, Leads
<1>2. CASE p.at = "validating"
  BY <1>2 DEF Leading, IsBest, Leads
<1> QED
  BY <1>1, <1>2

\* A process that is active has a run, and what it has committed is there.
LEMMA ActiveFacts ==
  ASSUME NEW w \in Workers, SoleInv(w), Active(w)
  PROVE  /\ worker[w] \in [at : {"claimed", "searching", "validating"}, job : Runs, attempt : Nat,
                           loaded : Statuses, made : SUBSET Trial, saved : SUBSET Trial,
                           best : Nat \cup {Nobody}, stored : Nat \cup {Nobody},
                           top : Scores \cup {0}, chosen : SUBSET Trial]
         /\ optimization \in [Runs -> Row] /\ trials \in [Runs -> SUBSET Trial]
         /\ worker \in [Workers -> Process]
         /\ Making(worker[w]) /\ Leading(worker[w])
         /\ Stored(worker[w], optimization[worker[w].job], trials[worker[w].job])
         /\ IsFiniteSet(worker[w].made)
<1>1. TypeOK /\ IsFiniteSet(worker[w].made)
  BY DEF SoleInv, Typed, FiniteWork
<1> QED
  BY <1>1, Processes DEF TypeOK, SoleInv, Consistent, Active

\* The best candidate and the progress that a commit and the end of an execution write.
LEMMA CommittedRow ==
  ASSUME NEW row \in Row, NEW p, NEW R, NEW best, NEW total, NEW status
  PROVE  /\ Committed(row, p, R, best, total).best = IF best = p.stored THEN row.best ELSE best
         /\ Committed(row, p, R, best, total).completed = Cardinality(R)
         /\ EndRow(row, p, status, total).best = IF p.best = p.stored THEN row.best ELSE p.best
<1> DEFINE written(b, n) == [row EXCEPT !.best = b, !.completed = n, !.total = total]
           ended(b, n, a, c) == [written(b, n) EXCEPT !.status = a, !.summary = c]
<1>1. \A b, n : written(b, n).best = b /\ written(b, n).completed = n
  BY DEF Row
<1>2. \A b, n, a, c : ended(b, n, a, c).best = b
  BY DEF Row
<1>3. Committed(row, p, R, best, total) = written(IF best = p.stored THEN row.best ELSE best, Cardinality(R))
  BY DEF Committed
<1>4. \A b, n : written(b, n).status = row.status
  BY DEF Row
<1>5. EndRow(row, p, status, total) =
        ended(IF p.best = p.stored THEN row.best ELSE p.best, Cardinality(p.made),
              IF p.loaded = status THEN row.status ELSE status, CountsOf(p.made))
  BY <1>4 DEF EndRow, Committed
<1> HIDE DEF written, ended
<1> QED
  BY <1>1, <1>2, <1>3, <1>5

\* A commit of the trials R with the best of them leaves them in agreement.
LEMMA CommitAgrees ==
  ASSUME NEW w \in Workers, SoleInv(w), Active(w),
         NEW R \in SUBSET Trial, worker[w].made \subseteq R,
         \A t \in R : t.attempt = worker[w].attempt, NEW best, IsBest(best, R),
         trials' = [trials EXCEPT ![worker[w].job] = @ \cup (R \ worker[w].saved)],
         optimization' \in [Runs -> Row],
         \A o \in Runs \ {worker[w].job} : optimization'[o].best = optimization[o].best,
         optimization'[worker[w].job].best =
           IF best = worker[w].stored THEN optimization[worker[w].job].best ELSE best
  PROVE  /\ trials'[worker[w].job] = R /\ optimization'[worker[w].job].best = best
         /\ BestIsStored' /\ OneExecution'
<1> DEFINE o == worker[w].job
<1>1. /\ o \in Runs /\ trials \in [Runs -> SUBSET Trial] /\ optimization \in [Runs -> Row]
      /\ trials[o] = worker[w].saved /\ worker[w].saved \subseteq worker[w].made
      /\ optimization[o].best = worker[w].stored
  BY ActiveFacts DEF Stored
<1>2. trials'[o] = R /\ \A i \in Runs \ {o} : trials'[i] = trials[i]
  BY <1>1
<1>3. optimization'[o].best = best
  BY <1>1
<1>4. BestIsStored'
  BY <1>2, <1>3 DEF SoleInv, BestIsStored
<1>5. OneExecution'
  BY <1>2 DEF SoleInv, OneExecution
<1> QED
  BY <1>2, <1>3, <1>4, <1>5

\* A trial that is made leaves the process consistent with what is stored.
LEMMA MakeAgrees ==
  ASSUME NEW w \in Workers, Workers = {w}, SoleInv(w), Active(w), NEW total \in Nat,
         NEW trial \in Trial, Make(w, trial, total),
         trial.number = Cardinality(worker[w].made), trial.attempt = worker[w].attempt,
         worker[w].at = "searching" => trial.number < Trials
  PROVE  SoleInv(w)'
<1> DEFINE p == worker[w]
           R == p.made \cup {trial}
           better == Better(trial, p.top)
           best == IF better THEN trial.number ELSE p.best
           commit == CommitCheckpoint(Cardinality(R), total)
           next == [p EXCEPT !.made = R, !.best = best,
                      !.top = IF better THEN trial.score ELSE @,
                      !.saved = IF commit THEN R ELSE @,
                      !.stored = IF commit THEN best ELSE @]
<1>1. /\ p \in [at : {"claimed", "searching", "validating"}, job : Runs, attempt : Nat,
                loaded : Statuses, made : SUBSET Trial, saved : SUBSET Trial,
                best : Nat \cup {Nobody}, stored : Nat \cup {Nobody},
                top : Scores \cup {0}, chosen : SUBSET Trial]
      /\ optimization \in [Runs -> Row] /\ trials \in [Runs -> SUBSET Trial]
      /\ worker \in [Workers -> Process] /\ Making(p) /\ Leading(p)
      /\ Stored(p, optimization[p.job], trials[p.job]) /\ IsFiniteSet(p.made)
  BY ActiveFacts
<1>2. worker' = [worker EXCEPT ![w] = next]
  BY DEF Make
<1>3. worker'[w] = next
  BY <1>1, <1>2
<1>4. /\ next.at = p.at /\ next.job = p.job /\ next.attempt = p.attempt /\ next.made = R
      /\ next.best = best /\ next.top = (IF better THEN trial.score ELSE p.top)
      /\ next.saved = (IF commit THEN R ELSE p.saved)
      /\ next.stored = (IF commit THEN best ELSE p.stored)
  BY <1>1
<1>5. /\ Numbered(R) /\ Cardinality(R) = Cardinality(p.made) + 1
      /\ \A t \in p.made : t.number < trial.number
  BY <1>1, NumberedAdd DEF Making
<1>6. Making(next)
  BY <1>1, <1>4, <1>5 DEF Making
<1>7. p.made \in SUBSET Trial /\ R \in SUBSET Trial /\ trial.number \in Nat /\ trial.score \in Nat
      /\ Cardinality(p.made) \in Nat
  BY <1>1, Numbers, FS_CardinalityType DEF Trial
<1> HIDE DEF next, p, R, best, better, commit
<1>8. ASSUME p.at = "searching" PROVE Leading(next)
  <2> DEFINE W == Succeeded(p.made)
  <2>1. /\ \A t \in p.made : t.number < Trials
        /\ Leads(p.best, p.top, W) /\ (W = {} => p.best = Nobody)
    BY <1>1, <1>8 DEF Leading
  <2>2. /\ W \in SUBSET Trial /\ \A t \in W : t.score > 0 /\ t.number < trial.number
    BY <1>5, <1>7 DEF Succeeded
  <2>3. Leads(best, IF better THEN trial.score ELSE p.top,
              IF trial.score > 0 THEN W \cup {trial} ELSE W)
    <3> HIDE DEF W
    <3> QED
      BY <2>1, <2>2, LeadsAdd DEF best, better
  <2>4. Succeeded(R) = IF trial.score > 0 THEN W \cup {trial} ELSE W
    BY <1>7, PartsAdd DEF R
  <2>5. Leads(next.best, next.top, Succeeded(next.made))
    BY <1>4, <2>3, <2>4
  <2>6. Succeeded(R) = {} => best = Nobody
    <3>1. SUFFICES ASSUME Succeeded(R) = {} PROVE best = Nobody
      OBVIOUS
    <3>2. W = {} /\ ~ (trial.score > 0)
      BY <2>4, <3>1
    <3>3. p.top = 0
      BY <2>1, <3>2 DEF Leads
    <3> QED
      BY <2>1, <3>2, <3>3 DEF best, better, Better
  <2>7. \A t \in R : t.number < Trials
    BY <1>8, <2>1 DEF R, p
  <2> QED
    BY <1>4, <1>8, <2>5, <2>6, <2>7 DEF Leading
<1>9. ASSUME p.at = "validating" PROVE Leading(next)
  <2> DEFINE V == Validated(p.made)
             W == Succeeded(V)
  <2>1. /\ Cardinality(p.made) = Trials + Cardinality(V)
        /\ Leads(p.best, p.top, W) /\ (W = {} => IsBest(p.best, p.made))
    BY <1>1, <1>9 DEF Leading
  <2>2. /\ V \in SUBSET Trial /\ V \subseteq p.made /\ W \in SUBSET Trial
        /\ \A t \in W : t.score > 0 /\ t.number < trial.number
    BY <1>5, <1>7 DEF Succeeded, Validated
  <2>3. IsFiniteSet(V) /\ Cardinality(V) \in Nat
    BY <1>1, Parts
  <2>4. trial.number >= Trials /\ trial \notin V
    <3>1. trial.number = Cardinality(p.made)
      BY DEF p
    <3> QED
      BY <1>5, <1>7, <2>1, <2>2, <2>3, <3>1, Numbers
  <2>5. Validated(R) = V \cup {trial}
    BY <1>7, <2>4, PartsAdd DEF R
  <2>6. Cardinality(Validated(R)) = Cardinality(V) + 1
    <3> HIDE DEF V
    <3> QED
      BY <2>3, <2>4, <2>5, FS_AddElement
  <2>7. Succeeded(Validated(R)) = IF trial.score > 0 THEN W \cup {trial} ELSE W
    <3>1. Succeeded(V \cup {trial}) = IF trial.score > 0 THEN Succeeded(V) \cup {trial} ELSE Succeeded(V)
      <4> HIDE DEF V
      <4> QED
        BY <2>2, PartsAdd
    <3> QED
      BY <2>5, <3>1
  <2>8. Leads(best, IF better THEN trial.score ELSE p.top,
              IF trial.score > 0 THEN W \cup {trial} ELSE W)
    <3> HIDE DEF W
    <3> QED
      BY <2>1, <2>2, LeadsAdd DEF best, better
  <2>9. Leads(next.best, next.top, Succeeded(Validated(next.made)))
    BY <1>4, <2>7, <2>8
  <2>10. Succeeded(Validated(R)) = {} => IsBest(best, R)
    <3>1. SUFFICES ASSUME Succeeded(Validated(R)) = {} PROVE IsBest(best, R)
      OBVIOUS
    <3>2. W = {} /\ ~ (trial.score > 0)
      BY <2>7, <3>1
    <3>3. p.top = 0 /\ IsBest(p.best, p.made)
      BY <2>1, <3>2 DEF Leads
    <3>4. best = p.best
      BY <3>2, <3>3 DEF best, better, Better
    <3>5. Succeeded(R) = Succeeded(p.made)
      BY <1>7, <3>2, PartsAdd DEF R
    <3> QED
      BY <3>1, <3>2, <3>3, <3>4, <3>5 DEF IsBest
  <2>11. Cardinality(R) = Trials + Cardinality(Validated(R))
    BY <1>5, <2>1, <2>3, <2>6, Numbers
  <2> QED
    BY <1>4, <1>9, <2>9, <2>10, <2>11 DEF Leading
<1>10. p.at \in {"searching", "validating"}
  BY DEF Active, p
<1>11. Leading(next)
  BY <1>8, <1>9, <1>10
<1>12. IsBest(best, R)
  BY <1>4, <1>7, <1>10, <1>11, LeaderIsBest
<1>13. Typed' /\ Fresh(w)'
  BY <1>3, <1>4, <1>10, MakeTypes DEF SoleInv, Active, Fresh
<1>14. CASE commit /\ Save(w, R, best, total)
  <2>1. /\ trials' = [trials EXCEPT ![p.job] = @ \cup (R \ p.saved)]
        /\ optimization' = [optimization EXCEPT ![p.job] = Committed(@, p, R, best, total)]
    BY <1>14 DEF Save, p
  <2>2. p.job \in Runs /\ optimization[p.job] \in Row
    BY <1>1
  <2>3. /\ optimization'[p.job] = Committed(optimization[p.job], p, R, best, total)
        /\ \A o \in Runs \ {p.job} : optimization'[o] = optimization[o]
    BY <1>1, <2>1, <2>2
  <2>4. /\ optimization'[p.job].best = IF best = p.stored THEN optimization[p.job].best ELSE best
        /\ optimization'[p.job].completed = Cardinality(R)
    BY <2>2, <2>3 DEF Committed, Row
  <2>5. optimization' \in [Runs -> Row]
    BY <1>13 DEF Typed, TypeOK
  <2>6. p.made \subseteq R /\ \A t \in R : t.attempt = p.attempt
    BY <1>4, <1>6 DEF Making, R
  <2>7. /\ trials'[p.job] = R /\ optimization'[p.job].best = best
        /\ BestIsStored' /\ OneExecution'
    BY <1>7, <1>12, <2>1, <2>3, <2>4, <2>5, <2>6, CommitAgrees DEF p
  <2>8. Stored(next, optimization'[p.job], trials'[p.job])
    BY <1>4, <1>5, <1>14, <2>4, <2>7 DEF Stored
  <2>9. Consistent(w)'
    BY <1>3, <1>4, <1>6, <1>11, <2>8 DEF Consistent
  <2> QED
    BY <1>13, <2>7, <2>9 DEF SoleInv
<1>15. CASE ~ commit /\ UNCHANGED <<optimization, trials>>
  <2>1. Stored(next, optimization'[p.job], trials'[p.job])
    BY <1>1, <1>4, <1>15 DEF Stored, R
  <2>2. Consistent(w)'
    BY <1>3, <1>4, <1>6, <1>11, <2>1 DEF Consistent
  <2>3. BestIsStored' /\ OneExecution'
    BY <1>15 DEF SoleInv, BestIsStored, OneExecution
  <2> QED
    BY <1>13, <2>2, <2>3 DEF SoleInv
<1> QED
  BY <1>14, <1>15 DEF Make, commit, R, best, better, p

\* A step that leaves the trials and the best candidates alone and after which the
\* process is not active.
LEMMA RestAgrees ==
  ASSUME NEW w \in Workers, SoleInv(w), Typed', ~ Active(w)', Fresh(w)', UNCHANGED trials,
         \A o \in Runs : optimization'[o].best = optimization[o].best
  PROVE  SoleInv(w)'
<1>1. BestIsStored'
  BY DEF SoleInv, BestIsStored
<1>2. OneExecution'
  BY DEF SoleInv, OneExecution
<1> QED
  BY <1>1, <1>2 DEF SoleInv, Consistent

\* Users change statuses only.
LEMMA UserAgrees ==
  ASSUME NEW w \in Workers, SoleInv(w),
         \/ \E o \in Runs : Create(o)
         \/ \E u \in Users, o \in Runs : CancelRead(u, o)
         \/ \E u \in Users : CancelCommit(u)
  PROVE  SoleInv(w)'
<1>1. Typed /\ optimization \in [Runs -> Row] /\ UNCHANGED <<trials, worker>>
  BY DEF SoleInv, Typed, TypeOK, Create, CancelRead, CancelCommit, database
<1>2. Typed'
  BY <1>1, UserTypes
<1>3. \A i \in Runs : /\ optimization'[i].best = optimization[i].best
                      /\ optimization'[i].completed = optimization[i].completed
  <2>1. CASE \E o \in Runs : Create(o)
    BY <1>1, <2>1 DEF Create, Row
  <2>2. CASE \E u \in Users, o \in Runs : CancelRead(u, o)
    BY <2>2 DEF CancelRead, database
  <2>3. CASE \E u \in Users : CancelCommit(u)
    <3>1. PICK u \in Users : CancelCommit(u)
      BY <2>3
    <3>2. PICK status : optimization' = [optimization EXCEPT ![cancel[u].job].status = status]
      BY <3>1 DEF CancelCommit
    <3> QED
      BY <1>1, <3>2 DEF Row
  <2> QED
    BY <2>1, <2>2, <2>3
<1>4. BestIsStored' /\ OneExecution'
  BY <1>1, <1>3 DEF SoleInv, BestIsStored, OneExecution
<1>5. Fresh(w)'
  BY <1>1 DEF SoleInv, Fresh
<1>6. Consistent(w)'
  <2>1. SUFFICES ASSUME Active(w)
                 PROVE  /\ Making(worker[w]) /\ Leading(worker[w])
                        /\ Stored(worker[w], optimization'[worker[w].job], trials[worker[w].job])
    BY <1>1 DEF Consistent, Active
  <2>2. /\ worker[w].job \in Runs /\ Making(worker[w]) /\ Leading(worker[w])
        /\ Stored(worker[w], optimization[worker[w].job], trials[worker[w].job])
    BY <2>1, ActiveFacts
  <2> QED
    BY <1>3, <2>2 DEF Stored
<1> QED
  BY <1>2, <1>4, <1>5, <1>6 DEF SoleInv

\* A process that ends, fails, crashes or starts is not active any more.
LEMMA LeaveAgrees ==
  ASSUME NEW w \in Workers, SoleInv(w), Typed', NEW at \in {"down", "idle"},
         worker' = [worker EXCEPT ![w] = Resting(at)]
  PROVE  ~ Active(w)' /\ Fresh(w)'
<1>1. worker \in [Workers -> Process]
  BY DEF SoleInv, Typed, TypeOK
<1> QED
  BY <1>1 DEF Active, Fresh, Resting

\* Starting, claiming, failing and crashing leave what is stored of the trials alone.
LEMMA IdleAgrees ==
  ASSUME NEW w \in Workers, SoleInv(w),
         Start(w) \/ Claim(w) \/ Fail(w) \/ FailUnstored(w) \/ Crash(w)
  PROVE  SoleInv(w)'
<1>1. /\ Typed /\ optimization \in [Runs -> Row] /\ worker \in [Workers -> Process]
  BY DEF SoleInv, Typed, TypeOK
<1>2. Typed'
  BY <1>1, ProcessTypes
<1>3. UNCHANGED trials
  BY DEF Start, Claim, Fail, FailUnstored, Crash, database
<1>4. ~ Active(w)' /\ Fresh(w)'
  <2>1. CASE Claim(w)
    <3>1. PICK o \in Runs : worker' = [worker EXCEPT ![w] =
             [Resting("claimed") EXCEPT !.job = o, !.attempt = attempts[o] + 1]]
      BY <2>1 DEF Claim, Claimable
    <3> QED
      BY <1>1, <3>1 DEF Resting, Active, Fresh
  <2>2. CASE Start(w) \/ Fail(w) \/ FailUnstored(w) \/ Crash(w)
    <3>1. \E at \in {"down", "idle"} : worker' = [worker EXCEPT ![w] = Resting(at)]
      BY <2>2 DEF Start, Fail, FailUnstored, Crash
    <3> QED
      BY <1>2, <3>1, LeaveAgrees
  <2> QED
    BY <2>1, <2>2
<1>5. \A o \in Runs : optimization'[o].best = optimization[o].best
  <2>1. CASE Start(w)
    BY <1>1, <2>1 DEF Start, Row
  <2>2. CASE Claim(w)
    <3>1. PICK o \in Runs : optimization' = [optimization EXCEPT ![o].status = "RUNNING",
                                               ![o].completed = 0, ![o].total = Trials]
      BY <2>2 DEF Claim, Claimable
    <3> QED
      BY <1>1, <3>1 DEF Row
  <2>3. CASE Fail(w)
    <3>1. optimization' = [optimization EXCEPT
             ![worker[w].job].status = "FAILED",
             ![worker[w].job].summary = CountsOf(worker[w].made)]
      BY <2>3 DEF Fail
    <3> QED
      BY <1>1, <3>1 DEF Row
  <2>4. CASE FailUnstored(w) \/ Crash(w)
    BY <2>4 DEF FailUnstored, Crash, database
  <2> QED
    BY <2>1, <2>2, <2>3, <2>4
<1> QED
  BY <1>2, <1>3, <1>4, <1>5, RestAgrees

\* An execution begins with nothing stored.
LEMMA BeginAgrees ==
  ASSUME NEW w \in Workers, SoleInv(w), Begin(w)
  PROVE  SoleInv(w)'
<1> DEFINE o == worker[w].job
           next == [worker[w] EXCEPT !.at = "searching", !.loaded = optimization[o].status]
<1>1. /\ TypeOK /\ optimization \in [Runs -> Row] /\ trials \in [Runs -> SUBSET Trial]
      /\ worker \in [Workers -> Process] /\ worker[w].at = "claimed"
  BY DEF SoleInv, Typed, TypeOK, Begin
<1>2. worker[w] \in [at : {"claimed", "searching", "validating"}, job : Runs, attempt : Nat,
                     loaded : Statuses, made : SUBSET Trial, saved : SUBSET Trial,
                     best : Nat \cup {Nobody}, stored : Nat \cup {Nobody},
                     top : Scores \cup {0}, chosen : SUBSET Trial]
  BY <1>1, Processes
<1>3. o \in Runs /\ optimization[o] \in Row
  BY <1>1, <1>2
<1>4. Typed'
  BY ProcessTypes DEF SoleInv
<1>5. worker'[w] = next
  BY <1>1 DEF Begin
<1>6. /\ next.at = "searching" /\ next.job = o /\ next.made = {} /\ next.saved = {}
      /\ next.best = Nobody /\ next.stored = Nobody /\ next.top = 0
  BY <1>1, <1>2 DEF SoleInv, Fresh
<1>7. /\ trials'[o] = {} /\ \A i \in Runs \ {o} : trials'[i] = trials[i]
  BY <1>1, <1>3 DEF Begin, Discarded
<1>8. /\ optimization'[o].best = Nobody /\ optimization'[o].completed = 0
      /\ \A i \in Runs \ {o} : optimization'[i] = optimization[i]
  BY <1>1, <1>3 DEF Begin, Cleared, Row
<1>9. Succeeded({}) = {} /\ Validated({}) = {}
  BY DEF Succeeded, Validated
<1>10. Making(next) /\ Leading(next) /\ Stored(next, optimization'[o], trials'[o])
  <2>1. Making(next)
    BY <1>6, NoneNumbered DEF Making
  <2>2. Leading(next)
    BY <1>6, <1>9 DEF Leading, Leads
  <2>3. Stored(next, optimization'[o], trials'[o])
    BY <1>6, <1>7, <1>8, NoneNumbered DEF Stored
  <2> QED
    BY <2>1, <2>2, <2>3
<1>11. Consistent(w)' /\ Fresh(w)'
  BY <1>5, <1>6, <1>10 DEF Consistent, Fresh
<1>12. BestIsStored'
  BY <1>7, <1>8, <1>9 DEF SoleInv, BestIsStored, IsBest
<1>13. OneExecution'
  BY <1>7 DEF SoleInv, OneExecution
<1> QED
  BY <1>4, <1>11, <1>12, <1>13 DEF SoleInv

\* The trials of the search and of the validation have the next numbers.
LEMMA TrialAgrees ==
  ASSUME NEW w \in Workers, Workers = {w}, SoleInv(w), SearchTrial(w) \/ ValidationTrial(w)
  PROVE  SoleInv(w)'
<1>1. Active(w)
  BY DEF SearchTrial, ValidationTrial, Active
<1>2. /\ worker[w].made \in SUBSET Trial /\ worker[w].attempt \in Nat
      /\ IsFiniteSet(worker[w].made) /\ Leading(worker[w]) /\ worker[w].chosen \in SUBSET Trial
      /\ worker[w].at \in {"searching", "validating"}
  BY <1>1, ActiveFacts DEF Active
<1>3. Cardinality(worker[w].made) \in Nat
  BY <1>2, FS_CardinalityType
<1>4. CASE SearchTrial(w)
  <2> DEFINE number == Cardinality(worker[w].made)
  <2>1. PICK score \in Scores \cup {0} :
          Make(w, [number |-> number, of |-> number, score |-> score,
                   attempt |-> worker[w].attempt], Trials)
    BY <1>4 DEF SearchTrial
  <2>2. number < Trials /\ worker[w].at = "searching"
    BY <1>4 DEF SearchTrial
  <2>3. PICK trial \in Trial :
          /\ trial.number = number /\ trial.attempt = worker[w].attempt
          /\ Make(w, trial, Trials)
    BY <1>2, <1>3, <2>1 DEF Trial
  <2> QED
    BY <1>1, <2>2, <2>3, MakeAgrees, Numbers
<1>5. CASE ValidationTrial(w)
  <2>1. /\ worker[w].at = "validating"
        /\ Trials + Index(w) = Cardinality(worker[w].made)
    BY <1>2, <1>5 DEF ValidationTrial, Leading, Index
  <2>2. Total(w) \in Nat
    <3>1. IsFiniteSet(worker[w].chosen)
      BY DEF SoleInv, Typed, FiniteWork
    <3> QED
      BY <3>1, FS_CardinalityType, Numbers DEF Total
  <2>3. PICK candidate \in Waiting(w), score \in Scores \cup {0} :
          Make(w, [number |-> Trials + Index(w), of |-> candidate.number, score |-> score,
                   attempt |-> worker[w].attempt], Total(w))
    BY <1>5 DEF ValidationTrial
  <2>4. candidate.number \in Nat
    BY <1>2 DEF Waiting, Trial
  <2>5. PICK trial \in Trial :
          /\ trial.number = Cardinality(worker[w].made) /\ trial.attempt = worker[w].attempt
          /\ Make(w, trial, Total(w))
    BY <1>2, <1>3, <2>1, <2>3, <2>4 DEF Trial
  <2> QED
    BY <1>1, <2>1, <2>2, <2>5, MakeAgrees
<1> QED
  BY <1>4, <1>5

\* The search is stored as a whole, and nothing is validated yet.
LEMMA SelectAgrees ==
  ASSUME NEW w \in Workers, SoleInv(w), Select(w)
  PROVE  SoleInv(w)'
<1> DEFINE p == worker[w]
           o == p.job
           R == p.made
           chosen == TopOf(Searched(trials[o] \cup R))
           next == [p EXCEPT !.at = "validating", !.saved = R, !.stored = p.best,
                             !.top = 0, !.chosen = chosen]
           total == Trials + Cardinality(chosen)
<1>1. Active(w) /\ p.at = "searching" /\ Cardinality(R) = Trials
  BY DEF Select, Active
<1>2. /\ p \in [at : {"claimed", "searching", "validating"}, job : Runs, attempt : Nat,
                loaded : Statuses, made : SUBSET Trial, saved : SUBSET Trial,
                best : Nat \cup {Nobody}, stored : Nat \cup {Nobody},
                top : Scores \cup {0}, chosen : SUBSET Trial]
      /\ optimization \in [Runs -> Row] /\ trials \in [Runs -> SUBSET Trial]
      /\ worker \in [Workers -> Process] /\ Making(p) /\ Leading(p)
  BY <1>1, ActiveFacts
<1>3. IsBest(p.best, R)
  BY <1>1, <1>2, LeaderIsBest
<1>4. Typed'
  BY ProcessTypes DEF SoleInv
<1>5. worker' = [worker EXCEPT ![w] = next]
  BY DEF Select
<1>6. worker'[w] = next
  BY <1>2, <1>5
<1> HIDE DEF chosen
<1>7. /\ next.at = "validating" /\ next.job = o /\ next.attempt = p.attempt /\ next.made = R
      /\ next.saved = R /\ next.stored = p.best /\ next.best = p.best /\ next.top = 0
  BY <1>2
<1>8. Save(w, R, p.best, total)
  BY DEF Select, chosen
<1> HIDE DEF next, total
<1>9. /\ o \in Runs /\ optimization[o] \in Row
      /\ trials' = [trials EXCEPT ![o] = @ \cup (R \ p.saved)]
      /\ optimization' = [optimization EXCEPT ![o] = Committed(@, p, R, p.best, total)]
  BY <1>2, <1>8 DEF Save
<1>10. /\ optimization'[o] = Committed(optimization[o], p, R, p.best, total)
       /\ \A i \in Runs \ {o} : optimization'[i] = optimization[i]
  BY <1>2, <1>9
<1>11. /\ optimization'[o].best = IF p.best = p.stored THEN optimization[o].best ELSE p.best
       /\ optimization'[o].completed = Cardinality(R)
  <2> HIDE DEF p, o, R
  <2> QED
    BY <1>9, <1>10, CommittedRow
<1>12. optimization' \in [Runs -> Row]
  BY <1>4 DEF Typed, TypeOK
<1>13. \A t \in R : t.attempt = p.attempt
  BY <1>2 DEF Making
<1>14. /\ trials'[o] = R /\ optimization'[o].best = p.best
       /\ BestIsStored' /\ OneExecution'
  <2>1. R \in SUBSET Trial /\ \A i \in Runs \ {o} : optimization'[i].best = optimization[i].best
    BY <1>2, <1>10
  <2> QED
    BY <1>1, <1>3, <1>9, <1>11, <1>12, <1>13, <2>1, CommitAgrees
<1>15. Validated(R) = {} /\ Succeeded({}) = {}
  BY <1>1, <1>2, Numbers DEF Leading, Validated, Succeeded, Trial
<1>16. Leading(next)
  BY <1>1, <1>3, <1>7, <1>15, NoneNumbered, Numbers DEF Leading, Leads
<1>17. Making(next) /\ Stored(next, optimization'[o], trials'[o])
  BY <1>2, <1>7, <1>11, <1>14 DEF Making, Stored
<1>18. Consistent(w)' /\ Fresh(w)'
  BY <1>6, <1>7, <1>16, <1>17 DEF Consistent, Fresh
<1> QED
  BY <1>4, <1>14, <1>18 DEF SoleInv

\* An execution that ends stores the rest of its trials.
LEMMA EndAgrees ==
  ASSUME NEW w \in Workers, SoleInv(w), EndCancelled(w) \/ Succeed(w)
  PROVE  SoleInv(w)'
<1> DEFINE p == worker[w]
           o == p.job
           total == IF p.at = "searching" THEN Trials ELSE Total(w)
<1>1. Active(w)
  BY DEF EndCancelled, Succeed, Active
<1>2. PICK status, runStatus : End(w, status, runStatus)
  BY DEF EndCancelled, Succeed
<1>3. /\ p \in [at : {"claimed", "searching", "validating"}, job : Runs, attempt : Nat,
                loaded : Statuses, made : SUBSET Trial, saved : SUBSET Trial,
                best : Nat \cup {Nobody}, stored : Nat \cup {Nobody},
                top : Scores \cup {0}, chosen : SUBSET Trial]
      /\ optimization \in [Runs -> Row] /\ worker \in [Workers -> Process]
      /\ Making(p) /\ Leading(p)
  BY <1>1, ActiveFacts
<1>4. IsBest(p.best, p.made)
  BY <1>1, <1>3, LeaderIsBest DEF Active
<1>5. Typed'
  BY ProcessTypes DEF SoleInv
<1>6. /\ trials' = [trials EXCEPT ![o] = @ \cup (p.made \ p.saved)]
      /\ optimization' = [optimization EXCEPT ![o] = EndRow(@, p, status, total)]
      /\ worker' = [worker EXCEPT ![w] = Resting("idle")]
  BY <1>2 DEF End
<1> HIDE DEF total
<1>7. /\ o \in Runs /\ optimization[o] \in Row
      /\ optimization'[o] = EndRow(optimization[o], p, status, total)
      /\ \A i \in Runs \ {o} : optimization'[i] = optimization[i]
  BY <1>3, <1>6
<1>8. optimization'[o].best = IF p.best = p.stored THEN optimization[o].best ELSE p.best
  <2> HIDE DEF p, o
  <2> QED
    BY <1>7, CommittedRow
<1>9. optimization' \in [Runs -> Row]
  BY <1>5 DEF Typed, TypeOK
<1>10. \A t \in p.made : t.attempt = p.attempt
  BY <1>3 DEF Making
<1>11. BestIsStored' /\ OneExecution'
  <2>1. /\ p.made \in SUBSET Trial
        /\ \A i \in Runs \ {o} : optimization'[i].best = optimization[i].best
    BY <1>3, <1>7
  <2> QED
    BY <1>1, <1>4, <1>6, <1>8, <1>9, <1>10, <2>1, CommitAgrees
<1>12. ~ Active(w)' /\ Fresh(w)'
  BY <1>5, <1>6, LeaveAgrees
<1> QED
  BY <1>5, <1>11, <1>12 DEF SoleInv, Consistent

\* Every step of a sole worker and of the users keeps the agreement.
LEMMA SoleStep ==
  ASSUME NEW w, Workers = {w}, SoleInv(w), [Next]_vars
  PROVE  SoleInv(w)'
<1>1. w \in Workers
  OBVIOUS
<1>2. CASE UNCHANGED vars
  <2>1. UNCHANGED <<optimization, run, trials, attempts, worker, cancel, crashes, unstored>>
    BY <1>2 DEF vars
  <2>2. Typed'
    BY <2>1 DEF SoleInv, Typed, TypeOK, FiniteWork
  <2>3. Consistent(w)' /\ Fresh(w)'
    BY <2>1 DEF SoleInv, Consistent, Fresh, Active
  <2>4. BestIsStored' /\ OneExecution'
    BY <2>1 DEF SoleInv, BestIsStored, OneExecution
  <2> QED
    BY <2>2, <2>3, <2>4 DEF SoleInv
<1>3. CASE \/ \E o \in Runs : Create(o)
           \/ \E u \in Users, o \in Runs : CancelRead(u, o)
           \/ \E u \in Users : CancelCommit(u)
  BY <1>1, <1>3, UserAgrees
<1>4. CASE Start(w) \/ Claim(w) \/ Fail(w) \/ FailUnstored(w) \/ Crash(w)
  BY <1>1, <1>4, IdleAgrees
<1>5. CASE Begin(w)
  BY <1>1, <1>5, BeginAgrees
<1>6. CASE SearchTrial(w) \/ ValidationTrial(w)
  BY <1>1, <1>6, TrialAgrees
<1>7. CASE Select(w)
  BY <1>1, <1>7, SelectAgrees
<1>8. CASE EndCancelled(w) \/ Succeed(w)
  BY <1>1, <1>8, EndAgrees
<1> QED
  BY <1>2, <1>3, <1>4, <1>5, <1>6, <1>7, <1>8 DEF Next

\* At first nothing is stored.
LEMMA SoleInit == ASSUME NEW w \in Workers, Init PROVE SoleInv(w)
<1>1. Typed
  BY InitTypes
<1>2. worker[w].at \in {"idle", "down"}
  BY DEF Init, Resting
<1>3. Consistent(w) /\ Fresh(w)
  BY <1>2 DEF Consistent, Active, Fresh
<1>4. OneExecution
  BY DEF Init, OneExecution
<1>5. BestIsStored
  BY DEF Init, BestIsStored, IsBest, Succeeded, Validated, Absent
<1> QED
  BY <1>1, <1>3, <1>4, <1>5 DEF SoleInv

\* What is stored is what the sole worker has committed.
LEMMA SoleProgress ==
  ASSUME NEW w, Workers = {w}, SoleInv(w)
  PROVE  CommitsAgree
<1>1. SUFFICES ASSUME NEW o \in Runs, Executing(o)
               PROVE  /\ optimization[o].completed = Cardinality(trials[o])
                      /\ {t.number : t \in trials[o]} = 0 .. Cardinality(trials[o]) - 1
  BY DEF SoleInv, CommitsAgree, ProgressIsStored
<1>2. w \in Workers /\ worker[w].job = o /\ worker[w].at # "claimed"
  BY <1>1 DEF Executing
<1>3. 0 \notin Runs
  BY DEF Runs
<1>4. worker[w].at \notin {"down", "idle"}
  BY <1>2, <1>3, Processes DEF SoleInv, Typed
<1>5. worker[w].at \in {"claimed", "searching", "validating"}
  BY <1>2, <1>4, Processes DEF SoleInv, Typed
<1>6. Stored(worker[w], optimization[o], trials[o])
  BY <1>2, <1>5, ActiveFacts DEF Active
<1> QED
  BY <1>6 DEF Stored, Numbered

\* With one worker, after every commit, crash, rollback and cancellation, the stored best
\* candidate is the best of the stored trials, and the progress shown counts them, from
\* the first on.
THEOREM CommitsAgreed ==
  ASSUME NEW w, Workers = {w}
  PROVE  Spec => []CommitsAgree
<1>1. Init => SoleInv(w)
  BY SoleInit
<1>2. SoleInv(w) /\ [Next]_vars => SoleInv(w)'
  BY SoleStep
<1>3. SoleInv(w) => CommitsAgree
  BY SoleProgress
<1> HIDE DEF SoleInv
<1> QED
  BY <1>1, <1>2, <1>3, PTL DEF Spec

\* With one worker the stored trials of a run are those of one execution, however often
\* it was interrupted and queued again: what several workers break.
THEOREM OneExecutionStored ==
  ASSUME NEW w, Workers = {w}
  PROVE  Spec => []OneExecution
<1>1. Init => SoleInv(w)
  BY SoleInit
<1>2. SoleInv(w) /\ [Next]_vars => SoleInv(w)'
  BY SoleStep
<1>3. SoleInv(w) => OneExecution
  BY DEF SoleInv
<1> HIDE DEF SoleInv
<1> QED
  BY <1>1, <1>2, <1>3, PTL DEF Spec

-----------------------------------------------------------------------------
(* The candidates of a search. *)

Distinct(R) == \A s, t \in R : s.number = t.number => s = t

\* The trials that come before t.
Ahead(t, R) == {s \in R : Before(s, t)}

\* Trials with the first numbers have different numbers.
LEMMA NumberedDistinct ==
  ASSUME NEW R \in SUBSET Trial, Numbered(R)
  PROVE  Distinct(R)
<1> DEFINE n == Cardinality(R)
           f == [t \in R |-> t.number]
<1>1. IsFiniteSet(R) /\ n \in Nat /\ {t.number : t \in R} = 0 .. n - 1
  BY FS_CardinalityType DEF Numbered
<1>2. f \in Surjection(R, 0 .. n - 1)
  BY <1>1 DEF Surjection
<1>3. Cardinality(0 .. n - 1) = n
  BY <1>1, FS_Interval
<1>4. f \in Injection(R, 0 .. n - 1)
  BY <1>1, <1>2, <1>3, FS_SurjSameCardinalityImpliesInj
<1> QED
  BY <1>4 DEF Injection, IsInjective, Distinct

\* There are as many numbers of distinct trials as trials.
LEMMA DistinctNumbers ==
  ASSUME NEW R \in SUBSET Trial, IsFiniteSet(R), Distinct(R)
  PROVE  Cardinality({t.number : t \in R}) = Cardinality(R)
<1> DEFINE f == [t \in R |-> t.number]
           N == {t.number : t \in R}
<1>1. f \in Surjection(R, N) /\ f \in Injection(R, N)
  BY DEF Surjection, Injection, IsInjective, Distinct
<1> QED
  BY <1>1, FS_Surjection

\* More trials are ahead of the later one of two.
LEMMA AheadOrder ==
  ASSUME NEW R \in SUBSET Trial, IsFiniteSet(R), NEW s \in R, NEW t \in R, Before(s, t)
  PROVE  Cardinality(Ahead(s, R)) < Cardinality(Ahead(t, R))
<1>1. \A x \in R : x.score \in Nat /\ x.number \in Nat
  BY Numbers DEF Trial
<1>2. s \notin Ahead(s, R) /\ Ahead(s, R) \cup {s} \in SUBSET Ahead(t, R)
  BY <1>1 DEF Ahead, Before
<1>3. IsFiniteSet(Ahead(s, R)) /\ IsFiniteSet(Ahead(t, R))
  <2>1. Ahead(s, R) \in SUBSET R /\ Ahead(t, R) \in SUBSET R
    BY DEF Ahead
  <2> QED
    BY <2>1, FS_Subset
<1>4. Cardinality(Ahead(s, R)) \in Nat /\ Cardinality(Ahead(t, R)) \in Nat
  BY <1>3, FS_CardinalityType
<1>5. Cardinality(Ahead(s, R) \cup {s}) = Cardinality(Ahead(s, R)) + 1
  BY <1>2, <1>3, FS_AddElement
<1>6. Cardinality(Ahead(s, R) \cup {s}) <= Cardinality(Ahead(t, R))
  BY <1>2, <1>3, FS_Subset
<1> QED
  BY <1>4, <1>5, <1>6

\* The trials of which fewer than limit are ahead are as many as limit, or all of them.
LEMMA TopSize ==
  ASSUME NEW R \in SUBSET Trial, IsFiniteSet(R), Distinct(R), NEW limit \in Nat
  PROVE  LET top == {t \in R : Cardinality(Ahead(t, R)) < limit}
         IN  Cardinality(top) = limit \/ Cardinality(top) = Cardinality(R)
<1> DEFINE n == Cardinality(R)
           rank == [t \in R |-> Cardinality(Ahead(t, R))]
           top == {t \in R : Cardinality(Ahead(t, R)) < limit}
           low == [t \in top |-> rank[t]]
<1>1. n \in Nat
  BY FS_CardinalityType
<1>2. ASSUME NEW t \in R PROVE rank[t] \in 0 .. n - 1
  <2>1. Ahead(t, R) \in SUBSET R /\ t \notin Ahead(t, R)
    BY Numbers DEF Ahead, Before, Trial
  <2>2. IsFiniteSet(Ahead(t, R)) /\ Cardinality(Ahead(t, R)) <= n
        /\ (n = Cardinality(Ahead(t, R)) => R = Ahead(t, R))
    BY <2>1, FS_Subset
  <2>3. Cardinality(Ahead(t, R)) \in Nat
    BY <2>2, FS_CardinalityType
  <2> QED
    BY <1>1, <2>1, <2>2, <2>3
<1>3. ASSUME NEW s \in R, NEW t \in R, rank[s] = rank[t] PROVE s = t
  <2>1. \A x \in R : x.score \in Nat /\ x.number \in Nat
    BY Numbers DEF Trial
  <2>2. ~ Before(s, t) /\ ~ Before(t, s)
    BY <1>1, <1>2, <1>3, AheadOrder
  <2> QED
    BY <2>1, <2>2 DEF Before, Distinct
<1>4. Cardinality(0 .. n - 1) = n /\ IsFiniteSet(0 .. n - 1)
  BY <1>1, FS_Interval
<1>5. rank \in Injection(R, 0 .. n - 1)
  BY <1>2, <1>3 DEF Injection, IsInjective
<1>6. rank \in Surjection(R, 0 .. n - 1)
  BY <1>4, <1>5, FS_Injection
<1>7. CASE n <= limit
  <2>1. top = R
    BY <1>1, <1>2, <1>7
  <2> QED
    BY <2>1
<1>8. CASE limit < n
  <2>1. low \in Injection(top, 0 .. limit - 1)
    BY <1>1, <1>2, <1>3, <1>8 DEF Injection, IsInjective
  <2>2. low \in Surjection(top, 0 .. limit - 1)
    <3>1. SUFFICES ASSUME NEW k \in 0 .. limit - 1 PROVE \E t \in top : low[t] = k
      BY <2>1 DEF Injection, IsInjective, Surjection
    <3>2. k \in 0 .. n - 1
      BY <1>1, <1>8
    <3>3. \A i \in 0 .. n - 1 : \E t \in R : rank[t] = i
      <4> HIDE DEF rank
      <4> QED
        BY <1>6 DEF Surjection
    <3>4. PICK t \in R : rank[t] = k
      BY <3>2, <3>3
    <3>5. t \in top
      BY <3>1, <3>4
    <3> QED
      BY <3>4, <3>5
  <2>3. IsFiniteSet(0 .. limit - 1) /\ Cardinality(0 .. limit - 1) = limit
    BY FS_Interval
  <2>4. Cardinality(top) = Cardinality(0 .. limit - 1)
    BY <2>1, <2>2, <2>3, FS_Injection
  <2> QED
    BY <2>3, <2>4
<1> QED
  BY <1>1, <1>7, <1>8

-----------------------------------------------------------------------------
(* What a run that has succeeded has stored. *)

\* The trials of a validation are of different candidates, the best of the search.
Choosing(p) ==
  p.at = "validating" =>
    /\ p.chosen = TopOf(Searched(p.made))
    /\ \A v \in Validated(p.made) : \E t \in p.chosen : t.number = v.of
    /\ \A u, v \in Validated(p.made) : u.of = v.of => u = v

Executes(w) == worker[w].at \in {"claimed", "searching", "validating"}

\* What is executed has not succeeded.
Unfinished(w) == Executes(w) => optimization[worker[w].job].status # "SUCCEEDED"

CompleteInv(w) == SoleInv(w) /\ Choosing(worker[w]) /\ Unfinished(w) /\ SucceededIsComplete

\* A step after which only runs that had succeeded have, with what they had stored.
LEMMA KeepsComplete ==
  ASSUME SucceededIsComplete,
         \A o \in Runs : optimization'[o].status = "SUCCEEDED" =>
           optimization'[o] = optimization[o] /\ trials'[o] = trials[o]
  PROVE  SucceededIsComplete'
<1> QED
  BY DEF SucceededIsComplete

\* Users never make a run succeed.
LEMMA UserCompletes ==
  ASSUME NEW w \in Workers, CompleteInv(w),
         \/ \E o \in Runs : Create(o)
         \/ \E u \in Users, o \in Runs : CancelRead(u, o)
         \/ \E u \in Users : CancelCommit(u)
  PROVE  Choosing(worker[w])' /\ Unfinished(w)' /\ SucceededIsComplete'
<1>1. /\ optimization \in [Runs -> Row] /\ UNCHANGED <<trials, worker>> /\ TypeOK
      /\ cancel \in [Users -> {NoRequest} \cup Request]
  BY DEF CompleteInv, SoleInv, Typed, TypeOK, Create, CancelRead, CancelCommit, database
<1>2. \A i \in Runs : optimization'[i].status = "SUCCEEDED" => optimization'[i] = optimization[i]
  <2>1. CASE \E o \in Runs : Create(o)
    BY <1>1, <2>1 DEF Create, Row
  <2>2. CASE \E u \in Users, o \in Runs : CancelRead(u, o)
    BY <2>2 DEF CancelRead, database
  <2>3. CASE \E u \in Users : CancelCommit(u)
    <3>1. PICK u \in Users : CancelCommit(u)
      BY <2>3
    <3>2. PICK status \in {"CANCELLED", "CANCEL_REQUESTED"} :
            optimization' = [optimization EXCEPT ![cancel[u].job].status = status]
      BY <3>1 DEF CancelCommit
    <3> QED
      BY <1>1, <3>2 DEF Row
  <2> QED
    BY <2>1, <2>2, <2>3
<1>3. Executes(w) => worker[w].job \in Runs
  BY <1>1, Processes DEF Executes
<1>4. Unfinished(w)'
  BY <1>1, <1>2, <1>3 DEF CompleteInv, Unfinished, Executes
<1>5. SucceededIsComplete'
  BY <1>1, <1>2, KeepsComplete DEF CompleteInv
<1> QED
  BY <1>1, <1>4, <1>5 DEF CompleteInv

\* Neither do starting, claiming, failing and crashing.
LEMMA IdleCompletes ==
  ASSUME NEW w \in Workers, CompleteInv(w),
         Start(w) \/ Claim(w) \/ Fail(w) \/ FailUnstored(w) \/ Crash(w)
  PROVE  Choosing(worker[w])' /\ Unfinished(w)' /\ SucceededIsComplete'
<1>1. /\ optimization \in [Runs -> Row] /\ worker \in [Workers -> Process] /\ UNCHANGED trials
  BY DEF CompleteInv, SoleInv, Typed, TypeOK, Start, Claim, Fail, FailUnstored, Crash, database
<1>2. CASE Claim(w)
  <2>1. PICK o \in Runs :
          /\ optimization' = [optimization EXCEPT ![o].status = "RUNNING",
                                                  ![o].completed = 0, ![o].total = Trials]
          /\ worker' = [worker EXCEPT ![w] =
               [Resting("claimed") EXCEPT !.job = o, !.attempt = attempts[o] + 1]]
    BY <1>2 DEF Claim, Claimable
  <2>2. worker'[w].at = "claimed" /\ worker'[w].job = o
    BY <1>1, <2>1 DEF Resting
  <2>3. /\ optimization'[o].status = "RUNNING"
        /\ \A i \in Runs \ {o} : optimization'[i] = optimization[i]
    BY <1>1, <2>1 DEF Row
  <2>4. SucceededIsComplete'
    <3>1. \A i \in Runs : optimization'[i].status = "SUCCEEDED" =>
            optimization'[i] = optimization[i] /\ trials'[i] = trials[i]
      BY <1>1, <2>3
    <3> QED
      BY <3>1, KeepsComplete DEF CompleteInv
  <2> QED
    BY <2>2, <2>3, <2>4 DEF Choosing, Unfinished
<1>3. CASE Start(w) \/ Fail(w) \/ FailUnstored(w) \/ Crash(w)
  <2>1. PICK at \in {"down", "idle"} : worker' = [worker EXCEPT ![w] = Resting(at)]
    BY <1>3 DEF Start, Fail, FailUnstored, Crash
  <2>2. worker'[w].at \in {"down", "idle"}
    BY <1>1, <2>1 DEF Resting
  <2>3. \A i \in Runs : optimization'[i].status = "SUCCEEDED" => optimization'[i] = optimization[i]
    <3>1. CASE Start(w)
      BY <1>1, <3>1 DEF Start, Row, Interrupted
    <3>2. CASE Fail(w)
      <4>1. optimization' = [optimization EXCEPT
               ![worker[w].job].status = "FAILED",
               ![worker[w].job].summary = CountsOf(worker[w].made)]
        BY <3>2 DEF Fail
      <4> QED
        BY <1>1, <4>1 DEF Row
    <3>3. CASE FailUnstored(w) \/ Crash(w)
      BY <3>3 DEF FailUnstored, Crash, database
    <3> QED
      BY <1>3, <3>1, <3>2, <3>3
  <2>4. SucceededIsComplete'
    BY <1>1, <2>3, KeepsComplete DEF CompleteInv
  <2> QED
    BY <2>2, <2>4 DEF Choosing, Unfinished, Executes
<1> QED
  BY <1>2, <1>3

\* A commit of an execution leaves its status alone.
LEMMA CommitCompletes ==
  ASSUME NEW w \in Workers, CompleteInv(w), Executes(w),
         NEW R, NEW best, NEW total, Save(w, R, best, total)
  PROVE  /\ optimization'[worker[w].job].status # "SUCCEEDED" /\ SucceededIsComplete'
<1> DEFINE o == worker[w].job
           row == Committed(optimization[o], worker[w], R, best, total)
<1>1. /\ optimization \in [Runs -> Row] /\ trials \in [Runs -> SUBSET Trial] /\ o \in Runs
  BY Processes DEF CompleteInv, SoleInv, Typed, TypeOK, Executes
<1>2. optimization[o] \in Row /\ optimization[o].status # "SUCCEEDED"
  BY <1>1 DEF CompleteInv, Unfinished
<1>3. row.status = optimization[o].status
  BY <1>2 DEF Committed, Row
<1>4. /\ optimization'[o] = row /\ \A i \in Runs \ {o} : optimization'[i] = optimization[i]
      /\ \A i \in Runs \ {o} : trials'[i] = trials[i]
  BY <1>1 DEF Save
<1> HIDE DEF row
<1>5. SucceededIsComplete'
  <2>1. \A i \in Runs : optimization'[i].status = "SUCCEEDED" =>
          optimization'[i] = optimization[i] /\ trials'[i] = trials[i]
    BY <1>2, <1>3, <1>4
  <2> QED
    BY <2>1, KeepsComplete DEF CompleteInv
<1> QED
  BY <1>2, <1>3, <1>4, <1>5

\* A trial that is made.
LEMMA MakeCompletes ==
  ASSUME NEW w \in Workers, CompleteInv(w), Executes(w), NEW trial, NEW total,
         Make(w, trial, total)
  PROVE  /\ worker'[w].at = worker[w].at /\ worker'[w].job = worker[w].job
         /\ worker'[w].made = worker[w].made \cup {trial}
         /\ worker'[w].chosen = worker[w].chosen
         /\ Unfinished(w)' /\ SucceededIsComplete'
<1>1. /\ worker \in [Workers -> Process] /\ TypeOK
      /\ optimization[worker[w].job].status # "SUCCEEDED"
  BY DEF CompleteInv, SoleInv, Typed, TypeOK, Unfinished
<1>2. worker[w] \in [at : {"claimed", "searching", "validating"}, job : Runs, attempt : Nat,
                     loaded : Statuses, made : SUBSET Trial, saved : SUBSET Trial,
                     best : Nat \cup {Nobody}, stored : Nat \cup {Nobody},
                     top : Scores \cup {0}, chosen : SUBSET Trial]
  BY <1>1, Processes DEF Executes
<1>3. PICK lead, top, saved, stored :
        worker' = [worker EXCEPT ![w].made = worker[w].made \cup {trial}, ![w].best = lead,
                                 ![w].top = top, ![w].saved = saved, ![w].stored = stored]
  BY DEF Make
<1>4. /\ worker'[w].at = worker[w].at /\ worker'[w].job = worker[w].job
      /\ worker'[w].made = worker[w].made \cup {trial} /\ worker'[w].chosen = worker[w].chosen
  BY <1>1, <1>2, <1>3
<1>5. \/ \E R, best : Save(w, R, best, total)
      \/ UNCHANGED <<optimization, trials>>
  BY DEF Make
<1>6. optimization'[worker[w].job].status # "SUCCEEDED" /\ SucceededIsComplete'
  <2>1. CASE \E R, best : Save(w, R, best, total)
    BY <2>1, CommitCompletes
  <2>2. CASE UNCHANGED <<optimization, trials>>
    BY <1>1, <2>2, KeepsComplete DEF CompleteInv
  <2> QED
    BY <1>5, <2>1, <2>2
<1> QED
  BY <1>4, <1>6 DEF Unfinished

\* The trials of the search and of the validation: a candidate is validated once.
LEMMA TrialCompletes ==
  ASSUME NEW w \in Workers, CompleteInv(w), SearchTrial(w) \/ ValidationTrial(w)
  PROVE  Choosing(worker[w])' /\ Unfinished(w)' /\ SucceededIsComplete'
<1>1. Executes(w)
  BY DEF SearchTrial, ValidationTrial, Executes
<1>2. CASE SearchTrial(w)
  <2>1. PICK trial : Make(w, trial, Trials)
    BY <1>2 DEF SearchTrial
  <2>2. worker[w].at = "searching"
    BY <1>2 DEF SearchTrial
  <2> QED
    BY <1>1, <2>1, <2>2, MakeCompletes DEF Choosing
<1>3. CASE ValidationTrial(w)
  <2> DEFINE made == worker[w].made
  <2>1. PICK candidate \in Waiting(w), score \in Scores \cup {0} :
          Make(w, [number |-> Trials + Index(w), of |-> candidate.number, score |-> score,
                   attempt |-> worker[w].attempt], Total(w))
    BY <1>3 DEF ValidationTrial
  <2> DEFINE trial == [number |-> Trials + Index(w), of |-> candidate.number, score |-> score,
                       attempt |-> worker[w].attempt]
  <2>2. Active(w) /\ worker[w].at = "validating"
    BY <1>3 DEF ValidationTrial, Active
  <2>3. /\ made \in SUBSET Trial /\ IsFiniteSet(made) /\ worker[w].chosen \in SUBSET Trial
        /\ worker[w].attempt \in Nat
    BY <2>2, ActiveFacts DEF CompleteInv
  <2>4. Index(w) \in Nat
    BY <2>3, Parts DEF Index
  <2>5. /\ candidate \in worker[w].chosen /\ candidate \in Trial
        /\ \A v \in Validated(made) : v.of # candidate.number
    BY <2>3 DEF Waiting
  <2>6. /\ trial \in Trial /\ trial.of = candidate.number /\ trial.number >= Trials
        /\ ~ (trial.number < Trials)
    BY <2>3, <2>4, <2>5, Numbers DEF Trial
  <2>7. /\ worker'[w].at = worker[w].at /\ worker'[w].made = made \cup {trial}
        /\ worker'[w].chosen = worker[w].chosen /\ Unfinished(w)' /\ SucceededIsComplete'
    BY <1>1, <2>1, MakeCompletes
  <2> HIDE DEF trial
  <2>8. /\ Validated(made \cup {trial}) = Validated(made) \cup {trial}
        /\ Searched(made \cup {trial}) = Searched(made)
    BY <2>6 DEF Validated, Searched
  <2>9. /\ worker[w].chosen = TopOf(Searched(made))
        /\ \A v \in Validated(made) : \E t \in worker[w].chosen : t.number = v.of
        /\ \A u, v \in Validated(made) : u.of = v.of => u = v
    BY <2>2 DEF CompleteInv, Choosing
  <2> DEFINE next == Validated(made) \cup {trial}
  <2>10. \A v \in next : \E t \in worker[w].chosen : t.number = v.of
    BY <2>5, <2>6, <2>9
  <2>11. \A u, v \in next : u.of = v.of => u = v
    BY <2>5, <2>6, <2>9
  <2>12. Validated(worker'[w].made) = next /\ TopOf(Searched(worker'[w].made)) = worker'[w].chosen
    BY <2>7, <2>8, <2>9
  <2> HIDE DEF next
  <2> QED
    BY <2>7, <2>10, <2>11, <2>12 DEF Choosing
<1> QED
  BY <1>2, <1>3

\* An execution begins, and selects its candidates when the search has ended.
LEMMA SelectCompletes ==
  ASSUME NEW w \in Workers, CompleteInv(w), Begin(w) \/ Select(w)
  PROVE  Choosing(worker[w])' /\ Unfinished(w)' /\ SucceededIsComplete'
<1>1. /\ worker \in [Workers -> Process] /\ optimization \in [Runs -> Row] /\ TypeOK
      /\ trials \in [Runs -> SUBSET Trial]
  BY DEF CompleteInv, SoleInv, Typed, TypeOK
<1>2. Executes(w) /\ optimization[worker[w].job].status # "SUCCEEDED"
  BY DEF Begin, Select, Executes, CompleteInv, Unfinished
<1>3. worker[w] \in [at : {"claimed", "searching", "validating"}, job : Runs, attempt : Nat,
                     loaded : Statuses, made : SUBSET Trial, saved : SUBSET Trial,
                     best : Nat \cup {Nobody}, stored : Nat \cup {Nobody},
                     top : Scores \cup {0}, chosen : SUBSET Trial]
  BY <1>1, <1>2, Processes DEF Executes
<1> DEFINE o == worker[w].job
<1>4. CASE Begin(w)
  <2>1. worker'[w].at = "searching" /\ worker'[w].job = o
    BY <1>1, <1>3, <1>4 DEF Begin
  <2>2. /\ optimization' = [optimization EXCEPT ![o] = Cleared(@)]
        /\ \A i \in Runs \ {o} : trials'[i] = trials[i]
    BY <1>1, <1>4 DEF Begin
  <2>3. optimization'[o].status # "SUCCEEDED"
    BY <1>1, <1>2, <1>3, <2>2 DEF Cleared, Row
  <2>4. SucceededIsComplete'
    <3>1. \A i \in Runs \ {o} : optimization'[i] = optimization[i]
      BY <1>1, <2>2
    <3>2. \A i \in Runs : optimization'[i].status = "SUCCEEDED" =>
            optimization'[i] = optimization[i] /\ trials'[i] = trials[i]
      BY <2>2, <2>3, <3>1
    <3> QED
      BY <3>2, KeepsComplete DEF CompleteInv
  <2> QED
    BY <2>1, <2>3, <2>4 DEF Choosing, Unfinished
<1>5. CASE Select(w)
  <2> DEFINE made == worker[w].made
             chosen == TopOf(Searched(trials[o] \cup made))
             p == [worker[w] EXCEPT !.at = "validating", !.saved = made,
                                    !.stored = worker[w].best, !.top = 0, !.chosen = chosen]
  <2>1. PICK best, total : Save(w, made, best, total)
    BY <1>5 DEF Select
  <2>2. worker' = [worker EXCEPT ![w] = p]
    BY <1>5 DEF Select
  <2>3. worker'[w] = p
    BY <1>1, <2>2
  <2>4. Active(w) /\ worker[w].at = "searching"
    BY <1>5 DEF Select, Active
  <2>5. trials[o] \subseteq made /\ \A t \in made : t.number < Trials /\ t.number \in Nat
    <3>1. /\ Leading(worker[w]) /\ Stored(worker[w], optimization[o], trials[o])
          /\ made \in SUBSET Trial
      BY <2>4, ActiveFacts DEF CompleteInv
    <3> QED
      BY <2>4, <3>1 DEF Leading, Stored, Trial
  <2>6. trials[o] \cup made = made
    BY <2>5
  <2>7. Validated(made) = {}
    BY <2>5, Numbers DEF Validated
  <2> HIDE DEF chosen
  <2>8. p.at = "validating" /\ p.job = o /\ p.made = made /\ p.chosen = chosen
    BY <1>3
  <2>9. p.chosen = TopOf(Searched(p.made))
    BY <2>6, <2>8 DEF chosen
  <2> HIDE DEF p
  <2>10. Choosing(p)
    BY <2>7, <2>8, <2>9 DEF Choosing
  <2>11. optimization'[o].status # "SUCCEEDED" /\ SucceededIsComplete'
    BY <1>2, <2>1, CommitCompletes
  <2> QED
    BY <2>3, <2>8, <2>10, <2>11 DEF Unfinished
<1> QED
  BY <1>4, <1>5

\* What a process has made when it has validated every candidate is complete.
LEMMA ValidatedComplete ==
  ASSUME NEW w \in Workers, CompleteInv(w), worker[w].at = "validating", Waiting(w) = {},
         Succeeded(Validated(worker[w].made)) # {}, NEW row,
         row.best = worker[w].best, row.summary = CountsOf(worker[w].made),
         row.completed = Cardinality(worker[w].made), row.total = Total(w)
  PROVE  Complete(worker[w].made, row)
<1> DEFINE p == worker[w]
           R == p.made
           V == Validated(R)
           found == Succeeded(Searched(R))
           of == {t.of : t \in V}
           f == [t \in V |-> t.of]
<1>1. /\ R \in SUBSET Trial /\ IsFiniteSet(R) /\ Making(p) /\ Leading(p)
      /\ p.chosen \in SUBSET Trial
  BY ActiveFacts DEF CompleteInv, Active
<1>2. /\ IsFiniteSet(V) /\ IsFiniteSet(found) /\ Cardinality(V) \in Nat
      /\ Cardinality(R) \in Nat
  BY <1>1, Parts
<1>3. /\ Cardinality(R) = Trials + Cardinality(V)
      /\ Leads(p.best, p.top, Succeeded(V))
  BY <1>1 DEF Leading
<1>4. /\ p.chosen = TopOf(Searched(R))
      /\ \A v \in V : \E t \in p.chosen : t.number = v.of
      /\ \A u, v \in V : u.of = v.of => u = v
  BY DEF CompleteInv, Choosing
<1>5. Distinct(R) /\ {t.number : t \in R} = 0 .. Cardinality(R) - 1
  BY <1>1, NumberedDistinct DEF Making, Numbered
<1>6. {t.number : t \in Searched(R)} = 0 .. Trials - 1
  <2>1. \A t \in R : t.number \in Nat
    BY <1>1 DEF Trial
  <2>2. ASSUME NEW k \in 0 .. Trials - 1 PROVE \E t \in R : t.number = k /\ t.number < Trials
    <3>1. k \in 0 .. Cardinality(R) - 1 /\ k < Trials
      BY <1>2, <1>3, Numbers
    <3> QED
      BY <1>5, <3>1
  <2>3. \A n \in Nat : n < Trials => n \in 0 .. Trials - 1
    BY Numbers
  <2> QED
    BY <2>1, <2>2, <2>3 DEF Searched
<1>7. p.chosen = {t \in found : Cardinality(Ahead(t, found)) < CandidateLimit}
  BY <1>4 DEF TopOf, Ahead
<1>8. found \in SUBSET Trial /\ found \subseteq R /\ Distinct(found) /\ p.chosen \subseteq found
  BY <1>1, <1>5, <1>7 DEF Succeeded, Searched, Distinct
<1>9. of = {t.number : t \in p.chosen}
  BY <1>4 DEF Waiting
<1>10. Cardinality(of) = Cardinality(V)
  <2>1. f \in Surjection(V, of) /\ f \in Injection(V, of)
    BY <1>4 DEF Surjection, Injection, IsInjective
  <2> HIDE DEF f, of, V
  <2> QED
    BY <1>2, <2>1, FS_Surjection
<1>11. Cardinality(of) = Cardinality(p.chosen) /\ Cardinality(p.chosen) \in Nat
  <2>1. IsFiniteSet(p.chosen)
    BY <1>2, <1>8, FS_Subset
  <2>2. Distinct(p.chosen)
    BY <1>8 DEF Distinct
  <2> HIDE DEF of, p
  <2> QED
    BY <1>1, <1>9, <2>1, <2>2, DistinctNumbers, FS_CardinalityType
<1>12. Cardinality(of) = CandidateLimit \/ Cardinality(of) = Cardinality(found)
  <2> HIDE DEF of, found, p
  <2> QED
    BY <1>2, <1>7, <1>8, <1>11, TopSize, Numbers
<1>13. ASSUME NEW s \in found, NEW t \in found, s.number \notin of, t.number \in of
       PROVE  t.score >= s.score
  <2>1. s \notin p.chosen /\ t \in p.chosen
    BY <1>8, <1>9, <1>13 DEF Distinct
  <2>2. /\ ~ (Cardinality(Ahead(s, found)) < CandidateLimit)
        /\ Cardinality(Ahead(t, found)) < CandidateLimit
    BY <1>7, <2>1
  <2>3. Cardinality(Ahead(s, found)) \in Nat /\ Cardinality(Ahead(t, found)) \in Nat
    <3>1. Ahead(s, found) \in SUBSET found /\ Ahead(t, found) \in SUBSET found
      BY DEF Ahead
    <3> QED
      BY <1>2, <3>1, FS_Subset, FS_CardinalityType
  <2>4. ~ Before(s, t)
    <3> HIDE DEF found
    <3> QED
      BY <1>2, <1>8, <2>2, <2>3, AheadOrder, Numbers
  <2>5. s.score \in Nat /\ t.score \in Nat
    BY <1>8, Numbers DEF Trial
  <2> QED
    BY <2>4, <2>5 DEF Before
<1>14. row.best >= Trials
  <2>1. PICK t \in V : t.number = p.best
    BY <1>3 DEF Leads, Succeeded
  <2> QED
    BY <2>1 DEF Validated
<1>15. of \subseteq {t.number : t \in found}
  BY <1>8, <1>9
<1>16. row.completed = row.total
  BY <1>3, <1>10, <1>11 DEF Total
<1> HIDE DEF found, of, V, R, p
<1> QED
  BY <1>6, <1>10, <1>12, <1>13, <1>14, <1>15, <1>16 DEF Complete, found, of, V, R, p

\* What the end of an execution writes.
LEMMA EndedRow ==
  ASSUME NEW row \in Row, NEW p, NEW status, NEW total
  PROVE  /\ EndRow(row, p, status, total).status = IF p.loaded = status THEN row.status ELSE status
         /\ EndRow(row, p, status, total).best = IF p.best = p.stored THEN row.best ELSE p.best
         /\ EndRow(row, p, status, total).summary = CountsOf(p.made)
         /\ EndRow(row, p, status, total).completed = Cardinality(p.made)
         /\ EndRow(row, p, status, total).total = total
<1> DEFINE written(b, n) == [row EXCEPT !.best = b, !.completed = n, !.total = total]
           ended(b, n, a, c) == [written(b, n) EXCEPT !.status = a, !.summary = c]
<1>1. \A b, n : written(b, n).status = row.status
  BY DEF Row
<1>2. \A b, n, a, c : /\ ended(b, n, a, c).best = b /\ ended(b, n, a, c).completed = n
                      /\ ended(b, n, a, c).status = a /\ ended(b, n, a, c).summary = c
                      /\ ended(b, n, a, c).total = total
  BY DEF Row
<1>3. EndRow(row, p, status, total) =
        ended(IF p.best = p.stored THEN row.best ELSE p.best, Cardinality(p.made),
              IF p.loaded = status THEN row.status ELSE status, CountsOf(p.made))
  BY <1>1 DEF EndRow, Committed
<1> HIDE DEF written, ended
<1> QED
  BY <1>2, <1>3

\* An execution that ends: cancelled, or with everything it had to store.
LEMMA EndCompletes ==
  ASSUME NEW w \in Workers, CompleteInv(w), EndCancelled(w) \/ Succeed(w)
  PROVE  Choosing(worker[w])' /\ Unfinished(w)' /\ SucceededIsComplete'
<1> DEFINE p == worker[w]
           o == p.job
           total == IF p.at = "searching" THEN Trials ELSE Total(w)
<1>1. Active(w)
  BY DEF EndCancelled, Succeed, Active
<1>2. PICK status \in {"CANCELLED", "SUCCEEDED"}, runStatus \in RunStatuses :
        /\ End(w, status, runStatus)
        /\ status = "CANCELLED" => optimization[o].status = "CANCEL_REQUESTED"
        /\ status = "SUCCEEDED" => Succeed(w)
  BY DEF EndCancelled, Succeed, CancelSeen, RunStatuses
<1>3. /\ optimization \in [Runs -> Row] /\ trials \in [Runs -> SUBSET Trial] /\ o \in Runs
      /\ worker \in [Workers -> Process] /\ optimization[o] \in Row
      /\ Stored(p, optimization[o], trials[o]) /\ SoleInv(w)
  BY <1>1, ActiveFacts DEF CompleteInv
<1>4. /\ trials' = [trials EXCEPT ![o] = @ \cup (p.made \ p.saved)]
      /\ optimization' = [optimization EXCEPT ![o] = EndRow(@, p, status, total)]
      /\ worker' = [worker EXCEPT ![w] = Resting("idle")]
  BY <1>2 DEF End
<1> HIDE DEF total
<1>5. /\ optimization'[o] = EndRow(optimization[o], p, status, total)
      /\ \A i \in Runs \ {o} : optimization'[i] = optimization[i] /\ trials'[i] = trials[i]
      /\ trials'[o] = p.made
  BY <1>3, <1>4 DEF Stored
<1>6. worker'[w].at = "idle"
  BY <1>3, <1>4 DEF Resting
<1>7. SucceededIsComplete'
  <2>1. CASE status = "CANCELLED"
    <3>1. optimization'[o].status # "SUCCEEDED"
      <4>1. optimization'[o].status = IF p.loaded = status THEN optimization[o].status ELSE status
        <5> HIDE DEF o, p
        <5> QED
          BY <1>3, <1>5, EndedRow
      <4> QED
        BY <1>2, <2>1, <4>1
    <3>2. \A i \in Runs : optimization'[i].status = "SUCCEEDED" =>
            optimization'[i] = optimization[i] /\ trials'[i] = trials[i]
      BY <1>5, <3>1
    <3> QED
      BY <3>2, KeepsComplete DEF CompleteInv
  <2>2. CASE status = "SUCCEEDED"
    <3>1. /\ p.at = "validating" /\ Waiting(w) = {} /\ Succeeded(Validated(p.made)) # {}
          /\ total = Total(w)
      BY <1>2, <2>2 DEF Succeed, total
    <3>2. /\ optimization'[o].best = IF p.best = p.stored THEN optimization[o].best ELSE p.best
          /\ optimization'[o].summary = CountsOf(p.made)
          /\ optimization'[o].completed = Cardinality(p.made)
          /\ optimization'[o].total = total
      <4> HIDE DEF o, p
      <4> QED
        BY <1>3, <1>5, EndedRow
    <3>3. optimization'[o].best = p.best
      BY <1>3, <3>2 DEF Stored
    <3>4. Complete(p.made, optimization'[o])
      BY <3>1, <3>2, <3>3, ValidatedComplete
    <3> QED
      BY <1>5, <3>4 DEF CompleteInv, SucceededIsComplete
  <2> QED
    BY <1>2, <2>1, <2>2
<1> QED
  BY <1>6, <1>7 DEF Choosing, Unfinished, Executes

\* Every step of a sole worker and of the users keeps what has succeeded complete.
LEMMA CompleteStep ==
  ASSUME NEW w, Workers = {w}, CompleteInv(w), [Next]_vars
  PROVE  CompleteInv(w)'
<1>1. w \in Workers /\ SoleInv(w)'
  BY SoleStep DEF CompleteInv
<1>2. CASE UNCHANGED vars
  <2>1. UNCHANGED <<optimization, trials, worker>>
    BY <1>2 DEF vars
  <2>2. Choosing(worker[w])' /\ Unfinished(w)'
    BY <2>1 DEF CompleteInv, Unfinished, Executes
  <2>3. SucceededIsComplete'
    BY <2>1, KeepsComplete DEF CompleteInv
  <2> QED
    BY <1>1, <2>2, <2>3 DEF CompleteInv
<1>3. CASE Next
  <2>1. Choosing(worker[w])' /\ Unfinished(w)' /\ SucceededIsComplete'
    BY <1>1, <1>3, UserCompletes, IdleCompletes, TrialCompletes, SelectCompletes, EndCompletes
       DEF Next
  <2> QED
    BY <1>1, <2>1 DEF CompleteInv
<1> QED
  BY <1>2, <1>3

\* With one worker, a run that has succeeded has stored every trial of the search and a
\* validation of each of the best ones, as many as the limit allows; its best candidate is
\* a validation, and its summary and its progress count what is stored.
THEOREM SucceededComplete ==
  ASSUME NEW w, Workers = {w}
  PROVE  Spec => []SucceededIsComplete
<1>1. ASSUME Init PROVE CompleteInv(w)
  <2>1. SoleInv(w) /\ worker[w].at \in {"idle", "down"}
    BY <1>1, SoleInit DEF Init, Resting
  <2>2. SucceededIsComplete
    BY <1>1 DEF Init, SucceededIsComplete, Absent
  <2> QED
    BY <2>1, <2>2 DEF CompleteInv, Choosing, Unfinished, Executes
<1>2. CompleteInv(w) /\ [Next]_vars => CompleteInv(w)'
  BY CompleteStep
<1>3. CompleteInv(w) => SucceededIsComplete
  BY DEF CompleteInv
<1> HIDE DEF CompleteInv
<1> QED
  BY <1>1, <1>2, <1>3, PTL DEF Spec

=============================================================================
