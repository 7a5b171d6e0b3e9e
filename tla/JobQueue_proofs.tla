-------------------------- MODULE JobQueue_proofs --------------------------
(***************************************************************************)
(* For any chains, jobs (listed any number of times), number of worker     *)
(* processes and crashes: the worker's Set and the requests of its process *)
(* agree, and no process runs a job twice at the same time.                *)
(***************************************************************************)
EXTENDS JobQueue, TLAPS

LEMMA JobIdType == \A e \in Entries : JobId(e) \in JobIds
  BY DEF JobIds

LEMMA EntryType == \A e \in Entries : e[1] \in Chains /\ e[2] \in Nat
  BY DEF Entries

LEMMA ChainIdsType == \A i \in Nat \ {0} : i <= Len(ChainIds) => ChainIds[i] \in Chains
  BY ChainIdsAssumption

(* Counting one request of w for e more, or one less. *)
LEMMA CountUp ==
  ASSUME NEW f \in [Workers -> [Entries -> Nat]], NEW w \in Workers, NEW e \in Entries
  PROVE  [f EXCEPT ![w][e] = f[w][e] + 1] \in [Workers -> [Entries -> Nat]]
<1>1. f[w][e] + 1 \in Nat
  OBVIOUS
<1>2. QED
  BY <1>1

LEMMA CountDown ==
  ASSUME NEW f \in [Workers -> [Entries -> Nat]], NEW w \in Workers, NEW e \in Entries,
         f[w][e] > 0
  PROVE  [f EXCEPT ![w][e] = f[w][e] - 1] \in [Workers -> [Entries -> Nat]]
<1>1. f[w][e] - 1 \in Nat
  OBVIOUS
<1>2. QED
  BY <1>1

(* Every variable keeps its type: no counter of requests or of copies goes  *)
(* below zero, and the loops stay where the code can be.                    *)
THEOREM TypeCorrect == Spec => []TypeOK
<1>1. Init => TypeOK
  BY DEF Init, TypeOK, SchedulerPcs, TimerStates
<1>2. TypeOK /\ [Next]_vars => TypeOK'
  <2> SUFFICES ASSUME TypeOK, [Next]_vars PROVE TypeOK'
    OBVIOUS
  <2> USE DEF TypeOK, SchedulerPcs, TimerStates, schedulerVars, workerVars
  <2>1. CASE StartChain
    BY <2>1, ChainIdsType DEF StartChain
  <2>2. CASE AlertsCreated
    BY <2>2 DEF AlertsCreated
  <2>3. CASE AlertsFail
    BY <2>3 DEF AlertsFail
  <2>4. CASE SleepOver
    BY <2>4 DEF SleepOver
  <2>5. CASE SchedulerRestarts
    BY <2>5 DEF SchedulerRestarts
  <2>6. ASSUME NEW e \in Entries, SendMessage(e) PROVE TypeOK'
    BY <2>6, EntryType, BoundsAssumption DEF SendMessage, Rearm
  <2>7. ASSUME NEW e \in Entries, SendNothing(e) PROVE TypeOK'
    <3>1. timer' \in [Entries -> TimerStates]
      BY <2>7 DEF SendNothing, Rearm
    <3>2. jobAt' \in [Chains -> Nat]
      BY <2>7, EntryType DEF SendNothing, Rearm
    <3>3. QED
      BY <2>7, <3>1, <3>2 DEF SendNothing, Rearm
  <2>8. ASSUME NEW e \in Entries, TimerFires(e) PROVE TypeOK'
    BY <2>8 DEF TimerFires
  <2>9. ASSUME NEW e \in Entries, VisibilityTimeout(e) PROVE TypeOK'
    BY <2>9 DEF VisibilityTimeout
  <2>10. ASSUME NEW e \in Entries, NEW w \in Workers, SkipJob(w, e) PROVE TypeOK'
    <3>1. skipping' \in [Workers -> [Entries -> Nat]]
      <4>1. CASE env.alerts
        BY <2>10, <4>1, CountUp DEF SkipJob
      <4>2. CASE ~env.alerts
        BY <2>10, <4>2 DEF SkipJob
      <4>3. QED
        BY <4>1, <4>2
    <3>2. visible' \in [Entries -> Nat]
      <4>1. visible' = [visible EXCEPT ![e] = visible[e] - 1] /\ visible[e] > 0
        BY <2>10 DEF SkipJob
      <4>2. visible[e] - 1 \in Nat
        BY <4>1
      <4>3. QED
        BY <4>1, <4>2
    <3>3. QED
      BY <2>10, <3>1, <3>2 DEF SkipJob
  <2>11. ASSUME NEW e \in Entries, NEW w \in Workers, SkipPublished(w, e) PROVE TypeOK'
    BY <2>11, CountDown DEF SkipPublished
  <2>12. ASSUME NEW e \in Entries, NEW w \in Workers, StartJob(w, e) PROVE TypeOK'
    BY <2>12, JobIdType DEF StartJob
  <2>13. ASSUME NEW e \in Entries, NEW w \in Workers, UnhandledJob(w, e) PROVE TypeOK'
    BY <2>13 DEF UnhandledJob, vars
  <2>14. ASSUME NEW e \in Entries, NEW w \in Workers, JobSettles(w, e) PROVE TypeOK'
    <3>1. executing' \in [Workers -> [Entries -> Nat]]
      BY <2>14, CountDown DEF JobSettles
    <3>2. reporting' \in [Workers -> [Entries -> Nat]]
      <4>1. CASE env.alerts
        <5>1. reporting' = [reporting EXCEPT ![w][e] = reporting[w][e] + 1]
          BY <2>14, <4>1 DEF JobSettles
        <5>2. QED
          BY <5>1, CountUp
      <4>2. CASE ~env.alerts
        BY <2>14, <4>2 DEF JobSettles
      <4>3. QED
        BY <4>1, <4>2
    <3>3. runningJobs' \in [Workers -> SUBSET JobIds]
      <4>1. CASE env.alerts
        BY <2>14, <4>1 DEF JobSettles
      <4>2. CASE ~env.alerts
        <5>1. runningJobs' = [runningJobs EXCEPT ![w] = runningJobs[w] \ {JobId(e)}]
          BY <2>14, <4>2 DEF JobSettles
        <5>2. QED
          BY <5>1
      <4>3. QED
        BY <4>1, <4>2
    <3>4. QED
      BY <2>14, <3>1, <3>2, <3>3 DEF JobSettles
  <2>15. ASSUME NEW e \in Entries, NEW w \in Workers, JobReported(w, e) PROVE TypeOK'
    BY <2>15, CountDown DEF JobReported
  <2>16. ASSUME NEW w \in Workers, WorkerRestarts(w) PROVE TypeOK'
    <3>1. \A e \in Entries : Requests(w, e) \in Nat
      BY DEF Requests
    <3>2. visible' \in [Entries -> Nat]
      <4>1. MaxVisible \in Nat /\ \A e \in Entries : visible[e] + Requests(w, e) \in Nat
        BY <3>1, BoundsAssumption
      <4>2. visible' = [e \in Entries |->
                          IF visible[e] + Requests(w, e) < MaxVisible
                          THEN visible[e] + Requests(w, e) ELSE MaxVisible]
        BY <2>16 DEF WorkerRestarts
      <4>3. QED
        BY <4>1, <4>2
    <3>3. /\ executing' \in [Workers -> [Entries -> Nat]]
          /\ reporting' \in [Workers -> [Entries -> Nat]]
          /\ skipping' \in [Workers -> [Entries -> Nat]]
      BY <2>16 DEF WorkerRestarts
    <3>4. QED
      BY <2>16, <3>2, <3>3 DEF WorkerRestarts
  <2>17. CASE UNCHANGED vars
    BY <2>17 DEF vars
  <2>18. QED
    BY <2>1, <2>2, <2>3, <2>4, <2>5, <2>6, <2>7, <2>8, <2>9, <2>10, <2>11, <2>12, <2>13,
       <2>14, <2>15, <2>16, <2>17 DEF Next
<1>3. QED
  BY <1>1, <1>2, PTL DEF Spec

(* The counters the lock is about, read off TypeOK. *)
LEMMA RunsType ==
  TypeOK => \A w \in Workers, e \in Entries :
              /\ executing[w][e] \in Nat
              /\ reporting[w][e] \in Nat
              /\ Runs(w, e) \in Nat
BY DEF TypeOK, Runs

LockInv == RunsExclusively /\ LockMatchesRuns

(* A step that leaves the Set and the requests alone keeps the lock. *)
LEMMA LockUntouched ==
  ASSUME LockInv, UNCHANGED <<runningJobs, executing, reporting>>
  PROVE  LockInv'
BY DEF LockInv, RunsExclusively, LockMatchesRuns, Runs

(* What StartJob does to one process's counters. *)
LEMMA StartJobKeepsLock ==
  ASSUME TypeOK, LockInv, NEW w \in Workers, NEW e \in Entries, StartJob(w, e)
  PROVE  LockInv'
<1>1. \A v \in Workers, f \in Entries :
        Runs(v, f)' = IF v = w /\ f = e THEN Runs(w, e) + 1 ELSE Runs(v, f)
  <2>1. /\ executing \in [Workers -> [Entries -> Nat]]
        /\ executing' = [executing EXCEPT ![w][e] = executing[w][e] + 1]
        /\ reporting' = reporting
    BY DEF StartJob, TypeOK
  <2>2. ASSUME NEW v \in Workers, NEW f \in Entries
        PROVE  Runs(v, f)' = IF v = w /\ f = e THEN Runs(w, e) + 1 ELSE Runs(v, f)
    <3>1. /\ executing[w][e] \in Nat /\ executing[v][f] \in Nat
          /\ reporting[w][e] \in Nat /\ reporting[v][f] \in Nat
      BY RunsType
    <3>2. executing'[v][f] = IF v = w /\ f = e THEN executing[w][e] + 1 ELSE executing[v][f]
      BY <2>1
    <3>3. Runs(v, f)' = executing'[v][f] + reporting[v][f]
      BY <2>1 DEF Runs
    <3>4. CASE v = w /\ f = e
      <4>1. Runs(v, f)' = (executing[w][e] + 1) + reporting[w][e]
        BY <3>2, <3>3, <3>4
      <4>2. QED
        BY <3>1, <3>4, <4>1 DEF Runs
    <3>5. CASE ~(v = w /\ f = e)
      BY <3>2, <3>3, <3>5 DEF Runs
    <3>6. QED
      BY <3>4, <3>5
  <2>3. QED
    BY <2>2
<1>2. ASSUME NEW f \in Entries, JobId(f) = JobId(e) PROVE Runs(w, f) = 0
  <2>1. ~(Runs(w, f) > 0)
    BY <1>2 DEF LockInv, LockMatchesRuns, StartJob
  <2>2. QED
    BY <2>1, RunsType
<1>3. RunsExclusively'
  BY <1>1, <1>2, RunsType DEF LockInv, RunsExclusively
<1>4. \A v \in Workers :
        runningJobs'[v] = IF v = w THEN runningJobs[w] \cup {JobId(e)} ELSE runningJobs[v]
  BY DEF StartJob, TypeOK
<1>5. LockMatchesRuns'
  BY <1>1, <1>2, <1>4, RunsType DEF LockInv, LockMatchesRuns
<1>6. QED
  BY <1>3, <1>5 DEF LockInv

(* The request that leaves was the only one of its job: the job leaves the Set. *)
LEMMA EndJobKeepsLock ==
  ASSUME TypeOK, LockInv, NEW w \in Workers, NEW e \in Entries, Runs(w, e) > 0,
         \A v \in Workers, f \in Entries :
            Runs(v, f)' = IF v = w /\ f = e THEN Runs(w, e) - 1 ELSE Runs(v, f),
         runningJobs' = [runningJobs EXCEPT ![w] = @ \ {JobId(e)}]
  PROVE  LockInv'
<1>1. Runs(w, e) = 1 /\ \A f \in Entries \ {e} : JobId(f) = JobId(e) => Runs(w, f) = 0
  BY RunsType DEF LockInv, RunsExclusively
<1>2. RunsExclusively'
  BY <1>1, RunsType DEF LockInv, RunsExclusively
<1>3. \A v \in Workers :
        runningJobs'[v] = IF v = w THEN runningJobs[w] \ {JobId(e)} ELSE runningJobs[v]
  BY DEF TypeOK
<1>4. LockMatchesRuns'
  BY <1>1, <1>3, RunsType DEF LockInv, LockMatchesRuns
<1>5. QED
  BY <1>2, <1>4 DEF LockInv

LEMMA JobSettlesKeepsLock ==
  ASSUME TypeOK, LockInv, NEW w \in Workers, NEW e \in Entries, JobSettles(w, e)
  PROVE  LockInv'
<1>1. CASE env.alerts
  <2>1. \A v \in Workers, f \in Entries : Runs(v, f)' = Runs(v, f)
    BY <1>1 DEF JobSettles, Runs, TypeOK
  <2>2. runningJobs' = runningJobs
    BY <1>1 DEF JobSettles
  <2>3. QED
    BY <2>1, <2>2 DEF LockInv, RunsExclusively, LockMatchesRuns
<1>2. CASE ~env.alerts
  <2>1. \A v \in Workers, f \in Entries :
          Runs(v, f)' = IF v = w /\ f = e THEN Runs(w, e) - 1 ELSE Runs(v, f)
    BY <1>2 DEF JobSettles, Runs, TypeOK
  <2>2. Runs(w, e) > 0
    BY RunsType DEF JobSettles, Runs
  <2>3. runningJobs' = [runningJobs EXCEPT ![w] = @ \ {JobId(e)}]
    BY <1>2 DEF JobSettles
  <2>4. QED
    BY <2>1, <2>2, <2>3, EndJobKeepsLock
<1>3. QED
  BY <1>1, <1>2

LEMMA JobReportedKeepsLock ==
  ASSUME TypeOK, LockInv, NEW w \in Workers, NEW e \in Entries, JobReported(w, e)
  PROVE  LockInv'
<1>1. \A v \in Workers, f \in Entries :
        Runs(v, f)' = IF v = w /\ f = e THEN Runs(w, e) - 1 ELSE Runs(v, f)
  BY DEF JobReported, Runs, TypeOK
<1>2. Runs(w, e) > 0
  BY RunsType DEF JobReported, Runs
<1>3. runningJobs' = [runningJobs EXCEPT ![w] = @ \ {JobId(e)}]
  BY DEF JobReported
<1>4. QED
  BY <1>1, <1>2, <1>3, EndJobKeepsLock

LEMMA WorkerRestartsKeepsLock ==
  ASSUME TypeOK, LockInv, NEW w \in Workers, WorkerRestarts(w)
  PROVE  LockInv'
<1>1. \A v \in Workers, f \in Entries : Runs(v, f)' = IF v = w THEN 0 ELSE Runs(v, f)
  BY DEF WorkerRestarts, Runs, TypeOK
<1>2. \A v \in Workers : runningJobs'[v] = IF v = w THEN {} ELSE runningJobs[v]
  BY DEF WorkerRestarts, TypeOK
<1>3. QED
  BY <1>1, <1>2 DEF LockInv, RunsExclusively, LockMatchesRuns

(* In every reachable state of every deployment, a job's id is in the Set of a *)
(* process exactly while one request of that process runs it.                  *)
THEOREM LockCorrect == Spec => [](RunsExclusively /\ LockMatchesRuns)
<1>1. Init => LockInv
  BY DEF Init, LockInv, RunsExclusively, LockMatchesRuns, Runs
<1>2. TypeOK /\ LockInv /\ [Next]_vars => LockInv'
  <2> SUFFICES ASSUME TypeOK, LockInv, [Next]_vars PROVE LockInv'
    OBVIOUS
  <2>1. CASE StartChain \/ AlertsCreated \/ AlertsFail \/ SleepOver \/ SchedulerRestarts
    BY <2>1, LockUntouched
       DEF StartChain, AlertsCreated, AlertsFail, SleepOver, SchedulerRestarts, workerVars
  <2>2. ASSUME NEW e \in Entries,
               SendMessage(e) \/ SendNothing(e) \/ TimerFires(e) \/ VisibilityTimeout(e)
        PROVE  LockInv'
    BY <2>2, LockUntouched DEF SendMessage, SendNothing, TimerFires, VisibilityTimeout, workerVars
  <2>3. ASSUME NEW e \in Entries, NEW w \in Workers,
               SkipJob(w, e) \/ SkipPublished(w, e) \/ UnhandledJob(w, e)
        PROVE  LockInv'
    BY <2>3, LockUntouched DEF SkipJob, SkipPublished, UnhandledJob, vars, workerVars
  <2>4. ASSUME NEW e \in Entries, NEW w \in Workers, StartJob(w, e) PROVE LockInv'
    BY <2>4, StartJobKeepsLock
  <2>5. ASSUME NEW e \in Entries, NEW w \in Workers, JobSettles(w, e) PROVE LockInv'
    BY <2>5, JobSettlesKeepsLock
  <2>6. ASSUME NEW e \in Entries, NEW w \in Workers, JobReported(w, e) PROVE LockInv'
    BY <2>6, JobReportedKeepsLock
  <2>7. ASSUME NEW w \in Workers, WorkerRestarts(w) PROVE LockInv'
    BY <2>7, WorkerRestartsKeepsLock
  <2>8. CASE UNCHANGED vars
    BY <2>8, LockUntouched DEF vars, workerVars
  <2>9. QED
    BY <2>1, <2>2, <2>3, <2>4, <2>5, <2>6, <2>7, <2>8 DEF Next
<1>3. QED
  BY <1>1, <1>2, TypeCorrect, PTL DEF Spec, LockInv

(* The half of it that the runs name: an id is in the Set only while a request of  *)
(* that process runs the job, and is there whenever one does, so that a job that   *)
(* fails, or whose report is published after it, never stays locked.               *)
THEOREM LockMatchesRunsCorrect == Spec => []LockMatchesRuns
  BY LockCorrect, PTL
=============================================================================
