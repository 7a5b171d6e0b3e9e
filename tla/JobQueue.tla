------------------------------ MODULE JobQueue ------------------------------
(***************************************************************************)
(* The job pipeline of the backend: the scheduler process, which re-sends  *)
(* a message for every configured job and chain for ever (apps/scheduler), *)
(* the queue the messages travel through, and the worker processes, each   *)
(* of which runs a job unless the same job is already running in that      *)
(* process (apps/worker/job-handlers.ts).                                  *)
(*                                                                         *)
(* What a job does is left to the other modules: here it starts, and ends  *)
(* well or with an exception.                                              *)
(***************************************************************************)
EXTENDS Integers, Sequences

CONSTANTS
    Chains,       \* chain ids
    ChainIds,     \* the chains the deployment keeps, in the order of the loop
    JobNames,     \* names of worker jobs
    WorkerJobs,   \* WorkerJobs[c]: the jobs of c in configuration order (a name
                  \* may be listed twice: arbitrum.ts and base.ts do)
    Handled,      \* the job names the worker's switch has a case for
    Workers,      \* worker processes
    MaxVisible,   \* bound: copies of one message waiting in the queue
    MaxSkipping,  \* bound: requests of one message being skipped at once, per worker
    MaxRestarts   \* bound: process crashes in a behaviour

ASSUME ChainIdsAssumption ==
    /\ ChainIds \in Seq(Chains) \ {<<>>}
    /\ \A i, j \in 1 .. Len(ChainIds) : ChainIds[i] = ChainIds[j] => i = j

ASSUME WorkerJobsAssumption == WorkerJobs \in [Chains -> Seq(JobNames)]

ASSUME BoundsAssumption ==
    /\ MaxVisible \in Nat \ {0}
    /\ MaxSkipping \in Nat
    /\ MaxRestarts \in Nat

VARIABLES
    env,          \* is WORKER_QUEUE_URL set, is AWS_ALERTS 'true'
    schedulerPc,  \* where startSchedulerServer is in its loop over the chains
    chainAt,      \* the index in ChainIds the loop is at
    jobAt,        \* jobAt[c]: index of the job whose first send scheduleJobs(c) awaits
    timer,        \* timer[e]: the self re-arming sendWithInterval of entry e
    visible,      \* visible[e]: copies of e's message waiting in the queue
    runningJobs,  \* runningJobs[w]: the Set of the worker process w
    executing,    \* executing[w][e]: requests of w for e that await fn()
    reporting,    \* reporting[w][e]: requests of w for e that publish fn()'s outcome
    skipping,     \* skipping[w][e]: requests of w for e that publish a skip
    restarts      \* crashes so far

schedulerVars == <<schedulerPc, chainAt, jobAt, timer>>
workerVars    == <<runningJobs, executing, reporting, skipping>>
vars == <<env, schedulerVars, visible, workerVars, restarts>>

\* An entry is one line of a chain's workerJobs; entries that name the same job
\* of the same chain share a job id.
Entries == UNION {{<<c, i>> : i \in 1 .. Len(WorkerJobs[c])} : c \in Chains}
JobId(e) == <<e[1], WorkerJobs[e[1]][e[2]]>>
JobIds == {JobId(e) : e \in Entries}

Deployed(c) == \E i \in 1 .. Len(ChainIds) : ChainIds[i] = c
IsHandled(e) == JobId(e)[2] \in Handled

SchedulerPcs == {"loop", "alerts", "sleep", "done", "fatal"}
TimerStates  == {"unset", "sending", "armed"}

TypeOK ==
    /\ env \in [queueUrl : BOOLEAN, alerts : BOOLEAN]
    /\ schedulerPc \in SchedulerPcs
    /\ chainAt \in Nat \ {0}
    /\ jobAt \in [Chains -> Nat]
    /\ timer \in [Entries -> TimerStates]
    /\ visible \in [Entries -> Nat]
    /\ runningJobs \in [Workers -> SUBSET JobIds]
    /\ executing \in [Workers -> [Entries -> Nat]]
    /\ reporting \in [Workers -> [Entries -> Nat]]
    /\ skipping \in [Workers -> [Entries -> Nat]]
    /\ restarts \in Nat

Init ==
    /\ env \in [queueUrl : BOOLEAN, alerts : BOOLEAN]
    /\ schedulerPc = "loop"
    /\ chainAt = 1
    /\ jobAt = [c \in Chains |-> 0]
    /\ timer = [e \in Entries |-> "unset"]
    /\ visible = [e \in Entries |-> 0]
    /\ runningJobs = [w \in Workers |-> {}]
    /\ executing = [w \in Workers |-> [e \in Entries |-> 0]]
    /\ reporting = [w \in Workers |-> [e \in Entries |-> 0]]
    /\ skipping = [w \in Workers |-> [e \in Entries |-> 0]]
    /\ restarts = 0

-----------------------------------------------------------------------------
(***************************************************************************)
(* The scheduler.                                                          *)
(***************************************************************************)

\* startSchedulerServer reaches the next chain: scheduleJobs runs up to its first
\* await, the first send of the chain's first job.
StartChain ==
    /\ schedulerPc = "loop"
    /\ chainAt <= Len(ChainIds)
    /\ LET c == ChainIds[chainAt] IN
        /\ jobAt' = [jobAt EXCEPT ![c] = 1]
        /\ timer' = [e \in Entries |-> IF e = <<c, 1>> THEN "sending" ELSE timer[e]]
    /\ schedulerPc' = IF env.alerts THEN "alerts" ELSE "sleep"
    /\ UNCHANGED <<env, chainAt, visible, workerVars, restarts>>

\* createAlerts(chainId) returns ...
AlertsCreated ==
    /\ schedulerPc = "alerts"
    /\ schedulerPc' = "sleep"
    /\ UNCHANGED <<env, chainAt, jobAt, timer, visible, workerVars, restarts>>

\* ... or throws: the catch is around the loop, which is over.
AlertsFail ==
    /\ schedulerPc = "alerts"
    /\ schedulerPc' = "fatal"
    /\ UNCHANGED <<env, chainAt, jobAt, timer, visible, workerVars, restarts>>

SleepOver ==
    /\ schedulerPc = "sleep"
    /\ chainAt' = chainAt + 1
    /\ schedulerPc' = IF chainAt < Len(ChainIds) THEN "loop" ELSE "done"
    /\ UNCHANGED <<env, jobAt, timer, visible, workerVars, restarts>>

\* The finally block of sendWithInterval arms the timer of the next send; when
\* scheduleJobs was awaiting this send it goes on to the chain's next job.
Rearm(e) ==
    LET c == e[1]
        first == jobAt[c] = e[2]
    IN  /\ jobAt' = [jobAt EXCEPT ![c] = IF first THEN @ + 1 ELSE @]
        /\ timer' = [f \in Entries |->
                        IF f = e THEN "armed"
                        ELSE IF first /\ f = <<c, e[2] + 1>> THEN "sending"
                        ELSE timer[f]]

\* SendMessageCommand succeeds. (The queue holds any number of copies: beyond
\* MaxVisible another one adds no behaviour.)
SendMessage(e) ==
    /\ timer[e] = "sending"
    /\ env.queueUrl
    /\ visible' = [visible EXCEPT ![e] = IF @ < MaxVisible THEN @ + 1 ELSE @]
    /\ Rearm(e)
    /\ UNCHANGED <<env, schedulerPc, chainAt, workerVars, restarts>>

\* Mutant of SendNothing: the exception leaves sendWithInterval and ends the loop of
\* scheduleJobs.
SendNothingAborts(e) ==
    /\ timer[e] = "sending"
    /\ timer' = [timer EXCEPT ![e] = "armed"]
    /\ UNCHANGED <<env, schedulerPc, chainAt, jobAt, visible, workerVars, restarts>>

\* The send throws, or WORKER_QUEUE_URL is undefined: the catch and the early
\* return both lead to the finally block.
SendNothing(e) ==
    /\ timer[e] = "sending"
    /\ Rearm(e)
    /\ UNCHANGED <<env, schedulerPc, chainAt, visible, workerVars, restarts>>

TimerFires(e) ==
    /\ timer[e] = "armed"
    /\ timer' = [timer EXCEPT ![e] = "sending"]
    /\ UNCHANGED <<env, schedulerPc, chainAt, jobAt, visible, workerVars, restarts>>

\* The scheduler process dies and is started again; its timers were in memory.
SchedulerRestarts ==
    /\ restarts < MaxRestarts
    /\ restarts' = restarts + 1
    /\ schedulerPc' = "loop"
    /\ chainAt' = 1
    /\ jobAt' = [c \in Chains |-> 0]
    /\ timer' = [e \in Entries |-> "unset"]
    /\ UNCHANGED <<env, visible, workerVars>>

-----------------------------------------------------------------------------
(***************************************************************************)
(* The workers. The queue hands a copy of a message to one of them; the    *)
(* copy is deleted when the request is answered 200 and comes back when it *)
(* is not, or when the answer takes too long.                              *)
(***************************************************************************)

\* Mutant of SkipJob: without the return, the skipped request goes on to run the job.
SkipJobWithoutReturn(w, e) ==
    /\ visible[e] > 0
    /\ IsHandled(e)
    /\ JobId(e) \in runningJobs[w]
    /\ visible' = [visible EXCEPT ![e] = @ - 1]
    /\ executing' = [executing EXCEPT ![w][e] = @ + 1]
    /\ UNCHANGED <<env, schedulerVars, runningJobs, reporting, skipping, restarts>>

\* runIfNotAlreadyRunning finds the job in runningJobs and skips it.
SkipJob(w, e) ==
    /\ visible[e] > 0
    /\ IsHandled(e)
    /\ JobId(e) \in runningJobs[w]
    /\ env.alerts => skipping[w][e] < MaxSkipping
    /\ visible' = [visible EXCEPT ![e] = @ - 1]
    /\ skipping' = [skipping EXCEPT ![w][e] = IF env.alerts THEN @ + 1 ELSE @]
    /\ UNCHANGED <<env, schedulerVars, runningJobs, executing, reporting, restarts>>

\* The skip has been published; the request is answered 200.
SkipPublished(w, e) ==
    /\ skipping[w][e] > 0
    /\ skipping' = [skipping EXCEPT ![w][e] = @ - 1]
    /\ UNCHANGED <<env, schedulerVars, visible, runningJobs, executing, reporting, restarts>>

\* runIfNotAlreadyRunning adds the job to runningJobs and calls fn().
StartJob(w, e) ==
    /\ visible[e] > 0
    /\ IsHandled(e)
    /\ JobId(e) \notin runningJobs[w]
    /\ visible' = [visible EXCEPT ![e] = @ - 1]
    /\ runningJobs' = [runningJobs EXCEPT ![w] = @ \cup {JobId(e)}]
    /\ executing' = [executing EXCEPT ![w][e] = @ + 1]
    /\ UNCHANGED <<env, schedulerVars, reporting, skipping, restarts>>

\* The switch has no case for the name: 400, and the message comes back.
UnhandledJob(w, e) ==
    /\ visible[e] > 0
    /\ ~IsHandled(e)
    /\ UNCHANGED vars

\* fn() settles. The done or the error metrics are published first when alerts
\* are on; otherwise the finally block runs at once.
JobSettles(w, e) ==
    /\ executing[w][e] > 0
    /\ executing' = [executing EXCEPT ![w][e] = @ - 1]
    /\ IF env.alerts
       THEN /\ reporting' = [reporting EXCEPT ![w][e] = @ + 1]
            /\ UNCHANGED runningJobs
       ELSE /\ runningJobs' = [runningJobs EXCEPT ![w] = @ \ {JobId(e)}]
            /\ UNCHANGED reporting
    /\ UNCHANGED <<env, schedulerVars, visible, skipping, restarts>>

\* Mutant of JobReported: the catch block answers the request, and the finally block
\* answers it once more.
JobReportedTwice(w, e) ==
    /\ reporting[w][e] > 0
    /\ \E failed \in BOOLEAN :
        reporting' = [reporting EXCEPT ![w][e] = IF failed THEN @ - 2 ELSE @ - 1]
    /\ runningJobs' = [runningJobs EXCEPT ![w] = @ \ {JobId(e)}]
    /\ UNCHANGED <<env, schedulerVars, visible, executing, skipping, restarts>>

\* Mutant of JobReported: the job leaves runningJobs after a success only, at the
\* end of the try block.
JobReportedOnSuccess(w, e) ==
    /\ reporting[w][e] > 0
    /\ reporting' = [reporting EXCEPT ![w][e] = @ - 1]
    /\ \E failed \in BOOLEAN :
        runningJobs' = [runningJobs EXCEPT ![w] = IF failed THEN @ ELSE @ \ {JobId(e)}]
    /\ UNCHANGED <<env, schedulerVars, visible, executing, skipping, restarts>>

\* The finally block: the job leaves runningJobs and the request is answered 200.
JobReported(w, e) ==
    /\ reporting[w][e] > 0
    /\ reporting' = [reporting EXCEPT ![w][e] = @ - 1]
    /\ runningJobs' = [runningJobs EXCEPT ![w] = @ \ {JobId(e)}]
    /\ UNCHANGED <<env, schedulerVars, visible, executing, skipping, restarts>>

Requests(w, e) == executing[w][e] + reporting[w][e] + skipping[w][e]

\* A request is not answered in time: the queue shows its message again.
VisibilityTimeout(e) ==
    /\ \E w \in Workers : Requests(w, e) > 0
    /\ visible[e] < MaxVisible
    /\ visible' = [visible EXCEPT ![e] = @ + 1]
    /\ UNCHANGED <<env, schedulerVars, workerVars, restarts>>

\* A worker process dies: its Set and its requests are gone, and the messages it
\* had not answered are shown again.
WorkerRestarts(w) ==
    /\ restarts < MaxRestarts
    /\ restarts' = restarts + 1
    /\ visible' = [e \in Entries |->
                    IF visible[e] + Requests(w, e) < MaxVisible
                    THEN visible[e] + Requests(w, e) ELSE MaxVisible]
    /\ runningJobs' = [runningJobs EXCEPT ![w] = {}]
    /\ executing' = [executing EXCEPT ![w] = [e \in Entries |-> 0]]
    /\ reporting' = [reporting EXCEPT ![w] = [e \in Entries |-> 0]]
    /\ skipping' = [skipping EXCEPT ![w] = [e \in Entries |-> 0]]
    /\ UNCHANGED <<env, schedulerVars>>

-----------------------------------------------------------------------------
SchedulerLoop == StartChain \/ AlertsCreated \/ AlertsFail \/ SleepOver

Receive(w, e) == SkipJob(w, e) \/ StartJob(w, e) \/ UnhandledJob(w, e)

Next ==
    \/ StartChain
    \/ AlertsCreated
    \/ AlertsFail
    \/ SleepOver
    \/ SchedulerRestarts
    \/ \E e \in Entries :
        \/ SendMessage(e)
        \/ SendNothing(e)
        \/ TimerFires(e)
        \/ VisibilityTimeout(e)
        \/ \E w \in Workers :
            \/ SkipJob(w, e)
            \/ SkipPublished(w, e)
            \/ StartJob(w, e)
            \/ UnhandledJob(w, e)
            \/ JobSettles(w, e)
            \/ JobReported(w, e)
    \/ \E w \in Workers : WorkerRestarts(w)

(***************************************************************************)
(* Node runs what is ready: the loop, the timers and the awaits go on. The *)
(* queue hands out what it holds and accepts a message again and again     *)
(* unless it fails for ever; a job that is awaited settles.                *)
(***************************************************************************)
Fairness ==
    /\ WF_vars(SchedulerLoop)
    /\ \A e \in Entries :
        /\ WF_vars(SendMessage(e) \/ SendNothing(e))
        /\ SF_vars(SendMessage(e))
        /\ WF_vars(TimerFires(e))
        /\ WF_vars(\E w \in Workers : Receive(w, e))
        /\ \A w \in Workers :
            /\ WF_vars(JobSettles(w, e))
            /\ WF_vars(JobReported(w, e))
            /\ WF_vars(SkipPublished(w, e))

Spec == Init /\ [][Next]_vars /\ Fairness

-----------------------------------------------------------------------------
(***************************************************************************)
(* Properties.                                                             *)
(***************************************************************************)

\* Requests of w for e between runningJobs.add and runningJobs.delete.
Runs(w, e) == executing[w][e] + reporting[w][e]

\* In one worker process a job never runs twice at the same time, whichever copies
\* of whichever entry's message arrive while it runs, is skipped or reports: what
\* runIfNotAlreadyRunning is named for.
RunsExclusively ==
    \A w \in Workers : \A e \in Entries :
        /\ Runs(w, e) <= 1
        /\ \A f \in Entries \ {e} :
            JobId(f) = JobId(e) => Runs(w, e) = 0 \/ Runs(w, f) = 0

\* runningJobs holds exactly the jobs that are running: a job left behind would
\* never run again in this process, a job taken out too early would run twice.
LockMatchesRuns ==
    \A w \in Workers : runningJobs[w] = {JobId(e) : e \in {f \in Entries : Runs(w, f) > 0}}

\* Once its timer is set, a job is executed again and again, whatever sends and
\* executions fail, unless the scheduler process itself dies meanwhile.
KeepsRunning ==
    \A e \in Entries :
        IsHandled(e) =>
            (env.queueUrl /\ timer[e] # "unset")
                ~> \/ timer[e] = "unset"
                   \/ \E w \in Workers, f \in Entries : JobId(f) = JobId(e) /\ executing[w][f] > 0

\* Every entry of every deployed chain gets its timer, even when sends fail. The
\* exception is what the catch around the scheduler's loop costs: once creating the
\* alerts of a chain has thrown, the chains after it are never started.
AllJobsScheduled ==
    <>[](\A e \in Entries : Deployed(e[1]) =>
            timer[e] # "unset" \/ (schedulerPc = "fatal" /\ jobAt[e[1]] = 0))

=============================================================================
