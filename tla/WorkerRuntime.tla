--------------------------- MODULE WorkerRuntime ---------------------------
(***************************************************************************)
(* The worker processes (index.ts, smrt-jobs.ts and deployed-runtime.ts of *)
(* apps/worker): how they start, seed the maintenance schedules, run jobs, *)
(* and stop, in the modes "runner", "smrt-once" and "enqueue".             *)
(*                                                                         *)
(* Every await of the code is a step of its own, so that two processes     *)
(* interleave and a process fails, is signalled or dies between any two.   *)
(* The job and schedule runners are of the framework: what is modelled of  *)
(* them is what the code here relies on.  A runner claims the pending jobs *)
(* of its queues, records how an attempt ends and reports the end of a job *)
(* to the process it runs in; jobs of a dead process are given to another; *)
(* a schedule that is not at its limit creates a job and counts it.        *)
(***************************************************************************)
EXTENDS Naturals, Integers, Sequences, FiniteSets

CONSTANTS
  Runner,       \* processes with WORKER_MODE=runner
  Once,         \* processes with WORKER_MODE=smrt-once
  Enqueuer,     \* processes with WORKER_MODE=enqueue
  Deployments,  \* which processes are up together, whether the web process
                \* submits report jobs, and a bound on what goes wrong:
                \* failures, crashes and cancellations
  Scheduling,   \* runners with WORKER_RUN_SCHEDULER
  Listening,    \* runners with WORKER_RUN_AGENT_QUEUE
  Seeding,      \* runners with WORKER_ENSURE_MAINTENANCE_SCHEDULES
  Methods,      \* the maintenance methods, in the order of the definitions
  Definition,   \* what a definition says: cron, timeout, arguments
  DefinedBy,    \* the definition a process was configured with
  Job,          \* ids of jobs
  MaxAttempts,  \* attempts of a job, 3 in the code
  None

Process == Runner \cup Once \cup Enqueuer
Method == {Methods[i] : i \in 1 .. Len(Methods)}

ASSUME WorkerRuntimeAssumption ==
  /\ IsFiniteSet(Process) /\ IsFiniteSet(Job)
  /\ Runner \cap Once = {} /\ Runner \cap Enqueuer = {} /\ Once \cap Enqueuer = {}
  /\ Deployments \subseteq [up : SUBSET Process, reports : BOOLEAN, faults : Nat]
  /\ Scheduling \subseteq Runner /\ Listening \subseteq Runner /\ Seeding \subseteq Runner
  /\ Methods \in Seq(Method) /\ Methods # << >> /\ DefinedBy \in [Process -> Definition]
  /\ MaxAttempts \in Nat \ {0}
  /\ None \notin Process \cup Method \cup Definition

VARIABLES
  deployment, \* the deployment
  schedule,   \* row of _smrt_agent_schedules, by the method its slug is made of
  job,        \* rows of _smrt_jobs
  proc,       \* the processes
  news,       \* ends of jobs a runner has recorded and not reported yet
  faults,     \* failures so far
  skew        \* history: by how much saves have changed the count of a schedule

vars == <<deployment, schedule, job, proc, news, faults, skew>>

NoRow == [def |-> None, running |-> 0]
RowState == [def : Definition, running : Int] \cup {NoRow}

Ended == {"completed", "failed", "cancelled"}
NoJob == [status |-> "none", queue |-> "starter-maintenance", owner |-> None,
          row |-> None, attempts |-> 0]
JobState == [status : {"none", "pending", "running"} \cup Ended,
             queue : {"starter-maintenance", "agents", "reports"},
             owner : Process \cup {None}, row : Method \cup {None},
             attempts : 0 .. MaxAttempts]

\* What a process holds, and where it is.  A one-shot run has a runtime of
\* its own (outer) around the one of the worker it starts (db).
Starting == {"boot", "list", "seed", "startScheduler", "startRunner"}
Stopping == {"stopScheduler", "stopRunner", "close"}
ProcState ==
  [pc : {"down", "enqueue", "up", "return", "exited"} \cup Starting \cup Stopping,
   outer : BOOLEAN, db : BOOLEAN, handlers : BOOLEAN,
   scheduler : BOOLEAN, runner : BOOLEAN,
   view : [Method -> RowState],     \* the schedules as listed
   todo : Seq(Method),              \* definitions or requests left
   mine : SUBSET Job,               \* jobs this run enqueued
   bad : SUBSET Job,                \* jobs of it its runner reported failed
   started : BOOLEAN,               \* the worker of a one-shot run has come up
   unstopped : BOOLEAN,             \* a component of it failed to stop
   abandoned : BOOLEAN,             \* it threw before anything could release
   erred : BOOLEAN]                 \* an error is being thrown
Fresh == [pc |-> "down", outer |-> FALSE, db |-> FALSE, handlers |-> FALSE,
          scheduler |-> FALSE, runner |-> FALSE, view |-> [m \in Method |-> NoRow],
          todo |-> << >>, mine |-> {}, bad |-> {},
          started |-> FALSE, unstopped |-> FALSE, abandoned |-> FALSE, erred |-> FALSE]

TypeOK ==
  /\ deployment \in Deployments
  /\ schedule \in [Method -> RowState]
  /\ job \in [Job -> JobState]
  /\ proc \in [Process -> ProcState]
  /\ news \subseteq Process \X Job
  /\ faults \in 0 .. deployment.faults
  /\ skew \in [Method -> Int]

Init ==
  /\ deployment \in Deployments
  /\ schedule = [m \in Method |-> NoRow]
  /\ job = [j \in Job |-> NoJob]
  /\ proc = [p \in Process |-> Fresh]
  /\ news = {} /\ faults = 0 /\ skew = [m \in Method |-> 0]

-----------------------------------------------------------------------------
deployed == deployment.up
Alive(p) == p \in deployed /\ proc[p].pc # "exited"
At(p, pc) == p \in deployed /\ proc[p].pc = pc
Goto(p, pc) == proc' = [proc EXCEPT ![p].pc = pc]
Become(p, s) == proc' = [proc EXCEPT ![p] = s]
Fault == faults < deployment.faults /\ faults' = faults + 1

Used == {m \in Method : schedule[m] # NoRow}
Live(j) == job[j].status \in {"pending", "running"}
RunBy(p) == {j \in Job : job[j].status = "running" /\ job[j].owner = p}

\* resolveTaskRunnerQueues: reports always, agents with a scheduler or on request
Queues(p) ==
  {"starter-maintenance", "reports"}
    \cup (IF p \in Listening \cup Scheduling THEN {"agents"} ELSE {})

\* An error in the worker runtime: whatever it holds is released, in the
\* order of a stop, and the error is thrown again.
Throw(p) == Become(p, [proc[p] EXCEPT !.pc = "stopScheduler", !.handlers = FALSE,
                       !.view = Fresh.view, !.todo = << >>, !.erred = TRUE])

-----------------------------------------------------------------------------
(* Starting: startSmrtWorkerRuntime, ensureStarterMaintenanceSchedules     *)

\* main(), by WORKER_MODE.  A one-shot run or an enqueuing process opens the
\* database and enqueues first.
Launch(p) ==
  /\ At(p, "down")
  /\ Become(p, IF p \in Runner THEN [Fresh EXCEPT !.pc = "boot"]
               ELSE [Fresh EXCEPT !.pc = "enqueue", !.outer = TRUE, !.todo = Methods])
  /\ UNCHANGED <<deployment, schedule, job, news, faults, skew>>

\* The task worker is created, and the schedule worker where there is to be
\* one, which is started first.
FirstRunner(p) == IF p \in Scheduling THEN "startScheduler" ELSE "startRunner"

\* initializeWorkerDeployedRuntime, and both report handlers registered.
Boot(p) ==
  /\ At(p, "boot")
  /\ Become(p, [proc[p] EXCEPT
       !.pc = IF p \in Seeding THEN "list" ELSE FirstRunner(p),
       !.db = TRUE, !.handlers = TRUE])
  /\ UNCHANGED <<deployment, schedule, job, news, faults, skew>>

\* A provider is not ready: nothing is held yet, and the run throws.
BootFails(p) ==
  /\ At(p, "boot") /\ Fault
  /\ Become(p, [proc[p] EXCEPT !.pc = "return", !.erred = TRUE])
  /\ UNCHANGED <<deployment, schedule, job, news, skew>>

\* The runtime is up, and a report handler refuses the configuration: a key is
\* missing or too short, perhaps after the other handler was registered.  The
\* run throws from outside its try, and what it holds nobody releases.
RegistrationFails(p) ==
  /\ At(p, "boot") /\ Fault
  /\ \E registered \in BOOLEAN :
       Become(p, [proc[p] EXCEPT !.pc = "return", !.db = TRUE, !.handlers = registered,
                                 !.abandoned = TRUE, !.erred = TRUE])
  /\ UNCHANGED <<deployment, schedule, job, news, skew>>

List(p) ==
  /\ At(p, "list")
  /\ Become(p, [proc[p] EXCEPT !.pc = "seed", !.view = schedule, !.todo = Methods])
  /\ UNCHANGED <<deployment, schedule, job, news, faults, skew>>

Seeded(p) ==
  Become(p, IF Len(proc[p].todo) > 1 THEN [proc[p] EXCEPT !.todo = Tail(@)]
            ELSE [proc[p] EXCEPT !.pc = FirstRunner(p), !.todo = << >>,
                                 !.view = Fresh.view])
Current(p) == Head(proc[p].todo)
Listed(p) == proc[p].view[Current(p)]

\* store.create, with a slug made of the method: the database has one row of
\* a slug, and where another process was first the worker does not come up.
Create(p) ==
  /\ At(p, "seed") /\ Listed(p) = NoRow /\ Current(p) \notin Used
  /\ schedule' = [schedule EXCEPT ![Current(p)] = [def |-> DefinedBy[p], running |-> 0]]
  /\ Seeded(p)
  /\ UNCHANGED <<deployment, job, news, faults, skew>>

\* Mutant: a refused insert is tried again with the list as it was.
CreateRetried(p) ==
  /\ At(p, "seed") /\ Listed(p) = NoRow /\ Current(p) \in Used
  /\ UNCHANGED vars

CreateRefused(p) ==
  /\ At(p, "seed") /\ Listed(p) = NoRow /\ Current(p) \in Used
  /\ Throw(p)
  /\ UNCHANGED <<deployment, schedule, job, news, faults, skew>>

\* applyScheduleDefinition: the row as read, with the definition applied
Applied(p) ==
  [def |-> DefinedBy[p],
   running |-> IF Listed(p).running < 0 THEN 0 ELSE Listed(p).running]

Keep(p) ==
  /\ At(p, "seed") /\ Applied(p) = Listed(p)
  /\ Seeded(p)
  /\ UNCHANGED <<deployment, schedule, job, news, faults, skew>>

\* save() writes every column back as it was read or applied, the count too.
Save(p) ==
  /\ At(p, "seed") /\ Listed(p) # NoRow /\ Applied(p) # Listed(p)
  /\ schedule' = [schedule EXCEPT ![Current(p)] = Applied(p)]
  /\ skew' = [skew EXCEPT ![Current(p)] =
                @ + Applied(p).running - schedule[Current(p)].running]
  /\ Seeded(p)
  /\ UNCHANGED <<deployment, job, news, faults>>

StartScheduler(p) ==
  /\ At(p, "startScheduler")
  /\ Become(p, [proc[p] EXCEPT !.pc = "startRunner", !.scheduler = TRUE])
  /\ UNCHANGED <<deployment, schedule, job, news, faults, skew>>

StartRunner(p) ==
  /\ At(p, "startRunner")
  /\ Become(p, [proc[p] EXCEPT !.pc = "up", !.runner = TRUE,
                           !.started = p \in Once])
  /\ UNCHANGED <<deployment, schedule, job, news, faults, skew>>

\* Mutant: the error is thrown without releasing what was started.
StartAborts(p) ==
  /\ p \in deployed /\ proc[p].pc \in Starting \ {"boot"} /\ Fault
  /\ Become(p, [proc[p] EXCEPT !.pc = "return", !.view = Fresh.view, !.erred = TRUE])
  /\ UNCHANGED <<deployment, schedule, job, news, skew>>

StartFails(p) ==
  /\ p \in deployed /\ proc[p].pc \in Starting \ {"boot"} /\ Fault
  /\ Throw(p)
  /\ UNCHANGED <<deployment, schedule, job, news, skew>>

-----------------------------------------------------------------------------
(* Stopping: stopSmrtWorkerRuntimeComponents and the callers of stop()     *)

\* SIGTERM or SIGINT of a runner, heard once
Signal(p) ==
  /\ At(p, "up") /\ p \in Runner
  /\ Become(p, [proc[p] EXCEPT !.pc = "stopScheduler", !.handlers = FALSE])
  /\ UNCHANGED <<deployment, schedule, job, news, faults, skew>>

\* Each component is stopped even where the one before it failed to.
StopComponents(p) ==
  /\ \E fails \in BOOLEAN :
       /\ IF fails THEN Fault ELSE UNCHANGED faults
       /\ LET s == [proc[p] EXCEPT !.erred = @ \/ fails, !.unstopped = @ \/ fails] IN
          \/ /\ At(p, "stopScheduler")
             /\ Become(p, [s EXCEPT !.pc = "stopRunner", !.scheduler = @ /\ fails])
          \/ /\ At(p, "stopRunner")
             /\ Become(p, [s EXCEPT !.pc = "close", !.runner = @ /\ fails])
          \/ /\ At(p, "close")
             /\ Become(p, [s EXCEPT !.pc = "return", !.db = @ /\ fails])
  /\ UNCHANGED <<deployment, schedule, job, news, skew>>

\* What is lost with a process: its events, and the jobs it was running.
Gone(p) ==
  /\ news' = {n \in news : n[1] # p}
  /\ job' = [j \in Job |-> IF j \in RunBy(p) THEN [job[j] EXCEPT !.owner = None] ELSE job[j]]

\* main() returns or throws and the process exits.  The deployment starts a
\* runner again.  The finally block of a one-shot run closes its own
\* runtime, unless stopping the worker threw.
Exit(p) ==
  /\ At(p, "return")
  /\ Become(p, IF p \in Runner THEN Fresh
               ELSE [proc[p] EXCEPT !.pc = "exited",
                       !.outer = @ /\ proc[p].started /\ proc[p].unstopped])
  /\ Gone(p)
  /\ UNCHANGED <<deployment, schedule, faults, skew>>

Crash(p) ==
  /\ Alive(p) /\ proc[p].pc # "down" /\ Fault
  /\ Become(p, IF p \in Runner THEN Fresh
               ELSE [Fresh EXCEPT !.pc = "exited", !.erred = TRUE])
  /\ Gone(p)
  /\ UNCHANGED <<deployment, schedule, skew>>

-----------------------------------------------------------------------------
(* One-shot runs: enqueueMaintenanceJobs and runQueuedMaintenanceJobsOnce  *)

New(queue, row) == [NoJob EXCEPT !.status = "pending", !.queue = queue, !.row = row]
Unused == {j \in Job : job[j].status = "none"}
NextJob == CHOOSE j \in Unused : TRUE

\* One job per definition, each with its own insert; the ids are a bound.
Enqueue(p) ==
  /\ At(p, "enqueue") /\ proc[p].todo # << >> /\ Unused # {}
  /\ job' = [job EXCEPT ![NextJob] = New("starter-maintenance", None)]
  /\ Become(p, [proc[p] EXCEPT !.todo = Tail(@), !.mine = @ \cup {NextJob}])
  /\ UNCHANGED <<deployment, schedule, news, faults, skew>>

Enqueued(p) ==
  /\ At(p, "enqueue") /\ proc[p].todo = << >>
  /\ Goto(p, IF p \in Once THEN "boot" ELSE "return")
  /\ UNCHANGED <<deployment, schedule, job, news, faults, skew>>

\* what was enqueued before stays
EnqueueFails(p) ==
  /\ At(p, "enqueue") /\ Fault
  /\ Become(p, [proc[p] EXCEPT !.pc = "return", !.erred = TRUE])
  /\ UNCHANGED <<deployment, schedule, job, news, skew>>

\* Mutant: only the events of the own runner decide.
FinishedByEvents(p) ==
  /\ At(p, "up") /\ p \in Once
  /\ ~ \E j \in proc[p].mine : Live(j)
  /\ Become(p, [proc[p] EXCEPT !.pc = "stopScheduler", !.handlers = FALSE,
                               !.erred = proc[p].bad # {}])
  /\ UNCHANGED <<deployment, schedule, job, news, faults, skew>>

\* waitForJobIds sees none of the jobs pending or running; what it found and
\* what the runner reported decide.
Finished(p) ==
  /\ At(p, "up") /\ p \in Once
  /\ ~ \E j \in proc[p].mine : Live(j)
  /\ Become(p, [proc[p] EXCEPT !.pc = "stopScheduler", !.handlers = FALSE,
       !.erred = proc[p].bad # {} \/ \E j \in proc[p].mine : job[j].status = "failed"])
  /\ UNCHANGED <<deployment, schedule, job, news, faults, skew>>

TimesOut(p) ==
  /\ At(p, "up") /\ p \in Once
  /\ Throw(p)
  /\ UNCHANGED <<deployment, schedule, job, news, faults, skew>>

-----------------------------------------------------------------------------
(* The runners of the framework, and what wireTaskRunner does on events    *)

\* ids are kept back for the processes that enqueue
Spare == Cardinality(Unused) > Len(Methods) * Cardinality(deployed \cap (Once \cup Enqueuer))

\* Mutant: a schedule at its limit is triggered again.
TriggerAlways(p, m) ==
  /\ Alive(p) /\ proc[p].scheduler /\ proc[p].db /\ Spare
  /\ m \in Used
  /\ schedule' = [schedule EXCEPT ![m].running = @ + 1]
  /\ job' = [job EXCEPT ![NextJob] = New("agents", m)]
  /\ UNCHANGED <<deployment, proc, news, faults, skew>>

Trigger(p, m) ==
  /\ Alive(p) /\ proc[p].scheduler /\ proc[p].db /\ Spare
  /\ m \in Used /\ schedule[m].running < 1
  /\ schedule' = [schedule EXCEPT ![m].running = @ + 1]
  /\ job' = [job EXCEPT ![NextJob] = New("agents", m)]
  /\ UNCHANGED <<deployment, proc, news, faults, skew>>

\* the web process enqueues a report job
Submit ==
  /\ Spare /\ deployment.reports
  /\ job' = [job EXCEPT ![NextJob] = New("reports", None)]
  /\ UNCHANGED <<deployment, schedule, proc, news, faults, skew>>

Cancel(j) ==
  /\ job[j].status = "pending" /\ Fault
  /\ job' = [job EXCEPT ![j].status = "cancelled"]
  /\ UNCHANGED <<deployment, schedule, proc, news, skew>>

Claim(p, j) ==
  /\ Alive(p) /\ proc[p].runner /\ proc[p].db
  /\ job[j].status = "pending" /\ job[j].queue \in Queues(p)
  /\ job' = [job EXCEPT ![j].status = "running", ![j].owner = p, ![j].attempts = @ + 1]
  /\ UNCHANGED <<deployment, schedule, proc, news, faults, skew>>

\* A report job needs the handlers of its process.
Completes(p, j) ==
  /\ j \in RunBy(p) /\ proc[p].db
  /\ job[j].queue = "reports" => proc[p].handlers
  /\ job' = [job EXCEPT ![j].status = "completed"]
  /\ news' = news \cup {<<p, j>>}
  /\ UNCHANGED <<deployment, schedule, proc, faults, skew>>

\* Mutant: a retried attempt is counted down like a failed job.
FailsAndCounts(p, j) ==
  /\ j \in RunBy(p) /\ proc[p].db
  /\ job' = [job EXCEPT ![j].status =
       IF job[j].attempts < MaxAttempts THEN "pending" ELSE "failed", ![j].owner = None]
  /\ IF job[j].row # None /\ p \in Scheduling
     THEN schedule' = [schedule EXCEPT ![job[j].row].running = @ - 1]
     ELSE UNCHANGED schedule
  /\ UNCHANGED <<deployment, proc, news, faults, skew>>

Fails(p, j) ==
  /\ j \in RunBy(p) /\ proc[p].db
  /\ IF job[j].attempts < MaxAttempts
     THEN /\ job' = [job EXCEPT ![j].status = "pending", ![j].owner = None]
          /\ UNCHANGED news
     ELSE /\ job' = [job EXCEPT ![j].status = "failed"]
          /\ news' = news \cup {<<p, j>>}
  /\ UNCHANGED <<deployment, schedule, proc, faults, skew>>

\* the process of a running job is gone, and another notices
Recover(j) ==
  /\ job[j].status = "running" /\ job[j].owner = None
  /\ \E p \in deployed : Alive(p) /\ proc[p].runner /\ proc[p].db
  /\ job' = [job EXCEPT ![j].status =
       IF job[j].attempts < MaxAttempts THEN "pending" ELSE "failed"]
  /\ UNCHANGED <<deployment, schedule, proc, news, faults, skew>>

\* job:completed and job:failed: the callbacks of a one-shot run, and the
\* count of the schedule, if this process has a schedule runner and its
\* update goes through; a lost one is only logged.
Report(p, j) ==
  /\ <<p, j>> \in news
  /\ news' = news \ {<<p, j>>}
  /\ proc' = IF j \in proc[p].mine /\ job[j].status = "failed"
             THEN [proc EXCEPT ![p].bad = @ \cup {j}] ELSE proc
  /\ \/ /\ job[j].row # None /\ p \in Scheduling /\ proc[p].db
        /\ schedule' = [schedule EXCEPT ![job[j].row].running = @ - 1]
        /\ UNCHANGED faults
     \/ /\ job[j].row # None /\ p \in Scheduling
        /\ Fault /\ UNCHANGED schedule
     \/ /\ job[j].row = None \/ p \notin Scheduling \/ ~proc[p].db
        /\ UNCHANGED <<schedule, faults>>
  /\ UNCHANGED <<deployment, job, skew>>

-----------------------------------------------------------------------------
Start(p) ==
  \/ Launch(p) \/ Boot(p) \/ List(p) \/ Create(p) \/ CreateRefused(p)
  \/ Keep(p) \/ Save(p) \/ StartScheduler(p) \/ StartRunner(p)

RunOnce(p) == Enqueue(p) \/ Enqueued(p) \/ Finished(p) \/ TimesOut(p)
Stop(p) == StopComponents(p) \/ Exit(p)
Trouble(p) ==
  BootFails(p) \/ RegistrationFails(p) \/ StartFails(p) \/ EnqueueFails(p) \/ Crash(p)

Work(p, j) == Claim(p, j) \/ Completes(p, j) \/ Fails(p, j) \/ Report(p, j)

Next ==
  \/ \E p \in Process : Start(p) \/ RunOnce(p) \/ Signal(p) \/ Stop(p) \/ Trouble(p)
  \/ \E p \in Process, j \in Job : Work(p, j)
  \/ \E p \in Process, m \in Method : Trigger(p, m)
  \/ \E j \in Job : Cancel(j) \/ Recover(j)
  \/ Submit

Spec == Init /\ [][Next]_vars

\* A process that is up takes its next step, and its pod is started again;
\* nobody has to signal, submit or cancel.
Fairness == \A p \in Process : WF_vars(Start(p) \/ RunOnce(p) \/ Stop(p))

FairSpec == Spec /\ Fairness

-----------------------------------------------------------------------------
(* Properties                                                              *)

Scheduled(m) == {j \in Job : job[j].row = m}
LiveOf(m) == {j \in Scheduled(m) : Live(j)}
Unreported(m) == {j \in Scheduled(m) : \E p \in Process : <<p, j>> \in news}

\* running_count is at least the number of jobs of the schedule that are
\* under way or whose end is yet to be reported, but for what saves of the
\* seeding have added or taken away: no failure, crash, retry or recovery
\* counts a job down twice or before it is over.
CountCoversJobs ==
  \A m \in Method :
    schedule[m].running >= skew[m] + Cardinality(LiveOf(m) \cup Unreported(m))

\* The count covers the jobs; and, max_concurrent being 1, two jobs of one
\* schedule come to be under way only after a starting worker has put back an
\* old, lower count over what the schedule runners had counted since it listed
\* the row.
CountLimitsJobs ==
  [][/\ CountCoversJobs'
     /\ \A m \in Method :
          Cardinality(LiveOf(m)) <= 1 /\ Cardinality(LiveOf(m)') > 1 => skew[m] < 0]_vars

\* A runner or scheduler that polls has its database, unless stopping failed,
\* and a process that takes jobs has the handlers of report jobs unless it is
\* being stopped: they go before the runner does, and a report job claimed in
\* between spends an attempt.  A process that leaves, whatever failed and
\* where, has stopped its runners, unregistered its handlers and closed its
\* databases, with two exceptions: what itself failed to stop, without which
\* a one-shot run closes its own database too; and the database, with a
\* handler perhaps, of a process that never got beyond registering the
\* handlers, and so never polled.
LifecycleIsOrderly ==
  \A p \in Process :
    /\ (proc[p].runner \/ proc[p].scheduler) /\ ~proc[p].unstopped => proc[p].db
    /\ RunBy(p) # {} /\ ~proc[p].handlers => proc[p].pc \in Stopping \cup {"return"}
    /\ proc[p].pc = "return" /\ ~proc[p].unstopped /\ ~proc[p].abandoned =>
         ~proc[p].db /\ ~proc[p].handlers /\ ~proc[p].runner /\ ~proc[p].scheduler
    /\ proc[p].pc = "return" /\ proc[p].handlers => proc[p].abandoned
    /\ proc[p].abandoned =>
         /\ proc[p].pc \in {"return", "exited"} /\ proc[p].erred
         /\ ~proc[p].runner /\ ~proc[p].scheduler
    /\ proc[p].pc = "exited" /\ proc[p].outer => proc[p].started /\ proc[p].unstopped

\* A one-shot run that returns has enqueued every request, and each of its
\* jobs has completed or was cancelled, also where another worker ran it, a
\* crash interrupted it or its events were lost.
OneShotTruth ==
  \A p \in Once :
    proc[p].pc = "exited" /\ ~proc[p].erred =>
      /\ Cardinality(proc[p].mine) = Len(Methods)
      /\ \A j \in proc[p].mine : job[j].status \in {"completed", "cancelled"}

\* A runner comes up again and again, also the one whose schedules another
\* was first to create and the one that failed half-way; a one-shot run and an
\* enqueuing process end, whoever has their jobs.
ProcessesGetThere ==
  \A p \in Process :
    []<>(p \in deployed => proc[p].pc = IF p \in Runner THEN "up" ELSE "exited")
=============================================================================
