--------------------------- MODULE Worker_proofs ---------------------------
(***************************************************************************)
(* Proofs about the worker processes: for all sets of processes, jobs and  *)
(* maintenance methods, every deployment and any number of failures, what  *)
(* is held is released, a one-shot run that returns without an error has   *)
(* done what it was asked to do, and the count of a schedule covers its    *)
(* jobs.  And about the next run of a schedule (CronSchedule): the date    *)
(* found is the first that the code reads in the expression, and the first *)
(* of standard cron's dates, for every calendar, horizon and expression.   *)
(***************************************************************************)
EXTENDS WorkerRuntime, CronSchedule, FiniteSetTheorems, TLAPS

-----------------------------------------------------------------------------
(* The inductive invariant                                                 *)

\* Where a process may have jobs that run
Serving == {"up", "return"} \cup Stopping

\* What a process holds, by where it is: nothing before the runtime is up;
\* while it starts, what the steps so far have brought up; while it stops,
\* what is left, but for components that failed to stop.
Holds(s) ==
  /\ s.pc \in {"down", "enqueue", "boot"} =>
       /\ ~s.db /\ ~s.handlers /\ ~s.scheduler /\ ~s.runner
       /\ ~s.unstopped /\ ~s.erred /\ ~s.started
  /\ s.abandoned =>
       s.pc \in {"return", "exited"} /\ s.erred /\ ~s.runner /\ ~s.scheduler
  /\ s.pc \in Starting \ {"boot"} =>
       s.db /\ s.handlers /\ ~s.runner /\ ~s.unstopped /\ ~s.erred /\ ~s.started
  /\ s.pc \in {"list", "seed", "startScheduler"} => ~s.scheduler
  /\ s.pc = "up" => s.db /\ s.handlers /\ s.runner /\ ~s.unstopped /\ ~s.erred
Releases(s) ==
  /\ s.pc \in Stopping => s.db /\ ~s.handlers
  /\ s.pc \in {"stopRunner", "close"} /\ ~s.unstopped => ~s.scheduler
  /\ s.pc = "close" /\ ~s.unstopped => ~s.runner
  /\ s.pc = "return" /\ s.handlers => s.abandoned
  /\ s.pc = "return" /\ ~s.unstopped /\ ~s.abandoned => ~s.db /\ ~s.runner /\ ~s.scheduler
  /\ s.pc = "exited" /\ s.outer => s.started /\ s.unstopped
  /\ s.pc = "exited" /\ ~s.unstopped => ~s.runner /\ ~s.scheduler

\* What is left of a list to be worked off
Pending(p, s) ==
  /\ s.pc = "seed" => s.todo # << >>
  /\ s.pc \in {"list", "seed"} => p \in Seeding
  /\ s.pc = "enqueue" => Cardinality(s.mine) + Len(s.todo) = Len(Methods)
  /\ p \in Once /\ ~s.erred /\ s.pc \notin {"down", "enqueue"} =>
       Cardinality(s.mine) = Len(Methods)

\* A one-shot run that leaves without an error has seen its jobs end well.
Outcomes(p, s) ==
  p \in Once /\ ~s.erred /\ s.pc \in Stopping \cup {"return", "exited"} =>
    \A j \in s.mine : job[j].status \in {"completed", "cancelled"}

Made(s) == \A j \in s.mine : job[j].status # "none"

Sound(p, s) == Holds(s) /\ Releases(s) /\ Pending(p, s) /\ Outcomes(p, s) /\ Made(s)
Processes == \A p \in Process : Sound(p, proc[p])

\* A job of a schedule is of one that is there; one that waits has an attempt
\* left; and an id that is not used is of no schedule.
Rows ==
  \A j \in Job :
    /\ job[j].row \in Used \cup {None}
    /\ job[j].status = "pending" => job[j].attempts < MaxAttempts
    /\ job[j].status = "none" => job[j].row = None

\* The owner of a running job is there, and the end of a job is reported once,
\* by the runner that recorded it.
Owners ==
  \A j \in Job :
    job[j].status = "running" /\ job[j].owner # None => proc[job[j].owner].pc \in Serving
Told ==
  \A p \in Process, j \in Job :
    <<p, j>> \in news => job[j].status \in {"completed", "failed"} /\ job[j].owner = p

IInv == TypeOK /\ Processes /\ Rows /\ Owners /\ Told /\ CountCoversJobs

-----------------------------------------------------------------------------
(* Steps of a process that leave the jobs alone                            *)

Covering(m) == LiveOf(m) \cup Unreported(m)

\* Two jobs of a schedule come to be under way only below a count put back.
Limits ==
  \A m \in Method :
    Cardinality(LiveOf(m)) <= 1 /\ Cardinality(LiveOf(m)') > 1 => skew[m] < 0

\* No job of a schedule comes to be under way.
Quiet == \A m \in Method : LiveOf(m)' \subseteq LiveOf(m)

\* What other processes rely on: a job that was made stays, and so does the
\* end of one that went well.
JobsGo ==
  \A j \in Job :
    /\ job[j].status # "none" => job'[j].status # "none"
    /\ job[j].status \in {"completed", "cancelled"} => job'[j].status = job[j].status

\* The sets that are counted are finite.
LEMMA Finite ==
  ASSUME NEW m \in Method
  PROVE  /\ LiveOf(m) \subseteq Job /\ Covering(m) \subseteq Job
         /\ IsFiniteSet(LiveOf(m)) /\ Cardinality(LiveOf(m)) \in Nat
         /\ IsFiniteSet(Covering(m)) /\ Cardinality(Covering(m)) \in Nat
<1>1. LiveOf(m) \subseteq Job /\ Covering(m) \subseteq Job
  BY DEF LiveOf, Scheduled, Covering, Unreported
<1>2. IsFiniteSet(LiveOf(m)) /\ IsFiniteSet(Covering(m))
  BY <1>1, WorkerRuntimeAssumption, FS_Subset
<1> QED
  BY <1>1, <1>2, FS_CardinalityType

\* The primed sets are as finite as the sets.
LEMMA FiniteNext ==
  ASSUME NEW m \in Method
  PROVE  /\ LiveOf(m)' \subseteq Job /\ Covering(m)' \subseteq Job
         /\ IsFiniteSet(LiveOf(m)') /\ Cardinality(LiveOf(m)') \in Nat
         /\ IsFiniteSet(Covering(m)') /\ Cardinality(Covering(m)') \in Nat
<1>1. LiveOf(m)' \subseteq Job /\ Covering(m)' \subseteq Job
  BY DEF LiveOf, Scheduled, Covering, Unreported
<1>2. IsFiniteSet(LiveOf(m)') /\ IsFiniteSet(Covering(m)')
  BY <1>1, WorkerRuntimeAssumption, FS_Subset
<1> QED
  BY <1>1, <1>2, FS_CardinalityType

\* Where no job comes to be under way, none does above the limit.
LEMMA QuietLimits ==
  ASSUME Quiet
  PROVE  Limits
<1> SUFFICES ASSUME NEW m \in Method, Cardinality(LiveOf(m)) <= 1, Cardinality(LiveOf(m)') > 1
             PROVE  skew[m] < 0
  BY DEF Limits
<1>1. LiveOf(m)' \subseteq LiveOf(m)
  BY DEF Quiet
<1>2. Cardinality(LiveOf(m)') <= Cardinality(LiveOf(m))
  BY <1>1, Finite, FS_Subset
<1> QED
  BY <1>2, Finite, FiniteNext

\* A count covers fewer jobs, unless it falls further than it was put back.
LEMMA CountsGo ==
  ASSUME IInv, TypeOK',
         \A m \in Method : Covering(m)' \subseteq Covering(m),
         \A m \in Method : schedule'[m].running - skew'[m] >= schedule[m].running - skew[m]
  PROVE  CountCoversJobs'
<1> SUFFICES ASSUME NEW m \in Method
             PROVE  schedule'[m].running >= skew'[m] + Cardinality(Covering(m)')
  BY DEF CountCoversJobs, Covering
<1>1. Cardinality(Covering(m)') <= Cardinality(Covering(m))
  BY Finite, FS_Subset
<1>2. schedule[m].running >= skew[m] + Cardinality(Covering(m))
  BY DEF IInv, CountCoversJobs, Covering
<1>3. schedule[m].running \in Int /\ schedule'[m].running \in Int
  BY DEF IInv, TypeOK, RowState, NoRow
<1>4. skew[m] \in Int /\ skew'[m] \in Int
  BY DEF IInv, TypeOK
<1> HIDE DEF Covering
<1> QED
  BY <1>1, <1>2, <1>3, <1>4, Finite, FiniteNext

\* Failures are counted up to the bound of the deployment.
LEMMA FaultsCount ==
  ASSUME TypeOK, deployment' = deployment, Fault \/ faults' = faults
  PROVE  deployment' \in Deployments /\ faults' \in 0 .. deployment'.faults
<1>1. deployment.faults \in Nat
  BY WorkerRuntimeAssumption DEF TypeOK
<1> QED
  BY <1>1 DEF TypeOK, Fault

\* One process becomes another record, the others stay.
LEMMA Becomes ==
  ASSUME TypeOK, NEW p \in Process, NEW s \in ProcState, Become(p, s)
  PROVE  /\ proc' \in [Process -> ProcState]
         /\ proc'[p] = s
         /\ \A q \in Process \ {p} : proc'[q] = proc[q]
BY DEF TypeOK, Become

\* Where jobs only go on, what the other processes were promised holds, and so
\* does what this one is, if it is so after the step.
LEMMA ProcessesGo ==
  ASSUME TypeOK, Processes, NEW p \in Process, JobsGo,
         \A q \in Process \ {p} : proc'[q] = proc[q],
         Sound(p, proc[p])'
  PROVE  Processes'
<1> SUFFICES ASSUME NEW q \in Process, q # p
             PROVE  Sound(q, proc[q])'
  BY DEF Processes
<1>1. Sound(q, proc[q]) /\ proc'[q] = proc[q] /\ proc[q].mine \subseteq Job
  BY DEF Processes, TypeOK, ProcState
<1>2. Holds(proc[q])' /\ Releases(proc[q])' /\ Pending(q, proc[q])'
  BY <1>1 DEF Sound, Holds, Releases, Pending
<1>3. Outcomes(q, proc[q])' /\ Made(proc[q])'
  BY <1>1 DEF Sound, Outcomes, Made, JobsGo
<1> QED
  BY <1>2, <1>3 DEF Sound

\* And where no process changes.
LEMMA ProcessesStay ==
  ASSUME TypeOK, Processes, JobsGo, proc' = proc
  PROVE  Processes'
<1> SUFFICES ASSUME NEW q \in Process
             PROVE  Sound(q, proc[q])'
  BY DEF Processes
<1>1. Sound(q, proc[q]) /\ proc[q].mine \subseteq Job
  BY DEF Processes, TypeOK, ProcState
<1>2. Holds(proc[q])' /\ Releases(proc[q])' /\ Pending(q, proc[q])'
  BY <1>1 DEF Sound, Holds, Releases, Pending
<1>3. Outcomes(q, proc[q])' /\ Made(proc[q])'
  BY <1>1 DEF Sound, Outcomes, Made, JobsGo
<1> QED
  BY <1>2, <1>3 DEF Sound

\* A step of a process that leaves jobs and events alone: what is left to show
\* is what the process has become, and that the schedules are counted.
LEMMA ProcessStep ==
  ASSUME IInv, NEW p \in Process, NEW s \in ProcState, Become(p, s),
         UNCHANGED <<deployment, job, news>>, Fault \/ faults' = faults,
         schedule' \in [Method -> RowState], skew' \in [Method -> Int],
         Used \subseteq Used',
         \A m \in Method : schedule'[m].running - skew'[m] >= schedule[m].running - skew[m],
         Sound(p, s), proc[p].pc \in Serving => s.pc \in Serving
  PROVE  IInv' /\ Limits
<1>1. /\ proc' \in [Process -> ProcState] /\ proc'[p] = s
      /\ \A q \in Process \ {p} : proc'[q] = proc[q]
  BY Becomes DEF IInv
<1>2. TypeOK'
  BY <1>1, FaultsCount DEF IInv, TypeOK
<1>3. Processes'
  <2>1. Sound(p, proc[p])'
    BY <1>1 DEF Sound, Outcomes, Made, Holds, Releases, Pending
  <2>2. JobsGo
    BY DEF JobsGo
  <2> QED
    BY <1>1, <2>1, <2>2, ProcessesGo DEF IInv
<1>4. Rows'
  BY DEF IInv, Rows
<1>5. Owners'
  <2> SUFFICES ASSUME NEW j \in Job, job[j].status = "running", job[j].owner # None
               PROVE  proc'[job[j].owner].pc \in Serving
    BY DEF Owners
  <2>1. job[j].owner \in Process /\ proc[job[j].owner].pc \in Serving
    BY DEF IInv, Owners, TypeOK, JobState, NoJob
  <2> QED
    BY <1>1, <2>1
<1>6. Told'
  BY DEF IInv, Told
<1>7. \A m \in Method : LiveOf(m)' = LiveOf(m) /\ Covering(m)' = Covering(m)
  BY DEF LiveOf, Scheduled, Live, Covering, Unreported
<1>8. CountCoversJobs'
  BY <1>2, <1>7, CountsGo
<1>9. Limits
  BY <1>7, QuietLimits DEF Quiet
<1> QED
  BY <1>2, <1>3, <1>4, <1>5, <1>6, <1>8, <1>9 DEF IInv

\* The same where the schedules do not change either.
LEMMA PlainStep ==
  ASSUME IInv, NEW p \in Process, NEW s \in ProcState, Become(p, s),
         UNCHANGED <<deployment, schedule, job, news, skew>>, Fault \/ faults' = faults,
         Sound(p, s), proc[p].pc \in Serving => s.pc \in Serving
  PROVE  IInv' /\ Limits
<1>1. schedule' \in [Method -> RowState] /\ skew' \in [Method -> Int] /\ Used \subseteq Used'
  BY DEF IInv, TypeOK, Used
<1>2. \A m \in Method : schedule[m].running \in Int /\ skew[m] \in Int
  BY DEF IInv, TypeOK, RowState, NoRow
<1>3. \A m \in Method : schedule'[m].running - skew'[m] >= schedule[m].running - skew[m]
  BY <1>2
<1> QED
  BY <1>1, <1>3, ProcessStep

-----------------------------------------------------------------------------
(* Starting                                                                *)

\* A record of a process by its fields
LEMMA Fields ==
  ASSUME NEW s \in ProcState
  PROVE  /\ s.outer \in BOOLEAN /\ s.db \in BOOLEAN /\ s.handlers \in BOOLEAN
         /\ s.scheduler \in BOOLEAN /\ s.runner \in BOOLEAN /\ s.started \in BOOLEAN
         /\ s.unstopped \in BOOLEAN /\ s.erred \in BOOLEAN /\ s.abandoned \in BOOLEAN
         /\ s.view \in [Method -> RowState] /\ s.todo \in Seq(Method)
         /\ s.mine \subseteq Job /\ s.bad \subseteq Job
BY DEF ProcState

LEMMA FreshIsFine == Fresh \in ProcState
<1>1. [m \in Method |-> NoRow] \in [Method -> RowState]
  BY DEF RowState
<1> QED
  BY <1>1 DEF Fresh, ProcState

\* A process and what it is, where the invariant holds
LEMMA Now ==
  ASSUME IInv, NEW p \in Process
  PROVE  proc[p] \in ProcState /\ Sound(p, proc[p])
BY DEF IInv, TypeOK, Processes

\* An error while the worker runs or comes up: it is stopped with an error.
LEMMA ThrowStep ==
  ASSUME IInv, NEW p \in Process, Throw(p), Fault \/ faults' = faults,
         proc[p].pc \in {"up"} \cup (Starting \ {"boot"}),
         UNCHANGED <<deployment, schedule, job, news, skew>>
  PROVE  IInv' /\ Limits
<1> DEFINE s == [proc[p] EXCEPT !.pc = "stopScheduler", !.handlers = FALSE,
                   !.view = Fresh.view, !.todo = << >>, !.erred = TRUE]
<1>1. proc[p] \in ProcState /\ Sound(p, proc[p]) /\ Fresh \in ProcState
  BY Now, FreshIsFine
<1>2. Fresh.view \in [Method -> RowState] /\ << >> \in Seq(Method)
  BY <1>1, Fields
<1>3. s \in ProcState
  BY <1>1, <1>2 DEF ProcState, Stopping
<1>4. /\ s.pc = "stopScheduler" /\ ~s.handlers /\ s.erred /\ s.db = proc[p].db /\ s.mine = proc[p].mine
      /\ s.abandoned = proc[p].abandoned
  BY <1>1 DEF ProcState
<1>5. Become(p, s)
  BY DEF Throw
<1> HIDE DEF s
<1>6. Sound(p, s)
  BY <1>1, <1>4 DEF Sound, Holds, Releases, Pending, Outcomes, Made, Starting, Stopping
<1>7. s.pc \in Serving
  BY <1>4 DEF Serving, Stopping
<1> QED
  BY <1>3, <1>5, <1>6, <1>7, PlainStep

LEMMA LaunchStep ==
  ASSUME IInv, NEW p \in Process, Launch(p)
  PROVE  IInv' /\ Limits
<1> DEFINE s == IF p \in Runner THEN [Fresh EXCEPT !.pc = "boot"]
                ELSE [Fresh EXCEPT !.pc = "enqueue", !.outer = TRUE, !.todo = Methods]
<1>1. Fresh \in ProcState /\ Methods \in Seq(Method)
  BY FreshIsFine, WorkerRuntimeAssumption
<1>2. s \in ProcState
  BY <1>1 DEF ProcState, Starting
<1>3. /\ s.pc \in {"boot", "enqueue"} /\ s.mine = {}
      /\ s.pc = "boot" => p \in Runner
      /\ s.pc = "enqueue" => s.todo = Methods
      /\ ~s.db /\ ~s.handlers /\ ~s.scheduler /\ ~s.runner
      /\ ~s.unstopped /\ ~s.erred /\ ~s.started /\ ~s.abandoned
  BY DEF Fresh
<1>4. Become(p, s) /\ proc[p].pc = "down"
  BY DEF Launch, At
<1> HIDE DEF s
<1>5. Cardinality({}) = 0 /\ Len(Methods) \in Nat
  BY <1>1, FS_EmptySet
<1>6. Pending(p, s)
  BY <1>3, <1>5, WorkerRuntimeAssumption DEF Pending
<1>7. Sound(p, s)
  BY <1>3, <1>6 DEF Sound, Holds, Releases, Outcomes, Made, Starting, Stopping
<1> QED
  BY <1>2, <1>4, <1>7, PlainStep DEF Launch, Serving, Stopping

LEMMA BootStep ==
  ASSUME IInv, NEW p \in Process, Boot(p)
  PROVE  IInv' /\ Limits
<1> DEFINE s == [proc[p] EXCEPT !.pc = IF p \in Seeding THEN "list" ELSE FirstRunner(p),
                                !.db = TRUE, !.handlers = TRUE]
<1>1. proc[p] \in ProcState /\ Sound(p, proc[p])
  BY Now
<1>2. s \in ProcState
  BY <1>1 DEF ProcState, Starting, FirstRunner
<1>3. /\ s.pc \in {"list", "startScheduler", "startRunner"}
      /\ s.pc = "list" => p \in Seeding
      /\ s.db /\ s.handlers /\ s.mine = proc[p].mine
      /\ s.scheduler = proc[p].scheduler /\ s.runner = proc[p].runner
      /\ s.unstopped = proc[p].unstopped /\ s.erred = proc[p].erred
      /\ s.started = proc[p].started /\ s.abandoned = proc[p].abandoned
  BY <1>1 DEF ProcState, FirstRunner
<1>4. Become(p, s) /\ proc[p].pc = "boot"
  BY DEF Boot, At
<1> HIDE DEF s
<1>5. Sound(p, s)
  BY <1>1, <1>3, <1>4 DEF Sound, Holds, Releases, Pending, Outcomes, Made, Starting, Stopping
<1> QED
  BY <1>2, <1>4, <1>5, PlainStep DEF Boot, Serving, Stopping

LEMMA BootFailsStep ==
  ASSUME IInv, NEW p \in Process, BootFails(p)
  PROVE  IInv' /\ Limits
<1> DEFINE s == [proc[p] EXCEPT !.pc = "return", !.erred = TRUE]
<1>1. proc[p] \in ProcState /\ Sound(p, proc[p])
  BY Now
<1>2. s \in ProcState
  BY <1>1 DEF ProcState
<1>3. /\ s.pc = "return" /\ s.erred /\ s.mine = proc[p].mine
      /\ s.db = proc[p].db /\ s.handlers = proc[p].handlers
      /\ s.scheduler = proc[p].scheduler /\ s.runner = proc[p].runner
  BY <1>1 DEF ProcState
<1>4. Become(p, s) /\ proc[p].pc = "boot"
  BY DEF BootFails, At
<1> HIDE DEF s
<1>5. Sound(p, s)
  BY <1>1, <1>3, <1>4 DEF Sound, Holds, Releases, Pending, Outcomes, Made, Starting, Stopping
<1> QED
  BY <1>2, <1>4, <1>5, PlainStep DEF BootFails, Serving, Stopping

LEMMA RegistrationFailsStep ==
  ASSUME IInv, NEW p \in Process, RegistrationFails(p)
  PROVE  IInv' /\ Limits
<1>0. PICK registered \in BOOLEAN :
        Become(p, [proc[p] EXCEPT !.pc = "return", !.db = TRUE, !.handlers = registered,
                                  !.abandoned = TRUE, !.erred = TRUE])
  BY DEF RegistrationFails
<1> DEFINE s == [proc[p] EXCEPT !.pc = "return", !.db = TRUE, !.handlers = registered,
                                !.abandoned = TRUE, !.erred = TRUE]
<1>1. proc[p] \in ProcState /\ Sound(p, proc[p])
  BY Now
<1>2. s \in ProcState
  BY <1>1 DEF ProcState
<1>3. /\ s.pc = "return" /\ s.erred /\ s.mine = proc[p].mine /\ s.abandoned
      /\ s.scheduler = proc[p].scheduler /\ s.runner = proc[p].runner
  BY <1>1 DEF ProcState
<1>4. Become(p, s) /\ proc[p].pc = "boot"
  BY <1>0 DEF RegistrationFails, At
<1> HIDE DEF s
<1>5. Sound(p, s)
  BY <1>1, <1>3, <1>4 DEF Sound, Holds, Releases, Pending, Outcomes, Made, Starting, Stopping
<1> QED
  BY <1>2, <1>4, <1>5, PlainStep DEF RegistrationFails, Serving, Stopping

LEMMA ListStep ==
  ASSUME IInv, NEW p \in Process, List(p)
  PROVE  IInv' /\ Limits
<1> DEFINE s == [proc[p] EXCEPT !.pc = "seed", !.view = schedule, !.todo = Methods]
<1>1. proc[p] \in ProcState /\ Sound(p, proc[p])
  BY Now
<1>2. Methods \in Seq(Method) /\ Methods # << >> /\ schedule \in [Method -> RowState]
  BY WorkerRuntimeAssumption DEF IInv, TypeOK
<1>3. s \in ProcState
  BY <1>1, <1>2 DEF ProcState, Starting
<1>4. /\ s.pc = "seed" /\ s.todo = Methods /\ s.mine = proc[p].mine
      /\ s.db = proc[p].db /\ s.handlers = proc[p].handlers
      /\ s.scheduler = proc[p].scheduler /\ s.runner = proc[p].runner
      /\ s.unstopped = proc[p].unstopped /\ s.erred = proc[p].erred
      /\ s.started = proc[p].started /\ s.abandoned = proc[p].abandoned
  BY <1>1 DEF ProcState
<1>5. Become(p, s) /\ proc[p].pc = "list"
  BY DEF List, At
<1> HIDE DEF s
<1>6. Sound(p, s)
  BY <1>1, <1>2, <1>4, <1>5
  DEF Sound, Holds, Releases, Pending, Outcomes, Made, Starting, Stopping
<1> QED
  BY <1>3, <1>5, <1>6, PlainStep DEF List, Serving, Stopping

-----------------------------------------------------------------------------
(* Seeding the schedules                                                   *)

\* Of a list of more than one, something is left.
LEMMA TailOfMany ==
  ASSUME NEW S, NEW todo \in Seq(S), todo # << >>
  PROVE  /\ Tail(todo) \in Seq(S) /\ Len(Tail(todo)) = Len(todo) - 1
         /\ Len(todo) > 1 => Tail(todo) # << >>
<1>1. Tail(todo) \in Seq(S) /\ Len(Tail(todo)) = Len(todo) - 1 /\ Len(todo) \in Nat
  OBVIOUS
<1>2. ASSUME Len(todo) > 1 PROVE Len(Tail(todo)) # 0
  <2> DEFINE n == Len(todo)
             k == Len(Tail(todo))
  <2>1. n \in Nat /\ n > 1 /\ k = n - 1
    BY <1>1, <1>2
  <2> HIDE DEF n, k
  <2>2. k # 0
    BY <2>1
  <2> QED
    BY <2>2 DEF k
<1>3. ASSUME Len(todo) > 1 PROVE Tail(todo) # << >>
  BY <1>2, <1>3
<1> QED
  BY <1>1, <1>3

\* What a process that seeds looks at: a method, the row as it was listed, and
\* what the definition makes of it.
LEMMA Looks ==
  ASSUME IInv, NEW p \in Process, proc[p].pc = "seed"
  PROVE  /\ proc[p].todo \in Seq(Method) /\ proc[p].todo # << >>
         /\ Current(p) \in Method /\ Listed(p) \in RowState
         /\ Applied(p) \in RowState /\ Applied(p).def # None
         /\ Applied(p).running \in Int
<1>1. proc[p].todo \in Seq(Method) /\ proc[p].todo # << >> /\ proc[p].view \in [Method -> RowState]
  BY Now, Fields DEF Sound, Pending
<1>2. Current(p) \in Method
  BY <1>1 DEF Current
<1>3. Listed(p) \in RowState
  BY <1>1, <1>2 DEF Listed
<1>4. Listed(p).running \in Int
  BY <1>3 DEF RowState, NoRow
<1>5. DefinedBy[p] \in Definition /\ DefinedBy[p] # None
  BY WorkerRuntimeAssumption
<1>6. Applied(p) \in [def : Definition, running : Int]
  BY <1>4, <1>5 DEF Applied
<1> QED
  BY <1>1, <1>2, <1>3, <1>5, <1>6 DEF Applied, RowState

\* The seeding goes on with the next definition, or the runners are started.
LEMMA SeededStep ==
  ASSUME IInv, NEW p \in Process, Seeded(p), At(p, "seed"),
         UNCHANGED <<deployment, job, news, faults>>,
         schedule' \in [Method -> RowState], skew' \in [Method -> Int],
         Used \subseteq Used',
         \A m \in Method : schedule'[m].running - skew'[m] >= schedule[m].running - skew[m]
  PROVE  IInv' /\ Limits
<1> DEFINE s == IF Len(proc[p].todo) > 1 THEN [proc[p] EXCEPT !.todo = Tail(@)]
                ELSE [proc[p] EXCEPT !.pc = FirstRunner(p), !.todo = << >>, !.view = Fresh.view]
<1>1. proc[p] \in ProcState /\ Sound(p, proc[p]) /\ Fresh \in ProcState /\ proc[p].pc = "seed"
  BY Now, FreshIsFine DEF At
<1>2. proc[p].todo \in Seq(Method) /\ proc[p].todo # << >>
  BY <1>1, Looks
<1>3. /\ Fresh.view \in [Method -> RowState] /\ << >> \in Seq(Method)
      /\ Tail(proc[p].todo) \in Seq(Method)
      /\ Len(proc[p].todo) > 1 => Tail(proc[p].todo) # << >>
  <2>1. Fresh.view \in [Method -> RowState]
    BY <1>1, Fields
  <2>2. Tail(proc[p].todo) \in Seq(Method)
    BY <1>2, TailOfMany
  <2>3. Len(proc[p].todo) > 1 => Tail(proc[p].todo) # << >>
    BY <1>2, TailOfMany
  <2> QED
    BY <2>1, <2>2, <2>3
<1>4. s \in ProcState
  <2>1. CASE Len(proc[p].todo) > 1
    BY <1>1, <1>3, <2>1 DEF ProcState
  <2>2. CASE ~ (Len(proc[p].todo) > 1)
    <3>1. FirstRunner(p) \in Starting
      BY DEF FirstRunner, Starting
    <3> QED
      BY <1>1, <1>3, <2>2, <3>1 DEF ProcState
  <2> QED
    BY <2>1, <2>2
<1>5. /\ s.pc \in {"seed", "startScheduler", "startRunner"} /\ s.mine = proc[p].mine
      /\ s.pc = "seed" => s.todo # << >>
      /\ s.db = proc[p].db /\ s.handlers = proc[p].handlers
      /\ s.scheduler = proc[p].scheduler /\ s.runner = proc[p].runner
      /\ s.unstopped = proc[p].unstopped /\ s.erred = proc[p].erred
      /\ s.started = proc[p].started /\ s.abandoned = proc[p].abandoned
  <2>1. CASE Len(proc[p].todo) > 1
    BY <1>1, <1>3, <2>1 DEF ProcState
  <2>2. CASE ~ (Len(proc[p].todo) > 1)
    BY <1>1, <2>2 DEF ProcState, FirstRunner
  <2> QED
    BY <2>1, <2>2
<1>6. Become(p, s)
  BY DEF Seeded
<1> HIDE DEF s
<1>7. Sound(p, s)
  BY <1>1, <1>5 DEF Sound, Holds, Releases, Pending, Outcomes, Made, Starting, Stopping
<1> QED
  BY <1>1, <1>4, <1>6, <1>7, ProcessStep DEF Serving, Stopping

LEMMA CreateStep ==
  ASSUME IInv, NEW p \in Process, Create(p)
  PROVE  IInv' /\ Limits
<1>1. At(p, "seed") /\ Seeded(p) /\ UNCHANGED <<deployment, job, news, faults>> /\ skew' = skew
  BY DEF Create
<1>2. Current(p) \in Method /\ DefinedBy[p] \in Definition /\ schedule \in [Method -> RowState]
  BY <1>1, Looks, WorkerRuntimeAssumption DEF At, IInv, TypeOK
<1>3. schedule[Current(p)] = NoRow
  BY <1>2 DEF Create, Used
<1>4. [def |-> DefinedBy[p], running |-> 0] \in RowState
  BY <1>2 DEF RowState
<1>5. schedule' = [schedule EXCEPT ![Current(p)] = [def |-> DefinedBy[p], running |-> 0]]
  BY DEF Create
<1>6. schedule' \in [Method -> RowState]
  BY <1>2, <1>4, <1>5
<1>7. Used \subseteq Used'
  BY <1>2, <1>3, <1>5 DEF Used
<1>8. \A m \in Method : schedule[m].running \in Int /\ skew[m] \in Int
  BY DEF IInv, TypeOK, RowState, NoRow
<1>9. \A m \in Method : schedule'[m].running = schedule[m].running
  BY <1>2, <1>3, <1>5 DEF NoRow
<1>10. skew' \in [Method -> Int]
  BY <1>1 DEF IInv, TypeOK
<1> QED
  BY <1>1, <1>6, <1>7, <1>8, <1>9, <1>10, SeededStep

LEMMA KeepStep ==
  ASSUME IInv, NEW p \in Process, Keep(p)
  PROVE  IInv' /\ Limits
<1>1. /\ At(p, "seed") /\ Seeded(p) /\ UNCHANGED <<deployment, job, news, faults>>
      /\ schedule' = schedule /\ skew' = skew
  BY DEF Keep
<1>2. \A m \in Method : schedule[m].running \in Int /\ skew[m] \in Int
  BY DEF IInv, TypeOK, RowState, NoRow
<1>3. schedule' \in [Method -> RowState] /\ skew' \in [Method -> Int] /\ Used \subseteq Used'
  BY <1>1 DEF IInv, TypeOK, Used
<1> QED
  BY <1>1, <1>2, <1>3, SeededStep

LEMMA SaveStep ==
  ASSUME IInv, NEW p \in Process, Save(p)
  PROVE  IInv' /\ Limits
<1>1. At(p, "seed") /\ Seeded(p) /\ UNCHANGED <<deployment, job, news, faults>>
  BY DEF Save
<1>2. /\ Current(p) \in Method /\ Applied(p) \in RowState /\ Applied(p).def # None
      /\ Applied(p).running \in Int
  BY <1>1, Looks DEF At
<1>3. schedule \in [Method -> RowState] /\ skew \in [Method -> Int]
  BY DEF IInv, TypeOK
<1>4. \A m \in Method : schedule[m].running \in Int /\ skew[m] \in Int
  BY <1>3 DEF RowState, NoRow
<1>5. /\ schedule' = [schedule EXCEPT ![Current(p)] = Applied(p)]
      /\ skew' = [skew EXCEPT ![Current(p)] =
                    @ + Applied(p).running - schedule[Current(p)].running]
  BY DEF Save
<1>6. schedule' \in [Method -> RowState] /\ skew' \in [Method -> Int]
  BY <1>2, <1>3, <1>4, <1>5
<1>7. Used \subseteq Used'
  BY <1>2, <1>3, <1>5 DEF Used, NoRow
<1>8. \A m \in Method : schedule'[m].running - skew'[m] >= schedule[m].running - skew[m]
  <2> SUFFICES ASSUME NEW m \in Method
               PROVE  schedule'[m].running - skew'[m] >= schedule[m].running - skew[m]
    OBVIOUS
  <2>1. CASE m = Current(p)
    <3>1. /\ schedule'[m].running = Applied(p).running
          /\ skew'[m] = skew[m] + Applied(p).running - schedule[m].running
      BY <1>3, <1>5, <2>1
    <3> QED
      BY <1>2, <1>4, <3>1
  <2>2. CASE m # Current(p)
    BY <1>3, <1>4, <1>5, <2>2
  <2> QED
    BY <2>1, <2>2
<1> QED
  BY <1>1, <1>6, <1>7, <1>8, SeededStep

LEMMA CreateRefusedStep ==
  ASSUME IInv, NEW p \in Process, CreateRefused(p)
  PROVE  IInv' /\ Limits
BY ThrowStep DEF CreateRefused, At, Starting

LEMMA StartFailsStep ==
  ASSUME IInv, NEW p \in Process, StartFails(p)
  PROVE  IInv' /\ Limits
BY ThrowStep DEF StartFails

LEMMA StartSchedulerStep ==
  ASSUME IInv, NEW p \in Process, StartScheduler(p)
  PROVE  IInv' /\ Limits
<1> DEFINE s == [proc[p] EXCEPT !.pc = "startRunner", !.scheduler = TRUE]
<1>1. proc[p] \in ProcState /\ Sound(p, proc[p])
  BY Now
<1>2. s \in ProcState
  BY <1>1 DEF ProcState, Starting
<1>3. /\ s.pc = "startRunner" /\ s.mine = proc[p].mine
      /\ s.db = proc[p].db /\ s.handlers = proc[p].handlers /\ s.runner = proc[p].runner
      /\ s.unstopped = proc[p].unstopped /\ s.erred = proc[p].erred
      /\ s.started = proc[p].started /\ s.abandoned = proc[p].abandoned
  BY <1>1 DEF ProcState
<1>4. Become(p, s) /\ proc[p].pc = "startScheduler"
  BY DEF StartScheduler, At
<1> HIDE DEF s
<1>5. Sound(p, s)
  BY <1>1, <1>3, <1>4 DEF Sound, Holds, Releases, Pending, Outcomes, Made, Starting, Stopping
<1> QED
  BY <1>2, <1>4, <1>5, PlainStep DEF StartScheduler, Serving, Stopping

LEMMA StartRunnerStep ==
  ASSUME IInv, NEW p \in Process, StartRunner(p)
  PROVE  IInv' /\ Limits
<1> DEFINE s == [proc[p] EXCEPT !.pc = "up", !.runner = TRUE, !.started = p \in Once]
<1>1. proc[p] \in ProcState /\ Sound(p, proc[p]) /\ (p \in Once) \in BOOLEAN
  BY Now
<1>2. s \in ProcState
  BY <1>1 DEF ProcState
<1>3. /\ s.pc = "up" /\ s.mine = proc[p].mine /\ s.runner
      /\ s.db = proc[p].db /\ s.handlers = proc[p].handlers
      /\ s.unstopped = proc[p].unstopped /\ s.erred = proc[p].erred
      /\ s.abandoned = proc[p].abandoned
  BY <1>1 DEF ProcState
<1>4. Become(p, s) /\ proc[p].pc = "startRunner"
  BY DEF StartRunner, At
<1> HIDE DEF s
<1>5. Sound(p, s)
  BY <1>1, <1>3, <1>4 DEF Sound, Holds, Releases, Pending, Outcomes, Made, Starting, Stopping
<1> QED
  BY <1>2, <1>4, <1>5, PlainStep DEF StartRunner, Serving, Stopping

-----------------------------------------------------------------------------
(* Stopping                                                                *)

LEMMA SignalStep ==
  ASSUME IInv, NEW p \in Process, Signal(p)
  PROVE  IInv' /\ Limits
<1> DEFINE s == [proc[p] EXCEPT !.pc = "stopScheduler", !.handlers = FALSE]
<1>1. proc[p] \in ProcState /\ Sound(p, proc[p]) /\ p \notin Once
  BY Now, WorkerRuntimeAssumption DEF Signal
<1>2. s \in ProcState
  BY <1>1 DEF ProcState, Stopping
<1>3. /\ s.pc = "stopScheduler" /\ s.mine = proc[p].mine /\ ~s.handlers
      /\ s.db = proc[p].db /\ s.abandoned = proc[p].abandoned
  BY <1>1 DEF ProcState
<1>4. Become(p, s) /\ proc[p].pc = "up"
  BY DEF Signal, At
<1> HIDE DEF s
<1>5. Sound(p, s)
  BY <1>1, <1>3, <1>4 DEF Sound, Holds, Releases, Pending, Outcomes, Made, Starting, Stopping
<1> QED
  BY <1>2, <1>3, <1>4, <1>5, PlainStep DEF Signal, Serving, Stopping

\* A process whose two flags are set is one still.
LEMMA FlagsSet ==
  ASSUME NEW s \in ProcState, NEW e \in BOOLEAN, NEW u \in BOOLEAN
  PROVE  [s EXCEPT !.erred = e, !.unstopped = u] \in ProcState
BY DEF ProcState

\* One of the three is stopped, or fails to.
LEMMA StopComponentsStep ==
  ASSUME IInv, NEW p \in Process, StopComponents(p)
  PROVE  IInv' /\ Limits
<1> PICK fails \in BOOLEAN :
      /\ IF fails THEN Fault ELSE UNCHANGED faults
      /\ LET s == [proc[p] EXCEPT !.erred = @ \/ fails, !.unstopped = @ \/ fails] IN
         \/ /\ At(p, "stopScheduler")
            /\ Become(p, [s EXCEPT !.pc = "stopRunner", !.scheduler = @ /\ fails])
         \/ /\ At(p, "stopRunner")
            /\ Become(p, [s EXCEPT !.pc = "close", !.runner = @ /\ fails])
         \/ /\ At(p, "close")
            /\ Become(p, [s EXCEPT !.pc = "return", !.db = @ /\ fails])
  BY DEF StopComponents
<1>1. UNCHANGED <<deployment, schedule, job, news, skew>> /\ (Fault \/ faults' = faults)
  BY DEF StopComponents
<1>2. proc[p] \in ProcState /\ Sound(p, proc[p])
  BY Now
<1> DEFINE q == [proc[p] EXCEPT !.erred = @ \/ fails, !.unstopped = @ \/ fails]
<1>3. q \in ProcState
  <2>1. (proc[p].erred \/ fails) \in BOOLEAN /\ (proc[p].unstopped \/ fails) \in BOOLEAN
    OBVIOUS
  <2> QED
    BY <1>2, <2>1, FlagsSet, Zenon
<1>4. /\ q.erred <=> proc[p].erred \/ fails
      /\ q.unstopped <=> proc[p].unstopped \/ fails
      /\ q.pc = proc[p].pc /\ q.mine = proc[p].mine /\ q.db = proc[p].db
      /\ q.handlers = proc[p].handlers /\ q.scheduler = proc[p].scheduler
      /\ q.runner = proc[p].runner /\ q.abandoned = proc[p].abandoned
  BY <1>2 DEF ProcState
<1> HIDE DEF q
<1>5. CASE At(p, "stopScheduler") /\ Become(p, [q EXCEPT !.pc = "stopRunner", !.scheduler = @ /\ fails])
  <2> DEFINE s == [q EXCEPT !.pc = "stopRunner", !.scheduler = @ /\ fails]
  <2>1. (q.scheduler /\ fails) \in BOOLEAN
    OBVIOUS
  <2>2. s \in ProcState
    BY <1>3, <2>1 DEF ProcState, Stopping
  <2>3. /\ s.pc = "stopRunner" /\ s.mine = q.mine /\ (s.scheduler <=> q.scheduler /\ fails)
        /\ s.db = q.db /\ s.handlers = q.handlers /\ s.runner = q.runner
        /\ s.unstopped = q.unstopped /\ s.erred = q.erred /\ s.abandoned = q.abandoned
    BY <1>3 DEF ProcState
  <2>4. Become(p, s) /\ proc[p].pc = "stopScheduler"
    BY <1>5 DEF At
  <2> HIDE DEF s
  <2>5. Sound(p, s)
    BY <1>2, <1>4, <2>3, <2>4
    DEF Sound, Holds, Releases, Pending, Outcomes, Made, Starting, Stopping
  <2> QED
    BY <1>1, <2>2, <2>3, <2>4, <2>5, PlainStep DEF Serving, Stopping
<1>6. CASE At(p, "stopRunner") /\ Become(p, [q EXCEPT !.pc = "close", !.runner = @ /\ fails])
  <2> DEFINE s == [q EXCEPT !.pc = "close", !.runner = @ /\ fails]
  <2>1. (q.runner /\ fails) \in BOOLEAN
    OBVIOUS
  <2>2. s \in ProcState
    BY <1>3, <2>1 DEF ProcState, Stopping
  <2>3. /\ s.pc = "close" /\ s.mine = q.mine /\ (s.runner <=> q.runner /\ fails)
        /\ s.db = q.db /\ s.handlers = q.handlers /\ s.scheduler = q.scheduler
        /\ s.unstopped = q.unstopped /\ s.erred = q.erred /\ s.abandoned = q.abandoned
    BY <1>3 DEF ProcState
  <2>4. Become(p, s) /\ proc[p].pc = "stopRunner"
    BY <1>6 DEF At
  <2> HIDE DEF s
  <2>5. Sound(p, s)
    BY <1>2, <1>4, <2>3, <2>4
    DEF Sound, Holds, Releases, Pending, Outcomes, Made, Starting, Stopping
  <2> QED
    BY <1>1, <2>2, <2>3, <2>4, <2>5, PlainStep DEF Serving, Stopping
<1>7. CASE At(p, "close") /\ Become(p, [q EXCEPT !.pc = "return", !.db = @ /\ fails])
  <2> DEFINE s == [q EXCEPT !.pc = "return", !.db = @ /\ fails]
  <2>1. (q.db /\ fails) \in BOOLEAN
    OBVIOUS
  <2>2. s \in ProcState
    BY <1>3, <2>1 DEF ProcState
  <2>3. /\ s.pc = "return" /\ s.mine = q.mine /\ (s.db <=> q.db /\ fails)
        /\ s.handlers = q.handlers /\ s.scheduler = q.scheduler /\ s.runner = q.runner
        /\ s.unstopped = q.unstopped /\ s.erred = q.erred /\ s.abandoned = q.abandoned
    BY <1>3 DEF ProcState
  <2>4. Become(p, s) /\ proc[p].pc = "close"
    BY <1>7 DEF At
  <2> HIDE DEF s
  <2>5. Sound(p, s)
    BY <1>2, <1>4, <2>3, <2>4
    DEF Sound, Holds, Releases, Pending, Outcomes, Made, Starting, Stopping
  <2> QED
    BY <1>1, <2>2, <2>3, <2>4, <2>5, PlainStep DEF Serving, Stopping
<1> QED
  BY <1>5, <1>6, <1>7 DEF q

-----------------------------------------------------------------------------
(* Leaving: the jobs of a process have no owner, its events are lost       *)

\* A job that is left keeps everything else.
LEMMA Leaves ==
  ASSUME TypeOK, NEW p \in Process, Gone(p)
  PROVE  /\ job' \in [Job -> JobState]
         /\ \A j \in Job :
              /\ job'[j].status = job[j].status /\ job'[j].row = job[j].row
              /\ job'[j].attempts = job[j].attempts
              /\ job'[j].owner = IF j \in RunBy(p) THEN None ELSE job[j].owner
         /\ news' \subseteq news /\ \A j \in Job : <<p, j>> \notin news'
<1>1. job \in [Job -> JobState] /\ news \subseteq Process \X Job
  BY DEF TypeOK
<1>2. \A j \in Job : [job[j] EXCEPT !.owner = None] \in JobState
  BY <1>1 DEF JobState
<1>3. job' = [j \in Job |-> IF j \in RunBy(p) THEN [job[j] EXCEPT !.owner = None] ELSE job[j]]
  BY DEF Gone
<1>4. job' \in [Job -> JobState]
  BY <1>1, <1>2, <1>3
<1>5. ASSUME NEW j \in Job
      PROVE  /\ job'[j].status = job[j].status /\ job'[j].row = job[j].row
             /\ job'[j].attempts = job[j].attempts
             /\ job'[j].owner = IF j \in RunBy(p) THEN None ELSE job[j].owner
  <2>1. job[j] \in JobState /\ job'[j] = IF j \in RunBy(p) THEN [job[j] EXCEPT !.owner = None] ELSE job[j]
    BY <1>1, <1>3
  <2> QED
    BY <2>1 DEF JobState
<1>6. news' \subseteq news /\ \A j \in Job : <<p, j>> \notin news'
  BY DEF Gone
<1> QED
  BY <1>4, <1>5, <1>6

\* A process leaves, or is started again.
LEMMA LeaveStep ==
  ASSUME IInv, NEW p \in Process, NEW s \in ProcState, Become(p, s), Gone(p),
         UNCHANGED <<deployment, schedule, skew>>, Fault \/ faults' = faults,
         Sound(p, s)
  PROVE  IInv' /\ Limits
<1>1. /\ proc' \in [Process -> ProcState] /\ proc'[p] = s
      /\ \A q \in Process \ {p} : proc'[q] = proc[q]
  BY Becomes DEF IInv
<1>2. /\ job' \in [Job -> JobState]
      /\ \A j \in Job :
           /\ job'[j].status = job[j].status /\ job'[j].row = job[j].row
           /\ job'[j].attempts = job[j].attempts
           /\ job'[j].owner = IF j \in RunBy(p) THEN None ELSE job[j].owner
      /\ news' \subseteq news /\ \A j \in Job : <<p, j>> \notin news'
  BY Leaves DEF IInv
<1>3. TypeOK'
  <2>1. news' \subseteq Process \X Job /\ schedule' \in [Method -> RowState] /\ skew' \in [Method -> Int]
    BY <1>2 DEF IInv, TypeOK
  <2>2. deployment' \in Deployments /\ faults' \in 0 .. deployment'.faults
    BY FaultsCount DEF IInv
  <2> QED
    BY <1>1, <1>2, <2>1, <2>2 DEF TypeOK
<1>4. JobsGo
  BY <1>2 DEF JobsGo
<1>5. Sound(p, proc[p])'
  <2>1. s.mine \subseteq Job
    BY Fields
  <2>2. Holds(s) /\ Releases(s) /\ Pending(p, s) /\ Outcomes(p, s) /\ Made(s)
    BY DEF Sound
  <2>3. Holds(proc[p])' /\ Releases(proc[p])' /\ Pending(p, proc[p])'
    BY <1>1, <2>2 DEF Holds, Releases, Pending
  <2>4. Outcomes(p, proc[p])' /\ Made(proc[p])'
    BY <1>1, <1>2, <2>1, <2>2 DEF Outcomes, Made
  <2> QED
    BY <2>3, <2>4 DEF Sound
<1>6. Processes'
  BY <1>1, <1>4, <1>5, ProcessesGo DEF IInv
<1>7. Rows'
  <2>1. Used' = Used
    BY DEF Used
  <2> QED
    BY <1>2, <2>1 DEF IInv, Rows
<1>8. Owners'
  <2> SUFFICES ASSUME NEW j \in Job, job'[j].status = "running", job'[j].owner # None
               PROVE  proc'[job'[j].owner].pc \in Serving
    BY DEF Owners
  <2>1. j \notin RunBy(p) /\ job'[j].owner = job[j].owner /\ job[j].status = "running"
    BY <1>2
  <2>2. job[j].owner \in Process \ {p}
    BY <2>1 DEF IInv, TypeOK, JobState, RunBy
  <2> QED
    BY <1>1, <2>1, <2>2 DEF IInv, Owners
<1>9. Told'
  <2> SUFFICES ASSUME NEW q \in Process, NEW j \in Job, <<q, j>> \in news'
               PROVE  job'[j].status \in {"completed", "failed"} /\ job'[j].owner = q
    BY DEF Told
  <2>1. <<q, j>> \in news
    BY <1>2
  <2>2. job[j].status \in {"completed", "failed"} /\ job[j].owner = q
    BY <2>1 DEF IInv, Told
  <2> QED
    BY <1>2, <2>2 DEF RunBy
<1>10. \A m \in Method : LiveOf(m)' \subseteq LiveOf(m) /\ Covering(m)' \subseteq Covering(m)
  BY <1>2 DEF LiveOf, Scheduled, Live, Covering, Unreported
<1>11. CountCoversJobs'
  <2>1. \A m \in Method : schedule[m].running \in Int /\ skew[m] \in Int
    BY DEF IInv, TypeOK, RowState, NoRow
  <2> QED
    BY <1>3, <1>10, <2>1, CountsGo
<1>12. Limits
  BY <1>10, QuietLimits DEF Quiet
<1> QED
  BY <1>3, <1>6, <1>7, <1>8, <1>9, <1>11, <1>12 DEF IInv

\* A process that is down is as it should be.
LEMMA DownIsSound ==
  ASSUME NEW p \in Process
  PROVE  Sound(p, Fresh)
BY DEF Fresh, Sound, Holds, Releases, Pending, Outcomes, Made, Starting, Stopping

LEMMA ExitStep ==
  ASSUME IInv, NEW p \in Process, Exit(p)
  PROVE  IInv' /\ Limits
<1>1. CASE p \in Runner
  BY <1>1, LeaveStep, FreshIsFine, DownIsSound DEF Exit
<1>2. CASE p \notin Runner
  <2> DEFINE s == [proc[p] EXCEPT !.pc = "exited",
                     !.outer = @ /\ proc[p].started /\ proc[p].unstopped]
  <2>1. proc[p] \in ProcState /\ Sound(p, proc[p])
    BY Now
  <2>2. (proc[p].outer /\ proc[p].started /\ proc[p].unstopped) \in BOOLEAN
    OBVIOUS
  <2>3. s \in ProcState
    BY <2>1, <2>2 DEF ProcState
  <2>4. /\ s.pc = "exited" /\ s.mine = proc[p].mine /\ s.erred = proc[p].erred
        /\ s.outer <=> proc[p].outer /\ proc[p].started /\ proc[p].unstopped
        /\ s.scheduler = proc[p].scheduler /\ s.runner = proc[p].runner
        /\ s.unstopped = proc[p].unstopped /\ s.started = proc[p].started /\ s.abandoned = proc[p].abandoned
    BY <2>1 DEF ProcState
  <2>5. Become(p, s) /\ proc[p].pc = "return"
    BY <1>2 DEF Exit, At
  <2> HIDE DEF s
  <2>6. Sound(p, s)
    BY <2>1, <2>4, <2>5
    DEF Sound, Holds, Releases, Pending, Outcomes, Made, Starting, Stopping
  <2> QED
    BY <2>3, <2>5, <2>6, LeaveStep DEF Exit
<1> QED
  BY <1>1, <1>2

LEMMA CrashStep ==
  ASSUME IInv, NEW p \in Process, Crash(p)
  PROVE  IInv' /\ Limits
<1>1. CASE p \in Runner
  BY <1>1, LeaveStep, FreshIsFine, DownIsSound DEF Crash
<1>2. CASE p \notin Runner
  <2> DEFINE s == [Fresh EXCEPT !.pc = "exited", !.erred = TRUE]
  <2>1. s \in ProcState
    BY FreshIsFine DEF ProcState
  <2>2. /\ s.pc = "exited" /\ s.erred /\ s.mine = {} /\ ~s.outer
        /\ ~s.scheduler /\ ~s.runner
    BY DEF Fresh
  <2>3. Become(p, s)
    BY <1>2 DEF Crash
  <2> HIDE DEF s
  <2>4. Sound(p, s)
    BY <2>2 DEF Sound, Holds, Releases, Pending, Outcomes, Made, Starting, Stopping
  <2> QED
    BY <2>1, <2>3, <2>4, LeaveStep DEF Crash
<1> QED
  BY <1>1, <1>2

-----------------------------------------------------------------------------
(* One-shot runs and enqueuing processes                                   *)

\* A job that is made has an id that was not used, and is of no process yet.
LEMMA NextIsUnused ==
  ASSUME Unused # {}
  PROVE  NextJob \in Job /\ job[NextJob].status = "none"
BY DEF NextJob, Unused

LEMMA NewIsAJob ==
  ASSUME NEW queue \in {"starter-maintenance", "agents", "reports"},
         NEW row \in Method \cup {None}
  PROVE  /\ New(queue, row) \in JobState
         /\ New(queue, row).status = "pending" /\ New(queue, row).row = row
         /\ New(queue, row).attempts = 0
<1>1. 0 \in 0 .. MaxAttempts
  BY WorkerRuntimeAssumption
<1>2. NoJob \in JobState
  BY <1>1 DEF NoJob, JobState
<1>3. New(queue, row) = [NoJob EXCEPT !.status = "pending", !.queue = queue, !.row = row]
  BY DEF New
<1>4. New(queue, row) \in JobState
  BY <1>2, <1>3 DEF JobState
<1>5. NoJob.attempts = 0
  BY DEF NoJob
<1>6. /\ New(queue, row).status = "pending" /\ New(queue, row).row = row
      /\ New(queue, row).attempts = NoJob.attempts
  BY <1>2, <1>3 DEF JobState
<1> QED
  BY <1>4, <1>5, <1>6

\* What a new job changes: of the schedule it is for, one more is under way.
LEMMA Makes ==
  ASSUME IInv, Unused # {}, NEW queue \in {"starter-maintenance", "agents", "reports"},
         NEW row \in Used \cup {None}, job' = [job EXCEPT ![NextJob] = New(queue, row)],
         news' = news, Used' = Used
  PROVE  /\ job' \in [Job -> JobState] /\ NextJob \in Job
         /\ job'[NextJob].status = "pending" /\ job[NextJob].status = "none"
         /\ \A j \in Job \ {NextJob} : job'[j] = job[j]
         /\ JobsGo /\ Rows' /\ Told'
         /\ \A m \in Method :
              /\ Covering(m)' \subseteq Covering(m) \cup (IF row = m THEN {NextJob} ELSE {})
              /\ LiveOf(m)' \subseteq LiveOf(m) \cup (IF row = m THEN {NextJob} ELSE {})
<1>1. NextJob \in Job /\ job[NextJob].status = "none"
  BY NextIsUnused
<1>2. row \in Method \cup {None}
  BY DEF Used
<1>3. /\ New(queue, row) \in JobState
      /\ New(queue, row).status = "pending" /\ New(queue, row).row = row
      /\ New(queue, row).attempts = 0
  BY <1>2, NewIsAJob
<1>4. job \in [Job -> JobState]
  BY DEF IInv, TypeOK
<1>5. job'[NextJob] = New(queue, row) /\ \A j \in Job \ {NextJob} : job'[j] = job[j]
  BY <1>1, <1>4
<1>6. job' \in [Job -> JobState]
  BY <1>1, <1>3, <1>4
<1>7. JobsGo
  BY <1>1, <1>3, <1>5 DEF JobsGo
<1>8. Rows'
  <2>1. MaxAttempts \in Nat \ {0}
    BY WorkerRuntimeAssumption
  <2> QED
    BY <1>1, <1>3, <1>5, <2>1 DEF IInv, Rows
<1>9. Told'
  BY <1>1, <1>5 DEF IInv, Told
<1>10. ASSUME NEW m \in Method
       PROVE  /\ Covering(m)' \subseteq Covering(m) \cup (IF row = m THEN {NextJob} ELSE {})
              /\ LiveOf(m)' \subseteq LiveOf(m) \cup (IF row = m THEN {NextJob} ELSE {})
  BY <1>1, <1>3, <1>5 DEF Covering, Unreported, LiveOf, Scheduled, Live
<1> QED
  BY <1>1, <1>3, <1>5, <1>6, <1>7, <1>8, <1>9, <1>10

LEMMA EnqueueStep ==
  ASSUME IInv, NEW p \in Process, Enqueue(p)
  PROVE  IInv' /\ Limits
<1> DEFINE s == [proc[p] EXCEPT !.todo = Tail(@), !.mine = @ \cup {NextJob}]
<1>1. /\ At(p, "enqueue") /\ proc[p].todo # << >> /\ Unused # {}
      /\ job' = [job EXCEPT ![NextJob] = New("starter-maintenance", None)]
      /\ Become(p, s) /\ UNCHANGED <<deployment, schedule, news, faults, skew>>
  BY DEF Enqueue
<1>2. /\ job' \in [Job -> JobState] /\ NextJob \in Job
      /\ job'[NextJob].status = "pending" /\ job[NextJob].status = "none"
      /\ \A j \in Job \ {NextJob} : job'[j] = job[j]
      /\ JobsGo /\ Rows' /\ Told'
      /\ \A m \in Method :
           /\ Covering(m)' \subseteq Covering(m) \cup (IF None = m THEN {NextJob} ELSE {})
           /\ LiveOf(m)' \subseteq LiveOf(m) \cup (IF None = m THEN {NextJob} ELSE {})
  <2>1. Used' = Used
    BY <1>1 DEF Used
  <2> QED
    BY <1>1, <2>1, Makes
<1>3. proc[p] \in ProcState /\ Sound(p, proc[p]) /\ proc[p].pc = "enqueue"
  BY <1>1, Now DEF At
<1>4. proc[p].todo \in Seq(Method) /\ proc[p].mine \subseteq Job
  BY <1>3, Fields
<1>5. Tail(proc[p].todo) \in Seq(Method) /\ Len(Tail(proc[p].todo)) = Len(proc[p].todo) - 1
  BY <1>1, <1>4, TailOfMany
<1>6. s \in ProcState
  BY <1>2, <1>3, <1>4, <1>5 DEF ProcState
<1>7. /\ s.pc = "enqueue" /\ s.mine = proc[p].mine \cup {NextJob}
      /\ s.todo = Tail(proc[p].todo)
      /\ s.db = proc[p].db /\ s.handlers = proc[p].handlers
      /\ s.scheduler = proc[p].scheduler /\ s.runner = proc[p].runner
      /\ s.unstopped = proc[p].unstopped /\ s.erred = proc[p].erred
      /\ s.started = proc[p].started /\ s.abandoned = proc[p].abandoned
  BY <1>3 DEF ProcState
<1> HIDE DEF s
<1>8. /\ proc' \in [Process -> ProcState] /\ proc'[p] = s
      /\ \A q \in Process \ {p} : proc'[q] = proc[q]
  BY <1>1, <1>6, Becomes DEF IInv
<1>9. TypeOK'
  <2>1. deployment' \in Deployments /\ faults' \in 0 .. deployment'.faults
    BY <1>1, FaultsCount DEF IInv
  <2> QED
    BY <1>1, <1>2, <1>8, <2>1 DEF IInv, TypeOK
<1>10. Sound(p, proc[p])'
  <2>1. Holds(s) /\ Releases(s)
    BY <1>3, <1>7 DEF Sound, Holds, Releases, Starting, Stopping
  <2>2. Cardinality(s.mine) = Cardinality(proc[p].mine) + 1
    <3>1. NextJob \notin proc[p].mine
      BY <1>2, <1>3 DEF Sound, Made
    <3>2. IsFiniteSet(proc[p].mine)
      BY <1>4, WorkerRuntimeAssumption, FS_Subset
    <3> QED
      BY <1>7, <3>1, <3>2, FS_AddElement
  <2>3. Cardinality(s.mine) + Len(s.todo) = Len(Methods)
    <3>1. Cardinality(proc[p].mine) + Len(proc[p].todo) = Len(Methods)
      BY <1>3 DEF Sound, Pending
    <3>2. Cardinality(proc[p].mine) \in Nat /\ Len(proc[p].todo) \in Nat
      BY <1>4, WorkerRuntimeAssumption, FS_Subset, FS_CardinalityType
    <3> QED
      BY <1>5, <1>7, <2>2, <3>1, <3>2
  <2>4. Pending(p, s)
    BY <1>7, <2>3 DEF Pending
  <2>5. Holds(proc[p])' /\ Releases(proc[p])' /\ Pending(p, proc[p])'
    BY <1>8, <2>1, <2>4 DEF Holds, Releases, Pending
  <2>6. Outcomes(p, proc[p])'
    BY <1>7, <1>8 DEF Outcomes, Stopping
  <2>7. Made(proc[p])'
    BY <1>2, <1>3, <1>4, <1>7, <1>8 DEF Sound, Made
  <2> QED
    BY <2>5, <2>6, <2>7 DEF Sound
<1>11. Processes'
  BY <1>2, <1>8, <1>10, ProcessesGo DEF IInv
<1>12. Owners'
  <2> SUFFICES ASSUME NEW j \in Job, job'[j].status = "running", job'[j].owner # None
               PROVE  proc'[job'[j].owner].pc \in Serving
    BY DEF Owners
  <2>1. job'[j] = job[j]
    BY <1>2
  <2>2. job[j].owner \in Process /\ proc[job[j].owner].pc \in Serving
    BY <2>1 DEF IInv, TypeOK, JobState, Owners
  <2>3. "enqueue" \notin Serving
    BY DEF Serving, Stopping
  <2> QED
    BY <1>3, <1>8, <2>1, <2>2, <2>3
<1>13. \A m \in Method : Covering(m)' \subseteq Covering(m) /\ LiveOf(m)' \subseteq LiveOf(m)
  BY <1>2, WorkerRuntimeAssumption
<1>14. CountCoversJobs'
  <2>1. \A m \in Method : schedule[m].running \in Int /\ skew[m] \in Int
    BY DEF IInv, TypeOK, RowState, NoRow
  <2> QED
    BY <1>1, <1>9, <1>13, <2>1, CountsGo
<1>15. Limits
  BY <1>13, QuietLimits DEF Quiet
<1> QED
  BY <1>2, <1>9, <1>11, <1>12, <1>14, <1>15 DEF IInv

LEMMA EnqueuedStep ==
  ASSUME IInv, NEW p \in Process, Enqueued(p)
  PROVE  IInv' /\ Limits
<1> DEFINE s == [proc[p] EXCEPT !.pc = IF p \in Once THEN "boot" ELSE "return"]
<1>1. proc[p] \in ProcState /\ Sound(p, proc[p]) /\ proc[p].pc = "enqueue" /\ proc[p].todo = << >>
  BY Now DEF Enqueued, At
<1>2. s \in ProcState
  BY <1>1 DEF ProcState, Starting
<1>3. /\ s.pc \in {"boot", "return"} /\ s.mine = proc[p].mine
      /\ s.pc = "boot" <=> p \in Once
      /\ s.db = proc[p].db /\ s.handlers = proc[p].handlers
      /\ s.scheduler = proc[p].scheduler /\ s.runner = proc[p].runner
      /\ s.unstopped = proc[p].unstopped /\ s.erred = proc[p].erred
      /\ s.started = proc[p].started /\ s.abandoned = proc[p].abandoned
  BY <1>1 DEF ProcState
<1>4. Become(p, s)
  BY <1>1 DEF Enqueued, Goto, Become
<1> HIDE DEF s
<1>5. Cardinality(proc[p].mine) = Len(Methods)
  <2>1. Cardinality(proc[p].mine) + 0 = Len(Methods)
    BY <1>1 DEF Sound, Pending
  <2>2. Cardinality(proc[p].mine) \in Nat
    BY <1>1, Fields, WorkerRuntimeAssumption, FS_Subset, FS_CardinalityType
  <2> QED
    BY <2>1, <2>2
<1>6. Sound(p, s)
  BY <1>1, <1>3, <1>5 DEF Sound, Holds, Releases, Pending, Outcomes, Made, Starting, Stopping
<1> QED
  BY <1>1, <1>2, <1>4, <1>6, PlainStep DEF Enqueued, Serving, Stopping

LEMMA EnqueueFailsStep ==
  ASSUME IInv, NEW p \in Process, EnqueueFails(p)
  PROVE  IInv' /\ Limits
<1> DEFINE s == [proc[p] EXCEPT !.pc = "return", !.erred = TRUE]
<1>1. proc[p] \in ProcState /\ Sound(p, proc[p])
  BY Now
<1>2. s \in ProcState
  BY <1>1 DEF ProcState
<1>3. /\ s.pc = "return" /\ s.erred /\ s.mine = proc[p].mine
      /\ s.db = proc[p].db /\ s.handlers = proc[p].handlers
      /\ s.scheduler = proc[p].scheduler /\ s.runner = proc[p].runner
  BY <1>1 DEF ProcState
<1>4. Become(p, s) /\ proc[p].pc = "enqueue"
  BY DEF EnqueueFails, At
<1> HIDE DEF s
<1>5. Sound(p, s)
  BY <1>1, <1>3, <1>4 DEF Sound, Holds, Releases, Pending, Outcomes, Made, Starting, Stopping
<1> QED
  BY <1>2, <1>4, <1>5, PlainStep DEF EnqueueFails, Serving, Stopping

\* None of its jobs waits or runs, and none has failed: they went well.
LEMMA FinishedStep ==
  ASSUME IInv, NEW p \in Process, Finished(p)
  PROVE  IInv' /\ Limits
<1> DEFINE failed == proc[p].bad # {} \/ \E j \in proc[p].mine : job[j].status = "failed"
           s == [proc[p] EXCEPT !.pc = "stopScheduler", !.handlers = FALSE, !.erred = failed]
<1>1. proc[p] \in ProcState /\ Sound(p, proc[p])
  BY Now
<1>2. failed \in BOOLEAN
  OBVIOUS
<1>3. failed <=> proc[p].bad # {} \/ \E j \in proc[p].mine : job[j].status = "failed"
  OBVIOUS
<1>4. Become(p, s) /\ proc[p].pc = "up" /\ ~ \E j \in proc[p].mine : Live(j)
  BY DEF Finished, At
<1> HIDE DEF failed
<1>5. s \in ProcState
  BY <1>1, <1>2 DEF ProcState, Stopping
<1>6. /\ s.pc = "stopScheduler" /\ s.mine = proc[p].mine /\ ~s.handlers
      /\ s.db = proc[p].db /\ s.erred = failed /\ s.abandoned = proc[p].abandoned
  BY <1>1 DEF ProcState
<1> HIDE DEF s
<1>7. Outcomes(p, s)
  <2> SUFFICES ASSUME ~failed, NEW j \in proc[p].mine
               PROVE  job[j].status \in {"completed", "cancelled"}
    BY <1>6 DEF Outcomes
  <2>1. j \in Job /\ job[j] \in JobState
    BY <1>1, Fields DEF IInv, TypeOK
  <2>2. job[j].status \in {"none", "pending", "running"} \cup Ended
    BY <2>1 DEF JobState
  <2> QED
    BY <1>1, <1>3, <1>4, <2>2 DEF Sound, Made, Live, Ended
<1>8. Sound(p, s)
  BY <1>1, <1>4, <1>6, <1>7 DEF Sound, Holds, Releases, Pending, Made, Starting, Stopping
<1> QED
  BY <1>4, <1>5, <1>6, <1>8, PlainStep DEF Finished, Serving, Stopping

LEMMA TimesOutStep ==
  ASSUME IInv, NEW p \in Process, TimesOut(p)
  PROVE  IInv' /\ Limits
BY ThrowStep DEF TimesOut, At

-----------------------------------------------------------------------------
(* The jobs                                                                *)

\* One job that is under way changes; its end, if it ends, is to be reported.
LEMMA JobStep ==
  ASSUME IInv, NEW j \in Job, NEW t \in JobState, job' = [job EXCEPT ![j] = t],
         UNCHANGED <<deployment, schedule, proc, skew>>, Fault \/ faults' = faults,
         Live(j), t.row = job[j].row, t.status # "none",
         t.status = "pending" => t.attempts < MaxAttempts,
         t.status = "running" /\ t.owner # None => proc[t.owner].pc \in Serving,
         \/ news' = news
         \/ \E p \in Process : /\ news' = news \cup {<<p, j>>}
                               /\ t.status \in {"completed", "failed"} /\ t.owner = p
  PROVE  IInv' /\ Limits
<1>1. job \in [Job -> JobState] /\ news \subseteq Process \X Job
  BY DEF IInv, TypeOK
<1>2. job' \in [Job -> JobState] /\ job'[j] = t /\ \A i \in Job \ {j} : job'[i] = job[i]
  BY <1>1
<1>3. TypeOK'
  <2>1. deployment' \in Deployments /\ faults' \in 0 .. deployment'.faults
    BY FaultsCount DEF IInv
  <2>2. news' \subseteq Process \X Job
    BY <1>1
  <2> QED
    BY <1>2, <2>1, <2>2 DEF IInv, TypeOK
<1>4. JobsGo
  BY <1>2 DEF JobsGo, Live
<1>5. Processes'
  BY <1>4, ProcessesStay DEF IInv
<1>6. Rows'
  <2>1. Used' = Used
    BY DEF Used
  <2> QED
    BY <1>2, <2>1 DEF IInv, Rows
<1>7. Owners'
  BY <1>2 DEF IInv, Owners
<1>8. Told'
  <2> SUFFICES ASSUME NEW q \in Process, NEW i \in Job, <<q, i>> \in news'
               PROVE  job'[i].status \in {"completed", "failed"} /\ job'[i].owner = q
    BY DEF Told
  <2>1. CASE <<q, i>> \in news
    <3>1. job[i].status \in {"completed", "failed"} /\ job[i].owner = q
      BY <2>1 DEF IInv, Told
    <3> QED
      BY <1>2, <3>1 DEF Live
  <2>2. CASE <<q, i>> \notin news
    BY <1>2, <2>2
  <2> QED
    BY <2>1, <2>2
<1>9. \A m \in Method : LiveOf(m)' \subseteq LiveOf(m)
  BY <1>2 DEF LiveOf, Scheduled, Live
<1>10. \A m \in Method : Covering(m)' \subseteq Covering(m)
  <2> SUFFICES ASSUME NEW m \in Method, NEW i \in Job, i \in Covering(m)'
               PROVE  i \in Covering(m)
    BY FiniteNext
  <2>1. job'[i].row = m /\ (Live(i)' \/ \E q \in Process : <<q, i>> \in news')
    BY DEF Covering, LiveOf, Unreported, Scheduled
  <2>2. job[i].row = m
    BY <1>2, <2>1
  <2>3. CASE i = j
    BY <2>2, <2>3 DEF Covering, LiveOf, Scheduled
  <2>4. CASE i # j
    <3>1. Live(i) \/ \E q \in Process : <<q, i>> \in news
      BY <1>2, <2>1, <2>4 DEF Live
    <3> QED
      BY <2>2, <3>1 DEF Covering, LiveOf, Unreported, Scheduled
  <2> QED
    BY <2>3, <2>4
<1>11. CountCoversJobs'
  <2>1. \A m \in Method : schedule[m].running \in Int /\ skew[m] \in Int
    BY DEF IInv, TypeOK, RowState, NoRow
  <2> QED
    BY <1>3, <1>10, <2>1, CountsGo
<1>12. Limits
  BY <1>9, QuietLimits DEF Quiet
<1> QED
  BY <1>3, <1>5, <1>6, <1>7, <1>8, <1>11, <1>12 DEF IInv

\* A row of a job, by its fields
LEMMA JobFields ==
  ASSUME IInv, NEW j \in Job
  PROVE  /\ job[j] \in JobState /\ job \in [Job -> JobState]
         /\ job[j].attempts \in 0 .. MaxAttempts /\ job[j].owner \in Process \cup {None}
BY DEF IInv, TypeOK, JobState

LEMMA CancelStep ==
  ASSUME IInv, NEW j \in Job, Cancel(j)
  PROVE  IInv' /\ Limits
<1> DEFINE t == [job[j] EXCEPT !.status = "cancelled"]
<1>1. job[j] \in JobState
  BY JobFields
<1>2. t \in JobState
  BY <1>1 DEF JobState, Ended
<1>3. t.status = "cancelled" /\ t.row = job[j].row
  BY <1>1 DEF JobState
<1>4. job' = [job EXCEPT ![j] = t]
  BY DEF Cancel
<1> HIDE DEF t
<1> QED
  BY <1>2, <1>3, <1>4, JobStep DEF Cancel, Live

LEMMA ClaimStep ==
  ASSUME IInv, NEW p \in Process, NEW j \in Job, Claim(p, j)
  PROVE  IInv' /\ Limits
<1> DEFINE t == [job[j] EXCEPT !.status = "running", !.owner = p, !.attempts = @ + 1]
<1>1. job[j] \in JobState /\ job[j].attempts \in 0 .. MaxAttempts /\ job \in [Job -> JobState]
  BY JobFields
<1>2. job[j].attempts < MaxAttempts /\ job[j].status = "pending"
  BY DEF IInv, Rows, Claim
<1>3. job[j].attempts + 1 \in 0 .. MaxAttempts
  BY <1>1, <1>2, WorkerRuntimeAssumption
<1>4. t \in JobState
  BY <1>1, <1>3 DEF JobState
<1>5. t.status = "running" /\ t.row = job[j].row /\ t.owner = p
  BY <1>1 DEF JobState
<1>6. job' = [job EXCEPT ![j] = t]
  BY <1>1 DEF Claim
<1> HIDE DEF t
<1>7. proc[p].pc \in Serving
  <2>1. proc[p].runner /\ proc[p].pc # "exited" /\ Sound(p, proc[p]) /\ proc[p] \in ProcState
    BY Now DEF Claim, Alive
  <2>2. proc[p].pc \in {"down", "enqueue", "up", "return", "exited"} \cup Starting \cup Stopping
    BY <2>1 DEF ProcState
  <2> QED
    BY <2>1, <2>2 DEF Sound, Holds, Serving, Starting
<1> QED
  BY <1>2, <1>4, <1>5, <1>6, <1>7, JobStep DEF Claim, Live

LEMMA CompletesStep ==
  ASSUME IInv, NEW p \in Process, NEW j \in Job, Completes(p, j)
  PROVE  IInv' /\ Limits
<1> DEFINE t == [job[j] EXCEPT !.status = "completed"]
<1>1. job[j] \in JobState
  BY JobFields
<1>2. t \in JobState
  BY <1>1 DEF JobState, Ended
<1>3. t.status = "completed" /\ t.row = job[j].row /\ t.owner = job[j].owner
  BY <1>1 DEF JobState
<1>4. job' = [job EXCEPT ![j] = t] /\ job[j].status = "running" /\ job[j].owner = p
  BY DEF Completes, RunBy
<1> HIDE DEF t
<1> QED
  BY <1>2, <1>3, <1>4, JobStep DEF Completes, Live

LEMMA FailsStep ==
  ASSUME IInv, NEW p \in Process, NEW j \in Job, Fails(p, j)
  PROVE  IInv' /\ Limits
<1>1. job[j] \in JobState /\ job \in [Job -> JobState]
  BY JobFields
<1>2. job[j].status = "running" /\ job[j].owner = p
  BY DEF Fails, RunBy
<1>3. CASE job[j].attempts < MaxAttempts
  <2> DEFINE t == [job[j] EXCEPT !.status = "pending", !.owner = None]
  <2>1. t \in JobState
    BY <1>1 DEF JobState
  <2>2. t.status = "pending" /\ t.row = job[j].row /\ t.attempts = job[j].attempts
    BY <1>1 DEF JobState
  <2>3. job' = [job EXCEPT ![j] = t] /\ news' = news
    BY <1>1, <1>3 DEF Fails
  <2> HIDE DEF t
  <2> QED
    BY <1>2, <1>3, <2>1, <2>2, <2>3, JobStep DEF Fails, Live
<1>4. CASE ~ (job[j].attempts < MaxAttempts)
  <2> DEFINE t == [job[j] EXCEPT !.status = "failed"]
  <2>1. t \in JobState
    BY <1>1 DEF JobState, Ended
  <2>2. t.status = "failed" /\ t.row = job[j].row /\ t.owner = job[j].owner
    BY <1>1 DEF JobState
  <2>3. job' = [job EXCEPT ![j] = t] /\ news' = news \cup {<<p, j>>}
    BY <1>4 DEF Fails
  <2> HIDE DEF t
  <2> QED
    BY <1>2, <2>1, <2>2, <2>3, JobStep DEF Fails, Live
<1> QED
  BY <1>3, <1>4

LEMMA RecoverStep ==
  ASSUME IInv, NEW j \in Job, Recover(j)
  PROVE  IInv' /\ Limits
<1> DEFINE status == IF job[j].attempts < MaxAttempts THEN "pending" ELSE "failed"
           t == [job[j] EXCEPT !.status = status]
<1>1. job[j] \in JobState
  BY JobFields
<1>2. t \in JobState
  BY <1>1 DEF JobState, Ended
<1>3. t.status = status /\ t.row = job[j].row /\ t.attempts = job[j].attempts
  BY <1>1 DEF JobState
<1>4. job' = [job EXCEPT ![j] = t] /\ job[j].status = "running"
  BY DEF Recover
<1> HIDE DEF t
<1> QED
  BY <1>2, <1>3, <1>4, JobStep DEF Recover, Live

-----------------------------------------------------------------------------
(* The schedules and the counts                                            *)

\* Ids that are kept back are not used.
LEMMA SpareIsUnused == Spare => Unused # {}
<1> SUFFICES ASSUME Spare, Unused = {}
             PROVE  FALSE
  OBVIOUS
<1> DEFINE waiting == deployed \cap (Once \cup Enqueuer)
<1>1. IsFiniteSet(waiting)
  <2>1. waiting \subseteq Process
    BY DEF Process
  <2> QED
    BY <2>1, WorkerRuntimeAssumption, FS_Subset
<1>2. Cardinality(waiting) \in Nat /\ Len(Methods) \in Nat /\ Cardinality(Unused) = 0
  BY <1>1, FS_CardinalityType, FS_EmptySet, WorkerRuntimeAssumption
<1>3. Len(Methods) * Cardinality(waiting) \in Nat
  BY <1>2
<1>4. Cardinality(Unused) > Len(Methods) * Cardinality(waiting)
  BY DEF Spare
<1> HIDE DEF waiting
<1> QED
  BY <1>2, <1>3, <1>4

\* A count is set: the schedules that are there stay.
LEMMA CountIsSet ==
  ASSUME TypeOK, NEW m \in Used, NEW n \in Int,
         schedule' = [schedule EXCEPT ![m].running = n]
  PROVE  /\ m \in Method /\ schedule' \in [Method -> RowState] /\ Used' = Used
         /\ schedule'[m].running = n
         /\ \A o \in Method \ {m} : schedule'[o] = schedule[o]
<1>1. m \in Method /\ schedule \in [Method -> RowState] /\ schedule[m] # NoRow
  BY DEF TypeOK, Used
<1>2. schedule[m] \in [def : Definition, running : Int] /\ None \notin Definition
  BY <1>1, WorkerRuntimeAssumption DEF RowState
<1> DEFINE row == [schedule[m] EXCEPT !.running = n]
<1>3. row \in [def : Definition, running : Int] /\ row.running = n
  BY <1>2
<1>4. row \in RowState /\ row # NoRow
  BY <1>2, <1>3 DEF RowState, NoRow
<1>5. schedule' = [schedule EXCEPT ![m] = row]
  OBVIOUS
<1> HIDE DEF row
<1>6. schedule' \in [Method -> RowState] /\ schedule'[m] = row
      /\ \A o \in Method \ {m} : schedule'[o] = schedule[o]
  BY <1>1, <1>4, <1>5
<1>7. Used' = Used
  BY <1>1, <1>4, <1>6 DEF Used
<1> QED
  BY <1>1, <1>3, <1>6, <1>7

\* A set with one more element is larger by one at the most.
LEMMA OneMore ==
  ASSUME NEW S, IsFiniteSet(S), NEW x, NEW T, T \subseteq S \cup {x}
  PROVE  Cardinality(T) <= Cardinality(S) + 1
<1>1. /\ IsFiniteSet(S \cup {x})
      /\ Cardinality(S \cup {x}) = IF x \in S THEN Cardinality(S) ELSE Cardinality(S) + 1
  BY FS_AddElement
<1>2. Cardinality(T) <= Cardinality(S \cup {x}) /\ IsFiniteSet(T)
  BY <1>1, FS_Subset
<1>3. Cardinality(S) \in Nat /\ Cardinality(T) \in Nat
  BY <1>2, FS_CardinalityType
<1> QED
  BY <1>1, <1>2, <1>3

LEMMA SubmitStep ==
  ASSUME IInv, Submit
  PROVE  IInv' /\ Limits
<1>1. /\ Unused # {} /\ job' = [job EXCEPT ![NextJob] = New("reports", None)]
      /\ UNCHANGED <<deployment, schedule, proc, news, faults, skew>>
  BY SpareIsUnused DEF Submit
<1>2. /\ job' \in [Job -> JobState] /\ NextJob \in Job
      /\ job'[NextJob].status = "pending" /\ job[NextJob].status = "none"
      /\ \A j \in Job \ {NextJob} : job'[j] = job[j]
      /\ JobsGo /\ Rows' /\ Told'
      /\ \A m \in Method :
           /\ Covering(m)' \subseteq Covering(m) \cup (IF None = m THEN {NextJob} ELSE {})
           /\ LiveOf(m)' \subseteq LiveOf(m) \cup (IF None = m THEN {NextJob} ELSE {})
  <2>1. Used' = Used
    BY <1>1 DEF Used
  <2> QED
    BY <1>1, <2>1, Makes
<1>3. TypeOK'
  BY <1>1, <1>2 DEF IInv, TypeOK
<1>4. Processes'
  BY <1>1, <1>2, ProcessesStay DEF IInv
<1>5. Owners'
  BY <1>1, <1>2 DEF IInv, Owners
<1>6. \A m \in Method : Covering(m)' \subseteq Covering(m) /\ LiveOf(m)' \subseteq LiveOf(m)
  BY <1>2, WorkerRuntimeAssumption
<1>7. CountCoversJobs'
  <2>1. \A m \in Method : schedule[m].running \in Int /\ skew[m] \in Int
    BY DEF IInv, TypeOK, RowState, NoRow
  <2> QED
    BY <1>1, <1>3, <1>6, <2>1, CountsGo
<1>8. Limits
  BY <1>6, QuietLimits DEF Quiet
<1> QED
  BY <1>2, <1>3, <1>4, <1>5, <1>7, <1>8 DEF IInv

\* The schedule runner counts the job it makes; it makes none at the limit, as
\* the schedule has it.
LEMMA TriggerStep ==
  ASSUME IInv, NEW p \in Process, NEW m \in Method, Trigger(p, m)
  PROVE  IInv' /\ Limits
<1>1. /\ Unused # {} /\ job' = [job EXCEPT ![NextJob] = New("agents", m)]
      /\ m \in Used /\ schedule[m].running < 1
      /\ schedule' = [schedule EXCEPT ![m].running = @ + 1]
      /\ UNCHANGED <<deployment, proc, news, faults, skew>>
  BY SpareIsUnused DEF Trigger
<1>2. \A o \in Method : schedule[o].running \in Int /\ skew[o] \in Int
  BY DEF IInv, TypeOK, RowState, NoRow
<1>3. /\ schedule' \in [Method -> RowState] /\ Used' = Used
      /\ schedule'[m].running = schedule[m].running + 1
      /\ \A o \in Method \ {m} : schedule'[o] = schedule[o]
  <2>1. schedule[m].running + 1 \in Int
    BY <1>2
  <2> QED
    BY <1>1, <2>1, CountIsSet DEF IInv
<1>4. /\ job' \in [Job -> JobState] /\ NextJob \in Job
      /\ job'[NextJob].status = "pending" /\ job[NextJob].status = "none"
      /\ \A j \in Job \ {NextJob} : job'[j] = job[j]
      /\ JobsGo /\ Rows' /\ Told'
      /\ \A o \in Method :
           /\ Covering(o)' \subseteq Covering(o) \cup (IF m = o THEN {NextJob} ELSE {})
           /\ LiveOf(o)' \subseteq LiveOf(o) \cup (IF m = o THEN {NextJob} ELSE {})
  BY <1>1, <1>3, Makes
<1>5. TypeOK'
  BY <1>1, <1>3, <1>4 DEF IInv, TypeOK
<1>6. Processes'
  BY <1>1, <1>4, ProcessesStay DEF IInv
<1>7. Owners'
  BY <1>1, <1>4 DEF IInv, Owners
<1>8. /\ Cardinality(Covering(m)') <= Cardinality(Covering(m)) + 1
      /\ Cardinality(LiveOf(m)') <= Cardinality(LiveOf(m)) + 1
  <2>1. /\ Covering(m)' \subseteq Covering(m) \cup {NextJob}
        /\ LiveOf(m)' \subseteq LiveOf(m) \cup {NextJob}
    BY <1>4
  <2> QED
    BY <2>1, Finite, OneMore
<1>9. ASSUME NEW o \in Method, o # m
      PROVE  /\ Cardinality(Covering(o)') <= Cardinality(Covering(o))
             /\ Cardinality(LiveOf(o)') <= Cardinality(LiveOf(o))
  <2>1. Covering(o)' \subseteq Covering(o) /\ LiveOf(o)' \subseteq LiveOf(o)
    BY <1>4, <1>9
  <2> QED
    BY <2>1, Finite, FS_Subset
<1>10. \A o \in Method : schedule[o].running >= skew[o] + Cardinality(Covering(o))
  BY DEF IInv, CountCoversJobs, Covering
<1>11. CountCoversJobs'
  <2> SUFFICES ASSUME NEW o \in Method
               PROVE  schedule'[o].running >= skew'[o] + Cardinality(Covering(o)')
    BY DEF CountCoversJobs, Covering
  <2>1. CASE o = m
    BY <1>1, <1>2, <1>3, <1>8, <1>10, <2>1, Finite, FiniteNext
  <2>2. CASE o # m
    BY <1>1, <1>2, <1>3, <1>9, <1>10, <2>2, Finite, FiniteNext
  <2> QED
    BY <2>1, <2>2
<1>12. Limits
  <2> SUFFICES ASSUME NEW o \in Method, Cardinality(LiveOf(o)) <= 1, Cardinality(LiveOf(o)') > 1
               PROVE  skew[o] < 0
    BY DEF Limits
  <2>1. o = m
    BY <1>9, Finite, FiniteNext
  <2>2. Cardinality(LiveOf(m)) = 1
    BY <1>8, <2>1, Finite, FiniteNext
  <2>3. Cardinality(LiveOf(m)) <= Cardinality(Covering(m))
    BY Finite, FS_Subset DEF Covering
  <2> QED
    BY <1>1, <1>2, <1>10, <2>1, <2>2, <2>3, Finite
<1> QED
  BY <1>1, <1>4, <1>5, <1>6, <1>7, <1>11, <1>12 DEF IInv

\* The end of a job is reported once: where the count falls, it covers a job
\* less.
LEMMA ReportStep ==
  ASSUME IInv, NEW p \in Process, NEW j \in Job, Report(p, j)
  PROVE  IInv' /\ Limits
<1> DEFINE m == job[j].row
<1>1. /\ <<p, j>> \in news /\ news' = news \ {<<p, j>>}
      /\ UNCHANGED <<deployment, job, skew>> /\ (Fault \/ faults' = faults)
  BY DEF Report
<1>2. job[j].status \in {"completed", "failed"} /\ job[j].owner = p
  BY <1>1 DEF IInv, Told
<1>3. \A o \in Method : schedule[o].running \in Int /\ skew[o] \in Int
  BY DEF IInv, TypeOK, RowState, NoRow
<1>4. m \in Used \cup {None}
  BY DEF IInv, Rows
<1>5. \/ schedule' = schedule
      \/ m \in Used /\ schedule' = [schedule EXCEPT ![m].running = @ - 1]
  BY <1>4 DEF Report
<1>6. /\ schedule' \in [Method -> RowState] /\ Used' = Used
      /\ \A o \in Method :
           \/ schedule'[o].running = schedule[o].running
           \/ o = m /\ schedule'[o].running = schedule[o].running - 1
  <2>1. CASE schedule' = schedule
    BY <2>1 DEF IInv, TypeOK, Used
  <2>2. CASE m \in Used /\ schedule' = [schedule EXCEPT ![m].running = @ - 1]
    <3>1. schedule[m].running - 1 \in Int /\ m \in Method
      BY <1>3, <2>2 DEF Used
    <3> HIDE DEF m
    <3> QED
      BY <2>2, <3>1, CountIsSet DEF IInv
  <2> QED
    BY <1>5, <2>1, <2>2
<1> DEFINE s == IF j \in proc[p].mine /\ job[j].status = "failed"
                THEN [proc[p] EXCEPT !.bad = @ \cup {j}] ELSE proc[p]
<1>7. proc[p] \in ProcState /\ Sound(p, proc[p]) /\ proc \in [Process -> ProcState]
  BY Now DEF IInv, TypeOK
<1>8. Become(p, s)
  BY <1>7 DEF Report, Become
<1>9. s \in ProcState
  BY <1>7 DEF ProcState
<1>10. /\ s.pc = proc[p].pc /\ s.mine = proc[p].mine /\ s.todo = proc[p].todo
       /\ s.outer = proc[p].outer /\ s.db = proc[p].db /\ s.handlers = proc[p].handlers
       /\ s.scheduler = proc[p].scheduler /\ s.runner = proc[p].runner
       /\ s.unstopped = proc[p].unstopped /\ s.erred = proc[p].erred
       /\ s.started = proc[p].started /\ s.abandoned = proc[p].abandoned
  BY <1>7 DEF ProcState
<1> HIDE DEF s
<1>11. /\ proc' \in [Process -> ProcState] /\ proc'[p] = s
       /\ \A q \in Process \ {p} : proc'[q] = proc[q]
  BY <1>8, <1>9, Becomes DEF IInv
<1>12. TypeOK'
  <2>1. deployment' \in Deployments /\ faults' \in 0 .. deployment'.faults
    BY <1>1, FaultsCount DEF IInv
  <2> QED
    BY <1>1, <1>6, <1>11, <2>1 DEF IInv, TypeOK
<1>13. Processes'
  <2>1. Holds(s) /\ Releases(s) /\ Pending(p, s)
    BY <1>7, <1>10 DEF Sound, Holds, Releases, Pending
  <2>2. Outcomes(p, s) /\ Made(s)
    BY <1>7, <1>10 DEF Sound, Outcomes, Made
  <2>3. Sound(p, proc[p])'
    BY <1>1, <1>11, <2>1, <2>2 DEF Sound, Outcomes, Made, Holds, Releases, Pending
  <2>4. JobsGo
    BY <1>1 DEF JobsGo
  <2> QED
    BY <1>11, <2>3, <2>4, ProcessesGo DEF IInv
<1>14. Rows' /\ Told'
  BY <1>1, <1>6 DEF IInv, Rows, Told
<1>15. Owners'
  <2> SUFFICES ASSUME NEW i \in Job, job[i].status = "running", job[i].owner # None
               PROVE  proc'[job[i].owner].pc \in Serving
    BY <1>1 DEF Owners
  <2>1. job[i].owner \in Process /\ proc[job[i].owner].pc \in Serving
    BY JobFields DEF IInv, Owners
  <2> QED
    BY <1>10, <1>11, <2>1
<1>16. \A o \in Method :
         /\ LiveOf(o)' = LiveOf(o)
         /\ Covering(o)' \subseteq Covering(o)
         /\ o = m => j \in Covering(o) /\ j \notin Covering(o)'
  <2>1. ~ Live(j) /\ \A q \in Process : <<q, j>> \notin news'
    BY <1>1, <1>2 DEF Live, IInv, Told
  <2>2. \A o \in Method : LiveOf(o)' = LiveOf(o) /\ Unreported(o)' \subseteq Unreported(o)
    BY <1>1 DEF LiveOf, Scheduled, Live, Unreported
  <2>3. \A o \in Method : o = m => j \in Unreported(o)
    BY <1>1 DEF Unreported, Scheduled
  <2>4. \A o \in Method : j \notin Unreported(o)' /\ j \notin LiveOf(o)'
    BY <1>1, <2>1, <2>2 DEF Unreported, LiveOf
  <2> QED
    BY <2>2, <2>3, <2>4 DEF Covering
<1>17. CountCoversJobs'
  <2> SUFFICES ASSUME NEW o \in Method
               PROVE  schedule'[o].running >= skew'[o] + Cardinality(Covering(o)')
    BY DEF CountCoversJobs, Covering
  <2>1. schedule[o].running >= skew[o] + Cardinality(Covering(o))
    BY DEF IInv, CountCoversJobs, Covering
  <2>2. Cardinality(Covering(o)') <= Cardinality(Covering(o))
    BY <1>16, Finite, FS_Subset
  <2>3. CASE o = m
    <3>1. Covering(o)' \subseteq Covering(o) /\ Covering(o)' # Covering(o)
      BY <1>16, <2>3
    <3>2. Cardinality(Covering(o)') <= Cardinality(Covering(o)) - 1
      BY <3>1, <2>2, Finite, FiniteNext, FS_Subset
    <3> QED
      BY <1>1, <1>3, <1>6, <2>1, <3>2, Finite, FiniteNext
  <2>4. CASE o # m
    BY <1>1, <1>3, <1>6, <2>1, <2>2, <2>4, Finite, FiniteNext
  <2> QED
    BY <2>3, <2>4
<1>18. Limits
  BY <1>16, QuietLimits DEF Quiet
<1> QED
  BY <1>12, <1>13, <1>14, <1>15, <1>17, <1>18 DEF IInv

-----------------------------------------------------------------------------
(* The invariant                                                           *)

LEMMA Initially == Init => IInv
<1> SUFFICES ASSUME Init PROVE IInv
  OBVIOUS
<1>1. /\ deployment \in Deployments /\ schedule = [m \in Method |-> NoRow]
      /\ job = [j \in Job |-> NoJob] /\ proc = [p \in Process |-> Fresh]
      /\ news = {} /\ faults = 0 /\ skew = [m \in Method |-> 0]
  BY DEF Init
<1>2. TypeOK
  <2>1. schedule \in [Method -> RowState] /\ skew \in [Method -> Int]
    BY <1>1 DEF RowState
  <2>2. NoJob \in JobState
    <3>1. 0 \in 0 .. MaxAttempts
      BY WorkerRuntimeAssumption
    <3> QED
      BY <3>1 DEF NoJob, JobState
  <2>3. deployment.faults \in Nat
    BY <1>1, WorkerRuntimeAssumption
  <2> QED
    BY <1>1, <2>1, <2>2, <2>3, FreshIsFine DEF TypeOK
<1>3. Processes
  <2> SUFFICES ASSUME NEW p \in Process PROVE Sound(p, Fresh)
    BY <1>1 DEF Processes
  <2> QED
    BY DownIsSound
<1>4. Rows /\ Owners /\ Told
  BY <1>1 DEF Rows, Owners, Told, NoJob
<1>5. CountCoversJobs
  <2> SUFFICES ASSUME NEW m \in Method
               PROVE  schedule[m].running >= skew[m] + Cardinality(Covering(m))
    BY DEF CountCoversJobs, Covering
  <2>1. Covering(m) = {}
    BY <1>1 DEF Covering, LiveOf, Unreported, Scheduled, Live, NoJob
  <2>2. Cardinality(Covering(m)) = 0
    BY <2>1, FS_EmptySet
  <2>3. schedule[m].running = 0 /\ skew[m] = 0
    BY <1>1 DEF NoRow
  <2> QED
    BY <2>2, <2>3
<1> QED
  BY <1>2, <1>3, <1>4, <1>5 DEF IInv

LEMMA Step == IInv /\ [Next]_vars => IInv' /\ Limits
<1> SUFFICES ASSUME IInv, [Next]_vars
             PROVE  IInv' /\ Limits
  OBVIOUS
<1>1. ASSUME NEW p \in Process, Start(p)
      PROVE  IInv' /\ Limits
  BY <1>1, LaunchStep, BootStep, ListStep, CreateStep, CreateRefusedStep, KeepStep,
     SaveStep, StartSchedulerStep, StartRunnerStep
  DEF Start
<1>2. ASSUME NEW p \in Process, RunOnce(p)
      PROVE  IInv' /\ Limits
  BY <1>2, EnqueueStep, EnqueuedStep, FinishedStep, TimesOutStep DEF RunOnce
<1>3. ASSUME NEW p \in Process, Stop(p) \/ Signal(p)
      PROVE  IInv' /\ Limits
  BY <1>3, SignalStep, StopComponentsStep, ExitStep DEF Stop
<1>4. ASSUME NEW p \in Process, Trouble(p)
      PROVE  IInv' /\ Limits
  BY <1>4, BootFailsStep, RegistrationFailsStep, StartFailsStep, EnqueueFailsStep, CrashStep DEF Trouble
<1>5. ASSUME NEW p \in Process, NEW j \in Job, Work(p, j)
      PROVE  IInv' /\ Limits
  BY <1>5, ClaimStep, CompletesStep, FailsStep, ReportStep DEF Work
<1>6. ASSUME NEW p \in Process, NEW m \in Method, Trigger(p, m)
      PROVE  IInv' /\ Limits
  BY <1>6, TriggerStep
<1>7. ASSUME NEW j \in Job, Cancel(j) \/ Recover(j)
      PROVE  IInv' /\ Limits
  BY <1>7, CancelStep, RecoverStep
<1>8. CASE Submit
  BY <1>8, SubmitStep
<1>9. ASSUME UNCHANGED vars
      PROVE  IInv' /\ Limits
  <2>0. /\ deployment' = deployment /\ schedule' = schedule /\ job' = job /\ proc' = proc
        /\ news' = news /\ faults' = faults /\ skew' = skew
    BY <1>9 DEF vars
  <2>1. TypeOK' /\ Rows' /\ Owners' /\ Told'
    BY <2>0 DEF IInv, TypeOK, Rows, Owners, Told, Used
  <2>2. JobsGo
    BY <2>0 DEF JobsGo
  <2>3. Processes'
    BY <2>0, <2>2, ProcessesStay DEF IInv
  <2>4. \A m \in Method : Covering(m)' = Covering(m) /\ LiveOf(m)' = LiveOf(m)
    BY <2>0 DEF Covering, LiveOf, Unreported, Scheduled, Live
  <2>5. \A m \in Method : schedule[m].running \in Int /\ skew[m] \in Int
    BY DEF IInv, TypeOK, RowState, NoRow
  <2>6. CountCoversJobs'
    BY <2>0, <2>1, <2>4, <2>5, CountsGo
  <2> QED
    BY <2>1, <2>3, <2>4, <2>6, QuietLimits DEF IInv, Quiet
<1> QED
  BY <1>1, <1>2, <1>3, <1>4, <1>5, <1>6, <1>7, <1>8, <1>9 DEF Next

\* The invariant holds in every state of the worker processes.
THEOREM Invariance == Spec => []IInv
<1>1. IInv /\ [Next]_vars => IInv'
  BY Step
<1> QED
  BY <1>1, Initially, PTL DEF Spec

-----------------------------------------------------------------------------
(* What it gives                                                           *)

\* Every row, record and count is one the code can hold, whatever fails: in
\* particular no waiting job has used up its attempts.
THEOREM TypeCorrect == Spec => []TypeOK
<1>1. IInv => TypeOK
  BY DEF IInv
<1> QED
  BY <1>1, Invariance, PTL

\* startSmrtWorkerRuntime and stopSmrtWorkerRuntimeComponents: what was brought
\* up is released, in the order that jobs rely on, whatever fails where but for
\* two things: a component that could not be stopped, and the registrations,
\* which fail before the runner and the scheduler are there.
THEOREM ComponentsAreReleased == Spec => []LifecycleIsOrderly
<1>1. IInv => LifecycleIsOrderly
  <2> SUFFICES ASSUME IInv, NEW p \in Process
               PROVE  /\ (proc[p].runner \/ proc[p].scheduler) /\ ~proc[p].unstopped => proc[p].db
                      /\ RunBy(p) # {} /\ ~proc[p].handlers => proc[p].pc \in Stopping \cup {"return"}
                      /\ proc[p].pc = "return" /\ ~proc[p].unstopped /\ ~proc[p].abandoned =>
                           ~proc[p].db /\ ~proc[p].handlers /\ ~proc[p].runner /\ ~proc[p].scheduler
                      /\ proc[p].pc = "return" /\ proc[p].handlers => proc[p].abandoned
                      /\ proc[p].abandoned =>
                           /\ proc[p].pc \in {"return", "exited"} /\ proc[p].erred
                           /\ ~proc[p].runner /\ ~proc[p].scheduler
                      /\ proc[p].pc = "exited" /\ proc[p].outer => proc[p].started /\ proc[p].unstopped
    BY DEF LifecycleIsOrderly
  <2>1. proc[p] \in ProcState /\ Sound(p, proc[p])
    BY Now
  <2>2. proc[p].pc \in {"down", "enqueue", "up", "return", "exited"} \cup Starting \cup Stopping
    BY <2>1 DEF ProcState
  <2>3. (proc[p].runner \/ proc[p].scheduler) /\ ~proc[p].unstopped => proc[p].db
    BY <2>1, <2>2 DEF Sound, Holds, Releases, Starting, Stopping
  <2>4. ASSUME RunBy(p) # {}, ~proc[p].handlers
        PROVE  proc[p].pc \in Stopping \cup {"return"}
    <3>1. PICK j \in Job : job[j].status = "running" /\ job[j].owner = p
      BY <2>4 DEF RunBy
    <3>2. p # None
      BY WorkerRuntimeAssumption
    <3>3. proc[p].pc \in Serving
      BY <3>1, <3>2 DEF IInv, Owners
    <3> QED
      BY <2>1, <2>4, <3>3 DEF Serving, Sound, Holds
  <2>5. /\ proc[p].pc = "return" /\ proc[p].handlers => proc[p].abandoned
        /\ proc[p].abandoned =>
             /\ proc[p].pc \in {"return", "exited"} /\ proc[p].erred
             /\ ~proc[p].runner /\ ~proc[p].scheduler
        /\ proc[p].pc = "return" /\ ~proc[p].unstopped /\ ~proc[p].abandoned =>
             ~proc[p].db /\ ~proc[p].runner /\ ~proc[p].scheduler
        /\ proc[p].pc = "exited" /\ proc[p].outer => proc[p].started /\ proc[p].unstopped
    BY <2>1 DEF Sound, Holds, Releases
  <2> QED
    BY <2>3, <2>4, <2>5
<1> QED
  BY <1>1, Invariance, PTL

\* runQueuedMaintenanceJobsOnce: a one-shot run that ends without an error has
\* made a job of every request, and each has completed or was cancelled.
THEOREM OneShotsTellTheTruth == Spec => []OneShotTruth
<1>1. IInv => OneShotTruth
  <2> SUFFICES ASSUME IInv, NEW p \in Once, proc[p].pc = "exited", ~proc[p].erred
               PROVE  /\ Cardinality(proc[p].mine) = Len(Methods)
                      /\ \A j \in proc[p].mine : job[j].status \in {"completed", "cancelled"}
    BY DEF OneShotTruth
  <2>1. Sound(p, proc[p])
    BY Now DEF Process
  <2> QED
    BY <2>1 DEF Sound, Pending, Outcomes
<1> QED
  BY <1>1, Invariance, PTL

\* wireTaskRunner and the seeding: the running_count of a schedule covers its
\* jobs but for what saves put back, and two come to be under way only then.
THEOREM CountsLimitJobs == Spec => CountLimitsJobs
<1>1. ASSUME IInv, [Next]_vars
      PROVE  [/\ CountCoversJobs'
              /\ \A m \in Method :
                   Cardinality(LiveOf(m)) <= 1 /\ Cardinality(LiveOf(m)') > 1 => skew[m] < 0]_vars
  BY <1>1, Step DEF IInv, Limits
<1> QED
  BY <1>1, Invariance, PTL DEF Spec, CountLimitsJobs

-----------------------------------------------------------------------------
(* The next run of a schedule: parts of an expression, and their steps     *)

\* What matchesCronPart computes with %: a distance is a multiple of the step
\* exactly if it leaves no rest.
LEMMA RestOfMultiple ==
  ASSUME NEW k \in Nat, NEW s \in Nat, s > 0, NEW x \in Nat, x = k * s
  PROVE  x % s = 0
<1>1. x % s \in 0 .. (s - 1) /\ x = ((x \div s) * s) + (x % s) /\ x \div s \in Int
  OBVIOUS
<1>2. ASSUME NEW q \in Int, NEW r \in 0 .. (s - 1), k * s = (q * s) + r
      PROVE  r = 0
  <2>1. (k - q) * s = r BY <1>2
  <2>2. CASE k - q >= 1 BY <2>1, <2>2
  <2>3. CASE k - q <= -1 BY <2>1, <2>3
  <2>4. CASE k - q = 0 BY <2>1, <2>4
  <2> QED BY <2>2, <2>3, <2>4
<1> QED BY <1>1, <1>2

LEMMA MultipleWithoutRest ==
  ASSUME NEW s \in Nat, s > 0, NEW x \in Nat, x % s = 0
  PROVE  x \div s \in 0 .. x /\ x = (x \div s) * s
OBVIOUS

\* A value of a range is counted by the step exactly if it is the start and
\* a number of steps.
LEMMA CountedByStep ==
  ASSUME NEW from \in Nat, NEW v \in Nat, v >= from, NEW s \in Nat, s > 0
  PROVE  (v - from) % s = 0 <=> \E k \in 0 .. v : v = from + k * s
<1>1. ASSUME (v - from) % s = 0 PROVE \E k \in 0 .. v : v = from + k * s
  <2> DEFINE k == (v - from) \div s
  <2>1. k \in 0 .. (v - from) /\ v - from = k * s
    BY <1>1, MultipleWithoutRest
  <2>2. k \in 0 .. v /\ v = from + k * s BY <2>1
  <2> QED BY <2>2
<1>2. ASSUME NEW k \in 0 .. v, v = from + k * s PROVE (v - from) % s = 0
  BY <1>2, RestOfMultiple
<1> QED BY <1>1, <1>2

-----------------------------------------------------------------------------
(* Parts and fields                                                        *)

\* What a part is given in: numbers that the field can hold.
Fits(part, field) ==
  part \in Part /\ part.from <= Highest(field) /\ part.to <= Highest(field)

LEMMA BoundsAreNumbers ==
  ASSUME NEW field \in Field
  PROVE  /\ Bounds[field].min \in Nat /\ Bounds[field].max \in Nat
         /\ Sunday7 \in Nat \ {0} /\ Highest(field) \in Nat
         /\ Bounds[field].max <= Highest(field)
         /\ field = "dayOfWeek" => Bounds[field].min = 0 /\ Bounds[field].max + 1 = Sunday7
BY CronScheduleAssumption DEF Field, Sunday7, Highest

LEMMA NumberIsNatural ==
  ASSUME NEW field \in Field, NEW n \in Nat
  PROVE  /\ Number(n, field) \in Nat /\ Number(n, field) <= n
         /\ Number(n, field) # n => n = Sunday7 /\ field = "dayOfWeek" /\ Number(n, field) = 0
         /\ n < Sunday7 => Number(n, field) = n
BY BoundsAreNumbers DEF Number

LEMMA NowIsNumbered ==
  ASSUME NEW t \in Nat, NEW field \in Field
  PROVE  ValueOf(t, field) \in Nat
<1>1. PerHour \in Nat \ {0} /\ Bounds["hour"].max + 1 \in Nat \ {0} /\ Sunday7 \in Nat \ {0}
  BY BoundsAreNumbers DEF PerHour, Field
<1>2. PerDay \in Nat \ {0} BY <1>1 DEF PerDay
<1>3. Day(t) \in Nat BY <1>2 DEF Day
<1>4. Len(Days) \in Nat \ {0} BY CronScheduleAssumption
<1>5. 1 + (Day(t) % Len(Days)) \in 1 .. Len(Days) BY <1>3, <1>4
<1>6. DateOf(t) \in Nat \X Nat BY <1>5, CronScheduleAssumption DEF DateOf
<1>7. DateOf(t)[1] \in Nat /\ DateOf(t)[2] \in Nat BY <1>6
<1>8. t % PerHour \in Nat BY <1>1
<1>9. (t \div PerHour) % (Bounds["hour"].max + 1) \in Nat
  <2>1. t \div PerHour \in Nat BY <1>1
  <2> QED BY <2>1, <1>1
<1>10. Day(t) % Sunday7 \in Nat BY <1>1, <1>3
<1> QED BY <1>7, <1>8, <1>9, <1>10 DEF ValueOf, Field

\* The test of a step in the code, and what Denoted says of it.
Tested(from, v, step) == step # 0 /\ (step # NoStep => (v - from) % step = 0)
Counted(from, v, step) ==
  LET s == IF step = NoStep THEN 1 ELSE step
  IN s # 0 /\ \E k \in 0 .. v : v = from + k * s

LEMMA TestedIsCounted ==
  ASSUME NEW from \in Nat, NEW v \in Nat, v >= from, NEW step \in Nat \cup {NoStep}
  PROVE  Tested(from, v, step) <=> Counted(from, v, step)
<1>1. CASE step = NoStep
  <2>1. v - from \in 0 .. v /\ v = from + (v - from) * 1 OBVIOUS
  <2> QED BY <1>1, <2>1, CronScheduleAssumption DEF Tested, Counted
<1>2. CASE step \in Nat /\ step # 0
  <2>1. step # NoStep BY <1>2, CronScheduleAssumption
  <2>2. Tested(from, v, step) <=> (v - from) % step = 0 BY <1>2, <2>1 DEF Tested
  <2>3. Counted(from, v, step) <=> \E k \in 0 .. v : v = from + k * step
    BY <1>2, <2>1 DEF Counted
  <2>4. step \in Nat /\ step > 0 BY <1>2
  <2>5. (v - from) % step = 0 <=> \E k \in 0 .. v : v = from + k * step
    BY <2>4, CountedByStep
  <2> QED BY <2>2, <2>3, <2>5
<1>3. CASE step = 0
  BY <1>3, CronScheduleAssumption DEF Tested, Counted
<1> QED BY <1>1, <1>2, <1>3

\* Denoted, with its local definitions named
First(part, field) ==
  CASE part.kind = "all" -> Bounds[field].min
    [] part.kind = "value" -> part.from
    [] part.kind = "range" ->
         IF part.from <= part.to THEN part.from ELSE Number(part.from, field)
Last(part, field) ==
  CASE part.kind = "all" -> Bounds[field].max
    [] part.kind = "value" -> IF part.step = NoStep THEN part.from ELSE Highest(field)
    [] part.kind = "range" -> part.to

LEMMA DenotedMeans ==
  ASSUME NEW part, NEW field, NEW v
  PROVE  v \in Denoted(part, field) <=>
           \E n \in First(part, field) .. Last(part, field) :
             v = Number(n, field) /\ Counted(First(part, field), n, part.step)
BY DEF Denoted, First, Last, Counted

LEMMA MatchIsDenoted ==
  ASSUME NEW field \in Field, NEW part, Fits(part, field), NEW v \in Nat,
         MatchesPart(v, part, field)
  PROVE  v \in Denoted(part, field)
<1> DEFINE fst == First(part, field)
           lst == Last(part, field)
<1>0. /\ part.kind \in {"all", "value", "range"} /\ part.from \in Nat /\ part.to \in Nat
      /\ part.step \in Nat \cup {NoStep}
      /\ part.from <= Highest(field) /\ part.to <= Highest(field)
  BY DEF Fits, Part
<1>1. SUFFICES \E n \in fst .. lst : v = Number(n, field) /\ Counted(fst, n, part.step)
  BY DenotedMeans
<1>2. /\ v \in From(part, field) .. To(part, field)
      /\ Tested(From(part, field), v, part.step)
  BY DEF MatchesPart, Tested
<1>3. CASE part.kind = "all"
  <2>1. fst = Bounds[field].min /\ lst = Bounds[field].max
        /\ From(part, field) = fst /\ To(part, field) = lst
    BY <1>3 DEF First, Last, From, To
  <2>2. fst \in Nat /\ lst \in Nat /\ v \in fst .. lst BY <2>1, <1>2, BoundsAreNumbers
  <2>3. v = Number(v, field) BY <2>1, <2>2, NumberIsNatural, BoundsAreNumbers
  <2>4. Counted(fst, v, part.step)
    <3>1. v >= fst /\ Tested(fst, v, part.step) BY <2>1, <2>2, <1>2
    <3> QED BY <3>1, <2>2, <1>0, TestedIsCounted, Zenon
  <2> QED BY <2>2, <2>3, <2>4
<1>4. CASE part.kind = "value"
  <2>1. fst = part.from /\ lst \in Nat /\ lst >= part.from
    BY <1>0, <1>4, BoundsAreNumbers DEF First, Last
  <2>2. From(part, field) = Number(part.from, field) /\ To(part, field) = Number(part.from, field)
    BY <1>4 DEF From, To
  <2>3. v = Number(part.from, field) BY <2>2, <1>0, <1>2, NumberIsNatural
  <2>4. part.step # 0 BY <1>2 DEF Tested
  <2>5. Tested(fst, part.from, part.step)
    <3>1. part.from - part.from = 0 BY <1>0
    <3>2. part.step \in Nat => 0 % part.step = 0 BY <2>4
    <3> QED BY <2>1, <2>4, <3>1, <3>2, <1>0 DEF Tested
  <2>6. Counted(fst, part.from, part.step)
    <3>1. fst \in Nat /\ part.from >= fst BY <2>1, <1>0
    <3> QED BY <3>1, <2>5, <1>0, TestedIsCounted, Zenon
  <2> QED BY <2>1, <2>3, <2>6, <1>0
<1>5. CASE part.kind = "range"
  <2>1. /\ fst = IF part.from <= part.to THEN part.from ELSE Number(part.from, field)
        /\ lst = part.to
        /\ From(part, field) = Number(part.from, field)
        /\ To(part, field) = Number(part.to, field)
    BY <1>5 DEF First, Last, From, To
  <2>2. /\ Number(part.from, field) \in Nat /\ Number(part.to, field) \in Nat
        /\ Number(part.to, field) <= part.to
    BY <1>0, NumberIsNatural
  <2>3. CASE fst = Number(part.from, field)
    <3>1. v \in fst .. lst BY <2>1, <2>2, <2>3, <1>0, <1>2
    <3>2. v = Number(v, field)
      <4>1. v <= Number(part.to, field) BY <1>2, <2>1, <2>2
      <4>2. field = "dayOfWeek" => Number(part.to, field) # Sunday7
        BY <1>0, BoundsAreNumbers DEF Number
      <4>3. field = "dayOfWeek" => part.to <= Sunday7 BY <1>0 DEF Highest
      <4>4. field = "dayOfWeek" => v < Sunday7
        BY <4>1, <4>2, <4>3, <2>2, <1>0, BoundsAreNumbers
      <4> QED BY <4>4, BoundsAreNumbers DEF Number
    <3>3. Counted(fst, v, part.step)
      <4>1. fst \in Nat /\ v >= fst /\ Tested(fst, v, part.step)
        BY <2>1, <2>2, <2>3, <1>2
      <4> QED BY <4>1, <1>0, TestedIsCounted, Zenon
    <3> QED BY <3>1, <3>2, <3>3
  <2>4. CASE fst # Number(part.from, field)
    <3>1. part.from <= part.to /\ fst = part.from /\ Number(part.from, field) # part.from
      BY <2>1, <2>4
    <3>2. field = "dayOfWeek" /\ part.from = Sunday7 /\ Number(part.from, field) = 0
      BY <3>1, <1>0, NumberIsNatural
    <3>3. part.to = Sunday7 BY <3>1, <3>2, <1>0, BoundsAreNumbers DEF Highest
    <3>4. v = 0 BY <3>2, <3>3, <2>1, <1>2
    <3>5. v = Number(part.from, field) BY <3>2, <3>4
    <3>6. part.step # 0 BY <1>2 DEF Tested
    <3>7. Tested(fst, part.from, part.step)
      <4>1. part.from - part.from = 0 BY <1>0
      <4>2. part.step \in Nat => 0 % part.step = 0 BY <3>6
      <4> QED BY <3>1, <3>6, <4>1, <4>2, <1>0 DEF Tested
    <3>8. Counted(fst, part.from, part.step)
      <4>1. fst \in Nat /\ part.from >= fst BY <3>1, <1>0
      <4> QED BY <4>1, <3>7, <1>0, TestedIsCounted, Zenon
    <3> QED BY <3>1, <3>5, <3>8, <2>1, <1>0
  <2> QED BY <2>3, <2>4
<1> QED BY <1>0, <1>3, <1>4, <1>5

\* Without the two kinds of parts that are read as less, nothing is lost.
LEMMA DenotedIsMatch ==
  ASSUME NEW field \in Field, NEW part, Fits(part, field), NEW v \in Nat,
         ~(part.kind = "value" /\ part.step # NoStep),
         ~(part.kind = "range" /\ Number(part.to, field) # part.to),
         v \in Denoted(part, field)
  PROVE  MatchesPart(v, part, field)
<1> DEFINE fst == First(part, field)
           lst == Last(part, field)
<1>0. /\ part.kind \in {"all", "value", "range"} /\ part.from \in Nat /\ part.to \in Nat
      /\ part.step \in Nat \cup {NoStep}
      /\ part.from <= Highest(field) /\ part.to <= Highest(field)
  BY DEF Fits, Part
<1>1. PICK n \in fst .. lst : v = Number(n, field) /\ Counted(fst, n, part.step)
  BY DenotedMeans
<1>2. SUFFICES /\ v \in From(part, field) .. To(part, field)
               /\ Tested(From(part, field), v, part.step)
  BY DEF MatchesPart, Tested
<1>3. CASE part.kind = "all"
  <2>1. fst = Bounds[field].min /\ lst = Bounds[field].max
        /\ From(part, field) = fst /\ To(part, field) = lst
    BY <1>3 DEF First, Last, From, To
  <2>2. fst \in Nat /\ lst \in Nat /\ n \in Nat /\ n >= fst BY <2>1, BoundsAreNumbers
  <2>3. v = n BY <1>1, <2>1, <2>2, NumberIsNatural, BoundsAreNumbers
  <2> QED BY <1>0, <1>1, <2>1, <2>2, <2>3, TestedIsCounted
<1>4. CASE part.kind = "value"
  <2>1. fst = part.from /\ lst = part.from /\ part.step = NoStep BY <1>4 DEF First, Last
  <2>2. v = Number(part.from, field) BY <1>0, <1>1, <2>1
  <2>3. From(part, field) = v /\ To(part, field) = v BY <1>4, <2>2 DEF From, To
  <2>4. NoStep # 0 BY CronScheduleAssumption
  <2> QED BY <2>1, <2>3, <2>4 DEF Tested
<1>5. CASE part.kind = "range"
  <2>1. /\ fst = IF part.from <= part.to THEN part.from ELSE Number(part.from, field)
        /\ lst = part.to
        /\ From(part, field) = Number(part.from, field)
        /\ To(part, field) = part.to
    BY <1>5 DEF First, Last, From, To
  <2>2. fst \in Nat /\ Number(part.from, field) \in Nat BY <2>1, <1>0, NumberIsNatural
  <2>3. n \in Nat /\ n >= fst /\ n <= part.to BY <1>0, <1>1, <2>1, <2>2
  <2>4. field = "dayOfWeek" => part.to # Sunday7
    BY <1>5, BoundsAreNumbers DEF Number
  <2>5. field = "dayOfWeek" => part.to < Sunday7
    BY <2>4, <1>0, BoundsAreNumbers DEF Highest
  <2>6. v = n BY <1>1, <2>3, <2>5, <1>0, BoundsAreNumbers DEF Number
  <2>7. fst = Number(part.from, field)
    BY <2>1, <2>5, <1>0, BoundsAreNumbers DEF Number
  <2> QED BY <1>0, <1>1, <2>1, <2>2, <2>3, <2>6, <2>7, TestedIsCounted
<1> QED BY <1>0, <1>3, <1>4, <1>5

-----------------------------------------------------------------------------
(* Expressions                                                             *)

LEMMA PartsFit ==
  ASSUME cron \in Crons, NEW field \in Field, NEW part \in cron[field]
  PROVE  Fits(part, field)
BY CronScheduleAssumption DEF Fits

LEMMA MatchedFieldIsStandard ==
  ASSUME cron \in Crons, NEW t \in Nat, NEW field \in Field, MatchesField(t, field)
  PROVE  Standard(t, field)
BY PartsFit, NowIsNumbered, MatchIsDenoted DEF MatchesField, Standard

LEMMA StandardFieldIsMatched ==
  ASSUME cron \in Crons, ~ReadsLess, NEW t \in Nat, NEW field \in Field, Standard(t, field)
  PROVE  MatchesField(t, field)
<1>1. PICK part \in cron[field] : ValueOf(t, field) \in Denoted(part, field)
  BY DEF Standard
<1>2. Fits(part, field) /\ ValueOf(t, field) \in Nat BY PartsFit, NowIsNumbered
<1>3. /\ ~(part.kind = "value" /\ part.step # NoStep)
      /\ ~(part.kind = "range" /\ Number(part.to, field) # part.to)
  BY DEF ReadsLess
<1>4. MatchesPart(ValueOf(t, field), part, field) BY <1>1, <1>2, <1>3, DenotedIsMatch
<1> QED BY <1>4 DEF MatchesField

LEMMA MatchIsStandard ==
  ASSUME cron \in Crons, NEW t \in Nat, Matches(t)
  PROVE  StandardDate(t)
BY MatchedFieldIsStandard DEF Matches, StandardDate, Field

LEMMA StandardIsMatch ==
  ASSUME cron \in Crons, ~ReadsLess, NEW t \in Nat, StandardDate(t)
  PROVE  Matches(t)
<1>1. \A field \in Field : Standard(t, field)
  <2>1. Starred("dayOfMonth") \/ Starred("dayOfWeek") BY DEF ReadsLess
  <2> QED BY <2>1 DEF StandardDate, Field
<1> QED BY <1>1, StandardFieldIsMatched DEF Matches

-----------------------------------------------------------------------------
(* The search                                                              *)

Searched ==
  /\ SearchTypeOK
  /\ NextIsFirst
  /\ outcome = "error" => index = Horizon

\* The search keeps its variables in their types, has passed over nothing
\* that matches, and gives up only at the horizon.
THEOREM SearchIsInOrder == SearchSpec => []Searched
<1>1. SearchInit => Searched
  BY CronScheduleAssumption DEF SearchInit, Searched, SearchTypeOK, NextIsFirst
<1>2. Searched /\ [SearchNext]_searchVars => Searched'
  <2> SUFFICES ASSUME Searched, [SearchNext]_searchVars PROVE Searched'
    OBVIOUS
  <2>0. cron' = cron => \A t : Matches(t)' <=> Matches(t)
    BY DEF Matches, MatchesField
  <2>1. CASE Found
    BY <2>1, <2>0 DEF Found, Searched, SearchTypeOK, NextIsFirst
  <2>2. CASE Advance
    <3>1. SearchTypeOK' BY <2>2, CronScheduleAssumption DEF Advance, Searched, SearchTypeOK
    <3>2. candidate' = start' + 1 + index' /\ outcome' = "search"
      BY <2>2, CronScheduleAssumption DEF Advance, Searched, SearchTypeOK, NextIsFirst
    <3>3. ASSUME NEW t \in start' + 1 .. start' + index' PROVE ~Matches(t)'
      <4>1. start \in Nat /\ index \in Nat /\ candidate = start + 1 + index
            /\ start' = start /\ index' = index + 1 /\ cron' = cron /\ ~Matches(candidate)
        BY <2>2, CronScheduleAssumption DEF Advance, Searched, SearchTypeOK, NextIsFirst
      <4>2. t \in start + 1 .. start + index \/ t = candidate BY <4>1, <3>3
      <4>3. ~Matches(t) BY <4>1, <4>2 DEF Searched, NextIsFirst
      <4> QED BY <4>1, <4>3, <2>0
    <3> QED BY <3>1, <3>2, <3>3 DEF Searched, NextIsFirst
  <2>3. CASE NoDate
    BY <2>3, <2>0 DEF NoDate, Searched, SearchTypeOK, NextIsFirst
  <2>4. CASE UNCHANGED searchVars
    BY <2>4, <2>0 DEF searchVars, Searched, SearchTypeOK, NextIsFirst
  <2> QED BY <2>1, <2>2, <2>3, <2>4 DEF SearchNext
<1> QED BY <1>1, <1>2, PTL DEF SearchSpec

\* The next run of a schedule is the first standard date after now, but for
\* the expressions that are read as less, and those of no common year.
THEOREM NextRunIsStandard == SearchSpec => []NextIsStandard
<1>1. Searched => NextIsStandard
  <2> SUFFICES ASSUME Searched PROVE NextIsStandard
    OBVIOUS
  <2>1. /\ cron \in Crons /\ start \in Nat /\ index \in Nat
        /\ candidate = start + 1 + index /\ candidate \in Nat
    BY CronScheduleAssumption DEF Searched, SearchTypeOK, NextIsFirst
  <2>2. outcome = "found" => candidate > start /\ StandardDate(candidate)
    BY <2>1, MatchIsStandard DEF Searched, NextIsFirst
  <2>3. ASSUME ~ReadsLess, NEW t \in start + 1 .. start + index PROVE ~StandardDate(t)
    BY <2>1, <2>3, StandardIsMatch DEF Searched, NextIsFirst
  <2>4. outcome = "error" => index = Horizon BY DEF Searched
  <2> QED BY <2>2, <2>3, <2>4 DEF NextIsStandard
<1> QED BY <1>1, SearchIsInOrder, PTL

=============================================================================
