-------------------------- MODULE MCWorkerRuntime --------------------------
(* Small instances of WorkerRuntime: two runners that overlap while one is *)
(* rolled out with another cron; one of them with a runner that listens to *)
(* its queue without a scheduler; a runner with a one-shot run, with a     *)
(* process that only enqueues, and alone with report jobs.                 *)
EXTENDS WorkerRuntime, TLC

CONSTANTS old, new, lone, once, push

Deploy(processes, reported, troubles) ==
  [up |-> processes, reports |-> reported, faults |-> troubles]
Together ==
  {Deploy({old, new}, FALSE, 0), Deploy({new, lone}, FALSE, 1),
   Deploy({old, once}, FALSE, 1), Deploy({old, push}, FALSE, 1),
   Deploy({old}, TRUE, 1)}
Maintenance == <<"reconcileSubscriptions">>
Configured == [p \in Process |-> IF p \in {new, lone} THEN "hourly" ELSE "quarterly"]
=============================================================================
