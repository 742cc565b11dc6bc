---------------------------- MODULE ProductionRun ----------------------------
(***************************************************************************)
(* The release gate (run-production-e2e.mjs, production-e2e-contract.mjs): *)
(* a run builds the images, starts PostgreSQL, the web image twice, an     *)
(* OIDC server and a worker on a network of its own, tests them, and       *)
(* removes what it owns.                                                   *)
(*                                                                         *)
(* Runs share the Docker host, perhaps the tag of the web image, and names *)
(* that others may have taken.  A command of Docker fails, with or without *)
(* having done something; containers exit; a run is killed.  An image is   *)
(* the run that built it, as its APP_VERSION tells.                        *)
(***************************************************************************)
EXTENDS Naturals, FiniteSets, Sequences

CONSTANTS
  Gate,        \* runs of the gate
  GateSetups   \* which of them run, what they share, how images behave, and a
               \* bound on what goes wrong

Service == {"postgres", "web", "restart", "oidc", "worker"}
Thing == Service \cup {"network"}

GateSetup ==
  [up : SUBSET Gate,
   tag : BOOLEAN,              \* E2E_WEB_IMAGE gives them one tag
   taken : SUBSET (Gate \X Thing), \* names that something else has
   drifts : BOOLEAN,           \* a second start of the image changes the seed
   mishaps : Nat]

ASSUME ProductionRunAssumption == GateSetups \subseteq GateSetup

VARIABLES
  gate,     \* the setup
  tagged,   \* the image under the tag of each run
  thing,    \* what is there, by run and name
  version,  \* the image a run's container was started from
  data,     \* the seed in the run's database
  stage,    \* how far the runs are
  mishaps   \* what has gone wrong so far

gateVars == <<gate, tagged, thing, version, data, stage, mishaps>>

Stages == <<"buildWeb", "buildWorker", "createNetwork", "startPostgres", "awaitPostgres",
            "startWeb", "awaitWeb", "readTables", "readSeed", "startOidc", "awaitOidc",
            "startWorker", "materialize", "startRestart", "awaitRestart", "probe",
            "compareSeed", "session", "suite">>
Removals == <<"worker", "oidc", "restart", "web", "postgres", "network">>

NewStage == [pc |-> "run", at |-> 1, failure |-> FALSE, seed |-> "none", missed |-> 0]
StageState ==
  [pc : {"run", "diagnose", "remove", "passed", "failed", "killed"},
   at : 1 .. Len(Stages),               \* of the stages, or of the removals
   failure : BOOLEAN,
   seed : {"none", "seeded", "drifted"},\* seedBeforeRestart
   missed : 0 .. gate.mishaps]          \* history: inspections that failed

GateTypeOK ==
  /\ gate \in GateSetups
  /\ tagged \in [Gate -> Gate \cup {"none"}]
  /\ thing \in [Gate -> [Thing -> {"absent", "foreign", "created", "started", "up", "exited"}]]
  /\ version \in [Gate -> [{"web", "restart"} -> Gate \cup {"none"}]]
  /\ data \in [Gate -> {"none", "empty", "seeded", "drifted"}]
  /\ stage \in [Gate -> StageState]
  /\ mishaps \in 0 .. gate.mishaps

GateInit ==
  /\ gate \in GateSetups
  /\ tagged = [r \in Gate |-> "none"]
  /\ thing = [r \in Gate |-> [n \in Thing |->
                IF <<r, n>> \in gate.taken THEN "foreign" ELSE "absent"]]
  /\ version = [r \in Gate |-> [n \in {"web", "restart"} |-> "none"]]
  /\ data = [r \in Gate |-> "none"]
  /\ stage = [r \in Gate |-> NewStage]
  /\ mishaps = 0

-----------------------------------------------------------------------------
(* Stages                                                                  *)

At(r, name) == stage[r].pc = "run" /\ Stages[stage[r].at] = name
Mishap == mishaps < gate.mishaps /\ mishaps' = mishaps + 1
IsUp(r, n) == thing[r][n] = "up"
IsRunning(r, n) == thing[r][n] \in {"started", "up"}

Proceeds(r) ==
  LET s == stage[r] IN
  stage' = [stage EXCEPT ![r] =
    IF s.at < Len(Stages) THEN [s EXCEPT !.at = @ + 1] ELSE [s EXCEPT !.pc = "diagnose"]]

\* An exception ends the stages.
Throws(r) == stage' = [stage EXCEPT ![r].pc = "diagnose", ![r].failure = TRUE]

BuildImages(r) ==
  /\ At(r, "buildWeb") \/ At(r, "buildWorker")
  /\ tagged' = IF At(r, "buildWorker") THEN tagged
               ELSE [x \in Gate |-> IF x = r \/ gate.tag THEN r ELSE tagged[x]]
  /\ Proceeds(r)
  /\ UNCHANGED <<gate, thing, version, data, mishaps>>

CreateNetwork(r) ==
  /\ At(r, "createNetwork")
  /\ IF thing[r]["network"] = "absent"
     THEN thing' = [thing EXCEPT ![r]["network"] = "up"] /\ Proceeds(r)
     ELSE UNCHANGED thing /\ Throws(r)
  /\ UNCHANGED <<gate, tagged, version, data, mishaps>>

\* docker run: the name is free and the container starts, or it is created
\* and does not start, and the command fails.
Runs(r, n) ==
  \/ thing[r][n] = "absent" /\ thing' = [thing EXCEPT ![r][n] = "started"] /\ Proceeds(r)
       /\ UNCHANGED mishaps
  \/ thing[r][n] = "absent" /\ Mishap /\ thing' = [thing EXCEPT ![r][n] = "created"] /\ Throws(r)
  \/ thing[r][n] # "absent" /\ Throws(r) /\ UNCHANGED <<thing, mishaps>>

StartPostgres(r) ==
  /\ At(r, "startPostgres") /\ Runs(r, "postgres")
  /\ data' = [data EXCEPT ![r] = IF thing'[r]["postgres"] = "started" THEN "empty" ELSE @]
  /\ UNCHANGED <<gate, tagged, version>>

StartOidcReadinessServer(r) ==
  At(r, "startOidc") /\ Runs(r, "oidc") /\ UNCHANGED <<gate, tagged, version, data>>

StartReportWorker(r) ==
  At(r, "startWorker") /\ Runs(r, "worker") /\ UNCHANGED <<gate, tagged, version, data>>

\* The image is the one the tag names now.
RunWeb(r, n) ==
  /\ Runs(r, n)
  /\ version' = [version EXCEPT ![r][n] = IF thing'[r][n] = "started" THEN tagged[r] ELSE @]
  /\ UNCHANGED <<gate, tagged, data>>

StartWeb(r) == (At(r, "startWeb") /\ RunWeb(r, "web")) \/ (At(r, "startRestart") /\ RunWeb(r, "restart"))

\* waitFor: until the container answers, or the time is over, or it has
\* stopped.
Await(r, name, n) ==
  /\ At(r, name)
  /\ \/ IsUp(r, n) /\ Proceeds(r) /\ UNCHANGED mishaps
     \/ ~IsRunning(r, n) /\ Throws(r) /\ UNCHANGED mishaps
     \/ ~IsUp(r, n) /\ Mishap /\ Throws(r)
  /\ UNCHANGED <<gate, tagged, thing, version, data>>

AwaitPostgres(r) == Await(r, "awaitPostgres", "postgres")
AwaitOidc(r) == Await(r, "awaitOidc", "oidc")

\* Mutant: any version will do.
AwaitAnyWeb(r) == Await(r, "awaitWeb", "web") \/ Await(r, "awaitRestart", "restart")

\* assertHealthPayload.  The version is taken to be the run's own: APP_VERSION
\* tells runs apart that build different commits, and to the code two runs of
\* one commit are the same.
AwaitWeb(r) ==
  \E n \in {"web", "restart"} : LET name == IF n = "web" THEN "awaitWeb" ELSE "awaitRestart" IN
    \/ (IsUp(r, n) => version[r][n] = r) /\ Await(r, name, n)
    \/ /\ At(r, name) /\ IsUp(r, n) /\ version[r][n] # r /\ Throws(r)
       /\ UNCHANGED <<gate, tagged, thing, version, data, mishaps>>

ReadDatabaseTables(r) ==
  /\ At(r, "readTables")
  /\ IF IsUp(r, "postgres") /\ data[r] # "empty" THEN Proceeds(r) ELSE Throws(r)
  /\ UNCHANGED <<gate, tagged, thing, version, data, mishaps>>

ReadSeedSnapshot(r) ==
  /\ At(r, "readSeed")
  /\ IF IsUp(r, "postgres")
     THEN stage' = [stage EXCEPT ![r].at = @ + 1, ![r].seed = data[r]] ELSE Throws(r)
  /\ UNCHANGED <<gate, tagged, thing, version, data, mishaps>>

\* The web application takes the refresh, the worker does it, with the OIDC
\* server's discovery.
MaterializeReport(r) ==
  /\ At(r, "materialize")
  /\ \/ /\ \A n \in {"postgres", "web", "oidc"} : IsUp(r, n)
        /\ IsUp(r, "worker") /\ Proceeds(r) /\ UNCHANGED mishaps
     \/ /\ \E n \in {"postgres", "web", "oidc", "worker"} : ~IsRunning(r, n)
        /\ Throws(r) /\ UNCHANGED mishaps
     \/ Mishap /\ Throws(r)
  /\ UNCHANGED <<gate, tagged, thing, version, data>>

ProbeCriticalRoutes(r) ==
  /\ At(r, "probe")
  /\ IF IsUp(r, "restart") /\ IsUp(r, "postgres") THEN Proceeds(r) ELSE Throws(r)
  /\ UNCHANGED <<gate, tagged, thing, version, data, mishaps>>

\* assertRequiredProductionTables again, and assertSeedSnapshot
CompareSeed(r) ==
  /\ At(r, "compareSeed")
  /\ IF IsUp(r, "postgres") /\ data[r] = stage[r].seed THEN Proceeds(r) ELSE Throws(r)
  /\ UNCHANGED <<gate, tagged, thing, version, data, mishaps>>

\* The session is made inside the web container, which must be the run's own;
\* then the suite, with the first container.
SessionAndSuite(r) ==
  /\ At(r, "session") \/ At(r, "suite")
  /\ IF IsUp(r, "web") /\ IsUp(r, "postgres") THEN Proceeds(r) ELSE Throws(r)
  /\ UNCHANGED <<gate, tagged, thing, version, data, mishaps>>

CommandFails(r) ==
  /\ Mishap /\ stage[r].pc = "run" /\ Throws(r)
  /\ UNCHANGED <<gate, tagged, thing, version, data>>

-----------------------------------------------------------------------------
(* Cleanup                                                                 *)

\* captureDiagnostics, which may fail
CaptureDiagnostics(r) ==
  /\ stage[r].pc = "diagnose"
  /\ \E fails \in BOOLEAN :
       /\ IF fails THEN Mishap ELSE UNCHANGED mishaps
       /\ stage' = [stage EXCEPT ![r].pc = "remove", ![r].at = 1, ![r].failure = @ \/ fails]
  /\ UNCHANGED <<gate, tagged, thing, version, data>>

Removed(r, failed, missed) ==
  LET s == [stage[r] EXCEPT !.failure = @ \/ failed, !.missed = @ + missed] IN
  stage' = [stage EXCEPT ![r] =
    IF s.at < Len(Removals) THEN [s EXCEPT !.at = @ + 1]
    ELSE [s EXCEPT !.pc = IF s.failure THEN "failed" ELSE "passed"]]

\* Mutant: whatever has the name is removed.
RemoveNamed(r) ==
  LET n == Removals[stage[r].at] IN
  /\ stage[r].pc = "remove"
  /\ thing' = [thing EXCEPT ![r][n] = "absent"] /\ Removed(r, FALSE, 0)
  /\ UNCHANGED <<gate, tagged, version, data, mishaps>>

\* An inspection that fails counts as absence, as does a thing without a label;
\* one with another run's is refused; the removal may fail, and that of a
\* network does while containers use it.
RemoveOwned(r) ==
  LET n == Removals[stage[r].at]
      used == n = "network" /\ \E x \in Service : IsRunning(r, x)
  IN /\ stage[r].pc = "remove"
     /\ \/ thing[r][n] = "absent" /\ Removed(r, FALSE, 0) /\ UNCHANGED <<thing, mishaps>>
        \/ thing[r][n] # "absent" /\ Mishap /\ Removed(r, FALSE, 1) /\ UNCHANGED thing
        \/ /\ thing[r][n] = "foreign" /\ UNCHANGED <<thing, mishaps>>
           /\ \E labelled \in BOOLEAN : Removed(r, labelled, 0)
        \/ /\ thing[r][n] \notin {"absent", "foreign"}
           /\ \/ used /\ Removed(r, TRUE, 0) /\ UNCHANGED <<thing, mishaps>>
              \/ Mishap /\ Removed(r, TRUE, 0) /\ UNCHANGED thing
              \/ /\ ~used /\ thing' = [thing EXCEPT ![r][n] = "absent"]
                 /\ Removed(r, FALSE, 0) /\ UNCHANGED mishaps
     /\ UNCHANGED <<gate, tagged, version, data>>

-----------------------------------------------------------------------------
(* The host                                                                *)

\* A container becomes able to answer; the entry point of the web image
\* migrates and seeds before it does.
ComesUp(r, n) ==
  /\ thing[r][n] = "started"
  /\ n \in {"web", "restart", "worker"} => IsUp(r, "postgres")
  /\ thing' = [thing EXCEPT ![r][n] = "up"]
  /\ data' = [data EXCEPT ![r] =
       IF n \notin {"web", "restart"} THEN @
       ELSE IF @ = "empty" THEN "seeded"
       ELSE IF gate.drifts THEN "drifted" ELSE @]
  /\ UNCHANGED <<gate, tagged, version, stage, mishaps>>

Exits(r, n) ==
  /\ Mishap /\ IsRunning(r, n)
  /\ thing' = [thing EXCEPT ![r][n] = "exited"]
  /\ UNCHANGED <<gate, tagged, version, data, stage>>

IsInterrupted(r) ==
  /\ Mishap /\ stage[r].pc \in {"run", "diagnose", "remove"}
  /\ stage' = [stage EXCEPT ![r].pc = "killed"]
  /\ UNCHANGED <<gate, tagged, thing, version, data>>

-----------------------------------------------------------------------------
GateStep(r) ==
  \/ BuildImages(r) \/ CreateNetwork(r) \/ StartPostgres(r) \/ AwaitPostgres(r) \/ StartWeb(r)
  \/ AwaitWeb(r) \/ ReadDatabaseTables(r) \/ ReadSeedSnapshot(r) \/ StartOidcReadinessServer(r)
  \/ AwaitOidc(r) \/ StartReportWorker(r) \/ MaterializeReport(r) \/ ProbeCriticalRoutes(r)
  \/ CompareSeed(r) \/ SessionAndSuite(r) \/ CommandFails(r)
  \/ CaptureDiagnostics(r) \/ RemoveOwned(r) \/ IsInterrupted(r)
  \/ \E n \in Service : ComesUp(r, n) \/ Exits(r, n)

GateNext == \E r \in gate.up : GateStep(r)

GateSpec == GateInit /\ [][GateNext]_gateVars

-----------------------------------------------------------------------------
(* Properties                                                              *)

Left(r) == {n \in Thing : thing[r][n] \notin {"absent", "foreign"}}

\* Whatever other runs tag, whichever commands fail and whatever exits: a run
\* passes only if both its web containers were built from its own version and
\* the second has left the seed as the first made it.  Something a run that
\* was not killed made stays behind only where an inspection or a removal
\* failed; and silently, with the run passed, a running container stays only
\* after two inspections failed, its own and the network's.  What somebody
\* else has under the names is never removed.
PassMeansTested ==
  /\ \A r \in Gate : stage[r].pc = "passed" =>
       /\ \A n \in {"web", "restart"} : version[r][n] = r
       /\ data[r] = stage[r].seed
       /\ Cardinality(Left(r)) <= stage[r].missed
       /\ \A n \in Service : IsRunning(r, n) => "network" \in Left(r)
  /\ \A t \in gate.taken : thing[t[1]][t[2]] = "foreign"
=============================================================================
