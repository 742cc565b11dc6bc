----------------------------- MODULE WebStartup -----------------------------
(***************************************************************************)
(* How a database comes to hold what the web application needs: the        *)
(* container's entry point (smrt-start.mjs) migrates, seeds and serves;    *)
(* db:smoke migrates, seeds and checks the result with fixtures of its own *)
(* (smrt-db-migrate.mjs, fresh-postgres-bootstrap.mjs, smrt-db-seed.mjs,   *)
(* smrt-db-smoke.mjs of apps/web/scripts).                                 *)
(*                                                                         *)
(* Neither seed nor smoke is a transaction, so each statement is a step:   *)
(* containers, a check and the users of the application interleave, and a  *)
(* script fails or is killed between any two.  A row stands for the rows   *)
(* of one loop of the seed.  Of the identities those with the address of   *)
(* the demo's owner are kept: the demo's user, one who signs in with that  *)
(* address, and the profiles with it.                                      *)
(***************************************************************************)
EXTENDS Naturals, FiniteSets, Sequences

CONSTANTS
  Container,  \* web containers with SMRT_STARTER_MIGRATE_ON_START
  Check,      \* runs of db:smoke, one after the other
  Setups      \* which of them run, on which database, who else is about, and
              \* a bound on failures and kills

Script == Container \cup Check

\* In the order of the seed
SeedSteps == <<"tenant", "roles", "personType", "findPerson", "makePerson", "checkOwner",
               "bindOwner", "membership", "plans", "subscription", "settings", "usage",
               "aiUsage", "prompts", "languages", "request">>
OwnerSteps == {"findPerson", "makePerson", "checkOwner", "bindOwner"}
Row == {SeedSteps[i] : i \in DOMAIN SeedSteps} \ OwnerSteps

\* What people change in the application, and what db:smoke expects as seeded
Editable == {"subscription", "settings", "aiUsage", "prompts", "languages", "request"}
Compared == Editable \ {"request"}
Overrides == {"prompts", "languages"}

\* "scoped": a profile of a tenant, or one that is no Person
Person == {"demo", "visitor", "scoped"}
Fixture == {"reconciled", "oidc", "collision"}

SetupState ==
  [up : SUBSET Script, schema : {"empty", "foreign", "complete"},
   persons : SUBSET {"visitor", "scoped"},
   open : BOOLEAN,     \* people use the application meanwhile
   legacy : BOOLEAN,   \* a user without a Person is there
   troubles : Nat]

ASSUME WebStartupAssumption ==
  /\ Container \cap Check = {}
  /\ Setups \subseteq SetupState
  /\ \A s \in Setups : s.schema # "complete" => s.persons = {} /\ ~s.legacy

VARIABLES
  setup,    \* the setup
  schema,   \* "foreign": relations, but none of the application
  row,      \* "absent", as "seeded", "edited" or "removed"
  persons,  \* profiles with the address of the demo's owner
  owns,     \* the profile of the demo's user and of the visitor, or "nobody"
  legacy,   \* the user without a Person is still there
  fixture,  \* what is there of the fixtures of the checks
  audit,    \* an audit entry of a check is there
  script,   \* the scripts
  troubles  \* failures and kills so far

identities == <<persons, owns, legacy>>
fixtures == <<fixture, audit>>
startVars == <<setup, schema, row, identities, fixtures, script, troubles>>

NotRunning == [pc |-> "down", fresh |-> FALSE, at |-> 1, person |-> "nobody",
               fixture |-> "reconciled", known |-> FALSE, broken |-> FALSE, hit |-> FALSE]
ScriptState ==
  [pc : {"down", "inspect", "migrate", "keys", "seed", "serving", "tables", "unaudit", "clean",
         "insert", "verify", "backfill", "delete", "rest", "passed", "failed", "killed"},
   fresh : BOOLEAN,                 \* the schema was empty
   at : 1 .. Len(SeedSteps),        \* step of the seed, or deletion of a cleanup
   person : Person \cup {"nobody"}, \* the owner's profile, as found or made
   fixture : Fixture,
   known : BOOLEAN,                 \* oidc: the user still named its profile
   broken : BOOLEAN,                \* an error is on its way through a finally
   hit : BOOLEAN]                   \* history: a trouble came upon the check

StartTypeOK ==
  /\ setup \in Setups
  /\ schema \in {"empty", "foreign", "partial", "complete"}
  /\ row \in [Row -> {"absent", "seeded", "edited", "removed"}]
  /\ persons \subseteq Person
  /\ owns \in [{"demo", "visitor"} -> Person \cup {"nobody"}]
  /\ legacy \in BOOLEAN /\ audit \in BOOLEAN
  /\ fixture \in [Fixture -> SUBSET {"user", "bound", "person", "reservation"}]
  /\ script \in [Script -> ScriptState]
  /\ troubles \in 0 .. setup.troubles

StartInit ==
  /\ setup \in Setups
  /\ schema = setup.schema
  /\ row = [r \in Row |-> "absent"]
  /\ persons = setup.persons
  /\ owns = [u \in {"demo", "visitor"} |-> "nobody"]
  /\ legacy = setup.legacy
  /\ fixture = [f \in Fixture |-> {}] /\ audit = FALSE
  /\ script = [p \in Script |-> NotRunning]
  /\ troubles = 0

-----------------------------------------------------------------------------
(* Entry point and migration                                               *)

Goes(p, state) == script' = [script EXCEPT ![p] = state]
GoesTo(p, pc) == Goes(p, [script[p] EXCEPT !.pc = pc])

\* Mutant: an error is reported, and a container neither exits nor serves.
StaysWithError(p) == Goes(p, [NotRunning EXCEPT !.pc = "failed", !.hit = script[p].hit])

\* The process exits with an error; a container is started again.
ExitsWithError(p) == Goes(p, [NotRunning EXCEPT
  !.pc = IF p \in Container THEN "down" ELSE "failed", !.hit = script[p].hit])

NoCheckRuns == \A k \in Check : script[k].pc \in {"down", "passed", "failed", "killed"}

StartScript(p) ==
  /\ p \in setup.up /\ script[p].pc = "down" /\ (p \in Check => NoCheckRuns)
  /\ GoesTo(p, "inspect")
  /\ UNCHANGED <<setup, schema, row, identities, fixtures, troubles>>

\* isEmptyPostgresApplicationSchema, in a statement before the migration
InspectSchema(p) ==
  /\ script[p].pc = "inspect"
  /\ Goes(p, [script[p] EXCEPT !.pc = "migrate", !.fresh = (schema = "empty")])
  /\ UNCHANGED <<setup, schema, row, identities, fixtures, troubles>>

\* migrateSmrtSchemas.  A fresh schema is built in one transaction; when
\* another script has built it meanwhile there is nothing left to do, or what
\* is there already is an error.  The safe mode does not create the indexes a
\* new table needs: that is reported as drift, and stays.
Migrate(p) ==
  /\ script[p].pc = "migrate"
  /\ \/ schema = "complete" /\ GoesTo(p, "keys") /\ UNCHANGED schema
     \/ schema = "complete" /\ script[p].fresh /\ ExitsWithError(p) /\ UNCHANGED schema
     \/ schema = "empty" /\ script[p].fresh /\ GoesTo(p, "keys") /\ schema' = "complete"
     \/ ~script[p].fresh /\ schema # "complete" /\ ExitsWithError(p) /\ schema' = "partial"
  /\ UNCHANGED <<setup, row, identities, fixtures, troubles>>

\* backfillIdentityEmailKeys: every identity kept here has its key.
BackfillKeys(p) ==
  /\ script[p].pc = "keys"
  /\ Goes(p, [script[p] EXCEPT !.pc = "seed", !.at = 1])
  /\ UNCHANGED <<setup, schema, row, identities, fixtures, troubles>>

-----------------------------------------------------------------------------
(* Seed                                                                    *)

SeedsAt(p, step) == script[p].pc = "seed" /\ SeedSteps[script[p].at] = step

\* The next step of the seed; after the last a container serves, a check goes
\* on to its own part.
NextSeed(p, person) ==
  IF script[p].at < Len(SeedSteps)
  THEN Goes(p, [script[p] EXCEPT !.at = @ + 1, !.person = person])
  ELSE Goes(p, [NotRunning EXCEPT !.pc = IF p \in Container THEN "serving" ELSE "tables"])

\* An upsert by key writes over whatever people have made of the row.
SeedRow(p, rows) ==
  /\ \E r \in rows : SeedsAt(p, r) /\ row' = [row EXCEPT ![r] = "seeded"]
  /\ NextSeed(p, "nobody")
  /\ UNCHANGED <<setup, schema, identities, fixtures, troubles>>

\* The Person type is made only when there is none.
SeedTenant(p) == SeedRow(p, {"tenant", "roles", "personType"})

SeedTenantData(p) ==
  SeedRow(p, {"membership", "plans", "subscription", "settings", "usage", "aiUsage"})

\* A request that is closed is followed by another.
SeedExperience(p) == SeedRow(p, {"prompts", "languages", "request"})

\* More than one profile, one of a tenant, or no Person: nothing is safe.
FindPerson(p) ==
  /\ SeedsAt(p, "findPerson")
  /\ IF Cardinality(persons) > 1 \/ "scoped" \in persons THEN ExitsWithError(p)
     ELSE NextSeed(p, IF persons = {} THEN "nobody" ELSE CHOOSE x \in persons : TRUE)
  /\ UNCHANGED <<setup, schema, row, identities, fixtures, troubles>>

MakePerson(p) ==
  /\ SeedsAt(p, "makePerson")
  /\ persons' = IF script[p].person = "nobody" THEN persons \cup {"demo"} ELSE persons
  /\ NextSeed(p, IF script[p].person = "nobody" THEN "demo" ELSE script[p].person)
  /\ UNCHANGED <<setup, schema, row, owns, legacy, fixtures, troubles>>

CheckOwner(p) ==
  /\ SeedsAt(p, "checkOwner")
  /\ IF owns["visitor"] = script[p].person THEN ExitsWithError(p)
     ELSE NextSeed(p, script[p].person)
  /\ UNCHANGED <<setup, schema, row, identities, fixtures, troubles>>

\* The key of the address is unique among users: if the visitor has signed in
\* meanwhile the upsert fails.
BindOwner(p) ==
  /\ SeedsAt(p, "bindOwner")
  /\ IF owns["visitor"] # "nobody" THEN ExitsWithError(p) /\ UNCHANGED owns
     ELSE owns' = [owns EXCEPT !["demo"] = script[p].person] /\ NextSeed(p, "nobody")
  /\ UNCHANGED <<setup, schema, row, persons, legacy, fixtures, troubles>>

\* Mutant: the entry point serves whatever becomes of the seed.
SeedOrNot(p) ==
  \/ SeedTenant(p) \/ FindPerson(p) \/ MakePerson(p) \/ CheckOwner(p) \/ BindOwner(p)
  \/ SeedTenantData(p) \/ SeedExperience(p)
  \/ /\ p \in Container /\ script[p].pc = "seed"
     /\ Goes(p, [NotRunning EXCEPT !.pc = "serving"])
     /\ UNCHANGED <<setup, schema, row, identities, fixtures, troubles>>

Seed(p) ==
  \/ SeedTenant(p) \/ FindPerson(p) \/ MakePerson(p) \/ CheckOwner(p) \/ BindOwner(p)
  \/ SeedTenantData(p) \/ SeedExperience(p)

-----------------------------------------------------------------------------
(* Smoke                                                                   *)

Sound(user) == user \in {"demo", "visitor"}
OwnerIsSound ==
  /\ Sound(owns["demo"]) /\ owns["demo"] \in persons /\ owns["visitor"] # owns["demo"]

\* Tables, tenant, membership and owner are looked at; then an audit entry is
\* made in the owner's name and read back.
CheckTables(p) ==
  /\ script[p].pc = "tables"
  /\ IF schema = "complete" /\ row["tenant"] # "absent" /\ row["membership"] # "absent"
        /\ OwnerIsSound
     THEN GoesTo(p, "unaudit") /\ audit' = TRUE
     ELSE ExitsWithError(p) /\ UNCHANGED audit
  /\ UNCHANGED <<setup, schema, row, identities, fixture, troubles>>

DeleteAudit(p) ==
  /\ script[p].pc = "unaudit"
  /\ audit' = FALSE
  /\ Goes(p, [script[p] EXCEPT !.pc = "clean", !.at = 1, !.fixture = "reconciled"])
  /\ UNCHANGED <<setup, schema, row, identities, fixture, troubles>>

\* Mutant: the Person goes before what reserves its address.
PersonFirst(f) ==
  IF f = "reconciled" THEN <<"user", "person", "reservation">>
  ELSE <<"user", "reservation", "person">>

Deletes(f) ==
  IF f = "reconciled" THEN <<"reservation", "user", "person">>
  ELSE <<"user", "reservation", "person">>

After(f) == CASE f = "reconciled" -> "oidc" [] f = "oidc" -> "collision" [] OTHER -> "collision"

\* After a cleanup: the fixture is made, or the next one's turn comes, or the
\* error goes on.
AfterCleanup(p) ==
  LET s == script[p] IN
  IF s.pc = "clean" THEN Goes(p, [s EXCEPT !.pc = "insert", !.at = 1, !.known = FALSE])
  ELSE IF s.broken THEN ExitsWithError(p)
  ELSE IF s.fixture = "collision" THEN Goes(p, [s EXCEPT !.pc = "rest", !.at = 1, !.known = FALSE])
  ELSE Goes(p, [s EXCEPT !.pc = "clean", !.at = 1, !.known = FALSE, !.fixture = After(s.fixture)])

\* A deletion of a cleanup.  A Person whose address is reserved cannot go, and
\* the oidc fixture's goes only if its user was there to name it.
Cleanup(p) ==
  LET s == script[p]  f == s.fixture  what == Deletes(f)[s.at]
      gone == CASE what = "user" -> {"user", "bound"}
                [] what = "person" /\ f = "oidc" /\ ~s.known -> {}
                [] OTHER -> {what}
  IN /\ s.pc \in {"clean", "delete"}
     /\ IF "person" \in gone /\ {"person", "reservation"} \subseteq fixture[f]
        THEN ExitsWithError(p) /\ UNCHANGED fixture
        ELSE /\ fixture' = [fixture EXCEPT ![f] = @ \ gone]
             /\ IF s.at = 3 THEN AfterCleanup(p)
                ELSE Goes(p, [s EXCEPT !.at = @ + 1,
                       !.known = IF what = "user" THEN "bound" \in fixture[f] ELSE @])
     /\ UNCHANGED <<setup, schema, row, identities, audit, troubles>>

\* Users without a Person; a user by OIDC, who takes over a Person without
\* one; a profile of a tenant.
InsertFixture(p) ==
  LET f == script[p].fixture IN
  /\ script[p].pc = "insert"
  /\ fixture' = [fixture EXCEPT ![f] = CASE
       f = "reconciled" -> (@ \ {"bound"}) \cup {"user"}
       [] f = "oidc" -> {"user", "bound", "person", "reservation"}
       [] f = "collision" -> @ \cup {"person"}]
  /\ GoesTo(p, "verify")
  /\ UNCHANGED <<setup, schema, row, identities, audit, troubles>>

\* ensureUserIdentity, of the user and then twice at once: one Person.
VerifyReconciled(p) ==
  /\ script[p].pc = "verify" /\ script[p].fixture = "reconciled"
  /\ "user" \in fixture["reconciled"]
  /\ fixture' = [fixture EXCEPT !["reconciled"] = {"user", "bound", "person", "reservation"}]
  /\ GoesTo(p, "backfill")
  /\ UNCHANGED <<setup, schema, row, identities, audit, troubles>>

\* Signing in again finds the same user.
VerifyOidc(p) ==
  /\ script[p].pc = "verify" /\ script[p].fixture = "oidc"
  /\ Goes(p, [script[p] EXCEPT !.pc = "delete", !.broken = "user" \notin fixture["oidc"]])
  /\ UNCHANGED <<setup, schema, row, identities, fixtures, troubles>>

\* Signing in is refused and leaves nothing.
VerifyCollision(p) ==
  /\ script[p].pc = "verify" /\ script[p].fixture = "collision"
  /\ Goes(p, [script[p] EXCEPT !.pc = "delete", !.broken = "user" \in fixture["collision"]])
  /\ UNCHANGED <<setup, schema, row, identities, fixtures, troubles>>

\* backfillMissingUserProfiles takes every user without a Person, and the
\* check expects one.
BackfillUsers(p) ==
  /\ script[p].pc = "backfill"
  /\ legacy' = FALSE
  /\ Goes(p, [script[p] EXCEPT !.pc = "delete", !.broken = legacy])
  /\ UNCHANGED <<setup, schema, row, persons, owns, fixtures, troubles>>

CheckRest(p) ==
  /\ script[p].pc = "rest"
  /\ IF \A r \in Compared : row[r] = "seeded"
     THEN Goes(p, [NotRunning EXCEPT !.pc = "passed", !.hit = script[p].hit])
     ELSE ExitsWithError(p)
  /\ UNCHANGED <<setup, schema, row, identities, fixtures, troubles>>

Smoke(p) ==
  \/ CheckTables(p) \/ DeleteAudit(p) \/ Cleanup(p) \/ InsertFixture(p)
  \/ VerifyReconciled(p) \/ VerifyOidc(p) \/ VerifyCollision(p) \/ BackfillUsers(p)
  \/ CheckRest(p)

-----------------------------------------------------------------------------
(* Troubles, and people                                                    *)

Running(p) == script[p].pc \notin {"down", "passed", "failed", "killed"}
Trouble == troubles < setup.troubles /\ troubles' = troubles + 1

\* A statement fails; where a fixture is about, it is cleaned up first.
Fails(p) ==
  /\ Trouble /\ Running(p) /\ script[p].pc # "serving"
  /\ IF script[p].pc \in {"insert", "verify", "backfill"}
     THEN Goes(p, [script[p] EXCEPT !.pc = "delete", !.at = 1, !.broken = TRUE, !.hit = TRUE])
     ELSE Goes(p, [NotRunning EXCEPT !.pc = IF p \in Container THEN "down" ELSE "failed",
                                     !.hit = p \in Check])
  /\ UNCHANGED <<setup, schema, row, identities, fixtures>>

IsKilled(p) ==
  /\ Trouble /\ Running(p)
  /\ Goes(p, [NotRunning EXCEPT !.pc = IF p \in Container THEN "down" ELSE "killed",
                                !.hit = p \in Check])
  /\ UNCHANGED <<setup, schema, row, identities, fixtures>>

\* Somebody signs in with the address of the demo's owner, which they have
\* verified: as the demo's user once there is one; else with the one Person
\* that has the address, or with a new one.
VisitorSignsIn ==
  /\ setup.open /\ schema = "complete" /\ owns = [u \in DOMAIN owns |-> "nobody"]
  /\ Cardinality(persons) <= 1 /\ "scoped" \notin persons
  /\ LET person == IF persons = {} THEN "visitor" ELSE CHOOSE x \in persons : TRUE IN
     persons' = persons \cup {person} /\ owns' = [owns EXCEPT !["visitor"] = person]
  /\ UNCHANGED <<setup, schema, row, legacy, fixtures, script, troubles>>

SomebodyEdits ==
  /\ setup.open
  /\ \E r \in Editable \ Overrides : row[r] = "seeded" /\ row' = [row EXCEPT ![r] = "edited"]
  /\ UNCHANGED <<setup, schema, identities, fixtures, script, troubles>>

\* An empty template deletes the override; another is saved, perhaps anew.
SaveOverride(r) ==
  /\ setup.open /\ schema = "complete" /\ row[r] # "absent"
  /\ \E empty \in BOOLEAN : row' = [row EXCEPT ![r] = IF empty THEN "removed" ELSE "edited"]
  /\ UNCHANGED <<setup, schema, identities, fixtures, script, troubles>>

SaveTenantPromptOverride == SaveOverride("prompts")
SaveTenantLanguageOverride == SaveOverride("languages")

-----------------------------------------------------------------------------
ScriptStep(p) ==
  \/ StartScript(p) \/ InspectSchema(p) \/ Migrate(p) \/ BackfillKeys(p) \/ Seed(p) \/ Smoke(p)

StartNext ==
  \/ \E p \in Script : ScriptStep(p) \/ Fails(p) \/ IsKilled(p)
  \/ VisitorSignsIn \/ SomebodyEdits \/ SaveTenantPromptOverride \/ SaveTenantLanguageOverride

\* A container goes on, and is started again.
StartFairness == \A p \in Container : WF_startVars(ScriptStep(p))

StartSpec == StartInit /\ [][StartNext]_startVars /\ StartFairness

-----------------------------------------------------------------------------
(* Properties                                                              *)

\* Wherever scripts were interrupted, whoever signs in and whatever the other
\* containers are about: what serves has a complete schema, all that is
\* seeded but for what people have deleted, and a demo owner whom authorisation
\* accepts, with a Person of their own that belongs to no tenant.
ServesWhatIsSeeded ==
  \A p \in Container : script[p].pc = "serving" =>
    /\ schema = "complete" /\ \A r \in Row : row[r] # "absent"
    /\ OwnerIsSound

\* db:smoke is repeatable: whatever an earlier check, killed anywhere, has left
\* of its fixtures, a check upon which no trouble comes fails only for
\* something in the database that is not its own; and one that passes leaves
\* nothing of a fixture.
SmokeIsFair ==
  \A k \in Check :
    /\ script[k].pc = "failed" /\ ~script[k].hit =>
         \/ setup.open \/ setup.legacy \/ setup.persons # {} \/ setup.schema = "foreign"
         \/ setup.schema = "empty" /\ setup.up \cap Container # {}
    /\ script[k].pc = "rest" => \A f \in Fixture : fixture[f] = {}

\* Containers come up, again and again and several at once, on an empty
\* database as on a complete one, unless a profile or a user that is none of
\* the demo has its owner's address.
ContainersComeUp ==
  \A p \in Container : []<>(
    \/ p \notin setup.up \/ script[p].pc = "serving" \/ setup.schema = "foreign"
    \/ Cardinality(persons) > 1 \/ "scoped" \in persons \/ owns["visitor"] # "nobody")
=============================================================================
