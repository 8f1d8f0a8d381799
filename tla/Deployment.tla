----------------------------- MODULE Deployment -----------------------------
(***************************************************************************)
(* The two deploy wrappers of deploy/scripts, the containers they replace  *)
(* and the processes in them.  A wrapper writes the image's pin into the   *)
(* compose .env, runs the migrations of that image, recreates the server,  *)
(* waits until it is healthy and ready, smoke-tests it and, when a step    *)
(* fails, restores the whole .env from its backup and recreates the        *)
(* server.  Production takes the image that staging is pinned to.          *)
(*                                                                         *)
(* A wrapper may die at any point; cron starts cmd/sync from whatever is   *)
(* pinned; operators edit the env files; containers restart.               *)
(***************************************************************************)
EXTENDS ServerConfig

CONSTANTS
  Images,      \* digests
  Ships,       \* Ships[i]: the highest migration the image contains
  First,       \* the image both environments run at first
  MinTenantScoped,
  Home,        \* Home[e]: the database of the environment e
  EnvFiles,    \* EnvFiles[e]: the contents <e>.env may have, FirstFile[e] at first
  FirstFile,
  MayDie,      \* whether a wrapper may be killed and a rollback may fail
  MaxDeploys,  \* bound: wrappers started
  MaxEdits     \* bound: edits of an env file

Deployed == {"production", "staging"}

ASSUME DeploymentAssumption ==
  /\ First \in Images /\ Ships \in [Images -> Nat]
  /\ Ships[First] >= MinTenantScoped
  /\ Home \in [Deployed -> Databases] /\ Home["production"] # Home["staging"]
  /\ EnvFiles \in [Deployed -> SUBSET EnvFile]
  /\ \A e \in Deployed : FirstFile[e] \in EnvFiles[e]

\* How the environments are told apart: an env file has its own APP_ENV if it
\* has one, and of each environment there is one database by name.
ASSUME NamingAssumption ==
  /\ \A e \in Deployed : \A f \in EnvFiles[e] : f.appEnv \in {e, Absent}
  /\ \A d \in Databases :
       /\ Has(d.name, {"prod"}) /\ ~Has(d.name, {"stage", "dev"}) => d = Home["production"]
       /\ Has(d.name, {"stage"}) /\ ~Has(d.name, {"prod"}) => d = Home["staging"]

VARIABLES
  pins,        \* the compose .env: pins[e] is BACKEND_<E>_IMAGE
  envFile,     \* envFile[e]: <e>.env
  container,   \* container[e]: the backend container
  schema,      \* schema[d]: the row of schema_migrations
  wrapper,     \* wrapper[e]: the deploy wrapper of the environment
  deploys, edits,
  proved,      \* history: the images whose staging deployment passed
  unsettled,   \* history: where a wrapper ended half-way, neither passed nor restored
  worked       \* history: [env, db, hidden] of syncs run and deployments passed

vars == <<pins, envFile, container, schema, wrapper, deploys, edits, proved, unsettled, worked>>

Rests == [pc |-> "idle", image |-> First, backup |-> [e \in Deployed |-> First], before |-> First]

TypeOK ==
  /\ pins \in [Deployed -> Images]
  /\ \A e \in Deployed : envFile[e] \in EnvFiles[e] /\ container[e].file \in EnvFiles[e]
  /\ container \in [Deployed -> [image : Images, file : EnvFile, serving : BOOLEAN]]
  /\ schema \in [Databases -> [version : Nat, dirty : BOOLEAN]]
  /\ wrapper \in [Deployed -> [pc : {"idle", "pin", "migrate", "recreate", "wait", "smoke", "rollback"},
                               image : Images, backup : [Deployed -> Images], before : Images]]
  /\ proved \subseteq Images /\ unsettled \subseteq Deployed
  /\ worked \subseteq [env : Deployed, db : Databases, hidden : BOOLEAN]

Init ==
  /\ pins = [e \in Deployed |-> First]
  /\ envFile = FirstFile
  /\ container = [e \in Deployed |-> [image |-> First, file |-> FirstFile[e], serving |-> TRUE]]
  /\ schema = [d \in Databases |-> [version |-> Ships[First], dirty |-> FALSE]]
  /\ wrapper = [e \in Deployed |-> Rests]
  /\ deploys = 0 /\ edits = 0
  /\ proved = {First} /\ unsettled = {} /\ worked = {}
-----------------------------------------------------------------------------
(* golang-migrate, "up".  A schema that is dirty, or newer than the files   *)
(* of the image, is refused; a run that fails leaves the version it got to, *)
(* dirty if it broke inside a migration.                                    *)

UpAccepts(s, i) == ~s.dirty /\ s.version <= Ships[i]
UpDone(i) == [version |-> Ships[i], dirty |-> FALSE]
UpBroken(s, i) ==
  {s} \cup {t \in [version : s.version..Ships[i], dirty : BOOLEAN] :
              UpAccepts(s, i) /\ (t.dirty => t.version > s.version)}
-----------------------------------------------------------------------------
(* The server. *)

ServerConfigOf(e) == Config(container[e].file)
DatabaseOf(e) == Target(ServerConfigOf(e))

\* cmd/server: what it checks before it connects.
ServerStarts(f) ==
  /\ Loads(f)
  /\ IdentityValid(Config(f))
  /\ FirebaseValid(Config(f))
  /\ Connects(Config(f))

\* An attempt that fails ends the process, and Docker starts it again.
Boot(e) ==
  LET f == container[e].file
      d == DatabaseOf(e)
      i == container[e].image
  IN
  /\ ~container[e].serving
  /\ ServerStarts(f)
  /\ \/ /\ ShouldRunMigrations(Config(f))
        /\ \/ UpAccepts(schema[d], i) /\ schema' = [schema EXCEPT ![d] = UpDone(i)]
              /\ container' = [container EXCEPT ![e].serving = TRUE]
           \/ \E t \in UpBroken(schema[d], i) : schema' = [schema EXCEPT ![d] = t]
              /\ UNCHANGED container
     \/ /\ ~ShouldRunMigrations(Config(f))
        /\ container' = [container EXCEPT ![e].serving = TRUE]
        /\ UNCHANGED schema
  /\ UNCHANGED <<pins, envFile, wrapper, deploys, edits, proved, unsettled, worked>>

\* A panic, the memory limit or a reboot; the container keeps image and file.
Restart(e) ==
  /\ container[e].serving
  /\ container' = [container EXCEPT ![e].serving = FALSE]
  /\ UNCHANGED <<pins, envFile, schema, wrapper, deploys, edits, proved, unsettled, worked>>

\* Mutant: staging does not compare the identity either.
ReadyUnlessProduction(e) ==
  container[e].serving /\ (ServerConfigOf(e).env = "production" => DatabaseOf(e) = Home["production"])

\* GET /ready: CheckReadiness reads environment_identity.
Ready(e) ==
  LET env == ServerConfigOf(e).env IN
  container[e].serving /\ (env \in Deployed => DatabaseOf(e) = Home[env])

\* GET /version: the highest version that is not dirty, 0 when there is none.
MigrationVersion(d) == IF schema[d].dirty THEN 0 ELSE schema[d].version
VersionIs(e, i) ==
  /\ ServerConfigOf(e).env = e
  /\ container[e].image = i
  /\ MigrationVersion(DatabaseOf(e)) = Ships[i]
-----------------------------------------------------------------------------
(* The wrappers.  Both belong to one concurrency group of the workflows. *)

\* Mutant: the workflows have a concurrency group each.
OwnGroupFree(e) == wrapper[e].pc = "idle"
GroupFree(e) == \A x \in Deployed : wrapper[x].pc = "idle"

Begin(e, i) ==
  /\ GroupFree(e)
  /\ deploys < MaxDeploys
  /\ Ships[i] >= MinTenantScoped
  /\ deploys' = deploys + 1
  /\ wrapper' = [wrapper EXCEPT ![e] = [pc |-> "pin", image |-> i, backup |-> pins,
                                        before |-> container[e].image]]
  /\ UNCHANGED <<pins, envFile, container, schema, edits, proved, unsettled, worked>>

DeployStaging(i) == Begin("staging", i)

Promotable(i) ==
  /\ i = pins["staging"]
  /\ container["staging"].image = i
  /\ Ready("staging")
  /\ VersionIs("staging", i)

DeployProduction(i) == Promotable(i) /\ Begin("production", i)

Goto(e, pc) == wrapper' = [wrapper EXCEPT ![e].pc = pc]

\* Mutant: the backup is taken after the pin is written.
BackupAfterPin(e) == [pins EXCEPT ![e] = wrapper[e].image]
Backup(e) == pins

WritePin(e) ==
  /\ wrapper[e].pc = "pin"
  /\ pins' = [pins EXCEPT ![e] = wrapper[e].image]
  /\ wrapper' = [wrapper EXCEPT ![e].pc = "migrate", ![e].backup = Backup(e)]
  /\ UNCHANGED <<envFile, container, schema, deploys, edits, proved, unsettled, worked>>

\* Mutant: the exit code of the migrations is ignored.
AfterBrokenMigrations == "recreate"
AfterFailedMigrations == "rollback"

\* compose run migrate-<e>: the image is the one just pinned.
RunMigrations(e) ==
  /\ wrapper[e].pc = "migrate"
  /\ LET s == schema[Home[e]] IN
     \/ /\ UpAccepts(s, pins[e])
        /\ schema' = [schema EXCEPT ![Home[e]] = UpDone(pins[e])]
        /\ Goto(e, "recreate")
     \/ /\ \E t \in UpBroken(s, pins[e]) : schema' = [schema EXCEPT ![Home[e]] = t]
        /\ Goto(e, AfterFailedMigrations)
  /\ UNCHANGED <<pins, envFile, container, deploys, edits, proved, unsettled, worked>>

\* compose up -d <service>: nothing happens when image and env file are those
\* the container already has.
Up(e, image) ==
  IF container[e].image = image /\ container[e].file = envFile[e] THEN container
  ELSE [container EXCEPT ![e] = [image |-> image, file |-> envFile[e], serving |-> FALSE]]

Recreate(e) ==
  /\ wrapper[e].pc = "recreate"
  /\ \/ container' = Up(e, pins[e]) /\ (Goto(e, "wait") \/ Goto(e, "rollback"))
     \/ UNCHANGED container /\ Goto(e, "rollback")
  /\ UNCHANGED <<pins, envFile, schema, deploys, edits, proved, unsettled, worked>>

\* wait_for_status health and ready; staging then reads /version as well.
AwaitReady(e) ==
  /\ wrapper[e].pc = "wait"
  /\ \/ /\ Ready(e)
        /\ e = "staging" => VersionIs(e, wrapper[e].image)
        /\ Goto(e, "smoke")
     \/ Goto(e, "rollback")
  /\ UNCHANGED <<pins, envFile, container, schema, deploys, edits, proved, unsettled, worked>>

\* Mutant: a smoke test that fails is only reported.
SmokeReported == "idle"
AfterFailedSmoke == "rollback"

\* The smoke scripts ask for ready and version again, then for the rest.
Smoke(e) ==
  /\ wrapper[e].pc = "smoke"
  /\ \/ /\ Ready(e)
        /\ VersionIs(e, wrapper[e].image)
        /\ Goto(e, "idle")
        /\ proved' = IF e = "staging" THEN proved \cup {wrapper[e].image} ELSE proved
        /\ worked' = worked \cup {[env |-> e, db |-> DatabaseOf(e), hidden |-> FALSE]}
     \/ Goto(e, AfterFailedSmoke) /\ UNCHANGED <<proved, worked>>
  /\ UNCHANGED <<pins, envFile, container, schema, deploys, edits, unsettled>>

Restored(e) == wrapper[e].backup

\* rollback_and_fail.  compose up may fail after the .env is back.
Rollback(e) ==
  /\ wrapper[e].pc = "rollback"
  /\ pins' = Restored(e)
  /\ container' = Up(e, Restored(e)[e])
  /\ Goto(e, "idle")
  /\ UNCHANGED <<envFile, schema, deploys, edits, proved, unsettled, worked>>

\* The .env is not back, or the container is not.  Inside "if !" the shell goes
\* on after an install that fails: compose up then brings up what is still pinned
\* and its exit code alone decides whether ROLLBACK FAILED is reported.
RollbackFails(e) ==
  /\ MayDie
  /\ wrapper[e].pc = "rollback"
  /\ pins' \in {pins, Restored(e)}
  /\ container' \in {container, Up(e, pins'[e])}
  /\ Goto(e, "idle")
  /\ unsettled' = unsettled \cup {e}
  /\ UNCHANGED <<envFile, schema, deploys, edits, proved, worked>>

\* run_smoke meets a mode that is neither launch nor standard, as when the
\* optional flag was not given: "fail" ends the wrapper, without a rollback.
UnknownSmokeMode(e) ==
  /\ wrapper[e].pc = "smoke"
  /\ Goto(e, "idle")
  /\ unsettled' = unsettled \cup {e}
  /\ UNCHANGED <<pins, envFile, container, schema, deploys, edits, proved, worked>>

\* The wrapper is killed.
Die(e) ==
  /\ MayDie
  /\ wrapper[e].pc # "idle"
  /\ Goto(e, "idle")
  /\ unsettled' = IF wrapper[e].pc = "pin" THEN unsettled ELSE unsettled \cup {e}
  /\ UNCHANGED <<pins, envFile, container, schema, deploys, edits, proved, worked>>
-----------------------------------------------------------------------------
(* Everybody else. *)

\* cmd/sync, in a container of its own: the pinned image, the current file.
RunSync(e) ==
  LET f == envFile[e]
      c == Config(f)
      d == Target(c)
  IN
  /\ Loads(f) /\ IdentityValid(c) /\ f.syncEnabled /\ Connects(c)
  /\ \/ /\ IF ShouldRunMigrations(c)
           THEN /\ UpAccepts(schema[d], pins[e])
                /\ schema' = [schema EXCEPT ![d] = UpDone(pins[e])]
           ELSE UNCHANGED schema
        /\ worked' = worked \cup {[env |-> e, db |-> d, hidden |-> Hides(f.url)]}
     \/ /\ ShouldRunMigrations(c)
        /\ \E t \in UpBroken(schema[d], pins[e]) : schema' = [schema EXCEPT ![d] = t]
        /\ UNCHANGED worked
  /\ UNCHANGED <<pins, envFile, container, wrapper, deploys, edits, proved, unsettled>>

EditEnvFile(e) ==
  /\ edits < MaxEdits
  /\ \E f \in EnvFiles[e] : envFile' = [envFile EXCEPT ![e] = f]
  /\ edits' = edits + 1
  /\ UNCHANGED <<pins, container, schema, wrapper, deploys, proved, unsettled, worked>>

WrapperStep(e) ==
  \/ WritePin(e) \/ RunMigrations(e) \/ Recreate(e)
  \/ AwaitReady(e) \/ Smoke(e)
  \/ UnknownSmokeMode(e)
  \/ Rollback(e) \/ RollbackFails(e)
  \/ Die(e)

Next ==
  \/ \E i \in Images : DeployStaging(i) \/ DeployProduction(i)
  \/ \E e \in Deployed :
       WrapperStep(e) \/ Boot(e) \/ Restart(e) \/ RunSync(e) \/ EditEnvFile(e)

Spec == Init /\ [][Next]_vars
-----------------------------------------------------------------------------
(* Properties *)

\* Production only ever runs, and is only ever pinned to, images that staging
\* was deployed with successfully, unless a staging wrapper ended half-way.
PromotedWasProved ==
  "staging" \notin unsettled => {pins["production"], container["production"].image} \subseteq proved

\* A wrapper that fails and restores leaves the environment on the image it
\* ran before: pin and container agree on an image again, whatever failed, as
\* long as every wrapper before it ended in order and the backup could be put
\* back (where it could not, see RollbackFails, the wrapper may say so or not).
RestoresWhatRan ==
  [][\A e \in Deployed :
       (Rollback(e) /\ e \notin unsettled) =>
          /\ container'[e].image = wrapper[e].before
          /\ pins'[e] = wrapper[e].before]_vars

\* The server of an environment is never newer than the schema of the
\* environment's database, although a deployment can fail between the two.
NeverAheadOfSchema ==
  \A e \in Deployed :
    e \notin unsettled => schema[Home[e]].version >= Ships[container[e].image]

\* Deploying one environment leaves pin, container and schema of the other
\* alone, although both wrappers rewrite one .env from a copy.
OthersUntouched ==
  [][\A e, o \in Deployed : (e # o /\ WrapperStep(e)) =>
        /\ pins'[o] = pins[o] /\ container'[o] = container[o]
        /\ schema'[Home[o]] = schema[Home[o]]]_vars

\* A server whose deployment passed, and a sync that ran, are on the database
\* of their environment, whatever the env file said: the check at start sees
\* it from the names, /ready from the identity row where the URL hides it.
OnOwnDatabase ==
  \A w \in worked : w.db = Home[w.env] \/ w.hidden
=============================================================================
