-------------------------- MODULE DeploymentProofs --------------------------
(***************************************************************************)
(* What TLC checks of Deployment for three images and a few wrapper runs,  *)
(* proved for any images, databases and env files and any number of runs.  *)
(* Everything rests on there being one wrapper at a time: its backup is    *)
(* then the .env as everybody else left it, so that restoring the whole    *)
(* file takes back nobody's pin but its own.                               *)
(***************************************************************************)
EXTENDS Deployment, TLAPS

SchemaRow == [version : Nat, dirty : BOOLEAN]

\* At most one wrapper runs: both belong to one concurrency group.
OneWrapper ==
  \A e, o \in Deployed : e # o => wrapper[e].pc = "idle" \/ wrapper[o].pc = "idle"

\* What the running wrapper has in hand: its backup is the .env as it was
\* found, and nobody but itself has written a pin since.
WrapperOK(e) ==
  LET w == wrapper[e] IN
  /\ w.pc # "idle" => \A o \in Deployed : o # e => w.backup[o] = pins[o]
  /\ w.pc = "pin" => w.backup = pins
  /\ w.pc \in {"migrate", "recreate", "wait", "smoke"} => pins[e] = w.image

\* An environment whose wrappers all ended in order runs what it is pinned
\* to, unless one is at work; that one holds the image to go back to.
SettledOK(e) ==
  LET w == wrapper[e] IN
  e \notin unsettled =>
    /\ w.pc = "idle" => container[e].image = pins[e]
    /\ w.pc # "idle" => w.backup[e] = w.before
    /\ w.pc \in {"pin", "migrate", "recreate"} => container[e].image = w.before
    /\ w.pc \in {"wait", "smoke"} => container[e].image = pins[e]

\* The schema of the environment's database is as new as whatever its
\* container may be given next.
SchemaOK(e) ==
  LET w == wrapper[e]
      Reaches(i) == schema[Home[e]].version >= Ships[i]
  IN
  e \notin unsettled =>
    /\ Reaches(container[e].image)
    /\ w.pc # "idle" => Reaches(w.before)
    /\ w.pc \in {"recreate", "wait", "smoke"} => Reaches(pins[e])

\* The images production may be given, now or by the wrapper at work, were
\* all proved.
ProvedOK ==
  LET s == wrapper["staging"]
      p == wrapper["production"]
  IN
  "staging" \notin unsettled =>
    /\ {pins["production"], container["production"].image} \subseteq proved
    /\ s.pc = "idle" => pins["staging"] \in proved
    /\ s.pc # "idle" => s.backup["staging"] \in proved
    /\ p.pc # "idle" => {p.image, p.backup["production"]} \subseteq proved

DeployInv ==
  /\ TypeOK
  /\ OneWrapper
  /\ \A e \in Deployed : WrapperOK(e) /\ SettledOK(e) /\ SchemaOK(e)
  /\ ProvedOK
-----------------------------------------------------------------------------
(* Schemas *)

\* What a step may do to the schemas: no version goes back.
SchemaGrows ==
  /\ schema' \in [Databases -> SchemaRow]
  /\ \A d \in Databases : schema'[d].version >= schema[d].version

\* Migrations that pass do not take the schema back.
LEMMA UpDoneForward ==
  ASSUME NEW s \in SchemaRow, NEW i \in Images, UpAccepts(s, i)
  PROVE  UpDone(i) \in SchemaRow /\ UpDone(i).version >= s.version
BY DeploymentAssumption DEF UpAccepts, UpDone, SchemaRow

\* Nor do migrations that break.
LEMMA UpBrokenForward ==
  ASSUME NEW s \in SchemaRow, NEW i \in Images, NEW t \in UpBroken(s, i)
  PROVE  t \in SchemaRow /\ t.version >= s.version
<1>1. CASE t = s
  BY <1>1 DEF SchemaRow
<1>2. CASE t \in [version : s.version..Ships[i], dirty : BOOLEAN]
  <2>1. s.version \in Nat /\ Ships[i] \in Nat
    BY DeploymentAssumption DEF SchemaRow
  <2>2. t.version \in s.version..Ships[i] /\ t \in [version : Nat, dirty : BOOLEAN]
    BY <1>2, <2>1
  <2> QED
    BY <2>1, <2>2 DEF SchemaRow
<1> QED
  BY <1>1, <1>2 DEF UpBroken

\* Migrations of one database, passed or broken, leave the others alone.
LEMMA OneSchemaGrows ==
  ASSUME TypeOK, NEW d \in Databases, NEW s \in SchemaRow,
         s.version >= schema[d].version, schema' = [schema EXCEPT ![d] = s]
  PROVE  SchemaGrows
BY DEF TypeOK, SchemaRow, SchemaGrows

\* The same for a run of an image's migrations.
LEMMA MigrationsGrow ==
  ASSUME TypeOK, NEW d \in Databases, NEW i \in Images,
         \/ UpAccepts(schema[d], i) /\ schema' = [schema EXCEPT ![d] = UpDone(i)]
         \/ \E t \in UpBroken(schema[d], i) : schema' = [schema EXCEPT ![d] = t]
         \/ UNCHANGED schema
  PROVE  SchemaGrows
<1>1. schema[d] \in SchemaRow
  BY DEF TypeOK, SchemaRow
<1>2. CASE UpAccepts(schema[d], i) /\ schema' = [schema EXCEPT ![d] = UpDone(i)]
  BY <1>1, <1>2, UpDoneForward, OneSchemaGrows
<1>3. CASE \E t \in UpBroken(schema[d], i) : schema' = [schema EXCEPT ![d] = t]
  BY <1>1, <1>3, UpBrokenForward, OneSchemaGrows
<1>4. CASE UNCHANGED schema
  BY <1>4 DEF TypeOK, SchemaRow, SchemaGrows
<1> QED
  BY <1>2, <1>3, <1>4

\* No step of the system takes a schema back.
LEMMA SchemasMoveForward ==
  ASSUME TypeOK, [Next]_vars
  PROVE  SchemaGrows
<1>1. ASSUME UNCHANGED schema PROVE SchemaGrows
  BY <1>1 DEF TypeOK, SchemaRow, SchemaGrows
<1>2. ASSUME NEW e \in Deployed, Boot(e) PROVE SchemaGrows
  <2>1. DatabaseOf(e) \in Databases /\ container[e].image \in Images
    BY <1>2 DEF Boot, ServerStarts, Connects, DatabaseOf, ServerConfigOf, TypeOK
  <2>2. \/ /\ UpAccepts(schema[DatabaseOf(e)], container[e].image)
           /\ schema' = [schema EXCEPT ![DatabaseOf(e)] = UpDone(container[e].image)]
        \/ \E t \in UpBroken(schema[DatabaseOf(e)], container[e].image) :
             schema' = [schema EXCEPT ![DatabaseOf(e)] = t]
        \/ UNCHANGED schema
    BY <1>2 DEF Boot
  <2> QED
    BY <2>1, <2>2, MigrationsGrow
<1>3. ASSUME NEW e \in Deployed, RunMigrations(e) PROVE SchemaGrows
  <2>1. Home[e] \in Databases /\ pins[e] \in Images
    BY DeploymentAssumption DEF TypeOK
  <2>2. \/ /\ UpAccepts(schema[Home[e]], pins[e])
           /\ schema' = [schema EXCEPT ![Home[e]] = UpDone(pins[e])]
        \/ \E t \in UpBroken(schema[Home[e]], pins[e]) :
             schema' = [schema EXCEPT ![Home[e]] = t]
    BY <1>3 DEF RunMigrations
  <2> QED
    BY <2>1, <2>2, MigrationsGrow
<1>4. ASSUME NEW e \in Deployed, RunSync(e) PROVE SchemaGrows
  <2> DEFINE d == Target(Config(envFile[e]))
  <2>1. d \in Databases /\ pins[e] \in Images
    BY <1>4 DEF RunSync, Connects, TypeOK
  <2>2. \/ UpAccepts(schema[d], pins[e]) /\ schema' = [schema EXCEPT ![d] = UpDone(pins[e])]
        \/ \E t \in UpBroken(schema[d], pins[e]) : schema' = [schema EXCEPT ![d] = t]
        \/ UNCHANGED schema
    BY <1>4 DEF RunSync
  <2> HIDE DEF d
  <2> QED
    BY <2>1, <2>2, MigrationsGrow
<1>5. CASE UNCHANGED vars
  BY <1>1, <1>5 DEF vars
<1>6. ASSUME NEW i \in Images, DeployStaging(i) \/ DeployProduction(i) PROVE SchemaGrows
  BY <1>1, <1>6 DEF DeployStaging, DeployProduction, Begin
<1>7. ASSUME NEW e \in Deployed, WrapperStep(e), ~RunMigrations(e) PROVE SchemaGrows
  BY <1>1, <1>7 DEF WrapperStep, WritePin, Recreate, AwaitReady, Smoke, UnknownSmokeMode,
                    Rollback, RollbackFails, Die
<1>8. ASSUME NEW e \in Deployed, Restart(e) \/ EditEnvFile(e) PROVE SchemaGrows
  BY <1>1, <1>8 DEF Restart, EditEnvFile
<1> QED
  BY <1>2, <1>3, <1>4, <1>5, <1>6, <1>7, <1>8 DEF Next, WrapperStep
-----------------------------------------------------------------------------
(* Types *)

Pcs == {"idle", "pin", "migrate", "recreate", "wait", "smoke", "rollback"}
WrapperRow == [pc : Pcs, image : Images, backup : [Deployed -> Images], before : Images]

\* A wrapper that goes on to its next step, the other one where it is.
LEMMA GoesOn ==
  ASSUME TypeOK, NEW e \in Deployed, NEW pc \in Pcs, Goto(e, pc)
  PROVE  /\ wrapper' \in [Deployed -> WrapperRow]
         /\ wrapper'[e] = [wrapper[e] EXCEPT !.pc = pc]
         /\ \A o \in Deployed : o # e => wrapper'[o] = wrapper[o]
BY DEF TypeOK, Goto, Pcs, WrapperRow

\* A container that comes up or goes down keeps its image and its file.
LEMMA OnlyServing ==
  ASSUME TypeOK, NEW e \in Deployed, Boot(e) \/ Restart(e)
  PROVE  /\ container' \in [Deployed -> [image : Images, file : EnvFile, serving : BOOLEAN]]
         /\ \A o \in Deployed : /\ container'[o].file = container[o].file
                                /\ container'[o].image = container[o].image
<1>1. CASE UNCHANGED container
  BY <1>1 DEF TypeOK
<1>2. ASSUME NEW up \in BOOLEAN, container' = [container EXCEPT ![e].serving = up]
      PROVE  /\ container' \in [Deployed -> [image : Images, file : EnvFile, serving : BOOLEAN]]
             /\ \A o \in Deployed : /\ container'[o].file = container[o].file
                                    /\ container'[o].image = container[o].image
  <2>1. container \in [Deployed -> [image : Images, file : EnvFile, serving : BOOLEAN]]
    BY DEF TypeOK
  <2>2. container' = [container EXCEPT ![e] = [container[e] EXCEPT !.serving = up]]
    BY <1>2
  <2>3. [container[e] EXCEPT !.serving = up] =
          [image |-> container[e].image, file |-> container[e].file, serving |-> up]
    BY <2>1
  <2> QED
    BY <2>1, <2>2, <2>3
<1> QED
  BY <1>1, <1>2 DEF Boot, Restart

\* Every step leaves the state well typed.
LEMMA TypeStep ==
  ASSUME TypeOK, [Next]_vars
  PROVE  TypeOK'
<1>1. schema' \in [Databases -> [version : Nat, dirty : BOOLEAN]]
  BY SchemasMoveForward DEF SchemaGrows, SchemaRow
<1>2. CASE UNCHANGED vars
  BY <1>2 DEF vars, TypeOK
<1>3. ASSUME NEW e \in Deployed, NEW i \in Images, Begin(e, i) PROVE TypeOK'
  BY <1>1, <1>3 DEF Begin, TypeOK
<1>4. ASSUME NEW e \in Deployed, WrapperStep(e) PROVE TypeOK'
  <2>1. CASE WritePin(e)
    BY <1>1, <2>1 DEF WritePin, Backup, TypeOK
  <2>2. CASE RunMigrations(e)
    BY <1>1, <2>2, GoesOn DEF RunMigrations, AfterFailedMigrations, TypeOK, Pcs, WrapperRow
  <2>3. ASSUME NEW i \in Images, container' = Up(e, i)
        PROVE  /\ \A o \in Deployed : container'[o].file \in EnvFiles[o]
               /\ container' \in [Deployed -> [image : Images, file : EnvFile, serving : BOOLEAN]]
    <3>1. envFile[e] \in EnvFiles[e] /\ envFile[e] \in EnvFile
      BY <1>4, DeploymentAssumption DEF TypeOK
    <3> QED
      BY <2>3, <3>1 DEF Up, TypeOK
  <2>4. CASE Recreate(e)
    <3>1. pins[e] \in Images
      BY DEF TypeOK
    <3>2. /\ \A o \in Deployed : container'[o].file \in EnvFiles[o]
          /\ container' \in [Deployed -> [image : Images, file : EnvFile, serving : BOOLEAN]]
      BY <2>3, <2>4, <3>1 DEF Recreate, TypeOK
    <3> QED
      BY <1>1, <2>4, <3>2, GoesOn DEF Recreate, TypeOK, Pcs, WrapperRow
  <2>5. CASE AwaitReady(e)
    BY <1>1, <2>5, GoesOn DEF AwaitReady, TypeOK, Pcs, WrapperRow
  <2>6. CASE Smoke(e)
    <3>1. worked' \subseteq [env : Deployed, db : Databases, hidden : BOOLEAN]
      <4>1. ASSUME Ready(e), VersionIs(e, wrapper[e].image) PROVE DatabaseOf(e) \in Databases
        BY <4>1, DeploymentAssumption DEF Ready, VersionIs
      <4> QED
        <5>1. CASE UNCHANGED worked
          BY <5>1 DEF TypeOK
        <5>2. CASE /\ Ready(e) /\ VersionIs(e, wrapper[e].image)
                   /\ worked' = worked \cup {[env |-> e, db |-> DatabaseOf(e), hidden |-> FALSE]}
          <6>1. [env |-> e, db |-> DatabaseOf(e), hidden |-> FALSE]
                  \in [env : Deployed, db : Databases, hidden : BOOLEAN]
            BY <4>1, <5>2
          <6> QED
            BY <5>2, <6>1 DEF TypeOK
        <5> QED
          BY <2>6, <5>1, <5>2 DEF Smoke
    <3>2. proved' \subseteq Images
      BY <2>6 DEF Smoke, TypeOK
    <3> QED
      BY <1>1, <2>6, <3>1, <3>2, GoesOn DEF Smoke, AfterFailedSmoke, TypeOK, Pcs, WrapperRow
  <2>7. CASE UnknownSmokeMode(e)
    BY <1>1, <2>7 DEF UnknownSmokeMode, Goto, TypeOK
  <2>8. CASE Rollback(e)
    <3>1. Restored(e) \in [Deployed -> Images] /\ Restored(e)[e] \in Images
      BY DEF Restored, TypeOK
    <3>2. /\ \A o \in Deployed : container'[o].file \in EnvFiles[o]
          /\ container' \in [Deployed -> [image : Images, file : EnvFile, serving : BOOLEAN]]
      BY <2>3, <2>8, <3>1 DEF Rollback
    <3> QED
      BY <1>1, <2>8, <3>1, <3>2 DEF Rollback, Goto, TypeOK
  <2>9. CASE RollbackFails(e)
    <3>1. wrapper' \in [Deployed -> WrapperRow]
      BY <2>9, GoesOn DEF RollbackFails, Pcs
    <3>2. pins' \in [Deployed -> Images]
      BY <2>9 DEF RollbackFails, Restored, TypeOK
    <3>3. unsettled' \subseteq Deployed
      BY <2>9 DEF RollbackFails, TypeOK
    <3>4. UNCHANGED <<envFile, proved, worked>>
      BY <2>9 DEF RollbackFails
    <3>5. container' = container \/ container' = Up(e, pins'[e])
      BY <2>9 DEF RollbackFails
    <3>6. /\ \A o \in Deployed : container'[o].file \in EnvFiles[o]
          /\ container' \in [Deployed -> [image : Images, file : EnvFile, serving : BOOLEAN]]
      <4>1. pins'[e] \in Images
        BY <3>2
      <4>2. CASE container' = container
        BY <4>2 DEF TypeOK
      <4>3. CASE container' = Up(e, pins'[e])
        <5>1. PICK i \in Images : i = pins'[e]
          BY <4>1
        <5> QED
          BY <2>3, <4>3, <5>1
      <4> QED
        BY <3>5, <4>2, <4>3
    <3> QED
      BY <1>1, <3>1, <3>2, <3>3, <3>4, <3>6 DEF TypeOK, Pcs, WrapperRow
  <2>10. CASE Die(e)
    BY <1>1, <2>10 DEF Die, Goto, TypeOK
  <2> QED
    BY <1>4, <2>1, <2>2, <2>4, <2>5, <2>6, <2>7, <2>8, <2>9, <2>10 DEF WrapperStep
<1>5. ASSUME NEW e \in Deployed, Boot(e) \/ Restart(e) PROVE TypeOK'
  <2>1. UNCHANGED <<pins, envFile, wrapper, deploys, edits, proved, unsettled, worked>>
    BY <1>5 DEF Boot, Restart
  <2> QED
    BY <1>1, <1>5, <2>1, OnlyServing DEF TypeOK
<1>6. ASSUME NEW e \in Deployed, RunSync(e) PROVE TypeOK'
  <2>1. Target(Config(envFile[e])) \in Databases
    BY <1>6 DEF RunSync, Connects
  <2>2. Hides(envFile[e].url) \in BOOLEAN
    BY DEF Hides
  <2>3. worked' \subseteq [env : Deployed, db : Databases, hidden : BOOLEAN]
    BY <1>6, <2>1, <2>2 DEF RunSync, TypeOK
  <2> QED
    BY <1>1, <1>6, <2>3 DEF RunSync, TypeOK
<1>7. ASSUME NEW e \in Deployed, EditEnvFile(e) PROVE TypeOK'
  BY <1>1, <1>7 DEF EditEnvFile, TypeOK
<1> QED
  BY <1>2, <1>3, <1>4, <1>5, <1>6, <1>7 DEF Next, DeployStaging, DeployProduction, Deployed

\* The state the environments are set up in is well typed.
LEMMA TypeInit ==
  ASSUME Init
  PROVE  TypeOK
<1>1. \A e \in Deployed : FirstFile[e] \in EnvFiles[e] /\ FirstFile[e] \in EnvFile
  BY DeploymentAssumption
<1>2. First \in Images /\ Ships[First] \in Nat
  BY DeploymentAssumption
<1> QED
  BY <1>1, <1>2 DEF Init, TypeOK, Rests
-----------------------------------------------------------------------------
(* A wrapper at work *)

\* What a step of a wrapper may write.
LEMMA StepsTouch ==
  ASSUME NEW e \in Deployed, WrapperStep(e)
  PROVE  /\ \/ \E pc \in Pcs : Goto(e, pc)
            \/ wrapper' = [wrapper EXCEPT ![e].pc = "migrate", ![e].backup = pins]
         /\ \/ UNCHANGED pins
            \/ pins' = [pins EXCEPT ![e] = wrapper[e].image]
            \/ wrapper[e].pc = "rollback" /\ pins' = wrapper[e].backup
         /\ UNCHANGED container \/ \E i : container' = Up(e, i)
         /\ UNCHANGED schema \/ \E s : schema' = [schema EXCEPT ![Home[e]] = s]
<1>1. CASE WritePin(e)
  BY <1>1 DEF WritePin, Backup
<1>2. CASE RunMigrations(e)
  BY <1>2 DEF RunMigrations, AfterFailedMigrations, Pcs
<1>3. CASE Recreate(e)
  BY <1>3 DEF Recreate, Pcs
<1>4. CASE AwaitReady(e) \/ UnknownSmokeMode(e) \/ Die(e)
  BY <1>4 DEF AwaitReady, UnknownSmokeMode, Die, Pcs
<1>5. CASE Smoke(e)
  BY <1>5 DEF Smoke, AfterFailedSmoke, Pcs
<1>6. CASE Rollback(e) \/ RollbackFails(e)
  BY <1>6 DEF Rollback, RollbackFails, Restored, Pcs
<1> QED
  BY <1>1, <1>2, <1>3, <1>4, <1>5, <1>6 DEF WrapperStep

\* What a step of a wrapper does to the other environment: nothing, since
\* the copy of the .env it may put back agrees on the other pin.
LEMMA AlonePerEnvironment ==
  ASSUME DeployInv, NEW e \in Deployed, NEW o \in Deployed, o # e, WrapperStep(e)
  PROVE  /\ wrapper[e].pc # "idle" /\ wrapper[o].pc = "idle"
         /\ wrapper'[o] = wrapper[o]
         /\ pins'[o] = pins[o]
         /\ container'[o] = container[o]
         /\ schema'[Home[o]] = schema[Home[o]]
<1>1. TypeOK /\ (wrapper[e].pc # "idle" => wrapper[e].backup[o] = pins[o])
  BY DEF DeployInv, WrapperOK
<1>2. wrapper[e].pc # "idle"
  BY DEF WrapperStep, WritePin, RunMigrations, Recreate, AwaitReady, Smoke, UnknownSmokeMode,
         Rollback, RollbackFails, Die
<1>3. wrapper[o].pc = "idle"
  BY <1>2 DEF DeployInv, OneWrapper
<1>4. wrapper'[o] = wrapper[o]
  <2>1. \/ \E pc \in Pcs : wrapper' = [wrapper EXCEPT ![e].pc = pc]
        \/ wrapper' = [wrapper EXCEPT ![e].pc = "migrate", ![e].backup = pins]
    BY StepsTouch DEF Goto
  <2> QED
    BY <1>1, <2>1 DEF TypeOK
<1>5. pins'[o] = pins[o]
  <2>1. \/ pins' = pins
        \/ pins' = [pins EXCEPT ![e] = wrapper[e].image]
        \/ pins' = wrapper[e].backup
    BY StepsTouch
  <2> QED
    BY <1>1, <1>2, <2>1 DEF TypeOK
<1>6. container'[o] = container[o]
  <2>1. container' = container \/ \E i : container' = Up(e, i)
    BY StepsTouch
  <2> QED
    BY <1>1, <2>1 DEF Up, TypeOK
<1>7. schema'[Home[o]] = schema[Home[o]]
  <2>1. schema' = schema \/ \E s : schema' = [schema EXCEPT ![Home[e]] = s]
    BY StepsTouch
  <2>2. Home[o] # Home[e] /\ Home[o] \in Databases
    BY DeploymentAssumption DEF Deployed
  <2> QED
    BY <1>1, <2>1, <2>2 DEF TypeOK
<1> QED
  BY <1>2, <1>3, <1>4, <1>5, <1>6, <1>7

\* What a step of a wrapper does to its own environment's record.
LEMMA SettledOnlyShrinks ==
  ASSUME TypeOK, NEW e \in Deployed, WrapperStep(e)
  PROVE  /\ unsettled \subseteq unsettled' /\ unsettled' \subseteq unsettled \cup {e}
         /\ proved \subseteq proved'
BY DEF WrapperStep, WritePin, RunMigrations, Recreate, AwaitReady, Smoke,
       UnknownSmokeMode, Rollback, RollbackFails, Die

\* The parts of the invariant that a wrapper's step cannot reach.
LEMMA OthersKeep ==
  ASSUME DeployInv, NEW e \in Deployed, WrapperStep(e), SchemaGrows
  PROVE  /\ OneWrapper'
         /\ \A o \in Deployed \ {e} : WrapperOK(o)' /\ SettledOK(o)' /\ SchemaOK(o)'
<1>1. OneWrapper'
  BY AlonePerEnvironment DEF DeployInv, OneWrapper, Deployed
<1>2. ASSUME NEW o \in Deployed \ {e} PROVE WrapperOK(o)' /\ SettledOK(o)' /\ SchemaOK(o)'
  <2>1. /\ wrapper'[o] = wrapper[o] /\ wrapper[o].pc = "idle"
        /\ pins'[o] = pins[o] /\ container'[o] = container[o]
        /\ schema'[Home[o]] = schema[Home[o]]
    BY AlonePerEnvironment
  <2>2. o \notin unsettled' => o \notin unsettled
    BY SettledOnlyShrinks DEF DeployInv
  <2> QED
    BY <2>1, <2>2 DEF DeployInv, WrapperOK, SettledOK, SchemaOK
<1> QED
  BY <1>1, <1>2

\* A backup agrees with every pin but the wrapper's own, and still does after
\* a step of the wrapper that keeps it.
LEMMA BackupKept ==
  ASSUME DeployInv, NEW e \in Deployed, WrapperStep(e), wrapper'[e].backup = wrapper[e].backup
  PROVE  \A o \in Deployed : o # e => wrapper'[e].backup[o] = pins'[o]
BY AlonePerEnvironment DEF DeployInv, WrapperOK
-----------------------------------------------------------------------------
(* The invariant, step by step *)

\* A wrapper's step keeps what it has in hand consistent with the .env.
LEMMA WrapperKept ==
  ASSUME DeployInv, NEW e \in Deployed, WrapperStep(e)
  PROVE  WrapperOK(e)'
<1>1. TypeOK /\ WrapperOK(e)
  BY DEF DeployInv
<1>2. CASE WritePin(e)
  <2>1. /\ pins' = [pins EXCEPT ![e] = wrapper[e].image]
        /\ wrapper'[e].pc = "migrate" /\ wrapper'[e].backup = pins
        /\ wrapper'[e].image = wrapper[e].image
    BY <1>1, <1>2 DEF WritePin, Backup, TypeOK
  <2> QED
    BY <1>1, <2>1 DEF WrapperOK, TypeOK
<1>3. ASSUME NEW pc \in Pcs \ {"pin"}, Goto(e, pc), wrapper[e].pc # "idle", wrapper[e].pc # "pin",
             wrapper[e].pc = "rollback" => pc = "idle",
             wrapper[e].pc = "rollback" \/ UNCHANGED pins
      PROVE  WrapperOK(e)'
  <2>1. wrapper'[e].pc = pc /\ wrapper'[e].backup = wrapper[e].backup
        /\ wrapper'[e].image = wrapper[e].image
    <3>1. /\ wrapper'[e] = [wrapper[e] EXCEPT !.pc = pc]
          /\ wrapper[e] \in WrapperRow
      BY <1>1, <1>3, GoesOn DEF TypeOK, Pcs, WrapperRow
    <3> QED
      BY <3>1 DEF WrapperRow
  <2>2. \A o \in Deployed : o # e => wrapper'[e].backup[o] = pins'[o]
    BY <2>1, BackupKept
  <2>3. pc \in {"migrate", "recreate", "wait", "smoke"} => pins[e] = wrapper[e].image
    BY <1>1, <1>3 DEF WrapperOK, TypeOK
  <2> QED
    BY <1>3, <2>1, <2>2, <2>3 DEF WrapperOK, Pcs
<1>4. CASE Die(e)
  <2>1. wrapper'[e].pc = "idle"
    BY <1>1, <1>4 DEF Die, Goto, TypeOK
  <2> QED
    BY <2>1 DEF WrapperOK
<1> QED
  BY <1>2, <1>3, <1>4 DEF WrapperStep, RunMigrations, Recreate, AwaitReady, Smoke,
       UnknownSmokeMode, Rollback, RollbackFails, AfterFailedMigrations, AfterFailedSmoke, Pcs

\* A record of the wrapper after Goto.
LEMMA WentOn ==
  ASSUME TypeOK, NEW e \in Deployed, NEW pc \in Pcs, Goto(e, pc)
  PROVE  /\ wrapper'[e].pc = pc /\ wrapper'[e].image = wrapper[e].image
         /\ wrapper'[e].backup = wrapper[e].backup /\ wrapper'[e].before = wrapper[e].before
<1>1. wrapper'[e] = [wrapper[e] EXCEPT !.pc = pc] /\ wrapper[e] \in WrapperRow
  BY GoesOn DEF TypeOK, Pcs, WrapperRow
<1> QED
  BY <1>1 DEF WrapperRow

\* compose up leaves the container on the image it was given.
LEMMA UpRuns ==
  ASSUME TypeOK, NEW e \in Deployed, NEW i \in Images, container' = Up(e, i)
  PROVE  container'[e].image = i
BY DEF Up, TypeOK

\* A wrapper that does not end half-way leaves pin and container in step.
LEMMA SettledKept ==
  ASSUME DeployInv, NEW e \in Deployed, WrapperStep(e)
  PROVE  SettledOK(e)'
<1> SUFFICES ASSUME e \notin unsettled'
             PROVE  /\ wrapper'[e].pc = "idle" => container'[e].image = pins'[e]
                    /\ wrapper'[e].pc # "idle" => wrapper'[e].backup[e] = wrapper'[e].before
                    /\ wrapper'[e].pc \in {"pin", "migrate", "recreate"} =>
                         container'[e].image = wrapper'[e].before
                    /\ wrapper'[e].pc \in {"wait", "smoke"} => container'[e].image = pins'[e]
  BY DEF SettledOK
<1>1. TypeOK /\ WrapperOK(e) /\ SettledOK(e)
  BY DEF DeployInv
<1>2. e \notin unsettled
  BY <1>1, SettledOnlyShrinks
<1>3. pins[e] \in Images /\ wrapper[e].backup \in [Deployed -> Images]
  BY <1>1 DEF TypeOK
<1>4. CASE WritePin(e)
  <2>1. /\ wrapper'[e].pc = "migrate" /\ wrapper'[e].backup = pins
        /\ wrapper'[e].before = wrapper[e].before /\ UNCHANGED container
    BY <1>1, <1>4 DEF WritePin, Backup, TypeOK
  <2> QED
    BY <1>1, <1>2, <1>4, <2>1 DEF WritePin, WrapperOK, SettledOK
<1>5. CASE RunMigrations(e)
  BY <1>1, <1>2, <1>5, WentOn DEF RunMigrations, AfterFailedMigrations, Pcs, SettledOK
<1>6. CASE Recreate(e)
  BY <1>1, <1>2, <1>3, <1>6, WentOn, UpRuns DEF Recreate, Pcs, SettledOK
<1>7. CASE AwaitReady(e)
  BY <1>1, <1>2, <1>7, WentOn DEF AwaitReady, Pcs, SettledOK
<1>8. CASE Smoke(e)
  BY <1>1, <1>2, <1>8, WentOn DEF Smoke, AfterFailedSmoke, Pcs, SettledOK
<1>9. CASE UnknownSmokeMode(e) \/ RollbackFails(e)
  BY <1>9 DEF UnknownSmokeMode, RollbackFails
<1>10. CASE Rollback(e)
  <2>1. wrapper'[e].pc = "idle" /\ pins'[e] = wrapper[e].backup[e]
    BY <1>1, <1>10, WentOn DEF Rollback, Restored, Pcs
  <2>2. container'[e].image = wrapper[e].backup[e]
    BY <1>1, <1>3, <1>10, UpRuns DEF Rollback, Restored
  <2> QED
    BY <2>1, <2>2
<1>11. CASE Die(e)
  <2>1. wrapper[e].pc = "pin" /\ wrapper'[e].pc = "idle" /\ UNCHANGED <<container, pins>>
    BY <1>1, <1>11, WentOn DEF Die, Pcs
  <2> QED
    BY <1>1, <1>2, <2>1 DEF WrapperOK, SettledOK
<1> QED
  BY <1>4, <1>5, <1>6, <1>7, <1>8, <1>9, <1>10, <1>11 DEF WrapperStep

\* A wrapper gives its container no image whose migrations the schema of the
\* environment has not had.
LEMMA SchemaKept ==
  ASSUME DeployInv, NEW e \in Deployed, WrapperStep(e), SchemaGrows
  PROVE  SchemaOK(e)'
<1> DEFINE v == schema[Home[e]].version
           vNext == schema'[Home[e]].version
<1> SUFFICES ASSUME e \notin unsettled'
             PROVE  /\ vNext >= Ships[container'[e].image]
                    /\ wrapper'[e].pc # "idle" => vNext >= Ships[wrapper'[e].before]
                    /\ wrapper'[e].pc \in {"recreate", "wait", "smoke"} => vNext >= Ships[pins'[e]]
  BY DEF SchemaOK
<1>1. TypeOK /\ WrapperOK(e) /\ SettledOK(e)
  BY DEF DeployInv
<1>2. e \notin unsettled
  BY <1>1, SettledOnlyShrinks
<1>3. /\ v >= Ships[container[e].image]
      /\ wrapper[e].pc # "idle" => v >= Ships[wrapper[e].before]
      /\ wrapper[e].pc \in {"recreate", "wait", "smoke"} => v >= Ships[pins[e]]
  BY <1>2 DEF DeployInv, SchemaOK
<1>4. v \in Nat /\ vNext \in Nat /\ vNext >= v
  BY <1>1, DeploymentAssumption DEF TypeOK, SchemaGrows, SchemaRow
<1>5. /\ pins[e] \in Images /\ wrapper[e].backup \in [Deployed -> Images]
      /\ wrapper[e].before \in Images /\ container[e].image \in Images
  BY <1>1 DEF TypeOK
<1>6. \A i \in Images : Ships[i] \in Nat /\ (v >= Ships[i] => vNext >= Ships[i])
  BY <1>4, DeploymentAssumption
<1>7. CASE WritePin(e)
  <2>1. /\ wrapper'[e].pc = "migrate" /\ wrapper'[e].before = wrapper[e].before
        /\ UNCHANGED container
    BY <1>1, <1>7 DEF WritePin, TypeOK
  <2> QED
    BY <1>3, <1>5, <1>6, <1>7, <2>1 DEF WritePin
<1>8. CASE RunMigrations(e)
  <2>1. wrapper[e].pc = "migrate" /\ UNCHANGED <<container, pins>>
    BY <1>8 DEF RunMigrations
  <2>2. CASE schema' = [schema EXCEPT ![Home[e]] = UpDone(pins[e])] /\ Goto(e, "recreate")
    <3>1. vNext = Ships[pins[e]]
      BY <1>1, <2>2, DeploymentAssumption DEF TypeOK, UpDone
    <3>2. wrapper'[e].pc = "recreate" /\ wrapper'[e].before = wrapper[e].before
      BY <1>1, <2>2, WentOn DEF Pcs
    <3> QED
      BY <1>3, <1>5, <1>6, <2>1, <3>1, <3>2
  <2>3. CASE Goto(e, "rollback")
    <3>1. wrapper'[e].pc = "rollback" /\ wrapper'[e].before = wrapper[e].before
      BY <1>1, <2>3, WentOn DEF Pcs
    <3> QED
      BY <1>3, <1>5, <1>6, <2>1, <3>1
  <2> QED
    BY <1>8, <2>2, <2>3 DEF RunMigrations, AfterFailedMigrations
<1>9. CASE Recreate(e)
  <2>1. wrapper[e].pc = "recreate" /\ UNCHANGED pins
    BY <1>9 DEF Recreate
  <2>2. container'[e].image \in {pins[e], container[e].image}
    BY <1>1, <1>5, <1>9, UpRuns DEF Recreate
  <2>3. wrapper'[e].before = wrapper[e].before
    BY <1>1, <1>9, WentOn DEF Recreate, Pcs
  <2> QED
    BY <1>3, <1>5, <1>6, <2>1, <2>2, <2>3
<1>10. CASE AwaitReady(e) \/ Smoke(e)
  <2>1. /\ wrapper[e].pc \in {"wait", "smoke"} /\ UNCHANGED <<container, pins>>
        /\ wrapper'[e].before = wrapper[e].before
    BY <1>1, <1>10, WentOn DEF AwaitReady, Smoke, AfterFailedSmoke, Pcs
  <2> QED
    BY <1>3, <1>5, <1>6, <2>1
<1>11. CASE UnknownSmokeMode(e) \/ RollbackFails(e)
  BY <1>11 DEF UnknownSmokeMode, RollbackFails
<1>12. CASE Rollback(e)
  <2>1. wrapper'[e].pc = "idle"
    BY <1>1, <1>12, WentOn DEF Rollback, Pcs
  <2>2. container'[e].image = wrapper[e].before
    BY <1>1, <1>2, <1>5, <1>12, UpRuns DEF Rollback, Restored, SettledOK
  <2> QED
    BY <1>3, <1>5, <1>6, <1>12, <2>1, <2>2 DEF Rollback
<1>13. CASE Die(e)
  <2>1. wrapper'[e].pc = "idle" /\ UNCHANGED container
    BY <1>1, <1>13, WentOn DEF Die, Pcs
  <2> QED
    BY <1>3, <1>5, <1>6, <2>1
<1> QED
  BY <1>7, <1>8, <1>9, <1>10, <1>11, <1>12, <1>13 DEF WrapperStep

\* A production wrapper pins and runs nothing but what it was given and what
\* it found, both of them proved.
LEMMA ProductionKeepsProved ==
  ASSUME DeployInv, WrapperStep("production")
  PROVE  ProvedOK'
<1> DEFINE p == "production"
           s == "staging"
<1> SUFFICES ASSUME s \notin unsettled'
             PROVE  /\ pins'[p] \in proved' /\ container'[p].image \in proved'
                    /\ wrapper'[s].pc = "idle" /\ pins'[s] \in proved'
                    /\ wrapper'[p].image \in proved' /\ wrapper'[p].backup[p] \in proved'
  BY DEF ProvedOK
<1>1. TypeOK /\ p \in Deployed /\ s \in Deployed /\ s # p
  BY DEF DeployInv, Deployed
<1>2. /\ proved \subseteq proved' /\ s \notin unsettled
      /\ wrapper[p].pc # "idle" /\ wrapper'[s] = wrapper[s] /\ wrapper[s].pc = "idle"
      /\ pins'[s] = pins[s]
  BY <1>1, AlonePerEnvironment, SettledOnlyShrinks
<1>3. /\ pins[p] \in proved /\ container[p].image \in proved /\ pins[s] \in proved
      /\ wrapper[p].image \in proved /\ wrapper[p].backup[p] \in proved
  BY <1>2 DEF DeployInv, ProvedOK
<1>4. /\ pins'[p] \in {pins[p], wrapper[p].image, wrapper[p].backup[p]}
      /\ wrapper'[p].image = wrapper[p].image
      /\ wrapper'[p].backup[p] \in {wrapper[p].backup[p], pins[p]}
  <2>1. /\ \/ pins' = pins
           \/ pins' = [pins EXCEPT ![p] = wrapper[p].image]
           \/ pins' = wrapper[p].backup
        /\ \/ \E pc \in Pcs : Goto(p, pc)
           \/ wrapper' = [wrapper EXCEPT ![p].pc = "migrate", ![p].backup = pins]
    BY <1>1, StepsTouch
  <2>2. CASE wrapper' = [wrapper EXCEPT ![p].pc = "migrate", ![p].backup = pins]
    BY <1>1, <2>1, <2>2 DEF TypeOK
  <2>3. CASE \E pc \in Pcs : Goto(p, pc)
    BY <1>1, <2>1, <2>3, WentOn DEF TypeOK
  <2> QED
    BY <2>1, <2>2, <2>3
<1>5. container'[p].image \in {container[p].image, pins[p], wrapper[p].backup[p]}
  <2>1. pins[p] \in Images /\ wrapper[p].backup[p] \in Images
    BY <1>1 DEF TypeOK
  <2>2. \/ UNCHANGED container
        \/ container' = Up(p, pins[p])
        \/ container' = Up(p, wrapper[p].backup[p])
    BY DEF WrapperStep, WritePin, RunMigrations, Recreate, AwaitReady, Smoke,
           UnknownSmokeMode, Rollback, RollbackFails, Die, Restored
  <2> QED
    BY <1>1, <2>1, <2>2, UpRuns
<1> QED
  BY <1>2, <1>3, <1>4, <1>5

\* A staging wrapper that ends in order leaves a proved image pinned: its own
\* when the smoke test passed, the one it found otherwise.
LEMMA StagingKeepsProved ==
  ASSUME DeployInv, WrapperStep("staging")
  PROVE  ProvedOK'
<1> DEFINE p == "production"
           s == "staging"
<1> SUFFICES ASSUME s \notin unsettled'
             PROVE  /\ pins'[p] \in proved' /\ container'[p].image \in proved'
                    /\ wrapper'[s].pc = "idle" => pins'[s] \in proved'
                    /\ wrapper'[s].pc # "idle" => wrapper'[s].backup[s] \in proved'
                    /\ wrapper'[p].pc = "idle"
  BY DEF ProvedOK
<1>1. /\ TypeOK /\ WrapperOK(s)
      /\ p \in Deployed /\ s \in Deployed /\ s # p
  BY DEF DeployInv, Deployed
<1>2. /\ proved \subseteq proved' /\ s \notin unsettled
      /\ wrapper[s].pc # "idle" /\ wrapper'[p] = wrapper[p] /\ wrapper[p].pc = "idle"
      /\ pins'[p] = pins[p] /\ container'[p] = container[p]
  BY <1>1, AlonePerEnvironment, SettledOnlyShrinks
<1>3. pins[p] \in proved /\ container[p].image \in proved /\ wrapper[s].backup[s] \in proved
  BY <1>2 DEF DeployInv, ProvedOK
<1>4. wrapper'[s].pc # "idle" => wrapper'[s].backup[s] \in proved'
  <2>1. CASE WritePin(s)
    <3>1. wrapper'[s].backup = pins /\ wrapper[s].backup = pins
      BY <1>1, <2>1 DEF WritePin, Backup, TypeOK, WrapperOK
    <3> QED
      BY <1>2, <1>3, <3>1
  <2>2. CASE \E pc \in Pcs : Goto(s, pc)
    BY <1>1, <1>2, <1>3, <2>2, WentOn
  <2> QED
    BY <2>1, <2>2 DEF WrapperStep, RunMigrations, Recreate, AwaitReady, Smoke, AfterFailedSmoke,
           AfterFailedMigrations, UnknownSmokeMode, Rollback, RollbackFails, Die, Pcs
<1>5. wrapper'[s].pc = "idle" => pins'[s] \in proved'
  <2>1. CASE Smoke(s)
    <3>1. CASE proved' = proved \cup {wrapper[s].image}
      BY <1>1, <2>1, <3>1 DEF Smoke, WrapperOK
    <3>2. CASE Goto(s, "rollback")
      BY <1>1, <3>2, WentOn DEF Pcs
    <3> QED
      BY <2>1, <3>1, <3>2 DEF Smoke, AfterFailedSmoke
  <2>2. CASE Rollback(s)
    BY <1>2, <1>3, <2>2 DEF Rollback, Restored
  <2>3. CASE Die(s)
    BY <1>1, <1>2, <1>3, <2>3 DEF Die, WrapperOK
  <2>4. CASE UnknownSmokeMode(s) \/ RollbackFails(s)
    BY <2>4 DEF UnknownSmokeMode, RollbackFails
  <2>5. CASE WritePin(s)
    BY <1>1, <2>5 DEF WritePin, TypeOK
  <2>6. CASE RunMigrations(s) \/ Recreate(s) \/ AwaitReady(s)
    BY <1>1, <2>6, WentOn DEF RunMigrations, AfterFailedMigrations, Recreate, AwaitReady, Pcs
  <2> QED
    BY <2>1, <2>2, <2>3, <2>4, <2>5, <2>6 DEF WrapperStep
<1> QED
  BY <1>2, <1>3, <1>4, <1>5

\* Starting a wrapper: it finds the other one at rest, and takes the .env and
\* the image as they are.
LEMMA BeginKeeps ==
  ASSUME DeployInv, TypeOK', NEW e \in Deployed, NEW i \in Images, Begin(e, i),
         e = "production" => i = pins["staging"]
  PROVE  DeployInv'
<1>1. /\ TypeOK /\ \A x \in Deployed : wrapper[x].pc = "idle"
      /\ UNCHANGED <<pins, container, schema, proved, unsettled>>
  BY DEF DeployInv, Begin, GroupFree
<1>2. /\ wrapper'[e] = [pc |-> "pin", image |-> i, backup |-> pins, before |-> container[e].image]
      /\ \A o \in Deployed : o # e => wrapper'[o] = wrapper[o]
  BY <1>1 DEF Begin, TypeOK
<1>3. OneWrapper'
  BY <1>1, <1>2 DEF OneWrapper
<1>4. ASSUME NEW o \in Deployed PROVE WrapperOK(o)' /\ SettledOK(o)' /\ SchemaOK(o)'
  <2>1. WrapperOK(o) /\ SettledOK(o) /\ SchemaOK(o)
    BY DEF DeployInv
  <2>2. CASE o = e
    BY <1>1, <1>2, <2>1, <2>2 DEF WrapperOK, SettledOK, SchemaOK
  <2>3. CASE o # e
    BY <1>1, <1>2, <2>1, <2>3 DEF WrapperOK, SettledOK, SchemaOK
  <2> QED
    BY <2>2, <2>3
<1>5. ProvedOK'
  <2>1. ProvedOK /\ e \in {"production", "staging"}
    BY DEF DeployInv, Deployed
  <2> QED
    BY <1>1, <1>2, <2>1 DEF ProvedOK, Deployed
<1> QED
  BY <1>3, <1>4, <1>5 DEF DeployInv

\* What goes on beside the wrappers changes neither pins nor images, and
\* takes no schema back.
LEMMA BackgroundKeeps ==
  ASSUME DeployInv, TypeOK', SchemaGrows, UNCHANGED <<pins, wrapper, proved, unsettled>>,
         \A e \in Deployed : container'[e].image = container[e].image
  PROVE  DeployInv'
<1>1. TypeOK /\ OneWrapper' /\ ProvedOK'
  BY DEF DeployInv, OneWrapper, ProvedOK, Deployed
<1>2. ASSUME NEW e \in Deployed PROVE WrapperOK(e)' /\ SettledOK(e)' /\ SchemaOK(e)'
  <2>1. WrapperOK(e)' /\ SettledOK(e)'
    BY DEF DeployInv, WrapperOK, SettledOK
  <2>2. /\ schema[Home[e]].version \in Nat /\ schema'[Home[e]].version \in Nat
        /\ schema'[Home[e]].version >= schema[Home[e]].version
    BY <1>1, DeploymentAssumption DEF TypeOK, SchemaGrows, SchemaRow
  <2>3. /\ Ships[container[e].image] \in Nat /\ Ships[wrapper[e].before] \in Nat
        /\ Ships[pins[e]] \in Nat
    BY <1>1, DeploymentAssumption DEF TypeOK
  <2>4. SchemaOK(e)'
    BY <2>2, <2>3 DEF DeployInv, SchemaOK
  <2> QED
    BY <2>1, <2>4
<1> QED
  BY <1>1, <1>2 DEF DeployInv
-----------------------------------------------------------------------------
(* Theorems *)

\* The inductive invariant, from setting up the environments on.
LEMMA DeployInit ==
  ASSUME Init
  PROVE  DeployInv
<1>1. TypeOK
  BY TypeInit
<1>2. /\ pins = [e \in Deployed |-> First]
      /\ \A e \in Deployed : container[e].image = First
      /\ \A d \in Databases : schema[d].version = Ships[First]
      /\ \A e \in Deployed : wrapper[e].pc = "idle"
      /\ proved = {First} /\ unsettled = {}
  BY DEF Init, Rests
<1>3. Home \in [Deployed -> Databases] /\ Ships[First] \in Nat
  BY DeploymentAssumption
<1>4. OneWrapper
  BY <1>2 DEF OneWrapper
<1>5. ASSUME NEW e \in Deployed PROVE WrapperOK(e) /\ SettledOK(e) /\ SchemaOK(e)
  BY <1>2, <1>3 DEF WrapperOK, SettledOK, SchemaOK
<1>6. ProvedOK
  BY <1>2 DEF ProvedOK, Deployed
<1> QED
  BY <1>1, <1>4, <1>5, <1>6 DEF DeployInv

\* Every step keeps the invariant.
LEMMA DeployStep ==
  ASSUME DeployInv, [Next]_vars
  PROVE  DeployInv'
<1>1. TypeOK' /\ SchemaGrows
  BY TypeStep, SchemasMoveForward DEF DeployInv
<1>2. CASE UNCHANGED vars
  BY <1>1, <1>2, BackgroundKeeps DEF vars
<1>3. ASSUME NEW i \in Images, DeployStaging(i) PROVE DeployInv'
  BY <1>1, <1>3, BeginKeeps DEF DeployStaging, Deployed
<1>4. ASSUME NEW i \in Images, DeployProduction(i) PROVE DeployInv'
  BY <1>1, <1>4, BeginKeeps DEF DeployProduction, Promotable, Deployed
<1>5. ASSUME NEW e \in Deployed, WrapperStep(e) PROVE DeployInv'
  <2>1. ProvedOK'
    BY <1>5, ProductionKeepsProved, StagingKeepsProved DEF Deployed
  <2>2. WrapperOK(e)' /\ SettledOK(e)' /\ SchemaOK(e)'
    BY <1>1, <1>5, WrapperKept, SettledKept, SchemaKept
  <2> QED
    BY <1>1, <1>5, <2>1, <2>2, OthersKeep DEF DeployInv
<1>6. ASSUME NEW e \in Deployed, Boot(e) \/ Restart(e) PROVE DeployInv'
  <2>1. UNCHANGED <<pins, wrapper, proved, unsettled>>
    BY <1>6 DEF Boot, Restart
  <2> QED
    BY <1>1, <1>6, <2>1, OnlyServing, BackgroundKeeps DEF DeployInv
<1>7. ASSUME NEW e \in Deployed, RunSync(e) \/ EditEnvFile(e) PROVE DeployInv'
  <2>1. UNCHANGED <<pins, container, wrapper, proved, unsettled>>
    BY <1>7 DEF RunSync, EditEnvFile
  <2> QED
    BY <1>1, <2>1, BackgroundKeeps
<1> QED
  BY <1>2, <1>3, <1>4, <1>5, <1>6, <1>7 DEF Next

\* The inductive invariant holds in every reachable state: there is one wrapper
\* at a time, its backup is the .env but for its own pin, and what it will run,
\* or go back to, has a schema that is new enough.
THEOREM DeploymentInvariant == Spec => []DeployInv
<1>1. Init => DeployInv
  BY DeployInit
<1>2. DeployInv /\ [Next]_vars => DeployInv'
  BY DeployStep
<1> QED
  BY <1>1, <1>2, PTL DEF Spec

\* Pins, containers, schemas and wrappers keep their types, whatever fails.
THEOREM DeploymentTypeCorrect == Spec => []TypeOK
<1>1. DeployInv => TypeOK
  BY DEF DeployInv
<1> QED
  BY <1>1, DeploymentInvariant, PTL

\* Production is only ever pinned to, and only ever runs, images whose staging
\* deployment passed, as long as no staging wrapper ended half-way.
THEOREM ProductionRunsProved == Spec => []PromotedWasProved
<1>1. DeployInv => PromotedWasProved
  BY DEF DeployInv, ProvedOK, PromotedWasProved
<1> QED
  BY <1>1, DeploymentInvariant, PTL

\* The container of an environment is never newer than the schema of the
\* environment's database, at whatever step a deployment failed.
THEOREM SchemaAheadOfServer == Spec => []NeverAheadOfSchema
<1>1. DeployInv => NeverAheadOfSchema
  BY DEF DeployInv, SchemaOK, NeverAheadOfSchema
<1> QED
  BY <1>1, DeploymentInvariant, PTL

\* rollback_and_fail brings pin and container back to the image that ran when
\* the wrapper began.
THEOREM RollbackRestores == Spec => RestoresWhatRan
<1>1. ASSUME DeployInv, NEW e \in Deployed, Rollback(e), e \notin unsettled
      PROVE  container'[e].image = wrapper[e].before /\ pins'[e] = wrapper[e].before
  <2>1. TypeOK /\ wrapper[e].backup[e] = wrapper[e].before
    BY <1>1 DEF DeployInv, SettledOK, Rollback
  <2>2. wrapper[e].before \in Images /\ container' = Up(e, wrapper[e].before)
    BY <1>1, <2>1 DEF Rollback, Restored, TypeOK
  <2>3. pins'[e] = wrapper[e].before
    BY <1>1, <2>1 DEF Rollback, Restored
  <2> QED
    BY <2>1, <2>2, <2>3, UpRuns
<1>2. DeployInv /\ [Next]_vars =>
        [\A e \in Deployed : (Rollback(e) /\ e \notin unsettled) =>
            /\ container'[e].image = wrapper[e].before
            /\ pins'[e] = wrapper[e].before]_vars
  BY <1>1
<1> QED
  BY <1>2, DeploymentInvariant, PTL DEF Spec, RestoresWhatRan

\* A deployment of one environment leaves pin, container and schema of the
\* other as they are, although it rewrites the .env of both.
THEOREM EnvironmentsApart == Spec => OthersUntouched
<1>1. DeployInv /\ [Next]_vars =>
        [\A e, o \in Deployed : (e # o /\ WrapperStep(e)) =>
            /\ pins'[o] = pins[o] /\ container'[o] = container[o]
            /\ schema'[Home[o]] = schema[Home[o]]]_vars
  BY AlonePerEnvironment
<1> QED
  BY <1>1, DeploymentInvariant, PTL DEF Spec, OthersUntouched

\* The names a process checks at start are those of the database it connects
\* to, unless the URL hides them, and they name the environment's own.
LEMMA CheckedNamesLeadHome ==
  ASSUME NEW e \in Deployed, NEW f \in EnvFiles[e],
         Loads(f), IdentityValid(Config(f)), Connects(Config(f)), ~Hides(f.url)
  PROVE  Target(Config(f)) = Home[e]
<1> DEFINE c == Config(f)
           d == Target(Config(f))
<1>1. f \in EnvFile /\ f.appEnv = e
  BY DeploymentAssumption, NamingAssumption, ConfigAssumption
     DEF Loads, Environments, Deployed
<1>2. c.env = e /\ c.url = f.url /\ c.name = Overlaid(f, "name") /\ c.host = Overlaid(f, "host")
  BY <1>1 DEF Config
<1>3. d.name = c.name
  <2>1. CASE f.url = Absent
    BY <1>2, <2>1 DEF Target, Overlaid
  <2>2. CASE f.url # Absent
    BY <1>2, <2>2 DEF Target, Overlaid, Hides
  <2> QED
    BY <2>1, <2>2
<1>4. d \in Databases
  BY DEF Connects
<1>5. CASE e = "production"
  <2>1. Has(c.name, {"prod"}) /\ ~Has(c.name, {"stage", "dev"})
    BY <1>2, <1>5 DEF IdentityValid, ProductionIdentity, AnyHas
  <2> QED
    BY <1>3, <1>4, <1>5, <2>1, NamingAssumption
<1>6. CASE e = "staging"
  <2>1. Has(c.name, {"stage"}) /\ ~Has(c.name, {"prod"})
    BY <1>2, <1>6 DEF IdentityValid, StagingIdentity, AnyHas
  <2> QED
    BY <1>3, <1>4, <1>6, <2>1, NamingAssumption
<1> QED
  BY <1>5, <1>6 DEF Deployed

\* A server whose deployment passed, and a sync that ran, worked on the
\* database of their environment, whatever its env file said.
THEOREM WorkedAtHome == Spec => []OnOwnDatabase
<1>1. Init => OnOwnDatabase
  BY DEF Init, OnOwnDatabase
<1>2. ASSUME DeployInv, OnOwnDatabase, [Next]_vars PROVE OnOwnDatabase'
  <2>1. ASSUME UNCHANGED worked PROVE OnOwnDatabase'
    BY <1>2, <2>1 DEF OnOwnDatabase
  <2>2. ASSUME NEW e \in Deployed, Smoke(e) PROVE OnOwnDatabase'
    <3>1. ASSUME Ready(e), VersionIs(e, wrapper[e].image) PROVE DatabaseOf(e) = Home[e]
      BY <3>1 DEF Ready, VersionIs
    <3>2. \/ UNCHANGED worked
          \/ worked' = worked \cup {[env |-> e, db |-> Home[e], hidden |-> FALSE]}
      BY <2>2, <3>1 DEF Smoke
    <3> QED
      BY <1>2, <2>1, <3>2 DEF OnOwnDatabase
  <2>3. ASSUME NEW e \in Deployed, RunSync(e) PROVE OnOwnDatabase'
    <3> DEFINE f == envFile[e]
               d == Target(Config(f))
    <3>1. f \in EnvFiles[e] /\ Loads(f) /\ IdentityValid(Config(f)) /\ Connects(Config(f))
      BY <1>2, <2>3 DEF RunSync, DeployInv, TypeOK
    <3>2. d = Home[e] \/ Hides(f.url)
      BY <3>1, CheckedNamesLeadHome
    <3>3. \/ UNCHANGED worked
          \/ worked' = worked \cup {[env |-> e, db |-> d, hidden |-> Hides(f.url)]}
      BY <2>3 DEF RunSync
    <3> QED
      BY <1>2, <2>1, <3>2, <3>3 DEF OnOwnDatabase
  <2>4. CASE UNCHANGED vars
    BY <2>1, <2>4 DEF vars
  <2>5. ASSUME NEW i \in Images, DeployStaging(i) \/ DeployProduction(i) PROVE OnOwnDatabase'
    BY <2>1, <2>5 DEF DeployStaging, DeployProduction, Begin
  <2>6. ASSUME NEW e \in Deployed, WrapperStep(e), ~Smoke(e) PROVE OnOwnDatabase'
    BY <2>1, <2>6 DEF WrapperStep, WritePin, RunMigrations, Recreate, AwaitReady,
         UnknownSmokeMode, Rollback, RollbackFails, Die
  <2>7. ASSUME NEW e \in Deployed, Boot(e) \/ Restart(e) \/ EditEnvFile(e) PROVE OnOwnDatabase'
    BY <2>1, <2>7 DEF Boot, Restart, EditEnvFile
  <2> QED
    BY <1>2, <2>2, <2>3, <2>4, <2>5, <2>6, <2>7 DEF Next, WrapperStep
<1> QED
  BY <1>1, <1>2, DeploymentInvariant, PTL DEF Spec
=============================================================================
