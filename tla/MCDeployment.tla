---------------------------- MODULE MCDeployment ----------------------------
(* Two databases on one host, as in deploy/env; an image with two more      *)
(* migrations than the first, and a patch of it.  Beside the example files: *)
(* the production database or user in the other environment's file,         *)
(* automatic migrations, URLs whose dbname parameter leads to the other     *)
(* database, and one whose path does.                                       *)
EXTENDS Deployment

CONSTANTS old, new, patch

MCNames == {"postgres", "prod", "prod_app", "staging", "staging_app"}
MCMarks ==
  [n \in MCNames |-> CASE n \in {"prod", "prod_app"} -> {"prod"}
                      [] n \in {"staging", "staging_app"} -> {"stage"}
                      [] OTHER -> {}]
Db(n) == [host |-> "postgres", name |-> n]
MCDatabases == {Db("prod"), Db("staging")}
MCHome == [e \in Deployed |-> IF e = "production" THEN Db("prod") ELSE Db("staging")]
MCShips == [i \in {old, new, patch} |-> IF i = old THEN 16 ELSE 18]

Example(env, name, user) ==
  [appEnv |-> env, autoMigrate |-> "false", secrets |-> TRUE, absolutePath |-> TRUE,
   syncEnabled |-> TRUE, firebase |-> {"project", "credentials", "key", "uids"},
   url |-> Absent, host |-> "postgres", user |-> user, name |-> name]
Misleading(f, user, name, dbname) ==
  [f EXCEPT !.url = [host |-> "postgres", user |-> user, name |-> name, dbname |-> dbname]]

ProdFile == Example("production", "prod", "prod_app")
StagingFile == Example("staging", "staging", "staging_app")
MCFirstFile == [e \in Deployed |-> IF e = "production" THEN ProdFile ELSE StagingFile]
MCEnvFiles ==
  [e \in Deployed |->
     IF e = "production"
     THEN {ProdFile, Misleading(ProdFile, "prod_app", "prod", "staging"),
           Example("production", "prod", "staging_app"),
           [ProdFile EXCEPT !.autoMigrate = "true"]}
     ELSE {StagingFile, Misleading(StagingFile, "staging_app", "staging", "prod"),
           Example("staging", "prod", "staging_app"),
           [StagingFile EXCEPT !.autoMigrate = "true"],
           Misleading(StagingFile, "staging_app", "prod", Absent)}]
=============================================================================
