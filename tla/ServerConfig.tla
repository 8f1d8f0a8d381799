---------------------------- MODULE ServerConfig ----------------------------
(***************************************************************************)
(* What a process makes of its environment: internal/config, the check of  *)
(* the database identity at start, and the database that internal/database *)
(* then connects to.  The two are computed apart from one another: the     *)
(* check looks at the fields of the Config, the connection uses the        *)
(* DATABASE_URL as it stands.                                              *)
(*                                                                         *)
(* A host, user or database name is an element of Names, of which only the *)
(* environment markers it contains are known.                              *)
(***************************************************************************)
EXTENDS Integers

CONSTANTS
  Names,       \* the hosts, users and database names in use
  Marks,       \* Marks[n]: the markers n contains, "dev" for development and test
  Databases,   \* the databases that exist: [host, name]
  Absent       \* a variable that is not set, a part a URL leaves out

Environments == {"production", "staging", "development", "test"}
Markers == {"prod", "stage", "dev"}

ASSUME ConfigAssumption ==
  /\ Marks \in [Names -> SUBSET Markers]
  /\ Databases \subseteq [host : Names, name : Names]
  /\ Absent \notin Names \cup Environments \cup {"true", "false"}

OrAbsent == Names \cup {Absent}

\* The variables that decide about starting.  secrets: JWT_SECRET and the
\* password are set; firebase: the Firebase variables that are; url: what the
\* DATABASE_URL names, dbname being its query parameter.
EnvFile ==
  [appEnv : Environments \cup {Absent}, autoMigrate : {"true", "false", Absent},
   secrets : BOOLEAN, absolutePath : BOOLEAN, syncEnabled : BOOLEAN,
   firebase : SUBSET {"project", "credentials", "key", "uids"},
   url : [host : OrAbsent, user : OrAbsent, name : OrAbsent, dbname : OrAbsent] \cup {Absent},
   host : Names, user : OrAbsent, name : OrAbsent]
-----------------------------------------------------------------------------
(* newFromEnv *)

\* applyDatabaseURL: what the URL names replaces the field.
Overlaid(f, part) ==
  IF f.url # Absent /\ f.url[part] # Absent THEN f.url[part] ELSE f[part]

Config(f) ==
  [env |-> f.appEnv,
   autoMigrate |-> IF f.autoMigrate = Absent THEN f.appEnv \in {"development", "test"}
                   ELSE f.autoMigrate = "true",
   host |-> Overlaid(f, "host"), user |-> Overlaid(f, "user"), name |-> Overlaid(f, "name"),
   url |-> f.url, absolutePath |-> f.absolutePath, firebase |-> f.firebase]

Loads(f) ==
  /\ f.appEnv \in Environments
  /\ f.secrets
  /\ Overlaid(f, "user") # Absent
  /\ Overlaid(f, "name") # Absent
-----------------------------------------------------------------------------
(* ValidateStartupIdentity *)

Has(n, markers) == Marks[n] \cap markers # {}
AnyHas(c, markers) == \E n \in {c.name, c.user, c.host} : Has(n, markers)

ProductionIdentity(c) ==
  /\ ~AnyHas(c, {"stage", "dev"})
  /\ Has(c.name, {"prod"})
  /\ Has(c.user, {"prod"})
  /\ ~c.autoMigrate
  /\ c.absolutePath

StagingIdentity(c) ==
  /\ ~AnyHas(c, {"prod"})
  /\ Has(c.name, {"stage"})
  /\ Has(c.user, {"stage"})

IdentityValid(c) ==
  /\ c.env = "production" => ProductionIdentity(c)
  /\ c.env = "staging" => StagingIdentity(c)

\* ValidateFirebaseAuthConfig, which cmd/server alone calls.
FirebaseValid(c) ==
  /\ "credentials" \in c.firebase => "project" \in c.firebase
  /\ c.env \in {"production", "staging"} => {"credentials", "key", "uids"} \subseteq c.firebase
-----------------------------------------------------------------------------
(* internal/database *)

ShouldRunMigrations(c) == c.env # "production" /\ c.autoMigrate

\* The database the DSN leads to.  A part the URL leaves out falls to the
\* driver, which takes the user for the database and knows no DB_HOST.
Target(c) ==
  IF c.url = Absent THEN [host |-> c.host, name |-> c.name]
  ELSE [host |-> c.url.host,
        name |-> IF c.url.dbname # Absent THEN c.url.dbname
                 ELSE IF c.url.name # Absent THEN c.url.name ELSE c.url.user]

Connects(c) == Target(c) \in Databases

\* The URL leads elsewhere than its host and path, or has no such: what is
\* checked at start is not what it says.
Hides(url) ==
  url # Absent /\ (url.dbname # Absent \/ url.host = Absent \/ url.name = Absent)
=============================================================================
