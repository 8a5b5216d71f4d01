------------------------------- MODULE Launcher -------------------------------
(***************************************************************************)
(* NewsTrack as a program one starts by double-clicking:                   *)
(* src/launcher/launch.ts, what it decides in plan.ts, and the two scripts *)
(* of it that leave something behind, create-app-role.ts and seed.ts.      *)
(*                                                                         *)
(* One launcher runs at a time, and each statement that leaves something   *)
(* on the disk, in PostgreSQL or in a child process is a step of it.  What *)
(* is on the disk outlives it, a cluster it has started may do so.         *)
(***************************************************************************)
EXTENDS Integers

CONSTANTS
  Tty,            \* whether it has a console: fail() then prints, and comes back
  MaxFaults       \* bound: kills, failures of a script and outages of the user's own server

ASSUME LauncherAssumption == Tty \in BOOLEAN /\ MaxFaults \in Nat

Role == {"app", "worker"}
Chosen == {"none", "embedded", "own"}
Password == {"none", "good", "stale"}      \* of a role, in a configuration
Config == [url : Chosen, roles : [Role -> Password]]
Database == {"embedded", "own"}

VARIABLES
  file,           \* newstrack.env
  config,         \* what the launcher has in memory
  step,           \* what it does next, "off" when there is none
  started,        \* startedPostgres
  cluster,        \* pgdata: "none", "half" or "whole"
  up,             \* the embedded server runs
  created,        \* it has the database newstrack
  reachable,      \* the user's own server answers
  schema,         \* schema[d]: "empty", "migrated" or "seeded"
  served,         \* databases that an app has run on
  faults

launchVars == <<file, config, step, started, cluster, up, created, reachable, schema, served, faults>>

NoRoles == [r \in Role |-> "none"]

LaunchInit ==
  /\ file \in [url : {"none", "own"}, roles : {NoRoles}]
  /\ config = file /\ step = "off" /\ started = FALSE
  /\ cluster = "none" /\ up = FALSE /\ created = FALSE /\ reachable = TRUE
  /\ schema = [d \in Database |-> "empty"] /\ served = {} /\ faults = 0

Answers(d) == IF d = "own" THEN reachable ELSE up /\ created
Fault == faults < MaxFaults /\ faults' = faults + 1

\* fail() prints and exits; on a console it goes on with the next statement.
Fail(next) == step' = IF Tty THEN next ELSE "off"

------------------------------------------------------------------------------
(* The steps up to a database that answers.                                *)

ReadConfig ==
  /\ step = "off"
  /\ step' = "choosing" /\ config' = file /\ started' = FALSE
  /\ UNCHANGED <<file, cluster, up, created, reachable, schema, served, faults>>

\* A mutant: a database that does not answer is replaced by one of our own.
ChooseWhatAnswers ==
  /\ step = "choosing"
  /\ IF config.url # "none" /\ Answers(config.url)
       THEN step' = "reaching" /\ UNCHANGED <<file, config>>
       ELSE /\ config' = [config EXCEPT !.url = "embedded"] /\ file' = config'
            /\ step' = "cluster"
  /\ UNCHANGED <<started, cluster, up, created, reachable, schema, served, faults>>

\* chooseDatabase and remember, which writes the file from the text in memory.
ChooseDatabase ==
  /\ step = "choosing"
  /\ IF config.url # "none"
       THEN step' = "reaching" /\ UNCHANGED <<file, config>>
       ELSE /\ config' = [config EXCEPT !.url = "embedded"] /\ file' = config'
            /\ step' = "cluster"
  /\ UNCHANGED <<started, cluster, up, created, reachable, schema, served, faults>>

\* ensureCluster: initdb, unless there is a PG_VERSION.
InitDb ==
  /\ step = "cluster" /\ step' = "starting"
  /\ cluster' = IF cluster = "none" THEN "whole" ELSE cluster
  /\ UNCHANGED <<file, config, started, up, created, reachable, schema, served, faults>>

StartPostgres ==
  /\ step = "starting"
  /\ IF up \/ cluster = "whole"
       THEN /\ up' = TRUE /\ started' = (started \/ ~up) /\ step' = "creating"
       ELSE /\ Fail("creating") /\ UNCHANGED <<up, started>>
  /\ UNCHANGED <<file, config, cluster, created, reachable, schema, served, faults>>

CreateDb ==
  /\ step = "creating"
  /\ IF up THEN created' = TRUE /\ step' = "migrating" ELSE Fail("migrating") /\ UNCHANGED created
  /\ UNCHANGED <<file, config, started, cluster, up, reachable, schema, served, faults>>

RequireReachable ==
  /\ step = "reaching"
  /\ IF Answers(config.url) THEN step' = "migrating" ELSE Fail("migrating")
  /\ UNCHANGED <<file, config, started, cluster, up, created, reachable, schema, served, faults>>

------------------------------------------------------------------------------
(* Schema, roles and seed.  A rejection ends the process where it is.      *)

Migrate ==
  /\ step = "migrating"
  /\ IF Answers(config.url)
       THEN /\ step' = "roles"
            /\ schema' = [schema EXCEPT ![config.url] = IF @ = "empty" THEN "migrated" ELSE @]
       ELSE step' = "off" /\ UNCHANGED schema
  /\ UNCHANGED <<file, config, started, cluster, up, created, reachable, served, faults>>

EnsureRoles ==
  /\ step = "roles"
  /\ step' = IF \A r \in Role : config.roles[r] # "none" THEN "seeding" ELSE "app"
  /\ UNCHANGED <<file, config, started, cluster, up, created, reachable, schema, served, faults>>

\* create-app-role.ts gives the role a password: any that is written down is stale now.
Stale(c, r) == [c EXCEPT !.roles[r] = IF @ = "none" THEN "none" ELSE "stale"]
Writing(r) == IF r = "app" THEN "writing app" ELSE "writing worker"

AlterRole(r) ==
  /\ step = r /\ Answers(config.url)
  /\ file' = Stale(file, r) /\ config' = Stale(config, r)
  /\ step' = Writing(r)
  /\ UNCHANGED <<started, cluster, up, created, reachable, schema, served, faults>>

\* It writes the password down; after the second role the file is read again.
WriteRole(r) ==
  /\ step = Writing(r)
  /\ file' = [file EXCEPT !.roles[r] = "good"]
  /\ IF r = "app" THEN step' = "worker" /\ UNCHANGED config
     ELSE step' = "seeding" /\ config' = file'
  /\ UNCHANGED <<started, cluster, up, created, reachable, schema, served, faults>>

\* The script fails before it has altered the role, or after: "continuing as the
\* database owner", with the configuration that is in memory.
RoleFails(r) ==
  /\ step \in {r, Writing(r)}
  /\ IF step = r /\ ~Answers(config.url) THEN UNCHANGED faults ELSE Fault
  /\ step' = "seeding"
  /\ UNCHANGED <<file, config, started, cluster, up, created, reachable, schema, served>>

\* One transaction; an archive that does not answer is taken for a seeded one.
SeedIfEmpty ==
  /\ step = "seeding" /\ step' = "binding"
  /\ schema' = IF Answers(config.url) THEN [schema EXCEPT ![config.url] = "seeded"] ELSE schema
  /\ UNCHANGED <<file, config, started, cluster, up, created, reachable, served, faults>>

\* migrate.ts and seed.ts may fail, and nothing of the transaction stays.
ScriptFails ==
  /\ step \in {"migrating", "seeding"} /\ Fault /\ step' = "off"
  /\ UNCHANGED <<file, config, started, cluster, up, created, reachable, schema, served>>

------------------------------------------------------------------------------
(* The application, and the end of it.                                     *)

StartApp ==
  /\ step = "binding"
  /\ step' = "serving" /\ served' = served \cup {config.url}
  /\ UNCHANGED <<file, config, started, cluster, up, created, reachable, schema, faults>>

\* A signal, or the app has ended.
Stop ==
  /\ step \notin {"off", "closing"} /\ step' = "closing"
  /\ UNCHANGED <<file, config, started, cluster, up, created, reachable, schema, served, faults>>

Shutdown ==
  /\ step = "closing" /\ step' = "off"
  /\ up' = (up /\ ~started)
  /\ UNCHANGED <<file, config, started, cluster, created, reachable, schema, served, faults>>

\* The window is closed, or the machine goes off.  initdb leaves half a cluster.
Kill ==
  /\ step # "off" /\ Fault /\ step' = "off"
  /\ up' \in {up, FALSE}
  /\ cluster' \in IF step = "cluster" /\ cluster = "none" THEN {"none", "half"} ELSE {cluster}
  /\ UNCHANGED <<file, config, started, created, reachable, schema, served>>

\* The user's own server goes, and comes back.
Outage ==
  /\ \/ reachable /\ Fault
     \/ ~reachable /\ UNCHANGED faults
  /\ reachable' = ~reachable
  /\ UNCHANGED <<file, config, step, started, cluster, up, created, schema, served>>

Startup ==
  \/ ReadConfig \/ ChooseDatabase \/ InitDb \/ StartPostgres \/ CreateDb \/ RequireReachable
  \/ Migrate \/ EnsureRoles \/ SeedIfEmpty \/ StartApp
  \/ \E r \in Role : AlterRole(r) \/ WriteRole(r)

LaunchNext ==
  \/ Startup \/ ScriptFails \/ Stop \/ Shutdown \/ Kill \/ Outage
  \/ \E r \in Role : RoleFails(r)

LaunchSpec == LaunchInit /\ [][LaunchNext]_launchVars
LaunchFairSpec == LaunchSpec /\ WF_launchVars(Startup \/ Shutdown)

------------------------------------------------------------------------------
(* Properties.                                                             *)

LaunchTypeOK ==
  /\ file \in Config /\ config \in Config
  /\ step \in {"off", "choosing", "cluster", "starting", "creating", "reaching", "migrating",
             "roles", "app", "writing app", "worker", "writing worker", "seeding", "binding",
             "serving", "closing"}
  /\ started \in BOOLEAN /\ cluster \in {"none", "half", "whole"} /\ up \in BOOLEAN
  /\ created \in BOOLEAN /\ reachable \in BOOLEAN
  /\ schema \in [Database -> {"empty", "migrated", "seeded"}] /\ served \subseteq Database
  /\ faults \in 0 .. MaxFaults
  /\ config.url = "none" => step \in {"off", "choosing", "closing"}

\* "A configured database is never silently replaced by an empty one" (plan.ts:80):
\* whatever fails and whenever, no second database is ever served.
OneArchive == \A d, e \in served : d = e

\* What the app runs on has its schema, and its taxonomy unless the database went away
\* while the launcher looked whether it is there.
AppHasItsTables ==
  step = "serving" => schema[config.url] # "empty" /\ (faults = 0 => schema[config.url] = "seeded")

\* An app that is given both passwords is given those that the roles have, whenever a
\* start was cut off between the ALTER ROLE and the file.
RolesFit ==
  step = "serving" /\ (\A r \in Role : config.roles[r] # "none") =>
    \A r \in Role : config.roles[r] = "good"

\* An app that is started has the one archive, its tables and its passwords.
AppIsWhole == OneArchive /\ AppHasItsTables /\ RolesFit

\* launch.ts:268, "Not fatal if it fails": what the app is given is right, or nothing.
\* A second start at which the second script fails too breaks it: the first script has
\* rotated the password that the launcher still remembers.
NoneIsStale == step = "serving" => \A r \in Role : config.roles[r] # "stale"

\* "Only a cluster THIS process started is stopped" (launch.ts:387), also when an
\* earlier start was killed and left it running.
AdoptedIsSpared == up /\ ~up' => started \/ faults' > faults

\* A start does no harm, to what it serves and to what it did not start.
StartsAreSafe == [][AppIsWhole' /\ AdoptedIsSpared]_launchVars

\* launch.ts:23, "the second run is the first run minus the waiting": a start that
\* nothing disturbs comes to serve.
EachStartServes == step = "choosing" ~> step \in {"serving", "closing"}

=============================================================================
