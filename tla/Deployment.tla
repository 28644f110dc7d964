------------------------------ MODULE Deployment ------------------------------
(***************************************************************************)
(* The life of the backend's processes as a whole: each starts as in       *)
(* Migrations, serves as in Backend, dies and is started again, from this  *)
(* image or another, while others serve the same database.                 *)
(*                                                                         *)
(* The two parts meet in main(), which serves only after run_migrations    *)
(* has returned true, and in the table of users: the script TestUser       *)
(* (7_Add_testing_user.sql) inserts a row into the table that the filter   *)
(* of serving processes fills.  So it can fail on a database on which all  *)
(* scripts before it have run, which Migrations leaves out.                *)
(***************************************************************************)
EXTENDS Backend, FiniteSets

CONSTANTS
    Images,        \* the sets of migration numbers a deployed image may ship
    MaxCrashes,    \* bound on the crashes during start-up
    TestUser,      \* the number of the script that inserts the testing user
    TestIdentity   \* that user

ASSUME TestUserAssumption == TestUser \in Nat \ {0} /\ TestIdentity \in Identity
ASSUME DeployedImagesAssumption ==
    \A files \in Images : IsFiniteSet(files) /\ files \subseteq Nat \ {0}
ASSUME CrashBoundAssumption == MaxCrashes \in Nat

VARIABLES
    tableExists, recorded, applied, place, image, next, crashes  \* see Migrations

migration == <<tableExists, recorded, applied, place, image, next, crashes>>

Start == INSTANCE Migrations WITH pc <- place

\* The tables are those of Seeds when the first process is launched.
InitDeployment ==
    /\ Start!Init
    /\ db \in Seeds
    /\ minted = Scenes(db) \union Circuits(db) \union Wires(db)
    /\ pc = [p \in Proc |-> "down"]
    /\ InitSession
    /\ connected = [p \in Proc |-> FALSE]
    /\ faults = 0

InsertsTestUser(p) == place[p] = "loop" /\ Start!HasNext(p) /\ next[p] = TestUser

\* The steps of the start-up that neither touch a user nor end in serving.
StartUp(p) ==
    /\ \/ \E files \in Images : Start!Start(p, files)
       \/ Start!InitCheck(p) \/ Start!InitScript(p) \/ Start!ReadMax(p)
       \/ ~InsertsTestUser(p) /\ Start!RunScript(p)
       \/ Start!AddEntry(p)
       \/ Start!Crash(p)
    /\ UNCHANGED vars

TestUserInsert == user_insert(db, TestIdentity.id, TestIdentity.nickname)

\* Faulty variant: run_migrations drops the result of execute_script.
AddTestUserUnchecked(p) ==
    /\ InsertsTestUser(p)
    /\ Start!RunScript(p)
    /\ db' = TestUserInsert.db
    /\ UNCHANGED <<minted, session, link>>

\* The script of the testing user fails when it has run before, and also when the
\* filter has let someone in under that id or name.
AddTestUser(p) ==
    /\ InsertsTestUser(p)
    /\ \/ /\ TestUserInsert.ok \/ TestUser \in applied
          /\ Start!RunScript(p)
       \/ /\ ~TestUserInsert.ok /\ TestUser \notin applied
          /\ place' = [place EXCEPT ![p] = "failed"]
          /\ UNCHANGED <<tableExists, recorded, applied, image, next, crashes>>
    /\ db' = TestUserInsert.db
    /\ UNCHANGED <<minted, session, link>>

\* run_migrations returns true, and main goes on to app.run().
StartServing(p) == Start!LoopExit(p) /\ Restart(p)

Serve(p) ==
    /\ \/ \E i \in Identities \union {Anonymous}, r \in Requests : Receive(p, i, r)
       \/ Work(p)
       \/ LoseConnection(p)
    /\ UNCHANGED migration

\* A serving process ends, with whatever request it has.
Die(p) == Crash(p) /\ Start!Stop(p)

NextDeployment ==
    \E p \in Proc : StartUp(p) \/ AddTestUser(p) \/ StartServing(p) \/ Serve(p) \/ Die(p)

SpecDeployment == InitDeployment /\ [][NextDeployment]_<<vars, migration>>

\* A process that was launched goes on; nobody has to launch one or send requests.
Continue(p) ==
    \/ AddTestUser(p)
    \/ StartServing(p)
    \/ Work(p) /\ UNCHANGED migration
    \/ /\ \/ Start!InitCheck(p) \/ Start!InitScript(p) \/ Start!ReadMax(p)
          \/ ~InsertsTestUser(p) /\ Start!RunScript(p)
          \/ Start!AddEntry(p)
       /\ UNCHANGED vars

FairDeployment ==
    SpecDeployment /\ \A p \in Proc : WF_<<vars, migration>>(Continue(p))

-----------------------------------------------------------------------------
(* Properties.                                                             *)

\* No request ever meets tables that its process' image has not migrated, not
\* even when the process died and came back from another image, or another
\* process did the migrating; and once the image ships the testing user and all
\* before it, that user is in the table, under its name.
ServedByMigratedTables ==
    \A p \in Proc : pc[p] # "down" =>
        /\ place[p] = "serving"
        /\ Start!Reachable(image[p]) \subseteq recorded
        /\ TestUser \in Start!Reachable(image[p]) =>
                db.user[TestIdentity.id] = TestIdentity.nickname

Taken ==
    /\ TestUser \notin applied
    /\ TestIdentity.id \in Users(db) \/ \E u \in Users(db) : db.user[u] = TestIdentity.nickname

\* If a user came in under the testing user's id or name while an image without
\* that script served, no image with it will ever serve this database: nothing
\* that a process does, no restart and no other image, gives the name back.
TakenForEver ==
    [](Taken => [](Taken /\ \A p \in Proc :
                        pc[p] # "down" => TestUser \notin Start!Reachable(image[p])))

\* That is the only new way for a start-up to fail: one that no other start-up
\* overlaps ends in serving, or the testing user's id or name is taken, unless a
\* start-up before it died between a script and its entry.
UndisturbedStartServes ==
    \A p \in Proc :
        place[p] = "init_check" /\ [](\A q \in Proc \ {p} : place[q] \notin Start!Started)
            ~> place[p] = "serving" \/ Taken \/ crashes > 0
=============================================================================
