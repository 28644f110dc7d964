----------------------------- MODULE Migrations -----------------------------
(***************************************************************************)
(* Start-up of the backend against a shared PostgreSQL database:           *)
(* Database::init_migrations, Database::run_migrations and the part of     *)
(* main() that calls them (src/src/Database.cpp, src/src/Main.cpp).        *)
(*                                                                         *)
(* A process takes one step per statement it sends to the database, since  *)
(* nothing holds a transaction or a lock across two statements.  Several   *)
(* processes may start at once (a rolling deployment), from images that    *)
(* ship different migration files, and a process may crash anywhere.       *)
(*                                                                         *)
(* A script that PQexec sends as one string is one transaction.  Each of   *)
(* the repository's scripts fails when it has been applied before: it      *)
(* creates or drops a table, a column, a constraint or a unique row.       *)
(***************************************************************************)
EXTENDS Integers, FiniteSets, FiniteSetsExt

CONSTANTS
    Proc,        \* backend processes that may run against the database
    Images,      \* the sets of migration numbers a deployed image may ship
    MaxCrashes   \* bound on the crashes of one behaviour

ASSUME ImagesAssumption ==
    \A image \in Images : IsFiniteSet(image) /\ image \subseteq Nat \ {0}
ASSUME MaxCrashesAssumption == MaxCrashes \in Nat

Numbers == UNION Images

VARIABLES
    tableExists,  \* db_migration has been created
    recorded,     \* the rows of db_migration
    applied,      \* the scripts whose effects are in the database
    pc,           \* where each process is in its start-up
    image,        \* the migration files of the image each process runs
    next,         \* the loop variable i of run_migrations
    crashes       \* how many crashes there were

vars == <<tableExists, recorded, applied, pc, image, next, crashes>>
database == <<tableExists, recorded, applied>>

Places == {"down", "init_check", "init_script", "read_max", "loop",
           "add_entry", "serving", "failed"}
Started == Places \ {"down", "failed", "serving"}

Init ==
    /\ tableExists = FALSE
    /\ recorded = {}
    /\ applied = {}
    /\ pc = [p \in Proc |-> "down"]
    /\ image = [p \in Proc |-> {}]
    /\ next = [p \in Proc |-> 1]
    /\ crashes = 0

Go(p, place) == pc' = [pc EXCEPT ![p] = place]

\* The number the journal says is current, 0 if it is empty.
Current(journal) == IF journal = {} THEN 0 ELSE Max(journal)

\* Faulty variant: the loop bound loses its equality.
HasNextStrict(p) == next[p] < Cardinality(image[p]) /\ next[p] \in image[p]

\* The loop's bound is the NUMBER of files, and a missing number ends it.
HasNext(p) == next[p] <= Cardinality(image[p]) /\ next[p] \in image[p]

-----------------------------------------------------------------------------
(* Faulty variants of the steps below: no specification takes them, the    *)
(* properties must notice when one stands in for the step it is named for. *)

\* The loop starts at the number that was read, not after it.
ReadMaxUnadvanced(p) ==
    /\ pc[p] = "read_max"
    /\ Go(p, "loop")
    /\ next' = [next EXCEPT ![p] = Current(recorded)]
    /\ UNCHANGED <<database, image, crashes>>

\* A missing number is skipped instead of ending the loop.
LoopExitContinue(p) ==
    /\ pc[p] = "loop"
    /\ ~HasNext(p)
    /\ IF next[p] > Cardinality(image[p])
       THEN Go(p, "serving") /\ UNCHANGED next
       ELSE next' = [next EXCEPT ![p] = next[p] + 1] /\ UNCHANGED pc
    /\ UNCHANGED <<database, image, crashes>>

\* The result of execute_script is dropped.
RunScriptUnchecked(p) ==
    /\ pc[p] = "loop"
    /\ HasNext(p)
    /\ Go(p, "add_entry")
    /\ applied' = applied \union {next[p]}
    /\ UNCHANGED <<tableExists, recorded, image, next, crashes>>

\* The loop goes on before it has recorded the script.
RunScriptUnrecorded(p) ==
    /\ pc[p] = "loop"
    /\ HasNext(p)
    /\ Go(p, IF next[p] \in applied THEN "failed" ELSE "loop")
    /\ applied' = applied \union {next[p]}
    /\ next' = [next EXCEPT ![p] = next[p] + 1]
    /\ UNCHANGED <<tableExists, recorded, image, crashes>>

\* The loop variable is not advanced.
AddEntryInPlace(p) ==
    /\ pc[p] = "add_entry"
    /\ Go(p, IF next[p] \in recorded THEN "failed" ELSE "loop")
    /\ recorded' = recorded \union {next[p]}
    /\ UNCHANGED <<tableExists, applied, image, next, crashes>>

\* The init script is executed without looking for the table.
InitCheckAlways(p) ==
    /\ pc[p] = "init_check"
    /\ Go(p, "init_script")
    /\ UNCHANGED <<database, image, next, crashes>>

-----------------------------------------------------------------------------
(* The steps of one process.                                               *)

\* A process is launched, or launched again after it exited, from any image.
Start(p, files) ==
    /\ pc[p] \in {"down", "failed"}
    /\ Go(p, "init_check")
    /\ image' = [image EXCEPT ![p] = files]
    /\ UNCHANGED <<database, next, crashes>>

\* to_regclass: the init script runs only when the table is missing.
InitCheck(p) ==
    /\ pc[p] = "init_check"
    /\ Go(p, IF tableExists THEN "read_max" ELSE "init_script")
    /\ UNCHANGED <<database, image, next, crashes>>

\* "create table db_migration" fails when another process was faster.
InitScript(p) ==
    /\ pc[p] = "init_script"
    /\ Go(p, IF tableExists THEN "failed" ELSE "read_max")
    /\ tableExists' = TRUE
    /\ UNCHANGED <<recorded, applied, image, next, crashes>>

ReadMax(p) ==
    /\ pc[p] = "read_max"
    /\ Go(p, "loop")
    /\ next' = [next EXCEPT ![p] = Current(recorded) + 1]
    /\ UNCHANGED <<database, image, crashes>>

RunScript(p) ==
    /\ pc[p] = "loop"
    /\ HasNext(p)
    /\ Go(p, IF next[p] \in applied THEN "failed" ELSE "add_entry")
    /\ applied' = applied \union {next[p]}
    /\ UNCHANGED <<tableExists, recorded, image, next, crashes>>

\* A statement of its own, after the script's transaction has committed.
AddEntry(p) ==
    /\ pc[p] = "add_entry"
    /\ IF next[p] \in recorded
       THEN Go(p, "failed") /\ UNCHANGED <<recorded, next>>
       ELSE /\ Go(p, "loop")
            /\ recorded' = recorded \union {next[p]}
            /\ next' = [next EXCEPT ![p] = next[p] + 1]
    /\ UNCHANGED <<tableExists, applied, image, crashes>>

LoopExit(p) ==
    /\ pc[p] = "loop"
    /\ ~HasNext(p)
    /\ Go(p, "serving")
    /\ UNCHANGED <<database, image, next, crashes>>

\* A serving process is shut down: nothing of the start-up is cut short.
Stop(p) ==
    /\ pc[p] = "serving"
    /\ Go(p, "down")
    /\ UNCHANGED <<database, image, next, crashes>>

\* The process dies between two statements; a lost connection looks the same,
\* because every failed statement makes main() return 1.
Crash(p) ==
    /\ pc[p] \in Started
    /\ crashes < MaxCrashes
    /\ crashes' = crashes + 1
    /\ Go(p, "down")
    /\ UNCHANGED <<database, image, next>>

StartupStep(p) ==
    \/ InitCheck(p) \/ InitScript(p) \/ ReadMax(p)
    \/ RunScript(p) \/ AddEntry(p) \/ LoopExit(p)

Next ==
    \E p \in Proc :
        \/ \E files \in Images : Start(p, files)
        \/ StartupStep(p)
        \/ Stop(p)
        \/ Crash(p)

Spec == Init /\ [][Next]_vars

\* A launched process keeps executing; nobody has to launch or stop one.
FairSpec == Spec /\ \A p \in Proc : WF_vars(StartupStep(p))

-----------------------------------------------------------------------------
(* Properties.                                                             *)

\* Every variable has its type, and only shipped scripts are ever touched.
TypeOK ==
    /\ tableExists \in BOOLEAN
    /\ recorded \subseteq Numbers
    /\ applied \subseteq Numbers
    /\ pc \in [Proc -> Places]
    /\ image \in [Proc -> Images \union {{}}]
    /\ next \in [Proc -> Nat \ {0}]
    /\ crashes \in 0..MaxCrashes

\* Whatever files the images ship and however their start-ups interleave, the
\* journal is a gapless prefix 1..k and the database is at most one script
\* ahead of it (run_migrations relies on MAX(number) alone).
JournalIsPrefix ==
    /\ recorded = 1..Current(recorded)
    /\ applied \in {recorded, recorded \union {Current(recorded) + 1}}

\* Concurrent starters exclude each other from the window between a script
\* and its journal entry although no lock is taken: the loser's script fails.
SingleRecorder ==
    \A p, q \in Proc : pc[p] = "add_entry" /\ pc[q] = "add_entry" => p = q

\* The migrations an image can reach: those all of whose predecessors it ships.
Reachable(files) == {i \in files : 1..i \subseteq files}

\* A process that serves requests finds every migration of its own image that
\* has no missing predecessor applied and recorded, even when another process
\* did the migrating and whatever older process has started since.
ServingMeansMigrated ==
    \A p \in Proc : pc[p] = "serving" => Reachable(image[p]) \subseteq recorded

\* The journal falls behind the database for good only through a crash: lost
\* races between starters alone never strand an applied script.
OnlyCrashesStrand ==
    applied # recorded /\ (\A p \in Proc : pc[p] # "add_entry") => crashes > 0

\* A script is run on a database in which all earlier scripts are applied and
\* recorded (later scripts alter the tables of earlier ones), and neither
\* scripts nor entries are ever taken back.
AppliedInOrder ==
    [][/\ applied \subseteq applied' /\ recorded \subseteq recorded'
       /\ \A i \in applied' \ applied : 1..(i - 1) \subseteq recorded]_vars

\* However many processes race through the first start-up of a deployment, they
\* cannot all refuse each other: one of them gets to serve, unless one crashes.
SomeoneServes ==
    <>(\E p \in Proc : pc[p] \in Started)
        => <>(crashes > 0 \/ \E p \in Proc : pc[p] = "serving")

\* What init.sql says of db_migration: it keeps track of the migrations that
\* were already run.  (False: see the run migrations_crash.)
TracksWhatRan == (\A p \in Proc : pc[p] # "add_entry") => applied = recorded
=============================================================================
