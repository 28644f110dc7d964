--------------------------- MODULE DeploymentProofs ---------------------------
(***************************************************************************)
(* The deployment as a whole, for any processes, images and requests and   *)
(* any number of crashes and faults.  Every step of Deployment is a step   *)
(* of Migrations, of Backend or of both, except the script that fails on a *)
(* taken name; so the invariants of the parts hold of the whole, and what  *)
(* is added to them says how the parts are tied together.                  *)
(***************************************************************************)
EXTENDS Deployment, BackendProofs

Up == INSTANCE MigrationsProofs WITH pc <- place

\* main() serves only behind run_migrations.
ServesAfterStart == \A p \in Proc : pc[p] # "down" => place[p] = "serving"

TestUserIsThere ==
    TestUser \in applied => db.user[TestIdentity.id] = TestIdentity.nickname

Together == Up!IInv /\ IInv /\ ServesAfterStart /\ TestUserIsThere

-----------------------------------------------------------------------------
(* The start-up of Deployment is the one that MigrationsProofs is about.   *)

LEMMA SameCounts == \A S : Start!Cardinality(S) = Up!Cardinality(S)
BY DEF Start!Cardinality, Up!Cardinality

LEMMA SameFinite == \A S : IsFiniteSet(S) <=> Up!IsFiniteSet(S)
BY DEF IsFiniteSet, Up!IsFiniteSet

LEMMA SameMax == \A S : Start!Max(S) = Up!Max(S)
BY DEF Start!Max, Up!Max

LEMMA SameHasNext == \A p : Start!HasNext(p) <=> Up!HasNext(p)
BY SameCounts DEF Start!HasNext, Up!HasNext

LEMMA SameScript == \A p : Start!RunScript(p) <=> Up!RunScript(p)
BY SameHasNext DEF Start!RunScript, Up!RunScript, Start!Go, Up!Go

LEMMA SameExit == \A p : Start!LoopExit(p) <=> Up!LoopExit(p)
BY SameHasNext DEF Start!LoopExit, Up!LoopExit, Start!Go, Up!Go, Start!database, Up!database

LEMMA SameRead == \A p : Start!ReadMax(p) <=> Up!ReadMax(p)
BY SameMax DEF Start!ReadMax, Up!ReadMax, Start!Go, Up!Go, Start!Current, Up!Current,
               Start!database, Up!database

LEMMA SameSteps ==
    ASSUME NEW p \in Proc
    PROVE  /\ \A files : Start!Start(p, files) <=> Up!Start(p, files)
           /\ Start!InitCheck(p) <=> Up!InitCheck(p)
           /\ Start!InitScript(p) <=> Up!InitScript(p)
           /\ Start!AddEntry(p) <=> Up!AddEntry(p)
           /\ Start!Stop(p) <=> Up!Stop(p)
           /\ Start!Crash(p) <=> Up!Crash(p)
<1> USE DEF Start!Go, Up!Go, Start!database, Up!database
<1>1. \A files : Start!Start(p, files) <=> Up!Start(p, files)
  BY DEF Start!Start, Up!Start
<1>2. (Start!InitCheck(p) <=> Up!InitCheck(p)) /\ (Start!InitScript(p) <=> Up!InitScript(p))
  BY DEF Start!InitCheck, Up!InitCheck, Start!InitScript, Up!InitScript
<1>3. Start!AddEntry(p) <=> Up!AddEntry(p)
  BY DEF Start!AddEntry, Up!AddEntry
<1>4. (Start!Stop(p) <=> Up!Stop(p)) /\ (Start!Crash(p) <=> Up!Crash(p))
  BY DEF Start!Stop, Up!Stop, Start!Crash, Up!Crash, Start!Started, Up!Started,
         Start!Places, Up!Places
<1>5. QED
  BY <1>1, <1>2, <1>3, <1>4

LEMMA StepsOfStart ==
    ASSUME Up!IInv, NEW p \in Proc,
           \/ \E files \in Images : Start!Start(p, files)
           \/ Start!InitCheck(p) \/ Start!InitScript(p) \/ Start!ReadMax(p)
           \/ Start!RunScript(p) \/ Start!AddEntry(p) \/ Start!LoopExit(p)
           \/ Start!Stop(p) \/ Start!Crash(p)
    PROVE  Up!IInv'
<1>1. Up!Next
  BY SameSteps, SameRead, SameScript, SameExit DEF Up!Next, Up!StartupStep
<1>2. \A files \in Images : Up!IsFiniteSet(files) /\ files \subseteq Nat \ {0}
  BY SameFinite, DeployedImagesAssumption
<1>3. QED
  BY <1>1, <1>2, Up!StepIInv, CrashBoundAssumption

\* A process that stops in the loop takes nothing with it that others rely on.
LEMMA FailedStart ==
    ASSUME Up!IInv, NEW p \in Proc, place[p] = "loop",
           place' = [place EXCEPT ![p] = "failed"],
           UNCHANGED <<tableExists, recorded, applied, image, next, crashes>>
    PROVE  Up!IInv'
<1>1. /\ place' = [place EXCEPT ![p] = "failed"] /\ place \in [Proc -> Up!Places]
      /\ tableExists' = tableExists /\ recorded' = recorded /\ applied' = applied
      /\ image' = image /\ next' = next /\ crashes' = crashes
  BY DEF Up!IInv, Up!TypeOK
<1>2. Up!TypeOK'
  BY <1>1 DEF Up!IInv, Up!TypeOK, Up!Places
<1>3. Up!Prefix'
  <2>1. PICK k \in Nat : Up!PrefixAt(k)
    BY DEF Up!IInv, Up!Prefix
  <2>2. Up!PrefixAt(k)'
    BY <1>1, <2>1 DEF Up!PrefixAt
  <2>3. QED
    BY <2>2 DEF Up!Prefix
<1>4. Up!SingleRecorder' /\ Up!OnlyCrashesStrand'
  BY <1>1 DEF Up!IInv, Up!SingleRecorder, Up!OnlyCrashesStrand
<1>5. QED
  BY <1>2, <1>3, <1>4 DEF Up!IInv

LEMMA QuietStart ==
    ASSUME Up!IInv, UNCHANGED migration
    PROVE  Up!IInv'
BY DEF migration, Up!IInv, Up!TypeOK, Up!Prefix, Up!PrefixAt, Up!SingleRecorder,
       Up!OnlyCrashesStrand

-----------------------------------------------------------------------------
(* The rows of the user table.                                             *)

LEMMA UsersStay ==
    ASSUME IInv, [Next]_vars
    PROVE  \A u \in Users(db) : db'.user[u] = db.user[u]
<1>1. CASE db' = db
  BY <1>1
<1>2. CASE db' # db
  BY <1>2, StepLives DEF Continues, vars, tables
<1>3. QED
  BY <1>1, <1>2

\* What 7_Add_testing_user.sql does to the table the filter uses.
LEMMA TestUserWrites ==
    ASSUME NEW d, Sound(d), NEW e,
           e = user_insert(d, TestIdentity.id, TestIdentity.nickname).db
    PROVE  /\ Sound(e)
           /\ e.scene = d.scene /\ e.circuit = d.circuit /\ e.wire = d.wire
           /\ \A u \in Users(d) : e.user[u] = d.user[u]
           /\ user_insert(d, TestIdentity.id, TestIdentity.nickname).ok =>
                e.user[TestIdentity.id] = TestIdentity.nickname
<1>1. TestIdentity.id \in UserId /\ TestIdentity.nickname \in Nickname
  BY TestUserAssumption DEF Identity
<1>2. Sound(e) /\ \A u \in Users(d) : e.user[u] = d.user[u]
  BY <1>1, UserInsertSound, UserInsertAdds DEF Sound
<1>3. /\ e.scene = d.scene /\ e.circuit = d.circuit /\ e.wire = d.wire
      /\ user_insert(d, TestIdentity.id, TestIdentity.nickname).ok =>
            e.user[TestIdentity.id] = TestIdentity.nickname
  BY <1>1 DEF user_insert, Result, Sound, Database
<1>4. QED
  BY <1>2, <1>3

LEMMA TestUserIsUser ==
    ASSUME TestUserIsThere, TestUser \in applied
    PROVE  TestIdentity.id \in Users(db)
<1>1. TestIdentity.id \in UserId /\ TestIdentity.nickname \in Nickname
  BY TestUserAssumption DEF Identity
<1>2. QED
  BY <1>1, AbsentAssumption DEF TestUserIsThere, Users

\* A step of Backend, whatever the start-ups do, keeps the testing user.
LEMMA TestUserStays ==
    ASSUME IInv, TestUserIsThere, [Next]_vars, TestUser \in applied' => TestUser \in applied
    PROVE  TestUserIsThere'
BY UsersStay, TestUserIsUser DEF TestUserIsThere

-----------------------------------------------------------------------------
(* One step of the whole, action by action.                                *)

LEMMA StartUpStep ==
    ASSUME Together, NEW p \in Proc, StartUp(p)
    PROVE  Together'
<1> USE DEF Together
<1>1. UNCHANGED vars
  BY DEF StartUp
<1>2. IInv'
  BY <1>1, StepIInv
<1>3. Up!IInv'
  BY StepsOfStart DEF StartUp
<1>4. place \in [Proc -> Up!Places]
  BY DEF Up!IInv, Up!TypeOK
<1>5. place[p] # "serving" /\ \E to : place' = [place EXCEPT ![p] = to]
  BY DEF StartUp, Start!Start, Start!InitCheck, Start!InitScript, Start!ReadMax,
         Start!RunScript, Start!AddEntry, Start!Crash, Start!Go, Start!Started
<1>6. ServesAfterStart'
  BY <1>1, <1>4, <1>5 DEF ServesAfterStart, vars, session
<1>7. TestUser \in applied' => TestUser \in applied
  BY DEF StartUp, Start!Start, Start!InitCheck, Start!InitScript, Start!ReadMax,
         Start!RunScript, Start!AddEntry, Start!Crash, Start!database, InsertsTestUser
<1>8. TestUserIsThere'
  BY <1>1, <1>7, TestUserStays
<1>9. QED
  BY <1>2, <1>3, <1>6, <1>8

LEMMA AddTestUserStep ==
    ASSUME Together, NEW p \in Proc, AddTestUser(p)
    PROVE  Together'
<1> USE DEF Together
<1>1. /\ place[p] = "loop" /\ next[p] = TestUser
      /\ db' = user_insert(db, TestIdentity.id, TestIdentity.nickname).db
      /\ UNCHANGED <<minted, session, link>>
  BY DEF AddTestUser, InsertsTestUser, TestUserInsert
<1>2. Sound(db)
  BY DEF IInv, Sound, TypeOK, IntegrityHolds
<1>3. /\ Sound(db')
      /\ \A u \in Users(db) : db'.user[u] = db.user[u]
      /\ TestUserInsert.ok => db'.user[TestIdentity.id] = TestIdentity.nickname
  BY <1>1, <1>2, TestUserWrites DEF TestUserInsert
<1>4. Users(db) \subseteq Users(db')
  BY <1>3 DEF Users
<1>5. IInv'
  <2>1. UNCHANGED <<minted, pc, who, req, made, todo, outcome, body, touched, connected, faults>>
    BY <1>1 DEF session, link
  <2>2. TypeOK' /\ IntegrityHolds' /\ RequestKnown'
    BY <1>3, <2>1 DEF IInv, TypeOK, IntegrityHolds, RequestKnown, Sound
  <2>3. HandledAreRegistered'
    BY <1>4, <2>1 DEF IInv, HandledAreRegistered
  <2>4. QED
    BY <2>2, <2>3 DEF IInv
<1>6. CASE Start!RunScript(p) /\ (TestUserInsert.ok \/ TestUser \in applied)
  <2>1. Up!IInv'
    BY <1>6, StepsOfStart
  <2>2. \E to : place' = [place EXCEPT ![p] = to]
    BY <1>6 DEF Start!RunScript, Start!Go
  <2>3. TestUserIsThere'
    <3>1. CASE TestUserInsert.ok
      BY <1>3, <3>1 DEF TestUserIsThere
    <3>2. CASE TestUser \in applied
      BY <1>3, <3>2, TestUserIsUser DEF TestUserIsThere
    <3>3. QED
      BY <1>6, <3>1, <3>2
  <2>4. ServesAfterStart'
    BY <1>1, <2>2 DEF ServesAfterStart, session, Up!IInv, Up!TypeOK
  <2>5. QED
    BY <1>5, <2>1, <2>3, <2>4
<1>7. CASE /\ TestUser \notin applied
           /\ place' = [place EXCEPT ![p] = "failed"]
           /\ UNCHANGED <<tableExists, recorded, applied, image, next, crashes>>
  <2>1. Up!IInv'
    BY <1>1, <1>7, FailedStart
  <2>2. ServesAfterStart'
    BY <1>1, <1>7 DEF ServesAfterStart, session, Up!IInv, Up!TypeOK
  <2>3. TestUserIsThere'
    BY <1>7 DEF TestUserIsThere
  <2>4. QED
    BY <1>5, <2>1, <2>2, <2>3
<1>8. QED
  BY <1>6, <1>7 DEF AddTestUser

LEMMA StartServingStep ==
    ASSUME Together, NEW p \in Proc, StartServing(p)
    PROVE  Together'
<1> USE DEF Together
<1>1. Up!IInv' /\ IInv'
  BY StepsOfStart, LinkStep DEF StartServing
<1>2. /\ place' = [place EXCEPT ![p] = "serving"] /\ pc' = [pc EXCEPT ![p] = "idle"]
      /\ applied' = applied /\ db' = db
  BY DEF StartServing, Start!LoopExit, Start!Go, Start!database, Restart, Go, tables
<1>3. ServesAfterStart'
  BY <1>2 DEF ServesAfterStart, IInv, TypeOK, Up!IInv, Up!TypeOK
<1>4. QED
  BY <1>1, <1>2, <1>3 DEF TestUserIsThere

\* A process with a request, or waiting for one, does not come from nowhere.
LEMMA NobodyWakes ==
    ASSUME TypeOK, NEW p \in Proc,
           \/ \E i \in Identities \union {Anonymous}, r \in Requests : Receive(p, i, r)
           \/ Work(p)
           \/ LoseConnection(p)
    PROVE  \A q \in Proc : pc'[q] # "down" => pc[q] # "down"
<1>1. pc[p] # "down"
  BY DEF Receive, Work, Unauthorized, AuthLookup, AuthInsert, Reply, LoseConnection, Handle,
         Handles, Reject, put_circuit_column, put_circuit_done, post_scene, get_scene,
         delete_scene, put_scene, post_circuit, get_circuit, circuit_delete, post_wire,
         get_wire, wire_delete
<1>2. \E place_ : pc' = [pc EXCEPT ![p] = place_]
  <2>1. CASE Handle(p)
    BY <2>1, HandleKeeps DEF Keeps
  <2>2. CASE LoseConnection(p)
    <3>1. pc' = [pc EXCEPT ![p] = pc[p]]
      BY <2>2 DEF LoseConnection, session, TypeOK
    <3>2. QED
      BY <3>1
  <2>3. CASE Unauthorized(p) \/ AuthLookup(p) \/ AuthInsert(p)
    BY <2>3 DEF Unauthorized, AuthLookup, AuthInsert, Answer, Go
  <2>4. CASE Reply(p) \/ \E i \in Identities \union {Anonymous}, r \in Requests : Receive(p, i, r)
    BY <2>4 DEF Reply, Receive, Go
  <2>5. QED
    BY <2>1, <2>2, <2>3, <2>4 DEF Work
<1>3. QED
  BY <1>1, <1>2 DEF TypeOK

LEMMA ServeStep ==
    ASSUME Together, NEW p \in Proc, Serve(p)
    PROVE  Together'
<1> USE DEF Together
<1>1. Next /\ UNCHANGED migration
  BY DEF Serve, Next
<1>2. IInv' /\ Up!IInv'
  BY <1>1, StepIInv, QuietStart
<1>3. \A q \in Proc : pc'[q] # "down" => pc[q] # "down"
  BY NobodyWakes DEF Serve, IInv
<1>4. ServesAfterStart'
  BY <1>1, <1>3 DEF ServesAfterStart, migration
<1>5. TestUserIsThere'
  BY <1>1, TestUserStays DEF migration
<1>6. QED
  BY <1>2, <1>4, <1>5

LEMMA DieStep ==
    ASSUME Together, NEW p \in Proc, Die(p)
    PROVE  Together'
<1> USE DEF Together
<1>1. Up!IInv' /\ IInv'
  BY StepsOfStart, LinkStep DEF Die
<1>2. /\ place' = [place EXCEPT ![p] = "down"] /\ pc' = [pc EXCEPT ![p] = "down"]
      /\ applied' = applied /\ db' = db
  BY DEF Die, Start!Stop, Start!Go, Start!database, Crash, Go, tables
<1>3. ServesAfterStart'
  BY <1>2 DEF ServesAfterStart, IInv, TypeOK, Up!IInv, Up!TypeOK
<1>4. QED
  BY <1>1, <1>2, <1>3 DEF TestUserIsThere

-----------------------------------------------------------------------------
LEMMA InitTogether == InitDeployment => Together
<1> SUFFICES ASSUME InitDeployment PROVE Together
  OBVIOUS
<1>1. Up!IInv
  <2>1. Up!Init
    BY DEF InitDeployment, Start!Init, Up!Init
  <2>2. \A files \in Images : Up!IsFiniteSet(files) /\ files \subseteq Nat \ {0}
    BY SameFinite, DeployedImagesAssumption
  <2>3. QED
    BY <2>1, <2>2, Up!InitIInv, CrashBoundAssumption
<1>2. db \in Database /\ Integrity(db)
  BY SeedsAssumption DEF InitDeployment
<1>3. minted \subseteq Ids
  BY DEF InitDeployment, Ids, Scenes, Circuits, Wires
<1>4. TypeOK
  BY <1>2, <1>3, MaxFaultsAssumption
  DEF TypeOK, InitDeployment, InitSession, Places, Outcomes
<1>5. HandledAreRegistered /\ RequestKnown
  BY DEF InitDeployment, HandledAreRegistered, RequestKnown, InFlight
<1>6. ServesAfterStart /\ TestUserIsThere
  BY DEF InitDeployment, Start!Init, ServesAfterStart, TestUserIsThere
<1>7. QED
  BY <1>1, <1>2, <1>4, <1>5, <1>6 DEF Together, IInv, IntegrityHolds

LEMMA StepTogether == Together /\ [NextDeployment]_<<vars, migration>> => Together'
<1>1. ASSUME Together, NextDeployment
      PROVE  Together'
  BY <1>1, StartUpStep, AddTestUserStep, StartServingStep, ServeStep, DieStep
  DEF NextDeployment
<1>2. ASSUME Together, UNCHANGED <<vars, migration>>
      PROVE  Together'
  <2>1. IInv' /\ Up!IInv'
    BY <1>2, StepIInv, QuietStart DEF Together
  <2>2. ServesAfterStart' /\ TestUserIsThere'
    BY <1>2 DEF Together, ServesAfterStart, TestUserIsThere, vars, tables, session, migration
  <2>3. QED
    BY <2>1, <2>2 DEF Together
<1>3. QED
  BY <1>1, <1>2

LEMMA TogetherAlways == SpecDeployment => []Together
BY InitTogether, StepTogether, PTL DEF SpecDeployment

-----------------------------------------------------------------------------
(* Results.                                                                *)

LEMMA ReachableIsRecorded ==
    ASSUME Up!IInv, NEW p \in Proc, place[p] = "serving"
    PROVE  Start!Reachable(image[p]) \subseteq recorded /\ recorded \subseteq applied
<1>1. PICK k \in Nat : Up!PrefixAt(k)
  BY DEF Up!IInv, Up!Prefix
<1>2. recorded = 1..k /\ recorded \subseteq applied
  BY <1>1 DEF Up!PrefixAt
<1>3. Up!Reachable(image[p]) \subseteq 1..k
  BY <1>1 DEF Up!PrefixAt
<1>4. QED
  BY <1>2, <1>3 DEF Up!Reachable, Start!Reachable

\* However processes start, die and come back from other images, and whomever the
\* filters let in meanwhile, a request is served only behind run_migrations, on
\* tables its image has migrated, with the testing user if the image ships it.
THEOREM ServedCorrect == SpecDeployment => []ServedByMigratedTables
<1>1. Together => ServedByMigratedTables
  <2>1. ASSUME Together, NEW p \in Proc, pc[p] # "down"
        PROVE  /\ place[p] = "serving"
               /\ Start!Reachable(image[p]) \subseteq recorded
               /\ TestUser \in Start!Reachable(image[p]) =>
                        db.user[TestIdentity.id] = TestIdentity.nickname
    BY <2>1, ReachableIsRecorded DEF Together, ServesAfterStart, TestUserIsThere
  <2>2. QED
    BY <2>1 DEF ServedByMigratedTables
<1>2. QED
  BY <1>1, TogetherAlways, PTL

\* A step that leaves the script of the testing user alone.
LEMMA TakenStays ==
    ASSUME Together, Taken, [Next]_vars, TestUser \notin applied'
    PROVE  Taken'
<1>1. PICK u \in Users(db) : u = TestIdentity.id \/ db.user[u] = TestIdentity.nickname
  BY DEF Taken
<1>2. db'.user[u] = db.user[u]
  BY UsersStay DEF Together
<1>3. u \in Users(db') /\ (u = TestIdentity.id \/ db'.user[u] = TestIdentity.nickname)
  BY <1>1, <1>2 DEF Users
<1>4. QED
  BY <1>3 DEF Taken

LEMMA TakenStep ==
    ASSUME Together, Taken, [NextDeployment]_<<vars, migration>>
    PROVE  Taken'
<1>1. ASSUME NEW p \in Proc, StartUp(p)
      PROVE  Taken'
  <2>1. TestUser \notin applied' /\ UNCHANGED vars
    BY <1>1 DEF Taken, StartUp, Start!Start, Start!InitCheck, Start!InitScript, Start!ReadMax,
                Start!RunScript, Start!AddEntry, Start!Crash, Start!database, InsertsTestUser
  <2>2. QED
    BY <2>1, TakenStays
<1>2. ASSUME NEW p \in Proc, AddTestUser(p)
      PROVE  Taken'
  <2>1. ~TestUserInsert.ok
    BY DEF Taken, TestUserInsert, user_insert, Result
  <2>2. applied' = applied /\ db' = TestUserInsert.db
    BY <1>2, <2>1 DEF AddTestUser, Taken
  <2>3. db' = db
    BY <2>1, <2>2 DEF TestUserInsert, user_insert, Result
  <2>4. QED
    BY <2>2, <2>3 DEF Taken
<1>3. ASSUME NEW p \in Proc, StartServing(p) \/ Die(p)
      PROVE  Taken'
  <2>1. applied' = applied /\ db' = db
    BY <1>3 DEF StartServing, Start!LoopExit, Start!database, Restart, tables,
                Die, Start!Stop, Crash
  <2>2. QED
    BY <2>1 DEF Taken
<1>4. ASSUME NEW p \in Proc, Serve(p)
      PROVE  Taken'
  <2>1. Next /\ applied' = applied
    BY <1>4 DEF Serve, Next, migration
  <2>2. QED
    BY <2>1, TakenStays DEF Taken
<1>5. CASE UNCHANGED <<vars, migration>>
  BY <1>5 DEF Taken, vars, tables, migration
<1>6. QED
  BY <1>1, <1>2, <1>3, <1>4, <1>5 DEF NextDeployment

\* A user who came in under the testing user's id or name bars every image that
\* ships that user from serving, for ever: users are never removed, their names
\* never change, and the script is the only one that could have run before them.
THEOREM TakenCorrect == SpecDeployment => TakenForEver
<1> DEFINE Barred == \A p \in Proc : pc[p] # "down" => TestUser \notin Start!Reachable(image[p])
<1>1. Together /\ Taken => Barred
  <2>1. ASSUME Together, Taken, NEW p \in Proc, pc[p] # "down"
        PROVE  TestUser \notin Start!Reachable(image[p])
    BY <2>1, ReachableIsRecorded DEF Together, ServesAfterStart, Taken
  <2>2. QED
    BY <2>1
<1>2. Together /\ Taken /\ [NextDeployment]_<<vars, migration>> => Taken'
  BY TakenStep
<1> HIDE DEF Barred
<1>3. SpecDeployment => [](Taken => [](Taken /\ Barred))
  BY <1>1, <1>2, TogetherAlways, PTL DEF SpecDeployment
<1>4. QED
  BY <1>3 DEF TakenForEver, Barred
===============================================================================
