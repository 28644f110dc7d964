-------------------------- MODULE MigrationsProofs --------------------------
(***************************************************************************)
(* Proofs about Migrations for any set of processes, any finite images and *)
(* any number of crashes.                                                  *)
(***************************************************************************)
EXTENDS Migrations, FiniteSetTheorems, TLAPS

\* The journal is 1..k, the database is 1..k or one script ahead, and what each
\* process remembers of it is stale by at most that much.
PrefixAt(k) ==
    /\ recorded = 1..k
    /\ applied \in {1..k, 1..(k + 1)}
    /\ \A p \in Proc :
        /\ pc[p] = "loop" => next[p] <= k + 1
        /\ pc[p] = "add_entry" => next[p] = k + 1 /\ applied = 1..(k + 1)
        /\ pc[p] = "serving" => Reachable(image[p]) \subseteq 1..k

Prefix == \E k \in Nat : PrefixAt(k)

IInv ==
    /\ TypeOK
    /\ Prefix
    /\ SingleRecorder
    /\ OnlyCrashesStrand

-----------------------------------------------------------------------------
\* MAX over 1..k, as run_migrations reads it, is k (0 for an empty table).
LEMMA CurrentOfPrefix ==
    ASSUME NEW k \in Nat
    PROVE  Current(1..k) = k
<1>1. CASE k = 0
  <2>1. 1..k = {}
    BY <1>1
  <2>2. QED
    BY <2>1, <1>1 DEF Current
<1>2. CASE k # 0
  <2>1. k \in 1..k /\ \A y \in 1..k : k >= y
    BY <1>2
  <2>2. \A x \in 1..k : (\A y \in 1..k : x >= y) => x = k
    BY <1>2
  <2>3. Max(1..k) = k
    BY <2>1, <2>2 DEF Max
  <2>4. QED
    BY <2>1, <2>3 DEF Current
<1>3. QED
  BY <1>1, <1>2

\* The loop's bound counts files; an image that ships 1..i has at least i.
LEMMA ReachableIsCounted ==
    ASSUME NEW files, IsFiniteSet(files), NEW i \in Nat \ {0}, 1..i \subseteq files
    PROVE  i <= Cardinality(files)
<1>1. Cardinality(1..i) = i
  BY FS_Interval
<1>2. Cardinality(1..i) <= Cardinality(files)
  BY FS_Subset
<1>3. QED
  BY <1>1, <1>2

\* When the loop ends at n, no reachable migration is numbered n or more.
LEMMA LoopEnd ==
    ASSUME NEW files, IsFiniteSet(files), files \subseteq Nat \ {0},
           NEW n \in Nat \ {0}, ~(n <= Cardinality(files) /\ n \in files)
    PROVE  Reachable(files) \subseteq 1..(n - 1)
<1>1. SUFFICES ASSUME NEW i \in Reachable(files)
               PROVE  i \in 1..(n - 1)
  OBVIOUS
<1>2. i \in files /\ i \in Nat \ {0} /\ 1..i \subseteq files
  BY DEF Reachable
<1>3. SUFFICES ASSUME i >= n
               PROVE  FALSE
  BY <1>2
<1>4. n \in files
  BY <1>2, <1>3
<1>5. i <= Cardinality(files)
  BY <1>2, ReachableIsCounted
<1>6. Cardinality(files) \in Nat
  BY FS_CardinalityType
<1>7. QED
  BY <1>2, <1>3, <1>4, <1>5, <1>6

-----------------------------------------------------------------------------
LEMMA TypeStep ==
    ASSUME TypeOK, Prefix, Next
    PROVE  TypeOK'
<1> USE DEF TypeOK, Places, Go, database
<1>1. ASSUME NEW p \in Proc, NEW files \in Images, Start(p, files)
      PROVE  TypeOK'
  BY <1>1 DEF Start
<1>2. ASSUME NEW p \in Proc, InitCheck(p)
      PROVE  TypeOK'
  BY <1>2 DEF InitCheck
<1>3. ASSUME NEW p \in Proc, InitScript(p)
      PROVE  TypeOK'
  BY <1>3 DEF InitScript
<1>4. ASSUME NEW p \in Proc, ReadMax(p)
      PROVE  TypeOK'
  <2>1. Current(recorded) \in Nat
    BY CurrentOfPrefix DEF Prefix, PrefixAt
  <2>2. QED
    BY <1>4, <2>1 DEF ReadMax
<1>5. ASSUME NEW p \in Proc, RunScript(p)
      PROVE  TypeOK'
  <2>1. next[p] \in Numbers
    BY <1>5 DEF RunScript, HasNext, Numbers
  <2>2. QED
    BY <1>5, <2>1 DEF RunScript
<1>6. ASSUME NEW p \in Proc, AddEntry(p)
      PROVE  TypeOK'
  <2>1. pc[p] = "add_entry"
    BY <1>6 DEF AddEntry
  <2>2. next[p] \in Numbers
    BY <2>1 DEF Prefix, PrefixAt
  <2>3. QED
    BY <1>6, <2>2 DEF AddEntry
<1>7. ASSUME NEW p \in Proc, LoopExit(p)
      PROVE  TypeOK'
  BY <1>7 DEF LoopExit
<1>8. ASSUME NEW p \in Proc, Stop(p)
      PROVE  TypeOK'
  BY <1>8 DEF Stop
<1>9. ASSUME NEW p \in Proc, Crash(p)
      PROVE  TypeOK'
  BY <1>9, MaxCrashesAssumption DEF Crash
<1>10. QED
  BY <1>1, <1>2, <1>3, <1>4, <1>5, <1>6, <1>7, <1>8, <1>9
  DEF Next, StartupStep

\* The journal and the database stay in step across every statement of every
\* process, in any interleaving of several start-ups.
LEMMA PrefixStep ==
    ASSUME TypeOK, Prefix, SingleRecorder, Next
    PROVE  Prefix'
<1>1. PICK k \in Nat : PrefixAt(k)
  BY DEF Prefix
<1> USE DEF PrefixAt, TypeOK, Places, Go, database
<1>2. ASSUME NEW p \in Proc, NEW files \in Images, Start(p, files)
      PROVE  PrefixAt(k)'
  BY <1>1, <1>2 DEF Start
<1>3. ASSUME NEW p \in Proc, InitCheck(p)
      PROVE  PrefixAt(k)'
  BY <1>1, <1>3 DEF InitCheck
<1>4. ASSUME NEW p \in Proc, InitScript(p)
      PROVE  PrefixAt(k)'
  BY <1>1, <1>4 DEF InitScript
<1>5. ASSUME NEW p \in Proc, ReadMax(p)
      PROVE  PrefixAt(k)'
  <2>1. Current(recorded) = k
    BY <1>1, CurrentOfPrefix
  <2>2. QED
    BY <1>1, <1>5, <2>1 DEF ReadMax
<1>6. ASSUME NEW p \in Proc, RunScript(p)
      PROVE  PrefixAt(k)'
  <2>1. CASE next[p] \in applied
    <3>1. applied' = applied /\ UNCHANGED <<recorded, next, image>>
      BY <1>6, <2>1 DEF RunScript
    <3>2. pc' = [pc EXCEPT ![p] = "failed"]
      BY <1>6, <2>1 DEF RunScript
    <3>3. QED
      BY <1>1, <3>1, <3>2
  <2>2. CASE next[p] \notin applied
    <3>1. next[p] = k + 1 /\ applied = 1..k
      BY <1>1, <1>6, <2>2 DEF RunScript
    <3>2. applied' = 1..(k + 1)
      BY <1>6, <3>1 DEF RunScript
    <3>3. pc' = [pc EXCEPT ![p] = "add_entry"] /\ UNCHANGED <<recorded, next, image>>
      BY <1>6, <2>2 DEF RunScript
    <3>4. QED
      BY <1>1, <3>1, <3>2, <3>3
  <2>3. QED
    BY <2>1, <2>2
<1>7. ASSUME NEW p \in Proc, AddEntry(p)
      PROVE  PrefixAt(k + 1)'
  <2>1. pc[p] = "add_entry" /\ next[p] = k + 1 /\ applied = 1..(k + 1)
    BY <1>1, <1>7 DEF AddEntry
  <2>2. next[p] \notin recorded
    BY <1>1, <2>1
  <2>3. /\ pc' = [pc EXCEPT ![p] = "loop"]
        /\ next' = [next EXCEPT ![p] = k + 2]
        /\ recorded' = 1..(k + 1)
        /\ applied' = 1..(k + 1)
        /\ UNCHANGED image
    <3>1. (1..k) \union {k + 1} = 1..(k + 1) /\ (k + 1) + 1 = k + 2
      OBVIOUS
    <3>2. recorded = 1..k
      BY <1>1
    <3>3. /\ pc' = [pc EXCEPT ![p] = "loop"]
          /\ next' = [next EXCEPT ![p] = next[p] + 1]
          /\ recorded' = recorded \union {next[p]}
          /\ UNCHANGED <<applied, image>>
      BY <1>7, <2>2 DEF AddEntry
    <3>4. QED
      BY <2>1, <3>1, <3>2, <3>3
  <2>4. \A q \in Proc \ {p} : pc'[q] # "add_entry" /\ pc'[q] = pc[q] /\ next'[q] = next[q]
    BY <2>1, <2>3 DEF SingleRecorder
  <2>5. pc'[p] = "loop" /\ next'[p] = k + 2
    BY <2>3
  <2>6. \A q \in Proc : /\ pc'[q] = "loop" => next'[q] <= k + 2
                        /\ pc'[q] # "add_entry"
                        /\ pc'[q] = "serving" => Reachable(image[q]) \subseteq 1..(k + 1)
    <3>1. 1..k \subseteq 1..(k + 1)
      OBVIOUS
    <3>2. QED
      BY <1>1, <2>4, <2>5, <3>1
  <2>7. QED
    BY <2>3, <2>6
<1>8. ASSUME NEW p \in Proc, LoopExit(p)
      PROVE  PrefixAt(k)'
  <2>1. pc[p] = "loop" /\ next[p] <= k + 1
    BY <1>1, <1>8 DEF LoopExit
  <2>2. IsFiniteSet(image[p]) /\ image[p] \subseteq Nat \ {0}
    BY ImagesAssumption, FS_EmptySet
  <2>3. Reachable(image[p]) \subseteq 1..(next[p] - 1)
    BY <1>8, <2>2, LoopEnd DEF LoopExit, HasNext
  <2>4. Reachable(image[p]) \subseteq 1..k
    BY <2>1, <2>3
  <2>5. QED
    BY <1>1, <1>8, <2>4 DEF LoopExit
<1>9. ASSUME NEW p \in Proc, Stop(p)
      PROVE  PrefixAt(k)'
  BY <1>1, <1>9 DEF Stop
<1>10. ASSUME NEW p \in Proc, Crash(p)
       PROVE  PrefixAt(k)'
  BY <1>1, <1>10 DEF Crash
<1>11. QED
  BY <1>2, <1>3, <1>4, <1>5, <1>6, <1>7, <1>8, <1>9, <1>10
  DEF Next, StartupStep, Prefix

\* The loser of a race fails on its script before it can reach the journal.
LEMMA RecorderStep ==
    ASSUME TypeOK, Prefix, SingleRecorder, Next
    PROVE  SingleRecorder'
<1> USE DEF TypeOK, Go
<1>1. ASSUME NEW p \in Proc, RunScript(p), next[p] \notin applied
      PROVE  SingleRecorder'
  <2>1. PICK k \in Nat : PrefixAt(k)
    BY DEF Prefix
  <2>2. next[p] = k + 1 /\ applied = 1..k
    BY <1>1, <2>1 DEF RunScript, PrefixAt
  <2>3. applied # 1..(k + 1)
    BY <2>2
  <2>4. \A q \in Proc : pc[q] # "add_entry"
    BY <2>1, <2>3 DEF PrefixAt
  <2>5. pc' = [pc EXCEPT ![p] = "add_entry"]
    BY <1>1 DEF RunScript
  <2>6. QED
    BY <2>4, <2>5 DEF SingleRecorder
<1>2. ASSUME NEW p \in Proc,
             \A q \in Proc : pc'[q] = "add_entry" => pc[q] = "add_entry"
      PROVE  SingleRecorder'
  BY <1>2 DEF SingleRecorder
<1>3. ASSUME NEW p \in Proc, NEW place \in Places \ {"add_entry"}, Go(p, place)
      PROVE  \A q \in Proc : pc'[q] = "add_entry" => pc[q] = "add_entry"
  BY <1>3
<1>4. ASSUME NEW p \in Proc, StartupStep(p), ~(RunScript(p) /\ next[p] \notin applied)
      PROVE  \E place \in Places \ {"add_entry"} : Go(p, place)
  BY <1>4 DEF StartupStep, InitCheck, InitScript, ReadMax, RunScript, AddEntry,
              LoopExit, Places
<1>5. ASSUME NEW p \in Proc, NEW files,
             Start(p, files) \/ Stop(p) \/ Crash(p)
      PROVE  \E place \in Places \ {"add_entry"} : Go(p, place)
  BY <1>5 DEF Start, Stop, Crash, Places
<1>6. QED
  BY <1>1, <1>2, <1>3, <1>4, <1>5 DEF Next

\* Only a crash separates an applied script from the process that records it.
LEMMA StrandStep ==
    ASSUME TypeOK, Prefix, SingleRecorder, OnlyCrashesStrand, Next
    PROVE  OnlyCrashesStrand'
<1> USE DEF TypeOK, Go, database
<1>1. ASSUME NEW p \in Proc, RunScript(p)
      PROVE  OnlyCrashesStrand'
  <2>1. CASE next[p] \in applied
    BY <1>1, <2>1 DEF RunScript, OnlyCrashesStrand
  <2>2. CASE next[p] \notin applied
    BY <1>1, <2>2 DEF RunScript, OnlyCrashesStrand
  <2>3. QED
    BY <2>1, <2>2
<1>2. ASSUME NEW p \in Proc, AddEntry(p)
      PROVE  OnlyCrashesStrand'
  <2>1. PICK k \in Nat : PrefixAt(k)
    BY DEF Prefix
  <2>2. next[p] = k + 1 /\ applied = 1..(k + 1) /\ recorded = 1..k
    BY <1>2, <2>1 DEF AddEntry, PrefixAt
  <2>3. (1..k) \union {k + 1} = 1..(k + 1) /\ k + 1 \notin 1..k
    OBVIOUS
  <2>4. applied' = recorded'
    BY <1>2, <2>2, <2>3 DEF AddEntry
  <2>5. QED
    BY <2>4 DEF OnlyCrashesStrand
<1>3. ASSUME NEW p \in Proc, Crash(p)
      PROVE  OnlyCrashesStrand'
  <2>1. crashes' > 0
    BY <1>3, MaxCrashesAssumption DEF Crash
  <2>2. QED
    BY <2>1 DEF OnlyCrashesStrand
<1>4. ASSUME NEW p \in Proc, NEW place, Go(p, place), pc[p] # "add_entry",
             UNCHANGED <<applied, recorded, crashes>>
      PROVE  OnlyCrashesStrand'
  <2>1. (\A q \in Proc : pc'[q] # "add_entry") => \A q \in Proc : pc[q] # "add_entry"
    BY <1>4
  <2>2. QED
    BY <1>4, <2>1 DEF OnlyCrashesStrand
<1>5. ASSUME NEW p \in Proc, NEW files \in Images, Start(p, files)
      PROVE  OnlyCrashesStrand'
  BY <1>4, <1>5 DEF Start
<1>6. ASSUME NEW p \in Proc, InitCheck(p) \/ InitScript(p) \/ ReadMax(p) \/ LoopExit(p)
      PROVE  OnlyCrashesStrand'
  BY <1>4, <1>6 DEF InitCheck, InitScript, ReadMax, LoopExit
<1>7. ASSUME NEW p \in Proc, Stop(p)
      PROVE  OnlyCrashesStrand'
  BY <1>4, <1>7 DEF Stop
<1>8. QED
  BY <1>1, <1>2, <1>3, <1>5, <1>6, <1>7 DEF Next, StartupStep

-----------------------------------------------------------------------------
LEMMA InitIInv == Init => IInv
<1> SUFFICES ASSUME Init
             PROVE  IInv
  OBVIOUS
<1>1. TypeOK
  <2>1. image \in [Proc -> Images \union {{}}]
    BY DEF Init
  <2>2. 0 \in 0..MaxCrashes
    BY MaxCrashesAssumption
  <2>3. pc \in [Proc -> Places] /\ next \in [Proc -> Nat \ {0}]
    BY DEF Init, Places
  <2>4. QED
    BY <2>1, <2>2, <2>3 DEF Init, TypeOK
<1>2. PrefixAt(0)
  BY DEF Init, PrefixAt
<1>3. SingleRecorder /\ OnlyCrashesStrand
  BY DEF Init, SingleRecorder, OnlyCrashesStrand
<1>4. QED
  BY <1>1, <1>2, <1>3 DEF IInv, Prefix

LEMMA StepIInv == IInv /\ [Next]_vars => IInv'
<1>1. ASSUME IInv, Next
      PROVE  IInv'
  BY <1>1, TypeStep, PrefixStep, RecorderStep, StrandStep DEF IInv
<1>2. ASSUME IInv, UNCHANGED vars
      PROVE  IInv'
  BY <1>2 DEF IInv, vars, TypeOK, Prefix, PrefixAt, SingleRecorder, OnlyCrashesStrand
<1>3. QED
  BY <1>1, <1>2

LEMMA Invariant == Spec => []IInv
BY InitIInv, StepIInv, PTL DEF Spec

\* Every variable keeps its type: in particular no step touches a script that
\* no image ships (init_migrations and run_migrations, statement by statement).
THEOREM TypeCorrect == Spec => []TypeOK
<1>1. IInv => TypeOK
  BY DEF IInv
<1>2. QED
  BY <1>1, Invariant, PTL

\* The journal stays a gapless prefix of the migration numbers and the database
\* at most one script ahead of it, whatever the processes and images are: the
\* ground for run_migrations to look at MAX(number) alone.
THEOREM JournalCorrect == Spec => []JournalIsPrefix
<1>1. ASSUME IInv
      PROVE  JournalIsPrefix
  <2>1. PICK k \in Nat : PrefixAt(k)
    BY <1>1 DEF IInv, Prefix
  <2>2. Current(recorded) = k
    BY <2>1, CurrentOfPrefix DEF PrefixAt
  <2>3. (1..k) \union {k + 1} = 1..(k + 1)
    OBVIOUS
  <2>4. QED
    BY <2>1, <2>2, <2>3 DEF PrefixAt, JournalIsPrefix
<1>2. QED
  BY <1>1, Invariant, PTL

\* No two processes are ever between a script and its entry, without a lock.
THEOREM RecorderExclusion == Spec => []SingleRecorder
<1>1. IInv => SingleRecorder
  BY DEF IInv
<1>2. QED
  BY <1>1, Invariant, PTL

\* A serving process has every reachable migration of its image behind it,
\* however many other processes with other images start, race and crash.
THEOREM ServedSchemaCorrect == Spec => []ServingMeansMigrated
<1>1. IInv => ServingMeansMigrated
  BY DEF IInv, Prefix, PrefixAt, ServingMeansMigrated
<1>2. QED
  BY <1>1, Invariant, PTL

\* A database is stuck ahead of its journal only if a process died in between.
THEOREM StrandedByCrash == Spec => []OnlyCrashesStrand
<1>1. IInv => OnlyCrashesStrand
  BY DEF IInv
<1>2. QED
  BY <1>1, Invariant, PTL

\* Scripts take effect in order, each after all its predecessors are recorded,
\* and nothing is ever unapplied.
THEOREM MigrationOrder == Spec => AppliedInOrder
<1> DEFINE Ordered == /\ applied \subseteq applied' /\ recorded \subseteq recorded'
                      /\ \A i \in applied' \ applied : 1..(i - 1) \subseteq recorded
<1>1. ASSUME IInv, Next
      PROVE  Ordered
  <2>1. PICK k \in Nat : PrefixAt(k)
    BY <1>1 DEF IInv, Prefix
  <2>2. ASSUME NEW p \in Proc, RunScript(p)
        PROVE  Ordered
    <3>1. UNCHANGED recorded /\ applied' = applied \union {next[p]}
      BY <2>2 DEF RunScript
    <3>2. next[p] <= k + 1 /\ next[p] \in Nat
      BY <1>1, <2>1, <2>2 DEF RunScript, PrefixAt, IInv, TypeOK
    <3>3. 1..(next[p] - 1) \subseteq recorded
      BY <2>1, <3>2 DEF PrefixAt
    <3>4. QED
      BY <3>1, <3>3
  <2>3. ASSUME UNCHANGED applied, recorded \subseteq recorded'
        PROVE  Ordered
    BY <2>3
  <2>4. QED
    BY <1>1, <2>2, <2>3
    DEF Next, StartupStep, Start, InitCheck, InitScript, ReadMax, AddEntry,
        LoopExit, Stop, Crash, database
<1>2. IInv /\ [Next]_vars => [Ordered]_vars
  BY <1>1
<1>3. QED
  BY <1>2, Invariant, PTL DEF Spec, AppliedInOrder
=============================================================================
