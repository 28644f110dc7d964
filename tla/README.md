# A verification of the Malphas backend

Malphas is a backend for drawing logic circuits: users own scenes, scenes hold
circuits (gates, possibly nested), wires connect circuits.  This directory holds
TLA+ models of the program, the TLC configurations that check them on small
instances, and TLAPS proofs for instances of any size.  The code it models is
under `src/`; `PROJECT.json` maps every definition to the lines it stands for.

## 1. The system

| Part | Code | State | Operations |
|---|---|---|---|
| Start-up | `src/src/Main.cpp`, `src/src/Database.cpp` | a connection; in the database the journal `db_migration` and whatever the scripts have created | connect, `init_migrations`, `run_migrations` |
| Tables | `src/migrations/*.sql` | `user`, `scene`, `circuit`, `wire`, with foreign keys that cascade | SQL |
| DAO | `src/include/dao/dao.h`, `dao_preamble.h` (generated) | none | one function per SQL statement |
| AuthFilter | `src/src/middleware/AuthFilter.cpp` | the request's `user_id` | look up the user of the headers, register it if it is new |
| MalphasApi | `src/src/Api.cpp` | none | eleven handlers: create, list, delete for scenes, circuits and wires, change for scenes and circuits |
| Configuration reader | `src/src/cfg/Config.cpp`, `src/src/parser.cpp` | properties, required keys | parse, validate, look up |
| Code generator | `src/codegen/gen.cpp`, `src/include/ordered_map.hpp` | none at run time | writes `dao.h` from the schema and `daos.cfg` |
| Deployment | `src/Dockerfile`, `src/docker/` | | starts, stops, restarts processes |

How they interact.  `main` reads two configuration files, connects, migrates and
only then serves.  Crow calls `AuthFilter::before_handle` and, unless that has
ended the response, one handler; both send SQL through `Database::query`, which
is `PQexec` on the process' only connection.  There is no other communication:
two processes meet only in the database.

What is hard about it:

* **Interleaving.**  `app.run()` uses Crow's default of two threads, one of
  which accepts; the other runs all handlers.  So inside one process requests
  are sequential, and what interleaves are the statements of *several
  processes* on one database (two instances behind the proxy, or the old and
  the new one of a rolling deployment).  No code opens a transaction or takes a
  lock: every statement stands alone.
* **Check, then act.**  The filter looks up a user and inserts it in two
  statements; start-up asks whether the journal exists and then creates it,
  reads `MAX(number)` and then runs scripts.
* **Partial effects.**  `PUT /circuit` sends up to four UPDATEs; a migration is
  a script and then a journal entry.
* **Failure.**  Any statement may be aborted; a connection may die, with or
  without the statement committed, and is never reopened; a process may die.
* **Text.**  Hand-written scanners with pointers; C++ that prints C++ that
  builds SQL, with quotation marks opened in one function and closed in another;
  escaping and narrowing of values that clients read and send back.
* **Cascades.**  `on delete cascade` runs along `parent_scene`,
  `parent_circuit` (of whatever scene, and possibly in a cycle) and the ends of
  wires.

What makes each part correct: the journal tells what has been applied, and a
serving process has its schema (start-up); references and names stay consistent
under all interleavings (tables); whoever reaches a handler is registered, and
nobody is refused without cause (filter); only the author touches a scene, an
acknowledged request has had its effect, an error leaves none, a cascade takes
only what it must, a listing shows what was stored (handlers); a configuration
file means what its lines say, or the program does not start (reader); a header
that compiles sends the right statements (generator); and no request is served
before its process has migrated the tables (the whole).  The hazards, each at its
line, are in `PROJECT.json`.

## 2. Modules

```
start-up    Migrations <- MCMigrations, MigrationsProofs
requests    Schema <- Backend <- MCBackend
            Backend <- BackendProofs
service     Backend <- SceneRefinement (an instance of SceneService) <- MCSceneRefinement
clients     Backend <- EchoClients <- MCEchoClients
both        SceneRefinement, EchoClients, BackendProofs <- AnswerProofs
the whole   Backend <- Deployment (with an instance of Migrations) <- MCDeployment
            Deployment, BackendProofs <- DeploymentProofs (an instance of MigrationsProofs)
loops       Folding <- OrderedMap;  Folding <- FoldingProofs
values      Folding <- Values <- MCValues;  Values, FoldingProofs <- ValuesProofs
reader      Config <- ConfigLines <- MCConfig
            Config, OrderedMap <- DaoConfig;  DaoConfig, ConfigLines <- DaoLines
            DaoLines, MCConfig <- MCDaoConfig;  DaoLines, FoldingProofs <- ConfigProofs
generator   OrderedMap <- Codegen <- DaoHeader <- MCCodegen
            DaoHeader, FoldingProofs <- CodegenProofs
```

**Migrations** — start-up.  `tableExists`, `recorded` and `applied` are the
database: whether `db_migration` exists, its rows, and the scripts whose effects
are there.  `pc`, `image` and `next` are a process: where it is in `main`, the
numbers of the `.sql` files in its image, and the loop variable `i`.  One action
per statement: `InitCheck` (to_regclass), `InitScript`, `ReadMax`, `RunScript`,
`AddEntry`, and `LoopExit` for leaving the loop, whose bound is the *number* of
files and which ends at the first missing number (`HasNext`).  A script is one
transaction, as `PQexec` makes of a multi-statement string.  Every script of the
repository fails when it is run a second time (it creates or drops something, or
inserts a unique row), so `RunScript` fails exactly when the script has been
applied.  `main` returns 1 on any failure (`"failed"`), from where a process may
be started again from any image, an older one included.  A lost connection during
start-up also ends in `main` returning 1 and is the same as `Crash`.

**Schema** — tables and statements.  A database is a record of four functions;
an id without a row maps to `Absent`.  Each DAO function that the program calls
is an operator from a database to a result `[ok, db]`.  `ok` is what
`dao_query` learns: an UPDATE or DELETE without a matching row *is* ok.  `Cascade`
is the least set of circuits that is closed under "child of".  Kept of the
columns is what statements match, constrain or set separately; a scene's name
and description are written together and are one `Text`, and a wire's counts and
path are dropped.  `Malformed` stands for a text that PostgreSQL cannot parse as
a UUID and for a JSON value of the wrong type.  `cast_bool` and `CircuitDto`
(in Backend) are the two conversions on the way out, modelled by what they do.

**Backend** — requests.  A process goes through `idle`, `auth_lookup`,
`auth_insert`, `handle`, `reply`, one step per statement.  `who` and `req` are
the headers and the request, `made` the UUID that a POST draws, `todo` the
columns `put_circuit` has not come to yet, `outcome` and `body` the answer.
`minted` remembers every UUID that ever had a row; it is there to say what a
random UUID is (none of those, none drawn by another process) and what never
happens to an id.  `Executes` is `Database::query`: the statement takes effect
and its result arrives; the connection is dead and nothing happens; the database
aborts it; or it commits and the connection dies before the result arrives.
Outcomes stand for status codes: `ok` 200, `unauthorized` 401, `refused` the
filter's 500, `rejected` a 400 (or 500) before any statement, `failed` the
handler's 400 or 500 after one.  All that a handler checks before its first
statement is the request `"invalid"`, except that of wrong JSON types in the body of
`PUT /circuit`, which is read column by column between the UPDATEs (a `Malformed`
value makes `.i()` or `.s()` throw after the earlier columns have been written).

**SceneService** — what the backend promises about scenes, without processes,
filters or statements: a request takes effect in one step between its arrival and
its answer, for its own user; if it is granted it has had its whole effect, if not
none, unless the link to the database broke as it took effect (`Unheard`).
**SceneRefinement** maps Backend to it: a process is the client it serves, the
request is *asked* from `auth_lookup` to the handler and *answered* in `reply`;
`scene`, `used` and `linked` are `db.scene`, `minted` and `connected`.

**EchoClients** — Backend with clients that send back what they were shown:
`seen` collects the circuits of responses to `get_circuit`, and who moves or copies a
circuit takes its parent (and, for a copy, its scene) from there, while others
give circuits new parents or delete them.  The response writes a missing parent as the
empty text (`CircuitDto`), which no statement accepts.

**Deployment** — Migrations and Backend as one system: `place` is where a process
is in `main` (Migrations' `pc`), `pc` where it is in a request, and it can be in one
only after the other has reached `serving` (`StartServing`).  The parts also share
the user table: `7_Add_testing_user.sql` inserts a row into it, so `AddTestUser`
fails when the filter has let someone in under that id or name, a failure that
`Migrations` alone does not have.

**Values** — a text, a number or a wire's path on its way into a column and back.
`Escape` is `sql_sanitize`; `ReadLiteral` is PostgreSQL with standard conforming
strings, in which a backslash is a character like others; `narrow` is the
conversion of a 64-bit integer to an `int`; `path_ok` is the check of `post_wire`,
`load` is `crow::json::load` (Crow is vendored as `src/vendor/crow/crow_all.h`) and `Dump` a
client that writes JSON, for scalars, lists of scalars and lists of those, which is as
deep as paths nest.  What runs along a text is a fold, written as
a recursive function.  `WriteBack` is a client that stores what it was shown.

`GET /wire` does not show the stored text of a path but a `crow::json::wvalue` made of it, and that
changes numbers (`AsShown`, `Reprinted`): a numeral with a point or an exponent becomes the nearest
double (`to_double`) and is printed with `%f`, six decimals, the nearest or the even one
(`printed`), into 128 bytes, where a number of 127 digits loses its point and is an integer
from then on (`in_outbuf`); any other numeral is read as an integer of 64 bits, out of range as
the end of the range (`to_integer`).  So `0.1234567` comes back as `0.123457` and `1e-7` as
`0.0`.  A numeral is one token; `Meaning` says which kind it is and the number it stands for.
Numbers are integers in units of 1/`One`: in the program `Printed` is `One`/10^6, `Full` 10^126,
`Least` and `Greatest` -2^63 and 2^64 - 1, and `Precise` can be 4 * 10^9.

**Config** — `Config::parse`, one step per turn of its loop, over texts made of
the symbols the scanner tells apart; a name is one symbol, a character that splits or
ends something is one as well.  `buffer` is the pointer, and `At` answers `NUL` behind
the text, as `read_file` leaves it.  `validate` keeps the first property of a path,
and records what the validation functions assign.  **DaoConfig** adds
`parse_dao_config`: the sections in any order (they are in a hash map), the
parameters with `OrderedMap`'s `emplace`; `daos` says how far it is.  A parsed file
is either validated (`validate`, the two files `main` reads) or taken apart by section
(`get_sections`, the one the generator reads).  **ConfigLines** is what the text of a
file means, without a scanner: its lines, the `]` that end heads of sections, the `Body` of a
line behind its heads and what it `Says` if it is an assignment, all by quantifiers over
positions.  The properties that compare `Config` with it are stated there.
**DaoLines** says the same of `config/daos.cfg`: the function that a section describes, its
parameters found by the positions of the `;` that end them (`Parameters`, `Counted`), where
`parse_params` cuts the text from the front.

**Codegen** — `gen.cpp`.  A generated function is a record of its name, parameters,
calls and the C++ expression of its query, as a sequence of tokens: `Mark` opens
or closes a literal, `Term` is a parameter that `xto_string` prints.  The `emit_`
operators give the tokens each C++ function prints, in its order; `Substitute` is
the loop over the question marks of a custom query, with its arithmetic on
positions.  The actions are `main` with its failures.  `Inputs` are the schemas and the
configurations that it may find.  **DaoHeader** is what the header is for: a C++ compiler that
reads a query token by token (`ReadToken`), and the statement that the layout of a table or a query
of `daos.cfg` asks for (`Meaning`, `CustomMeaning`).  **OrderedMap** is `ordered_map.hpp`, and
**Folding** what a loop over a sequence is for the provers, a recursive function.

The modules also hold *faulty variants* (`CascadeOnce`, `RunScriptUnchecked`,
...): each is a plausible bug in the definition that follows it.  No
specification uses them; for every property there is one that breaks it
(`mutants` in `PROJECT.json`).

## 3. Runs

| Run | Instance | Question |
|---|---|---|
| `migrations_rolling` | 3 processes; images {1}, {1, 2, 3} and {1, 2, 4, 5}; 1 crash; fairness | journal, order and served schema under races, crashes and old images; can starters refuse each other for ever |
| `migrations_crash` | 1 process, 1 crash | *violation*: does the journal track what ran |
| `backend_race` | 2 processes; Alice, Bob, and Bob's id under Alice's name; the scene requests and a circuit; 1 fault | registration, ownership and lives of rows; is the service of scenes atomic (refinement) |
| `backend_cascade` | 1 process, 3 circuits in 2 scenes, any nesting, 1 wire | what deletions take |
| `backend_alone` | 1 process, all operations, good, missing and malformed references, all column subsets, 1 fault, fairness | what 200 and errors mean to a client, and that one of them comes |
| `backend_tidy` | 2 processes, 2 scenes, 2 circuits, 1 wire, clients that keep to one scene | do scenes stay apart |
| `backend_init_signal` | 1 process, 1 wire | *violation*: is a wire shown as stored |
| `backend_echo` | 2 processes, 2 circuits in a scene, clients that move, copy, re-parent and delete | can what was shown be sent back; what is left of a circuit when PUTs interleave |
| `deployment` | 2 processes, 2 images, a namesake of the testing user, 1 crash, 1 fault, fairness | do processes serve only tables they have migrated, which starts fail for good |
| `values` | texts of 4 characters out of `\ ' " a`, 6-bit integers into 4-bit ints, JSON lists of lists, paths with each of 32 numerals, 3 rounds | what a column holds and a client reads |
| `config` | all texts of up to 5 of 9 symbols; files of 3 blocks out of 17, and of 3 lines out of 10 in a section, 2 required paths, one a port; two sections with all combinations of keys and 7 parameter texts; fairness | does the scanner stay in its text and end, does the program start with what the file says, which functions does a file describe |
| `codegen` | one table of 1 to 3 columns with any keys, types and nullability; one custom function with queries of up to 4 pieces; the tables and four functions of the repository; a failure of every query | are generated statements right, when do they compile, is anything missing |

What they show.

* The journal is a gapless prefix and the database at most one script ahead
  (`JournalIsPrefix`); the loser of a race fails in its script and so stays out of
  the window before the entry (`SingleRecorder`); some starter gets to serve unless
  one crashes (`SomeoneServes`).
* A *crash* in the window strands the script for good: `TracksWhatRan` fails,
  and every later start exits 1 (first finding).
* Two processes that both miss a user let one insert and the other answer 500,
  or one user's name blocks another: those are the only refusals without a fault
  (`RefusedForCause`).  They never let an unregistered user through.
* Ownership rests only on `author = ...` in each WHERE clause, and that is
  enough (`OnlyAuthorTouchesScene`).  Circuits and wires have *no* owner check in the
  code, so no such property is stated of them.
* A request that is answered 200 has taken effect as a whole, to a client that is
  alone (`AcknowledgedIsDone`): a row that another user owns or that is gone is
  passed over in silence.  An error leaves nothing behind, with the two exceptions
  that `ErrorLeavesNoTrace` names: `PUT /circuit` and a connection that died.
* Two `PUT /circuit` of one circuit may leave a mixture of both, but nothing that
  neither asked for (`OnlyRequestedColumnsChange`).
* The server accepts references across scenes.  If clients avoid them
  (`TidySpec`, an assumption about clients, not about the code), no stored wire
  is invisible and deleting a scene takes only its own circuits, even when
  another process rearranges them meanwhile.
* GET /wire shows every wire with `init_signal` false (second finding).
* To its clients the service of scenes is atomic, in spite of the filter's two
  statements, other processes and lost results (`ScenesAreAtomic`): other
  operations on several rows, and `PUT /circuit`, have no such promise.
* A client that moves a circuit just as it was shown gets an error without any
  fault for two reasons only: the circuit has no parent, which was shown as the
  empty text, or it has been given another parent meanwhile (`EchoRefusedForCause`).
* A process serves only what its image has migrated, whatever dies and comes back
  (`ServedByMigratedTables`).  But a user registered as the testing user before
  migration 7 blocks every image that ships it, for ever (`TakenForEver`), and together
  with a crash in the window that is the only way for a start that no other overlaps
  to fail (`UndisturbedStartServes`).
* `sql_sanitize` always lets a literal end where the DAO ends it (`LiteralsClose`).
  It changes texts with backslashes and quotation marks, more so with every round of
  reading and writing back, but keeps different texts different (`NothingIsLost`);
  all other texts and `int`s come back as written (`NumbersFit`, `WrittenIsShown`).
* A wire's path can always be read again (`PathsAreReadable`), but it comes back with the same
  numbers only if these are integers of 64 bits or decimals of up to six places and not too
  large (`WrittenIsShown`); other decimals come back less than 10^-6 from what the client wrote,
  and stay there however often the client writes back what it read.  Integers of more than 64 bits
  and decimals beyond `Precise` may come back as other numbers; nothing is claimed of those.
* The scanner agrees with the meaning of the lines for every text of the run
  (`MeansItsLines`), stays in its buffer (`NeverPassesNul`), and reading always comes
  to an end (`Decides`).  A program that starts has for every required path what the
  first line says, of a port the number in it, with nothing but white space
  before it, which `std::stoi` skips (`StartsAsWritten`), and the generator gets one function for each
  section, in whatever order the hash map has them (`FunctionsMeanTheirSections`).
  Keys with digits are refused; the comment in `src/include/parser.hpp` would allow
  them.
* A header that compiles is right (`CompiledIsRight`), and it compiles exactly for
  tables like the repository's: one key, of a text type, and other columns
  (`CompilesIfSupported`), though the head of `src/codegen/gen.cpp` speaks of any
  schema.  A failure on the way always shows in the exit status (`NothingMissing`),
  one of them as a crash.

Bounds.  `MaxCrashes` and `MaxFaults` bound crashes and faults per behaviour;
the id sets bound how many rows are ever stored, since ids are not used again.  Two
processes are enough for every race between requests because all of them are
between one process' two statements and one statement of another; start-up has
three, where two can pair up against a third.  Three circuits give chains, cycles and a
parent in another scene.  One fault suffices to separate the outcomes of
`Executes`; after a lost connection all further statements of that process fail
without spending another.  `Seeds` are databases a deployment may find: what the
migrations leave behind (the testing user of migration 7 included), or that with
Alice and her scenes.  In `deployment` script 1 stands for the
six that make the tables and script 2 for the one with the testing user; an older
image is one that ships fewer scripts with the same code.  Texts of five symbols are enough for a
section, a property and what follows on its line; longer files are made of blocks that
are whole lines, since the scanner keeps nothing from one line to the next but the
section.  Three columns give every position a field can have in the loops of the
generator: first, between and last, before and behind a key; four pieces put a
question mark first, last, doubled and next to quotation marks.  In `values` an int has
4 bits (`Half` = 8) and the integers have 6, so that every residue and sign occurs.
The numbers of a path are sixteenths, of which halves are printed, doubles are three sixteenths
apart, integers range from -2 to 20 and a number has room for its point up to 30: that has
decimals that round up, down and on a tie to either side, of both signs, exact ones that no double
hits, an exponent, integers beyond both ends, decimals beyond all doubles and decimals that lose
their point.  `MaxRounds` is the number of times a client writes back.  In `backend_echo` no request names a circuit as its own
parent; `backend_cascade` has those.  Symmetry is used over processes, and over scenes and
circuits where no request names one in particular, and only in runs without
liveness properties.

Fairness.  Weak fairness of a process' own steps only: `StartupStep` in
`migrations_rolling`, `Work` in `backend_alone`, both, as `Continue`, in `deployment`,
and the loops of the only thread of a program that reads its configuration (`Work`
of DaoConfig, which begins once the text has been read).  A thread that can run does,
and every statement returns.  Nothing obliges clients to send requests, an operator
to restart a process, or a file to be opened.

## 4. Proofs

For any set of processes, any images, requests, ids and seeds, any number of
crashes and faults:

| Theorem | Module | Says |
|---|---|---|
| `TypeCorrect`, `JournalCorrect`, `RecorderExclusion`, `ServedSchemaCorrect`, `StrandedByCrash`, `MigrationOrder` | MigrationsProofs | all safety properties of start-up that hold |
| `TypeCorrect`, `IntegrityCorrect`, `RegistrationCorrect` | BackendProofs | types, constraints, who reaches a handler |
| `OwnershipCorrect`, `CascadeCorrect`, `ColumnsCorrect` | BackendProofs | what a step may do to scenes, in a cascade, to a circuit's columns |
| `LivesCorrect` | BackendProofs | what never changes of a row, and that no id is used twice |
| `TidyWiresCorrect`, `TidyDeletionCorrect` | BackendProofs | with tidy clients: no wire is invisible, a scene's deletion stays inside it |
| `ErrorsLeaveNoTrace`, `RefusalCorrect` | AnswerProofs | what an error response tells, and whom the filter refuses |
| `AcknowledgementsCorrect` | AnswerProofs | what 200 promises, when there is one process |
| `EchoCorrect` | AnswerProofs | why a move of a circuit as it was shown can be refused |
| `ScenesCorrect` | AnswerProofs | Backend implements SceneService: the initial states map to initial states, every step to a step or a stutter |
| `ServedCorrect`, `TakenCorrect` | DeploymentProofs | requests are served on migrated tables; a taken name bars the image for ever |
| `Closing`, `Keeping`, `Fitting`, `Showing`, `Reloading` | ValuesProofs | all that Values says, for texts and paths of any length, ints of any width, any numerals and doubles, and any number of rounds |
| `ScannerTypes`, `StaysInBuffer` | ConfigProofs | what the scanner finds is well formed, and no loop passes a NUL, for any text |
| `LinesCorrect`, `StartCorrect` | ConfigProofs | the scanner finds what the lines say and refuses for the first bad one; a program starts with the first line for each path, for any text and any required paths |
| `DaoReaderIsReader`, `FunctionsCorrect` | ConfigProofs | the reader of `daos.cfg` is that of all files; it makes one function of every section, whatever their order, with what the lines say of it, for any text |
| `HeaderComplete` | CodegenProofs | exit status 0 means a complete header, for any schema, file and failures |
| `CompilesCorrect`, `StatementsCorrect` | CodegenProofs | which schemas and files give a header that compiles, and that its functions then send the right statements, for any number of tables, columns, functions and parameters |

*Start-up.*  `SingleRecorder` and `JournalIsPrefix` are not inductive: a process in
the loop must be known to stand at most one past the journal, and a process
before its entry to be *exactly* at the script that is ahead.  `PrefixAt(k)` says
that for the length k of the journal; `Prefix` says there is such a k.  Then a second
process at the same script finds it applied and fails, which gives the
exclusion.  The loop's arithmetic enters through `ReachableIsCounted`: if the
numbers up to i are all in an image, the image has at least i files, so counting
files never stops the loop before a number it can reach.

*Statements* (BackendProofs).  Each statement maps a well-typed database that
satisfies its constraints to another (`Sound`).  Deleting is one lemma,
`RemoveSound`: rows may go together if no remaining circuit has lost its scene or
parent; `CascadeClosed` says the cascade is such a set.

*Requests* (also BackendProofs).  `IInv` adds to types, constraints and registration what
a process knows of its request (`RequestKnown`): that it is one of `Requests`,
that the UUID drawn fits the table, that `todo` holds only requested columns, and
that the filter saw headers.  Without it a handler could store
anything.  All handlers go through `ModifiesStep`, `CreatesStep` or `ReadsStep`, so
each contributes only that its statement is sound.

*Steps* (also BackendProofs).  `StatementCases`: a step that changes the tables is one
statement of one process, in the handler of the matching request.  The action
properties then are facts about statements.  `CascadeMinimal`, that a circuit in the
cascade which is no root has its parent in it, follows from leastness: without that
circuit the set would still be closed.

*Lives* (also BackendProofs).  That ids are not used again needs a second invariant,
`Fresh`: a UUID drawn for a row that is not stored yet is in no other hands and
never had a row.

*Tidy clients* (also BackendProofs).  What a client knew when it sent a request must
still be so when the statement runs.  `NearRequests` says it is, as far as it matters:
the circuits a request names exist or existed, and those that exist are still in one
scene.  It holds on because of the lives: a circuit never changes its scene, and the id
of one that is gone is never another's.  `NearRows` is the same of the tables, and makes
the circuits of a scene closed under "child of", so that the least such set, the cascade,
is inside.

*Answers* (AnswerProofs).  `Trace` says of every place what may have been touched
there: nothing before the handler, and in it only by `PUT /circuit`.  `Linked`
ties a refusal to its cause: without faults all connections are alive, so what a
process learns of a statement is what the statement did (`ExecutesLink`).  For 200, `Written`
says that the columns `put_circuit` has got past hold what was asked for; with one
process nobody writes between the statement and the answer.

*Service* (also AnswerProofs).  A process that serves a request does exactly one of four
things to the service: nothing (the filter passed), `Grant`, `Refuse` or
`Unheard`, and these are the four outcomes of `Executes` at the handler's
statement.  `Bodies` is the invariant that is missing for it: outside `reply` there is
no body and no outcome.  That a new scene's id is unused is `Fresh`, from the lives.

*Clients that send back what they were shown* (also AnswerProofs).  `Clients` says of a move under
way that it names a circuit and that no column but the parent is malformed, and
`SeenCircuits` that what was shown were circuits.  By `Linked` an answer of "failed" without
faults comes from the statement.  It does not come from one that finds no row, which is ok; so the
circuit is there, its parent is a row by `IntegrityHolds`, and writing that parent again cannot
fail: the request's is another, or the empty text.  A move is never refused over a value of the
wrong type, which such a client does not send (`Echoes` in EchoClients).

*The whole* (DeploymentProofs).  A step of Deployment is one of Migrations, of Backend or
of both, except the script that fails on a taken name; so both invariants hold of the
whole.  `Together` adds what ties them: a process that is up has come through
`run_migrations`, and the testing user is in its table once its script has run.

*Loops* (FoldingProofs).  The installed provers cannot use an induction theorem that takes an
operator, so induction is done over *sets*: a set of numbers that holds 0 and with n also
n + 1 is `Nat`, since otherwise what is missing would have a least element
(`LeastNumber`, `Induction`, `InductionUpTo`; `SequenceInduction` for sequences).  `FoldExists`,
`FoldUnfolds` and `FoldAppend` derive from it what a fold over a sequence computes, `FoldInvariant`
what all its steps keep, and `FoldConcat`, `FlatParts` and `FlatOne` what loops over loops do.  The three
proofs that follow rest on these lemmas.

*Values* (ValuesProofs).  Each conversion has one lemma that says what it does to a text with one
more character.  `StoredText` is the reading of a
literal that `sql_sanitize` has made, `Undoing` that the number of rounds is enough to take
all marks away again, `Narrowed` the arithmetic of an `int`, and `PathStored` that an
accepted path is stored as it was written.  That it can be read is `DumpInjective`: the proof
defines a reader with a stack of lists and shows that it gives back what was dumped, so that
two values cannot be dumped to one text.  For the numbers, `DoubleNear` and `PrintedNear` bound the
two roundings, which together stay below one printed decimal; `MultiplesApart` says that two numbers
that are printed and as close as that are the same, so that what was printed once is printed the same
again (`PrintedOnce`).  `Tracks` relates a number of the client to what has become of it, and
`TracksOn` that showing it once more keeps that: it is the same number, or a printed one next to it.
The inductive invariant, `Held`, says per kind
of column what the column and `shown` are in terms of `given` and `rounds`.  These proofs
found a defect of the model: two arms of the CASE of `ReadCharacter` overlapped, so that
TLC read a doubled mark as intended by the order of the arms only.

*Reader* (ConfigProofs).  `Scanning` strengthens the two properties: there is no NUL
before the position (`Clear`), and a section that is being read has a name.  Each of the
helpers of `parser.cpp` keeps `Clear` because its loop stops at a NUL or before it
(`HelpersStayClear`); where the scanner steps over a symbol without a loop, it has just seen
that it is no NUL.  `Understood` is the invariant for the meaning: the lines before the
scanner's are well formed, the current section is `SectionOf` the position, and what has been
found lists the assignments before it (`FoundIn`, from which `ListingCounts` gets the numbering
in `Lists`).  The position is either the end of a line that has been dealt with or a *seam*: the
beginning of a line, or the place behind a `]` that ends a head (`Place`, `Seam`).  From a seam the
scanner either passes one more head, which is the next seam (`HeadEnds`), or stands at the body of
the line (`BodyIs`), and each branch of `parse` finds out what the body is (`SeamLine`,
`SeamComment`, `SeamSection`, `SeamProperty`).  For `validate`, `Accepted` says where each setting
comes from.  The proof needs that no symbol is both a letter and a blank, which is now part of
`SymbolsAssumption`: with such a symbol a key could end in what skipping blanks takes.

*Functions of daos.cfg* (also ConfigProofs).  A step of the whole reader is one of `Config` or leaves
it alone, so `Reading` holds of it too.  `ReadUpTo` says what the loop of `parse_params` holds after
k symbols: the parameters that end before, and the part of the next that has been read, a name or a
name with a type (`InName`, `BehindName`); it is an invariant of the fold, and at the end it gives
`ListsParameters`.  `Converted` is the invariant of the loop over the hash map: the sections are those
pending and those with a function, each with exactly one, and none of those is refused.  That
sections with a property are sections with an assignment comes from `FoundIn`.  Two arms of
`ReadParam`'s CASE overlapped and were told apart by their order only, which a proof
cannot use; they are disjoint now.

*Header* (CodegenProofs).  `Progress` says which functions are in the header in every phase:
those of the tables that have been taken, and of the first n of the file when the rest is
left; the header only grows, and a failure leaves a status that is not 0.  `Sources` is the other
direction: as long as the status is 0, every function in the header is one of a table, with the
table's earlier ones before it, or one of the file, with everything of every table before it.

*Statements of the generator* (also CodegenProofs).  That the compiler accepts a query and what it then
reads are one relation, `Gives(m, s, n, added)`: the tokens s take it from the mode m to the mode n
and add that much SQL, whatever it has read before.  It composes (`GivesThen`, `FlatGives`,
`JoinGives`), so that each loop of `emit_insert`, `emit_update` and `emit_select` contributes what one
turn gives, inside a literal or not, and the last turn separately (`ValuesGive`, `UpdateGives`,
`SelectGives`).  `Breaks` is the other outcome, from which nothing recovers (`MalformedStays`), and
`Incomplete` that the end is missing.  A table that is not supported makes one of its queries break
(`InsertBreaks`, `UpdateBreaks`, `SelectBreaks`) or a call miss its function (`TableNeeded`,
`SupportedWhenCompiles`).  For a custom query the invariant runs along its pieces (`QueryReads`): what
was read is `CustomMeaning` so far, and the position of the last question mark tells whether a literal
is open (`Reopens`); a literal is left closed only by a number that is the last piece and answers the only
question mark (`CustomBreaks`).  Calls resolve because a function's callees are emitted before it
(`EmittedCallable`, and `Sources` for the mappers that custom functions call).

Assumptions are those of the modules: images are finite sets of positive
numbers, seeds satisfy the constraints (for tidy clients also `NearRows`), `Absent`, `Null`, `Malformed` and
`Omitted` are none of the values they must be told from.

Marks are characters, a numeral is none of the marks, an `int` has at least two values.  Of the
numbers in paths `NumbersAssumption` says what IEEE 754 and `%f` guarantee: up to `Precise` every
number has a double closer than a quarter of the last printed decimal (true up to 2^32),
numbers of that size have room for their point, and whatever is shown is a numeral again.  In files,
white space that `std::isspace` knows is no number,
blanks and names are other symbols than those that end or split something.  Of the generator's
inputs `InputsAssumption` says that a key is never null, that parameters have types of C++, and that
no name is empty or a quotation mark: a name or a piece of SQL is one token.

Only model-checked: the liveness properties `SomeoneServes`, `UndisturbedStartServes`,
`Answered` and `Decides`, which rest on fairness and are out of the prover's reach.  Every
invariant and every action property that a run checks, and the refinement, is a theorem.  The two
properties of the violation runs, `TracksWhatRan` and `InitSignalIsShown`, are not true.

## 5. Not modelled, and why

* HTTP parsing, routing, CORS, logging, error messages: Crow's, or without state.
* The shape checks on bodies before a handler's first statement: they are all
  the one request `"invalid"`.  What Crow's `.i()` makes of values that are no integers (it also
  takes JSON strings, and cuts decimals off) is not modelled: requests have the integers it returns.
* A NUL in a text (`\u0000` in a body).  `PQexec` is given a C string, so the statement ends
  inside its literal; PostgreSQL refuses it, and the handler answers as to any failing statement.
* White space, `true`, `null` and objects in the JSON of a wire's path: its values are numbers, strings
  and lists.
* Clients that write the numbers they read in another way than they were shown.
* Of the generated functions, the code around the query (loops over tuples,
  `PQclear`), which does not depend on the layout.
* Migration files whose name has no leading number (`std::stoi` throws in start-up)
  or that share one (the map keeps whichever is listed first).
* DAO functions without a caller, `generate_token`, and Bcrypt.cpp.
* The proxy and the containers of the deployment.
* Users who change their name: the filter never updates a nickname, so
  `LifelongFacts` says that it stays.
* The tables of Backend are those after the sixth migration.  What an older process does
  while a script changes columns under it is not modelled.

## 6. Plan

Done: all modules of section 2, with the proofs of section 4.  What could come next is what section 5
leaves out, first of all the shape checks of the request bodies and the result handling of the
generated functions; and the tables while a script of a newer image changes columns under an older
process.
