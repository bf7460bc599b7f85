# A verification of node-ts-express-base

TLA+ modules, TLC configurations and TLAPS proofs for the Express base project in
`src/`: session-isolated in-memory databases and their files, background tasks
with their cleanup, persistent jobs on a BullMQ queue, accounts, and the path of
a request through the server. Paths below are relative to the
repository's `src/` directory (`src/db-factory.ts` is `src/src/db-factory.ts`
from the root of this project).

    tlc -workers 2 -config MCSessionIsolation.cfg MCSessionIsolation
    tlapm SessionIsolationProofs.tla

## 1. The system

One Node process serves HTTP. All state but the jobs and (with `STORAGE=prisma`)
the users is in its memory. The parts, the state each keeps, and what makes it
correct:

| part | code | state | operations | correct when |
|---|---|---|---|---|
| DatabaseFactory | `db-factory.ts` | two Maps by session id: database, last use | getDatabase, removeSession, cleanupExpiredSessions | the Maps agree; a session goes only because it is idle, deleted, or the least recently used of too many |
| SessionDatabaseMiddleware | `middleware/session-database.ts` | ipSessionMap | derive the session key, bind the request to a database | a request works in a database of its own session, whatever happens to the session meanwhile |
| InMemoryDatabase | `db.ts` | tables of items | createOrUpdate, find, delete, saveDB, loadDB | an item once deleted is gone; a saved file can be loaded |
| CMS and session routes | `cms.ts`, `prototype/session-routes.ts` | - | the tables over HTTP; delete or clean up sessions | as above |
| TaskManager | `task/task-manager.ts` | rows of table `tasks` | create, update, cancel, retry, delete, retention | fields fit the status |
| TaskExecutionService | `task/task-execution-service.ts` | runningTasks (keys), the executors in flight | execute, progress, cancel | one run per task; a key is given back; every execution ends in a final state |
| TaskCleanupService | `task/task-cleanup-service.ts` | isRunning, timer | runCleanup | keeps the newest tasks of every session and spares sessions |
| Task API, demo API | `task/task-api.ts`, `task/demo-api.ts` | - | the routes that combine the three | as above, under stale requests |
| Executors | `task/executors/sample-executor.ts` | - | report progress, end or fail | - |
| Job routes | `routes/job.routes.ts` | rows of table `Job` | create and enqueue | a job's row goes forward only |
| Queue | `infrastructure/queue/queue.ts` | the queue `main` in Redis | add with attempts | - |
| Trackable-job worker | `infrastructure/workers/trackable-job.worker.ts` | the runs in flight | load, claim, work, record | a job is worked on once; its outcome is recorded |
| Email worker | `infrastructure/workers/email.worker.ts` | - | takes entries of the same queue | takes only its own |
| Job repositories | `infrastructure/repositories/job.*` | - | statements to Postgres | - |
| Auth, user repositories | `application/services/auth.service.ts`, `routes/user.routes.ts` | users | register, login | one user per address |
| Authentication | `middleware/auth*.ts` | - | look for the user of a token; in full mode, put that user's session in place of the request's | a handler works for the user the token names |
| IP restriction | `middleware/ip.restriction.ts` | - | let a request pass or answer 403 | a refused request leaves no trace |
| Server, configuration | `server.ts`, `server-prototype.ts`, `config/`, `bin/www` | the environment, what is mounted | wiring; start with a load; listen | every mounted route can be reached and has what it uses; a start that can succeed does |
| Utilities, data | `util.ts`, `data.ts` | - | doWait; helpers | - |

How they interact. Every request passes the middleware, which asks the factory
for the session's database and puts it on the request; the handler uses that
object to its end. The task services do not use the request's database: they
ask the factory again, by the session key, at every update, so a long execution
follows the session when it gets another database. The cleanup service asks the
factory too, for every session, on a timer. The job routes write a row to
Postgres and an entry to Redis, in two steps; workers, in the same process or in
another, meet the job only through these two.

What is hard here:

- *interleaving*: requests that hold a database which the factory has dropped,
  executions that outlive their cancellation, two workers on one job;
- *stale state*: a key, an id or a database that was right when it was read;
- *limits and boundaries*: eviction at the limit, the timeout compared with `<`
  here and with `>` there, retention counts;
- *failure*: crashes of a worker between two statements, statements that fail
  after having been applied, locks that expire, redelivery and retry; a crash
  between the truncation of a file and its text;
- *wiring*: which of several matching routes answers, under which environment,
  and whether the middlewares it relies on are mounted in that environment too;
- *liveness*: keys and jobs that would be stuck, and a server that does not come
  up again.

`hazards` in `PROJECT.json` lists them one by one with their lines and the
properties that watch each.

### What is atomic

JavaScript runs to completion: between two *real* suspensions nothing else
happens. Nearly all `await`s of the code wait for promises that are settled
already (the in-memory database is `async` in form only), and the continuations
of settled promises run before the next event is taken, so a handler that never
waits for anything real is one action. The real suspensions, and therefore the
borders of the actions, are: the body of a request and the lookup of static
files between the middleware and the handler, the timers of the executors, the
operations on the database files, the statements sent to Postgres and the
commands sent to Redis. Each action makes
every call its code makes, normalisations and removals included.

## 2. The modules

| module | what it is | about |
|---|---|---|
| `Sessions` | operators, no state | DatabaseFactory: one operator per method, on a record of the two Maps and the number of databases created |
| `SessionsProofs` | lemmas | what each method does to the two Maps, for the two modules of theorems that need it |
| `SessionIsolation` | state machine over `Sessions` | the middleware, the CMS and session routes, the clock |
| `MCSessionIsolation` | instance | three session ids from four keys, one of them also the session of an address |
| `SessionIsolationProofs` | theorems | |
| `TaskLifecycle` | state machine | task routes, execution service, executors and TaskManager for one session whose database may be lost |
| `MCTaskLifecycle` | instance | |
| `TaskLifecycleProofs` | theorems | |
| `TaskRetention` | state machine over `Sessions` | the cleanup service over several sessions with their tasks |
| `TaskRetentionProofs` | theorems | |
| `SessionUse` | `TaskRetention` with a history variable | when each session was last used by somebody |
| `MCTaskRetention`, `MCSessionUse` | instances | |
| `JobPromise` | abstract specification | what the Job API promises of a status |
| `TrackableJobs` | state machine, implements `JobPromise` | job routes, queue, both workers, Postgres rows, faults |
| `TrackableJobsProofs` | theorems | |
| `AccountPromise` | abstract specification | what the User API promises of an address |
| `UserRegistration` | state machine, implements `AccountPromise` over Postgres | registering and logging in, over either repository |
| `UserRegistrationProofs` | theorems | |
| `BackupPromise` | abstract specification | what saving and loading promise of the rows in memory and in a file |
| `CmsPersistence` | state machine, implements `BackupPromise` | save-db and load-db step by step over the file, the start of the server, crashes |
| `MCCmsPersistence` | instance | |
| `CmsPersistenceProofs` | theorems | |
| `RequestPath` | state machine over the tables of routes | what is mounted under which environment, the stages of a request, who may do what with a job |
| `RequestPathProofs` | theorems | |
| `MCRequestPath` | instance | |

`Sessions` is shared by `SessionIsolation` and `TaskRetention`; the two look at
the factory from the side of the requests and from the side of the cleanup. In
`TaskLifecycle` one session is looked at and everything that may take its
database away is the one action `LoseSession`, with databases numbered by
`epoch`. `CmsPersistence` and `RequestPath` likewise look at one session and at
one request: sessions have different files, and what concurrent requests do to
each other is the matter of the other modules.

In `Sessions` and `TaskLifecycle` a few definitions stand under "Plausible
mistakes" or before the definition they resemble: they are mutated forms, used
only to confirm that a property notices (`mutants` in `PROJECT.json`), and no
action of a specification refers to them. Other modules keep theirs next to the
definition they replace.

### SessionIsolation

`factory` is the DatabaseFactory: `databases` and `sessionTimestamps` as the
code has them and `created`, the number of databases so far, so that databases
are numbers and "a new one" is expressible. `ipSessionMap` is the middleware's
Map. `requests` has for each request in flight the key and the database it is
bound to; `rows` says of each database which keys' requests saved items in it.
`now` is `Date.now()`.

`Arrive` is the middleware (`extractSessionKey`, the mapping by address,
`getDatabase`); `Handle` is one of the handlers, at a later moment: a CMS route
in the bound database, or a session route on the factory. `Abandon` is a request
that ends between the two, refused by authentication or dropped. Handlers run
whatever became of the session meanwhile. `getDatabase` reads the clock once in
the model; a real call reads it two or three times within microseconds.

Not in it: which of header, cookie and query carries the key (the request
chooses), the characters that normalizing replaces (the constant `Normalize`
says which keys meet), the contents of items (only whose they are).

### TaskLifecycle

`tasks` has the row of each task with the number of the database it is in
(`home`); `runningTasks` the keys of the service; `runs` the executions in
flight with the task and the progress last reported; `requests` the requests
between the middleware and their handler, with the database they are bound to;
`epoch` the session's current database; `issued` the ids given out; `cancels`
counts cancellations that took a key from a run, as history.

`Execute` is `executeTask` to its first suspension, `Report` a progress update,
`End` the end of the executor with everything behind it (result or error, and
the `finally` that deletes the key). The other actions are the routes, each the
whole handler. The demo routes (`CreateSampleTask`, `ExecuteTask`) write the task
in the database of the request and execute it in the current one. An executor
may report anything any number of times and end either way, so the samples are
among its behaviours.

Not in it: a client that writes to the table `tasks` through the CMS (it can
put any body there, so no field would mean anything; deleting a task that way is
`DeleteTask`), keys with ':' (see the hazard about `split`), and reading routes.

### TaskRetention and SessionUse

`factory` as above, `tasks` as a set of records with database, session key,
status and times; `cleaned` says that the last step was a run. Two fields of a task
are history, which no step reads: when it completed last, and whether that was not
the first time since it was created or retried, for `completedAt` tells only the
first (`task/task-execution-service.ts:81`). `UpdateTask` is whatever executions do to
the status, two of one task at once included; `RetryTask` clears the times, and
`DeleteTask` is the deletion through the CMS. Other edits of the table `tasks`
through the CMS are left out, as in `TaskLifecycle`. `RunCleanup` is
one whole run in one step (nothing in it suspends, so `isRunning` is never seen
to be true): the snapshot of the sessions in their order, and for each of them
the `getDatabase` that may evict, then the sort and the cut per status.
`CleanSessions` has the states of a run as a recursive function of the number of
sessions visited. The clock may tick once inside a run. `Use` is any request or
execution that asks for a session's database.

### TrackableJobs

`rows` is the table `Job`, `entries` the queue's entry of each job, `runs` what
each trackable-job worker is waiting for, `faults` a bounded counter, and three
history sets say which jobs were struck by which fault. There is one action per
statement the worker sends (`Load`, `Claim`, `Finish`, `Reject`, `Fail`), since
other processes act between any two. `StatementFails` lets each of them fail
before or after being applied and follows the code from there: inside the `try`
to `Fail`, outside it to BullMQ's retry. `Crash` ends a worker.

BullMQ and Postgres are not in the repository and are modelled from how the code
uses them: an entry is held under a lock that may expire while the holder goes
on, is delivered again then (at most `MaxStalls` times, 1 by default), and is
retried when the processor throws, up to `attempts`. Retry delays and the
duration of the work are left out: every order they can lead to is allowed.

`JobPromise` allows a status to go pending, processing, completed or failed; a
job may be worked on again only when it is `disturbed`. The refinement maps
`disturbed` to the jobs whose lock expired under a live run or that had a
statement applied and nevertheless failed.

### UserRegistration

`users` is the table or the Map in the order of insertion; a user is named by
its place, and `lost` says how many of the first a restart took from the memory,
so that names are not used twice, as ids are not. `requests` says for each
request what it awaits. In memory `findByEmail` suspends only in form, but
hashing and comparing do not (bcryptjs works in slices), so a registration is in
two steps there: find, then hash and create. Over Postgres each statement is a
suspension. `told` has the registrations that were answered with 201, `tokens`
the tokens signed.

`AccountPromise` says that the first registration of an address that gets
through decides on its password and that nobody else is told of success. The
users in Postgres implement it by their unique column; those in memory do not
(section 6). Not in it: the configuration of a user, the welcome email (sent
without being waited for), the expiry of tokens. A registration that Postgres
refuses is answered with 500, not with the 400 of a taken address; the model
does not tell the two apart.

### CmsPersistence

`tables` has the rows of each database of this life of the server and `files` each
of the two paths: the configured one, which the default database uses, and the
one of a session. A file is the text it begins with and its length, since all
that a load can tell is whether what it read is a text that `JSON.parse` takes.
`calls` says for each request, and for the load at the start, what it waits for.
`spoiled` and `met` are history: whether saves to a path have overlapped or broken
off since the last lone one, and whether a save truncated the file while a load
was reading it.

Rows are versions of items: storing one takes the place of the version that is
there (`Without`). `loadOnStartup` is the configuration of the database. `saveDB` is
`SaveDB` (the text is made when it is called), `OpenForWriting`, which
truncates, and `Write`; `loadDB` is `LoadDB`, `OpenForReading`, which asks for the
size, or `OpenMissing`, and `Read` or `ReadGarbage`, which replaces all tables or
none. Other requests edit the tables, save and load meanwhile. `Start` makes the
default database and waits for its load, as `bin/www` does: when the load fails
or `loadOnStartup` is off, so that `init` resolves to false, the process logs it and
never listens, and goes on only if something (the timer of the cleanup, a worker)
keeps it alive (`NotListening`). `Crash` takes the memory and the calls;
`LoseSession` the session's database, whose successor is not loaded.
`OperationFails` lets any operation on a file fail.

A text is written and read in one piece, which Node does up to 512 KiB, and a
failing write is taken to have written nothing: the module, and what is proved of
it, is about files no longer than that. Larger ones are written and read in pieces
with other requests between them, and overlapping saves may mix in more ways. Not in it: the directory of the
files, the cost of the texts, rows beyond the set that is there.

`BackupPromise` has the rows in memory, what each file gives to a load, and the
rows of the saves under way. Rows get from memory to a file only as the whole
of one save that was asked for and has not been answered; a file may lose its
rows only while a save to it is under way; a load installs what is stored and
nothing else.

### RequestPath

The routes are data: `PrototypeTable` and `ServerTable` list them in the order in
which `controller` and `api` mount them under the environment `env`, each with
what its handler takes for granted (`uses`), and `Answering` is the first that
matches, as in Express. `request` goes through the stages in which others could
act in between: received (addresses and sessions are done, the body is
awaited), mode and guard (a user is looked up), handling. The handlers are told
apart by what they need and, for jobs and address mappings, by what they do:
`jobs` has the owner and the creator of each job, `ipSessionMap` the mapped
addresses.

Requests ask for the path of every route that any environment mounts, with a
neutral word for each parameter, for a path below `/jobs` that no route has, and
for one that nothing has. The routers are plain `express.Router()`, which compare
words without regard to the case of letters: a path in the model has the words as
the routes have them, and `capitals` says which of them, below `/api/v1`, the client
spelt in other letters. Matching does not look at it, `IsScopedPath`, which compares
strings, does. The environment does not change while the server
lives.

## 3. The runs

| run | states (approx.) | shows |
|---|---|---|
| `session_isolation` | 824,000 | isolation and the life of sessions, seven properties |
| `task_lifecycle` | 54,000 | one task under two requests and three overlapping executions, nine properties, one of them liveness |
| `task_retention` | 339,000 (up to symmetry) | what a cleanup run keeps and spares, four properties |
| `trackable_jobs` | 208,000 | types, outcomes, the refinement of `JobPromise`, and that claimed jobs finish |
| `user_registration` | 291,000 | tokens and the refinement of `AccountPromise` over Postgres |
| `cms_persistence` | 1,290,000 | what survives overlapping saves and loads, failing operations and crashes; the refinement of `BackupPromise`; that the server comes up again |
| `request_path` | 218,000 | what answers which request in 80 environments, and with what it works, six properties |
| `duplicate_execution`, `retention_per_key`, `unused_sessions`, `done_jobs`, `one_user_per_address` | - | five statements of docs, comments or tests that the code does not keep; section 6 |

What the properties say is written above each of them in the modules. In short:

- `Isolation`: no database ever serves, is held for, or stores rows of two
  sessions. `DatabasesNeverReturn`: a database out of the factory stays out, so a
  late handler's rows are lost and never surface in another session.
- `SessionsGoForAReason`, `OverflowOnlyWithinAMillisecond`,
  `IdleSessionsStartEmpty`, `MapsInStep`: eviction, limit, timeout and the two
  Maps.
- `KeyHasRun`, `OverlapNeedsCancel`, `KeyedTaskIsRunning`: the keys of
  runningTasks tell what is executed, except for what cancelling leaves behind.
- `FieldsFitStatus`, `ProgressIsTheRuns`: what a client sees of a task fits.
- `DeletedForGood`, `LostTasksKeepStill`: late reports neither resurrect a task
  nor touch a lost database.
- `ExecutionsSettle`: an execution under way leads to a final status.
- `CleanupIsThorough`, `NewestAreKept`, `CleanupSparesSessions`: a run deletes
  enough, nothing it should keep, and no living session's database. Of a task that
  completed more than once, `NewestAreKept` says only that enough others stay:
  section 6.
- `OutcomeFits`, `PromiseKept`, `ProcessingIsWorkedOn`, `ClaimedJobsFinish`: a
  job is done once, its outcome is one outcome, and it is not left behind.

- `AccountsKept`, `TokensNameTheirUser`: a race for an address has one winner, and
  a token names who logged in.
- `LoneSavesAreWhole`, `UnreadableForAReason`: only saves that overlap or break off
  leave a file that cannot be loaded, and the next lone save repairs it.
- `BackupKept`: a load installs what one save stored, never a mixture with another
  save, with rows edited meanwhile or with another path.
- `ServesAgain`: a stopped server that loads on startup and whose file is unspoiled
  comes to serve.
- `RoutesAnswerTheirPaths`: no route hides another, but for the two documented ones
  of section 6. `HandlersHaveWhatTheyUse`: what handlers assert with `!` is there.
- `WorksForItsUser`, `MappedAddressesPass`, `CreatorsReadTheirJobs`: whose session a
  handler works in (when the path has its prefix in the letters of the code:
  section 6), whose address is remembered, and who sees a job.

### Bounds

- *SessionIsolation*: two places for three sessions, so that eviction, and
  growth past the limit, happen; a timeout of 2 in a clock of 0..4, so that an
  age below, at and above it occurs; two requests, so that one can be late while
  another removes its session; three databases (`MaxInstances`) over three
  sessions, so that a session gets a second one while the first is still held.
  Symmetry only over requests, and no liveness is checked there.
- *TaskLifecycle*: one task, for tasks meet only in `cancelAllRunningTasks`,
  which treats each by itself; three executions and two cancellations, so that
  an old run ends while a newer one holds the key, twice; two databases, so that
  requests and runs can be of the lost one. Reports of 50 and of 120, the second
  to be clamped.
- *TaskRetention*: two tasks with one of each kind kept, so that there is one to
  delete; three sessions in two places, so that a run itself creates and evicts. In
  `MCTaskRetention` every key is its own normal form, and no step prefers a key to
  another, so states that differ by a permutation of the keys count once; no
  liveness is checked there. `MCSessionUse` and the run `retention_per_key` have no
  symmetry.
- *TrackableJobs*: two jobs and two workers, so that one job has two runs and a
  worker changes jobs; two attempts, the code's three without one retry that is
  like the others; three faults, enough for an expired lock, a crash of the
  second run and a failed statement in one behaviour.

- *UserRegistration*: three requests, so that two race for one address while a
  third logs in; two addresses and two passwords, the least that can be mixed up.
- *CmsPersistence*: three requests, so that one loads while two others save; one
  row that is there or not, with texts of different length, so that a shorter
  text can be written over a longer one; three databases, the default one and two
  of the session, so that a late save of the old one meets the new one's file;
  one fault, a crash or a failing operation.
- *RequestPath*: both builds with every combination of isolation, mapping, mode
  and storage, and in one of them every form of the restriction; an address that
  is local, one that is listed and one that is neither; each path with every choice of
  words in other letters; a user and an admin; two jobs, since the properties look at one job at a time.

`MaxTime`, `MaxInstances`, `MaxTasks`, `MaxEpochs`, `MaxCancels`, `MaxUsers`, `MaxJobs` and
`MaxFaults` exist only to make the instances finite: they are guards of the actions that
would pass them. `CHECK_DEADLOCK FALSE` stands where a behaviour may come to its
end because such a bound is used up, or because all jobs are done.

### Fairness

`TaskLifecycle`: weak fairness of `End` for each run. Executors are finite loops
over `setTimeout`, so each ends; nothing is assumed of requests or reports.
`TrackableJobs`: weak fairness of the step a worker is at. A statement sent to
Postgres is answered or fails; nothing is assumed of BullMQ's delivery, and
nothing of jobs that a fault struck.
`CmsPersistence`: weak fairness of `Start`, since the container of a process that
ends is started again (`docker-compose.prod.yml`, `restart: unless-stopped`), and of
the load at the start, whose operations on the file are answered. Nothing is
assumed of requests.

## 4. What is proved

The proofs are checked with tlapm (SMT, Zenon, LS4). They are for any sets of
keys, requests, tasks, runs, jobs and workers and any values of the limits, under
the `ASSUME`s of the modules (limits are natural numbers, keys have a normal
form), which TLC evaluates in every run.

*SessionIsolation*: `TypeCorrect`, `MapsStayInStep`, `SessionsAreIsolated`,
`DatabasesStayRetired`. `Isolation` is not inductive: a request may be bound to a
database that no session has any more, and the next database must not be the
same one. `IsolationInv` adds that databases are numbered as they are created
(`DatabasesNumbered`) and that a number not given out yet has no holder
(`NoEarlyHolders`). The lemmas of `SessionsProofs` say what each method of the factory does
to the Maps: `getDatabase` returns a database that either was the session's or
is new, and gives no other session another one. Every step then either adds a
holder of the same session to a database or gives a new database its first.
Three action properties follow: `GrowsWithinAMillisecond`, `IdleSessionsAreNew` and
`SessionsGoOnlyForAReason`. `getDatabase` is taken apart into what it removes
because it is idle, what cleanup removes and what is evicted, and each part is
shown to give its own reason. They need `TimedInv`, that no session was last used
in the future. That an oldest session exists is the well-ordering of the numbers,
and that the table stays within its limit is counted with the cardinality lemmas
of the library.

*TaskLifecycle*: `TypeCorrect`, `KeysHaveRuns`, `OverlapIsBounded`,
`KeyedTasksRun`, `FieldsAlwaysFit`, `DeletionIsFinal`, `LostTasksAreLeft`.
`OverlapNeedsCancel` is strengthened to `KeylessRunsWereCancelled`: among the runs
of a task at most one has the key, and every other one was cancelled. When a run
ends and deletes a key that is not its own, the newer run is from then on
without one, and the older run's cancellation pays for it; this is the case
that needs the exact count. `Parts` restates `LifecycleInv` variable by variable,
so that each action's lemma is about the variables it changes.
The second part adds `ProgressIsReported`. Progress fits only a task whose
executions were never cancelled, so `ProgressInv` says it of every task at once, as
a formula of the tasks, the epoch, the runs and the cancellations; a run that is
alone with its task then keeps it by `OverlapNeedsCancel`.

*TaskRetention*: `RetentionTypes`, `RunsAreThorough` and the action properties
`TheNewestAreKept` and `RunsSpareSessions`, for any number of sessions and tasks. The
invariant `RetentionInv` adds to the types that the Maps are in step, that no database
serves two sessions, and that tasks lie in databases that were given out (`Numbered`);
without the last a new database could already hold tasks. It also says of each task
(`Stamped`) that the time the sort sees is not after the time it finished, and is that
time unless the task completed again; `TheNewestAreKept` is about the latter and needs
it to go from the order of the sort to the order in which tasks finished. What one sort and cut does
is a matter of finite sets: of the tasks beyond the newest `n` the first has `n` before
it that stay (`KeptEnough`), and the last of those that stay has fewer than `n`
(`KeptFew`). A run is then an induction over the sessions it visits. The library's
induction theorems cannot be instantiated here, but a set of numbers can: `UpTo` says
that a set with 0 and the successor of each of its members up to `n` has all of them,
by the least number it lacks. `RunExists` shows in this way that the recursive function
is defined, `OrderExists` that the sessions of a factory have an order (by counting for
each the older ones), and then each of `RunFollows`, `RunTrims`, `RunReplaces` and
`RunSpares` is an induction of its own. The delicate case is a task that was deleted
early in a run while one of those that stayed for it goes later: that one has newer
ones in its place, which are newer than the first task too (`ReplacedStays`). The limit
in `CleanupSparesSessions` is needed where the session visited has expired: without it the
factory is below `maxSessions` again, so `getDatabase` evicts nobody.

*TrackableJobs*: `TypeCorrect`, `ProcessingHasRun`, `OutcomesFit`, and
`JobsKeepPromise`, the refinement of `JobPromise`. The invariant `IInv` adds who
may hold a lock (`Locks`: at most one run, of an active entry), which entries can
be open (`EntriesOpen`), what the step of a run says of the row (`Tracks`: an
undisturbed job whose run is about to claim is pending, and is processing once
the run has claimed; that there is one such run follows from `Locks`), and the
shape of outcomes. Each step of a worker on an undisturbed job
then maps to `Advance`, on a disturbed one to `Rework`, everything else to a
stutter or to `Disturb`.

*UserRegistration*: `TypeCorrect` and `TokensAreOfTheirUser` over both
repositories, and `AccountsAreKept`, the refinement, over Postgres. That a set of
users has a first one, which `findByEmail` returns, would be an induction over
data; `RegistrationInv` keeps it along the behaviour instead (`HaveFirst`), since
users are only ever added at the end. It also ties a login to a user of its
address while it compares (`RequestsFit`), without which the token's user would
not be the right one, and says that Postgres keeps what it has with one user per
address (`Kept`).

*CmsPersistence*: `TypeCorrect`, `LoneSavesWhole`, `UnreadableNeedsReason` and
`KeepsBackups`, the refinement of `BackupPromise`. That a lone save leaves a whole
file is not inductive: while the file is truncated and not yet written, the
invariant has to know that nobody else writes and that nothing is left of the old
text (`WritersFit`). A reader is fit when it has met no save: then nobody writes
its file and the size it asked for is still the file's (`ReadersFit`). The
refinement needs that a file without a length has no text (`FilesFit`) and that the
load at the start never writes (`StartupLoads`). A truncation then maps to `Lose`, a
write to `Store`, a load to `Load`, a crash to `Restart`; two saves of the same rows
are one in `pending`, so an ending save takes its rows from `pending` or not.

*RequestPath*: `PathTypes`, `WiringProvides`, `UsersWorkInTheirOwn`,
`OnlyPassingAddressesAreMapped`, `CreatorsKeepAccess` and `RoutesAreReached`, for any
environments, addresses, users and admins. Each table of routes is shown to be good:
a handler that takes a user or creates jobs stands behind `authenticate`, one that
takes a session's database or the job repository is mounted only where that one
exists, and one of the CMS, the sessions or the tasks has a path below a scoped prefix
(which `ScopedByPath` carries over to a request only when that spells the words of the
prefix as the code does).
The route that answers is the first that matches, so it is good too and its path
fits the one asked for. `PathInv` adds what a stage has made of the request:
unless idle it is bound to a database where there are any; `guard` is reached only
by a path that the mode lets through; whoever comes to `handling` has passed each
of the token checks that its path asks for (`Prepared`).
`RoutesAreReached` is about the tables alone, and holds for every value of `env`,
not only for the environments of the run. A table is in order (`InOrder`) when no
route before a route takes its request, but for the shadowed ones: some route before
such a one takes it, and none before has its handler. Within a group (routes with
the same word below `/api/v1`) an earlier route differs in method, in length or in a
word that is no parameter (`Unlike`); two groups differ in that word, so tables of
different groups stay in order when put one after the other (`InOrderApart`),
whichever of them are mounted. The shadowed routes meet `/cms/:name/:id` and
`/cms/:name` within their own group.

Only model-checked: the liveness properties (`ExecutionsSettle`,
`ClaimedJobsFinish`, `ServesAgain`), for fairness and ENABLED are out of reach of
the prover.

## 5. Plan

Done, in this order: sessions and isolation; the life of tasks; retention; jobs;
registration; the files; the wiring. What is left, by what it would add:

1. Pure functions against reference definitions: `matches` and `deepEquals` of
   `db.ts`, which decide what an example finds, and the derivation of a client's
   address from headers.
2. `Server.cleanup` with the closing of queue, workers and database, once something
   other than the tests calls it.

## 6. Where the code and what is said of it differ

Each is a run that TLC ends with a counterexample.

- `duplicate_execution`: cancelling gives the key back while the executor goes
  on; the task can be executed a second time beside it.
- `retention_per_key`: cleanup looks for tasks by the normalized id of the
  session; those of a key that normalizing changes are never deleted.
- `unused_sessions`: the cleanup run itself counts as use of every session, so
  with a run every five minutes and a timeout of thirty none ever expires.
- `done_jobs`: the email worker takes an entry of a trackable job and returns;
  the queue counts it as done and the job stays pending.
- `one_user_per_address`: in memory two registrations of one address that overlap
  both succeed, and the second user's password is never taken.

Met while modelling, and seen directly in the code, without a run:

- `/cms/reset/:name` and `/cms/reset-all` are documented (`SESSION_ISOLATION.md:158`)
  and mounted behind `/cms/:name/:id` and `/cms/:name`, which answer in their place:
  nothing is deleted. `RoutesAnswerTheirPaths` says that these two are the only ones.
- Sessions used within the same millisecond are never the oldest (`db-factory.ts:139`
  compares with `<`), so the factory grows past `maxSessions`;
  `OverflowOnlyWithinAMillisecond` is what remains true.
- Cookies are documented as carrying a session (`SESSION_ISOLATION.md:101`), but no
  cookie parser is mounted and `req.cookies` is never set.
- The job routes are said to need `ENABLE_QUEUE=true` (`README.md:433`); they are
  mounted with `STORAGE=prisma` alone (`server.ts:303`), and created jobs then wait
  for a queue that does not exist.
- With `AUTO_MAP_SESSION_BY_IP` unset the middleware maps addresses (`server.ts:144`)
  while the routes to see and clear the mappings are not mounted.
- "Default session uses original database file" (`SESSION_ISOLATION.md:289`): with
  isolation the default session has a file of its own like any other
  (`db-factory.ts:63`), and what the start loads is used by no request.
- `auth-mode.middleware.ts:8` says that full mode "requires JWT for CMS/task/session
  routes". `isScopedPath` (`config/auth-mode.ts:35`) compares strings with case, the
  routers (`server.ts:278`) do not: `/api/v1/CMS/x` or `/api/v1/Tasks` runs its handler
  with no token, in the session of the header or the address. The model has these
  requests; `WorksForItsUser` excepts them.
- "Keep only N most recent completed tasks" (`task/types.ts:57`): `completedAt` is set only
  when it is not set yet (`task/task-execution-service.ts:81`), so a task that was executed
  again without a retry and completed last counts as old as its first completion, and is
  deleted before tasks that completed earlier. The model has these behaviours;
  `NewestAreKept` excepts such a task, and no other.
- A body that is not JSON is answered with 404, the status that the last handler
  gives to every error (`server.ts:367`).

## 7. Not modelled

Pages, static files, logging, formatting and the sample data (I/O and layout);
token verification, password hashing and the database drivers (external); the
in-memory job repository, which no container uses; the paging of job lists; the
headers that give a client's address; what an example matches in a search; `doWait`,
which nothing calls; `Server.cleanup`, which only the tests call (what it does to
executions is `CancelAllRunningTasks`); deployment.
