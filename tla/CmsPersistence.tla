--------------------------- MODULE CmsPersistence ---------------------------
(***************************************************************************)
(* The files of the in-memory databases: InMemoryDatabase.saveDB and       *)
(* loadDB (src/src/db.ts) under concurrent requests to CMSRoute            *)
(* (src/src/cms.ts), failing file operations, crashes, and starts of the   *)
(* server, which load the default database before the server listens       *)
(* (src/src/server.ts, src/bin/www).                                       *)
(*                                                                         *)
(* Without session isolation all requests work in the default database,    *)
(* whose file is the configured path.  With it they work in the database   *)
(* of their session, whose file is another one (src/src/db-factory.ts:63)  *)
(* and is loaded only on request; the session may be removed and get a new *)
(* database while requests still hold the old one.  One session is looked  *)
(* at: different sessions have different files.                            *)
(*                                                                         *)
(* fs.writeFile and fs.readFile work in pieces of 512 KiB, and other       *)
(* requests have their turn between two pieces.  A text is written in one  *)
(* step here and read in one step: the module describes databases whose    *)
(* texts are no longer than that, and says nothing of larger ones.         *)
(***************************************************************************)
EXTENDS Naturals

CONSTANTS
  Requests,      \* slots for the requests in flight
  Rows,          \* an item in one of its versions, with its table
  Item,          \* the item, with its table, that a row is a version of
  TextLength,    \* the length of the JSON text of a set of rows
  MaxInstances,  \* bound of the databases created in one life of the server
  MaxFaults      \* bound of crashes and of failed file operations

Startup == "startup"             \* the load done by Server.tasks
Callers == Requests \cup {Startup}
Instances == 1 .. MaxInstances
DefaultDb == 1                   \* Server.db; the later ones are the session's
Paths == {"original", "session"}

ASSUME PersistenceAssumption ==
  /\ Startup \notin Requests
  /\ DOMAIN Item = Rows
  /\ TextLength \in [SUBSET Rows -> Nat \ {0}]
  /\ MaxInstances \in Nat \ {0}
  /\ MaxFaults \in Nat

VARIABLES
  server,     \* "stopped", "starting", "serving", or "failed": it runs but never listens
  loadOnStartup,  \* database.loadOnStartup of the configuration file
  isolation,  \* ENABLE_SESSION_ISOLATION of this life of the server
  created,    \* the number of databases of this life
  current,    \* the database that requests are given, 0 when the session has none
  tables,     \* the rows of each database
  files,      \* each file: the text it begins with, and its length
  calls,      \* what each request, or the start, is waiting for
  faults,     \* crashes and failed operations so far
  spoiled     \* history: paths where saves have overlapped or broken off since the last lone one

vars ==
  <<server, loadOnStartup, isolation, created, current, tables, files, calls, faults, spoiled>>

NoFile == [text |-> {}, length |-> 0, exists |-> FALSE]
Truncated == [text |-> {}, length |-> 0, exists |-> TRUE]

Phases == {"idle", "bound", "saving", "writing", "opening", "reading"}
Idle == [phase |-> "idle", db |-> 0, snapshot |-> {}, size |-> 0, met |-> FALSE]

\* saving: open(2) is asked for; writing: the file is truncated and write(2) is
\* asked for; opening and reading likewise.  `met` is history: a save had the
\* file truncated at some time during this reading.
Call(phase, db, snapshot) ==
  [phase |-> phase, db |-> db, snapshot |-> snapshot, size |-> 0, met |-> FALSE]
Reading(db, size, met) ==
  [phase |-> "reading", db |-> db, snapshot |-> {}, size |-> size, met |-> met]

CallType ==
  [phase : Phases, db : 0 .. MaxInstances, snapshot : SUBSET Rows, size : Nat, met : BOOLEAN]

FileType == [text : SUBSET Rows, length : Nat, exists : BOOLEAN]

PathOf(db) == IF db = DefaultDb THEN "original" ELSE "session"

TypeOK ==
  /\ server \in {"stopped", "starting", "serving", "failed"}
  /\ loadOnStartup \in BOOLEAN
  /\ isolation \in BOOLEAN
  /\ created \in 0 .. MaxInstances
  /\ current \in 0 .. MaxInstances
  /\ tables \in [Instances -> SUBSET Rows]
  /\ files \in [Paths -> FileType]
  /\ calls \in [Callers -> CallType]
  /\ \A c \in Callers : calls[c].phase # "idle" => calls[c].db \in Instances
  /\ faults \in 0 .. MaxFaults
  /\ spoiled \in [Paths -> BOOLEAN]

Init ==
  /\ server = "stopped"
  /\ loadOnStartup \in BOOLEAN
  /\ isolation = FALSE
  /\ created = 0
  /\ current = 0
  /\ tables = [i \in Instances |-> {}]
  /\ files = [p \in Paths |-> NoFile]
  /\ calls = [c \in Callers |-> Idle]
  /\ faults = 0
  /\ spoiled = [p \in Paths |-> FALSE]

-----------------------------------------------------------------------------
(* The life of the server *)

\* A server that is told that its start failed never listens.  The process ends,
\* unless a timer (task cleanup, with isolation) or a worker of the queue keeps it
\* running.
NotListening(isolated) == IF isolated THEN {"failed"} ELSE {"failed", "stopped"}

\* The constructor makes the default database and, with isolation, the factory;
\* then `init` waits for the load.  Without loadOnStartup it loads nothing and
\* resolves false, which counts as a failure.  The environment may differ at every
\* start.
Start ==
  /\ server = "stopped"
  /\ isolation' \in BOOLEAN
  /\ current' = IF isolation' THEN 0 ELSE DefaultDb
  /\ created' = 1
  /\ \/ /\ loadOnStartup
        /\ server' = "starting"
        /\ calls' = [calls EXCEPT ![Startup] = Call("opening", DefaultDb, {})]
     \/ /\ ~loadOnStartup
        /\ server' \in NotListening(isolation')
        /\ UNCHANGED calls
  /\ UNCHANGED <<loadOnStartup, tables, files, faults, spoiled>>

Writers(p) == {c \in Callers : calls[c].phase = "writing" /\ PathOf(calls[c].db) = p}

Crash ==
  /\ server # "stopped"
  /\ faults < MaxFaults
  /\ faults' = faults + 1
  /\ server' = "stopped"
  /\ created' = 0
  /\ current' = 0
  /\ tables' = [i \in Instances |-> {}]
  /\ calls' = [c \in Callers |-> Idle]
  /\ spoiled' = [p \in Paths |-> spoiled[p] \/ Writers(p) # {}]
  /\ UNCHANGED <<loadOnStartup, isolation, files>>

\* The session is deleted, expires or is evicted.
LoseSession ==
  /\ isolation /\ current # 0
  /\ current' = 0
  /\ UNCHANGED <<server, loadOnStartup, isolation, created, tables, files, calls, faults, spoiled>>

-----------------------------------------------------------------------------
(* Requests and the handlers that wait for nothing *)

\* Plausible mistake: the request is bound to what the session has at hand.
ArriveUnbound(r) ==
  /\ server = "serving" /\ calls[r].phase = "idle"
  /\ calls' = [calls EXCEPT ![r] = Call("bound", current, {})]
  /\ UNCHANGED <<server, loadOnStartup, isolation, created, current, tables, files, faults, spoiled>>

\* The middleware: a session without a database gets a new one, which is not
\* loaded: getDatabase does not call init.
Arrive(r) ==
  /\ server = "serving" /\ calls[r].phase = "idle"
  /\ \E db \in Instances :
       /\ \/ current # 0 /\ db = current /\ UNCHANGED created
          \/ current = 0 /\ db = created + 1 /\ created' = db
       /\ current' = db
       /\ calls' = [calls EXCEPT ![r] = Call("bound", db, {})]
  /\ UNCHANGED <<server, loadOnStartup, isolation, tables, files, faults, spoiled>>

Answer(c) == calls' = [calls EXCEPT ![c] = Idle]

Edit(r, rows) ==
  /\ calls[r].phase = "bound"
  /\ tables' = [tables EXCEPT ![calls[r].db] = rows]
  /\ Answer(r)
  /\ UNCHANGED <<server, loadOnStartup, isolation, created, current, files, faults, spoiled>>

\* The rows of a database but those of one item.
Without(db, row) == {other \in tables[db] : Item[other] # Item[row]}

\* CMSRoute.save: the row takes the place of an earlier version of its item.
CreateOrUpdate(r, row) == Edit(r, Without(calls[r].db, row) \cup {row})

\* CMSRoute.deleteById, and delete, which is several of these
Delete(r, row) == Edit(r, Without(calls[r].db, row))

\* CMSRoute.deleteAll
DeleteAll(r) == Edit(r, {})

-----------------------------------------------------------------------------
(* saveDB: fs.writeFile opens the file, which truncates it, then writes the
   text that was made when it was called, from the beginning of the file. *)

SaveDB(r) ==
  /\ calls[r].phase = "bound"
  /\ LET db == calls[r].db
     IN  calls' = [calls EXCEPT ![r] = Call("saving", db, tables[db])]
  /\ UNCHANGED <<server, loadOnStartup, isolation, created, current, tables, files, faults, spoiled>>

\* Plausible mistake: opening without truncating.
OpenedInPlace(file) == [file EXCEPT !.exists = TRUE]

OpenedForWriting(file) == Truncated

\* Whoever is reading the file meets the truncated one.
OpenForWriting(r) ==
  LET p == PathOf(calls[r].db) IN
  /\ calls[r].phase = "saving"
  /\ files' = [files EXCEPT ![p] = OpenedForWriting(@)]
  /\ calls' = [c \in Callers |->
       LET call == calls[c] IN
       IF c = r THEN Call("writing", call.db, call.snapshot)
       ELSE IF call.phase = "reading" /\ PathOf(call.db) = p
            THEN Reading(call.db, call.size, TRUE)
            ELSE call]
  /\ spoiled' = [spoiled EXCEPT ![p] = Writers(p) # {}]
  /\ UNCHANGED <<server, loadOnStartup, isolation, created, current, tables, faults>>

Larger(m, n) == IF m > n THEN m ELSE n
Smaller(m, n) == IF m < n THEN m ELSE n

\* A text written over a longer one leaves the tail of that one.
Written(file, snapshot) ==
  [text |-> snapshot, length |-> Larger(file.length, TextLength[snapshot]), exists |-> TRUE]

\* Plausible mistake: the text is made when it is written.
TextMadeLate(r) == tables[calls[r].db]

Text(r) == calls[r].snapshot

Write(r) ==
  /\ calls[r].phase = "writing"
  /\ files' = [files EXCEPT ![PathOf(calls[r].db)] = Written(@, Text(r))]
  /\ Answer(r)
  /\ UNCHANGED <<server, loadOnStartup, isolation, created, current, tables, faults, spoiled>>

-----------------------------------------------------------------------------
(* loadDB: fs.readFile opens the file, asks for its size, reads so much; the
   text is parsed and only then are the tables replaced, all at once. *)

LoadDB(r) ==
  /\ calls[r].phase = "bound"
  /\ calls' = [calls EXCEPT ![r] = Call("opening", calls[r].db, {})]
  /\ UNCHANGED <<server, loadOnStartup, isolation, created, current, tables, files, faults, spoiled>>

\* The load at the start decides whether the server ever listens.
AfterLoad(c, loaded) ==
  server' \in IF c # Startup THEN {server}
              ELSE IF loaded THEN {"serving"} ELSE NotListening(isolation)

Install(c, read) ==
  /\ tables' = [tables EXCEPT ![calls[c].db] = read]
  /\ Answer(c)
  /\ AfterLoad(c, TRUE)

\* Plausible mistake: a file that is not there is an error like any other.
MissingIsAnError(c) ==
  /\ calls[c].phase = "opening"
  /\ ~files[PathOf(calls[c].db)].exists
  /\ Answer(c)
  /\ AfterLoad(c, FALSE)
  /\ UNCHANGED <<loadOnStartup, isolation, created, current, tables, files, faults, spoiled>>

\* No file (ENOENT) is an empty database.
OpenMissing(c) ==
  /\ calls[c].phase = "opening"
  /\ ~files[PathOf(calls[c].db)].exists
  /\ Install(c, {})
  /\ UNCHANGED <<loadOnStartup, isolation, created, current, files, faults, spoiled>>

OpenForReading(c) ==
  LET p == PathOf(calls[c].db) IN
  /\ calls[c].phase = "opening"
  /\ files[p].exists
  /\ calls' = [calls EXCEPT ![c] =
                 Reading(calls[c].db, files[p].length, Writers(p) # {})]
  /\ UNCHANGED <<server, loadOnStartup, isolation, created, current, tables, files, faults, spoiled>>

\* A file whose size was 0 is read to its end.
LengthRead(c) ==
  LET length == files[PathOf(calls[c].db)].length
  IN  IF calls[c].size = 0 THEN length ELSE Smaller(calls[c].size, length)

\* JSON.parse accepts the text of a save and nothing that is shorter or longer.
Parses(c) == LengthRead(c) = TextLength[files[PathOf(calls[c].db)].text]

Read(c) ==
  /\ calls[c].phase = "reading"
  /\ Parses(c)
  /\ Install(c, files[PathOf(calls[c].db)].text)
  /\ UNCHANGED <<loadOnStartup, isolation, created, current, files, faults, spoiled>>

\* JSON.parse throws: the request is answered with an error.
ReadGarbage(c) ==
  /\ calls[c].phase = "reading"
  /\ ~Parses(c)
  /\ Answer(c)
  /\ AfterLoad(c, FALSE)
  /\ UNCHANGED <<loadOnStartup, isolation, created, current, tables, files, faults, spoiled>>

\* An operation on the file fails (no space, no permission, too many files).
OperationFails(c) ==
  /\ calls[c].phase \in {"saving", "writing", "opening", "reading"}
  /\ faults < MaxFaults
  /\ faults' = faults + 1
  /\ spoiled' = [spoiled EXCEPT ![PathOf(calls[c].db)] = @ \/ calls[c].phase = "writing"]
  /\ Answer(c)
  /\ AfterLoad(c, FALSE)
  /\ UNCHANGED <<loadOnStartup, isolation, created, current, tables, files>>

-----------------------------------------------------------------------------

Load(c) == OpenMissing(c) \/ OpenForReading(c) \/ Read(c) \/ ReadGarbage(c)

Request(r) ==
  \/ Arrive(r)
  \/ \E row \in Rows : CreateOrUpdate(r, row) \/ Delete(r, row)
  \/ DeleteAll(r)
  \/ SaveDB(r) \/ OpenForWriting(r) \/ Write(r)
  \/ LoadDB(r)

Next ==
  \/ Start \/ Crash \/ LoseSession
  \/ \E r \in Requests : Request(r)
  \/ \E c \in Callers : Load(c) \/ OperationFails(c)

\* A container that ends is started again (src/docker-compose.prod.yml), and an
\* operation on a file is answered.
Fairness == WF_vars(Start) /\ WF_vars(Load(Startup))

Spec == Init /\ [][Next]_vars
FairSpec == Spec /\ Fairness

-----------------------------------------------------------------------------
(* Properties *)

Whole(file) == file.length = TextLength[file.text]

\* A save that neither overlaps another nor breaks off leaves a file that can be
\* read, whatever the file was before: it repairs what others have spoiled.
LoneSavesAreWhole ==
  \A p \in Paths :
    files[p].exists /\ Writers(p) = {} /\ ~spoiled[p] => Whole(files[p])

\* Nobody, the start of the server included, is told that a file cannot be
\* loaded, unless saves to it have overlapped or broken off, or one had it
\* truncated during this very load.
UnreadableForAReason ==
  \A c \in Callers :
    calls[c].phase = "reading" /\ ~Parses(c)
      => spoiled[PathOf(calls[c].db)] \/ calls[c].met

Asked(p) ==
  {calls[c].snapshot :
     c \in {d \in Callers : calls[d].phase \in {"saving", "writing"} /\ PathOf(calls[d].db) = p}}

StoredIn(file) ==
  [state |-> IF ~file.exists THEN "nothing" ELSE IF file.length = 0 THEN "lost" ELSE "rows",
   rows |-> file.text]

Promise ==
  INSTANCE BackupPromise WITH
    Databases <- Instances,
    Files <- Paths,
    memory <- tables,
    stored <- [p \in Paths |-> StoredIn(files[p])],
    pending <- [p \in Paths |-> Asked(p)]

\* saveDB and loadDB implement BackupPromise: what a load installs is what one
\* save stored, never a mixture with other saves, with rows of the memory or
\* with another path.  This holds of the code for texts of up to 512 KiB.
BackupKept == Promise!Spec

\* A server that is configured to load its database and stops with its file
\* unspoiled comes up again.
ServesAgain ==
  (loadOnStartup /\ server \in {"stopped", "starting"} /\ faults = MaxFaults
     /\ ~spoiled["original"])
    ~> (server = "serving")

=============================================================================
