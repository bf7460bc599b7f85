------------------------ MODULE CmsPersistenceProofs ------------------------
(***************************************************************************)
(* Proofs about CmsPersistence.  While a path is not spoiled, at most one  *)
(* save has it open, and the file is empty then; so the save that ends     *)
(* leaves its own text and nothing else.  A load that has met no save has  *)
(* the file as it was when it asked for its size.                          *)
(***************************************************************************)
EXTENDS CmsPersistence, TLAPS

\* Whoever is writing an unspoiled file is alone with an empty one.
WritersFit ==
  \A p \in Paths : ~spoiled[p] =>
    \A c, d \in Writers(p) : c = d /\ files[p] = Truncated

\* A reader has a file, and while it has met no save nobody is writing it and
\* its length is the size that was asked for.
ReadersFit ==
  \A c \in Callers, p \in Paths : calls[c].phase = "reading" /\ p = PathOf(calls[c].db) =>
    /\ files[p].exists
    /\ ~calls[c].met => Writers(p) = {} /\ calls[c].size = files[p].length

\* Only a text has a length.
FilesFit ==
  \A p \in Paths :
    /\ ~files[p].exists => files[p] = NoFile
    /\ files[p].length = 0 => files[p].text = {}

\* The start of the server saves nothing.
StartupLoads == calls[Startup].phase \in {"idle", "opening", "reading"}

Rest == LoneSavesAreWhole /\ WritersFit /\ ReadersFit /\ FilesFit /\ StartupLoads

IInv == TypeOK /\ Rest

-----------------------------------------------------------------------------
(* Facts about the operators *)

LEMMA PathFacts == \A db : PathOf(db) \in Paths
BY DEF PathOf, Paths

LEMMA PhaseFacts ==
  "bound" \in Phases /\ "saving" \in Phases /\ "writing" \in Phases
    /\ "opening" \in Phases /\ "reading" \in Phases
BY DEF Phases

LEMMA InstancesFacts == Instances \subseteq 0 .. MaxInstances
BY PersistenceAssumption DEF Instances

LEMMA CallFacts ==
  \A phase \in Phases, db \in 0 .. MaxInstances, snapshot \in SUBSET Rows :
    /\ Call(phase, db, snapshot) \in CallType
    /\ Call(phase, db, snapshot).phase = phase
    /\ Call(phase, db, snapshot).db = db
    /\ Call(phase, db, snapshot).snapshot = snapshot
BY DEF Call, CallType

LEMMA IdleFacts == Idle \in CallType /\ Idle.phase = "idle"
BY PersistenceAssumption DEF Idle, CallType, Phases

LEMMA FileFacts ==
  /\ NoFile \in FileType /\ ~NoFile.exists /\ NoFile.length = 0 /\ NoFile.text = {}
  /\ Truncated \in FileType /\ Truncated.exists /\ Truncated.length = 0
  /\ Truncated.text = {}
BY DEF NoFile, Truncated, FileType

LEMMA WrittenFacts ==
  \A file \in FileType, snapshot \in SUBSET Rows :
    /\ Written(file, snapshot) \in FileType
    /\ Written(file, snapshot).exists
    /\ Written(file, snapshot).text = snapshot
    /\ Written(file, snapshot).length \in Nat \ {0}
    /\ file.length = 0 => Whole(Written(file, snapshot))
<1> SUFFICES ASSUME NEW file \in FileType, NEW snapshot \in SUBSET Rows
             PROVE  /\ Written(file, snapshot) \in FileType
                    /\ Written(file, snapshot).exists
                    /\ Written(file, snapshot).text = snapshot
                    /\ Written(file, snapshot).length \in Nat \ {0}
                    /\ file.length = 0 => Whole(Written(file, snapshot))
  OBVIOUS
<1> DEFINE n == Larger(file.length, TextLength[snapshot])
<1>1. file.length \in Nat /\ TextLength[snapshot] \in Nat \ {0}
  BY PersistenceAssumption DEF FileType
<1>2. n \in Nat \ {0} /\ (file.length = 0 => n = TextLength[snapshot])
  BY <1>1 DEF Larger
<1>3. Written(file, snapshot) = [text |-> snapshot, length |-> n, exists |-> TRUE]
  BY DEF Written
<1> HIDE DEF n
<1> QED  BY <1>2, <1>3 DEF FileType, Whole

LEMMA CallerFacts ==
  ASSUME TypeOK, NEW c \in Callers
  PROVE  /\ calls[c] \in CallType
         /\ calls[c].phase \in Phases
         /\ calls[c].db \in 0 .. MaxInstances
         /\ calls[c].snapshot \in SUBSET Rows
         /\ calls[c].size \in Nat
         /\ calls[c].met \in BOOLEAN
         /\ files[PathOf(calls[c].db)] \in FileType
<1>1. calls[c] \in CallType
  BY DEF TypeOK
<1>2. PathOf(calls[c].db) \in Paths
  BY PathFacts
<1> QED  BY <1>1, <1>2 DEF TypeOK, CallType

LEMMA RequestsCall == Requests \subseteq Callers /\ Startup \in Callers /\ Startup \notin Requests
BY PersistenceAssumption DEF Callers

-----------------------------------------------------------------------------
(* Steps of one call that touch no file *)

\* The others keep their calls, and the writers of every path stay the same.
LEMMA SameWriters ==
  ASSUME TypeOK, NEW c \in Callers, NEW x \in CallType,
         calls' = [calls EXCEPT ![c] = x],
         calls[c].phase # "writing", x.phase # "writing"
  PROVE  /\ calls'[c] = x
         /\ \A d \in Callers \ {c} : calls'[d] = calls[d]
         /\ \A p \in Paths : Writers(p)' = Writers(p)
<1>1. calls'[c] = x /\ \A d \in Callers \ {c} : calls'[d] = calls[d]
  BY DEF TypeOK
<1>2. ASSUME NEW p \in Paths PROVE Writers(p)' = Writers(p)
  BY <1>1 DEF Writers
<1> QED  BY <1>1, <1>2

LEMMA QuietStep ==
  ASSUME IInv, NEW c \in Callers, NEW x \in CallType,
         calls' = [calls EXCEPT ![c] = x],
         calls[c].phase # "writing", x.phase \notin {"writing", "reading"},
         c = Startup => x.phase \in {"idle", "opening"},
         UNCHANGED <<files, spoiled>>
  PROVE  Rest'
<1>1. /\ calls'[c] = x
      /\ \A d \in Callers \ {c} : calls'[d] = calls[d]
      /\ \A p \in Paths : Writers(p)' = Writers(p)
  BY SameWriters DEF IInv
<1>2. LoneSavesAreWhole' /\ WritersFit' /\ FilesFit'
  BY <1>1 DEF IInv, Rest, LoneSavesAreWhole, WritersFit, FilesFit
<1>3. ReadersFit'
  BY <1>1, PathFacts DEF IInv, Rest, ReadersFit
<1>4. StartupLoads'
  BY <1>1, RequestsCall DEF IInv, Rest, StartupLoads
<1> QED  BY <1>2, <1>3, <1>4 DEF Rest

\* The types after a step of one call, variable by variable.
LEMMA CallStepTypes ==
  ASSUME TypeOK, NEW c \in Callers, NEW x \in CallType,
         calls' = [calls EXCEPT ![c] = x],
         x.phase # "idle" => x.db \in Instances
  PROVE  /\ calls' \in [Callers -> CallType]
         /\ \A d \in Callers : calls'[d].phase # "idle" => calls'[d].db \in Instances
BY DEF TypeOK

\* What a call that is not idle is bound to.
LEMMA BoundFacts ==
  ASSUME TypeOK, NEW c \in Callers, calls[c].phase # "idle"
  PROVE  /\ calls[c].db \in Instances
         /\ tables[calls[c].db] \in SUBSET Rows
BY DEF TypeOK

LEMMA Initial == Init => IInv
<1> SUFFICES ASSUME Init PROVE IInv
  OBVIOUS
<1>1. \A c \in Callers : calls[c] = Idle
  BY DEF Init
<1>2. TypeOK
  <2>1. calls \in [Callers -> CallType] /\ files \in [Paths -> FileType]
    BY IdleFacts, FileFacts DEF Init
  <2>2. \A c \in Callers : calls[c].phase = "idle"
    BY <1>1, IdleFacts
  <2>3. created \in 0 .. MaxInstances /\ current \in 0 .. MaxInstances
        /\ faults \in 0 .. MaxFaults
    BY PersistenceAssumption DEF Init
  <2>4. /\ server \in {"stopped", "starting", "serving", "failed"}
        /\ loadOnStartup \in BOOLEAN /\ isolation \in BOOLEAN
        /\ tables \in [Instances -> SUBSET Rows] /\ spoiled \in [Paths -> BOOLEAN]
    BY Zenon DEF Init
  <2> QED  BY <2>1, <2>2, <2>3, <2>4 DEF TypeOK
<1>3. \A p \in Paths : files[p] = NoFile /\ Writers(p) = {}
  BY <1>1, IdleFacts DEF Init, Writers
<1>4. LoneSavesAreWhole /\ WritersFit /\ FilesFit
  BY <1>3, FileFacts DEF LoneSavesAreWhole, WritersFit, FilesFit
<1>5. ReadersFit /\ StartupLoads
  BY <1>1, IdleFacts, RequestsCall DEF ReadersFit, StartupLoads
<1> QED  BY <1>2, <1>4, <1>5 DEF IInv, Rest

LEMMA StartStep == ASSUME IInv, Start PROVE IInv'
<1> DEFINE x == Call("opening", DefaultDb, {})
<1>2. DefaultDb \in Instances
  BY PersistenceAssumption DEF DefaultDb, Instances
<1>1. x \in CallType /\ x.phase = "opening" /\ x.db = DefaultDb
  <2>1. DefaultDb \in 0 .. MaxInstances
    BY <1>2, InstancesFacts
  <2> QED  BY <2>1, PhaseFacts, CallFacts
<1>3. /\ calls' \in {calls, [calls EXCEPT ![Startup] = x]}
      /\ UNCHANGED <<loadOnStartup, tables, files, faults, spoiled>>
  BY DEF Start
<1>4. /\ server' \in {"starting", "failed", "stopped"} /\ isolation' \in BOOLEAN
      /\ created' = 1 /\ current' \in {0, DefaultDb}
  BY DEF Start, NotListening
<1> HIDE DEF x
<1>5. TypeOK'
  <2>1. /\ calls' \in [Callers -> CallType]
        /\ \A d \in Callers : calls'[d].phase # "idle" => calls'[d].db \in Instances
    <3>1. CASE calls' = calls
      BY <3>1 DEF IInv, TypeOK
    <3>2. CASE calls' = [calls EXCEPT ![Startup] = x]
      BY <1>1, <1>2, <3>2, CallStepTypes, RequestsCall DEF IInv
    <3> QED  BY <1>3, <3>1, <3>2
  <2>2. created' \in 0 .. MaxInstances /\ current' \in 0 .. MaxInstances
    BY <1>4, PersistenceAssumption DEF DefaultDb
  <2>3. /\ server' \in {"stopped", "starting", "serving", "failed"}
        /\ loadOnStartup' \in BOOLEAN
    BY <1>3, <1>4 DEF IInv, TypeOK
  <2> QED  BY <2>1, <2>2, <2>3, <1>3, <1>4 DEF IInv, TypeOK
<1>6. calls[Startup].phase # "writing"
  BY DEF IInv, Rest, StartupLoads
<1>7. CASE calls' = calls
  <2>1. \A p \in Paths : Writers(p)' = Writers(p)
    BY <1>7 DEF Writers
  <2>2. LoneSavesAreWhole' /\ WritersFit' /\ FilesFit' /\ StartupLoads'
    BY <1>3, <1>7, <2>1
    DEF IInv, Rest, LoneSavesAreWhole, WritersFit, FilesFit, StartupLoads
  <2>3. ReadersFit'
    BY <1>3, <1>7, <2>1, PathFacts DEF IInv, Rest, ReadersFit
  <2> QED  BY <1>5, <2>2, <2>3 DEF IInv, Rest
<1>8. CASE calls' = [calls EXCEPT ![Startup] = x]
  <2>1. Rest'
    BY <1>1, <1>3, <1>6, <1>8, QuietStep, RequestsCall
  <2> QED  BY <1>5, <2>1 DEF IInv
<1> QED  BY <1>3, <1>7, <1>8

LEMMA CrashStep == ASSUME IInv, Crash PROVE IInv'
<1>1. /\ calls' = [c \in Callers |-> Idle]
      /\ spoiled' = [p \in Paths |-> spoiled[p] \/ Writers(p) # {}]
      /\ files' = files
  BY DEF Crash
<1>2. \A c \in Callers : calls'[c] = Idle
  BY <1>1
<1>3. TypeOK'
  <2>1. calls' \in [Callers -> CallType]
    BY <1>1, IdleFacts
  <2>2. \A c \in Callers : calls'[c].phase = "idle"
    BY <1>2, IdleFacts
  <2>3. faults' \in 0 .. MaxFaults
    BY PersistenceAssumption DEF Crash, IInv, TypeOK
  <2>4. /\ server' = "stopped" /\ created' = 0 /\ current' = 0 /\ isolation' = isolation
        /\ loadOnStartup' = loadOnStartup
        /\ tables' = [i \in Instances |-> {}] /\ spoiled' \in [Paths -> BOOLEAN]
    BY <1>1 DEF Crash
  <2>5. tables' \in [Instances -> SUBSET Rows] /\ 0 \in 0 .. MaxInstances
    BY <2>4, PersistenceAssumption
  <2> QED  BY <2>1, <2>2, <2>3, <2>4, <2>5, <1>1 DEF IInv, TypeOK
<1>4. \A p \in Paths : Writers(p)' = {}
  BY <1>2, IdleFacts DEF Writers
<1>5. LoneSavesAreWhole'
  BY <1>1 DEF IInv, Rest, LoneSavesAreWhole
<1>6. WritersFit' /\ FilesFit'
  BY <1>1, <1>4 DEF IInv, Rest, WritersFit, FilesFit
<1>7. ReadersFit' /\ StartupLoads'
  BY <1>2, IdleFacts, RequestsCall DEF ReadersFit, StartupLoads
<1> QED  BY <1>3, <1>5, <1>6, <1>7 DEF IInv, Rest

LEMMA LoseSessionStep == ASSUME IInv, LoseSession PROVE IInv'
<1>1. /\ UNCHANGED <<server, loadOnStartup, isolation, created, tables, files, calls, faults, spoiled>>
      /\ current' = 0
  BY DEF LoseSession
<1>2. TypeOK'
  BY <1>1, PersistenceAssumption DEF IInv, TypeOK
<1>3. \A p \in Paths : Writers(p)' = Writers(p)
  BY <1>1 DEF Writers
<1>4. LoneSavesAreWhole' /\ WritersFit' /\ FilesFit' /\ StartupLoads'
  BY <1>1, <1>3 DEF IInv, Rest, LoneSavesAreWhole, WritersFit, FilesFit, StartupLoads
<1>5. ReadersFit'
  BY <1>1, <1>3, PathFacts DEF IInv, Rest, ReadersFit
<1> QED  BY <1>2, <1>4, <1>5 DEF IInv, Rest

LEMMA ArriveStep == ASSUME IInv, NEW r \in Requests, Arrive(r) PROVE IInv'
<1>1. PICK db \in Instances :
        /\ \/ current # 0 /\ db = current /\ UNCHANGED created
           \/ current = 0 /\ db = created + 1 /\ created' = db
        /\ current' = db
        /\ calls' = [calls EXCEPT ![r] = Call("bound", db, {})]
  BY DEF Arrive
<1>2. /\ calls[r].phase = "idle"
      /\ UNCHANGED <<server, loadOnStartup, isolation, tables, files, faults, spoiled>>
  BY DEF Arrive
<1> DEFINE x == Call("bound", db, {})
<1>3. x \in CallType /\ x.phase = "bound" /\ x.db = db
  <2>1. db \in 0 .. MaxInstances
    BY InstancesFacts
  <2> QED  BY <2>1, PhaseFacts, CallFacts
<1>4. calls' = [calls EXCEPT ![r] = x]
  BY <1>1
<1> HIDE DEF x
<1>5. TypeOK'
  <2>1. /\ calls' \in [Callers -> CallType]
        /\ \A d \in Callers : calls'[d].phase # "idle" => calls'[d].db \in Instances
    BY <1>3, <1>4, CallStepTypes, RequestsCall DEF IInv
  <2>2. created' \in 0 .. MaxInstances /\ current' \in 0 .. MaxInstances
    BY <1>1, PersistenceAssumption DEF Instances, IInv, TypeOK
  <2> QED  BY <2>1, <2>2, <1>2 DEF IInv, TypeOK
<1>6. Rest'
  BY <1>2, <1>3, <1>4, QuietStep, RequestsCall
<1> QED  BY <1>5, <1>6 DEF IInv

LEMMA EditStep ==
  ASSUME IInv, NEW r \in Requests, NEW rows \in SUBSET Rows, Edit(r, rows)
  PROVE  IInv'
<1>1. /\ calls' = [calls EXCEPT ![r] = Idle]
      /\ tables' = [tables EXCEPT ![calls[r].db] = rows]
      /\ UNCHANGED <<server, loadOnStartup, isolation, created, current, files, faults, spoiled>>
  BY DEF Edit, Answer
<1>2. calls[r].phase = "bound"
  BY DEF Edit
<1>3. TypeOK'
  <2>1. /\ calls' \in [Callers -> CallType]
        /\ \A d \in Callers : calls'[d].phase # "idle" => calls'[d].db \in Instances
    BY <1>1, IdleFacts, CallStepTypes, RequestsCall DEF IInv
  <2>2. tables' \in [Instances -> SUBSET Rows]
    BY <1>1 DEF IInv, TypeOK
  <2> QED  BY <2>1, <2>2, <1>1 DEF IInv, TypeOK
<1>4. Rest'
  BY <1>1, <1>2, IdleFacts, QuietStep, RequestsCall
<1> QED  BY <1>3, <1>4 DEF IInv

\* The steps that only take a call from one phase to another.
LEMMA PhaseStep ==
  ASSUME IInv, NEW c \in Callers, NEW x \in CallType,
         calls' = [calls EXCEPT ![c] = x],
         calls[c].phase # "writing", x.phase \notin {"writing", "reading"},
         x.phase # "idle" => x.db \in Instances,
         c = Startup => x.phase \in {"idle", "opening"},
         server' \in {"stopped", "starting", "serving", "failed"},
         faults' \in 0 .. MaxFaults,
         tables' \in [Instances -> SUBSET Rows],
         UNCHANGED <<loadOnStartup, isolation, created, current, files, spoiled>>
  PROVE  IInv'
<1>1. /\ calls' \in [Callers -> CallType]
      /\ \A d \in Callers : calls'[d].phase # "idle" => calls'[d].db \in Instances
  BY CallStepTypes DEF IInv
<1>2. TypeOK'
  BY <1>1 DEF IInv, TypeOK
<1>3. Rest'
  BY QuietStep
<1> QED  BY <1>2, <1>3 DEF IInv

LEMMA SaveDBStep == ASSUME IInv, NEW r \in Requests, SaveDB(r) PROVE IInv'
<1> DEFINE x == Call("saving", calls[r].db, tables[calls[r].db])
<1>1. /\ calls[r].phase = "bound"
      /\ calls' = [calls EXCEPT ![r] = x]
      /\ UNCHANGED <<server, loadOnStartup, isolation, created, current, tables, files, faults, spoiled>>
  BY DEF SaveDB
<1>2. calls[r].db \in Instances /\ tables[calls[r].db] \in SUBSET Rows
  BY <1>1, BoundFacts, RequestsCall DEF IInv
<1>3. x \in CallType /\ x.phase = "saving" /\ x.db = calls[r].db
  <2>1. calls[r].db \in 0 .. MaxInstances
    BY <1>2, InstancesFacts
  <2> QED  BY <2>1, <1>2, PhaseFacts, CallFacts
<1> HIDE DEF x
<1>4. /\ server' \in {"stopped", "starting", "serving", "failed"}
      /\ faults' \in 0 .. MaxFaults
      /\ tables' \in [Instances -> SUBSET Rows]
  BY <1>1 DEF IInv, TypeOK
<1> QED  BY <1>1, <1>2, <1>3, <1>4, PhaseStep, RequestsCall

LEMMA LoadDBStep == ASSUME IInv, NEW r \in Requests, LoadDB(r) PROVE IInv'
<1> DEFINE x == Call("opening", calls[r].db, {})
<1>1. /\ calls[r].phase = "bound"
      /\ calls' = [calls EXCEPT ![r] = x]
      /\ UNCHANGED <<server, loadOnStartup, isolation, created, current, tables, files, faults, spoiled>>
  BY DEF LoadDB
<1>2. calls[r].db \in Instances
  BY <1>1, BoundFacts, RequestsCall DEF IInv
<1>3. x \in CallType /\ x.phase = "opening" /\ x.db = calls[r].db
  <2>1. calls[r].db \in 0 .. MaxInstances
    BY <1>2, InstancesFacts
  <2> QED  BY <2>1, <1>2, PhaseFacts, CallFacts
<1> HIDE DEF x
<1>4. /\ server' \in {"stopped", "starting", "serving", "failed"}
      /\ faults' \in 0 .. MaxFaults
      /\ tables' \in [Instances -> SUBSET Rows]
  BY <1>1 DEF IInv, TypeOK
<1> QED  BY <1>1, <1>2, <1>3, <1>4, PhaseStep, RequestsCall

LEMMA AfterLoadFacts ==
  ASSUME TypeOK, NEW c \in Callers, NEW loaded \in BOOLEAN, AfterLoad(c, loaded)
  PROVE  server' \in {"stopped", "starting", "serving", "failed"}
<1>1. \A b : NotListening(b) \subseteq {"failed", "stopped"}
  BY DEF NotListening
<1>2. server' \in {server, "serving"} \cup NotListening(isolation)
  BY Zenon DEF AfterLoad
<1> QED  BY <1>1, <1>2 DEF TypeOK

\* What a load installs is a set of rows.
LEMMA InstallStep ==
  ASSUME IInv, NEW c \in Callers, NEW read \in SUBSET Rows, Install(c, read),
         calls[c].phase \in {"opening", "reading"},
         UNCHANGED <<loadOnStartup, isolation, created, current, files, faults, spoiled>>
  PROVE  IInv'
<1>1. /\ calls' = [calls EXCEPT ![c] = Idle]
      /\ tables' = [tables EXCEPT ![calls[c].db] = read]
      /\ AfterLoad(c, TRUE)
  BY DEF Install, Answer
<1>2. server' \in {"stopped", "starting", "serving", "failed"}
  BY <1>1, AfterLoadFacts DEF IInv
<1>3. tables' \in [Instances -> SUBSET Rows] /\ faults' \in 0 .. MaxFaults
  BY <1>1 DEF IInv, TypeOK
<1> QED  BY <1>1, <1>2, <1>3, IdleFacts, PhaseStep

LEMMA ReadGarbageStep == ASSUME IInv, NEW c \in Callers, ReadGarbage(c) PROVE IInv'
<1>1. /\ calls[c].phase = "reading"
      /\ calls' = [calls EXCEPT ![c] = Idle]
      /\ AfterLoad(c, FALSE)
      /\ UNCHANGED <<loadOnStartup, isolation, created, current, tables, files, faults, spoiled>>
  BY DEF ReadGarbage, Answer
<1>2. server' \in {"stopped", "starting", "serving", "failed"}
  BY <1>1, AfterLoadFacts DEF IInv
<1>3. tables' \in [Instances -> SUBSET Rows] /\ faults' \in 0 .. MaxFaults
  BY <1>1 DEF IInv, TypeOK
<1> QED  BY <1>1, <1>2, <1>3, IdleFacts, PhaseStep

LEMMA LoadInstalls ==
  ASSUME IInv, NEW c \in Callers, OpenMissing(c) \/ Read(c)
  PROVE  IInv'
<1>1. CASE OpenMissing(c)
  BY <1>1, InstallStep DEF OpenMissing
<1>2. CASE Read(c)
  <2>1. files[PathOf(calls[c].db)].text \in SUBSET Rows
    BY CallerFacts DEF IInv, FileType
  <2> QED  BY <1>2, <2>1, InstallStep DEF Read
<1> QED  BY <1>1, <1>2

LEMMA OpenForReadingStep ==
  ASSUME IInv, NEW c \in Callers, OpenForReading(c)
  PROVE  IInv'
<1> DEFINE p == PathOf(calls[c].db)
           x == Reading(calls[c].db, files[p].length, Writers(p) # {})
<1>1. /\ calls[c].phase = "opening" /\ files[p].exists
      /\ calls' = [calls EXCEPT ![c] = x]
      /\ UNCHANGED <<server, loadOnStartup, isolation, created, current, tables, files, faults, spoiled>>
  BY DEF OpenForReading
<1>2. calls[c].db \in Instances /\ calls[c].db \in 0 .. MaxInstances /\ files[p].length \in Nat
      /\ p \in Paths
  BY <1>1, BoundFacts, CallerFacts, PathFacts DEF IInv, FileType
<1>3. /\ x \in CallType /\ x.phase = "reading" /\ x.db = calls[c].db
      /\ x.size = files[p].length /\ (~x.met => Writers(p) = {})
  BY <1>2, PhaseFacts DEF Reading, CallType
<1> HIDE DEF x
<1>4. TypeOK'
  <2>1. /\ calls' \in [Callers -> CallType]
        /\ \A d \in Callers : calls'[d].phase # "idle" => calls'[d].db \in Instances
    BY <1>1, <1>2, <1>3, CallStepTypes DEF IInv
  <2> QED  BY <2>1, <1>1 DEF IInv, TypeOK
<1>5. /\ calls'[c] = x
      /\ \A d \in Callers \ {c} : calls'[d] = calls[d]
      /\ \A q \in Paths : Writers(q)' = Writers(q)
  BY <1>1, <1>3, SameWriters DEF IInv
<1>6. LoneSavesAreWhole' /\ WritersFit' /\ FilesFit'
  BY <1>1, <1>5 DEF IInv, Rest, LoneSavesAreWhole, WritersFit, FilesFit
<1>7. ReadersFit'
  <2> SUFFICES ASSUME NEW d \in Callers, NEW q \in Paths,
                      calls'[d].phase = "reading", q = PathOf(calls'[d].db)
               PROVE  /\ files'[q].exists
                      /\ ~calls'[d].met => Writers(q)' = {} /\ calls'[d].size = files'[q].length
    BY DEF ReadersFit
  <2>1. CASE d = c
    BY <2>1, <1>1, <1>2, <1>3, <1>5
  <2>2. CASE d # c
    BY <2>2, <1>1, <1>5, PathFacts DEF IInv, Rest, ReadersFit
  <2> QED  BY <2>1, <2>2
<1>8. StartupLoads'
  BY <1>3, <1>5, RequestsCall DEF IInv, Rest, StartupLoads
<1> QED  BY <1>4, <1>6, <1>7, <1>8 DEF IInv, Rest

\* What the opening of a file for writing makes of the call of d.
Opened(r, d) ==
  IF d = r THEN Call("writing", calls[d].db, calls[d].snapshot)
  ELSE IF calls[d].phase = "reading" /\ PathOf(calls[d].db) = PathOf(calls[r].db)
       THEN Reading(calls[d].db, calls[d].size, TRUE)
       ELSE calls[d]

LEMMA OpenedFacts ==
  ASSUME TypeOK, NEW r \in Requests, calls[r].phase = "saving", NEW d \in Callers
  PROVE  /\ Opened(r, d) \in CallType
         /\ Opened(r, d).db = calls[d].db
         /\ d = r => Opened(r, d).phase = "writing" /\ Opened(r, d).snapshot = calls[d].snapshot
         /\ d # r => Opened(r, d).phase = calls[d].phase
         /\ d # r /\ calls[d].phase # "reading" => Opened(r, d) = calls[d]
         /\ d # r /\ PathOf(calls[d].db) # PathOf(calls[r].db) => Opened(r, d) = calls[d]
         /\ d # r /\ calls[d].phase = "reading" /\ PathOf(calls[d].db) = PathOf(calls[r].db)
              => Opened(r, d).met
<1>1. /\ calls[d] \in CallType /\ calls[d].db \in 0 .. MaxInstances
      /\ calls[d].snapshot \in SUBSET Rows /\ calls[d].size \in Nat
  BY CallerFacts
<1>2. CASE d = r
  <2>1. Opened(r, d) = Call("writing", calls[d].db, calls[d].snapshot)
    BY <1>2 DEF Opened
  <2> QED  BY <2>1, <1>1, <1>2, CallFacts, PhaseFacts
<1>3. CASE d # r /\ calls[d].phase = "reading" /\ PathOf(calls[d].db) = PathOf(calls[r].db)
  <2>1. Opened(r, d) = Reading(calls[d].db, calls[d].size, TRUE)
    BY <1>3 DEF Opened
  <2> QED  BY <2>1, <1>1, <1>3, PhaseFacts DEF Reading, CallType
<1>4. CASE d # r /\ ~(calls[d].phase = "reading" /\ PathOf(calls[d].db) = PathOf(calls[r].db))
  BY <1>1, <1>4 DEF Opened
<1> QED  BY <1>2, <1>3, <1>4

LEMMA OpenForWritingStep ==
  ASSUME IInv, NEW r \in Requests, OpenForWriting(r)
  PROVE  IInv'
<1>0. PICK p \in Paths : p = PathOf(calls[r].db)
  BY PathFacts
<1>1. /\ calls[r].phase = "saving"
      /\ files' = [files EXCEPT ![p] = Truncated]
      /\ calls' = [d \in Callers |-> Opened(r, d)]
      /\ spoiled' = [spoiled EXCEPT ![p] = Writers(p) # {}]
      /\ UNCHANGED <<server, loadOnStartup, isolation, created, current, tables, faults>>
  BY <1>0 DEF OpenForWriting, OpenedForWriting, Opened
<1>2. r \in Callers
  BY RequestsCall
<1>3. \A d \in Callers :
        /\ calls'[d] = Opened(r, d)
        /\ calls'[d].db = calls[d].db
        /\ d = r => calls'[d].phase = "writing"
        /\ d # r => calls'[d].phase = calls[d].phase
  BY <1>1, OpenedFacts DEF IInv
<1>4. TypeOK'
  <2>1. calls' \in [Callers -> CallType]
    BY <1>1, OpenedFacts DEF IInv
  <2>2. \A d \in Callers : calls'[d].phase # "idle" => calls'[d].db \in Instances
    BY <1>1, <1>3 DEF IInv, TypeOK
  <2>3. files' \in [Paths -> FileType]
    BY <1>1, FileFacts DEF IInv, TypeOK
  <2>4. spoiled' \in [Paths -> BOOLEAN]
    BY <1>1 DEF IInv, TypeOK
  <2> QED  BY <2>1, <2>2, <2>3, <2>4, <1>1 DEF IInv, TypeOK
<1>5. Writers(p)' = Writers(p) \cup {r}
  BY <1>0, <1>2, <1>3 DEF Writers
<1>6. \A q \in Paths \ {p} : Writers(q)' = Writers(q) /\ files'[q] = files[q]
                             /\ spoiled'[q] = spoiled[q]
  <2>1. \A q \in Paths \ {p} : Writers(q)' = Writers(q)
    BY <1>0, <1>2, <1>3 DEF Writers
  <2> QED  BY <2>1, <1>1 DEF IInv, TypeOK
<1>7. files'[p] = Truncated /\ (~spoiled'[p] => Writers(p) = {})
  BY <1>1, <1>2 DEF IInv, TypeOK
<1>8. LoneSavesAreWhole'
  <2> SUFFICES ASSUME NEW q \in Paths, files'[q].exists, Writers(q)' = {}, ~spoiled'[q]
               PROVE  Whole(files'[q])
    BY DEF LoneSavesAreWhole, Whole
  <2>1. q # p
    BY <1>5
  <2> QED  BY <2>1, <1>6 DEF IInv, Rest, LoneSavesAreWhole
<1>9. WritersFit'
  <2> SUFFICES ASSUME NEW q \in Paths, ~spoiled'[q], NEW d \in Writers(q)', NEW e \in Writers(q)'
               PROVE  d = e /\ files'[q] = Truncated
    BY DEF WritersFit
  <2>1. CASE q = p
    BY <2>1, <1>5, <1>7
  <2>2. CASE q # p
    BY <2>2, <1>6 DEF IInv, Rest, WritersFit
  <2> QED  BY <2>1, <2>2
<1>10. ReadersFit'
  <2> SUFFICES ASSUME NEW d \in Callers, NEW q \in Paths,
                      calls'[d].phase = "reading", q = PathOf(calls'[d].db)
               PROVE  /\ files'[q].exists
                      /\ ~calls'[d].met => Writers(q)' = {} /\ calls'[d].size = files'[q].length
    BY DEF ReadersFit
  <2>1. d # r /\ calls[d].phase = "reading"
    BY <1>3
  <2>2. CASE PathOf(calls[d].db) = p
    BY <2>1, <2>2, <1>0, <1>1, <1>3, <1>7, FileFacts, OpenedFacts DEF IInv
  <2>3. CASE PathOf(calls[d].db) # p
    <3>1. calls'[d] = calls[d]
      BY <2>1, <2>3, <1>0, <1>1, <1>3, OpenedFacts DEF IInv
    <3> QED  BY <3>1, <2>1, <2>3, <1>6, PathFacts DEF IInv, Rest, ReadersFit
  <2> QED  BY <2>2, <2>3
<1>11. FilesFit'
  BY <1>6, <1>7, FileFacts DEF IInv, Rest, FilesFit
<1>12. StartupLoads'
  BY <1>3, RequestsCall DEF IInv, Rest, StartupLoads
<1> QED  BY <1>4, <1>8, <1>9, <1>10, <1>11, <1>12 DEF IInv, Rest

\* A save that ends, well or not: it is no writer any more.
LEMMA WriterLeaves ==
  ASSUME TypeOK, NEW c \in Callers, calls[c].phase = "writing",
         calls' = [calls EXCEPT ![c] = Idle]
  PROVE  /\ calls'[c] = Idle
         /\ \A d \in Callers \ {c} : calls'[d] = calls[d]
         /\ \A p \in Paths : Writers(p)' = Writers(p) \ {c}
<1>1. calls'[c] = Idle /\ \A d \in Callers \ {c} : calls'[d] = calls[d]
  BY DEF TypeOK
<1>2. ASSUME NEW p \in Paths PROVE Writers(p)' = Writers(p) \ {c}
  BY <1>1, IdleFacts DEF Writers
<1> QED  BY <1>1, <1>2

LEMMA WriteStep == ASSUME IInv, NEW r \in Requests, Write(r) PROVE IInv'
<1>0. PICK p \in Paths : p = PathOf(calls[r].db)
  BY PathFacts
<1>1. PICK file \in FileType : file = Written(files[p], calls[r].snapshot)
  BY CallerFacts, RequestsCall, WrittenFacts DEF IInv, TypeOK
<1>2. /\ calls[r].phase = "writing"
      /\ files' = [files EXCEPT ![p] = file]
      /\ calls' = [calls EXCEPT ![r] = Idle]
      /\ UNCHANGED <<server, loadOnStartup, isolation, created, current, tables, faults, spoiled>>
  BY <1>0, <1>1 DEF Write, Text, Answer
<1>3. /\ file.exists /\ file.length \in Nat \ {0}
      /\ files[p].length = 0 => Whole(file)
  BY <1>1, CallerFacts, RequestsCall, WrittenFacts DEF IInv, TypeOK
<1>4. /\ calls'[r] = Idle
      /\ \A d \in Callers \ {r} : calls'[d] = calls[d]
      /\ \A q \in Paths : Writers(q)' = Writers(q) \ {r}
  BY <1>2, WriterLeaves, RequestsCall DEF IInv
<1>5. files'[p] = file /\ \A q \in Paths \ {p} : files'[q] = files[q]
  BY <1>2 DEF IInv, TypeOK
<1>6. /\ r \in Writers(p)
      /\ \A q \in Paths \ {p} : Writers(q)' = Writers(q)
  BY <1>0, <1>2, <1>4, RequestsCall DEF Writers
<1>7. TypeOK'
  <2>1. calls' \in [Callers -> CallType] /\ files' \in [Paths -> FileType]
    BY <1>2, IdleFacts DEF IInv, TypeOK
  <2>2. \A d \in Callers : calls'[d].phase # "idle" => calls'[d].db \in Instances
    BY <1>4, IdleFacts DEF IInv, TypeOK
  <2> QED  BY <2>1, <2>2, <1>2 DEF IInv, TypeOK
<1>8. LoneSavesAreWhole'
  <2> SUFFICES ASSUME NEW q \in Paths, files'[q].exists, Writers(q)' = {}, ~spoiled'[q]
               PROVE  Whole(files'[q])
    BY DEF LoneSavesAreWhole, Whole
  <2>1. CASE q = p
    <3>1. files[p] = Truncated
      BY <2>1, <1>2, <1>6 DEF IInv, Rest, WritersFit
    <3> QED  BY <2>1, <3>1, <1>3, <1>5, FileFacts
  <2>2. CASE q # p
    BY <2>2, <1>2, <1>5, <1>6 DEF IInv, Rest, LoneSavesAreWhole
  <2> QED  BY <2>1, <2>2
<1>9. WritersFit'
  <2> SUFFICES ASSUME NEW q \in Paths, ~spoiled'[q], NEW d \in Writers(q)', NEW e \in Writers(q)'
               PROVE  d = e /\ files'[q] = Truncated
    BY DEF WritersFit
  <2>1. CASE q = p
    BY <2>1, <1>2, <1>4, <1>6 DEF IInv, Rest, WritersFit
  <2>2. CASE q # p
    BY <2>2, <1>2, <1>5, <1>6 DEF IInv, Rest, WritersFit
  <2> QED  BY <2>1, <2>2
<1>10. ReadersFit'
  <2> SUFFICES ASSUME NEW d \in Callers, NEW q \in Paths,
                      calls'[d].phase = "reading", q = PathOf(calls'[d].db)
               PROVE  /\ files'[q].exists
                      /\ ~calls'[d].met => Writers(q)' = {} /\ calls'[d].size = files'[q].length
    BY DEF ReadersFit
  <2>1. d # r /\ calls'[d] = calls[d]
    BY <1>4, IdleFacts
  <2>2. CASE q = p
    BY <2>1, <2>2, <1>3, <1>5, <1>6 DEF IInv, Rest, ReadersFit
  <2>3. CASE q # p
    BY <2>1, <2>3, <1>5, <1>6 DEF IInv, Rest, ReadersFit
  <2> QED  BY <2>2, <2>3
<1>11. FilesFit'
  BY <1>3, <1>5 DEF IInv, Rest, FilesFit
<1>12. StartupLoads'
  BY <1>4, RequestsCall DEF IInv, Rest, StartupLoads
<1> QED  BY <1>7, <1>8, <1>9, <1>10, <1>11, <1>12 DEF IInv, Rest

LEMMA OperationFailsStep ==
  ASSUME IInv, NEW c \in Callers, OperationFails(c)
  PROVE  IInv'
<1>0. PICK p \in Paths : p = PathOf(calls[c].db)
  BY PathFacts
<1>1. /\ calls[c].phase \in {"saving", "writing", "opening", "reading"}
      /\ faults < MaxFaults /\ faults' = faults + 1
      /\ calls' = [calls EXCEPT ![c] = Idle]
      /\ AfterLoad(c, FALSE)
      /\ UNCHANGED <<loadOnStartup, isolation, created, current, tables, files>>
  BY DEF OperationFails, Answer
<1>2. spoiled' = [spoiled EXCEPT ![p] = @ \/ calls[c].phase = "writing"]
  BY <1>0 DEF OperationFails
<1>3. server' \in {"stopped", "starting", "serving", "failed"}
  BY <1>1, AfterLoadFacts DEF IInv
<1>4. tables' \in [Instances -> SUBSET Rows] /\ faults' \in 0 .. MaxFaults
  BY <1>1, PersistenceAssumption DEF IInv, TypeOK
<1>5. CASE calls[c].phase # "writing"
  <2>1. spoiled' = spoiled
    BY <1>2, <1>5 DEF IInv, TypeOK
  <2> QED  BY <2>1, <1>1, <1>3, <1>4, <1>5, IdleFacts, PhaseStep
<1>6. CASE calls[c].phase = "writing"
  <2>1. /\ calls'[c] = Idle
        /\ \A d \in Callers \ {c} : calls'[d] = calls[d]
        /\ \A q \in Paths : Writers(q)' = Writers(q) \ {c}
    BY <1>1, <1>6, WriterLeaves DEF IInv
  <2>2. spoiled' \in [Paths -> BOOLEAN] /\ spoiled'[p]
        /\ \A q \in Paths \ {p} : spoiled'[q] = spoiled[q]
    BY <1>2, <1>6 DEF IInv, TypeOK
  <2>3. \A q \in Paths \ {p} : Writers(q)' = Writers(q)
    BY <1>0, <2>1 DEF Writers
  <2>4. TypeOK'
    <3>1. /\ calls' \in [Callers -> CallType]
          /\ \A d \in Callers : calls'[d].phase # "idle" => calls'[d].db \in Instances
      BY <1>1, IdleFacts, CallStepTypes DEF IInv
    <3> QED  BY <3>1, <2>2, <1>1, <1>3, <1>4 DEF IInv, TypeOK
  <2>5. LoneSavesAreWhole' /\ WritersFit'
    BY <1>1, <2>2, <2>3 DEF IInv, Rest, LoneSavesAreWhole, WritersFit
  <2>6. ReadersFit'
    <3> SUFFICES ASSUME NEW d \in Callers, NEW q \in Paths,
                        calls'[d].phase = "reading", q = PathOf(calls'[d].db)
                 PROVE  /\ files'[q].exists
                        /\ ~calls'[d].met => Writers(q)' = {} /\ calls'[d].size = files'[q].length
      BY DEF ReadersFit
    <3>1. d # c /\ calls'[d] = calls[d]
      BY <2>1, IdleFacts
    <3> QED  BY <3>1, <2>1, <1>1 DEF IInv, Rest, ReadersFit
  <2>7. FilesFit' /\ StartupLoads'
    BY <1>1, <2>1, IdleFacts DEF IInv, Rest, FilesFit, StartupLoads
  <2> QED  BY <2>4, <2>5, <2>6, <2>7 DEF IInv, Rest
<1> QED  BY <1>5, <1>6

-----------------------------------------------------------------------------
(* The invariant, and what it says *)

LEMMA NextStep == ASSUME IInv, Next PROVE IInv'
<1>1. CASE Start \/ Crash \/ LoseSession
  BY <1>1, StartStep, CrashStep, LoseSessionStep
<1>2. ASSUME NEW r \in Requests, Request(r) PROVE IInv'
  <2>1. ASSUME NEW row \in Rows, CreateOrUpdate(r, row) \/ Delete(r, row) PROVE IInv'
    <3>1. calls[r].phase = "bound"
      BY <2>1 DEF CreateOrUpdate, Delete, Edit
    <3>2. tables[calls[r].db] \in SUBSET Rows
      BY <3>1, BoundFacts, RequestsCall DEF IInv
    <3>3. CASE CreateOrUpdate(r, row)
      <4>1. (Without(calls[r].db, row) \cup {row}) \in SUBSET Rows
        BY <3>2 DEF Without
      <4> QED  BY <3>3, <4>1, EditStep DEF CreateOrUpdate
    <3>4. CASE Delete(r, row)
      <4>1. Without(calls[r].db, row) \in SUBSET Rows
        BY <3>2 DEF Without
      <4> QED  BY <3>4, <4>1, EditStep DEF Delete
    <3> QED  BY <2>1, <3>3, <3>4
  <2>2. CASE DeleteAll(r)
    <3>1. {} \in SUBSET Rows
      OBVIOUS
    <3> QED  BY <2>2, <3>1, EditStep DEF DeleteAll
  <2>3. CASE Arrive(r) \/ SaveDB(r) \/ LoadDB(r)
    BY <2>3, ArriveStep, SaveDBStep, LoadDBStep
  <2>4. CASE OpenForWriting(r) \/ Write(r)
    BY <2>4, OpenForWritingStep, WriteStep
  <2> QED  BY <1>2, <2>1, <2>2, <2>3, <2>4 DEF Request
<1>3. ASSUME NEW c \in Callers, Load(c) \/ OperationFails(c) PROVE IInv'
  BY <1>3, LoadInstalls, OpenForReadingStep, ReadGarbageStep, OperationFailsStep DEF Load
<1> QED  BY <1>1, <1>2, <1>3 DEF Next

LEMMA Stutter == ASSUME IInv, UNCHANGED vars PROVE IInv'
<1>1. UNCHANGED <<server, loadOnStartup, isolation, created, current, tables, files, calls, faults, spoiled>>
  BY DEF vars
<1>2. TypeOK'
  BY <1>1 DEF IInv, TypeOK
<1>3. \A p \in Paths : Writers(p)' = Writers(p)
  BY <1>1 DEF Writers
<1>4. LoneSavesAreWhole' /\ WritersFit' /\ FilesFit' /\ StartupLoads'
  BY <1>1, <1>3 DEF IInv, Rest, LoneSavesAreWhole, WritersFit, FilesFit, StartupLoads
<1>5. ReadersFit'
  BY <1>1, <1>3 DEF IInv, Rest, ReadersFit
<1> QED  BY <1>2, <1>4, <1>5 DEF IInv, Rest

\* The inductive invariant: every reachable state has only the overlaps of
\* saveDB and loadDB that the history variables admit.
THEOREM Invariance == Spec => []IInv
<1>1. Init => IInv
  BY Initial
<1>2. IInv /\ [Next]_vars => IInv'
  BY NextStep, Stutter
<1> QED  BY <1>1, <1>2, PTL DEF Spec

\* The variables keep their types, and a call that waits is bound to a database
\* that was made.
THEOREM TypeCorrect == Spec => []TypeOK
<1>1. IInv => TypeOK
  BY DEF IInv
<1> QED  BY <1>1, Invariance, PTL

\* A save (src/src/db.ts, saveDB) that is alone with its path leaves a whole file.
THEOREM LoneSavesWhole == Spec => []LoneSavesAreWhole
<1>1. IInv => LoneSavesAreWhole
  BY DEF IInv, Rest
<1> QED  BY <1>1, Invariance, PTL

\* loadDB (src/src/db.ts) fails to parse only what overlapping or broken saves
\* left, or a file that a save opened during the load.
THEOREM UnreadableNeedsReason == Spec => []UnreadableForAReason
<1>1. IInv => UnreadableForAReason
  <2> SUFFICES ASSUME IInv, NEW c \in Callers, calls[c].phase = "reading",
                      ~spoiled[PathOf(calls[c].db)], ~calls[c].met
               PROVE  Parses(c)
    BY DEF UnreadableForAReason
  <2>1. PICK p \in Paths : p = PathOf(calls[c].db)
    BY PathFacts
  <2>2. files[p].exists /\ Writers(p) = {} /\ calls[c].size = files[p].length
    BY <2>1 DEF IInv, Rest, ReadersFit
  <2>3. files[p].length = TextLength[files[p].text]
    BY <2>1, <2>2 DEF IInv, Rest, LoneSavesAreWhole, Whole
  <2>4. LengthRead(c) = files[p].length
    BY <2>1, <2>2 DEF LengthRead, Smaller
  <2> QED  BY <2>1, <2>3, <2>4 DEF Parses
<1> QED  BY <1>1, Invariance, PTL

-----------------------------------------------------------------------------
(* CmsPersistence implements BackupPromise: every step of the requests, the    *)
(* loads, the failing operations and the crashes is a step of the promise or   *)
(* leaves memory, files and pending saves as they are.                         *)

\* The state of the promise that a state of CmsPersistence stands for.
Disk == [p \in Paths |-> StoredIn(files[p])]
Pending == [p \in Paths |-> Asked(p)]
promised == <<tables, Disk, Pending>>

SavePhases == {"saving", "writing"}

-----------------------------------------------------------------------------
(* The files *)

LEMMA StoredFacts ==
  /\ StoredIn(NoFile) = Promise!Nothing
  /\ StoredIn(Truncated) = Promise!Lost
  /\ \A file \in FileType :
       file.exists /\ file.length # 0 => StoredIn(file) = Promise!Holding(file.text)
BY DEF StoredIn, NoFile, Truncated, FileType, Promise!Nothing, Promise!Lost, Promise!Holding

LEMMA DiskSame == ASSUME files' = files PROVE Disk' = Disk
BY DEF Disk

LEMMA DiskChange ==
  ASSUME TypeOK, NEW p \in Paths, NEW file, files' = [files EXCEPT ![p] = file]
  PROVE  Disk' = [Disk EXCEPT ![p] = StoredIn(file)]
<1>1. files'[p] = file /\ \A q \in Paths \ {p} : files'[q] = files[q]
  BY DEF TypeOK
<1>2. \A q \in Paths : Disk'[q] = IF q = p THEN StoredIn(file) ELSE Disk[q]
  BY <1>1 DEF Disk
<1> QED  BY <1>2 DEF Disk

-----------------------------------------------------------------------------
(* The saves that are under way *)

LEMMA AskedMembers ==
  ASSUME NEW p, NEW rows
  PROVE  /\ rows \in Asked(p) <=>
              \E c \in Callers : /\ calls[c].phase \in SavePhases
                                 /\ PathOf(calls[c].db) = p /\ rows = calls[c].snapshot
         /\ rows \in Asked(p)' <=>
              \E c \in Callers : /\ calls'[c].phase \in SavePhases
                                 /\ PathOf(calls'[c].db) = p /\ rows = calls'[c].snapshot
BY DEF Asked, SavePhases

\* Calls that are no saves, before or after, ask for nothing.
LEMMA PendingSame ==
  ASSUME \A d \in Callers :
           \/ calls'[d] = calls[d]
           \/ /\ calls[d].phase \notin SavePhases
              /\ calls'[d].phase \notin SavePhases
           \/ /\ calls[d].phase \in SavePhases /\ calls'[d].phase \in SavePhases
              /\ calls'[d].db = calls[d].db /\ calls'[d].snapshot = calls[d].snapshot
  PROVE  Pending' = Pending
<1>1. ASSUME NEW p, NEW rows PROVE rows \in Asked(p)' <=> rows \in Asked(p)
  BY AskedMembers
<1>2. ASSUME NEW p PROVE Asked(p)' = Asked(p)
  BY <1>1 DEF Asked
<1> QED  BY <1>2 DEF Pending

LEMMA PendingMore ==
  ASSUME TypeOK, NEW c \in Callers, NEW x \in CallType, NEW p \in Paths,
         calls' = [calls EXCEPT ![c] = x],
         calls[c].phase \notin SavePhases, x.phase = "saving", PathOf(x.db) = p
  PROVE  Pending' = [Pending EXCEPT ![p] = @ \cup {x.snapshot}]
<1>1. calls'[c] = x /\ \A d \in Callers \ {c} : calls'[d] = calls[d]
  BY DEF TypeOK
<1>2. ASSUME NEW q, NEW rows
      PROVE  rows \in Asked(q)' <=> rows \in Asked(q) \/ (q = p /\ rows = x.snapshot)
  <2>1. x.phase \in SavePhases
    BY DEF SavePhases
  <2> QED  BY <1>1, <2>1, AskedMembers
<1>3. Asked(p)' = Asked(p) \cup {x.snapshot}
  BY <1>2
<1>4. ASSUME NEW q, q # p PROVE Asked(q)' = Asked(q)
  BY <1>2, <1>4 DEF Asked
<1> QED  BY <1>3, <1>4 DEF Pending

\* When a save ends, another one of the same rows may still be under way.
LEMMA PendingLess ==
  ASSUME TypeOK, NEW c \in Callers, NEW p \in Paths,
         calls' = [calls EXCEPT ![c] = Idle],
         calls[c].phase \in SavePhases, PathOf(calls[c].db) = p
  PROVE  /\ calls[c].snapshot \in Pending[p]
         /\ \E rest \in {Pending[p], Pending[p] \ {calls[c].snapshot}} :
              Pending' = [Pending EXCEPT ![p] = rest]
<1> DEFINE mine == calls[c].snapshot
<1>1. calls'[c] = Idle /\ \A d \in Callers \ {c} : calls'[d] = calls[d]
  BY DEF TypeOK
<1>2. Idle.phase \notin SavePhases
  BY IdleFacts DEF SavePhases
<1>3. ASSUME NEW q, NEW rows
      PROVE  /\ rows \in Asked(q)' => rows \in Asked(q)
             /\ rows \in Asked(q) => rows \in Asked(q)' \/ (q = p /\ rows = mine)
  BY <1>1, <1>2, AskedMembers
<1>4. mine \in Asked(p)
  BY AskedMembers
<1>5. Asked(p)' \in {Asked(p), Asked(p) \ {mine}}
  <2>1. CASE mine \in Asked(p)'
    <3>1. Asked(p)' = Asked(p)
      BY <2>1, <1>3
    <3> QED  BY <3>1
  <2>2. CASE mine \notin Asked(p)'
    <3>1. Asked(p)' = Asked(p) \ {mine}
      BY <2>2, <1>3
    <3> QED  BY <3>1
  <2> QED  BY <2>1, <2>2
<1>6. ASSUME NEW q, q # p PROVE Asked(q)' = Asked(q)
  BY <1>3, <1>6 DEF Asked
<1>7. Pending' = [Pending EXCEPT ![p] = Asked(p)'] /\ Pending[p] = Asked(p)
  BY <1>6 DEF Pending
<1> QED  BY <1>4, <1>5, <1>7

-----------------------------------------------------------------------------
(* The steps *)

\* A step of one call that is no save touches neither files nor pending saves.
LEMMA NoSave ==
  ASSUME TypeOK, NEW c \in Callers, NEW x \in CallType,
         calls' = [calls EXCEPT ![c] = x],
         calls[c].phase \notin SavePhases, x.phase \notin SavePhases,
         files' = files
  PROVE  Disk' = Disk /\ Pending' = Pending
<1>1. calls'[c] = x /\ \A d \in Callers \ {c} : calls'[d] = calls[d]
  BY DEF TypeOK
<1> QED  BY <1>1, PendingSame, DiskSame

LEMMA PromiseInit == Init => Promise!Init
<1> SUFFICES ASSUME Init PROVE Promise!Init
  OBVIOUS
<1>1. \A p \in Paths : files[p] = NoFile /\ Asked(p) = {}
  <2>1. \A c \in Callers : calls[c].phase = "idle"
    BY IdleFacts DEF Init
  <2> QED  BY <2>1 DEF Init, Asked
<1>2. tables = [i \in Instances |-> {}]
  BY DEF Init
<1> QED  BY <1>1, <1>2, StoredFacts DEF Promise!Init

LEMMA StartKeeps == ASSUME IInv, Start PROVE UNCHANGED promised
<1> DEFINE x == Call("opening", DefaultDb, {})
<1>1. x \in CallType /\ x.phase = "opening"
  <2>1. DefaultDb \in 0 .. MaxInstances
    BY PersistenceAssumption DEF DefaultDb
  <2> QED  BY <2>1, PhaseFacts, CallFacts
<1>2. calls' \in {calls, [calls EXCEPT ![Startup] = x]} /\ UNCHANGED <<tables, files>>
  BY DEF Start
<1> HIDE DEF x
<1>3. calls[Startup].phase \notin SavePhases /\ x.phase \notin SavePhases
  BY <1>1 DEF IInv, Rest, StartupLoads, SavePhases
<1>4. CASE calls' = calls
  BY <1>2, <1>4, DiskSame, PendingSame DEF promised
<1>5. CASE calls' = [calls EXCEPT ![Startup] = x]
  BY <1>1, <1>2, <1>3, <1>5, NoSave, RequestsCall DEF IInv, promised
<1> QED  BY <1>2, <1>4, <1>5

LEMMA CrashRestarts == ASSUME IInv, Crash PROVE Promise!Restart
<1>1. /\ calls' = [c \in Callers |-> Idle] /\ files' = files
      /\ tables' = [i \in Instances |-> {}]
  BY DEF Crash
<1>2. \A p \in Paths : Asked(p)' = {}
  BY <1>1, IdleFacts DEF Asked
<1>3. Disk' = Disk
  BY <1>1, DiskSame
<1>4. Pending' = [p \in Paths |-> {}]
  BY <1>2 DEF Pending
<1> QED  BY <1>1, <1>3, <1>4 DEF Promise!Restart, Disk, Pending

LEMMA LoseSessionKeeps == ASSUME LoseSession PROVE UNCHANGED promised
<1>1. UNCHANGED <<tables, files, calls>>
  BY DEF LoseSession
<1>2. Disk' = Disk /\ Pending' = Pending
  BY <1>1, DiskSame, PendingSame
<1> QED  BY <1>1, <1>2 DEF promised

LEMMA ArriveKeeps == ASSUME IInv, NEW r \in Requests, Arrive(r) PROVE UNCHANGED promised
<1>1. PICK db \in Instances : calls' = [calls EXCEPT ![r] = Call("bound", db, {})]
  BY DEF Arrive
<1>2. PICK x \in CallType : x = Call("bound", db, {}) /\ x.phase = "bound"
  <2>1. db \in 0 .. MaxInstances
    BY InstancesFacts
  <2> QED  BY <2>1, PhaseFacts, CallFacts
<1>3. calls[r].phase = "idle" /\ UNCHANGED <<tables, files>>
  BY DEF Arrive
<1>4. Disk' = Disk /\ Pending' = Pending
  BY <1>1, <1>2, <1>3, NoSave, RequestsCall DEF IInv, SavePhases
<1> QED  BY <1>3, <1>4 DEF promised

LEMMA EditsAreEdits ==
  ASSUME IInv, NEW r \in Requests,
         (\E row \in Rows : CreateOrUpdate(r, row) \/ Delete(r, row)) \/ DeleteAll(r)
  PROVE  Promise!Next
<1>1. PICK rows :
        /\ Edit(r, rows)
        /\ \/ \E row \in Rows : \E put \in {{}, {row}} : rows = Without(calls[r].db, row) \cup put
           \/ rows = {}
  <2>1. ASSUME NEW row \in Rows, CreateOrUpdate(r, row)
        PROVE  Edit(r, Without(calls[r].db, row) \cup {row})
    BY <2>1 DEF CreateOrUpdate
  <2>2. ASSUME NEW row \in Rows, Delete(r, row)
        PROVE  Edit(r, Without(calls[r].db, row) \cup {})
    <3>1. Without(calls[r].db, row) \cup {} = Without(calls[r].db, row)
      OBVIOUS
    <3> QED  BY <2>2, <3>1 DEF Delete
  <2>3. DeleteAll(r) => Edit(r, {})
    BY DEF DeleteAll
  <2> QED  BY <2>1, <2>2, <2>3
<1>2. /\ calls[r].phase = "bound"
      /\ calls' = [calls EXCEPT ![r] = Idle]
      /\ tables' = [tables EXCEPT ![calls[r].db] = rows]
      /\ files' = files
  BY <1>1 DEF Edit, Answer
<1>3. PICK db \in Instances : db = calls[r].db
  BY <1>2, BoundFacts, RequestsCall DEF IInv
<1>4. Disk' = Disk /\ Pending' = Pending
  BY <1>2, IdleFacts, NoSave, RequestsCall DEF IInv, SavePhases
<1>5. Promise!Edit(db)
  <2>1. CASE rows = {}
    BY <1>2, <1>3, <1>4, <2>1 DEF Promise!Edit, Disk, Pending
  <2>2. ASSUME NEW row \in Rows, NEW put \in {{}, {row}}, rows = Without(db, row) \cup put
        PROVE  Promise!Edit(db)
    <3>1. tables' = [tables EXCEPT ![db] = {old \in @ : Item[old] # Item[row]} \cup put]
      BY <1>2, <1>3, <2>2 DEF Without
    <3> QED  BY <1>2, <1>4, <3>1 DEF Promise!Edit, Disk, Pending
  <2> QED  BY <1>1, <1>3, <2>1, <2>2
<1> QED  BY <1>5 DEF Promise!Next

LEMMA SaveDBAsks == ASSUME IInv, NEW r \in Requests, SaveDB(r) PROVE Promise!Next
<1>1. /\ calls[r].phase = "bound"
      /\ calls' = [calls EXCEPT ![r] = Call("saving", calls[r].db, tables[calls[r].db])]
      /\ UNCHANGED <<tables, files>>
  BY DEF SaveDB
<1>2. PICK db \in Instances : db = calls[r].db
  BY <1>1, BoundFacts, RequestsCall DEF IInv
<1>3. PICK p \in Paths : p = PathOf(db)
  BY PathFacts
<1>4. PICK x \in CallType :
        /\ x = Call("saving", db, tables[db])
        /\ x.phase = "saving" /\ x.db = db /\ x.snapshot = tables[db]
  <2>1. db \in 0 .. MaxInstances /\ tables[db] \in SUBSET Rows
    BY <1>1, <1>2, BoundFacts, RequestsCall, InstancesFacts DEF IInv
  <2> QED  BY <2>1, PhaseFacts, CallFacts
<1>5. Pending' = [Pending EXCEPT ![p] = @ \cup {tables[db]}]
  <2>1. calls' = [calls EXCEPT ![r] = x] /\ PathOf(x.db) = p
    BY <1>1, <1>2, <1>3, <1>4
  <2>2. calls[r].phase \notin SavePhases
    BY <1>1 DEF SavePhases
  <2>3. Pending' = [Pending EXCEPT ![p] = @ \cup {x.snapshot}]
    BY <1>4, <2>1, <2>2, PendingMore, RequestsCall DEF IInv
  <2> QED  BY <1>4, <2>3
<1>6. Disk' = Disk
  BY <1>1, DiskSame
<1>7. Promise!Ask(db)
  BY <1>1, <1>3, <1>5, <1>6 DEF Promise!Ask, Disk, Pending
<1> QED  BY <1>7 DEF Promise!Next

LEMMA OpeningLoses ==
  ASSUME IInv, NEW r \in Requests, OpenForWriting(r)
  PROVE  Promise!Next
<1>1. PICK p \in Paths : p = PathOf(calls[r].db)
  BY PathFacts
<1>2. /\ calls[r].phase = "saving"
      /\ files' = [files EXCEPT ![p] = Truncated]
      /\ calls' = [d \in Callers |-> Opened(r, d)]
      /\ tables' = tables
  BY <1>1 DEF OpenForWriting, OpenedForWriting, Opened
<1>3. \A d \in Callers :
        /\ d = r => calls'[d].phase = "writing" /\ calls'[d].snapshot = calls[d].snapshot
        /\ calls'[d].db = calls[d].db
        /\ d # r => calls'[d].phase = calls[d].phase
        /\ d # r /\ calls[d].phase # "reading" => calls'[d] = calls[d]
  BY <1>2, OpenedFacts DEF IInv
<1>4. Pending' = Pending
  BY <1>2, <1>3, PendingSame DEF SavePhases
<1>5. Disk' = [Disk EXCEPT ![p] = Promise!Lost]
  BY <1>2, StoredFacts, DiskChange DEF IInv
<1>6. Pending[p] # {}
  <2>1. calls[r].snapshot \in Asked(p)
    BY <1>1, <1>2, AskedMembers, RequestsCall DEF SavePhases
  <2> QED  BY <2>1 DEF Pending
<1>7. Promise!Lose(p)
  BY <1>2, <1>4, <1>5, <1>6 DEF Promise!Lose, Disk, Pending
<1> QED  BY <1>7 DEF Promise!Next

LEMMA WritesStore ==
  ASSUME IInv, NEW r \in Requests, Write(r)
  PROVE  Promise!Next
<1>1. PICK p \in Paths : p = PathOf(calls[r].db)
  BY PathFacts
<1>2. PICK rows \in SUBSET Rows : rows = calls[r].snapshot
  BY CallerFacts, RequestsCall DEF IInv
<1>3. PICK file \in FileType : file = Written(files[p], rows)
  BY WrittenFacts DEF IInv, TypeOK
<1>4. /\ calls[r].phase = "writing"
      /\ files' = [files EXCEPT ![p] = file]
      /\ calls' = [calls EXCEPT ![r] = Idle]
      /\ tables' = tables
  BY <1>1, <1>2, <1>3 DEF Write, Text, Answer
<1>5. StoredIn(file) = Promise!Holding(rows)
  <2>1. file.exists /\ file.length # 0 /\ file.text = rows
    BY <1>3, WrittenFacts DEF IInv, TypeOK
  <2> QED  BY <2>1, StoredFacts
<1>6. Disk' = [Disk EXCEPT ![p] = Promise!Holding(rows)]
  BY <1>4, <1>5, DiskChange DEF IInv
<1>7. /\ rows \in Pending[p]
      /\ \E rest \in {Pending[p], Pending[p] \ {rows}} : Pending' = [Pending EXCEPT ![p] = rest]
  BY <1>1, <1>2, <1>4, PendingLess, RequestsCall DEF IInv, SavePhases
<1>8. Promise!Store(p, rows)
  BY <1>4, <1>6, <1>7 DEF Promise!Store, Disk, Pending
<1> QED  BY <1>8 DEF Promise!Next

\* What is installed is what is stored, and stored it is.
LEMMA InstallsLoad ==
  ASSUME IInv, NEW c \in Callers, NEW read \in SUBSET Rows, NEW p \in Paths,
         p = PathOf(calls[c].db), calls[c].phase \in {"opening", "reading"},
         Install(c, read), files' = files,
         StoredIn(files[p]) # Promise!Lost, StoredIn(files[p]).rows = read
  PROVE  Promise!Next
<1>1. PICK db \in Instances : db = calls[c].db
  BY BoundFacts DEF IInv
<1>2. calls' = [calls EXCEPT ![c] = Idle] /\ tables' = [tables EXCEPT ![db] = read]
  BY <1>1 DEF Install, Answer
<1>3. Disk' = Disk /\ Pending' = Pending
  BY <1>2, IdleFacts, NoSave DEF IInv, SavePhases
<1>4. Promise!Load(db)
  BY <1>1, <1>2, <1>3 DEF Promise!Load, Disk, Pending
<1> QED  BY <1>4 DEF Promise!Next

LEMMA LoadsLoad ==
  ASSUME IInv, NEW c \in Callers, OpenMissing(c) \/ Read(c)
  PROVE  Promise!Next
<1>1. PICK p \in Paths : p = PathOf(calls[c].db)
  BY PathFacts
<1>2. CASE OpenMissing(c)
  <2>1. files[p] = NoFile /\ calls[c].phase = "opening" /\ Install(c, {}) /\ files' = files
    BY <1>1, <1>2 DEF OpenMissing, IInv, Rest, FilesFit
  <2>2. StoredIn(files[p]) # Promise!Lost /\ StoredIn(files[p]).rows = {}
    BY <2>1, StoredFacts DEF Promise!Nothing, Promise!Lost
  <2>3. {} \in SUBSET Rows
    OBVIOUS
  <2> QED  BY <1>1, <2>1, <2>2, <2>3, InstallsLoad
<1>3. CASE Read(c)
  <2>1. /\ calls[c].phase = "reading" /\ Parses(c)
        /\ Install(c, files[p].text) /\ files' = files
    BY <1>1, <1>3 DEF Read
  <2>2. files[p] \in FileType /\ calls[c].size \in Nat
    BY <1>1, CallerFacts DEF IInv
  <2>3. files[p].exists
    BY <1>1, <2>1 DEF IInv, Rest, ReadersFit
  <2>4. files[p].length # 0
    <3>1. TextLength[files[p].text] \in Nat \ {0}
      BY <2>2, PersistenceAssumption DEF FileType
    <3>2. LengthRead(c) = TextLength[files[p].text]
      BY <1>1, <2>1 DEF Parses
    <3>3. files[p].length \in Nat /\ (files[p].length = 0 => LengthRead(c) = 0)
      BY <1>1, <2>2 DEF LengthRead, Smaller, FileType
    <3> QED  BY <3>1, <3>2, <3>3
  <2>5. StoredIn(files[p]) = Promise!Holding(files[p].text)
    BY <2>2, <2>3, <2>4, StoredFacts
  <2>6. StoredIn(files[p]) # Promise!Lost /\ StoredIn(files[p]).rows = files[p].text
    BY <2>5 DEF Promise!Holding, Promise!Lost
  <2>7. files[p].text \in SUBSET Rows
    BY <2>2 DEF FileType
  <2> QED  BY <1>1, <2>1, <2>6, <2>7, InstallsLoad
<1> QED  BY <1>2, <1>3

LEMMA LoadsAsk ==
  ASSUME IInv, NEW c \in Callers,
         OpenForReading(c) \/ ReadGarbage(c) \/ (c \in Requests /\ LoadDB(c))
  PROVE  UNCHANGED promised
<1>1. CASE ReadGarbage(c)
  <2>1. /\ calls[c].phase = "reading" /\ calls' = [calls EXCEPT ![c] = Idle]
        /\ UNCHANGED <<tables, files>>
    BY <1>1 DEF ReadGarbage, Answer
  <2> QED  BY <2>1, IdleFacts, NoSave DEF IInv, SavePhases, promised
<1>2. CASE LoadDB(c)
  <2>1. /\ calls[c].phase = "bound" /\ calls' = [calls EXCEPT ![c] = Call("opening", calls[c].db, {})]
        /\ UNCHANGED <<tables, files>>
    BY <1>2 DEF LoadDB
  <2>2. PICK x \in CallType : x = Call("opening", calls[c].db, {}) /\ x.phase = "opening"
    BY CallerFacts, PhaseFacts, CallFacts DEF IInv
  <2> QED  BY <2>1, <2>2, NoSave DEF IInv, SavePhases, promised
<1>3. CASE OpenForReading(c)
  <2>1. PICK p \in Paths : p = PathOf(calls[c].db)
    BY PathFacts
  <2>2. PICK met \in BOOLEAN : met = (Writers(p) # {})
    BY Zenon
  <2>3. /\ calls[c].phase = "opening"
        /\ calls' = [calls EXCEPT ![c] = Reading(calls[c].db, files[p].length, met)]
        /\ UNCHANGED <<tables, files>>
    BY <1>3, <2>1, <2>2 DEF OpenForReading
  <2>4. PICK x \in CallType :
          x = Reading(calls[c].db, files[p].length, met) /\ x.phase = "reading"
    <3>1. calls[c].db \in 0 .. MaxInstances /\ files[p].length \in Nat
      BY <2>1, CallerFacts DEF IInv, FileType
    <3>2. /\ Reading(calls[c].db, files[p].length, met) \in CallType
          /\ Reading(calls[c].db, files[p].length, met).phase = "reading"
      BY <3>1, PhaseFacts DEF Reading, CallType
    <3> QED  BY <3>2
  <2>5. calls' = [calls EXCEPT ![c] = x]
    BY <2>3, <2>4
  <2> QED  BY <2>3, <2>4, <2>5, NoSave DEF IInv, SavePhases, promised
<1> QED  BY <1>1, <1>2, <1>3

LEMMA FailuresGiveUp ==
  ASSUME IInv, NEW c \in Callers, OperationFails(c)
  PROVE  Promise!Next \/ UNCHANGED promised
<1>1. /\ calls' = [calls EXCEPT ![c] = Idle]
      /\ UNCHANGED <<tables, files>>
  BY DEF OperationFails, Answer
<1>2. Disk' = Disk
  BY <1>1, DiskSame
<1>3. CASE calls[c].phase \in SavePhases
  <2>1. PICK p \in Paths : p = PathOf(calls[c].db)
    BY PathFacts
  <2>2. PICK rows \in SUBSET Rows : rows = calls[c].snapshot
    BY CallerFacts DEF IInv
  <2>3. /\ rows \in Pending[p]
        /\ \E rest \in {Pending[p], Pending[p] \ {rows}} : Pending' = [Pending EXCEPT ![p] = rest]
    BY <1>1, <1>3, <2>1, <2>2, PendingLess DEF IInv
  <2>4. CASE Pending' = [Pending EXCEPT ![p] = Pending[p]]
    <3>1. Pending' = Pending
      BY <2>4 DEF Pending
    <3> QED  BY <1>1, <1>2, <3>1 DEF promised
  <2>5. CASE Pending' = [Pending EXCEPT ![p] = Pending[p] \ {rows}]
    <3>1. Promise!GiveUp(p, rows)
      BY <1>1, <1>2, <2>3, <2>5 DEF Promise!GiveUp, Disk, Pending
    <3> QED  BY <3>1 DEF Promise!Next
  <2> QED  BY <2>3, <2>4, <2>5
<1>4. CASE calls[c].phase \notin SavePhases
  <2>1. Pending' = Pending
    BY <1>1, <1>4, IdleFacts, NoSave DEF IInv, SavePhases
  <2> QED  BY <1>1, <1>2, <2>1 DEF promised
<1> QED  BY <1>3, <1>4

LEMMA PromiseSteps ==
  ASSUME IInv, Next
  PROVE  Promise!Next \/ UNCHANGED promised
<1>1. CASE Start \/ Crash \/ LoseSession
  <2>1. Promise!Restart => Promise!Next
    BY DEF Promise!Next
  <2> QED  BY <1>1, <2>1, StartKeeps, CrashRestarts, LoseSessionKeeps
<1>2. ASSUME NEW r \in Requests, Request(r) PROVE Promise!Next \/ UNCHANGED promised
  <2>1. CASE Arrive(r) \/ LoadDB(r)
    BY <2>1, ArriveKeeps, LoadsAsk, RequestsCall
  <2>2. CASE (\E row \in Rows : CreateOrUpdate(r, row) \/ Delete(r, row)) \/ DeleteAll(r)
    BY <2>2, EditsAreEdits
  <2>3. CASE SaveDB(r) \/ OpenForWriting(r) \/ Write(r)
    BY <2>3, SaveDBAsks, OpeningLoses, WritesStore
  <2> QED  BY <1>2, <2>1, <2>2, <2>3 DEF Request
<1>3. ASSUME NEW c \in Callers, Load(c) \/ OperationFails(c)
      PROVE  Promise!Next \/ UNCHANGED promised
  BY <1>3, LoadsLoad, LoadsAsk, FailuresGiveUp DEF Load
<1> QED  BY <1>1, <1>2, <1>3 DEF Next

\* saveDB and loadDB (src/src/db.ts) implement BackupPromise: a load installs
\* what one save stored under its path, whatever overlaps, fails or crashes.
THEOREM KeepsBackups == Spec => BackupKept
<1>1. Init => Promise!Init
  BY PromiseInit
<1>2. IInv /\ [Next]_vars => [Promise!Next]_(Promise!vars)
  <2> SUFFICES ASSUME IInv, [Next]_vars PROVE Promise!Next \/ UNCHANGED promised
    BY DEF promised, Disk, Pending, Promise!vars
  <2>1. CASE UNCHANGED vars
    <3>1. UNCHANGED <<tables, files, calls>>
      BY <2>1 DEF vars
    <3>2. Disk' = Disk /\ Pending' = Pending
      BY <3>1, DiskSame, PendingSame
    <3> QED  BY <3>1, <3>2 DEF promised
  <2> QED  BY <2>1, PromiseSteps
<1> QED  BY <1>1, <1>2, Invariance, PTL DEF Spec, BackupKept, Promise!Spec

=============================================================================
