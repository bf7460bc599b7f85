------------------------- MODULE TaskLifecycleProofs -------------------------
(***************************************************************************)
(* Proofs about TaskLifecycle.  LifecycleInv is inductive.  Each action is *)
(* followed twice: what it leaves in the databases (TasksFit and the       *)
(* lemmas on what the code writes into a task), and what it does to the    *)
(* count of the executions of each task (Accounted).                       *)
(***************************************************************************)
EXTENDS TaskLifecycle, FiniteSetTheorems, TLAPS

LEMMA Constants ==
  /\ NoTask \notin Tasks
  /\ IsFiniteSet(Runs)
  /\ MaxEpochs \in Nat \ {0}
  /\ MaxCancels \in Nat
BY LifecycleAssumption

-----------------------------------------------------------------------------
(* What the code writes into a task keeps it a task whose fields fit. *)

Good(task) == task \in Task /\ Fits(task)

LEMMA ClampInRange == \A p \in Int : Clamp(p) \in 0 .. 100
BY DEF Clamp

LEMMA ReportsClamped == \A p \in Reports \cup {0} : Clamp(p) \in 0 .. 100
BY LifecycleAssumption, ClampInRange

LEMMA NewTaskGood == \A db \in 1 .. MaxEpochs : Good(NewTask(db))
BY DEF Good, Fits, NewTask, Task, TaskStatus, Pending, Running, Completed, Failed, Cancelled

LEMMA StatusKept ==
  \A task \in Task : \A status \in {Running, Completed, Cancelled} :
    Good(WithStatus(task, status)) /\ WithStatus(task, status).status = status
<1> SUFFICES ASSUME NEW task \in Task, NEW status \in {Running, Completed, Cancelled}
             PROVE  Good(WithStatus(task, status)) /\ WithStatus(task, status).status = status
  OBVIOUS
<1> DEFINE f == WithStatus(task, status)
<1>1. status \in TaskStatus
  BY DEF TaskStatus
<1>2. f \in Task /\ f.status = status
  BY <1>1 DEF WithStatus, Task
<1>3. (status = Running => f.startedAt) /\ (status = Completed => f.completedAt)
  BY DEF WithStatus
<1>4. status # Pending /\ status # Failed
  BY DEF Pending, Running, Completed, Failed, Cancelled
<1>. QED  BY <1>2, <1>3, <1>4 DEF Good, Fits

LEMMA ProgressKept ==
  \A task : \A p \in Reports \cup {0} :
    Good(task) => /\ Good(WithProgress(task, p))
                  /\ WithProgress(task, p).status = task.status
<1> SUFFICES ASSUME NEW task, NEW p \in Reports \cup {0}, Good(task)
             PROVE  /\ Good(WithProgress(task, p))
                    /\ WithProgress(task, p).status = task.status
  OBVIOUS
<1>1. Clamp(p) \in 0 .. 100
  BY ReportsClamped
<1>. QED  BY <1>1 DEF Good, Fits, WithProgress, Task

LEMMA DoneGood == \A task \in Task : Good(Done(task))
<1> SUFFICES ASSUME NEW task \in Task PROVE Good(Done(task))
  OBVIOUS
<1>1. Good(WithStatus(task, Completed))
  BY StatusKept
<1>2. Clamp(100) \in 0 .. 100
  BY ClampInRange
<1>. QED  BY <1>1, <1>2 DEF Done, Good, Fits, WithProgress, Task

LEMMA CrashedGood == \A task \in Task : Good(Crashed(task))
<1> SUFFICES ASSUME NEW task \in Task PROVE Good(Crashed(task))
  OBVIOUS
<1> DEFINE f == WithStatus(task, Failed)
           e == [f EXCEPT !.error = TRUE]
<1>1. f \in Task /\ f.status = Failed
  BY DEF WithStatus, Task, TaskStatus
<1>2. e \in Task /\ e.status = Failed /\ e.error
  BY <1>1 DEF Task
<1>3. Good(e)
  BY <1>2 DEF Good, Fits, Pending, Running, Completed, Failed
<1>4. Crashed(task) = WithProgress(e, 0)
  BY DEF Crashed
<1>. QED  BY <1>3, <1>4, ProgressKept

-----------------------------------------------------------------------------
(* The tasks in the databases. *)

\* Every task is one of the ids drawn, and fits.
TasksFit(map, ids) ==
  /\ DOMAIN map \subseteq ids
  /\ map \in [DOMAIN map -> Task]
  /\ \A t \in DOMAIN map : Fits(map[t])

LEMMA FitIsGood ==
  \A map, ids : TasksFit(map, ids) => \A t \in DOMAIN map : Good(map[t])
BY DEF TasksFit, Good

LEMMA StoreFits ==
  ASSUME NEW map, NEW ids, TasksFit(map, ids), NEW t, NEW task, Good(task)
  PROVE  TasksFit(Store(map, t, task), ids \cup {t})
BY DEF TasksFit, Good, Store

LEMMA UpdatedFits ==
  ASSUME NEW t \in issued, NEW task, TasksFit(tasks, issued),
         Found(t, epoch) => Good(task)
  PROVE  TasksFit(Updated(t, task), issued)
<1>1. issued \cup {t} = issued
  OBVIOUS
<1>. QED  BY <1>1, StoreFits DEF Updated

\* A task whose key is held is running.
Keyed(map, keys) == \A t \in keys \cap DOMAIN map : map[t].status = Running

LEMMA StoreKeyed ==
  \A map, keys, t, task :
    Keyed(map, keys) /\ (task.status = Running \/ t \notin keys) => Keyed(Store(map, t, task), keys)
BY DEF Keyed, Store

LEMMA UpdatedKeyed ==
  ASSUME NEW t, NEW task, NEW keys, Keyed(tasks, keys),
         Found(t, epoch) => task.status = Running \/ t \notin keys
  PROVE  Keyed(Updated(t, task), keys)
BY StoreKeyed DEF Updated

LEMMA FewerKeyed ==
  \A map, keys, fewer : Keyed(map, keys) /\ fewer \subseteq keys => Keyed(map, fewer)
BY DEF Keyed

-----------------------------------------------------------------------------
(* The executions in flight. *)

RunsIn(rs, t) == {s \in Runs : rs[s].task = t}

RunsFit(rs, ids) ==
  /\ rs \in [Runs -> Run \cup {NoRun}]
  /\ \A s \in Runs : rs[s] # NoRun => rs[s].task \in ids

\* A key has an execution, and the executions without a key were cancelled.
Accounted(rs, keys, cs) ==
  /\ \A t \in keys : RunsIn(rs, t) # {}
  /\ \A t \in Tasks :
       Cardinality(RunsIn(rs, t)) <= cs[t] + (IF t \in keys THEN 1 ELSE 0)

LEMMA RunsFinite ==
  \A rs, t : IsFiniteSet(RunsIn(rs, t)) /\ Cardinality(RunsIn(rs, t)) \in Nat
<1> SUFFICES ASSUME NEW rs, NEW t
             PROVE  IsFiniteSet(RunsIn(rs, t)) /\ Cardinality(RunsIn(rs, t)) \in Nat
  OBVIOUS
<1>1. RunsIn(rs, t) \subseteq Runs
  BY DEF RunsIn
<1>2. IsFiniteSet(RunsIn(rs, t))
  BY <1>1, Constants, FS_Subset
<1>. QED  BY <1>2, FS_CardinalityType

LEMMA StartAccounted ==
  ASSUME NEW rs, NEW ids, RunsFit(rs, ids), NEW keys \in SUBSET Tasks,
         NEW cs \in [Tasks -> Nat], Accounted(rs, keys, cs),
         NEW s \in Runs, rs[s] = NoRun, NEW t \in Tasks, t \notin keys, NEW p
  PROVE  Accounted([rs EXCEPT ![s] = [task |-> t, progress |-> p]], keys \cup {t}, cs)
<1> DEFINE new == [rs EXCEPT ![s] = [task |-> t, progress |-> p]]
<1>1. NoRun.task \notin Tasks
  BY Constants DEF NoRun
<1>2. /\ new[s].task = t
      /\ \A x \in Runs \ {s} : new[x] = rs[x]
  BY DEF RunsFit
<1> HIDE DEF new
<1>3. RunsIn(new, t) = RunsIn(rs, t) \cup {s}
  BY <1>2 DEF RunsIn
<1>4. s \notin RunsIn(rs, t)
  BY <1>1 DEF RunsIn
<1>5. Cardinality(RunsIn(new, t)) = Cardinality(RunsIn(rs, t)) + 1
  BY <1>3, <1>4, RunsFinite, FS_AddElement
<1>6. \A x \in Tasks \ {t} : RunsIn(new, x) = RunsIn(rs, x)
  BY <1>1, <1>2 DEF RunsIn
<1>7. \A x \in keys \cup {t} : RunsIn(new, x) # {}
  BY <1>3, <1>6 DEF Accounted
<1>8. ASSUME NEW x \in Tasks
      PROVE  Cardinality(RunsIn(new, x)) <= cs[x] + (IF x \in keys \cup {t} THEN 1 ELSE 0)
  <2>1. Cardinality(RunsIn(rs, x)) <= cs[x] + (IF x \in keys THEN 1 ELSE 0)
    BY DEF Accounted
  <2>2. cs[x] \in Nat /\ Cardinality(RunsIn(rs, x)) \in Nat
    BY RunsFinite
  <2>3. CASE x = t
    BY <1>5, <2>1, <2>2, <2>3
  <2>4. CASE x # t
    BY <1>6, <2>1, <2>2, <2>4
  <2>. QED  BY <2>3, <2>4
<1>. QED  BY <1>7, <1>8 DEF Accounted, new

LEMMA TurnAccounted ==
  ASSUME NEW rs, NEW ids, RunsFit(rs, ids), NEW keys, NEW cs, Accounted(rs, keys, cs),
         NEW s \in Runs, NEW p
  PROVE  Accounted([rs EXCEPT ![s] = [task |-> rs[s].task, progress |-> p]], keys, cs)
<1> DEFINE new == [rs EXCEPT ![s] = [task |-> rs[s].task, progress |-> p]]
<1>1. \A x \in Runs : new[x].task = rs[x].task
  BY DEF RunsFit
<1> HIDE DEF new
<1>2. \A t : RunsIn(new, t) = RunsIn(rs, t)
  BY <1>1 DEF RunsIn
<1>. QED  BY <1>2 DEF Accounted, new

LEMMA EndAccounted ==
  ASSUME NEW rs, NEW ids, RunsFit(rs, ids), NEW keys \in SUBSET Tasks,
         NEW cs \in [Tasks -> Nat], Accounted(rs, keys, cs),
         NEW s \in Runs, rs[s] # NoRun, NEW t \in Tasks, rs[s].task = t
  PROVE  Accounted([rs EXCEPT ![s] = NoRun], keys \ {t}, cs)
<1> DEFINE new == [rs EXCEPT ![s] = NoRun]
<1>1. NoRun.task \notin Tasks
  BY Constants DEF NoRun
<1>2. /\ new[s] = NoRun
      /\ \A x \in Runs \ {s} : new[x] = rs[x]
  BY DEF RunsFit
<1> HIDE DEF new
<1>3. RunsIn(new, t) = RunsIn(rs, t) \ {s}
  BY <1>1, <1>2 DEF RunsIn
<1>4. s \in RunsIn(rs, t)
  BY DEF RunsIn
<1>5. Cardinality(RunsIn(new, t)) = Cardinality(RunsIn(rs, t)) - 1
  <2>1. IsFiniteSet(RunsIn(rs, t))
    BY RunsFinite
  <2>2. Cardinality(RunsIn(rs, t) \ {s}) = Cardinality(RunsIn(rs, t)) - 1
    BY <1>4, <2>1, FS_RemoveElement
  <2>. QED  BY <1>3, <2>2
<1>6. \A x \in Tasks \ {t} : RunsIn(new, x) = RunsIn(rs, x)
  BY <1>1, <1>2 DEF RunsIn
<1>7. \A x \in keys \ {t} : RunsIn(new, x) # {}
  BY <1>6 DEF Accounted
<1>8. ASSUME NEW x \in Tasks
      PROVE  Cardinality(RunsIn(new, x)) <= cs[x] + (IF x \in keys \ {t} THEN 1 ELSE 0)
  <2>1. Cardinality(RunsIn(rs, x)) <= cs[x] + (IF x \in keys THEN 1 ELSE 0)
    BY DEF Accounted
  <2>2. cs[x] \in Nat /\ Cardinality(RunsIn(rs, x)) \in Nat
    BY RunsFinite
  <2>3. CASE x = t
    BY <1>5, <2>1, <2>2, <2>3
  <2>4. CASE x # t
    BY <1>6, <2>1, <2>2, <2>4
  <2>. QED  BY <2>3, <2>4
<1>. QED  BY <1>7, <1>8 DEF Accounted, new

LEMMA CancelAccounted ==
  ASSUME NEW rs, NEW keys, NEW cs \in [Tasks -> Nat], Accounted(rs, keys, cs),
         NEW gone \in SUBSET keys, NEW more \in [Tasks -> Nat],
         \A t \in Tasks : more[t] = cs[t] + (IF t \in gone THEN 1 ELSE 0)
  PROVE  Accounted(rs, keys \ gone, more)
<1>1. ASSUME NEW t \in Tasks
      PROVE  Cardinality(RunsIn(rs, t)) <= more[t] + (IF t \in keys \ gone THEN 1 ELSE 0)
  <2>1. Cardinality(RunsIn(rs, t)) <= cs[t] + (IF t \in keys THEN 1 ELSE 0)
    BY DEF Accounted
  <2>2. cs[t] \in Nat /\ Cardinality(RunsIn(rs, t)) \in Nat
    BY RunsFinite
  <2>. QED  BY <2>1, <2>2
<1>. QED  BY <1>1 DEF Accounted

-----------------------------------------------------------------------------
(* LifecycleInv, in the terms above. *)

RequestsFit(rqs, e) == rqs \in [Requests -> 0 .. e]

Parts ==
  /\ epoch \in 1 .. MaxEpochs
  /\ issued \in SUBSET Tasks
  /\ runningTasks \in SUBSET issued
  /\ cancels \in [Tasks -> 0 .. MaxCancels]
  /\ RequestsFit(requests, epoch)
  /\ TasksFit(tasks, issued)
  /\ Keyed(tasks, runningTasks)
  /\ RunsFit(runs, issued)
  /\ Accounted(runs, runningTasks, cancels)

LEMMA PartsAreInv == Parts => LifecycleInv
<1> SUFFICES ASSUME Parts PROVE LifecycleInv
  OBVIOUS
<1>1. TypeOK
  BY DEF Parts, TypeOK, RequestsFit, TasksFit, RunsFit
<1>2. FieldsFitStatus
  BY DEF Parts, TasksFit, FieldsFitStatus
<1>3. KeyedTaskIsRunning
  BY DEF Parts, Keyed, KeyedTaskIsRunning
<1>4. \A t : RunsOf(t) = RunsIn(runs, t)
  BY DEF RunsOf, RunsIn
<1>5. KeyHasRun /\ KeylessRunsWereCancelled
  BY <1>4 DEF Parts, Accounted, KeyHasRun, KeylessRunsWereCancelled
<1>. QED  BY <1>1, <1>2, <1>3, <1>5 DEF LifecycleInv

LEMMA CancelsNat == Parts => cancels \in [Tasks -> Nat]
BY Constants DEF Parts

LEMMA EmptyMap == \A S : <<>> \in [{} -> S] /\ DOMAIN <<>> = {}
  OBVIOUS

LEMMA PartsInit == Init => Parts
<1> SUFFICES ASSUME Init PROVE Parts
  OBVIOUS
<1>1. epoch \in 1 .. MaxEpochs /\ issued \in SUBSET Tasks /\ runningTasks \in SUBSET issued
  BY Constants DEF Init
<1>2. cancels \in [Tasks -> 0 .. MaxCancels] /\ RequestsFit(requests, epoch)
  BY Constants DEF Init, RequestsFit, Free
<1>3. TasksFit(tasks, issued) /\ Keyed(tasks, runningTasks)
  BY EmptyMap DEF Init, TasksFit, Keyed
<1>4. RunsFit(runs, issued)
  BY DEF Init, RunsFit
<1>5. \A t \in Tasks : RunsIn(runs, t) = {}
  BY Constants DEF Init, RunsIn, NoRun
<1>6. Accounted(runs, runningTasks, cancels)
  <2>1. Cardinality({}) = 0
    BY FS_EmptySet
  <2>2. runningTasks = {} /\ \A t \in Tasks : cancels[t] = 0
    BY DEF Init
  <2>. QED  BY <1>5, <2>1, <2>2 DEF Accounted
<1>. QED  BY <1>1, <1>2, <1>3, <1>4, <1>6 DEF Parts

-----------------------------------------------------------------------------
(* The steps that no request takes. *)

LEMMA ArriveStep ==
  ASSUME Parts, NEW r \in Requests, Arrive(r) PROVE Parts'
<1>1. RequestsFit(requests', epoch')
  BY DEF Parts, Arrive, RequestsFit
<1>. QED  BY <1>1 DEF Parts, Arrive

LEMMA LoseSessionStep ==
  ASSUME Parts, LoseSession PROVE Parts'
<1>1. epoch' \in 1 .. MaxEpochs /\ epoch' >= epoch
  BY Constants DEF Parts, LoseSession
<1>2. RequestsFit(requests', epoch')
  BY <1>1 DEF Parts, LoseSession, RequestsFit
<1>. QED  BY <1>1, <1>2 DEF Parts, LoseSession

LEMMA ReportStep ==
  ASSUME Parts, NEW s \in Runs, Report(s) PROVE Parts'
<1> DEFINE t == runs[s].task
<1>1. PICK p \in Reports :
        /\ runs' = [runs EXCEPT ![s] = [task |-> t, progress |-> Clamp(p)]]
        /\ tasks' = Updated(t, WithProgress(tasks[t], p))
  BY DEF Report
<1>2. t \in issued /\ t \in Tasks
  BY DEF Parts, RunsFit, Report
<1>3. Found(t, epoch) => Good(tasks[t])
  BY FitIsGood DEF Parts, Found
<1>4. Found(t, epoch) => /\ Good(WithProgress(tasks[t], p))
                         /\ WithProgress(tasks[t], p).status = tasks[t].status
  BY <1>3, ProgressKept
<1>5. TasksFit(tasks', issued)
  BY <1>1, <1>2, <1>4, UpdatedFits DEF Parts
<1>6. Found(t, epoch) => tasks[t].status = Running \/ t \notin runningTasks
  BY DEF Parts, Keyed, Found
<1>7. Keyed(tasks', runningTasks)
  BY <1>1, <1>4, <1>6, UpdatedKeyed DEF Parts
<1>8. RunsFit(runs', issued)
  <2>1. Clamp(p) \in 0 .. 100
    BY ReportsClamped
  <2>2. [task |-> t, progress |-> Clamp(p)] \in Run
    BY <1>2, <2>1 DEF Run
  <2>. QED  BY <1>1, <1>2, <2>2 DEF Parts, RunsFit
<1>9. Accounted(runs', runningTasks, cancels)
  BY <1>1, TurnAccounted DEF Parts
<1>. QED  BY <1>5, <1>7, <1>8, <1>9 DEF Parts, Report

LEMMA EndStep ==
  ASSUME Parts, NEW s \in Runs, End(s) PROVE Parts'
<1> DEFINE t == runs[s].task
<1>1. PICK task \in {Done(tasks[t]), Crashed(tasks[t])} : tasks' = Updated(t, task)
  BY DEF End
<1>2. t \in issued /\ t \in Tasks
  BY DEF Parts, RunsFit, End
<1>3. Found(t, epoch) => Good(task)
  BY <1>1, DoneGood, CrashedGood DEF Parts, Found, TasksFit
<1>4. TasksFit(tasks', issued)
  BY <1>1, <1>2, <1>3, UpdatedFits DEF Parts
<1>5. Keyed(tasks, runningTasks \ {t})
  BY FewerKeyed DEF Parts
<1>6. Keyed(tasks', runningTasks \ {t})
  BY <1>1, <1>5, UpdatedKeyed
<1>7. RunsFit(runs', issued)
  BY DEF Parts, RunsFit, End
<1>8. Accounted(runs', runningTasks \ {t}, cancels)
  <2>1. runningTasks \in SUBSET Tasks
    BY DEF Parts
  <2>. QED  BY <1>2, <2>1, CancelsNat, EndAccounted DEF Parts, End
<1>. QED  BY <1>4, <1>6, <1>7, <1>8 DEF Parts, End

\* What cancelling writes, on the databases and on the count.
LEMMA CancelledGood ==
  \A task \in Task : Good(WithProgress(WithStatus(task, Cancelled), 0))
BY StatusKept, ProgressKept

LEMMA CancelRunningStep ==
  ASSUME Parts, NEW t \in Tasks, CancelRunningTask(t)
  PROVE  /\ TasksFit(tasks', issued)
         /\ Keyed(tasks', runningTasks')
         /\ runningTasks' \in SUBSET issued
         /\ cancels' \in [Tasks -> 0 .. MaxCancels]
         /\ Accounted(runs, runningTasks', cancels')
<1>1. t \in issued /\ t \in runningTasks
  BY DEF Parts, CancelRunningTask
<1>2. Found(t, epoch) => Good(WithProgress(WithStatus(tasks[t], Cancelled), 0))
  BY CancelledGood DEF Parts, Found, TasksFit
<1>3. TasksFit(tasks', issued)
  BY <1>1, <1>2, UpdatedFits DEF Parts, CancelRunningTask
<1>4. Keyed(tasks, runningTasks \ {t})
  BY FewerKeyed DEF Parts
<1>5. Keyed(tasks', runningTasks \ {t})
  BY <1>4, UpdatedKeyed DEF CancelRunningTask
<1>6. cancels' \in [Tasks -> 0 .. MaxCancels]
  BY Constants DEF Parts, CancelRunningTask
<1>7. \A x \in Tasks : cancels'[x] = cancels[x] + (IF x \in {t} THEN 1 ELSE 0)
  BY <1>6 DEF Parts, CancelRunningTask
<1>8. Accounted(runs, runningTasks \ {t}, cancels')
  <2>1. cancels' \in [Tasks -> Nat]
    BY <1>6, Constants
  <2>2. {t} \in SUBSET runningTasks
    BY <1>1
  <2>3. cancels \in [Tasks -> Nat] /\ Accounted(runs, runningTasks, cancels)
    BY CancelsNat DEF Parts
  <2>. QED  BY <1>7, <2>1, <2>2, <2>3, CancelAccounted
<1>. QED  BY <1>3, <1>5, <1>6, <1>8 DEF Parts, CancelRunningTask

LEMMA CancelAllStep ==
  ASSUME Parts, CancelAllRunningTasks PROVE Parts'
<1>1. ASSUME NEW t \in DOMAIN tasks
      PROVE  Good(tasks[t]) /\ Good(WithProgress(WithStatus(tasks[t], Cancelled), 0))
  BY CancelledGood DEF Parts, TasksFit, Good
<1>2. TasksFit(tasks', issued)
  BY <1>1 DEF Parts, TasksFit, Good, CancelAllRunningTasks
<1>3. cancels' \in [Tasks -> 0 .. MaxCancels]
  BY Constants DEF Parts, CancelAllRunningTasks
<1>4. \A x \in Tasks : cancels'[x] = cancels[x] + (IF x \in runningTasks THEN 1 ELSE 0)
  BY <1>3 DEF Parts, CancelAllRunningTasks
<1>5. Accounted(runs, runningTasks \ runningTasks, cancels')
  <2>1. cancels' \in [Tasks -> Nat]
    BY <1>3, Constants
  <2>2. cancels \in [Tasks -> Nat] /\ Accounted(runs, runningTasks, cancels)
    BY CancelsNat DEF Parts
  <2>3. runningTasks \in SUBSET runningTasks
    OBVIOUS
  <2>. QED  BY <1>4, <2>1, <2>2, <2>3, CancelAccounted
<1>6. runningTasks' = {} /\ runningTasks \ runningTasks = {}
  BY DEF CancelAllRunningTasks
<1>. QED  BY <1>2, <1>3, <1>5, <1>6 DEF Parts, Keyed, CancelAllRunningTasks

-----------------------------------------------------------------------------
(* The handlers. *)

\* The start of an execution, over the tasks it finds and those it leaves.
LEMMA ExecuteStep ==
  ASSUME Parts, NEW t \in Tasks, NEW found \in BOOLEAN, NEW map, NEW ids \in SUBSET Tasks,
         issued \subseteq ids, t \in ids, TasksFit(map, ids), Keyed(map, runningTasks),
         found => t \in DOMAIN map, Execute(t, found, map)
  PROVE  /\ TasksFit(tasks', ids)
         /\ Keyed(tasks', runningTasks')
         /\ runningTasks' \in SUBSET ids
         /\ RunsFit(runs', ids)
         /\ Accounted(runs', runningTasks', cancels)
<1>1. RunsFit(runs, ids)
  BY DEF Parts, RunsFit
<1>2. CASE (t \in runningTasks \/ ~found) /\ tasks' = map /\ UNCHANGED <<runningTasks, runs>>
  BY <1>1, <1>2 DEF Parts
<1>3. ASSUME t \notin runningTasks, found
      PROVE  Good(map[t]) /\ Good(WithStatus(map[t], Running))
             /\ WithStatus(map[t], Running).status = Running
  BY <1>3, StatusKept DEF TasksFit, Good
<1>4. ASSUME t \notin runningTasks, found, runningTasks' = runningTasks \cup {t},
             NEW s \in Runs, NEW p \in Reports \cup {0}, runs[s] = NoRun,
             runs' = [runs EXCEPT ![s] = [task |-> t, progress |-> Clamp(p)]],
             tasks' = Store(map, t, WithProgress(WithStatus(map[t], Running), p))
      PROVE  /\ TasksFit(tasks', ids)
             /\ Keyed(tasks', runningTasks')
             /\ runningTasks' \in SUBSET ids
             /\ RunsFit(runs', ids)
             /\ Accounted(runs', runningTasks', cancels)
  <2> DEFINE task == WithProgress(WithStatus(map[t], Running), p)
  <2>1. Good(task) /\ task.status = Running
    BY <1>3, <1>4, ProgressKept
  <2> HIDE DEF task
  <2>2. ids \cup {t} = ids
    OBVIOUS
  <2>3. TasksFit(Store(map, t, task), ids)
    BY <2>1, <2>2, StoreFits
  <2>4. Keyed(Store(map, t, task), runningTasks \cup {t})
    BY <2>1 DEF Keyed, Store
  <2>5. [task |-> t, progress |-> Clamp(p)] \in Run
    BY <1>4, ReportsClamped DEF Run
  <2>6. RunsFit(runs', ids)
    BY <1>1, <1>4, <2>5 DEF RunsFit
  <2>7. runningTasks \in SUBSET Tasks
    BY DEF Parts
  <2>8. Accounted(runs', runningTasks \cup {t}, cancels)
    BY <1>1, <1>4, <2>7, CancelsNat, StartAccounted DEF Parts
  <2>. QED  BY <1>4, <2>3, <2>4, <2>6, <2>8 DEF Parts, task
<1>5. ASSUME t \notin runningTasks, found, UNCHANGED <<runningTasks, runs>>,
             NEW task, task \in {Done(WithStatus(map[t], Running)), Crashed(WithStatus(map[t], Running))},
             tasks' = Store(map, t, task)
      PROVE  /\ TasksFit(tasks', ids)
             /\ Keyed(tasks', runningTasks')
             /\ runningTasks' \in SUBSET ids
             /\ RunsFit(runs', ids)
             /\ Accounted(runs', runningTasks', cancels)
  <2>1. Good(task)
    BY <1>3, <1>5, DoneGood, CrashedGood DEF Good
  <2>2. ids \cup {t} = ids
    OBVIOUS
  <2>3. TasksFit(tasks', ids)
    BY <1>5, <2>1, <2>2, StoreFits
  <2>4. Keyed(tasks', runningTasks)
    BY <1>5, StoreKeyed
  <2>. QED  BY <1>1, <1>5, <2>3, <2>4 DEF Parts
<1>. QED  BY <1>2, <1>4, <1>5 DEF Execute

\* A task a request finds in its database.
LEMMA FoundGood ==
  ASSUME Parts, NEW t, NEW db, Found(t, db)
  PROVE  t \in issued /\ Good(tasks[t]) /\ issued \cup {t} = issued
BY FitIsGood DEF Parts, TasksFit, Found

LEMMA HandlerRequests ==
  ASSUME Parts, NEW r \in Requests, Respond(r)
  PROVE  epoch' = epoch /\ RequestsFit(requests', epoch') /\ requests[r] \in 1 .. MaxEpochs
BY Constants DEF Parts, Respond, RequestsFit, Free

LEMMA NewTaskFits ==
  ASSUME Parts, NEW t \in Tasks \ issued, NEW db \in 1 .. MaxEpochs
  PROVE  /\ TasksFit(Store(tasks, t, NewTask(db)), issued \cup {t})
         /\ Keyed(Store(tasks, t, NewTask(db)), runningTasks)
         /\ t \in DOMAIN Store(tasks, t, NewTask(db))
<1>1. TasksFit(Store(tasks, t, NewTask(db)), issued \cup {t})
  BY NewTaskGood, StoreFits DEF Parts
<1>2. Keyed(Store(tasks, t, NewTask(db)), runningTasks)
  BY StoreKeyed DEF Parts
<1>. QED  BY <1>1, <1>2 DEF Store

LEMMA CreateTaskStep ==
  ASSUME Parts, NEW r \in Requests, NEW t \in Tasks, CreateTask(r, t) PROVE Parts'
<1>1. Respond(r) /\ t \in Tasks \ issued
  BY DEF CreateTask
<1>2. epoch' = epoch /\ RequestsFit(requests', epoch') /\ requests[r] \in 1 .. MaxEpochs
  BY <1>1, HandlerRequests
<1>3. TasksFit(tasks', issued') /\ Keyed(tasks', runningTasks)
  BY <1>1, <1>2, NewTaskFits DEF CreateTask
<1>4. RunsFit(runs, issued')
  BY DEF Parts, RunsFit, CreateTask
<1>. QED  BY <1>1, <1>2, <1>3, <1>4 DEF Parts, CreateTask

LEMMA CreateSampleTaskStep ==
  ASSUME Parts, NEW r \in Requests, NEW t \in Tasks, CreateSampleTask(r, t) PROVE Parts'
<1> DEFINE map == Store(tasks, t, NewTask(requests[r]))
           ids == issued \cup {t}
<1>1. Respond(r) /\ t \in Tasks \ issued /\ issued' = ids /\ cancels' = cancels
  BY DEF CreateSampleTask
<1>2. epoch' = epoch /\ RequestsFit(requests', epoch') /\ requests[r] \in 1 .. MaxEpochs
  BY <1>1, HandlerRequests
<1>3. TasksFit(map, ids) /\ Keyed(map, runningTasks) /\ t \in DOMAIN map
  BY <1>1, <1>2, NewTaskFits
<1>4. Execute(t, requests[r] = epoch, map)
  BY DEF CreateSampleTask
<1> HIDE DEF map
<1>5. ids \in SUBSET Tasks /\ issued \subseteq ids /\ t \in ids
  BY DEF Parts
<1>6. (requests[r] = epoch) \in BOOLEAN
  OBVIOUS
<1> HIDE DEF ids
<1>7. /\ TasksFit(tasks', ids)
      /\ Keyed(tasks', runningTasks')
      /\ runningTasks' \in SUBSET ids
      /\ RunsFit(runs', ids)
      /\ Accounted(runs', runningTasks', cancels)
  BY <1>3, <1>4, <1>5, <1>6, ExecuteStep
<1>. QED  BY <1>1, <1>2, <1>5, <1>7 DEF Parts

LEMMA ExecuteTaskStep ==
  ASSUME Parts, NEW r \in Requests, NEW t \in Tasks, ExecuteTask(r, t) PROVE Parts'
<1>1. Respond(r) /\ Found(t, requests[r]) /\ issued' = issued /\ cancels' = cancels
  BY DEF ExecuteTask
<1>2. epoch' = epoch /\ RequestsFit(requests', epoch')
  BY <1>1, HandlerRequests
<1>3. Execute(t, Found(t, epoch), tasks)
  BY DEF ExecuteTask
<1>4. t \in issued
  BY <1>1, FoundGood
<1>5. Found(t, epoch) \in BOOLEAN /\ (Found(t, epoch) => t \in DOMAIN tasks)
  BY DEF Found
<1>6. TasksFit(tasks, issued) /\ Keyed(tasks, runningTasks) /\ issued \in SUBSET Tasks
  BY DEF Parts
<1>7. /\ TasksFit(tasks', issued)
      /\ Keyed(tasks', runningTasks')
      /\ runningTasks' \in SUBSET issued
      /\ RunsFit(runs', issued)
      /\ Accounted(runs', runningTasks', cancels)
  BY <1>3, <1>4, <1>5, <1>6, ExecuteStep
<1>. QED  BY <1>1, <1>2, <1>7 DEF Parts

\* Start, retry and the cancellation of a task write one task that has no key,
\* or keep it running.
LEMMA RewriteStep ==
  ASSUME Parts, NEW r \in Requests, NEW t \in Tasks, NEW task, Respond(r),
         Found(t, requests[r]), Good(task), task.status = Running \/ t \notin runningTasks,
         tasks' = Store(tasks, t, task), UNCHANGED <<issued, runningTasks, runs, cancels>>
  PROVE  Parts'
<1>1. epoch' = epoch /\ RequestsFit(requests', epoch')
  BY HandlerRequests
<1>2. issued \cup {t} = issued
  BY FoundGood
<1>3. TasksFit(tasks', issued)
  BY <1>2, StoreFits DEF Parts
<1>4. Keyed(tasks', runningTasks)
  BY StoreKeyed DEF Parts
<1>. QED  BY <1>1, <1>3, <1>4 DEF Parts

LEMMA StartTaskStep ==
  ASSUME Parts, NEW r \in Requests, NEW t \in Tasks, StartTask(r, t) PROVE Parts'
<1>1. Good(tasks[t])
  BY FoundGood DEF StartTask
<1>2. Good(WithStatus(tasks[t], Running))
  BY <1>1, StatusKept DEF Good
<1>. QED  BY <1>2, RewriteStep DEF StartTask

LEMMA RetryTaskStep ==
  ASSUME Parts, NEW r \in Requests, NEW t \in Tasks, RetryTask(r, t) PROVE Parts'
<1>1. Good(NewTask(requests[r]))
  BY HandlerRequests, NewTaskGood DEF RetryTask
<1>2. t \in DOMAIN tasks /\ tasks[t].status # Running
  BY DEF RetryTask, Found, Running, Failed, Cancelled
<1>3. t \notin runningTasks
  BY <1>2 DEF Parts, Keyed
<1>. QED  BY <1>1, <1>3, RewriteStep DEF RetryTask

LEMMA CancelTaskStep ==
  ASSUME Parts, NEW r \in Requests, NEW t \in Tasks, CancelTask(r, t) PROVE Parts'
<1>1. Respond(r) /\ UNCHANGED <<issued, runs>>
  BY DEF CancelTask
<1>2. epoch' = epoch /\ RequestsFit(requests', epoch')
  BY <1>1, HandlerRequests
<1>3. CASE CancelRunningTask(t)
  BY <1>1, <1>2, <1>3, CancelRunningStep DEF Parts
<1>4. ASSUME t \notin runningTasks, Found(t, requests[r]),
             tasks' = Store(tasks, t, WithStatus(tasks[t], Cancelled)),
             UNCHANGED <<runningTasks, cancels>>
      PROVE  Parts'
  <2>1. Good(WithStatus(tasks[t], Cancelled))
    BY <1>4, FoundGood, StatusKept DEF Good
  <2>. QED  BY <1>1, <1>4, <2>1, RewriteStep
<1>. QED  BY <1>3, <1>4 DEF CancelTask

LEMMA DeleteTaskStep ==
  ASSUME Parts, NEW r \in Requests, NEW t \in Tasks, DeleteTask(r, t) PROVE Parts'
<1>1. epoch' = epoch /\ RequestsFit(requests', epoch')
  BY HandlerRequests DEF DeleteTask
<1>2. TasksFit(tasks', issued) /\ Keyed(tasks', runningTasks)
  BY DEF Parts, TasksFit, Keyed, DeleteTask
<1>. QED  BY <1>1, <1>2 DEF Parts, DeleteTask

LEMMA AnswerStep ==
  ASSUME Parts, NEW r \in Requests, Answer(r) PROVE Parts'
<1>1. epoch' = epoch /\ RequestsFit(requests', epoch')
  BY HandlerRequests DEF Answer
<1>. QED  BY <1>1 DEF Parts, Answer

LEMMA PartsNext == Parts /\ [Next]_vars => Parts'
<1> SUFFICES ASSUME Parts, [Next]_vars PROVE Parts'
  OBVIOUS
<1>1. CASE LoseSession
  BY <1>1, LoseSessionStep
<1>2. CASE CancelAllRunningTasks
  BY <1>2, CancelAllStep
<1>3. ASSUME NEW s \in Runs, Report(s) \/ End(s) PROVE Parts'
  BY <1>3, ReportStep, EndStep
<1>4. ASSUME NEW r \in Requests, Arrive(r) PROVE Parts'
  BY <1>4, ArriveStep
<1>5. ASSUME NEW r \in Requests, Handle(r) PROVE Parts'
  BY <1>5, AnswerStep, CreateTaskStep, CreateSampleTaskStep, ExecuteTaskStep, StartTaskStep,
     CancelTaskStep, RetryTaskStep, DeleteTaskStep DEF Handle
<1>6. CASE UNCHANGED vars
  BY <1>6 DEF vars, Parts
<1>. QED  BY <1>1, <1>2, <1>3, <1>4, <1>5, <1>6 DEF Next

-----------------------------------------------------------------------------
(* Theorems *)

\* The invariant variable by variable, which every step preserves.
THEOREM PartsInvariant == Spec => []Parts
  BY PartsInit, PartsNext, PTL DEF Spec

\* The invariant that the others follow from.
THEOREM LifecycleInvariant == Spec => []LifecycleInv
  BY PartsInvariant, PartsAreInv, PTL

\* Every variable keeps its type; progress stays between 0 and 100 whatever the
\* executors report.
THEOREM TypeCorrect == Spec => []TypeOK
<1>1. LifecycleInv => TypeOK
  BY DEF LifecycleInv
<1>. QED  BY <1>1, LifecycleInvariant, PTL

\* No key of runningTasks is left without an execution that will delete it.
THEOREM KeysHaveRuns == Spec => []KeyHasRun
<1>1. LifecycleInv => KeyHasRun
  BY DEF LifecycleInv
<1>. QED  BY <1>1, LifecycleInvariant, PTL

\* A task is executed at most once more than its executions were cancelled.
THEOREM OverlapIsBounded == Spec => []OverlapNeedsCancel
<1>1. LifecycleInv => OverlapNeedsCancel
  <2> SUFFICES ASSUME LifecycleInv, NEW t \in Tasks
               PROVE  Cardinality(RunsOf(t)) <= cancels[t] + 1
    BY DEF OverlapNeedsCancel
  <2>1. Cardinality(RunsOf(t)) <= cancels[t] + (IF t \in runningTasks THEN 1 ELSE 0)
    BY DEF LifecycleInv, KeylessRunsWereCancelled
  <2>2. RunsOf(t) = RunsIn(runs, t)
    BY DEF RunsOf, RunsIn
  <2>3. Cardinality(RunsOf(t)) \in Nat
    BY <2>2, RunsFinite
  <2>4. cancels[t] \in Nat
    BY Constants DEF LifecycleInv, TypeOK
  <2>. QED  BY <2>1, <2>3, <2>4
<1>. QED  BY <1>1, LifecycleInvariant, PTL

\* A task whose key is held is running.
THEOREM KeyedTasksRun == Spec => []KeyedTaskIsRunning
<1>1. LifecycleInv => KeyedTaskIsRunning
  BY DEF LifecycleInv
<1>. QED  BY <1>1, LifecycleInvariant, PTL

\* The fields of every task agree with its status.
THEOREM FieldsAlwaysFit == Spec => []FieldsFitStatus
<1>1. LifecycleInv => FieldsFitStatus
  BY DEF LifecycleInv
<1>. QED  BY <1>1, LifecycleInvariant, PTL

-----------------------------------------------------------------------------
(* What a step may never do to a task. *)

\* Except for the request's own task, u, a handler leaves every task as it is.
OthersKept(u) ==
  /\ DOMAIN tasks' \subseteq DOMAIN tasks \cup {u}
  /\ \A t \in DOMAIN tasks \ {u} : t \in DOMAIN tasks' /\ tasks'[t] = tasks[t]

\* What TaskExecutionService writes, it writes in the session's own database.
OwnDatabaseOnly ==
  /\ DOMAIN tasks' = DOMAIN tasks
  /\ \A t \in DOMAIN tasks : tasks[t].home # epoch => tasks'[t] = tasks[t]

LEMMA UpdatedOwnDatabase ==
  ASSUME NEW t, NEW task, tasks' = Updated(t, task), NEW S, tasks \in [DOMAIN tasks -> S]
  PROVE  OwnDatabaseOnly
BY DEF OwnDatabaseOnly, Updated, Store, Found

\* Of the tasks in map, a step leaves all but t as they are.
LeavesOthers(map, t) ==
  /\ DOMAIN tasks' = DOMAIN map
  /\ \A x \in DOMAIN map \ {t} : tasks'[x] = map[x]

LEMMA ExecuteKeepsOthers ==
  \A t, found, map :
    Execute(t, found, map) /\ (found => t \in DOMAIN map) => LeavesOthers(map, t)
<1> SUFFICES ASSUME NEW t, NEW found, NEW map, Execute(t, found, map), found => t \in DOMAIN map
             PROVE  LeavesOthers(map, t)
  OBVIOUS
<1>1. CASE tasks' = map
  BY <1>1 DEF LeavesOthers
<1>2. ASSUME t \in DOMAIN map, NEW task, tasks' = Store(map, t, task)
      PROVE  LeavesOthers(map, t)
  BY <1>2 DEF Store, LeavesOthers
<1>. QED  BY <1>1, <1>2 DEF Execute

\* The steps, by what they may change.
Owner(r, u) == Found(u, requests[r]) \/ u \notin issued

LEMMA HandlerKeepsOthers ==
  ASSUME Parts, NEW r \in Requests, Handle(r)
  PROVE  \/ OwnDatabaseOnly
         \/ \E u \in Tasks : OthersKept(u) /\ Owner(r, u)
<1> DEFINE Kept == OwnDatabaseOnly \/ \E u \in Tasks : OthersKept(u) /\ Owner(r, u)
<1>1. CASE Answer(r)
  BY <1>1 DEF Answer, OwnDatabaseOnly
<1>2. ASSUME NEW u \in Tasks, CreateTask(r, u) PROVE Kept
  <2>1. OthersKept(u)
    BY <1>2 DEF CreateTask, Store, OthersKept
  <2>. QED  BY <1>2, <2>1 DEF CreateTask, Owner
<1>3. ASSUME NEW u \in Tasks, CreateSampleTask(r, u) PROVE Kept
  <2> DEFINE map == Store(tasks, u, NewTask(requests[r]))
  <2>1. /\ DOMAIN map = DOMAIN tasks \cup {u}
        /\ \A x \in DOMAIN tasks \ {u} : map[x] = tasks[x]
    BY DEF Store
  <2>2. Execute(u, requests[r] = epoch, map) /\ u \notin issued
    BY <1>3 DEF CreateSampleTask
  <2> HIDE DEF map
  <2>3. LeavesOthers(map, u)
    BY <2>1, <2>2, ExecuteKeepsOthers
  <2>4. OthersKept(u)
    BY <2>1, <2>3 DEF OthersKept, LeavesOthers
  <2>. QED  BY <2>2, <2>4 DEF Owner
<1>4. ASSUME NEW u \in Tasks, ExecuteTask(r, u) PROVE Kept
  <2>1. Execute(u, Found(u, epoch), tasks) /\ Found(u, requests[r])
    BY <1>4 DEF ExecuteTask
  <2>2. Found(u, epoch) => u \in DOMAIN tasks
    BY DEF Found
  <2>3. LeavesOthers(tasks, u)
    BY <2>1, <2>2, ExecuteKeepsOthers
  <2>4. OthersKept(u)
    BY <2>3 DEF OthersKept, LeavesOthers
  <2>. QED  BY <2>1, <2>4 DEF Owner
<1>5. ASSUME NEW u \in Tasks, StartTask(r, u) \/ RetryTask(r, u) \/ DeleteTask(r, u) PROVE Kept
  <2>1. OthersKept(u) /\ Found(u, requests[r])
    BY <1>5 DEF StartTask, RetryTask, DeleteTask, Store, OthersKept
  <2>. QED  BY <2>1 DEF Owner
<1>6. ASSUME NEW u \in Tasks, CancelTask(r, u) PROVE Kept
  <2>1. CASE CancelRunningTask(u)
    BY <2>1, UpdatedOwnDatabase DEF CancelRunningTask, Parts, TasksFit
  <2>2. CASE Found(u, requests[r]) /\ tasks' = Store(tasks, u, WithStatus(tasks[u], Cancelled))
    <3>1. OthersKept(u)
      BY <2>2 DEF Store, OthersKept
    <3>. QED  BY <2>2, <3>1 DEF Owner
  <2>. QED  BY <1>6, <2>1, <2>2 DEF CancelTask
<1>. QED  BY <1>1, <1>2, <1>3, <1>4, <1>5, <1>6 DEF Handle

LEMMA StepKeepsOthers ==
  ASSUME Parts, [Next]_vars
  PROVE  \/ OwnDatabaseOnly
         \/ \E r \in Requests, u \in Tasks : Respond(r) /\ OthersKept(u) /\ Owner(r, u)
<1>1. CASE LoseSession \/ UNCHANGED vars
  BY <1>1 DEF LoseSession, vars, OwnDatabaseOnly
<1>2. CASE CancelAllRunningTasks
  BY <1>2 DEF CancelAllRunningTasks, OwnDatabaseOnly, Found
<1>3. ASSUME NEW s \in Runs, Report(s) \/ End(s) PROVE OwnDatabaseOnly
  <2>1. tasks \in [DOMAIN tasks -> Task]
    BY DEF Parts, TasksFit
  <2>2. \E t, task : tasks' = Updated(t, task)
    BY <1>3 DEF Report, End
  <2>. QED  BY <2>1, <2>2, UpdatedOwnDatabase
<1>4. ASSUME NEW r \in Requests, Arrive(r) PROVE OwnDatabaseOnly
  BY <1>4 DEF Arrive, OwnDatabaseOnly
<1>5. ASSUME NEW r \in Requests, Handle(r) PROVE Respond(r)
  BY <1>5 DEF Handle, Answer, CreateTask, CreateSampleTask, ExecuteTask, StartTask,
              CancelTask, RetryTask, DeleteTask
<1>. QED  BY <1>1, <1>2, <1>3, <1>4, <1>5, HandlerKeepsOthers DEF Next

\* An execution still in flight never brings back a task that was deleted.
THEOREM DeletionIsFinal == Spec => DeletedForGood
<1>1. Parts /\ [Next]_vars => \A t \in issued : t \in DOMAIN tasks' => t \in DOMAIN tasks
  BY StepKeepsOthers DEF OwnDatabaseOnly, OthersKept, Owner, Found
<1>. QED  BY <1>1, PartsInvariant, PTL DEF Spec, DeletedForGood

\* Nothing that happens in the background touches the tasks of a lost database.
THEOREM LostTasksAreLeft == Spec => LostTasksKeepStill
<1> DEFINE Still == \A t \in DOMAIN tasks :
              \/ tasks[t].home = epoch
              \/ t \in DOMAIN tasks' /\ tasks'[t] = tasks[t]
              \/ \E r \in Requests : requests[r] = tasks[t].home /\ requests'[r] = Free
<1>1. ASSUME Parts, [Next]_vars PROVE Still
  <2>1. CASE OwnDatabaseOnly
    BY <2>1 DEF OwnDatabaseOnly
  <2>2. ASSUME NEW r \in Requests, NEW u \in Tasks, Respond(r), OthersKept(u), Owner(r, u)
        PROVE  Still
    <3>1. requests'[r] = Free
      BY <1>1, <2>2 DEF Respond, Parts, RequestsFit
    <3>2. u \in DOMAIN tasks => tasks[u].home = requests[r]
      BY <1>1, <2>2 DEF Owner, Found, Parts, TasksFit
    <3>. QED  BY <2>2, <3>1, <3>2 DEF OthersKept
  <2>. QED  BY <1>1, <2>1, <2>2, StepKeepsOthers
<1>. QED  BY <1>1, PartsInvariant, PTL DEF Spec, LostTasksKeepStill

-----------------------------------------------------------------------------
(* Progress: a task whose executions were never cancelled shows what its       *)
(* execution reported last.  Every step changes at most one such task, and     *)
(* whatever may write it finds either no execution of it or its only one.      *)

\* What a task shows, given the session's database and the executions.
Shows(task, e, rs, t) ==
  /\ task.home = e => \A s \in RunsIn(rs, t) : task.progress = rs[s].progress
  /\ task.status = Completed => task.progress = 100

\* No task is in a database that the session will have only later.
Shown(map, e, rs, cs) ==
  \A t \in DOMAIN map :
    /\ map[t].home \in Nat /\ map[t].home <= e
    /\ cs[t] = 0 => Shows(map[t], e, rs, t)

ProgressInv == Shown(tasks, epoch, runs, cancels)

-----------------------------------------------------------------------------

\* A step that leaves all tasks but t alone need only be looked at for t.
LEMMA OneTaskStep ==
  ASSUME NEW map, NEW e, NEW rs, NEW cs, Shown(map, e, rs, cs),
         NEW map2, NEW rs2, NEW cs2, NEW t,
         DOMAIN map2 \subseteq DOMAIN map \cup {t},
         \A x \in DOMAIN map2 \ {t} : map2[x] = map[x] /\ cs2[x] = cs[x],
         \A x \in DOMAIN map2 \ {t} : \A s \in RunsIn(rs2, x) : s \in RunsIn(rs, x) /\ rs2[s] = rs[s],
         t \in DOMAIN map2 => /\ map2[t].home \in Nat /\ map2[t].home <= e
                              /\ cs2[t] = 0 => Shows(map2[t], e, rs2, t)
  PROVE  Shown(map2, e, rs2, cs2)
<1> SUFFICES ASSUME NEW x \in DOMAIN map2, x # t
             PROVE  /\ map2[x].home \in Nat /\ map2[x].home <= e
                    /\ cs2[x] = 0 => Shows(map2[x], e, rs2, x)
  BY DEF Shown
<1>1. x \in DOMAIN map /\ map2[x] = map[x] /\ cs2[x] = cs[x]
  OBVIOUS
<1>2. \A s \in RunsIn(rs2, x) : s \in RunsIn(rs, x) /\ rs2[s] = rs[s]
  OBVIOUS
<1>. QED  BY <1>1, <1>2 DEF Shown, Shows

\* The steps that write one task and leave the executions alone.
LEMMA StoreShown ==
  ASSUME NEW map, NEW e, NEW rs, NEW cs, Shown(map, e, rs, cs), NEW t, NEW task,
         task.home \in Nat, task.home <= e, cs[t] = 0 => Shows(task, e, rs, t)
  PROVE  Shown(Store(map, t, task), e, rs, cs)
<1> DEFINE map2 == Store(map, t, task)
<1>1. /\ DOMAIN map2 = DOMAIN map \cup {t} /\ map2[t] = task
      /\ \A x \in DOMAIN map2 \ {t} : map2[x] = map[x]
  BY DEF Store
<1> HIDE DEF map2
<1>2. Shown(map2, e, rs, cs)
  BY <1>1, OneTaskStep
<1>. QED  BY <1>2 DEF map2

\* Without a cancellation a task has at most the execution its key stands for.
LEMMA SingleRun ==
  ASSUME Parts, NEW t \in Tasks, cancels[t] = 0
  PROVE  /\ t \notin runningTasks => RunsIn(runs, t) = {}
         /\ \A r, s \in RunsIn(runs, t) : r = s
<1>1. IsFiniteSet(RunsIn(runs, t)) /\ Cardinality(RunsIn(runs, t)) \in Nat
  BY RunsFinite
<1>2. Cardinality(RunsIn(runs, t)) <= (IF t \in runningTasks THEN 1 ELSE 0)
  BY DEF Parts, Accounted
<1>3. t \notin runningTasks => RunsIn(runs, t) = {}
  BY <1>1, <1>2, FS_EmptySet
<1>4. ASSUME NEW r \in RunsIn(runs, t), NEW s \in RunsIn(runs, t), r # s PROVE FALSE
  <2>1. Cardinality(RunsIn(runs, t) \ {r}) = Cardinality(RunsIn(runs, t)) - 1
    BY <1>1, FS_RemoveElement
  <2>2. IsFiniteSet(RunsIn(runs, t) \ {r})
    BY <1>1, FS_RemoveElement
  <2>3. Cardinality(RunsIn(runs, t) \ {r}) = 0
    BY <1>1, <1>2, <2>1, <2>2, FS_CardinalityType
  <2>4. RunsIn(runs, t) \ {r} = {}
    BY <2>2, <2>3, FS_EmptySet
  <2>. QED  BY <1>4, <2>4
<1>. QED  BY <1>3, <1>4

\* What the code writes, field by field.
LEMMA StatusFields ==
  \A task, status :
    /\ WithStatus(task, status).home = task.home
    /\ WithStatus(task, status).status = status
    /\ WithStatus(task, status).progress = task.progress
BY DEF WithStatus

LEMMA ProgressFields ==
  \A task \in Task : \A p :
    /\ WithProgress(task, p).home = task.home
    /\ WithProgress(task, p).status = task.status
    /\ WithProgress(task, p).progress = Clamp(p)
BY DEF WithProgress, Task

LEMMA EndFields ==
  ASSUME NEW task \in Task
  PROVE  /\ Done(task).home = task.home /\ Done(task).progress = 100
         /\ Crashed(task).home = task.home /\ Crashed(task).status # Completed
<1>1. WithStatus(task, Completed) \in Task
  BY StatusKept DEF Good
<1>2. Done(task).home = task.home /\ Done(task).progress = 100
  <2>1. Clamp(100) = 100
    BY DEF Clamp
  <2>. QED  BY <1>1, <2>1, StatusFields, ProgressFields DEF Done
<1>3. /\ Crashed(task).home = task.home
      /\ Crashed(task).status # Completed
  BY DEF Crashed, WithProgress, WithStatus, Task, Failed, Completed
<1>. QED  BY <1>2, <1>3

LEMMA ProgressInit == Init => ProgressInv
BY EmptyMap DEF Init, ProgressInv, Shown

-----------------------------------------------------------------------------
(* The steps that no request takes. *)

LEMMA LoseSessionShows ==
  ASSUME Parts, ProgressInv, LoseSession PROVE ProgressInv'
<1>1. epoch \in Nat /\ epoch' = epoch + 1 /\ UNCHANGED <<tasks, runs, cancels>>
  BY Constants DEF LoseSession, Parts
<1>. QED  BY <1>1 DEF ProgressInv, Shown, Shows

LEMMA CancelAllShows ==
  ASSUME Parts, ProgressInv, CancelAllRunningTasks PROVE ProgressInv'
<1>1. UNCHANGED <<epoch, runs>> /\ DOMAIN tasks' = DOMAIN tasks
  BY DEF CancelAllRunningTasks
<1> SUFFICES ASSUME NEW t \in DOMAIN tasks
             PROVE  /\ tasks'[t].home \in Nat /\ tasks'[t].home <= epoch
                    /\ cancels'[t] = 0 => Shows(tasks'[t], epoch, runs, t)
  BY <1>1 DEF ProgressInv, Shown
<1>2. t \in Tasks /\ tasks[t] \in Task /\ cancels[t] \in Nat
  BY CancelsNat DEF Parts, TasksFit
<1>3. CASE t \in runningTasks
  <2>1. cancels'[t] # 0
    BY <1>2, <1>3 DEF CancelAllRunningTasks
  <2>2. WithStatus(tasks[t], Cancelled) \in Task
    BY <1>2, StatusKept DEF Good
  <2>3. tasks'[t].home = tasks[t].home
    BY <2>2, StatusFields, ProgressFields DEF CancelAllRunningTasks
  <2>. QED  BY <2>1, <2>3 DEF ProgressInv, Shown
<1>4. CASE t \notin runningTasks
  BY <1>2, <1>4 DEF CancelAllRunningTasks, ProgressInv, Shown
<1>. QED  BY <1>3, <1>4

LEMMA ReportShows ==
  ASSUME Parts, ProgressInv, NEW s \in Runs, Report(s) PROVE ProgressInv'
<1>1. PICK t \in issued : t = runs[s].task
  BY DEF Parts, RunsFit, Report
<1>2. PICK p \in Reports :
        /\ runs' = [runs EXCEPT ![s] = [task |-> t, progress |-> Clamp(p)]]
        /\ tasks' = Updated(t, WithProgress(tasks[t], p))
  BY <1>1 DEF Report
<1>3. UNCHANGED <<epoch, cancels>> /\ t \in Tasks
  BY <1>1 DEF Report, Parts
<1>4. /\ runs'[s].task = t /\ runs'[s].progress = Clamp(p)
      /\ \A r \in Runs \ {s} : runs'[r] = runs[r]
  BY <1>2 DEF Parts, RunsFit
<1>5. \A x \in DOMAIN tasks' \ {t} : \A r \in RunsIn(runs', x) : r \in RunsIn(runs, x) /\ runs'[r] = runs[r]
  BY <1>4 DEF RunsIn
<1>6. DOMAIN tasks' = DOMAIN tasks /\ \A x \in DOMAIN tasks' \ {t} : tasks'[x] = tasks[x]
  BY <1>2 DEF Updated, Found, Store
<1>7. ASSUME t \in DOMAIN tasks'
      PROVE  /\ tasks'[t].home \in Nat /\ tasks'[t].home <= epoch
             /\ cancels[t] = 0 => Shows(tasks'[t], epoch, runs', t)
  <2>1. /\ tasks[t] \in Task /\ tasks[t].home \in Nat /\ tasks[t].home <= epoch
    BY <1>6, <1>7 DEF Parts, TasksFit, ProgressInv, Shown
  <2>2. \/ tasks'[t] = tasks[t] /\ tasks[t].home # epoch
        \/ /\ tasks'[t].home = tasks[t].home /\ tasks'[t].status = tasks[t].status
           /\ tasks'[t].progress = Clamp(p)
    BY <1>2, <1>6, <1>7, <2>1, ProgressFields DEF Updated, Found, Store
  <2>3. ASSUME cancels[t] = 0 PROVE Shows(tasks'[t], epoch, runs', t)
    <3>1. s \in RunsIn(runs, t)
      BY <1>1 DEF RunsIn
    <3>2. t \in runningTasks /\ \A r \in RunsIn(runs, t) : r = s
      BY <1>3, <2>3, <3>1, SingleRun
    <3>3. tasks[t].status # Completed
      BY <1>6, <1>7, <3>2 DEF Parts, Keyed, Running, Completed
    <3>4. ASSUME NEW r \in RunsIn(runs', t), r # s PROVE FALSE
      <4>1. r \in RunsIn(runs, t)
        BY <1>4, <3>4 DEF RunsIn
      <4>. QED  BY <3>2, <3>4, <4>1
    <3>. QED  BY <1>4, <2>2, <3>3, <3>4 DEF Shows
  <2>. QED  BY <2>1, <2>2, <2>3
<1>8. Shown(tasks', epoch, runs', cancels)
  <2>1. Shown(tasks, epoch, runs, cancels) /\ DOMAIN tasks' \subseteq DOMAIN tasks \cup {t}
    BY <1>6 DEF ProgressInv
  <2>2. \A x \in DOMAIN tasks' \ {t} : tasks'[x] = tasks[x] /\ cancels[x] = cancels[x]
    BY <1>6
  <2>. QED  BY <1>5, <1>7, <2>1, <2>2, OneTaskStep
<1>. QED  BY <1>3, <1>8 DEF ProgressInv

LEMMA EndShows ==
  ASSUME Parts, ProgressInv, NEW s \in Runs, End(s) PROVE ProgressInv'
<1>1. PICK t \in issued : t = runs[s].task
  BY DEF Parts, RunsFit, End
<1>2. PICK task \in {Done(tasks[t]), Crashed(tasks[t])} : tasks' = Updated(t, task)
  BY <1>1 DEF End
<1>3. UNCHANGED <<epoch, cancels>> /\ t \in Tasks /\ runs' = [runs EXCEPT ![s] = NoRun]
  BY <1>1 DEF End, Parts
<1>4. runs'[s].task = NoTask /\ \A r \in Runs \ {s} : runs'[r] = runs[r]
  BY <1>3 DEF Parts, RunsFit, NoRun
<1>5. \A x \in DOMAIN tasks' \ {t} : \A r \in RunsIn(runs', x) : r \in RunsIn(runs, x) /\ runs'[r] = runs[r]
  <2>1. \A x \in DOMAIN tasks' : x # NoTask
    BY <1>2, Constants DEF Parts, TasksFit, Updated, Found, Store
  <2>. QED  BY <1>4, <2>1 DEF RunsIn
<1>6. DOMAIN tasks' = DOMAIN tasks /\ \A x \in DOMAIN tasks' \ {t} : tasks'[x] = tasks[x]
  BY <1>2 DEF Updated, Found, Store
<1>7. ASSUME t \in DOMAIN tasks'
      PROVE  /\ tasks'[t].home \in Nat /\ tasks'[t].home <= epoch
             /\ cancels[t] = 0 => Shows(tasks'[t], epoch, runs', t)
  <2>1. /\ tasks[t] \in Task /\ tasks[t].home \in Nat /\ tasks[t].home <= epoch
    BY <1>6, <1>7 DEF Parts, TasksFit, ProgressInv, Shown
  <2>2. \/ tasks'[t] = tasks[t] /\ tasks[t].home # epoch
        \/ /\ tasks'[t].home = tasks[t].home
           /\ tasks'[t].status = Completed => tasks'[t].progress = 100
    BY <1>2, <1>6, <1>7, <2>1, EndFields DEF Updated, Found, Store
  <2>3. ASSUME cancels[t] = 0 PROVE Shows(tasks'[t], epoch, runs', t)
    <3>1. s \in RunsIn(runs, t)
      BY <1>1 DEF RunsIn
    <3>2. t \in runningTasks /\ \A r \in RunsIn(runs, t) : r = s
      BY <1>3, <2>3, <3>1, SingleRun
    <3>3. tasks[t].status # Completed
      BY <1>6, <1>7, <3>2 DEF Parts, Keyed, Running, Completed
    <3>4. ASSUME NEW r \in RunsIn(runs', t) PROVE FALSE
      <4>1. r # s /\ r \in RunsIn(runs, t)
        BY <1>3, <1>4, <3>4, Constants DEF RunsIn
      <4>. QED  BY <3>2, <4>1
    <3>. QED  BY <2>2, <3>3, <3>4 DEF Shows
  <2>. QED  BY <2>1, <2>2, <2>3
<1>8. Shown(tasks', epoch, runs', cancels)
  <2>1. Shown(tasks, epoch, runs, cancels) /\ DOMAIN tasks' \subseteq DOMAIN tasks \cup {t}
    BY <1>6 DEF ProgressInv
  <2>2. \A x \in DOMAIN tasks' \ {t} : tasks'[x] = tasks[x] /\ cancels[x] = cancels[x]
    BY <1>6
  <2>. QED  BY <1>5, <1>7, <2>1, <2>2, OneTaskStep
<1>. QED  BY <1>3, <1>8 DEF ProgressInv

-----------------------------------------------------------------------------
(* The handlers. *)

LEMMA CancelRunningShows ==
  ASSUME Parts, ProgressInv, NEW t \in Tasks, CancelRunningTask(t), UNCHANGED <<epoch, runs>>
  PROVE  ProgressInv'
<1>1. t \in runningTasks /\ cancels' = [cancels EXCEPT ![t] = @ + 1]
  BY DEF CancelRunningTask
<1>2. cancels'[t] # 0 /\ \A x \in Tasks \ {t} : cancels'[x] = cancels[x]
  BY <1>1, CancelsNat
<1>3. tasks' = Updated(t, WithProgress(WithStatus(tasks[t], Cancelled), 0))
  BY DEF CancelRunningTask
<1>4. DOMAIN tasks' = DOMAIN tasks /\ \A x \in DOMAIN tasks' \ {t} : tasks'[x] = tasks[x]
  BY <1>3 DEF Updated, Found, Store
<1>5. t \in DOMAIN tasks' => tasks'[t].home \in Nat /\ tasks'[t].home <= epoch
  <2> SUFFICES ASSUME t \in DOMAIN tasks PROVE tasks'[t].home = tasks[t].home
    BY <1>4 DEF ProgressInv, Shown
  <2>1. tasks[t] \in Task
    BY DEF Parts, TasksFit
  <2>2. WithStatus(tasks[t], Cancelled) \in Task
    BY <2>1, StatusKept DEF Good
  <2>. QED  BY <1>3, <2>2, StatusFields, ProgressFields DEF Updated, Store
<1>6. DOMAIN tasks \subseteq Tasks
  BY DEF Parts, TasksFit
<1> SUFFICES ASSUME NEW x \in DOMAIN tasks'
             PROVE  /\ tasks'[x].home \in Nat /\ tasks'[x].home <= epoch
                    /\ cancels'[x] = 0 => Shows(tasks'[x], epoch, runs, x)
  BY DEF ProgressInv, Shown
<1>7. CASE x = t
  BY <1>2, <1>5, <1>7
<1>8. CASE x # t
  BY <1>2, <1>4, <1>6, <1>8 DEF ProgressInv, Shown
<1>. QED  BY <1>7, <1>8

\* A handler that writes one task without a key into the databases.
LEMMA WriteShows ==
  ASSUME Parts, ProgressInv, NEW t \in Tasks, t \notin runningTasks, NEW task,
         task.home \in Nat, task.home <= epoch, task.status # Completed,
         tasks' = Store(tasks, t, task), UNCHANGED <<epoch, runs, cancels>>
  PROVE  ProgressInv'
<1>1. cancels[t] = 0 => Shows(task, epoch, runs, t)
  BY SingleRun DEF Shows
<1>2. Shown(tasks, epoch, runs, cancels)
  BY DEF ProgressInv
<1>3. Shown(Store(tasks, t, task), epoch, runs, cancels)
  BY <1>1, <1>2, StoreShown
<1>. QED  BY <1>3 DEF ProgressInv

\* The start of an execution: the tasks it finds show what they should, and so
\* do those it leaves.
LEMMA ExecuteShows ==
  ASSUME Parts, NEW t \in Tasks, NEW found \in BOOLEAN, NEW map, Execute(t, found, map),
         Shown(map, epoch, runs, cancels), UNCHANGED <<epoch, cancels>>,
         found => t \in DOMAIN map, \A x \in DOMAIN map : x \in Tasks /\ map[x] \in Task
  PROVE  ProgressInv'
<1>1. CASE tasks' = map /\ UNCHANGED runs
  BY <1>1 DEF ProgressInv
<1>2. ASSUME t \notin runningTasks, found
      PROVE  /\ t \in DOMAIN map /\ map[t].home \in Nat /\ map[t].home <= epoch
             /\ WithStatus(map[t], Running) \in Task
             /\ WithStatus(map[t], Running).home = map[t].home
             /\ WithStatus(map[t], Running).status # Completed
  BY <1>2, StatusKept, StatusFields DEF Shown, Good, Running, Completed
<1>3. ASSUME t \notin runningTasks, found,
             NEW s \in Runs, NEW p \in Reports \cup {0}, runs[s] = NoRun,
             runs' = [runs EXCEPT ![s] = [task |-> t, progress |-> Clamp(p)]],
             tasks' = Store(map, t, WithProgress(WithStatus(map[t], Running), p))
      PROVE  ProgressInv'
  <2> DEFINE task == WithProgress(WithStatus(map[t], Running), p)
  <2>1. /\ task.home = map[t].home /\ task.status # Completed /\ task.progress = Clamp(p)
    BY <1>2, <1>3, ProgressFields
  <2>2. tasks' = Store(map, t, task)
    BY <1>3
  <2> HIDE DEF task
  <2>3. /\ runs'[s].task = t /\ runs'[s].progress = Clamp(p)
        /\ \A r \in Runs \ {s} : runs'[r] = runs[r]
    BY <1>3 DEF Parts, RunsFit
  <2>4. /\ DOMAIN tasks' = DOMAIN map /\ tasks'[t] = task
        /\ \A x \in DOMAIN tasks' \ {t} : tasks'[x] = map[x]
    BY <1>2, <1>3, <2>2 DEF Store
  <2>5. \A x \in DOMAIN tasks' \ {t} : \A r \in RunsIn(runs', x) : r \in RunsIn(runs, x) /\ runs'[r] = runs[r]
    BY <2>3 DEF RunsIn
  <2>6. cancels[t] = 0 => Shows(task, epoch, runs', t)
    <3> SUFFICES ASSUME cancels[t] = 0, NEW r \in RunsIn(runs', t) PROVE r = s
      BY <2>1, <2>3 DEF Shows
    <3>1. r \in Runs /\ runs'[r].task = t
      BY DEF RunsIn
    <3>2. r # s => r \in RunsIn(runs, t)
      BY <2>3, <3>1 DEF RunsIn
    <3>. QED  BY <1>3, <3>2, SingleRun
  <2>7. Shown(tasks', epoch, runs', cancels)
    <3>1. DOMAIN tasks' \subseteq DOMAIN map \cup {t}
      BY <2>4
    <3>2. \A x \in DOMAIN tasks' \ {t} : tasks'[x] = map[x] /\ cancels[x] = cancels[x]
      BY <2>4
    <3>3. t \in DOMAIN tasks' => /\ tasks'[t].home \in Nat /\ tasks'[t].home <= epoch
                                 /\ cancels[t] = 0 => Shows(tasks'[t], epoch, runs', t)
      BY <1>2, <1>3, <2>1, <2>4, <2>6
    <3>. QED  BY <2>5, <3>1, <3>2, <3>3, OneTaskStep
  <2>. QED  BY <2>7 DEF ProgressInv
<1>4. ASSUME t \notin runningTasks, found, UNCHANGED runs,
             NEW task, task \in {Done(WithStatus(map[t], Running)), Crashed(WithStatus(map[t], Running))},
             tasks' = Store(map, t, task)
      PROVE  ProgressInv'
  <2>1. task.home = map[t].home /\ (task.status = Completed => task.progress = 100)
    BY <1>2, <1>4, EndFields
  <2>2. cancels[t] = 0 => Shows(task, epoch, runs, t)
    BY <1>4, <2>1, SingleRun DEF Shows
  <2>3. Shown(Store(map, t, task), epoch, runs, cancels)
    BY <1>2, <1>4, <2>1, <2>2, StoreShown
  <2>. QED  BY <1>4, <2>3 DEF ProgressInv
<1>. QED  BY <1>1, <1>3, <1>4 DEF Execute

\* The database a request holds is one that the session has or has had.
LEMMA RequestHome ==
  ASSUME Parts, NEW r \in Requests, Respond(r)
  PROVE  requests[r] \in Nat /\ requests[r] <= epoch /\ epoch' = epoch
BY Constants DEF Parts, Respond, RequestsFit, Free

LEMMA FoundShows ==
  ASSUME Parts, ProgressInv, NEW t, NEW db, Found(t, db)
  PROVE  tasks[t] \in Task /\ tasks[t].home \in Nat /\ tasks[t].home <= epoch
BY DEF Parts, TasksFit, ProgressInv, Shown, Found

\* A new task, unseen before or tried again.
LEMMA NewTaskFields ==
  \A db : NewTask(db).home = db /\ NewTask(db).status # Completed
BY DEF NewTask, Pending, Completed

LEMMA CreateShows ==
  ASSUME Parts, ProgressInv, NEW r \in Requests, NEW t \in Tasks,
         CreateTask(r, t) \/ CreateSampleTask(r, t)
  PROVE  ProgressInv'
<1> DEFINE map == Store(tasks, t, NewTask(requests[r]))
<1>1. /\ Respond(r) /\ t \notin issued /\ t \notin runningTasks /\ cancels' = cancels
      /\ requests[r] \in Nat /\ requests[r] <= epoch /\ epoch' = epoch
      /\ requests[r] \in 1 .. MaxEpochs
  BY RequestHome, HandlerRequests DEF CreateTask, CreateSampleTask, Parts
<1>2. CASE CreateTask(r, t)
  BY <1>1, <1>2, NewTaskFields, WriteShows DEF CreateTask
<1>3. CASE CreateSampleTask(r, t)
  <2>1. Execute(t, requests[r] = epoch, map)
    BY <1>3 DEF CreateSampleTask
  <2>2. TasksFit(map, issued \cup {t}) /\ t \in DOMAIN map
    BY <1>1, NewTaskFits
  <2>3. Shown(map, epoch, runs, cancels)
    <3>1. cancels[t] = 0 => Shows(NewTask(requests[r]), epoch, runs, t)
      BY <1>1, SingleRun, NewTaskFields DEF Shows
    <3>. QED  BY <1>1, <3>1, NewTaskFields, StoreShown DEF ProgressInv
  <2> HIDE DEF map
  <2>4. \A x \in DOMAIN map : x \in Tasks /\ map[x] \in Task
    BY <2>2 DEF TasksFit, Parts
  <2>5. (requests[r] = epoch) \in BOOLEAN
    OBVIOUS
  <2>. QED  BY <1>1, <2>1, <2>2, <2>3, <2>4, <2>5, ExecuteShows
<1>. QED  BY <1>2, <1>3

LEMMA ExecuteTaskShows ==
  ASSUME Parts, ProgressInv, NEW r \in Requests, NEW t \in Tasks, ExecuteTask(r, t)
  PROVE  ProgressInv'
<1>1. Respond(r) /\ Execute(t, Found(t, epoch), tasks) /\ cancels' = cancels
  BY DEF ExecuteTask
<1>2. epoch' = epoch
  BY <1>1, RequestHome
<1>3. Found(t, epoch) \in BOOLEAN /\ (Found(t, epoch) => t \in DOMAIN tasks)
  BY DEF Found
<1>4. \A x \in DOMAIN tasks : x \in Tasks /\ tasks[x] \in Task
  BY DEF Parts, TasksFit
<1>5. Shown(tasks, epoch, runs, cancels)
  BY DEF ProgressInv
<1>. QED  BY <1>1, <1>2, <1>3, <1>4, <1>5, ExecuteShows

LEMMA RewriteShows ==
  ASSUME Parts, ProgressInv, NEW r \in Requests, NEW t \in Tasks,
         StartTask(r, t) \/ RetryTask(r, t) \/ CancelTask(r, t)
  PROVE  ProgressInv'
<1>1. Respond(r) /\ UNCHANGED runs
  BY DEF StartTask, RetryTask, CancelTask
<1>2. requests[r] \in Nat /\ requests[r] <= epoch /\ epoch' = epoch
  BY <1>1, RequestHome
<1>3. Found(t, requests[r]) => tasks[t].home \in Nat /\ tasks[t].home <= epoch
  BY FoundShows
<1>4. CASE StartTask(r, t)
  BY <1>2, <1>3, <1>4, StatusFields, WriteShows DEF StartTask, Running, Completed
<1>5. CASE RetryTask(r, t)
  <2>1. t \notin runningTasks
    BY <1>5 DEF RetryTask, Found, Parts, Keyed, Running, Failed, Cancelled
  <2>. QED  BY <1>2, <1>5, <2>1, NewTaskFields, WriteShows DEF RetryTask
<1>6. CASE CancelTask(r, t)
  <2>1. CASE CancelRunningTask(t)
    BY <1>1, <1>2, <2>1, CancelRunningShows
  <2>2. CASE ~CancelRunningTask(t)
    <3>1. /\ t \notin runningTasks /\ Found(t, requests[r]) /\ cancels' = cancels
          /\ tasks' = Store(tasks, t, WithStatus(tasks[t], Cancelled))
      BY <1>6, <2>2 DEF CancelTask
    <3>. QED  BY <1>1, <1>2, <1>3, <3>1, StatusFields, WriteShows DEF Cancelled, Completed
  <2>. QED  BY <2>1, <2>2
<1>. QED  BY <1>4, <1>5, <1>6

LEMMA DeleteShows ==
  ASSUME Parts, ProgressInv, NEW r \in Requests, NEW t \in Tasks, DeleteTask(r, t)
  PROVE  ProgressInv'
<1>1. /\ UNCHANGED <<epoch, runs, cancels>>
      /\ tasks' = [x \in DOMAIN tasks \ {t} |-> tasks[x]]
  BY RequestHome DEF DeleteTask
<1>. QED  BY <1>1 DEF ProgressInv, Shown

LEMMA ProgressNext == Parts /\ ProgressInv /\ [Next]_vars => ProgressInv'
<1> SUFFICES ASSUME Parts, ProgressInv, [Next]_vars PROVE ProgressInv'
  OBVIOUS
<1>1. CASE LoseSession
  BY <1>1, LoseSessionShows
<1>2. CASE CancelAllRunningTasks
  BY <1>2, CancelAllShows
<1>3. ASSUME NEW s \in Runs, Report(s) \/ End(s) PROVE ProgressInv'
  BY <1>3, ReportShows, EndShows
<1>4. ASSUME NEW r \in Requests, Arrive(r) \/ Answer(r) PROVE ProgressInv'
  <2>1. UNCHANGED <<epoch, tasks, runs, cancels>>
    BY <1>4 DEF Arrive, Answer, Respond
  <2>. QED  BY <2>1 DEF ProgressInv
<1>5. ASSUME NEW r \in Requests, Handle(r) PROVE ProgressInv'
  BY <1>4, <1>5, CreateShows, ExecuteTaskShows, RewriteShows, DeleteShows DEF Handle
<1>6. CASE UNCHANGED vars
  BY <1>6 DEF vars, ProgressInv
<1>. QED  BY <1>1, <1>2, <1>3, <1>4, <1>5, <1>6 DEF Next

\* As long as none of its executions was cancelled, a task shows what its
\* execution reported last (updateTaskProgress), and all of it once completed.
THEOREM ProgressIsReported == Spec => []ProgressIsTheRuns
<1>1. ProgressInv => ProgressIsTheRuns
  <2>1. \A t : RunsOf(t) = RunsIn(runs, t)
    BY DEF RunsOf, RunsIn
  <2>. QED  BY <2>1 DEF ProgressInv, Shown, Shows, ProgressIsTheRuns
<1>2. Spec => [](Parts /\ ProgressInv)
  BY PartsInit, PartsNext, ProgressInit, ProgressNext, PTL DEF Spec
<1>. QED  BY <1>1, <1>2, PTL

=============================================================================
