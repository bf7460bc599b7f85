--------------------------- MODULE TaskLifecycle ----------------------------
(***************************************************************************)
(* The tasks of one session: TaskManager (src/src/task/task-manager.ts),   *)
(* TaskExecutionService (src/src/task/task-execution-service.ts) and the   *)
(* handlers of TaskAPIRoute and TaskDemoAPI that call them.                *)
(*                                                                         *)
(* TaskManager works on the database the request was given when it         *)
(* arrived, TaskExecutionService asks the factory for the session's        *)
(* database each time.  The two differ once the session was lost (expired, *)
(* evicted or deleted) in between: the databases the session has had are   *)
(* numbered, `epoch` is the one the factory would return.                  *)
(*                                                                         *)
(* A handler awaits only promises that are settled already, so it runs to  *)
(* its end, microtasks included, before the next event: one step.  An      *)
(* execution really waits inside its executor, and each of its turns is a  *)
(* step.                                                                   *)
(***************************************************************************)
EXTENDS Integers, FiniteSets

CONSTANTS
  Tasks,        \* the ids db.uuid() can draw
  Requests,     \* slots for the requests in flight
  Runs,         \* slots for the executions in flight
  Reports,      \* what executors pass to progressCallback
  MaxEpochs,    \* bound of the databases the session has
  MaxCancels    \* bound of the executions cancelled, per task

NoTask == "no task"

ASSUME LifecycleAssumption ==
  /\ NoTask \notin Tasks
  /\ IsFiniteSet(Runs)
  /\ Reports \subseteq Int
  /\ MaxEpochs \in Nat \ {0}
  /\ MaxCancels \in Nat

Pending == "pending"
Running == "running"
Completed == "completed"
Failed == "failed"
Cancelled == "cancelled"
TaskStatus == {Pending, Running, Completed, Failed, Cancelled}

\* What the properties need of a Task: the database it is in, and whether
\* error, startedAt and completedAt are set.
Task == [home : 1 .. MaxEpochs, status : TaskStatus, progress : 0 .. 100,
         error : BOOLEAN, startedAt : BOOLEAN, completedAt : BOOLEAN]

\* An execution waiting in its executor, with the progress it last reported.
Run == [task : Tasks, progress : 0 .. 100]

NoRun == [task |-> NoTask, progress |-> 0]
Free == 0

VARIABLES
  epoch,         \* the session's current database
  issued,        \* the ids drawn so far
  tasks,         \* the tasks that exist, in whatever database
  runningTasks,  \* the Map of TaskExecutionService, as the set of its ids
  runs,          \* the executions in flight
  requests,      \* req.sessionDatabase of each request in flight, Free for an idle slot
  cancels        \* history: how often an execution of a task was cancelled

vars == <<epoch, issued, tasks, runningTasks, runs, requests, cancels>>

TypeOK ==
  /\ epoch \in 1 .. MaxEpochs
  /\ issued \in SUBSET Tasks
  /\ DOMAIN tasks \subseteq issued /\ tasks \in [DOMAIN tasks -> Task]
  /\ runningTasks \subseteq issued
  /\ runs \in [Runs -> Run \cup {NoRun}]
  /\ \A s \in Runs : runs[s] # NoRun => runs[s].task \in issued
  /\ requests \in [Requests -> 0 .. epoch]
  /\ cancels \in [Tasks -> 0 .. MaxCancels]

Init ==
  /\ epoch = 1
  /\ issued = {}
  /\ tasks = <<>>
  /\ runningTasks = {}
  /\ runs = [s \in Runs |-> NoRun]
  /\ requests = [r \in Requests |-> Free]
  /\ cancels = [t \in Tasks |-> 0]

RunsOf(t) == {s \in Runs : runs[s].task = t}

-----------------------------------------------------------------------------
(* What the code writes into a task. *)

Clamp(p) == IF p < 0 THEN 0 ELSE IF p > 100 THEN 100 ELSE p

NewTask(db) ==
  [home |-> db, status |-> Pending, progress |-> 0,
   error |-> FALSE, startedAt |-> FALSE, completedAt |-> FALSE]

Store(map, t, task) == [x \in DOMAIN map \cup {t} |-> IF x = t THEN task ELSE map[x]]

\* findById in database db
Found(t, db) == t \in DOMAIN tasks /\ tasks[t].home = db

(* Plausible mistakes, one per definition they replace in a mutated model. *)

WithProgressUnclamped(task, p) == [task EXCEPT !.progress = p]

\* The upsert of createOrUpdate without the check before it.
UpdatedUnchecked(t, task) ==
  Store(tasks, t, IF t \in DOMAIN tasks THEN task ELSE NewTask(epoch))

\* The database found when the execution started, kept instead of asked for.
UpdatedInOldDatabase(t, task) == IF t \in DOMAIN tasks THEN Store(tasks, t, task) ELSE tasks

WithStatusOnly(task, status) == [task EXCEPT !.status = status]

WithStatus(task, status) ==
  [home |-> task.home, status |-> status, progress |-> task.progress, error |-> task.error,
   startedAt   |-> task.startedAt \/ status = Running,
   completedAt |-> task.completedAt \/ status = Completed]

WithProgress(task, p) == [task EXCEPT !.progress = Clamp(p)]

\* updateTaskProgress: on the session's current database, and only if the task
\* is there.
Updated(t, task) == IF Found(t, epoch) THEN Store(tasks, t, task) ELSE tasks

\* The two ends of an execution.
Done(task) == WithProgress(WithStatus(task, Completed), 100)
Crashed(task) == WithProgress([WithStatus(task, Failed) EXCEPT !.error = TRUE], 0)

-----------------------------------------------------------------------------
(* The session. *)

\* SessionDatabaseMiddleware.
Arrive(r) ==
  /\ requests[r] = Free
  /\ requests' = [requests EXCEPT ![r] = epoch]
  /\ UNCHANGED <<epoch, issued, tasks, runningTasks, runs, cancels>>

\* The factory drops the session's database; the next getDatabase makes another.
LoseSession ==
  /\ epoch < MaxEpochs
  /\ epoch' = epoch + 1
  /\ UNCHANGED <<issued, tasks, runningTasks, runs, requests, cancels>>

-----------------------------------------------------------------------------
(* TaskExecutionService. *)

\* executeTask up to the first wait, given the tasks in the databases and
\* whether the session's own has this one.
\* The executor may report progress before it waits, as SampleExecutor does, or
\* end without waiting, as BatchProcessingExecutor with no items.
Execute(t, found, map) ==
  \/ /\ t \in runningTasks \/ ~found
     /\ tasks' = map
     /\ UNCHANGED <<runningTasks, runs>>
  \/ /\ t \notin runningTasks /\ found
     /\ runningTasks' = runningTasks \cup {t}
     /\ \E s \in Runs, p \in Reports \cup {0} :
          /\ runs[s] = NoRun
          /\ runs' = [runs EXCEPT ![s] = [task |-> t, progress |-> Clamp(p)]]
          /\ tasks' = Store(map, t, WithProgress(WithStatus(map[t], Running), p))
  \/ /\ t \notin runningTasks /\ found
     /\ LET started == WithStatus(map[t], Running)
        IN  tasks' \in {Store(map, t, Done(started)), Store(map, t, Crashed(started))}
     /\ UNCHANGED <<runningTasks, runs>>

\* A turn of the executor that ends in another wait.
Report(s) ==
  /\ runs[s] # NoRun
  /\ \E p \in Reports :
       LET t == runs[s].task IN
       /\ runs' = [runs EXCEPT ![s] = [task |-> t, progress |-> Clamp(p)]]
       /\ tasks' = Updated(t, WithProgress(tasks[t], p))
  /\ UNCHANGED <<epoch, issued, runningTasks, requests, cancels>>

\* Mistaken ends: without the finally clause, and without the last update.
EndKeepingKey(s) ==
  /\ runs[s] # NoRun
  /\ LET t == runs[s].task IN
       tasks' = Updated(t, Done(tasks[t]))
  /\ runs' = [runs EXCEPT ![s] = NoRun]
  /\ UNCHANGED <<epoch, issued, runningTasks, requests, cancels>>

EndUnrecorded(s) ==
  /\ runs[s] # NoRun
  /\ runningTasks' = runningTasks \ {runs[s].task}
  /\ runs' = [runs EXCEPT ![s] = NoRun]
  /\ UNCHANGED <<epoch, issued, tasks, requests, cancels>>

\* The executor resolves or throws: the task gets its last update, and the
\* finally clause deletes the task's key, whoever set it.
End(s) ==
  /\ runs[s] # NoRun
  /\ LET t == runs[s].task IN
       /\ tasks' \in {Updated(t, Done(tasks[t])), Updated(t, Crashed(tasks[t]))}
       /\ runningTasks' = runningTasks \ {t}
  /\ runs' = [runs EXCEPT ![s] = NoRun]
  /\ UNCHANGED <<epoch, issued, requests, cancels>>

\* cancelRunningTask, when it finds the key.  The executor is not told.
CancelRunningTask(t) ==
  /\ t \in runningTasks
  /\ cancels[t] < MaxCancels
  /\ runningTasks' = runningTasks \ {t}
  /\ tasks' = Updated(t, WithProgress(WithStatus(tasks[t], Cancelled), 0))
  /\ cancels' = [cancels EXCEPT ![t] = @ + 1]

\* cancelAllRunningTasks, called by Server.cleanup.  (It splits each key at ":",
\* and would find none if the session key had one; here it has none.)
CancelAllRunningTasks ==
  /\ runningTasks # {}
  /\ \A t \in runningTasks : cancels[t] < MaxCancels
  /\ runningTasks' = {}
  /\ tasks' = [t \in DOMAIN tasks |->
                 IF t \in runningTasks /\ Found(t, epoch)
                 THEN WithProgress(WithStatus(tasks[t], Cancelled), 0)
                 ELSE tasks[t]]
  /\ cancels' = [t \in Tasks |-> IF t \in runningTasks THEN cancels[t] + 1 ELSE cancels[t]]
  /\ UNCHANGED <<epoch, issued, runs, requests>>

-----------------------------------------------------------------------------
(* The handlers.  Each works on the database the request holds and frees it. *)

Respond(r) ==
  /\ requests[r] # Free
  /\ requests' = [requests EXCEPT ![r] = Free]
  /\ UNCHANGED epoch

\* POST /tasks
CreateTask(r, t) ==
  /\ Respond(r)
  /\ t \in Tasks \ issued
  /\ issued' = issued \cup {t}
  /\ tasks' = Store(tasks, t, NewTask(requests[r]))
  /\ UNCHANGED <<runningTasks, runs, cancels>>

\* POST /demo/tasks/sample and its siblings: create and execute at once.
CreateSampleTask(r, t) ==
  /\ Respond(r)
  /\ t \in Tasks \ issued
  /\ issued' = issued \cup {t}
  /\ Execute(t, requests[r] = epoch, Store(tasks, t, NewTask(requests[r])))
  /\ UNCHANGED cancels

\* A mistaken one that does not ask isTaskRunning.
ExecuteTaskUnchecked(r, t) ==
  /\ Respond(r)
  /\ Found(t, requests[r])
  /\ \E s \in Runs :
       /\ runs[s] = NoRun
       /\ runs' = [runs EXCEPT ![s] = [task |-> t, progress |-> 0]]
  /\ runningTasks' = runningTasks \cup {t}
  /\ tasks' = Updated(t, WithProgress(WithStatus(tasks[t], Running), 0))
  /\ UNCHANGED <<issued, cancels>>

\* POST /demo/tasks/:id/execute
ExecuteTask(r, t) ==
  /\ Respond(r)
  /\ Found(t, requests[r]) /\ t \notin runningTasks
  /\ Execute(t, Found(t, epoch), tasks)
  /\ UNCHANGED <<issued, cancels>>

\* POST /tasks/:id/start marks the task, and executes nothing.
StartTask(r, t) ==
  /\ Respond(r)
  /\ Found(t, requests[r]) /\ t \notin runningTasks
  /\ tasks' = Store(tasks, t, WithStatus(tasks[t], Running))
  /\ UNCHANGED <<issued, runningTasks, runs, cancels>>

\* The two branches of the handler in the other order.
CancelTaskFirst(r, t) ==
  /\ Respond(r)
  /\ Found(t, requests[r]) /\ tasks[t].status \in {Pending, Running}
  /\ tasks' = Store(tasks, t, WithStatus(tasks[t], Cancelled))
  /\ UNCHANGED <<issued, runningTasks, runs, cancels>>

\* POST /tasks/:id/cancel: the execution if there is one, else the task.
CancelTask(r, t) ==
  /\ Respond(r)
  /\ \/ CancelRunningTask(t)
     \/ /\ t \notin runningTasks
        /\ Found(t, requests[r]) /\ tasks[t].status \in {Pending, Running}
        /\ tasks' = Store(tasks, t, WithStatus(tasks[t], Cancelled))
        /\ UNCHANGED <<runningTasks, cancels>>
  /\ UNCHANGED <<issued, runs>>

\* POST /tasks/:id/retry
RetryTask(r, t) ==
  /\ Respond(r)
  /\ Found(t, requests[r]) /\ tasks[t].status \in {Failed, Cancelled}
  /\ tasks' = Store(tasks, t, NewTask(requests[r]))
  /\ UNCHANGED <<issued, runningTasks, runs, cancels>>

\* TaskManager.deleteTask, reached as DELETE /cms/tasks/:id
DeleteTask(r, t) ==
  /\ Respond(r)
  /\ Found(t, requests[r])
  /\ tasks' = [x \in DOMAIN tasks \ {t} |-> tasks[x]]
  /\ UNCHANGED <<issued, runningTasks, runs, cancels>>

\* The reads, and every handler that answers an error.
Answer(r) == Respond(r) /\ UNCHANGED <<issued, tasks, runningTasks, runs, cancels>>

Handle(r) ==
  \/ Answer(r)
  \/ \E t \in Tasks :
       \/ CreateTask(r, t) \/ CreateSampleTask(r, t) \/ ExecuteTask(r, t)
       \/ StartTask(r, t) \/ CancelTask(r, t) \/ RetryTask(r, t) \/ DeleteTask(r, t)

Next ==
  \/ LoseSession \/ CancelAllRunningTasks
  \/ \E s \in Runs : Report(s) \/ End(s)
  \/ \E r \in Requests : Arrive(r) \/ Handle(r)

\* Executors are finite loops over timers, so each of them ends.
Fairness == \A s \in Runs : WF_vars(End(s))

Spec == Init /\ [][Next]_vars /\ Fairness

-----------------------------------------------------------------------------
(* Properties *)

\* A key of runningTasks belongs to an execution in flight: no task is refused
\* as "already running" for ever.
KeyHasRun == \A t \in runningTasks : RunsOf(t) # {}

\* Executions of one task overlap only as far as earlier ones were cancelled:
\* cancelling takes the key away from an execution that goes on.
OverlapNeedsCancel == \A t \in Tasks : Cardinality(RunsOf(t)) <= cancels[t] + 1

\* A task whose key is held shows "running", whatever stale requests, session
\* losses and executions that outlived their cancellation did meanwhile.
KeyedTaskIsRunning ==
  \A t \in runningTasks \cap DOMAIN tasks : tasks[t].status = Running

Fits(task) ==
  /\ task.status = Pending => ~(task.error \/ task.startedAt \/ task.completedAt)
  /\ task.status = Running => task.startedAt
  /\ task.status = Completed => task.completedAt
  /\ task.status = Failed => task.error

\* The fields agree with the status: nothing is left over in a pending task, and
\* the others have what getTaskStatus reports for them.
FieldsFitStatus == \A t \in DOMAIN tasks : Fits(tasks[t])

\* Until one of its executions was cancelled, a task in the session's database
\* shows the progress its execution reported last, and all of it once completed.
ProgressIsTheRuns ==
  \A t \in DOMAIN tasks : cancels[t] = 0 =>
    /\ tasks[t].home = epoch =>
         \A s \in RunsOf(t) : tasks[t].progress = runs[s].progress
    /\ tasks[t].status = Completed => tasks[t].progress = 100

\* A deleted task stays deleted, even if an execution of it is still in flight.
DeletedForGood == [][\A t \in issued : t \in DOMAIN tasks' => t \in DOMAIN tasks]_vars

\* A task left behind in a database the session has lost is touched only by a
\* request that got that database when it arrived.
LostTasksKeepStill ==
  [][\A t \in DOMAIN tasks :
       \/ tasks[t].home = epoch
       \/ t \in DOMAIN tasks' /\ tasks'[t] = tasks[t]
       \/ \E r \in Requests : requests[r] = tasks[t].home /\ requests'[r] = Free]_vars

\* A task with an execution under way gets to a final state, unless it is gone.
ExecutionsSettle ==
  \A t \in Tasks :
    t \in runningTasks
      ~> \/ t \notin DOMAIN tasks \/ tasks[t].home # epoch
         \/ tasks[t].status \in {Completed, Failed, Cancelled}

\* OverlapNeedsCancel made inductive: an execution without the key was cancelled.
KeylessRunsWereCancelled ==
  \A t \in Tasks :
    Cardinality(RunsOf(t)) <= cancels[t] + (IF t \in runningTasks THEN 1 ELSE 0)

LifecycleInv ==
  /\ TypeOK
  /\ KeyHasRun
  /\ KeylessRunsWereCancelled
  /\ KeyedTaskIsRunning
  /\ FieldsFitStatus

\* "should prevent duplicate execution of the same task"
\* (src/test/task-system.test.ts:202).
NoDuplicateExecution == \A t \in Tasks : Cardinality(RunsOf(t)) <= 1

=============================================================================
