--------------------------- MODULE TaskRetention ----------------------------
(***************************************************************************)
(* TaskCleanupService (src/src/task/task-cleanup-service.ts) over the      *)
(* session databases: of the finished tasks of a session it keeps the      *)
(* newest.  It reaches the databases through getDatabase, as requests and  *)
(* executions do, so a cleanup run also uses, removes, creates and evicts  *)
(* sessions.                                                               *)
(*                                                                         *)
(* runCleanup awaits nothing that is pending: a run is one step, and its   *)
(* isRunning flag is never seen set.  The clock may advance during a run.  *)
(***************************************************************************)
EXTENDS Sessions

CONSTANTS
  MaxCompletedTasks,  \* options.maxCompletedTasks
  MaxFailedTasks,     \* options.maxFailedTasks
  MaxTasks,           \* bound of the tasks ever created
  MaxTime,            \* bound of the clock
  MaxInstances        \* bound of the databases ever created

ASSUME RetentionAssumption ==
  /\ MaxCompletedTasks \in Nat
  /\ MaxFailedTasks \in Nat
  /\ MaxTasks \in Nat
  /\ MaxTime \in Nat \ {0}
  /\ MaxInstances \in Nat

Unset == 0

\* Tasks are numbered as they are created, which is their order in the table.
\* "unfinished" is any status but completed and failed; failedAt is updatedAt,
\* which only matters for a failed task.  The last two fields are history, which
\* no step reads: when the task completed last, and whether that was not for the
\* first time, since it was created or retried.
Task ==
  [id : 1 .. MaxTasks, db : 1 .. MaxInstances, sessionKey : Keys,
   status : {"unfinished", "completed", "failed"},
   completedAt : Unset .. MaxTime, failedAt : Unset .. MaxTime,
   lastCompleted : Unset .. MaxTime, completedAgain : BOOLEAN]

VARIABLES
  now,       \* Date.now()
  factory,   \* the DatabaseFactory
  tasks,     \* the tasks in the databases of the factory
  created,   \* the number of tasks created
  cleaned    \* history: the last step was a cleanup run

vars == <<now, factory, tasks, created, cleaned>>

TypeOK ==
  /\ now \in 1 .. MaxTime
  /\ IsFactory(factory)
  /\ tasks \in SUBSET Task /\ \A t, u \in tasks : t.id = u.id => t = u
  /\ created \in 0 .. MaxTasks
  /\ cleaned \in BOOLEAN

Init ==
  /\ now = 1
  /\ factory = NoSessions
  /\ tasks = {}
  /\ created = 0
  /\ cleaned = FALSE

-----------------------------------------------------------------------------

\* The tasks that are left when only factory f leads to a database.
Reachable(f, ts) == {t \in ts : \E s \in ActiveSessions(f) : f.databases[s] = t.db}

(* Plausible mistakes, one per definition they replace in a mutated model. *)

KeptOneMore(status) == 1 + IF status = "completed" THEN MaxCompletedTasks ELSE MaxFailedTasks

\* What the two sorts compare, newest first.
SortTime(t) == IF t.status = "completed" THEN t.completedAt ELSE t.failedAt

\* The two sorts are stable, so equal times keep the order of the table.
SortsBefore(t, u) == SortTime(t) > SortTime(u) \/ (SortTime(t) = SortTime(u) /\ t.id < u.id)

Kept(status) == IF status = "completed" THEN MaxCompletedTasks ELSE MaxFailedTasks

\* cleanupSessionTasks: what is beyond the newest of the finished tasks.  It
\* looks for tasks by the session id, the normal form of their session key.
Surplus(ts, db, key) ==
  LET Peers(t) == {u \in ts : u.db = db /\ u.sessionKey = key /\ u.status = t.status}
  IN  {t \in ts : /\ t.status # "unfinished"
                  /\ t \in Peers(t)
                  /\ Cardinality({u \in Peers(t) : SortsBefore(u, t)}) >= Kept(t.status)}

\* One session of a cleanup run.
CleanSession(state, s, time) ==
  LET f == GetDatabase(state.factory, s, time)
      ts == Reachable(f, state.tasks)
  IN  [factory |-> f, tasks |-> ts \ Surplus(ts, DatabaseOf(f, s), s)]

\* getActiveSessions, in the order of the Map.
SessionOrder(f) ==
  CHOOSE order \in [1 .. Size(f) -> ActiveSessions(f)] :
    \A i, j \in 1 .. Size(f) : i < j => f.databases[order[i]] < f.databases[order[j]]

\* The sessions of an order one after the other, the i-th at time[i].
CleanSessions(start, n, order, time) ==
  LET state[i \in 0 .. n] ==
        IF i = 0 THEN start ELSE CleanSession(state[i - 1], order[i], time[i])
  IN  state[n]

\* The sessions after the first i are visited when the clock has advanced.
RunCleanup ==
  \E i \in 0 .. Size(factory) :
    LET time == [j \in 1 .. Size(factory) |-> IF j <= i THEN now ELSE now + 1]
        last == CleanSessions([factory |-> factory, tasks |-> tasks], Size(factory),
                              SessionOrder(factory), time)
    IN  /\ now' = IF i = Size(factory) THEN now ELSE now + 1
        /\ now' <= MaxTime
        /\ last.factory.created <= MaxInstances
        /\ factory' = last.factory
        /\ tasks' = last.tasks
        /\ cleaned' = TRUE
        /\ UNCHANGED created

-----------------------------------------------------------------------------
(* The requests and executions that use the sessions. *)

\* getDatabase(key), by a request or an execution.
Use(key) ==
  LET f == GetDatabase(factory, key, now) IN
  /\ f.created <= MaxInstances
  /\ factory' = f
  /\ cleaned' = FALSE
  /\ UNCHANGED now

UseOnly(key) ==
  /\ Use(key)
  /\ tasks' = Reachable(factory', tasks)
  /\ UNCHANGED created

CreateTask(key) ==
  /\ Use(key)
  /\ created < MaxTasks
  /\ created' = created + 1
  /\ tasks' = Reachable(factory', tasks)
                \cup {[id |-> created', db |-> DatabaseOf(factory', key), sessionKey |-> key,
                       status |-> "unfinished", completedAt |-> Unset, failedAt |-> Unset,
                       lastCompleted |-> Unset, completedAgain |-> FALSE]}

\* updateTaskProgress of an execution: the time of the first completion stays.
Finished(t, status) ==
  [t EXCEPT !.status = status,
            !.completedAt = IF status = "completed" /\ @ = Unset THEN now ELSE @,
            !.failedAt = IF status = "failed" THEN now ELSE Unset,
            !.lastCompleted = IF status = "completed" THEN now ELSE @,
            !.completedAgain = @ \/ (status = "completed" /\ t.lastCompleted # Unset)]

\* A mistaken one that stores a copy of the task.
StoreCopy(t, u) ==
  /\ Use(t.sessionKey)
  /\ tasks' = Reachable(factory', tasks) \cup {u}
  /\ UNCHANGED created

\* The task is looked up in the database of its session and stored as u.
Store(t, u) ==
  /\ Use(t.sessionKey)
  /\ tasks' = LET ts == Reachable(factory', tasks)
              IN  IF t \in ts THEN (ts \ {t}) \cup {u} ELSE ts
  /\ UNCHANGED created

\* A mistaken retry that forgets to clear completedAt.
RetryTaskKeepingTime(t) ==
  /\ t.status # "completed"
  /\ Store(t, [t EXCEPT !.status = "unfinished", !.failedAt = Unset,
                        !.lastCompleted = Unset, !.completedAgain = FALSE])

\* An execution starts, completes or fails, and may do so beside another one of the
\* same task: what finished may start or finish again.  A late report of progress
\* makes a failed task updated now, as if it failed again.
UpdateTask(t, status) ==
  /\ ~(t.status = "unfinished" /\ status = "unfinished")
  /\ Store(t, Finished(t, status))

\* POST /tasks/:id/retry, of a failed or a cancelled task.
RetryTask(t) ==
  /\ t.status # "completed"
  /\ Store(t, [t EXCEPT !.status = "unfinished", !.completedAt = Unset, !.failedAt = Unset,
                        !.lastCompleted = Unset, !.completedAgain = FALSE])

\* DELETE /cms/tasks/:id
DeleteTask(t) ==
  /\ Use(t.sessionKey)
  /\ tasks' = Reachable(factory', tasks) \ {t}
  /\ UNCHANGED created

\* DELETE /sessions/:sessionKey
DeleteSession(key) ==
  /\ Normalize[key] \in ActiveSessions(factory)
  /\ factory' = RemoveSession(factory, key)
  /\ tasks' = Reachable(factory', tasks)
  /\ cleaned' = FALSE
  /\ UNCHANGED <<now, created>>

Tick ==
  /\ now < MaxTime
  /\ now' = now + 1
  /\ cleaned' = FALSE
  /\ UNCHANGED <<factory, tasks, created>>

Next ==
  \/ Tick \/ RunCleanup
  \/ \E key \in Keys : UseOnly(key) \/ CreateTask(key) \/ DeleteSession(key)
  \/ \E t \in tasks, status \in {"unfinished", "completed", "failed"} : UpdateTask(t, status)
  \/ \E t \in tasks : RetryTask(t) \/ DeleteTask(t)

Spec == Init /\ [][Next]_vars

-----------------------------------------------------------------------------
(* Properties *)

\* When a finished task came to its status last, or was updated in it.
FinishedAt(t) == IF t.status = "completed" THEN t.lastCompleted ELSE t.failedAt

\* The sort does not see when this one finished: completedAt is of an earlier time.
Misdated(t) == t.status = "completed" /\ t.completedAgain

\* "Keep only N most recent" (src/src/task/types.ts:57): a run deletes a task that it
\* does not take with its database only when it is finished and as many of its
\* session and status as may be kept finished no earlier and stay.  Not so of a task
\* that completed more than once since it was created or retried: completedAt keeps
\* the first time (src/src/task/task-execution-service.ts:81), so it is deleted
\* before tasks that finished earlier; only that as many stay is true of it.
NewestAreKept ==
  [][\A t \in tasks :
       /\ cleaned' /\ \A u \in tasks' : u.id # t.id
       /\ \E s \in ActiveSessions(factory') : factory'.databases[s] = t.db
       => /\ t.status # "unfinished"
          /\ Cardinality({u \in tasks' :
                            /\ u.db = t.db /\ u.sessionKey = t.sessionKey
                            /\ u.status = t.status
                            /\ Misdated(t) \/ FinishedAt(u) >= FinishedAt(t)})
               >= Kept(t.status)]_vars

\* After a run no session has too many finished tasks under its session id, and
\* a second run would delete nothing more.
CleanupIsThorough ==
  cleaned =>
    \A s \in ActiveSessions(factory) :
      /\ \A status \in {"completed", "failed"} :
           Cardinality({t \in tasks : t.db = factory.databases[s] /\ t.sessionKey = s
                                        /\ t.status = status})
             <= IF status = "completed" THEN MaxCompletedTasks ELSE MaxFailedTasks
      /\ Surplus(tasks, factory.databases[s], s) = {}

\* A run that finds no more sessions than maxSessions ends with the same ones,
\* and none that is not expired by then has lost its database, whatever expired
\* sessions the run created again on the way.
CleanupSparesSessions ==
  [][cleaned' /\ Size(factory) <= MaxSessions =>
       /\ ActiveSessions(factory') = ActiveSessions(factory)
       /\ \A s \in ActiveSessions(factory) :
            Unexpired(factory, s, now') => factory'.databases[s] = factory.databases[s]]_vars

\* "Keep only N most recent completed tasks per session"
\* (src/src/task/types.ts:57): a run leaves no session key more than that.
RetentionPerSessionKey ==
  cleaned =>
    \A key \in Keys :
      Cardinality({t \in tasks : t.sessionKey = key /\ t.status = "completed"})
        <= MaxCompletedTasks

=============================================================================
