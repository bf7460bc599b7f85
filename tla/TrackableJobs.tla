---------------------------- MODULE TrackableJobs ---------------------------
(***************************************************************************)
(* The persistent jobs: the job routes (src/src/routes/job.routes.ts) add  *)
(* a row to Postgres and an entry to the BullMQ queue 'main'; the          *)
(* trackable-job worker (src/src/infrastructure/workers) takes entries,    *)
(* claims the row, works and records the outcome.  The email worker takes  *)
(* entries from the same queue.                                            *)
(*                                                                         *)
(* Every await of the worker is a statement sent to Postgres: between two  *)
(* of them other processes act.  A statement may fail, and may fail after  *)
(* it was applied.  BullMQ is modelled as the code uses it: an entry is    *)
(* held by the worker that took it while the worker's lock lasts, is taken *)
(* again when the lock expires, and is retried when the processor throws.  *)
(* How long a job works and how long a retry is delayed is left out.       *)
(***************************************************************************)
EXTENDS Integers, FiniteSets

CONSTANTS
  Jobs,         \* the ids prisma.job.create can draw
  Workers,      \* the trackable-job workers, one in each server process
  Attempts,     \* the option attempts of queue.add
  MaxStalls,    \* BullMQ's maxStalledCount
  MaxFaults     \* bound of the crashes, failed statements and expired locks

ASSUME JobsAssumption ==
  /\ Attempts \in Nat \ {0}
  /\ MaxStalls \in Nat
  /\ MaxFaults \in Nat

None == "none"
Statuses == {None, "pending", "processing", "completed", "failed"}

\* A row, None before it exists.  Of the types the worker knows only "dummy".
\* completedAt is set together with result or error.
Row == [status : Statuses, type : {"dummy", "other"}, result : BOOLEAN, error : BOOLEAN]

\* An entry, "requested" while the request awaits queue.add.
EntryStates == {None, "requested", "waiting", "active", "done", "failed"}
Entry ==
  [state : EntryStates,
   attempts : 0 .. Attempts, stalls : 0 .. MaxStalls + 1]

\* A worker's run of the processor: the statement it awaits, for which job,
\* and whether the worker still has the lock of the entry.
Claimed == {"finish", "reject", "fail"}
Steps == {"load", "claim"} \cup Claimed
Run == [job : Jobs, at : Steps, holds : BOOLEAN]
Idle == [at |-> "idle"]

VARIABLES
  rows,      \* the table Job
  entries,   \* the queue's entry of each job
  runs,      \* what each worker is doing
  faults,    \* the number of faults so far
  lapsed,    \* history: jobs whose lock expired while their run went on
  unacked,   \* history: jobs with a statement that was applied and yet failed
  struck     \* history: jobs with a run that crashed or had a statement fail

history == <<faults, lapsed, unacked, struck>>
vars == <<rows, entries, runs, history>>

Busy == {w \in Workers : runs[w].at # "idle"}

TypeOK ==
  /\ rows \in [Jobs -> Row]
  /\ entries \in [Jobs -> Entry]
  /\ runs \in [Workers -> Run \cup {Idle}]
  /\ faults \in 0 .. MaxFaults
  /\ lapsed \subseteq Jobs /\ unacked \subseteq Jobs /\ struck \subseteq Jobs

Init ==
  /\ rows = [j \in Jobs |-> [status |-> None, type |-> "dummy", result |-> FALSE, error |-> FALSE]]
  /\ entries = [j \in Jobs |-> [state |-> None, attempts |-> 0, stalls |-> 0]]
  /\ runs = [w \in Workers |-> Idle]
  /\ faults = 0
  /\ lapsed = {} /\ unacked = {} /\ struck = {}

-----------------------------------------------------------------------------
(* Plausible mistakes, one per definition they replace in a mutated model. *)

RetriedWithoutLimit(entry) == [entry EXCEPT !.attempts = @ + 1, !.state = "waiting"]

\* An entry moved to another set of the queue.
In(entry, state) == [entry EXCEPT !.state = state]

\* What BullMQ makes of an attempt that failed.
Retried(entry) ==
  [entry EXCEPT !.attempts = @ + 1,
                !.state = IF entry.attempts + 1 < Attempts THEN "waiting" ELSE "failed"]

\* The processor returns, or throws: BullMQ asks for the lock before it ends or
\* retries the entry.
Returns(w) ==
  /\ runs' = [runs EXCEPT ![w] = Idle]
  /\ entries' = IF runs[w].holds
                THEN [entries EXCEPT ![runs[w].job] = In(@, "done")]
                ELSE entries

Throws(w) ==
  /\ runs' = [runs EXCEPT ![w] = Idle]
  /\ entries' = IF runs[w].holds
                THEN [entries EXCEPT ![runs[w].job] = Retried(@)]
                ELSE entries

\* The run of w goes on with another statement.
Awaiting(run, step) == [job |-> run.job, at |-> step, holds |-> run.holds]

GoesOn(w, step) == runs' = [runs EXCEPT ![w] = Awaiting(@, step)]

At(w, step) == w \in Busy /\ runs[w].at = step

\* jobRepo.update: what the statement a run is at does to the row.
Updated(row, step) ==
  [status |-> CASE step = "claim" -> "processing"
                [] step = "finish" -> "completed"
                [] OTHER -> "failed",
   type   |-> row.type,
   result |-> row.result \/ step = "finish",
   error  |-> row.error \/ step \in {"reject", "fail"}]

Update(w) ==
  rows' = [rows EXCEPT ![runs[w].job] = Updated(@, runs[w].at)]

-----------------------------------------------------------------------------
(* The requests *)

NewJob(type) == [status |-> "pending", type |-> type, result |-> FALSE, error |-> FALSE]

\* POST /jobs and POST /jobs/start-dummy-job up to queue.add.
CreateJob(j, type) ==
  /\ rows[j].status = None
  /\ rows' = [rows EXCEPT ![j] = NewJob(type)]
  /\ entries' = [entries EXCEPT ![j] = In(@, "requested")]
  /\ UNCHANGED <<runs, history>>

EnqueueTrackableJob(j) ==
  /\ entries[j].state = "requested"
  /\ entries' = [entries EXCEPT ![j] = In(@, "waiting")]
  /\ UNCHANGED <<rows, runs, history>>

\* queue.add fails, or the server dies before; nothing undoes the row.
EnqueueFails(j) ==
  /\ entries[j].state = "requested"
  /\ entries' = [entries EXCEPT ![j] = In(@, None)]
  /\ UNCHANGED <<rows, runs, history>>

-----------------------------------------------------------------------------
(* The workers *)

NewRun(j) == [job |-> j, at |-> "load", holds |-> TRUE]

\* BullMQ hands an entry to a trackable-job worker.
Take(w, j) ==
  /\ w \notin Busy
  /\ entries[j].state = "waiting"
  /\ entries' = [entries EXCEPT ![j] = In(@, "active")]
  /\ runs' = [runs EXCEPT ![w] = NewRun(j)]
  /\ UNCHANGED <<rows, history>>

\* The email worker's processor ignores the entry and returns.
EmailWorkerTakes(j) ==
  /\ entries[j].state = "waiting"
  /\ entries' = [entries EXCEPT ![j] = In(@, "done")]
  /\ UNCHANGED <<rows, runs, history>>

\* A mistaken one that works on a job whatever its status.
LoadUnchecked(w) ==
  /\ At(w, "load")
  /\ GoesOn(w, "claim")
  /\ UNCHANGED <<rows, entries, history>>

\* findById answers; only a pending job is worked on.
Load(w) ==
  /\ At(w, "load")
  /\ \/ /\ rows[runs[w].job].status = "pending"
        /\ GoesOn(w, "claim")
        /\ UNCHANGED entries
     \/ /\ rows[runs[w].job].status # "pending"
        /\ Returns(w)
  /\ UNCHANGED <<rows, history>>

\* The row is made processing, whatever it is by now.
Claim(w) ==
  /\ At(w, "claim")
  /\ Update(w)
  /\ GoesOn(w, IF rows[runs[w].job].type = "dummy" THEN "finish" ELSE "reject")
  /\ UNCHANGED <<entries, history>>

\* handleDummyJob has waited, and the row is made completed.
Finish(w) ==
  /\ At(w, "finish")
  /\ Update(w)
  /\ Returns(w)
  /\ UNCHANGED history

\* A mistaken one that only returns.
RejectSilently(w) ==
  /\ At(w, "reject")
  /\ Returns(w)
  /\ UNCHANGED <<rows, history>>

\* The type is unknown, and the row is made failed.
Reject(w) ==
  /\ At(w, "reject")
  /\ Update(w)
  /\ Returns(w)
  /\ UNCHANGED history

\* The catch block: the row is made failed and the error thrown again.
Fail(w) ==
  /\ At(w, "fail")
  /\ Update(w)
  /\ Throws(w)
  /\ UNCHANGED history

-----------------------------------------------------------------------------
(* Faults *)

Fault == faults < MaxFaults /\ faults' = faults + 1

\* The statement a run awaits fails, without or after being applied.  Only
\* finish and reject are in the try block.
StatementFails(w, applied) ==
  /\ w \in Busy
  /\ Fault
  /\ applied => runs[w].at # "load"
  /\ IF applied THEN Update(w) ELSE UNCHANGED rows
  /\ unacked' = IF applied THEN unacked \cup {runs[w].job} ELSE unacked
  /\ \/ /\ runs[w].at \in {"finish", "reject"}
        /\ GoesOn(w, "fail")
        /\ UNCHANGED entries
     \/ /\ runs[w].at \notin {"finish", "reject"}
        /\ Throws(w)
  /\ struck' = struck \cup {runs[w].job}
  /\ UNCHANGED lapsed

\* The worker's process dies, and is started again.
Crash(w) ==
  /\ w \in Busy
  /\ Fault
  /\ runs' = [runs EXCEPT ![w] = Idle]
  /\ struck' = struck \cup {runs[w].job}
  /\ UNCHANGED <<rows, entries, lapsed, unacked>>

Stalled(entry) ==
  [entry EXCEPT !.stalls = @ + 1,
                !.state = IF entry.stalls < MaxStalls THEN "waiting" ELSE "failed"]

Unlocked(run) == [job |-> run.job, at |-> run.at, holds |-> FALSE]

Holders(j) == {w \in Busy : runs[w].job = j /\ runs[w].holds}

\* The lock of an active entry expires, after its worker died or under it.
LockExpires(j) ==
  /\ entries[j].state = "active"
  /\ entries' = [entries EXCEPT ![j] = Stalled(@)]
  /\ \/ Holders(j) = {} /\ UNCHANGED <<runs, faults, lapsed>>
     \/ \E w \in Holders(j) :
          /\ Fault
          /\ runs' = [runs EXCEPT ![w] = Unlocked(@)]
          /\ lapsed' = lapsed \cup {j}
  /\ UNCHANGED <<rows, unacked, struck>>

-----------------------------------------------------------------------------

Work(w) == Load(w) \/ Claim(w) \/ Finish(w) \/ Reject(w) \/ Fail(w)

Next ==
  \/ \E j \in Jobs :
       \/ \E type \in {"dummy", "other"} : CreateJob(j, type)
       \/ EnqueueTrackableJob(j) \/ EnqueueFails(j)
       \/ EmailWorkerTakes(j) \/ LockExpires(j)
       \/ \E w \in Workers : Take(w, j)
  \/ \E w \in Workers :
       Work(w) \/ Crash(w) \/ \E applied \in BOOLEAN : StatementFails(w, applied)

\* A worker goes on as long as Postgres answers, and an answer or an error
\* comes for every statement.
Fairness == \A w \in Workers : WF_vars(Work(w))

Spec == Init /\ [][Next]_vars /\ Fairness

-----------------------------------------------------------------------------
(* Properties *)

\* A job is not left processing unless a fault struck it: some run is going to
\* record its outcome.
ProcessingIsWorkedOn ==
  \A j \in Jobs :
    rows[j].status = "processing" /\ j \notin struck
      => \E w \in Busy : runs[w].job = j /\ runs[w].at \in {"finish", "reject"}

\* The outcome fits the status, and a job has both a result and an error only
\* when its lock expired under a run or a statement was applied and yet failed.
OutcomeFits ==
  \A j \in Jobs :
    /\ rows[j].status = "completed" => rows[j].result
    /\ rows[j].status = "failed" => rows[j].error
    /\ rows[j].result /\ rows[j].error => j \in lapsed \cup unacked

\* The jobs implement JobPromise, where only expired locks and statements that
\* were applied and yet failed disturb a job: crashes, retries, redeliveries
\* and other failed statements never make the worker do a job twice.
Promise == INSTANCE JobPromise WITH
  status <- [j \in Jobs |-> rows[j].status],
  disturbed <- lapsed \cup unacked

PromiseKept == Promise!Spec

\* A job that is processing will be completed or failed unless a fault strikes
\* it.
ClaimedJobsFinish ==
  \A j \in Jobs :
    rows[j].status = "processing" ~>
      rows[j].status \in {"completed", "failed"} \/ j \in struck

\* "Loads job from DB by jobId, dispatches by type, updates job row
\* (processing -> completed/failed)"
\* (src/src/infrastructure/workers/trackable-job.worker.ts:16): when the queue
\* is done with a job that no fault struck, the row says so.
DoneJobsAreRecorded ==
  \A j \in Jobs :
    entries[j].state = "done" /\ j \notin struck =>
      rows[j].status \in {"completed", "failed"}

=============================================================================
