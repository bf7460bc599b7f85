------------------------ MODULE TrackableJobsProofs -------------------------
(***************************************************************************)
(* Proofs about TrackableJobs.  An entry is held by one run at most, and a *)
(* run that does not hold its entry has marked the job lapsed, so a job    *)
(* that is not lapsed has one run at most.  What that run is at therefore  *)
(* tells the status of an undisturbed job, which is what makes each step   *)
(* a step forward.                                                         *)
(***************************************************************************)
EXTENDS TrackableJobs, TLAPS

Disturbed == lapsed \cup unacked

\* An entry that may still be taken or retried is within its limits.
Open(e) ==
  e.state \notin {"done", "failed"} => e.attempts < Attempts /\ e.stalls <= MaxStalls

\* Every entry is, and belongs to a job.
EntriesOpen ==
  \A j \in Jobs : Open(entries[j]) /\ (entries[j].state # None => rows[j].status # None)

\* Who holds the lock of an entry.
Locks ==
  \A w \in Busy :
    /\ rows[runs[w].job].status # None
    /\ runs[w].holds => entries[runs[w].job].state = "active"
    /\ ~runs[w].holds => runs[w].job \in lapsed
    /\ \A v \in Busy :
         runs[w].holds /\ runs[v].holds /\ runs[w].job = runs[v].job => w = v

\* What a run of an undisturbed job is at tells the status.
Tracks ==
  \A w \in Busy :
    runs[w].job \notin Disturbed =>
      /\ runs[w].at = "claim" => rows[runs[w].job].status = "pending"
      /\ runs[w].at \in Claimed => rows[runs[w].job].status = "processing"

\* What a job has besides its status.
Outcomes ==
  \A j \in Jobs :
    /\ rows[j].status = "completed" => rows[j].result
    /\ rows[j].status = "failed" => rows[j].error
    /\ j \notin Disturbed /\ rows[j].result => rows[j].status = "completed"
    /\ j \notin Disturbed /\ rows[j].error => rows[j].status = "failed"

IInv ==
  TypeOK /\ EntriesOpen /\ Locks /\ Tracks /\ Outcomes /\ ProcessingIsWorkedOn

-----------------------------------------------------------------------------

\* Nothing has happened yet.
LEMMA Start == Init => IInv
<1> SUFFICES ASSUME Init PROVE IInv
  OBVIOUS
<1>1. TypeOK
  BY JobsAssumption DEF Init, TypeOK, Idle, Row, Entry, EntryStates, Statuses, None
<1>2. Busy = {}
  BY DEF Init, Busy, Idle
<1>3. EntriesOpen /\ Outcomes /\ ProcessingIsWorkedOn
  BY JobsAssumption DEF Init, EntriesOpen, Open, Outcomes, ProcessingIsWorkedOn, None
<1> QED  BY <1>1, <1>2, <1>3 DEF IInv, Locks, Tracks

\* A busy worker's run is a Run.
LEMMA BusyRun ==
  ASSUME TypeOK, NEW w \in Busy
  PROVE  /\ w \in Workers
         /\ runs[w] \in Run
         /\ runs[w].job \in Jobs
         /\ rows[runs[w].job] \in Row
         /\ entries[runs[w].job] \in Entry
<1>1. w \in Workers /\ runs[w] \in Run \cup {Idle} /\ runs[w].at # "idle"
  BY DEF TypeOK, Busy
<1>2. Idle.at = "idle"
  BY DEF Idle
<1>3. runs[w] \in Run
  BY <1>1, <1>2
<1> QED  BY <1>1, <1>3 DEF TypeOK, Run

\* What the operators on entries, runs and rows return.
LEMMA InFacts ==
  \A e \in Entry, s \in EntryStates :
    /\ In(e, s) \in Entry /\ In(e, s).state = s
    /\ Open(e) /\ e.state \notin {"done", "failed"} => Open(In(e, s))
  BY DEF In, Entry, Open

LEMMA RetriedFacts ==
  \A e \in Entry :
    Open(e) /\ e.state = "active" =>
      /\ Retried(e) \in Entry /\ Open(Retried(e))
      /\ Retried(e).state \in {"waiting", "failed"}
<1> SUFFICES ASSUME NEW e \in Entry, Open(e), e.state = "active"
             PROVE  /\ Retried(e) \in Entry /\ Open(Retried(e))
                    /\ Retried(e).state \in {"waiting", "failed"}
  OBVIOUS
<1>1. e.attempts \in 0 .. Attempts /\ e.stalls \in 0 .. MaxStalls + 1
  BY DEF Entry
<1>2. e.attempts < Attempts /\ e.stalls <= MaxStalls
  BY DEF Open
<1>3. e.attempts + 1 \in 0 .. Attempts
  BY <1>1, <1>2, JobsAssumption
<1>4. Retried(e) \in Entry /\ Retried(e).state \in {"waiting", "failed"}
  BY <1>1, <1>3 DEF Retried, Entry, EntryStates
<1>5. Open(Retried(e))
  BY <1>1, <1>2, JobsAssumption DEF Retried, Open, Entry
<1> QED  BY <1>4, <1>5

LEMMA StalledFacts ==
  \A e \in Entry :
    Open(e) /\ e.state = "active" =>
      /\ Stalled(e) \in Entry /\ Open(Stalled(e))
      /\ Stalled(e).state \in {"waiting", "failed"}
<1> SUFFICES ASSUME NEW e \in Entry, Open(e), e.state = "active"
             PROVE  /\ Stalled(e) \in Entry /\ Open(Stalled(e))
                    /\ Stalled(e).state \in {"waiting", "failed"}
  OBVIOUS
<1>1. e.attempts \in 0 .. Attempts /\ e.stalls \in 0 .. MaxStalls + 1
  BY DEF Entry
<1>2. e.attempts < Attempts /\ e.stalls <= MaxStalls
  BY DEF Open
<1>3. e.stalls + 1 \in 0 .. MaxStalls + 1
  BY <1>1, <1>2, JobsAssumption
<1>4. Stalled(e) \in Entry /\ Stalled(e).state \in {"waiting", "failed"}
  BY <1>1, <1>3 DEF Stalled, Entry, EntryStates
<1>5. Open(Stalled(e))
  BY <1>1, <1>2, JobsAssumption DEF Stalled, Open, Entry
<1> QED  BY <1>4, <1>5

LEMMA RunFacts ==
  /\ \A j \in Jobs : /\ NewRun(j) \in Run
                     /\ NewRun(j).job = j /\ NewRun(j).at = "load" /\ NewRun(j).holds = TRUE
  /\ \A r \in Run, s \in Steps :
       /\ Awaiting(r, s) \in Run
       /\ Awaiting(r, s).job = r.job /\ Awaiting(r, s).at = s /\ Awaiting(r, s).holds = r.holds
  /\ \A r \in Run :
       /\ Unlocked(r) \in Run
       /\ Unlocked(r).job = r.job /\ Unlocked(r).at = r.at /\ Unlocked(r).holds = FALSE
<1>1. ASSUME NEW j \in Jobs
      PROVE  /\ NewRun(j) \in Run
             /\ NewRun(j).job = j /\ NewRun(j).at = "load" /\ NewRun(j).holds = TRUE
  BY DEF NewRun, Run, Steps
<1>2. ASSUME NEW r \in Run, NEW s \in Steps
      PROVE  /\ Awaiting(r, s) \in Run
             /\ Awaiting(r, s).job = r.job /\ Awaiting(r, s).at = s
             /\ Awaiting(r, s).holds = r.holds
  BY DEF Awaiting, Run
<1>3. ASSUME NEW r \in Run
      PROVE  /\ Unlocked(r) \in Run
             /\ Unlocked(r).job = r.job /\ Unlocked(r).at = r.at /\ Unlocked(r).holds = FALSE
  BY DEF Unlocked, Run
<1> QED  BY <1>1, <1>2, <1>3

LEMMA RowFacts ==
  /\ \A t \in {"dummy", "other"} :
       /\ NewJob(t) \in Row
       /\ NewJob(t).status = "pending" /\ ~NewJob(t).result /\ ~NewJob(t).error
  /\ \A r \in Row, s \in Steps : Updated(r, s) \in Row
  BY DEF NewJob, Updated, Row, Statuses, None

LEMMA UpdatedFacts ==
  \A r \in Row :
    /\ Updated(r, "claim").status = "processing"
    /\ Updated(r, "claim").result = r.result /\ Updated(r, "claim").error = r.error
    /\ Updated(r, "finish").status = "completed"
    /\ Updated(r, "finish").result /\ Updated(r, "finish").error = r.error
    /\ \A s \in {"reject", "fail"} :
         /\ Updated(r, s).status = "failed"
         /\ Updated(r, s).error /\ Updated(r, s).result = r.result
  BY DEF Updated, Row

LEMMA TypeStep ==
  ASSUME IInv, Next
  PROVE  TypeOK'
<1> USE JobsAssumption DEF IInv, TypeOK
<1>1. ASSUME NEW j \in Jobs, NEW type \in {"dummy", "other"}, CreateJob(j, type)
      PROVE  TypeOK'
  BY <1>1, InFacts, RowFacts DEF CreateJob, history, EntryStates
<1>2. ASSUME NEW j \in Jobs, EnqueueTrackableJob(j) \/ EnqueueFails(j) \/ EmailWorkerTakes(j)
      PROVE  TypeOK'
  BY <1>2, InFacts DEF EnqueueTrackableJob, EnqueueFails, EmailWorkerTakes, history, EntryStates
<1>3. ASSUME NEW j \in Jobs, LockExpires(j)
      PROVE  TypeOK'
  BY <1>3, StalledFacts, RunFacts, BusyRun DEF LockExpires, Holders, Fault, EntriesOpen
<1>4. ASSUME NEW j \in Jobs, NEW w \in Workers, Take(w, j)
      PROVE  TypeOK'
  BY <1>4, InFacts, RunFacts DEF Take, history, EntryStates
<1>5. ASSUME NEW w \in Workers, Work(w)
      PROVE  TypeOK'
  BY <1>5, BusyRun, InFacts, RetriedFacts, RunFacts, RowFacts
  DEF Work, Load, Claim, Finish, Reject, Fail, At, Update, Returns, Throws, GoesOn,
      history, EntriesOpen, Locks, EntryStates, Steps, Claimed
<1>6. ASSUME NEW w \in Workers, Crash(w)
      PROVE  TypeOK'
  BY <1>6, BusyRun DEF Crash, Fault
<1>7. ASSUME NEW w \in Workers, NEW applied \in BOOLEAN, StatementFails(w, applied)
      PROVE  TypeOK'
  BY <1>7, BusyRun, RetriedFacts, RunFacts, RowFacts
  DEF StatementFails, Fault, Update, Throws, GoesOn, EntriesOpen, Locks, Steps, Claimed, Run
<1> QED  BY <1>1, <1>2, <1>3, <1>4, <1>5, <1>6, <1>7 DEF Next

\* Rows are never lost.
RowsStay == \A j \in Jobs : rows[j].status # None => rows'[j].status # None

LEMMA RowsStep ==
  ASSUME IInv, Next
  PROVE  RowsStay
<1> USE DEF IInv, TypeOK, RowsStay
<1>1. ASSUME NEW w \in Busy, NEW k \in Jobs, rows[k].status # None, Update(w)
      PROVE  rows'[k].status # None
  <2>1. Updated(rows[runs[w].job], runs[w].at).status # None
    BY DEF Updated, None
  <2> QED  BY <1>1, <2>1, BusyRun DEF Update
<1>2. ASSUME NEW j \in Jobs, NEW type \in {"dummy", "other"}, CreateJob(j, type)
      PROVE  RowsStay
  BY <1>2, RowFacts DEF CreateJob, None
<1>3. ASSUME NEW w \in Workers, Work(w)
      PROVE  RowsStay
  BY <1>3, <1>1 DEF Work, Load, Claim, Finish, Reject, Fail, At
<1>4. ASSUME NEW w \in Workers, NEW applied \in BOOLEAN, StatementFails(w, applied)
      PROVE  RowsStay
  BY <1>4, <1>1 DEF StatementFails
<1> QED  BY <1>2, <1>3, <1>4
  DEF Next, EnqueueTrackableJob, EnqueueFails, EmailWorkerTakes, LockExpires, Take, Crash

\* When a run ends or goes on, the entries stay open and the locks in order.
LEMMA RunEnds ==
  ASSUME IInv, RowsStay, lapsed' = lapsed, NEW w \in Busy, Returns(w) \/ Throws(w)
  PROVE  EntriesOpen' /\ Locks'
<1> DEFINE j == runs[w].job
<1> USE DEF IInv, TypeOK
<1>1. w \in Workers /\ j \in Jobs /\ entries[j] \in Entry /\ Open(entries[j])
  BY BusyRun DEF EntriesOpen
<1>2. runs' = [runs EXCEPT ![w] = Idle] /\ Busy' = Busy \ {w}
  BY DEF Returns, Throws, Busy, Idle
<1>3. \/ entries' = entries
      \/ \E e \in Entry : runs[w].holds /\ Open(e) /\ entries' = [entries EXCEPT ![j] = e]
  <2>1. CASE ~runs[w].holds
    BY <2>1 DEF Returns, Throws
  <2>2. CASE runs[w].holds
    <3>1. entries[j].state = "active"
      BY <2>2 DEF Locks
    <3>2. In(entries[j], "done") \in Entry /\ Open(In(entries[j], "done"))
      BY <1>1, <3>1, InFacts DEF EntryStates
    <3>3. Retried(entries[j]) \in Entry /\ Open(Retried(entries[j]))
      BY <1>1, <3>1, RetriedFacts
    <3> QED  BY <2>2, <3>2, <3>3 DEF Returns, Throws
  <2> QED  BY <2>1, <2>2
<1>4. EntriesOpen'
  <2> SUFFICES ASSUME NEW k \in Jobs
               PROVE  Open(entries'[k]) /\ (entries'[k].state # None => rows'[k].status # None)
    BY DEF EntriesOpen, Open
  <2>1. rows[j].status # None
    BY DEF Locks
  <2>2. CASE entries' = entries
    BY <2>2 DEF EntriesOpen, RowsStay
  <2>3. ASSUME NEW e \in Entry, Open(e), entries' = [entries EXCEPT ![j] = e]
        PROVE  Open(entries'[k]) /\ (entries'[k].state # None => rows'[k].status # None)
    BY <1>1, <2>1, <2>3 DEF EntriesOpen, RowsStay
  <2> QED  BY <1>3, <2>2, <2>3
<1>5. Locks'
  <2> SUFFICES ASSUME NEW v \in Busy \ {w}
               PROVE  /\ rows'[runs[v].job].status # None
                      /\ runs[v].holds => entries'[runs[v].job].state = "active"
                      /\ ~runs[v].holds => runs[v].job \in lapsed
                      /\ \A u \in Busy \ {w} :
                           runs[v].holds /\ runs[u].holds /\ runs[v].job = runs[u].job => v = u
    BY <1>2 DEF Locks, Busy
  <2>1. runs[v].job \in Jobs
    BY BusyRun
  <2>2. runs[v].holds /\ runs[w].holds => runs[v].job # j
    BY DEF Locks
  <2> QED  BY <1>1, <1>3, <2>1, <2>2 DEF Locks, RowsStay
<1> QED  BY <1>4, <1>5

LEMMA RunGoesOn ==
  ASSUME IInv, RowsStay, lapsed' = lapsed, entries' = entries,
         NEW w \in Busy, NEW step \in Steps, GoesOn(w, step)
  PROVE  EntriesOpen' /\ Locks'
<1> USE DEF IInv, TypeOK
<1>1. w \in Workers /\ runs[w] \in Run /\ "idle" \notin Steps
  BY BusyRun DEF Steps, Claimed
<1>2. Busy' = Busy
  BY <1>1, RunFacts DEF GoesOn, Busy
<1>3. \A v \in Busy : runs'[v].job = runs[v].job /\ runs'[v].holds = runs[v].holds
  BY <1>1, RunFacts DEF GoesOn, Busy
<1>4. \A v \in Busy : runs[v].job \in Jobs
  BY BusyRun
<1>5. EntriesOpen'
  BY DEF EntriesOpen, RowsStay
<1> QED  BY <1>2, <1>3, <1>4, <1>5 DEF Locks, RowsStay

LEMMA LocksStep ==
  ASSUME IInv, Next
  PROVE  EntriesOpen' /\ Locks'
<1> USE DEF IInv, TypeOK
<1>0. RowsStay
  BY RowsStep
<1>1. ASSUME NEW j \in Jobs, NEW type \in {"dummy", "other"}, CreateJob(j, type)
      PROVE  EntriesOpen' /\ Locks'
  <2>1. entries[j].state = None /\ entries[j] \in Entry /\ Open(entries[j])
    BY <1>1 DEF CreateJob, EntriesOpen
  <2>2. In(entries[j], "requested") \in Entry /\ Open(In(entries[j], "requested"))
    BY <2>1, InFacts DEF EntryStates, None
  <2>3. rows'[j].status # None
    BY <1>1, RowFacts DEF CreateJob, None
  <2>4. EntriesOpen'
    BY <1>0, <1>1, <2>2, <2>3 DEF CreateJob, EntriesOpen, RowsStay
  <2>5. \A w \in Busy : runs[w].job \in Jobs
    BY BusyRun
  <2>6. \A w \in Busy : runs[w].job # j
    BY <1>1 DEF CreateJob, Locks
  <2>7. Busy' = Busy
    BY <1>1 DEF CreateJob, Busy
  <2>8. Locks'
    BY <1>0, <1>1, <2>5, <2>6, <2>7 DEF CreateJob, Locks, RowsStay, history
  <2> QED  BY <2>4, <2>8
<1>2. ASSUME NEW j \in Jobs, EnqueueTrackableJob(j) \/ EnqueueFails(j) \/ EmailWorkerTakes(j)
      PROVE  EntriesOpen' /\ Locks'
  <2>1. PICK state \in EntryStates : entries' = [entries EXCEPT ![j] = In(@, state)]
    BY <1>2 DEF EnqueueTrackableJob, EnqueueFails, EmailWorkerTakes, EntryStates
  <2>2. /\ entries[j].state \in {"requested", "waiting"}
        /\ UNCHANGED <<rows, runs, lapsed>>
    BY <1>2 DEF EnqueueTrackableJob, EnqueueFails, EmailWorkerTakes, history
  <2>3. rows[j].status # None /\ entries[j] \in Entry /\ Open(entries[j])
    BY <2>2 DEF EntriesOpen, None
  <2>4. Open(In(entries[j], state))
    BY <2>2, <2>3, InFacts
  <2>5. EntriesOpen'
    BY <2>1, <2>2, <2>3, <2>4 DEF EntriesOpen
  <2>6. Busy' = Busy /\ \A w \in Busy : runs[w].job \in Jobs
    BY <2>2, BusyRun DEF Busy
  <2>7. \A w \in Busy : runs[w].holds => runs[w].job # j
    BY <2>2 DEF Locks
  <2>8. Locks'
    BY <2>1, <2>2, <2>6, <2>7 DEF Locks
  <2> QED  BY <2>5, <2>8
<1>3. ASSUME NEW j \in Jobs, LockExpires(j)
      PROVE  EntriesOpen' /\ Locks'
  <2>1. /\ entries[j].state = "active" /\ entries[j] \in Entry
        /\ Open(entries[j]) /\ rows[j].status # None
    BY <1>3 DEF LockExpires, EntriesOpen, None
  <2>2. Open(Stalled(entries[j]))
    BY <2>1, StalledFacts
  <2>3. EntriesOpen'
    BY <1>3, <2>1, <2>2 DEF LockExpires, EntriesOpen
  <2>4. \A w \in Busy : runs[w].job \in Jobs /\ runs[w] \in Run /\ w \in Workers
    BY BusyRun
  <2>5. CASE Holders(j) = {} /\ UNCHANGED <<runs, faults, lapsed>>
    <3>1. \A w \in Busy : runs[w].holds => runs[w].job # j
      BY <2>5 DEF Holders
    <3>2. Busy' = Busy
      BY <2>5 DEF Busy
    <3>3. Locks'
      BY <1>3, <2>4, <2>5, <3>1, <3>2 DEF LockExpires, Locks
    <3> QED  BY <2>3, <3>3
  <2>6. ASSUME NEW w \in Holders(j), runs' = [runs EXCEPT ![w] = Unlocked(@)],
               lapsed' = lapsed \cup {j}
        PROVE  EntriesOpen' /\ Locks'
    <3>1. w \in Busy /\ runs[w].job = j /\ runs[w].holds
      BY DEF Holders
    <3>2. /\ Unlocked(runs[w]).job = j /\ Unlocked(runs[w]).at = runs[w].at
          /\ Unlocked(runs[w]).holds = FALSE
      BY <2>4, <3>1, RunFacts
    <3>3. Busy' = Busy
      BY <2>4, <2>6, <3>1, <3>2 DEF Busy
    <3>4. \A v \in Busy : runs'[v].job = runs[v].job /\ (runs'[v].holds => v # w /\ runs[v].holds)
      BY <2>4, <2>6, <3>1, <3>2
    <3>5. \A v \in Busy : v # w => runs'[v] = runs[v]
      BY <2>4, <2>6, <3>1
    <3>6. \A v \in Busy : runs'[v].holds => runs[v].job # j
      BY <3>1, <3>4 DEF Locks
    <3>7. Locks'
      BY <1>3, <2>4, <2>6, <3>1, <3>3, <3>4, <3>5, <3>6 DEF LockExpires, Locks
    <3> QED  BY <2>3, <3>7
  <2> QED  BY <1>3, <2>5, <2>6 DEF LockExpires
<1>4. ASSUME NEW j \in Jobs, NEW w \in Workers, Take(w, j)
      PROVE  EntriesOpen' /\ Locks'
  <2>1. /\ entries[j].state = "waiting" /\ entries[j] \in Entry
        /\ Open(entries[j]) /\ rows[j].status # None
    BY <1>4 DEF Take, EntriesOpen, None
  <2>2. Open(In(entries[j], "active")) /\ In(entries[j], "active").state = "active"
    BY <2>1, InFacts DEF EntryStates
  <2>3. EntriesOpen'
    BY <1>4, <2>1, <2>2 DEF Take, EntriesOpen
  <2>4. /\ runs'[w] = NewRun(j)
        /\ NewRun(j).job = j /\ NewRun(j).at = "load" /\ NewRun(j).holds = TRUE
    BY <1>4, RunFacts DEF Take
  <2>5. Busy' = Busy \cup {w} /\ w \notin Busy
    BY <1>4, <2>4 DEF Take, Busy
  <2>6. \A v \in Busy : runs'[v] = runs[v] /\ runs[v].job \in Jobs
    BY <1>4, BusyRun DEF Take
  <2>7. \A v \in Busy : runs[v].holds => runs[v].job # j
    BY <2>1 DEF Locks
  <2>8. Locks'
    BY <1>4, <2>1, <2>2, <2>4, <2>5, <2>6, <2>7 DEF Take, Locks, history
  <2> QED  BY <2>3, <2>8
<1>5. ASSUME NEW w \in Workers, Work(w)
      PROVE  EntriesOpen' /\ Locks'
  <2>1. w \in Busy /\ lapsed' = lapsed
    BY <1>5 DEF Work, Load, Claim, Finish, Reject, Fail, At, history
  <2>2. \/ Returns(w) \/ Throws(w)
        \/ entries' = entries /\ \E step \in Steps : GoesOn(w, step)
    BY <1>5 DEF Work, Load, Claim, Finish, Reject, Fail, Steps, Claimed
  <2> QED  BY <1>0, <2>1, <2>2, RunEnds, RunGoesOn
<1>6. ASSUME NEW w \in Workers, Crash(w)
      PROVE  EntriesOpen' /\ Locks'
  <2>1. Busy' = Busy \ {w} /\ \A v \in Busy \ {w} : runs'[v] = runs[v]
    BY <1>6 DEF Crash, Busy, Idle
  <2>2. Locks'
    BY <1>6, <2>1 DEF Crash, Locks
  <2> QED  BY <1>6, <2>2 DEF Crash, EntriesOpen
<1>7. ASSUME NEW w \in Workers, NEW applied \in BOOLEAN, StatementFails(w, applied)
      PROVE  EntriesOpen' /\ Locks'
  <2>1. w \in Busy /\ lapsed' = lapsed
    BY <1>7 DEF StatementFails
  <2>2. Throws(w) \/ (entries' = entries /\ GoesOn(w, "fail") /\ "fail" \in Steps)
    BY <1>7 DEF StatementFails, Steps, Claimed
  <2> QED  BY <1>0, <2>1, <2>2, RunEnds, RunGoesOn
<1> QED  BY <1>1, <1>2, <1>3, <1>4, <1>5, <1>6, <1>7 DEF Next

-----------------------------------------------------------------------------

\* Two runs of a job are only possible once it is lapsed.
LEMMA Alone ==
  ASSUME IInv, NEW v \in Busy, NEW w \in Busy, v # w, runs[v].job \notin Disturbed
  PROVE  runs[v].job # runs[w].job
  BY DEF IInv, Locks, Disturbed

\* What an update of the row does to the outcomes.
LEMMA UpdateOutcomes ==
  ASSUME IInv, NEW w \in Busy, runs[w].at # "load", Update(w), Disturbed \subseteq Disturbed'
  PROVE  Outcomes'
<1> DEFINE j == runs[w].job
           row == Updated(rows[j], runs[w].at)
<1> USE DEF IInv
<1>1. /\ j \in Jobs /\ rows[j] \in Row /\ rows \in [Jobs -> Row]
      /\ runs[w].at \in {"claim", "finish", "reject", "fail"}
  BY BusyRun DEF TypeOK, Run, Steps, Claimed
<1>2. /\ row.status = "completed" => row.result
      /\ row.status = "failed" => row.error
  BY <1>1, UpdatedFacts
<1>3. ASSUME j \notin Disturbed
      PROVE  /\ row.result => row.status = "completed"
             /\ row.error => row.status = "failed"
  <2>1. rows[j].status \in {"pending", "processing"}
    BY <1>1, <1>3 DEF Tracks, Claimed
  <2>2. ~rows[j].result /\ ~rows[j].error
    BY <1>1, <1>3, <2>1 DEF Outcomes
  <2> QED  BY <1>1, <2>2, UpdatedFacts
<1>4. rows'[j] = row /\ \A k \in Jobs \ {j} : rows'[k] = rows[k]
  BY <1>1 DEF Update
<1> QED  BY <1>2, <1>3, <1>4 DEF Outcomes

LEMMA OutcomesStep ==
  ASSUME IInv, Next
  PROVE  Outcomes'
<1> USE DEF IInv
<1>1. ASSUME UNCHANGED rows, Disturbed \subseteq Disturbed'
      PROVE  Outcomes'
  BY <1>1 DEF Outcomes
<1>2. ASSUME NEW j \in Jobs, NEW type \in {"dummy", "other"}, CreateJob(j, type)
      PROVE  Outcomes'
  BY <1>2, RowFacts DEF CreateJob, Outcomes, TypeOK, history, Disturbed
<1>3. ASSUME NEW w \in Workers, Work(w)
      PROVE  Outcomes'
  <2>1. Disturbed' = Disturbed
    BY <1>3 DEF Work, Load, Claim, Finish, Reject, Fail, Disturbed, history
  <2>2. CASE Load(w)
    BY <2>1, <2>2, <1>1 DEF Load
  <2>3. CASE Claim(w) \/ Finish(w) \/ Reject(w) \/ Fail(w)
    BY <2>1, <2>3, UpdateOutcomes DEF Claim, Finish, Reject, Fail, At
  <2> QED  BY <1>3, <2>2, <2>3 DEF Work
<1>4. ASSUME NEW w \in Workers, NEW applied \in BOOLEAN, StatementFails(w, applied)
      PROVE  Outcomes'
  BY <1>1, <1>4, UpdateOutcomes DEF StatementFails, Disturbed
<1> QED  BY <1>1, <1>2, <1>3, <1>4
  DEF Next, EnqueueTrackableJob, EnqueueFails, EmailWorkerTakes, LockExpires, Take, Crash,
      Disturbed, history

LEMMA TracksStep ==
  ASSUME IInv, Next
  PROVE  Tracks'
<1> USE DEF IInv
<1>t. /\ rows \in [Jobs -> Row] /\ runs \in [Workers -> Run \cup {Idle}]
      /\ \A v \in Busy : v \in Workers /\ runs[v] \in Run /\ runs[v].job \in Jobs
  BY BusyRun DEF TypeOK
<1>1. ASSUME UNCHANGED rows, Disturbed \subseteq Disturbed',
             \A v \in Busy' : \/ runs'[v].at = "load"
                              \/ /\ v \in Busy
                                 /\ runs'[v].job = runs[v].job /\ runs'[v].at = runs[v].at
      PROVE  Tracks'
  BY <1>1 DEF Tracks, Claimed
<1>2. ASSUME NEW w \in Busy, Disturbed \subseteq Disturbed', UNCHANGED rows \/ Update(w),
             \A v \in Busy' \ {w} : v \in Busy /\ runs'[v] = runs[v],
             w \in Busy' /\ runs'[w].job \notin Disturbed' =>
               /\ runs'[w].at = "claim" => rows'[runs'[w].job].status = "pending"
               /\ runs'[w].at \in Claimed => rows'[runs'[w].job].status = "processing"
      PROVE  Tracks'
  <2> SUFFICES ASSUME NEW v \in Busy' \ {w}, runs[v].job \notin Disturbed, runs'[v] = runs[v]
               PROVE  rows'[runs[v].job] = rows[runs[v].job]
    BY <1>2 DEF Tracks
  <2>1. runs[v].job # runs[w].job
    BY <1>2, Alone
  <2> QED  BY <1>2, <1>t, <2>1 DEF Update
<1>3. ASSUME NEW j \in Jobs, NEW type \in {"dummy", "other"}, CreateJob(j, type)
      PROVE  Tracks'
  <2>1. \A v \in Busy : runs[v].job # j
    BY <1>3 DEF CreateJob, Locks
  <2>2. \A v \in Busy : rows'[runs[v].job] = rows[runs[v].job]
    BY <1>3, <1>t, <2>1 DEF CreateJob
  <2> QED  BY <1>3, <2>2 DEF CreateJob, Tracks, history, Disturbed, Busy
<1>4. ASSUME NEW j \in Jobs, EnqueueTrackableJob(j) \/ EnqueueFails(j) \/ EmailWorkerTakes(j)
      PROVE  Tracks'
  BY <1>1, <1>4 DEF EnqueueTrackableJob, EnqueueFails, EmailWorkerTakes, history, Disturbed, Busy
<1>5. ASSUME NEW j \in Jobs, LockExpires(j)
      PROVE  Tracks'
  <2>1. CASE UNCHANGED <<runs, faults, lapsed>>
    BY <1>1, <1>5, <2>1 DEF LockExpires, Disturbed, Busy
  <2>2. ASSUME NEW w \in Busy, runs' = [runs EXCEPT ![w] = Unlocked(@)]
        PROVE  \A v \in Busy' :
                 v \in Busy /\ runs'[v].job = runs[v].job /\ runs'[v].at = runs[v].at
    BY <1>t, <2>2, RunFacts DEF Busy
  <2> QED  BY <1>1, <1>5, <2>1, <2>2 DEF LockExpires, Holders, Disturbed
<1>6. ASSUME NEW j \in Jobs, NEW w \in Workers, Take(w, j)
      PROVE  Tracks'
  <2>1. runs'[w].at = "load" /\ \A v \in Workers \ {w} : runs'[v] = runs[v]
    BY <1>6, <1>t, RunFacts DEF Take
  <2> QED  BY <1>1, <1>6, <2>1 DEF Take, history, Disturbed, Busy
<1>7. ASSUME NEW w \in Workers, Work(w)
      PROVE  Tracks'
  <2>1. w \in Busy /\ Disturbed' = Disturbed /\ (UNCHANGED rows \/ Update(w))
    BY <1>7 DEF Work, Load, Claim, Finish, Reject, Fail, At, Disturbed, history
  <2>2. \A v \in Busy' \ {w} : v \in Busy /\ runs'[v] = runs[v]
    BY <1>7, <1>t DEF Work, Load, Claim, Finish, Reject, Fail, Returns, Throws, GoesOn, Busy
  <2>3. CASE Returns(w) \/ Throws(w)
    <3>1. w \notin Busy'
      BY <1>t, <2>1, <2>3 DEF Returns, Throws, Busy, Idle
    <3> QED  BY <1>2, <2>1, <2>2, <3>1
  <2>4. CASE Load(w) /\ GoesOn(w, "claim") /\ rows[runs[w].job].status = "pending"
    <3>1. runs'[w].job = runs[w].job /\ runs'[w].at = "claim"
      BY <1>t, <2>1, <2>4, RunFacts DEF GoesOn, Steps
    <3> QED  BY <1>2, <2>1, <2>2, <2>4, <3>1 DEF Load, Claimed
  <2>5. CASE Claim(w)
    <3>1. PICK step \in {"finish", "reject"} : GoesOn(w, step)
      BY <2>5 DEF Claim
    <3>2. runs'[w].job = runs[w].job /\ runs'[w].at = step
      BY <1>t, <2>1, <3>1, RunFacts DEF GoesOn, Steps, Claimed
    <3>3. rows'[runs[w].job].status = "processing"
      BY <1>t, <2>1, <2>5, UpdatedFacts DEF Claim, Update, At
    <3> QED  BY <1>2, <2>1, <2>2, <3>2, <3>3
  <2> QED  BY <1>7, <2>3, <2>4, <2>5 DEF Work, Load, Finish, Reject, Fail
<1>8. ASSUME NEW w \in Workers, Crash(w)
      PROVE  Tracks'
  <2>1. w \notin Busy' /\ \A v \in Busy' \ {w} : v \in Busy /\ runs'[v] = runs[v]
    BY <1>8, <1>t DEF Crash, Busy, Idle
  <2> QED  BY <1>2, <1>8, <2>1 DEF Crash, Disturbed
<1>9. ASSUME NEW w \in Workers, NEW applied \in BOOLEAN, StatementFails(w, applied)
      PROVE  Tracks'
  <2>1. /\ w \in Busy /\ (UNCHANGED rows \/ Update(w))
        /\ Disturbed \subseteq Disturbed'
        /\ applied => runs[w].job \in Disturbed'
    BY <1>9 DEF StatementFails, Disturbed
  <2>2. \A v \in Busy' \ {w} : v \in Busy /\ runs'[v] = runs[v]
    BY <1>9, <1>t DEF StatementFails, Throws, GoesOn, Busy
  <2>3. CASE Throws(w)
    <3>1. w \notin Busy'
      BY <1>t, <2>1, <2>3 DEF Throws, Busy, Idle
    <3> QED  BY <1>2, <2>1, <2>2, <3>1
  <2>4. CASE GoesOn(w, "fail") /\ runs[w].at \in {"finish", "reject"}
    <3>1. runs'[w].job = runs[w].job /\ runs'[w].at = "fail"
      BY <1>t, <2>1, <2>4, RunFacts DEF GoesOn, Steps, Claimed
    <3>2. runs[w].job \notin Disturbed' => rows'[runs[w].job].status = "processing"
      BY <1>9, <2>1, <2>4 DEF StatementFails, Tracks, Claimed
    <3> QED  BY <1>2, <2>1, <2>2, <3>1, <3>2
  <2> QED  BY <1>9, <2>3, <2>4 DEF StatementFails
<1> QED  BY <1>3, <1>4, <1>5, <1>6, <1>7, <1>8, <1>9 DEF Next

LEMMA ProcessingStep ==
  ASSUME IInv, Next
  PROVE  ProcessingIsWorkedOn'
<1> DEFINE Working(v, k) == v \in Busy /\ runs[v].job = k /\ runs[v].at \in {"finish", "reject"}
<1>t. /\ rows \in [Jobs -> Row] /\ runs \in [Workers -> Run \cup {Idle}]
      /\ \A v \in Busy : v \in Workers /\ runs[v] \in Run /\ runs[v].job \in Jobs
  BY BusyRun DEF IInv, TypeOK
<1>1. SUFFICES ASSUME NEW k \in Jobs, rows'[k].status = "processing", k \notin struck'
               PROVE  \E v \in Busy' : runs'[v].job = k /\ runs'[v].at \in {"finish", "reject"}
  BY DEF ProcessingIsWorkedOn
<1>2. ASSUME rows'[k] = rows[k], struck \subseteq struck'
      PROVE  \E v \in Busy : Working(v, k)
  BY <1>1, <1>2 DEF IInv, ProcessingIsWorkedOn
<1>3. ASSUME \A v \in Busy : Working(v, k) => runs'[v].job = k /\ runs'[v].at = runs[v].at,
             rows'[k] = rows[k], struck \subseteq struck'
      PROVE  \E v \in Busy' : runs'[v].job = k /\ runs'[v].at \in {"finish", "reject"}
  BY <1>2, <1>3 DEF Busy
<1>4. ASSUME NEW j \in Jobs, NEW type \in {"dummy", "other"}, CreateJob(j, type)
      PROVE  \E v \in Busy' : runs'[v].job = k /\ runs'[v].at \in {"finish", "reject"}
  <2>1. k # j
    BY <1>1, <1>4, <1>t, RowFacts DEF CreateJob
  <2> QED  BY <1>3, <1>4, <1>t, <2>1 DEF CreateJob, history
<1>5. ASSUME NEW j \in Jobs, EnqueueTrackableJob(j) \/ EnqueueFails(j) \/ EmailWorkerTakes(j)
      PROVE  \E v \in Busy' : runs'[v].job = k /\ runs'[v].at \in {"finish", "reject"}
  BY <1>3, <1>5 DEF EnqueueTrackableJob, EnqueueFails, EmailWorkerTakes, history
<1>6. ASSUME NEW j \in Jobs, LockExpires(j)
      PROVE  \E v \in Busy' : runs'[v].job = k /\ runs'[v].at \in {"finish", "reject"}
  <2>1. \A v \in Busy : runs'[v].job = runs[v].job /\ runs'[v].at = runs[v].at
    BY <1>6, <1>t, RunFacts DEF LockExpires, Holders
  <2> QED  BY <1>3, <1>6, <2>1 DEF LockExpires
<1>7. ASSUME NEW j \in Jobs, NEW w \in Workers, Take(w, j)
      PROVE  \E v \in Busy' : runs'[v].job = k /\ runs'[v].at \in {"finish", "reject"}
  BY <1>3, <1>7, <1>t DEF Take, history
<1>8. ASSUME NEW w \in Busy, struck \subseteq struck',
             \A v \in Busy \ {w} : runs'[v] = runs[v],
             runs[w].job # k, UNCHANGED rows \/ Update(w)
      PROVE  \E v \in Busy' : runs'[v].job = k /\ runs'[v].at \in {"finish", "reject"}
  <2>1. rows'[k] = rows[k]
    BY <1>8, <1>t DEF Update
  <2> QED  BY <1>3, <1>8, <2>1
<1>9. ASSUME NEW w \in Workers, Work(w)
      PROVE  \E v \in Busy' : runs'[v].job = k /\ runs'[v].at \in {"finish", "reject"}
  <2>1. w \in Busy /\ struck' = struck /\ (UNCHANGED rows \/ Update(w))
    BY <1>9 DEF Work, Load, Claim, Finish, Reject, Fail, At, history
  <2>2. \A v \in Busy \ {w} : runs'[v] = runs[v]
    BY <1>9, <1>t DEF Work, Load, Claim, Finish, Reject, Fail, Returns, Throws, GoesOn
  <2>3. CASE runs[w].job # k
    BY <1>8, <2>1, <2>2, <2>3
  <2>4. CASE runs[w].job = k /\ Load(w)
    BY <1>3, <2>1, <2>2, <2>4 DEF Load, At
  <2>5. CASE runs[w].job = k /\ Claim(w)
    <3>1. PICK step \in {"finish", "reject"} : GoesOn(w, step)
      BY <2>5 DEF Claim
    <3>2. runs'[w].job = k /\ runs'[w].at = step
      BY <1>t, <2>1, <2>5, <3>1, RunFacts DEF GoesOn, Steps, Claimed
    <3> QED  BY <3>2 DEF Busy
  <2>6. CASE runs[w].job = k /\ (Finish(w) \/ Reject(w) \/ Fail(w))
    <3>1. rows'[k].status \in {"completed", "failed"}
      BY <1>t, <2>1, <2>6, UpdatedFacts DEF Finish, Reject, Fail, At, Update
    <3> QED  BY <1>1, <3>1
  <2> QED  BY <1>9, <2>3, <2>4, <2>5, <2>6 DEF Work
<1>10. ASSUME NEW w \in Workers, Crash(w)
       PROVE  \E v \in Busy' : runs'[v].job = k /\ runs'[v].at \in {"finish", "reject"}
  BY <1>1, <1>8, <1>10, <1>t DEF Crash
<1>11. ASSUME NEW w \in Workers, NEW applied \in BOOLEAN, StatementFails(w, applied)
       PROVE  \E v \in Busy' : runs'[v].job = k /\ runs'[v].at \in {"finish", "reject"}
  <2>1. \A v \in Busy \ {w} : runs'[v] = runs[v]
    BY <1>11, <1>t DEF StatementFails, Throws, GoesOn
  <2> QED  BY <1>1, <1>8, <1>11, <2>1 DEF StatementFails
<1> QED  BY <1>4, <1>5, <1>6, <1>7, <1>9, <1>10, <1>11 DEF Next

-----------------------------------------------------------------------------

\* The inductive invariant behind the theorems below.
THEOREM JobsInvariant == Spec => []IInv
<1>1. IInv /\ [Next]_vars => IInv'
  <2>1. ASSUME IInv, Next PROVE IInv'
    BY <2>1, TypeStep, LocksStep, TracksStep, OutcomesStep, ProcessingStep DEF IInv
  <2>2. ASSUME IInv, UNCHANGED vars PROVE IInv'
    BY <2>2 DEF IInv, vars, history, TypeOK, EntriesOpen, Open, Locks, Tracks, Outcomes, Disturbed,
       ProcessingIsWorkedOn, Busy
  <2> QED  BY <2>1, <2>2
<1> QED  BY Start, <1>1, PTL DEF Spec

\* Rows, entries and runs are always of their types: no entry is retried or
\* stalls more often than it may.
THEOREM TypeCorrect == Spec => []TypeOK
BY JobsInvariant, PTL DEF IInv

\* A job that is processing and that no fault struck has a run that is going to
\* record its outcome.
THEOREM ProcessingHasRun == Spec => []ProcessingIsWorkedOn
BY JobsInvariant, PTL DEF IInv

\* The outcome recorded fits the status, and is one outcome unless the job was
\* disturbed.
THEOREM OutcomesFit == Spec => []OutcomeFits
<1>1. IInv => OutcomeFits
  BY DEF IInv, Outcomes, OutcomeFits, Disturbed
<1> QED  BY <1>1, JobsInvariant, PTL

LEMMA PromiseStart == Init => Promise!Init
  BY DEF Init, Promise!Init, None

\* One update of the row is a step of the promise.
LEMMA PromiseUpdate ==
  ASSUME IInv, NEW w \in Busy, runs[w].at # "load", Update(w),
         \/ Disturbed' = Disturbed
         \/ Disturbed' = Disturbed \cup {runs[w].job}
  PROVE  Promise!Next
<1>0. PICK j \in Jobs : j = runs[w].job
  BY BusyRun DEF IInv
<1> DEFINE s == Updated(rows[j], runs[w].at).status
           status == [k \in Jobs |-> rows[k].status]
<1> USE DEF IInv
<1>1. /\ j \in Jobs /\ rows[j] \in Row /\ rows \in [Jobs -> Row]
      /\ runs[w].at \in {"claim", "finish", "reject", "fail"}
  BY <1>0, BusyRun DEF TypeOK, Run, Steps, Claimed
<1>2. /\ runs[w].at = "claim" => s = "processing"
      /\ runs[w].at = "finish" => s = "completed"
      /\ runs[w].at \in {"reject", "fail"} => s = "failed"
  BY <1>1, UpdatedFacts
<1>3. status' = [status EXCEPT ![j] = s]
  BY <1>0, <1>1 DEF Update
<1>4. CASE j \notin Disturbed'
  <2>1. Disturbed' = Disturbed /\ j \notin Disturbed
    BY <1>0, <1>4
  <2>2. /\ runs[w].at = "claim" => status[j] = "pending"
        /\ runs[w].at \in Claimed => status[j] = "processing"
    BY <1>0, <1>1, <2>1 DEF Tracks
  <2>3. <<status[j], s>> \in Promise!Forward
    BY <1>1, <1>2, <2>2 DEF Promise!Forward, Claimed
  <2>4. s \in {"pending", "processing", "completed", "failed"}
    BY <1>1, <1>2
  <2>5. Promise!Advance(j)
    <3> HIDE DEF s
    <3>1. UNCHANGED (lapsed \cup unacked)
      BY <2>1 DEF Disturbed
    <3> QED  BY <1>3, <2>3, <2>4, <3>1 DEF Promise!Advance
  <2> QED  BY <2>5 DEF Promise!Next
<1>5. CASE j \in Disturbed'
  <2>1. status[j] # "none"
    BY <1>0, <1>1 DEF Locks, None
  <2>2. Disturbed' = Disturbed \cup {j}
    BY <1>0, <1>5
  <2>3. s \in {"processing", "completed", "failed"}
    BY <1>1, <1>2
  <2>4. Promise!Rework(j)
    <3> HIDE DEF s
    <3>1. (lapsed \cup unacked)' = (lapsed \cup unacked) \cup {j}
      BY <2>2 DEF Disturbed
    <3> QED  BY <1>3, <2>1, <2>3, <3>1 DEF Promise!Rework
  <2> QED  BY <2>4 DEF Promise!Next
<1> QED  BY <1>4, <1>5

LEMMA PromiseStep ==
  ASSUME IInv, Next
  PROVE  Promise!Next \/ UNCHANGED <<[j \in Jobs |-> rows[j].status], Disturbed>>
<1>1. ASSUME NEW j \in Jobs, NEW type \in {"dummy", "other"}, CreateJob(j, type)
      PROVE  Promise!Next
  <2>1. [k \in Jobs |-> rows[k].status]' = [[k \in Jobs |-> rows[k].status] EXCEPT ![j] = "pending"]
    BY <1>1, RowFacts DEF CreateJob, IInv, TypeOK
  <2>2. <<[k \in Jobs |-> rows[k].status][j], "pending">> \in Promise!Forward
    BY <1>1 DEF CreateJob, Promise!Forward, None
  <2>3. Promise!Advance(j)
    BY <1>1, <2>1, <2>2 DEF CreateJob, Promise!Advance, history
  <2> QED  BY <2>3 DEF Promise!Next
<1>2. ASSUME NEW j \in Jobs, LockExpires(j)
      PROVE  Promise!Next \/ UNCHANGED <<[k \in Jobs |-> rows[k].status], Disturbed>>
  <2>1. CASE lapsed' = lapsed
    BY <1>2, <2>1 DEF LockExpires, Disturbed
  <2>2. CASE lapsed' = lapsed \cup {j}
    <3>1. Promise!Disturb(j)
      BY <1>2, <2>2 DEF LockExpires, Promise!Disturb
    <3> QED  BY <3>1 DEF Promise!Next
  <2> QED  BY <1>2, <2>1, <2>2 DEF LockExpires
<1>3. ASSUME NEW w \in Workers, Work(w)
      PROVE  Promise!Next \/ UNCHANGED <<[k \in Jobs |-> rows[k].status], Disturbed>>
  <2>1. Disturbed' = Disturbed
    BY <1>3 DEF Work, Load, Claim, Finish, Reject, Fail, Disturbed, history
  <2>2. CASE Load(w)
    BY <2>1, <2>2 DEF Load
  <2>3. CASE Claim(w) \/ Finish(w) \/ Reject(w) \/ Fail(w)
    BY <2>1, <2>3, PromiseUpdate DEF Claim, Finish, Reject, Fail, At
  <2> QED  BY <1>3, <2>2, <2>3 DEF Work
<1>4. ASSUME NEW w \in Workers, NEW applied \in BOOLEAN, StatementFails(w, applied)
      PROVE  Promise!Next \/ UNCHANGED <<[k \in Jobs |-> rows[k].status], Disturbed>>
  <2>1. CASE applied
    <3>1. Disturbed' = Disturbed \cup {runs[w].job}
      BY <1>4, <2>1 DEF StatementFails, Disturbed
    <3> QED  BY <1>4, <2>1, <3>1, PromiseUpdate DEF StatementFails
  <2>2. CASE ~applied
    BY <1>4, <2>2 DEF StatementFails, Disturbed
  <2> QED  BY <2>1, <2>2
<1> QED  BY <1>1, <1>2, <1>3, <1>4
  DEF Next, EnqueueTrackableJob, EnqueueFails, EmailWorkerTakes, Take, Crash, Disturbed, history

\* The jobs implement JobPromise: without an expired lock or a statement that
\* was applied and yet failed, a job's status only ever goes forward.
THEOREM JobsKeepPromise == Spec => PromiseKept
<1>1. IInv /\ [Next]_vars =>
        [Promise!Next]_<<[j \in Jobs |-> rows[j].status], lapsed \cup unacked>>
  BY PromiseStep DEF Disturbed, vars, history
<1> QED  BY <1>1, PromiseStart, JobsInvariant, PTL DEF Spec, PromiseKept, Promise!Spec

=============================================================================
