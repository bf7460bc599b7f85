------------------------ MODULE TaskRetentionProofs ------------------------
(***************************************************************************)
(* What cleanup keeps and deletes, for every set of keys, every limit and  *)
(* every timeout.  A run is a recursive function of the number of sessions *)
(* visited; an invariant of it is proved by its least counterexample.      *)
(***************************************************************************)
EXTENDS TaskRetention, SessionsProofs

(* What is beyond the newest. *)

Before(P, t) == {u \in P : SortsBefore(u, t)}

Beyond(P, n) == {t \in P : Cardinality(Before(P, t)) >= n}

\* Tasks of one status are ordered by the time, then by the number.
Sortable(P) ==
  /\ IsFiniteSet(P)
  /\ \A t \in P : SortTime(t) \in 0 .. MaxTime /\ t.id \in 0 .. MaxTasks
  /\ \A t, u \in P : t.id = u.id => t = u

LEMMA Bounds == MaxTime \in Nat /\ MaxTasks \in Nat /\ MaxInstances \in Nat /\ MaxTime # 0
  BY RetentionAssumption, Zenon

LEMMA Limits == \A status : Kept(status) \in Nat
  BY RetentionAssumption, Zenon DEF Kept

LEMMA SubsetSortable ==
  ASSUME NEW P, Sortable(P), NEW Q \in SUBSET P
  PROVE  Sortable(Q) /\ Cardinality(Q) \in Nat /\ Cardinality(Q) <= Cardinality(P)
           /\ Cardinality(P) \in Nat
<1>1. IsFiniteSet(P)
  BY DEF Sortable
<1>2. IsFiniteSet(Q) /\ Cardinality(Q) <= Cardinality(P)
  BY <1>1, FS_Subset
<1>3. Cardinality(Q) \in Nat /\ Cardinality(P) \in Nat
  BY <1>1, <1>2, FS_CardinalityType
<1>. QED  BY <1>2, <1>3 DEF Sortable

LEMMA Ordered ==
  ASSUME NEW P, Sortable(P)
  PROVE  /\ \A t, u \in P : t = u \/ SortsBefore(t, u) \/ SortsBefore(u, t)
         /\ \A t, u, v \in P : SortsBefore(t, u) /\ SortsBefore(u, v) => SortsBefore(t, v)
         /\ \A t \in P : ~SortsBefore(t, t)
<1> DEFINE time == [t \in P |-> SortTime(t)]
<1>1. /\ \A t \in P : time[t] \in Nat /\ t.id \in Nat
      /\ \A t, u \in P : t.id = u.id => t = u
  BY Bounds DEF Sortable
<1>2. \A t, u \in P : SortsBefore(t, u) <=> time[t] > time[u] \/ (time[t] = time[u] /\ t.id < u.id)
  BY DEF SortsBefore
<1> HIDE DEF time
<1>. QED  BY <1>1, <1>2

LEMMA FirstTask ==
  ASSUME NEW P, Sortable(P), P # {}
  PROVE  \E t \in P : \A u \in P : u = t \/ SortsBefore(t, u)
<1> DEFINE time == [t \in P |-> SortTime(t)]
           ages == {MaxTime - time[t] : t \in P}
<1>1. /\ \A t \in P : time[t] \in 0 .. MaxTime /\ t.id \in Nat
      /\ \A t, u \in P : t.id = u.id => t = u
  BY Bounds DEF Sortable
<1>2. \A t, u \in P : SortsBefore(t, u) <=> time[t] > time[u] \/ (time[t] = time[u] /\ t.id < u.id)
  BY DEF SortsBefore
<1> HIDE DEF time
<1>3. ages \subseteq Nat /\ ages # {}
  BY <1>1, Bounds
<1>4. PICK m \in ages : \A n \in ages : m <= n
  BY <1>3, LeastNumber
<1> DEFINE newest == {t \in P : MaxTime - time[t] = m}
           ids == {t.id : t \in newest}
<1>5. ids \subseteq Nat /\ ids # {}
  BY <1>1
<1>6. PICK i \in ids : \A j \in ids : i <= j
  BY <1>5, LeastNumber
<1>7. PICK t \in newest : t.id = i
  OBVIOUS
<1>8. ASSUME NEW u \in P PROVE u = t \/ SortsBefore(t, u)
  <2>1. MaxTime - time[u] \in ages /\ m <= MaxTime - time[u]
    BY <1>4
  <2>2. time[u] <= time[t]
    BY <1>1, <1>7, <2>1, Bounds
  <2>3. CASE time[u] = time[t]
    <3>1. u.id \in ids /\ i <= u.id
      BY <1>6, <1>7, <2>3
    <3>. QED  BY <1>1, <1>2, <1>7, <2>3, <3>1
  <2>4. CASE time[u] # time[t]
    BY <1>1, <1>2, <1>7, <2>2, <2>4
  <2>. QED  BY <2>3, <2>4
<1>. QED  BY <1>7, <1>8

LEMMA LastTask ==
  ASSUME NEW P, Sortable(P), P # {}
  PROVE  \E t \in P : \A u \in P : u = t \/ SortsBefore(u, t)
<1> DEFINE time == [t \in P |-> SortTime(t)]
           times == {time[t] : t \in P}
<1>1. /\ \A t \in P : time[t] \in Nat /\ t.id \in 0 .. MaxTasks
      /\ \A t, u \in P : t.id = u.id => t = u
  BY Bounds DEF Sortable
<1>2. \A t, u \in P : SortsBefore(t, u) <=> time[t] > time[u] \/ (time[t] = time[u] /\ t.id < u.id)
  BY DEF SortsBefore
<1> HIDE DEF time
<1>3. times \subseteq Nat /\ times # {}
  BY <1>1
<1>4. PICK m \in times : \A n \in times : m <= n
  BY <1>3, LeastNumber
<1> DEFINE oldest == {t \in P : time[t] = m}
           ranks == {MaxTasks - t.id : t \in oldest}
<1>5. ranks \subseteq Nat /\ ranks # {}
  BY <1>1, Bounds
<1>6. PICK i \in ranks : \A j \in ranks : i <= j
  BY <1>5, LeastNumber
<1>7. PICK t \in oldest : MaxTasks - t.id = i
  OBVIOUS
<1>8. ASSUME NEW u \in P PROVE u = t \/ SortsBefore(u, t)
  <2>1. time[u] \in times /\ time[t] <= time[u]
    BY <1>4, <1>7
  <2>2. CASE time[u] = time[t]
    <3>1. MaxTasks - u.id \in ranks /\ i <= MaxTasks - u.id
      BY <1>6, <1>7, <2>2
    <3>2. u.id <= t.id
      BY <1>1, <1>7, <3>1, Bounds
    <3>. QED  BY <1>1, <1>2, <1>7, <2>2, <3>2
  <2>3. CASE time[u] # time[t]
    BY <1>1, <1>2, <1>7, <2>1, <2>3
  <2>. QED  BY <2>2, <2>3
<1>. QED  BY <1>7, <1>8

\* Whatever is beyond the newest n has n before it that are not.
LEMMA KeptEnough ==
  ASSUME NEW P, Sortable(P), NEW n \in Nat, NEW t \in Beyond(P, n)
  PROVE  Cardinality(Before(P \ Beyond(P, n), t)) >= n
<1> DEFINE B == Beyond(P, n)
<1>1. B \in SUBSET P /\ t \in B
  BY DEF Beyond
<1>2. Sortable(B)
  BY <1>1, SubsetSortable
<1> HIDE DEF B
<1>3. PICK v \in B : \A u \in B : u = v \/ SortsBefore(v, u)
  BY <1>1, <1>2, FirstTask
<1>4. Before(P, v) \subseteq Before(P \ B, t)
  <2>1. ASSUME NEW u \in Before(P, v) PROVE u \in Before(P \ B, t)
    <3>1. u \in P /\ SortsBefore(u, v)
      BY DEF Before
    <3>2. u \notin B
      BY <1>1, <1>3, <3>1, Ordered
    <3>3. SortsBefore(u, t)
      BY <1>1, <1>3, <3>1, Ordered
    <3>. QED  BY <3>1, <3>2, <3>3 DEF Before
  <2>. QED  BY <2>1
<1>5. Before(P \ B, t) \in SUBSET P
  BY DEF Before
<1>6. Sortable(Before(P \ B, t))
  BY <1>5, SubsetSortable
<1>7. /\ Cardinality(Before(P, v)) <= Cardinality(Before(P \ B, t))
      /\ Cardinality(Before(P, v)) \in Nat
      /\ Cardinality(Before(P \ B, t)) \in Nat
  BY <1>4, <1>6, SubsetSortable
<1>8. Cardinality(Before(P, v)) >= n
  BY <1>3 DEF Beyond, B
<1>. QED  BY <1>7, <1>8 DEF B

\* No more than the newest n are left, and of those none is beyond them.
LEMMA KeptFew ==
  ASSUME NEW P, Sortable(P), NEW n \in Nat
  PROVE  Cardinality(P \ Beyond(P, n)) <= n
<1> DEFINE R == P \ Beyond(P, n)
<1>1. Sortable(R) /\ IsFiniteSet(R) /\ Cardinality(R) \in Nat
  BY SubsetSortable DEF Sortable
<1>2. CASE R = {}
  BY <1>2, FS_EmptySet
<1>3. CASE R # {}
  <2>1. R \subseteq P
    OBVIOUS
  <2>2. \A t \in R : ~(Cardinality(Before(P, t)) >= n)
    BY DEF Beyond
  <2> HIDE DEF R
  <2>3. PICK t \in R : \A u \in R : u = t \/ SortsBefore(u, t)
    BY <1>1, <1>3, LastTask
  <2>4. R \ {t} \subseteq Before(P, t)
    BY <2>1, <2>3 DEF Before
  <2>5. Before(P, t) \in SUBSET P
    BY DEF Before
  <2>6. Sortable(Before(P, t)) /\ Cardinality(Before(P, t)) \in Nat
    BY <2>5, SubsetSortable
  <2>7. Cardinality(R \ {t}) <= Cardinality(Before(P, t))
    BY <2>4, <2>6, SubsetSortable
  <2>8. Cardinality(R \ {t}) = Cardinality(R) - 1
    BY <1>1, <2>3, FS_RemoveElement
  <2>9. Cardinality(Before(P, t)) < n
    BY <2>2, <2>3, <2>6
  <2>10. Cardinality(R) <= n
    BY <1>1, <2>6, <2>7, <2>8, <2>9
  <2>. QED  BY <2>10 DEF R
<1>. QED  BY <1>2, <1>3

\* At most n are left, so none of them is beyond the newest n.
LEMMA NoneBeyond ==
  ASSUME NEW P, Sortable(P), NEW n \in Nat, Cardinality(P) <= n
  PROVE  Beyond(P, n) = {}
<1>1. ASSUME NEW t \in Beyond(P, n) PROVE FALSE
  <2>1. t \in P /\ Cardinality(Before(P, t)) >= n
    BY DEF Beyond
  <2>2. Before(P, t) \in SUBSET (P \ {t})
    BY Ordered DEF Before
  <2>3. IsFiniteSet(P)
    BY DEF Sortable
  <2>4. /\ IsFiniteSet(P \ {t}) /\ Cardinality(P \ {t}) = Cardinality(P) - 1
    BY <2>1, <2>3, FS_RemoveElement
  <2>5. IsFiniteSet(Before(P, t)) /\ Cardinality(Before(P, t)) <= Cardinality(P \ {t})
    BY <2>2, <2>4, FS_Subset
  <2>6. Cardinality(Before(P, t)) \in Nat /\ Cardinality(P) \in Nat
    BY <2>3, <2>5, FS_CardinalityType
  <2>. QED  BY <2>1, <2>4, <2>5, <2>6
<1>. QED  BY <1>1

-----------------------------------------------------------------------------
(* The tasks of one session. *)

Table(ts) == ts \in SUBSET Task /\ \A t, u \in ts : t.id = u.id => t = u

PeersOf(ts, db, key, status) ==
  {u \in ts : u.db = db /\ u.sessionKey = key /\ u.status = status}

LEMMA TaskFields ==
  ASSUME NEW t \in Task
  PROVE  /\ t.id \in 1 .. MaxTasks /\ t.db \in 1 .. MaxInstances /\ t.sessionKey \in Keys
         /\ t.status \in {"unfinished", "completed", "failed"}
         /\ SortTime(t) \in 0 .. MaxTime
         /\ t.completedAt \in 0 .. MaxTime /\ t.lastCompleted \in 0 .. MaxTime
         /\ t.completedAgain \in BOOLEAN
<1>1. /\ t.id \in 1 .. MaxTasks /\ t.db \in 1 .. MaxInstances /\ t.sessionKey \in Keys
      /\ t.status \in {"unfinished", "completed", "failed"}
      /\ t.completedAt \in 0 .. MaxTime /\ t.failedAt \in 0 .. MaxTime
      /\ t.lastCompleted \in 0 .. MaxTime /\ t.completedAgain \in BOOLEAN
  BY DEF Task, Unset
<1>. QED  BY <1>1 DEF SortTime

LEMMA TableSortable ==
  ASSUME NEW ts, Table(ts)
  PROVE  Sortable(ts)
<1> DEFINE id == [t \in ts |-> t.id]
<1>1. \A t \in ts : t \in Task
  BY DEF Table
<1>2. \A t \in ts : t.id \in 1 .. MaxTasks /\ SortTime(t) \in 0 .. MaxTime
  BY <1>1, TaskFields
<1>3. id \in Injection(ts, 1 .. MaxTasks)
  BY <1>2 DEF Table, Injection, IsInjective
<1>4. IsFiniteSet(1 .. MaxTasks)
  BY Bounds, FS_Interval
<1>5. IsFiniteSet(ts)
  BY <1>3, <1>4, FS_Injection
<1>6. \A t \in ts : t.id \in 0 .. MaxTasks
  BY <1>2, Bounds
<1>. QED  BY <1>2, <1>5, <1>6 DEF Sortable, Table

LEMMA PartOfTable ==
  ASSUME NEW ts, Table(ts), NEW us \in SUBSET ts
  PROVE  Table(us)
  BY DEF Table

LEMMA PeersSortable ==
  ASSUME NEW ts, Table(ts), NEW db, NEW key, NEW status
  PROVE  Sortable(PeersOf(ts, db, key, status))
<1>1. PeersOf(ts, db, key, status) \in SUBSET ts
  BY DEF PeersOf
<1>. QED  BY <1>1, TableSortable, SubsetSortable

\* The code's test against the number before it, task by task.
LEMMA SurplusIsBeyond ==
  ASSUME NEW ts, NEW db, NEW key, NEW t
  PROVE  t \in Surplus(ts, db, key)
           <=> /\ t.status # "unfinished"
               /\ t \in Beyond(PeersOf(ts, db, key, t.status), Kept(t.status))
  BY DEF Surplus, PeersOf, Beyond, Before

-----------------------------------------------------------------------------
(* One session of a run. *)

\* As many tasks of t's session and status, finished no earlier, as may be kept.
Replaced(ts, t) ==
  /\ t.status # "unfinished"
  /\ Cardinality({u \in ts : /\ u.db = t.db /\ u.sessionKey = t.sessionKey
                             /\ u.status = t.status /\ SortTime(u) >= SortTime(t)})
       >= Kept(t.status)

Served(f, t) == \E s \in DOMAIN f.databases : f.databases[s] = t.db

\* No more of the tasks of a session than may be kept of each status.
Trimmed(f, ts, s) ==
  \A status \in {"completed", "failed"} :
    Cardinality(PeersOf(ts, f.databases[s], s, status)) <= Kept(status)

LEMMA IdsAreKeys ==
  \A s \in SessionIds : s \in Keys /\ Normalize[s] = s
<1>1. Normalize \in [Keys -> Keys] /\ \A k \in Keys : Normalize[Normalize[k]] = Normalize[k]
  BY SessionsAssumption, Zenon
<1>. QED  BY <1>1 DEF SessionIds

\* A task beyond the newest goes for ones that stay.
LEMMA SurplusReplaced ==
  ASSUME NEW ts, Table(ts), NEW db, NEW key, NEW t \in Surplus(ts, db, key)
  PROVE  t \in ts /\ t.db = db /\ Replaced(ts \ Surplus(ts, db, key), t)
<1> DEFINE P == PeersOf(ts, db, key, t.status)
           n == Kept(t.status)
           rest == ts \ Surplus(ts, db, key)
           newer == {u \in rest : /\ u.db = t.db /\ u.sessionKey = t.sessionKey
                                  /\ u.status = t.status /\ SortTime(u) >= SortTime(t)}
<1>1. t.status # "unfinished" /\ t \in Beyond(P, n)
  BY SurplusIsBeyond
<1>2. t \in P
  BY <1>1 DEF Beyond
<1>3. t \in ts /\ t.db = db /\ t.sessionKey = key
  BY <1>2 DEF PeersOf
<1>4. Sortable(P) /\ n \in Nat
  BY PeersSortable, Limits
<1> HIDE DEF n
<1>5. Cardinality(Before(P \ Beyond(P, n), t)) >= n
  BY <1>1, <1>4, KeptEnough
<1>6. ASSUME NEW u \in Before(P \ Beyond(P, n), t) PROVE u \in newer
  <2>1. u \in P /\ u \notin Beyond(P, n) /\ SortsBefore(u, t)
    BY <1>6 DEF Before
  <2>2. u \in ts /\ u.db = t.db /\ u.sessionKey = t.sessionKey /\ u.status = t.status
    BY <1>3, <2>1 DEF PeersOf
  <2>3. u \notin Surplus(ts, db, key)
    BY <2>1, <2>2, SurplusIsBeyond DEF n
  <2>4. SortTime(u) \in Nat /\ SortTime(t) \in Nat
    BY <1>2, <1>4, <2>1, Bounds DEF Sortable
  <2>5. SortTime(u) >= SortTime(t)
    BY <2>1, <2>4 DEF SortsBefore
  <2>. QED  BY <2>2, <2>3, <2>5
<1>7. newer \in SUBSET ts /\ Sortable(ts)
  BY TableSortable
<1>8. Sortable(newer)
  BY <1>7, SubsetSortable
<1>9. Before(P \ Beyond(P, n), t) \in SUBSET newer
  BY <1>6
<1> HIDE DEF newer
<1>10. /\ Cardinality(Before(P \ Beyond(P, n), t)) <= Cardinality(newer)
       /\ Cardinality(Before(P \ Beyond(P, n), t)) \in Nat /\ Cardinality(newer) \in Nat
  BY <1>8, <1>9, SubsetSortable
<1>11. Cardinality(newer) >= n
  BY <1>4, <1>5, <1>10
<1>. QED  BY <1>1, <1>3, <1>11 DEF Replaced, newer, n

LEMMA SurplusTrims ==
  ASSUME NEW ts, Table(ts), NEW db, NEW key, NEW status \in {"completed", "failed"}
  PROVE  Cardinality(PeersOf(ts \ Surplus(ts, db, key), db, key, status)) <= Kept(status)
<1> DEFINE P == PeersOf(ts, db, key, status)
           n == Kept(status)
           rest == PeersOf(ts \ Surplus(ts, db, key), db, key, status)
<1>1. Sortable(P) /\ n \in Nat
  BY PeersSortable, Limits
<1>2. rest = P \ Beyond(P, n)
  <2>1. ASSUME NEW u \in ts, u.db = db, u.sessionKey = key, u.status = status
        PROVE  u \in Surplus(ts, db, key) <=> u \in Beyond(P, n)
    BY <2>1, SurplusIsBeyond
  <2>2. \A u : u \in P <=> u \in ts /\ u.db = db /\ u.sessionKey = key /\ u.status = status
    BY DEF PeersOf
  <2>3. \A u : u \in rest <=> u \in P /\ u \notin Surplus(ts, db, key)
    BY DEF PeersOf
  <2> HIDE DEF P, n, rest
  <2>. QED  BY <2>1, <2>2, <2>3
<1> HIDE DEF P, n
<1>3. Cardinality(P \ Beyond(P, n)) <= n
  BY <1>1, KeptFew
<1>. QED  BY <1>2, <1>3 DEF n

LEMMA TrimmedHasNoSurplus ==
  ASSUME NEW f, NEW ts, Table(ts), NEW s, Trimmed(f, ts, s)
  PROVE  Surplus(ts, f.databases[s], s) = {}
<1>1. ASSUME NEW t \in Surplus(ts, f.databases[s], s) PROVE FALSE
  <2> DEFINE P == PeersOf(ts, f.databases[s], s, t.status)
  <2>1. t.status # "unfinished" /\ t \in Beyond(P, Kept(t.status))
    BY <1>1, SurplusIsBeyond
  <2>2. t \in ts
    BY <2>1 DEF Beyond, PeersOf
  <2>3. t \in Task
    BY <2>2 DEF Table
  <2>4. t.status \in {"completed", "failed"}
    BY <2>1, <2>3, TaskFields
  <2>5. Sortable(P) /\ Kept(t.status) \in Nat
    BY PeersSortable, Limits
  <2>6. Cardinality(P) <= Kept(t.status)
    BY <2>4 DEF Trimmed
  <2> HIDE DEF P
  <2>. QED  BY <2>1, <2>5, <2>6, NoneBeyond
<1>. QED  BY <1>1

\* A state of a run is a factory and the tasks that it leads to.
RunState(r) == WellFormed(r.factory) /\ Distinct(r.factory) /\ Table(r.tasks)

LEMMA CleanSessionFields ==
  ASSUME NEW r, NEW s, NEW t
  PROVE  LET f == GetDatabase(r.factory, s, t)
             ts == Reachable(f, r.tasks)
         IN  /\ CleanSession(r, s, t).factory = f
             /\ CleanSession(r, s, t).tasks = ts \ Surplus(ts, DatabaseOf(f, s), s)
  BY DEF CleanSession

LEMMA CleanSessionStep ==
  ASSUME NEW r, RunState(r), NEW s \in SessionIds, NEW t \in Nat
  PROVE  LET q == CleanSession(r, s, t)
         IN  /\ RunState(q)
             /\ q.tasks \subseteq r.tasks
             /\ \A u \in q.tasks : Served(q.factory, u)
             /\ Trimmed(q.factory, q.tasks, s)
             /\ \A u \in r.tasks \ q.tasks : Served(q.factory, u) => Replaced(q.tasks, u)
<1> DEFINE q == CleanSession(r, s, t)
           f == q.factory
           ts == Reachable(f, r.tasks)
           db == f.databases[s]
<1>1. s \in Keys /\ Normalize[s] = s
  BY IdsAreKeys
<1>2. f = GetDatabase(r.factory, s, t) /\ q.tasks = ts \ Surplus(ts, db, s)
  BY <1>1, CleanSessionFields DEF DatabaseOf
<1>3. WellFormed(f) /\ Distinct(f)
  BY <1>1, <1>2, GetDatabaseServes, GetDatabaseDistinct DEF RunState
<1>4. \A u : u \in ts <=> u \in r.tasks /\ Served(f, u)
  BY DEF Reachable, Served, ActiveSessions
<1> HIDE DEF q, f, ts, db
<1>5. Table(ts) /\ Table(q.tasks)
  BY <1>2, <1>4, PartOfTable DEF RunState
<1>6. RunState(q)
  BY <1>3, <1>5 DEF RunState, f
<1>7. Trimmed(f, q.tasks, s)
  BY <1>2, <1>5, SurplusTrims DEF Trimmed, db
<1>8. ASSUME NEW u \in r.tasks \ q.tasks, Served(f, u) PROVE Replaced(q.tasks, u)
  BY <1>2, <1>4, <1>5, <1>8, SurplusReplaced
<1>9. \A u \in q.tasks : u \in r.tasks /\ Served(f, u)
  BY <1>2, <1>4
<1>. QED  BY <1>6, <1>7, <1>8, <1>9 DEF q, f

-----------------------------------------------------------------------------
(* The order in which a run visits the sessions. *)

Increasing(order, f) ==
  \A i, j \in 1 .. Size(f) : i < j => f.databases[order[i]] < f.databases[order[j]]

LEMMA OrderExists ==
  ASSUME NEW f, WellFormed(f), Distinct(f)
  PROVE  \E order \in [1 .. Size(f) -> ActiveSessions(f)] : Increasing(order, f)
<1> DEFINE D == DOMAIN f.databases
           n == Size(f)
           older(s) == {t \in D : f.databases[t] < f.databases[s]}
           rank == [s \in D |-> Cardinality(older(s)) + 1]
           order == [i \in 1 .. n |-> CHOOSE s \in D : rank[s] = i]
<1>1. IsFiniteSet(D) /\ n = Cardinality(D) /\ n \in Nat
  BY FiniteFactory DEF Size, ActiveSessions
<1>2. /\ \A s \in D : f.databases[s] \in Nat
      /\ \A s, t \in D : f.databases[s] = f.databases[t] => s = t
  BY DEF WellFormed, IsFactory, IsMap, Distinct
<1>3. ASSUME NEW s \in D
      PROVE  IsFiniteSet(older(s)) /\ Cardinality(older(s)) \in Nat /\ Cardinality(older(s)) + 1 <= n
  <2>1. older(s) \in SUBSET (D \ {s})
    BY <1>2
  <2>2. IsFiniteSet(D \ {s}) /\ Cardinality(D \ {s}) = n - 1
    BY <1>1, FS_RemoveElement
  <2> HIDE DEF older
  <2>3. IsFiniteSet(older(s)) /\ Cardinality(older(s)) <= Cardinality(D \ {s})
    BY <2>1, <2>2, FS_Subset
  <2>4. Cardinality(older(s)) \in Nat
    BY <2>3, FS_CardinalityType
  <2>. QED  BY <1>1, <2>2, <2>3, <2>4
<1>4. ASSUME NEW s \in D, NEW t \in D, f.databases[s] < f.databases[t]
      PROVE  rank[s] < rank[t]
  <2>1. s \notin older(s) /\ older(s) \cup {s} \in SUBSET older(t)
    BY <1>2, <1>4
  <2> HIDE DEF older
  <2>2. Cardinality(older(s) \cup {s}) = Cardinality(older(s)) + 1
    BY <1>3, <2>1, FS_AddElement
  <2>3. Cardinality(older(s) \cup {s}) <= Cardinality(older(t))
    BY <1>3, <2>1, FS_Subset
  <2>. QED  BY <1>3, <2>2, <2>3
<1>5. rank \in [D -> 1 .. n]
  <2> HIDE DEF older
  <2>. QED  BY <1>1, <1>3
<1> HIDE DEF rank, D, n, older
<1>6. rank \in Injection(D, 1 .. n)
  <2>1. ASSUME NEW s \in D, NEW t \in D, rank[s] = rank[t] PROVE s = t
    <3>1. f.databases[s] < f.databases[t] \/ f.databases[t] < f.databases[s] \/ s = t
      BY <1>2
    <3>2. rank[s] \in Nat /\ rank[t] \in Nat
      BY <1>1, <1>5
    <3>. QED  BY <1>4, <2>1, <3>1, <3>2
  <2>. QED  BY <1>5, <2>1 DEF Injection, IsInjective
<1>7. IsFiniteSet(1 .. n) /\ Cardinality(1 .. n) = n
  BY <1>1, FS_Interval
<1>8. rank \in Surjection(D, 1 .. n)
  BY <1>1, <1>6, <1>7, FS_Injection
<1>9. \A i \in 1 .. n : \E s \in D : rank[s] = i
  BY <1>8 DEF Surjection
<1>10. \A i \in 1 .. n : order[i] \in D /\ rank[order[i]] = i
  BY <1>9
<1>11. order \in [1 .. n -> D]
  BY <1>10
<1> HIDE DEF order
<1>12. ASSUME NEW i \in 1 .. n, NEW j \in 1 .. n, i < j
       PROVE  f.databases[order[i]] < f.databases[order[j]]
  <2>1. ~(rank[order[j]] < rank[order[i]]) /\ order[i] # order[j]
    BY <1>1, <1>10, <1>12
  <2>2. order[i] \in D /\ order[j] \in D
    BY <1>10
  <2>. QED  BY <1>2, <1>4, <2>1, <2>2
<1>. QED  BY <1>11, <1>12 DEF Increasing, n, D, ActiveSessions

LEMMA SessionOrderVisitsAll ==
  ASSUME NEW f, WellFormed(f), Distinct(f)
  PROVE  /\ SessionOrder(f) \in [1 .. Size(f) -> DOMAIN f.databases]
         /\ \A i, j \in 1 .. Size(f) : SessionOrder(f)[i] = SessionOrder(f)[j] => i = j
         /\ \A s \in DOMAIN f.databases : \E i \in 1 .. Size(f) : SessionOrder(f)[i] = s
<1> DEFINE O == [1 .. Size(f) -> ActiveSessions(f)]
           order == SessionOrder(f)
           n == Size(f)
           D == DOMAIN f.databases
<1>1. order = CHOOSE o \in O : Increasing(o, f)
  BY DEF SessionOrder, Increasing
<1>2. \E o \in O : Increasing(o, f)
  BY OrderExists
<1> HIDE DEF order
<1>3. order \in O /\ Increasing(order, f)
  BY <1>1, <1>2, Zenon
<1>4. IsFiniteSet(D) /\ n \in Nat /\ n = Cardinality(D)
  BY FiniteFactory DEF Size, ActiveSessions
<1>5. order \in [1 .. n -> D]
  BY <1>3 DEF ActiveSessions
<1>6. \A i, j \in 1 .. n : i < j => f.databases[order[i]] < f.databases[order[j]]
  BY <1>3 DEF Increasing
<1>7. \A s \in D : f.databases[s] \in Nat
  BY DEF WellFormed, IsFactory, IsMap
<1> HIDE DEF n, D
<1>8. ASSUME NEW i \in 1 .. n, NEW j \in 1 .. n, order[i] = order[j] PROVE i = j
  <2>1. order[i] \in D /\ f.databases[order[i]] \in Nat
    BY <1>5, <1>7
  <2>. QED  BY <1>4, <1>6, <1>8, <2>1
<1>9. order \in Injection(1 .. n, D)
  BY <1>5, <1>8 DEF Injection, IsInjective
<1>10. Cardinality(1 .. n) = Cardinality(D)
  BY <1>4, FS_Interval
<1>11. order \in Surjection(1 .. n, D)
  BY <1>4, <1>9, <1>10, FS_Injection
<1>. QED  BY <1>5, <1>8, <1>11 DEF Surjection, n, D, order

-----------------------------------------------------------------------------
(* A run is a sequence of states, one more after each session. *)

IsRun(g, start, n, order, time) ==
  g = [i \in 0 .. n |-> IF i = 0 THEN start ELSE CleanSession(g[i - 1], order[i], time[i])]

LEMMA RunExists ==
  ASSUME NEW start, NEW n \in Nat, NEW order, NEW time
  PROVE  \E g : IsRun(g, start, n, order, time)
<1> DEFINE Run(m, g) == IsRun(g, start, m, order, time)
           bad == {m \in 0 .. n : ~ \E g : Run(m, g)}
<1>1. ASSUME bad # {} PROVE FALSE
  <2>1. bad \subseteq Nat
    OBVIOUS
  <2>2. PICK m \in bad : \A k \in bad : m <= k
    BY <1>1, <2>1, LeastNumber
  <2>3. CASE m = 0
    <3> DEFINE g == [i \in 0 .. 0 |-> start]
    <3>1. Run(0, g)
      BY DEF IsRun
    <3>. QED  BY <2>2, <2>3, <3>1
  <2>4. CASE m # 0
    <3>1. m - 1 \in 0 .. n /\ m - 1 \notin bad
      BY <2>2, <2>4
    <3>2. PICK g : Run(m - 1, g)
      BY <3>1
    <3> DEFINE last == CleanSession(g[m - 1], order[m], time[m])
               h == [i \in 0 .. m |-> IF i = m THEN last ELSE g[i]]
    <3>3. \A i \in 0 .. (m - 1) : g[i] = IF i = 0 THEN start
                                         ELSE CleanSession(g[i - 1], order[i], time[i])
      BY <3>2 DEF IsRun
    <3>4. ASSUME NEW i \in 0 .. m
          PROVE  h[i] = IF i = 0 THEN start ELSE CleanSession(h[i - 1], order[i], time[i])
      <4>1. CASE i = m
        <5>1. h[m] = last /\ h[m - 1] = g[m - 1]
          BY <2>2, <2>4
        <5>. QED  BY <2>4, <4>1, <5>1
      <4>2. CASE i # m
        <5>1. i \in 0 .. (m - 1) /\ h[i] = g[i] /\ (i # 0 => h[i - 1] = g[i - 1])
          BY <2>2, <4>2
        <5>. QED  BY <3>3, <5>1
      <4>. QED  BY <4>1, <4>2
    <3>5. Run(m, h)
      <4>1. h = [i \in 0 .. m |-> h[i]]
        OBVIOUS
      <4> HIDE DEF h
      <4>. QED  BY <3>4, <4>1 DEF IsRun
    <3>. QED  BY <2>2, <3>5
  <2>. QED  BY <2>3, <2>4
<1>2. n \in 0 .. n
  OBVIOUS
<1>. QED  BY <1>1, <1>2

States(state, start, n, order, time) ==
  /\ state[0] = start
  /\ \A i \in 1 .. n : state[i] = CleanSession(state[i - 1], order[i], time[i])

LEMMA RunStates ==
  ASSUME NEW start, NEW n \in Nat, NEW order, NEW time
  PROVE  \E state : /\ States(state, start, n, order, time)
                    /\ CleanSessions(start, n, order, time) = state[n]
<1> DEFINE state[i \in 0 .. n] ==
             IF i = 0 THEN start ELSE CleanSession(state[i - 1], order[i], time[i])
<1>1. CleanSessions(start, n, order, time) = state[n]
  BY DEF CleanSessions
<1>2. state = [i \in 0 .. n |->
                 IF i = 0 THEN start ELSE CleanSession(state[i - 1], order[i], time[i])]
  <2>1. state = CHOOSE g : IsRun(g, start, n, order, time)
    BY DEF IsRun
  <2>2. \E g : IsRun(g, start, n, order, time)
    BY RunExists
  <2> HIDE DEF state
  <2>3. IsRun(state, start, n, order, time)
    BY <2>1, <2>2, Zenon
  <2>. QED  BY <2>3 DEF IsRun
<1> HIDE DEF state
<1>3. \A i \in 0 .. n : state[i] = IF i = 0 THEN start
                                  ELSE CleanSession(state[i - 1], order[i], time[i])
  BY <1>2
<1>4. States(state, start, n, order, time)
  BY <1>3 DEF States
<1>. QED  BY <1>1, <1>4

-----------------------------------------------------------------------------
(* What holds after each session of a run. *)

LEMMA UpTo ==
  ASSUME NEW n \in Nat, NEW S, 0 \in S, \A i \in 1 .. n : i - 1 \in S => i \in S
  PROVE  \A i \in 0 .. n : i \in S
<1> DEFINE bad == {i \in 0 .. n : i \notin S}
<1>1. ASSUME bad # {} PROVE FALSE
  <2>1. bad \subseteq Nat
    OBVIOUS
  <2>2. PICK m \in bad : \A k \in bad : m <= k
    BY <1>1, <2>1, LeastNumber
  <2>3. m \in 1 .. n /\ m - 1 \in 0 .. n
    BY <2>2
  <2>4. m - 1 \in S
    BY <2>2, <2>3
  <2>. QED  BY <2>2, <2>3, <2>4
<1>. QED  BY <1>1

Run(state, start, n, order, time) ==
  /\ RunState(start)
  /\ \A t \in start.tasks : t.db <= start.factory.created
  /\ order \in [1 .. n -> DOMAIN start.factory.databases]
  /\ time \in [1 .. n -> Nat]
  /\ States(state, start, n, order, time)

\* q can follow r in a run that started from `start`: it has fewer of its tasks, and
\* of the databases that served them only ones that serve the same session as before.
Follows(q, r) ==
  /\ q.tasks \subseteq r.tasks
  /\ q.factory.created >= r.factory.created
  /\ \A s \in DOMAIN q.factory.databases :
       q.factory.databases[s] <= r.factory.created =>
         s \in DOMAIN r.factory.databases /\ r.factory.databases[s] = q.factory.databases[s]

LEMMA CleanSessionFollows ==
  ASSUME NEW r, RunState(r), NEW s \in SessionIds, NEW t \in Nat
  PROVE  LET q == CleanSession(r, s, t)
         IN  /\ Follows(q, r)
             /\ \A x \in DOMAIN q.factory.databases :
                  \/ x = s
                  \/ x \in DOMAIN r.factory.databases
                     /\ r.factory.databases[x] = q.factory.databases[x]
<1> DEFINE q == CleanSession(r, s, t)
<1>1. s \in Keys /\ Normalize[s] = s
  BY IdsAreKeys
<1>2. q.factory = GetDatabase(r.factory, s, t)
  BY CleanSessionFields
<1>3. q.tasks \subseteq r.tasks
  BY CleanSessionStep
<1> HIDE DEF q
<1>4. /\ q.factory.created >= r.factory.created
      /\ \A x \in DOMAIN q.factory.databases :
           q.factory.databases[x] <= r.factory.created =>
             x \in DOMAIN r.factory.databases /\ r.factory.databases[x] = q.factory.databases[x]
      /\ \A x \in DOMAIN q.factory.databases :
           \/ x = s
           \/ x \in DOMAIN r.factory.databases
              /\ r.factory.databases[x] = q.factory.databases[x]
  BY <1>1, <1>2, GetDatabaseDistinct DEF RunState
<1>. QED  BY <1>3, <1>4 DEF Follows, q

LEMMA FollowsOnward ==
  ASSUME NEW r, RunState(r), NEW q, RunState(q), NEW p, RunState(p),
         Follows(q, r), Follows(p, q)
  PROVE  Follows(p, r)
<1>1. /\ r.factory.created \in Nat /\ q.factory.created \in Nat /\ p.factory.created \in Nat
      /\ \A s \in DOMAIN p.factory.databases : p.factory.databases[s] \in Nat
  BY DEF RunState, WellFormed, IsFactory, IsMap
<1>2. p.factory.created >= r.factory.created
  BY <1>1 DEF Follows
<1>3. ASSUME NEW s \in DOMAIN p.factory.databases, p.factory.databases[s] <= r.factory.created
      PROVE  s \in DOMAIN r.factory.databases /\ r.factory.databases[s] = p.factory.databases[s]
  <2>1. p.factory.databases[s] <= q.factory.created
    BY <1>1, <1>3 DEF Follows
  <2>2. s \in DOMAIN q.factory.databases /\ q.factory.databases[s] = p.factory.databases[s]
    BY <2>1 DEF Follows
  <2>. QED  BY <1>3, <2>2 DEF Follows
<1>. QED  BY <1>2, <1>3 DEF Follows

LEMMA VisitedIds ==
  ASSUME NEW f, WellFormed(f), NEW s \in DOMAIN f.databases
  PROVE  s \in SessionIds
  BY DEF WellFormed, IsFactory, IsMap

LEMMA RunFollows ==
  ASSUME NEW state, NEW start, NEW n \in Nat, NEW order, NEW time,
         Run(state, start, n, order, time)
  PROVE  \A i \in 0 .. n :
           /\ RunState(state[i])
           /\ Follows(state[i], start)
           /\ DOMAIN state[i].factory.databases \subseteq DOMAIN start.factory.databases
<1> DEFINE good(q) == /\ RunState(q)
                      /\ Follows(q, start)
                      /\ DOMAIN q.factory.databases \subseteq DOMAIN start.factory.databases
           S == {i \in 0 .. n : good(state[i])}
<1>1. RunState(start) /\ state[0] = start
  BY DEF Run, States
<1>2. 0 \in S
  <2>1. start.factory.created \in Nat
    BY <1>1 DEF RunState, WellFormed, IsFactory
  <2>2. Follows(start, start)
    BY <2>1 DEF Follows
  <2>. QED  BY <1>1, <2>2
<1>3. ASSUME NEW i \in 1 .. n, i - 1 \in S PROVE i \in S
  <2> DEFINE r == state[i - 1]
             q == state[i]
             s == order[i]
  <2>1. /\ s \in DOMAIN start.factory.databases /\ time[i] \in Nat
        /\ q = CleanSession(r, s, time[i])
    BY DEF Run, States
  <2>2. s \in SessionIds
    BY <1>1, <2>1, VisitedIds DEF RunState
  <2>3. good(r)
    BY <1>3
  <2> HIDE DEF q, r, s
  <2>4. RunState(q)
    BY <2>1, <2>2, <2>3, CleanSessionStep
  <2>5. /\ Follows(q, r)
        /\ \A x \in DOMAIN q.factory.databases : x = s \/ x \in DOMAIN r.factory.databases
    BY <2>1, <2>2, <2>3, CleanSessionFollows
  <2>6. Follows(q, start)
    BY <1>1, <2>3, <2>4, <2>5, FollowsOnward
  <2>7. good(q)
    BY <2>1, <2>3, <2>4, <2>5, <2>6
  <2>. QED  BY <2>7 DEF q
<1> HIDE DEF S
<1>4. \A i \in 0 .. n : i \in S
  BY <1>2, <1>3, UpTo
<1>. QED  BY <1>4 DEF S

\* One state of a run and the next.
LEMMA RunNext ==
  ASSUME NEW state, NEW start, NEW n \in Nat, NEW order, NEW time,
         Run(state, start, n, order, time), NEW i \in 1 .. n
  PROVE  /\ RunState(state[i - 1]) /\ Follows(state[i - 1], start) /\ RunState(state[i])
         /\ order[i] \in SessionIds /\ time[i] \in Nat
         /\ state[i] = CleanSession(state[i - 1], order[i], time[i])
<1>1. i \in 0 .. n /\ i - 1 \in 0 .. n
  OBVIOUS
<1>2. /\ order[i] \in DOMAIN start.factory.databases /\ time[i] \in Nat /\ RunState(start)
      /\ state[i] = CleanSession(state[i - 1], order[i], time[i])
  BY DEF Run, States
<1>3. order[i] \in SessionIds
  BY <1>2, VisitedIds DEF RunState
<1>. QED  BY <1>1, <1>2, <1>3, RunFollows

LEMMA TrimmedShrinks ==
  ASSUME NEW f, NEW g, NEW ts, Table(ts), NEW us, us \subseteq ts, NEW s,
         f.databases[s] = g.databases[s], Trimmed(f, ts, s)
  PROVE  Trimmed(g, us, s)
<1>1. ASSUME NEW status \in {"completed", "failed"}
      PROVE  Cardinality(PeersOf(us, g.databases[s], s, status)) <= Kept(status)
  <2> DEFINE P == PeersOf(ts, f.databases[s], s, status)
             Q == PeersOf(us, g.databases[s], s, status)
  <2>1. Sortable(P) /\ Q \in SUBSET P
    <3>1. Sortable(P)
      BY PeersSortable
    <3>2. Q \in SUBSET P
      BY DEF PeersOf
    <3>. QED  BY <3>1, <3>2
  <2>2. Cardinality(P) <= Kept(status) /\ Kept(status) \in Nat
    BY Limits DEF Trimmed
  <2> HIDE DEF P, Q
  <2>3. Cardinality(Q) \in Nat /\ Cardinality(P) \in Nat /\ Cardinality(Q) <= Cardinality(P)
    BY <2>1, SubsetSortable
  <2>. QED  BY <2>2, <2>3 DEF Q
<1>. QED  BY <1>1 DEF Trimmed

\* A session that was visited stays trimmed.
LEMMA RunTrims ==
  ASSUME NEW state, NEW start, NEW n \in Nat, NEW order, NEW time,
         Run(state, start, n, order, time)
  PROVE  \A i \in 0 .. n : \A j \in 1 .. i :
           order[j] \in DOMAIN state[i].factory.databases =>
             Trimmed(state[i].factory, state[i].tasks, order[j])
<1> DEFINE good(i) == \A j \in 1 .. i :
                        order[j] \in DOMAIN state[i].factory.databases =>
                          Trimmed(state[i].factory, state[i].tasks, order[j])
           S == {i \in 0 .. n : good(i)}
<1>1. 0 \in S
  OBVIOUS
<1>2. ASSUME NEW i \in 1 .. n, i - 1 \in S PROVE i \in S
  <2> DEFINE r == state[i - 1]
             q == state[i]
  <2>1. /\ RunState(r) /\ order[i] \in SessionIds /\ time[i] \in Nat
        /\ q = CleanSession(r, order[i], time[i])
    BY RunNext
  <2>2. \A j \in 1 .. (i - 1) :
          order[j] \in DOMAIN r.factory.databases => Trimmed(r.factory, r.tasks, order[j])
    BY <1>2
  <2> HIDE DEF q, r
  <2>3. q.tasks \subseteq r.tasks /\ Trimmed(q.factory, q.tasks, order[i])
    BY <2>1, CleanSessionStep
  <2>4. \A x \in DOMAIN q.factory.databases :
          \/ x = order[i]
          \/ x \in DOMAIN r.factory.databases /\ r.factory.databases[x] = q.factory.databases[x]
    BY <2>1, CleanSessionFollows
  <2>5. ASSUME NEW j \in 1 .. i, order[j] \in DOMAIN q.factory.databases
        PROVE  Trimmed(q.factory, q.tasks, order[j])
    <3>1. CASE order[j] = order[i]
      BY <2>3, <3>1
    <3>2. CASE order[j] # order[i]
      <4>1. j \in 1 .. (i - 1)
        BY <3>2
      <4>2. Trimmed(r.factory, r.tasks, order[j])
        BY <2>2, <2>4, <2>5, <3>2, <4>1
      <4>. QED  BY <2>1, <2>3, <2>4, <2>5, <3>2, <4>2, TrimmedShrinks DEF RunState
    <3>. QED  BY <3>1, <3>2
  <2>. QED  BY <2>5 DEF q
<1> HIDE DEF S
<1>3. \A i \in 0 .. n : i \in S
  BY <1>1, <1>2, UpTo
<1>. QED  BY <1>3 DEF S
\* A task that was replaced stays replaced when what replaces it is.
LEMMA ReplacedStays ==
  ASSUME NEW ts, Table(ts), NEW us \in SUBSET ts, NEW t \in Task, Replaced(ts, t),
         \A v \in ts \ us : v.db = t.db => Replaced(us, v)
  PROVE  Replaced(us, t)
<1> DEFINE Newer(xs, v) == {u \in xs : /\ u.db = v.db /\ u.sessionKey = v.sessionKey
                                       /\ u.status = v.status /\ SortTime(u) >= SortTime(v)}
           n == Kept(t.status)
<1>1. t.status # "unfinished" /\ Cardinality(Newer(ts, t)) >= n
  BY DEF Replaced
<1>2. CASE Newer(ts, t) \subseteq us
  <2>1. Newer(ts, t) = Newer(us, t)
    BY <1>2
  <2> HIDE DEF Newer
  <2>2. Cardinality(Newer(us, t)) >= n
    BY <1>1, <2>1
  <2>. QED  BY <1>1, <2>2 DEF Replaced, Newer
<1>3. CASE ~(Newer(ts, t) \subseteq us)
  <2>1. PICK v \in Newer(ts, t) : v \notin us
    BY <1>3
  <2>2. /\ v \in ts \ us /\ v.db = t.db /\ v.sessionKey = t.sessionKey
        /\ v.status = t.status /\ SortTime(v) >= SortTime(t)
    BY <2>1
  <2>3. Cardinality(Newer(us, v)) >= n
    <3>1. Replaced(us, v)
      BY <2>2
    <3>. QED  BY <2>2, <3>1 DEF Replaced
  <2>4. v \in Task /\ \A u \in us : u \in Task
    BY <2>2 DEF Table
  <2>5. SortTime(v) \in Nat /\ SortTime(t) \in Nat /\ \A u \in us : SortTime(u) \in Nat
    BY <2>4, TaskFields, Bounds
  <2>6. Newer(us, v) \in SUBSET Newer(us, t)
    BY <2>2, <2>5
  <2>7. Newer(us, t) \in SUBSET ts /\ Sortable(ts)
    BY TableSortable
  <2>8. Sortable(Newer(us, t)) /\ n \in Nat
    BY <2>7, SubsetSortable, Limits
  <2> HIDE DEF Newer, n
  <2>9. /\ Cardinality(Newer(us, v)) <= Cardinality(Newer(us, t))
        /\ Cardinality(Newer(us, v)) \in Nat /\ Cardinality(Newer(us, t)) \in Nat
    BY <2>6, <2>8, SubsetSortable
  <2>10. Cardinality(Newer(us, t)) >= n
    BY <2>3, <2>8, <2>9
  <2>. QED  BY <1>1, <2>10 DEF Replaced, Newer, n
<1>. QED  BY <1>2, <1>3

\* What a run has deleted of a session that kept its database has been replaced.
LEMMA RunReplaces ==
  ASSUME NEW state, NEW start, NEW n \in Nat, NEW order, NEW time,
         Run(state, start, n, order, time)
  PROVE  \A i \in 0 .. n : \A t \in start.tasks \ state[i].tasks :
           Served(state[i].factory, t) => Replaced(state[i].tasks, t)
<1> DEFINE good(q) == \A t \in start.tasks \ q.tasks :
                        Served(q.factory, t) => Replaced(q.tasks, t)
           S == {i \in 0 .. n : good(state[i])}
<1>1. 0 \in S
  BY DEF Run, States
<1>2. ASSUME NEW i \in 1 .. n, i - 1 \in S PROVE i \in S
  <2> DEFINE r == state[i - 1]
             q == state[i]
  <2>1. /\ RunState(r) /\ Follows(r, start) /\ RunState(q)
        /\ order[i] \in SessionIds /\ time[i] \in Nat
        /\ q = CleanSession(r, order[i], time[i])
    BY RunNext
  <2>2. good(r)
    BY <1>2
  <2> HIDE DEF q, r
  <2>3. /\ q.tasks \subseteq r.tasks
        /\ \A u \in r.tasks \ q.tasks : Served(q.factory, u) => Replaced(q.tasks, u)
    BY <2>1, CleanSessionStep
  <2>4. Follows(q, r)
    BY <2>1, CleanSessionFollows
  <2>5. ASSUME NEW t \in start.tasks \ q.tasks, Served(q.factory, t)
        PROVE  Replaced(q.tasks, t)
    <3>1. CASE t \in r.tasks
      BY <2>3, <2>5, <3>1
    <3>2. CASE t \notin r.tasks
      <4>1. RunState(start) /\ t.db <= start.factory.created /\ t \in Task
        BY DEF Run, RunState, Table
      <4>2. t.db \in Nat /\ start.factory.created \in Nat /\ r.factory.created \in Nat
        BY <2>1, <4>1, TaskFields, Bounds DEF RunState, WellFormed, IsFactory
      <4>3. t.db <= r.factory.created
        BY <2>1, <4>1, <4>2 DEF Follows
      <4>4. Served(r.factory, t)
        BY <2>4, <2>5, <4>3 DEF Served, Follows
      <4>5. Replaced(r.tasks, t)
        BY <2>2, <3>2, <4>4
      <4>6. \A v \in r.tasks \ q.tasks : v.db = t.db => Replaced(q.tasks, v)
        BY <2>3, <2>5 DEF Served
      <4>7. Table(r.tasks) /\ q.tasks \in SUBSET r.tasks
        BY <2>1, <2>3 DEF RunState
      <4>. QED  BY <4>1, <4>5, <4>6, <4>7, ReplacedStays
    <3>. QED  BY <3>1, <3>2
  <2>. QED  BY <2>5 DEF q
<1> HIDE DEF S
<1>3. \A i \in 0 .. n : i \in S
  BY <1>1, <1>2, UpTo
<1>. QED  BY <1>3 DEF S
-----------------------------------------------------------------------------
(* A run over no more sessions than maxSessions evicts none. *)

LEMMA GetDatabaseSpares ==
  ASSUME NEW f, WellFormed(f), Size(f) <= MaxSessions,
         NEW s \in DOMAIN f.databases, NEW t \in Nat
  PROVE  LET g == GetDatabase(f, s, t)
         IN  /\ DOMAIN g.databases = DOMAIN f.databases
             /\ \A x \in DOMAIN f.databases \ {s} :
                  /\ g.databases[x] = f.databases[x]
                  /\ g.sessionTimestamps[x] = f.sessionTimestamps[x]
             /\ Unexpired(f, s, t) => g.databases[s] = f.databases[s]
<1> DEFINE g == GetDatabase(f, s, t)
           f0 == Removed(f, s)
           p == Roomy(f, s, t)
<1>1. s \in SessionIds /\ s \in Keys /\ Normalize[s] = s
  BY VisitedIds, IdsAreKeys
<1>2. DOMAIN f.databases = DOMAIN f.sessionTimestamps
  BY DEF WellFormed
<1>3. CASE Unexpired(f, s, t)
  <2>1. /\ g.databases = f.databases
        /\ \A x \in DOMAIN f.sessionTimestamps \ {s} :
             g.sessionTimestamps[x] = f.sessionTimestamps[x]
    BY <1>1, <1>3, GetDatabaseCases
  <2>. QED  BY <1>2, <2>1
<1>4. CASE ~Unexpired(f, s, t)
  <2>1. /\ WellFormed(f0) /\ KeepsStampsOf(f0, f)
        /\ DOMAIN f0.databases = DOMAIN f.databases \ {s}
    BY <1>1, RoomyCases
  <2>2. p = f0
    <3>1. MaxSessions \in Nat /\ Size(f) \in Nat
      BY SessionsAssumption, FiniteFactory, Zenon
    <3>2. Size(f0) \in Nat /\ Size(f0) + 1 <= Size(f)
      BY <2>1, OneLess
    <3>3. ~(Size(f0) >= MaxSessions)
      BY <3>1, <3>2
    <3>. QED  BY <3>3 DEF Roomy, MakeRoom, Removed
  <2>3. /\ DOMAIN g.databases = DOMAIN f0.databases \cup {s}
        /\ \A x \in DOMAIN f0.sessionTimestamps \ {s} :
             g.sessionTimestamps[x] = f0.sessionTimestamps[x]
    BY <1>1, <1>4, <2>2, GetDatabaseCases
  <2>4. Serves(g, f, s)
    BY <1>1, GetDatabaseServes
  <2> HIDE DEF g, f0
  <2>5. DOMAIN g.databases = DOMAIN f.databases
    BY <2>1, <2>3
  <2>6. \A x \in DOMAIN f.databases \ {s} :
          g.databases[x] = f.databases[x] /\ g.sessionTimestamps[x] = f.sessionTimestamps[x]
    BY <2>1, <2>3, <2>4, <2>5 DEF WellFormed, KeepsStampsOf, Serves
  <2>. QED  BY <1>4, <2>5, <2>6 DEF g
<1>. QED  BY <1>3, <1>4

VisitsOnce(order, n) == \A i, j \in 1 .. n : order[i] = order[j] => i = j

EndsBy(time, n, end) == \A i \in 1 .. n : time[i] <= end

VisitsAll(order, n, f) == \A s \in DOMAIN f.databases : \E i \in 1 .. n : order[i] = s

\* f has the sessions of f0, with the databases that those had that are not expired.
Spares(f, f0, end) ==
  /\ DOMAIN f.databases = DOMAIN f0.databases
  /\ \A s \in DOMAIN f0.databases : Unexpired(f0, s, end) => f.databases[s] = f0.databases[s]

LEMMA RunSpares ==
  ASSUME NEW state, NEW start, NEW n \in Nat, NEW order, NEW time,
         Run(state, start, n, order, time), Size(start.factory) <= MaxSessions,
         VisitsOnce(order, n), NEW end \in Nat, EndsBy(time, n, end),
         VisitsAll(order, n, start.factory)
  PROVE  Spares(state[n].factory, start.factory, end)
<1> DEFINE f0 == start.factory
           good(f, i) ==
             /\ DOMAIN f.databases = DOMAIN f0.databases
             /\ \A j \in 1 .. n : j > i =>
                  /\ f.databases[order[j]] = f0.databases[order[j]]
                  /\ f.sessionTimestamps[order[j]] = f0.sessionTimestamps[order[j]]
             /\ \A j \in 1 .. n : Unexpired(f0, order[j], end) =>
                  f.databases[order[j]] = f0.databases[order[j]]
           S == {i \in 0 .. n : good(state[i].factory, i)}
<1>1. 0 \in S
  BY DEF Run, States
<1>2. ASSUME NEW i \in 1 .. n, i - 1 \in S PROVE i \in S
  <2> DEFINE f == state[i - 1].factory
             g == state[i].factory
             s == order[i]
             t == time[i]
  <2>1. /\ WellFormed(f) /\ t \in Nat
        /\ state[i] = CleanSession(state[i - 1], s, t)
    BY RunNext DEF RunState
  <2>2. g = GetDatabase(f, s, t)
    BY <2>1, CleanSessionFields
  <2>3. WellFormed(f0) /\ \A j \in 1 .. n : order[j] \in DOMAIN f0.databases
    BY DEF Run, RunState
  <2>4. good(f, i - 1)
    BY <1>2
  <2> HIDE DEF f, g, s, t, f0
  <2>5. Size(f) <= MaxSessions
    BY <2>4 DEF Size, ActiveSessions, f0
  <2>6. s \in DOMAIN f.databases
    BY <2>3, <2>4 DEF s
  <2>7. /\ DOMAIN g.databases = DOMAIN f.databases
        /\ \A x \in DOMAIN f.databases \ {s} :
             /\ g.databases[x] = f.databases[x]
             /\ g.sessionTimestamps[x] = f.sessionTimestamps[x]
        /\ Unexpired(f, s, t) => g.databases[s] = f.databases[s]
    BY <2>1, <2>2, <2>5, <2>6, GetDatabaseSpares
  <2>8. \A j \in 1 .. n : j # i => order[j] \in DOMAIN f.databases \ {s}
    BY <2>3, <2>4 DEF s, VisitsOnce
  <2>9. ASSUME Unexpired(f0, s, end) PROVE g.databases[s] = f0.databases[s]
    <3>1. /\ f.databases[s] = f0.databases[s]
          /\ f.sessionTimestamps[s] = f0.sessionTimestamps[s]
      BY <2>4 DEF s
    <3>2. f0.sessionTimestamps[s] \in Nat
      <4>1. s \in DOMAIN f0.sessionTimestamps
        BY <2>3 DEF s, WellFormed
      <4>. QED  BY <2>3, <4>1 DEF WellFormed, IsFactory, IsMap
    <3>3. end - f0.sessionTimestamps[s] < SessionTimeout /\ t <= end /\ SessionTimeout \in Nat
      <4>1. SessionTimeout \in Nat
        BY SessionsAssumption, Zenon
      <4>. QED  BY <2>9, <4>1 DEF Unexpired, t, EndsBy
    <3>4. t - f.sessionTimestamps[s] < SessionTimeout
      BY <2>1, <3>1, <3>2, <3>3
    <3>5. Unexpired(f, s, t)
      BY <2>6, <3>4 DEF Unexpired
    <3>. QED  BY <2>7, <3>1, <3>5
  <2>10. ASSUME NEW j \in 1 .. n, Unexpired(f0, order[j], end)
         PROVE  g.databases[order[j]] = f0.databases[order[j]]
    <3>1. CASE j = i
      BY <2>9, <2>10, <3>1 DEF s
    <3>2. CASE j # i
      BY <2>4, <2>7, <2>8, <2>10, <3>2
    <3>. QED  BY <3>1, <3>2
  <2>11. ASSUME NEW j \in 1 .. n, j > i
         PROVE  /\ g.databases[order[j]] = f0.databases[order[j]]
                /\ g.sessionTimestamps[order[j]] = f0.sessionTimestamps[order[j]]
    <3>1. j # i /\ j > i - 1
      BY <2>11
    <3>. QED  BY <2>4, <2>7, <2>8, <3>1
  <2>12. good(g, i)
    BY <2>4, <2>7, <2>10, <2>11
  <2>. QED  BY <2>12 DEF g
<1> HIDE DEF S
<1>3. \A i \in 0 .. n : i \in S
  BY <1>1, <1>2, UpTo
<1>4. good(state[n].factory, n)
  BY <1>3 DEF S
<1>. QED  BY <1>4 DEF Spares, VisitsAll

-----------------------------------------------------------------------------
(* The inductive invariant: the Maps are in step, a database serves one session, *)
(* no task is numbered, or stored in a database, past what was created, and the  *)
(* times of a task fit its history.                                              *)

Numbered ==
  /\ WellFormed(factory) /\ Distinct(factory)
  /\ factory.created <= MaxInstances
  /\ \A t \in tasks : t.db <= factory.created /\ t.id <= created

\* completedAt is no later than the last completion, and the same when it was the
\* only one.
Stamped(t, time) ==
  /\ t.completedAt <= t.lastCompleted /\ t.lastCompleted <= time
  /\ ~t.completedAgain => t.completedAt = t.lastCompleted

RetentionInv == TypeOK /\ Numbered /\ CleanupIsThorough /\ \A t \in tasks : Stamped(t, now)

LEMMA InvFacts ==
  ASSUME RetentionInv
  PROVE  /\ WellFormed(factory) /\ Distinct(factory) /\ factory.created \in Nat
         /\ now \in 1 .. MaxTime /\ now \in Nat
         /\ Table(tasks) /\ \A t \in tasks : t \in Task
         /\ created \in 0 .. MaxTasks /\ created \in Nat
         /\ \A t \in tasks : t.db <= factory.created /\ t.id <= created
         /\ \A t \in tasks : Stamped(t, now)
  BY Bounds DEF RetentionInv, TypeOK, Numbered, WellFormed, IsFactory, Table

LEMMA InvNext ==
  ASSUME WellFormed(factory'), Distinct(factory'), factory'.created <= MaxInstances,
         now' \in 1 .. MaxTime, created' \in 0 .. MaxTasks, cleaned' \in BOOLEAN,
         Table(tasks'), \A t \in tasks' : t.db <= factory'.created /\ t.id <= created',
         \A t \in tasks' : Stamped(t, now'),
         cleaned' => \A s \in DOMAIN factory'.databases : Trimmed(factory', tasks', s)
  PROVE  RetentionInv'
<1>1. TypeOK'
  BY DEF TypeOK, WellFormed, Table
<1>2. Numbered'
  BY DEF Numbered
<1>3. cleaned' => \A s \in DOMAIN factory'.databases :
                    /\ Trimmed(factory', tasks', s)
                    /\ Surplus(tasks', factory'.databases[s], s) = {}
  BY TrimmedHasNoSurplus
<1>4. CleanupIsThorough'
  BY <1>3 DEF CleanupIsThorough, ActiveSessions, Trimmed, PeersOf, Kept
<1>. QED  BY <1>1, <1>2, <1>4 DEF RetentionInv

\* No task is stamped later than now, and the clock does not run back.
LEMMA StaysStamped ==
  ASSUME RetentionInv, now' \in Nat, now' >= now, NEW t \in tasks
  PROVE  Stamped(t, now')
<1>1. /\ t.completedAt <= t.lastCompleted /\ t.lastCompleted <= now
      /\ ~t.completedAgain => t.completedAt = t.lastCompleted
      /\ t \in Task /\ now \in Nat
  BY InvFacts DEF Stamped
<1>2. t.lastCompleted \in Nat
  BY <1>1, TaskFields, Bounds
<1>3. t.lastCompleted <= now'
  BY <1>1, <1>2
<1>. QED  BY <1>1, <1>3 DEF Stamped

LEMMA RetentionInit ==
  Init => RetentionInv
<1> SUFFICES ASSUME Init PROVE RetentionInv
  OBVIOUS
<1>1. /\ factory.databases = <<>>
      /\ factory.sessionTimestamps = <<>>
      /\ factory.created = 0
      /\ now = 1 /\ tasks = {} /\ created = 0 /\ cleaned = FALSE
  BY DEF Init, NoSessions
<1>2. IsFactory(factory) /\ DOMAIN factory.databases = {}
  BY <1>1, EmptyMap DEF IsFactory
<1>3. WellFormed(factory) /\ Distinct(factory)
  BY <1>1, <1>2 DEF WellFormed, Distinct
<1>4. TypeOK
  <2>1. now \in 1 .. MaxTime /\ created \in 0 .. MaxTasks
    BY <1>1, Bounds
  <2>3. cleaned \in BOOLEAN
    BY <1>1
  <2>2. tasks \in SUBSET Task /\ \A t, u \in tasks : t.id = u.id => t = u
    BY <1>1
  <2>. QED  BY <1>2, <2>1, <2>2, <2>3 DEF TypeOK
<1>5. Numbered /\ CleanupIsThorough
  BY <1>1, <1>3, Bounds DEF Numbered, CleanupIsThorough
<1>6. \A t \in tasks : Stamped(t, now)
  BY <1>1
<1>. QED  BY <1>4, <1>5, <1>6 DEF RetentionInv

-----------------------------------------------------------------------------
(* The cleanup run. *)

LEMMA CleanupIsRun ==
  ASSUME RetentionInv, RunCleanup
  PROVE  LET n == Size(factory)
             start == [factory |-> factory, tasks |-> tasks]
         IN  /\ n \in Nat
             /\ now' \in 1 .. MaxTime /\ now' \in Nat
             /\ \E state, order, time :
                  /\ Run(state, start, n, order, time)
                  /\ VisitsOnce(order, n)
                  /\ VisitsAll(order, n, factory)
                  /\ EndsBy(time, n, now')
                  /\ factory' = state[n].factory
                  /\ tasks' = state[n].tasks
<1> DEFINE n == Size(factory)
           start == [factory |-> factory, tasks |-> tasks]
           order == SessionOrder(factory)
<1>1. /\ WellFormed(factory) /\ Distinct(factory) /\ factory.created \in Nat
      /\ now \in 1 .. MaxTime /\ now \in Nat /\ Table(tasks)
      /\ \A t \in tasks : t.db <= factory.created
  BY InvFacts
<1>2. n \in Nat
  BY <1>1, FiniteFactory
<1>3. /\ order \in [1 .. n -> DOMAIN factory.databases]
      /\ VisitsOnce(order, n)
      /\ VisitsAll(order, n, factory)
  BY <1>1, SessionOrderVisitsAll DEF VisitsOnce, VisitsAll
<1> DEFINE Times(i) == [j \in 1 .. n |-> IF j <= i THEN now ELSE now + 1]
<1>4. PICK i \in 0 .. n :
        LET last == CleanSessions(start, n, order, Times(i))
        IN  /\ now' = IF i = n THEN now ELSE now + 1
            /\ now' <= MaxTime
            /\ factory' = last.factory
            /\ tasks' = last.tasks
  BY DEF RunCleanup
<1> DEFINE time == Times(i)
<1>5. now' \in 1 .. MaxTime /\ now' \in Nat
  BY <1>1, <1>4, Bounds
<1>6. time \in [1 .. n -> Nat]
  BY <1>1
<1>7. EndsBy(time, n, now')
  BY <1>1, <1>2, <1>4 DEF EndsBy
<1>8. start.factory = factory /\ start.tasks = tasks
  OBVIOUS
<1>9. factory' = CleanSessions(start, n, order, time).factory
      /\ tasks' = CleanSessions(start, n, order, time).tasks
  BY <1>4
<1> HIDE DEF start, order, time, n, Times
<1>10. PICK state : /\ States(state, start, n, order, time)
                    /\ CleanSessions(start, n, order, time) = state[n]
  BY <1>2, RunStates
<1>11. Run(state, start, n, order, time)
  BY <1>1, <1>3, <1>6, <1>8, <1>10 DEF Run, RunState
<1>12. factory' = state[n].factory /\ tasks' = state[n].tasks
  BY <1>9, <1>10
<1>13. \E st, o, tm : /\ Run(st, start, n, o, tm)
                      /\ VisitsOnce(o, n)
                      /\ VisitsAll(o, n, factory)
                      /\ EndsBy(tm, n, now')
                      /\ factory' = st[n].factory
                      /\ tasks' = st[n].tasks
  BY <1>3, <1>7, <1>11, <1>12
<1>. QED  BY <1>2, <1>5, <1>13 DEF start, n

LEMMA CleanupStep ==
  ASSUME RetentionInv, RunCleanup
  PROVE  /\ RetentionInv'
         /\ \A t \in tasks \ tasks' : Served(factory', t) => Replaced(tasks', t)
         /\ tasks' \subseteq tasks
<1> DEFINE n == Size(factory)
           start == [factory |-> factory, tasks |-> tasks]
<1>1. PICK state, order, time :
        /\ Run(state, start, n, order, time)
        /\ VisitsAll(order, n, factory)
        /\ factory' = state[n].factory
        /\ tasks' = state[n].tasks
  BY CleanupIsRun
<1>2. n \in Nat /\ now' \in 1 .. MaxTime
  BY CleanupIsRun
<1>3. start.factory = factory /\ start.tasks = tasks
  OBVIOUS
<1> HIDE DEF start, n
<1>4. n \in 0 .. n
  BY <1>2
<1>5. /\ RunState(state[n]) /\ Follows(state[n], start)
      /\ DOMAIN state[n].factory.databases \subseteq DOMAIN start.factory.databases
  BY <1>1, <1>2, <1>4, RunFollows
<1>6. \A j \in 1 .. n : order[j] \in DOMAIN state[n].factory.databases =>
                          Trimmed(state[n].factory, state[n].tasks, order[j])
  BY <1>1, <1>2, <1>4, RunTrims
<1>7. \A t \in start.tasks \ state[n].tasks :
        Served(state[n].factory, t) => Replaced(state[n].tasks, t)
  BY <1>1, <1>2, <1>4, RunReplaces
<1>8. \A s \in DOMAIN factory'.databases : Trimmed(factory', tasks', s)
  BY <1>1, <1>3, <1>5, <1>6 DEF VisitsAll
<1>9. WellFormed(factory') /\ Distinct(factory') /\ Table(tasks') /\ tasks' \subseteq tasks
      /\ factory'.created >= factory.created
  BY <1>1, <1>3, <1>5 DEF RunState, Follows
<1>10. /\ factory.created \in Nat /\ created \in 0 .. MaxTasks
       /\ \A t \in tasks : t.db <= factory.created /\ t.id <= created /\ t \in Task
  BY InvFacts
<1>11. factory'.created \in Nat
  BY <1>9 DEF WellFormed, IsFactory
<1>12. \A t \in tasks' : t.db <= factory'.created /\ t.id <= created
  <2>1. \A t \in tasks' : t.db \in 1 .. MaxInstances
    BY <1>9, <1>10, TaskFields
  <2>. QED  BY <1>9, <1>10, <1>11, <2>1, Bounds
<1>13. factory'.created <= MaxInstances /\ cleaned' = TRUE /\ created' = created
  BY DEF RunCleanup
<1>14. now' >= now /\ now \in Nat /\ now' \in Nat
  <2>1. now' = now \/ now' = now + 1
    BY DEF RunCleanup
  <2>. QED  BY <2>1, InvFacts
<1>15. \A t \in tasks' : Stamped(t, now')
  BY <1>9, <1>14, StaysStamped
<1>16. RetentionInv'
  BY <1>2, <1>8, <1>9, <1>10, <1>12, <1>13, <1>15, InvNext
<1>. QED  BY <1>1, <1>3, <1>7, <1>9, <1>16

LEMMA CleanupSpares ==
  ASSUME RetentionInv, RunCleanup, Size(factory) <= MaxSessions
  PROVE  /\ ActiveSessions(factory') = ActiveSessions(factory)
         /\ \A s \in ActiveSessions(factory) :
              Unexpired(factory, s, now') => factory'.databases[s] = factory.databases[s]
<1> DEFINE n == Size(factory)
           start == [factory |-> factory, tasks |-> tasks]
<1>1. PICK state, order, time :
        /\ Run(state, start, n, order, time)
        /\ VisitsOnce(order, n)
        /\ VisitsAll(order, n, factory)
        /\ EndsBy(time, n, now')
        /\ factory' = state[n].factory
  BY CleanupIsRun
<1>2. n \in Nat /\ now' \in Nat
  BY CleanupIsRun
<1>3. start.factory = factory
  OBVIOUS
<1> HIDE DEF start, n
<1>4. PICK end \in Nat : end = now'
  BY <1>2
<1>5. Size(start.factory) <= MaxSessions /\ VisitsAll(order, n, start.factory)
  BY <1>1, <1>3
<1>6. EndsBy(time, n, end)
  BY <1>1, <1>4
<1>7. Spares(state[n].factory, start.factory, end)
  BY <1>1, <1>2, <1>5, <1>6, RunSpares
<1>. QED  BY <1>1, <1>3, <1>4, <1>7 DEF Spares, ActiveSessions
-----------------------------------------------------------------------------
(* The requests and executions. *)

\* The tasks that getDatabase or a removal leaves are in databases of the factory.
LEMMA ReachableTasks ==
  ASSUME NEW f, NEW ts, Table(ts)
  PROVE  Table(Reachable(f, ts)) /\ Reachable(f, ts) \subseteq ts
  BY DEF Reachable, Table

LEMMA UseStep ==
  ASSUME RetentionInv, NEW key \in Keys, Use(key)
  PROVE  /\ WellFormed(factory') /\ Distinct(factory')
         /\ factory'.created \in Nat /\ factory'.created <= MaxInstances
         /\ factory'.created >= factory.created
         /\ DatabaseOf(factory', key) \in 1 .. factory'.created
         /\ now' = now /\ now' \in 1 .. MaxTime /\ cleaned' = FALSE
<1> DEFINE f == GetDatabase(factory, key, now)
<1>1. WellFormed(factory) /\ Distinct(factory) /\ now \in 1 .. MaxTime /\ now \in Nat
  BY InvFacts
<1>2. WellFormed(f) /\ Serves(f, factory, Normalize[key])
  BY <1>1, GetDatabaseServes
<1>3. Distinct(f) /\ f.created >= factory.created
  BY <1>1, GetDatabaseDistinct
<1>4. factory' = f /\ f.created <= MaxInstances /\ now' = now /\ cleaned' = FALSE
  BY DEF Use
<1> HIDE DEF f
<1>5. f.created \in Nat /\ DatabaseOf(f, key) \in 1 .. f.created
  BY <1>2 DEF WellFormed, IsFactory, Serves, DatabaseOf
<1>. QED  BY <1>1, <1>2, <1>3, <1>4, <1>5

LEMMA UsedTasks ==
  ASSUME RetentionInv, NEW key \in Keys, Use(key), NEW t \in tasks
  PROVE  t.db <= factory'.created
<1>1. t \in Task /\ t.db <= factory.created /\ factory.created \in Nat
  BY InvFacts
<1>2. t.db \in Nat
  BY <1>1, TaskFields, Bounds
<1>3. factory'.created \in Nat /\ factory'.created >= factory.created
  BY UseStep
<1>. QED  BY <1>1, <1>2, <1>3

LEMMA StillStamped ==
  ASSUME RetentionInv, NEW key \in Keys, Use(key), NEW t \in tasks
  PROVE  Stamped(t, now')
<1>1. now' = now /\ now \in Nat
  BY InvFacts DEF Use
<1>. QED  BY <1>1, StaysStamped

LEMMA UseOnlyStep ==
  ASSUME RetentionInv, NEW key \in Keys, UseOnly(key)
  PROVE  RetentionInv' /\ cleaned' = FALSE
<1>1. Use(key) /\ tasks' = Reachable(factory', tasks) /\ created' = created
  BY DEF UseOnly
<1>2. Table(tasks) /\ created \in 0 .. MaxTasks /\ \A t \in tasks : t.id <= created
  BY InvFacts
<1>3. Table(tasks') /\ tasks' \subseteq tasks
  BY <1>1, <1>2, ReachableTasks
<1>4. \A t \in tasks' : t.db <= factory'.created /\ t.id <= created'
  BY <1>1, <1>2, <1>3, UsedTasks
<1>5. \A t \in tasks' : Stamped(t, now')
  BY <1>1, <1>3, StillStamped
<1>6. RetentionInv'
  BY <1>1, <1>2, <1>3, <1>4, <1>5, UseStep, InvNext
<1>. QED  BY <1>1, <1>6, UseStep

LEMMA NewTask ==
  ASSUME NEW id \in 1 .. MaxTasks, NEW db \in 1 .. MaxInstances, NEW key \in Keys
  PROVE  [id |-> id, db |-> db, sessionKey |-> key, status |-> "unfinished",
          completedAt |-> Unset, failedAt |-> Unset,
          lastCompleted |-> Unset, completedAgain |-> FALSE] \in Task
<1>1. FALSE \in BOOLEAN /\ Unset \in Unset .. MaxTime
  BY Bounds DEF Unset
<1>. QED  BY <1>1 DEF Task

LEMMA CreateTaskStep ==
  ASSUME RetentionInv, NEW key \in Keys, CreateTask(key)
  PROVE  RetentionInv' /\ cleaned' = FALSE
<1> DEFINE ts == Reachable(factory', tasks)
           db == DatabaseOf(factory', key)
           new == [id |-> created', db |-> db, sessionKey |-> key, status |-> "unfinished",
                   completedAt |-> Unset, failedAt |-> Unset,
                   lastCompleted |-> Unset, completedAgain |-> FALSE]
<1>1. Use(key) /\ created < MaxTasks /\ created' = created + 1 /\ tasks' = ts \cup {new}
  BY DEF CreateTask
<1>2. /\ Table(tasks) /\ created \in 0 .. MaxTasks /\ created \in Nat
      /\ \A t \in tasks : t.id <= created /\ t \in Task
  BY InvFacts
<1>3. /\ db \in 1 .. factory'.created /\ factory'.created \in Nat
      /\ factory'.created <= MaxInstances
  BY <1>1, UseStep
<1>4. created' \in 1 .. MaxTasks /\ db \in 1 .. MaxInstances /\ created' \in 0 .. MaxTasks
  BY <1>1, <1>2, <1>3, Bounds
<1>5. /\ new \in Task /\ new.id = created' /\ new.db = db
      /\ new.completedAt = Unset /\ new.lastCompleted = Unset
  BY <1>4, NewTask
<1> HIDE DEF ts, new, db
<1>6. Table(ts) /\ ts \subseteq tasks
  BY <1>2, ReachableTasks DEF ts
<1>7. \A t \in ts : t.id # new.id
  <2>1. \A t \in ts : t.id \in Nat /\ t.id <= created
    BY <1>2, <1>6, TaskFields, Bounds
  <2>. QED  BY <1>1, <1>2, <1>5, <2>1
<1>8. Table(tasks')
  BY <1>1, <1>5, <1>6, <1>7 DEF Table
<1>9. \A t \in tasks' : t.db <= factory'.created /\ t.id <= created'
  <2>1. \A t \in ts : t.db <= factory'.created
    BY <1>1, <1>6, UsedTasks
  <2>2. \A t \in ts : t.id \in Nat /\ t.id <= created
    BY <1>2, <1>6, TaskFields, Bounds
  <2>3. \A t \in ts : t.id <= created'
    BY <1>1, <1>2, <2>2
  <2>4. new.db <= factory'.created /\ new.id <= created'
    BY <1>3, <1>4, <1>5
  <2>. QED  BY <1>1, <2>1, <2>3, <2>4
<1>10. \A t \in tasks' : Stamped(t, now')
  <2>1. Stamped(new, now')
    <3>1. now' \in Nat
      BY <1>1, UseStep, InvFacts
    <3>. QED  BY <1>5, <3>1 DEF Stamped, Unset
  <2>. QED  BY <1>1, <1>6, <2>1, StillStamped
<1>11. RetentionInv'
  BY <1>1, <1>4, <1>8, <1>9, <1>10, UseStep, InvNext
<1>. QED  BY <1>1, <1>11, UseStep

LEMMA FinishedTask ==
  ASSUME now \in 1 .. MaxTime, NEW t \in Task, Stamped(t, now),
         NEW status \in {"unfinished", "completed", "failed"}
  PROVE  /\ Finished(t, status) \in Task /\ Finished(t, status).id = t.id
         /\ Finished(t, status).db = t.db /\ Stamped(Finished(t, status), now)
<1>1. now \in Unset .. MaxTime /\ Unset \in Unset .. MaxTime /\ now \in Nat
  BY Bounds DEF Unset
<1> DEFINE end == IF status = "completed" /\ t.completedAt = Unset THEN now ELSE t.completedAt
           fail == IF status = "failed" THEN now ELSE Unset
           last == IF status = "completed" THEN now ELSE t.lastCompleted
           again == t.completedAgain \/ (status = "completed" /\ t.lastCompleted # Unset)
           u == Finished(t, status)
<1>2. /\ t.completedAt \in Unset .. MaxTime /\ t.lastCompleted \in Unset .. MaxTime
      /\ t.completedAgain \in BOOLEAN
  BY DEF Task
<1>3. end \in Unset .. MaxTime /\ fail \in Unset .. MaxTime /\ last \in Unset .. MaxTime
  BY <1>1, <1>2
<1>4. again \in BOOLEAN
  OBVIOUS
<1>5. u = [t EXCEPT !.status = status, !.completedAt = end, !.failedAt = fail,
                    !.lastCompleted = last, !.completedAgain = again]
  BY DEF Finished
<1>6. end <= last /\ last <= now
  BY <1>1, <1>2, Bounds DEF Stamped, Unset
<1>7. ASSUME t.completedAgain = FALSE, ~(status = "completed" /\ t.lastCompleted # Unset)
      PROVE  end = last
  BY <1>1, <1>2, <1>7, Bounds DEF Stamped, Unset
<1>8. again = FALSE => end = last
  BY <1>2, <1>7, Zenon
<1> HIDE DEF end, fail, last, again, u
<1>9. u \in Task /\ u.id = t.id /\ u.db = t.db
  BY <1>3, <1>4, <1>5 DEF Task
<1>10. u.completedAt = end /\ u.lastCompleted = last /\ u.completedAgain = again
  BY <1>5 DEF Task
<1>11. Stamped(u, now)
  BY <1>4, <1>6, <1>8, <1>10 DEF Stamped
<1>. QED  BY <1>9, <1>11 DEF u

LEMMA StoreStep ==
  ASSUME RetentionInv, NEW t \in tasks, NEW u \in Task, u.id = t.id, u.db = t.db,
         Stamped(u, now), Store(t, u)
  PROVE  RetentionInv' /\ cleaned' = FALSE
<1> DEFINE ts == Reachable(factory', tasks)
<1>1. /\ Use(t.sessionKey) /\ created' = created
      /\ tasks' = IF t \in ts THEN (ts \ {t}) \cup {u} ELSE ts
  BY DEF Store
<1>2. /\ Table(tasks) /\ created \in 0 .. MaxTasks
      /\ \A v \in tasks : v.id <= created /\ v \in Task
  BY InvFacts
<1>3. t.sessionKey \in Keys
  BY <1>2, TaskFields
<1> HIDE DEF ts
<1>4. Table(ts) /\ ts \subseteq tasks
  BY <1>2, ReachableTasks DEF ts
<1>5. Table(tasks')
  BY <1>1, <1>4 DEF Table
<1>6. \A v \in tasks : v.db <= factory'.created /\ v.id <= created'
  BY <1>1, <1>2, <1>3, UsedTasks
<1>7. \A v \in tasks' : v.db <= factory'.created /\ v.id <= created'
  BY <1>1, <1>4, <1>6
<1>8. Stamped(u, now')
  BY <1>1, <1>3, UseStep DEF Stamped
<1>9. \A v \in tasks' : Stamped(v, now')
  BY <1>1, <1>3, <1>4, <1>8, StillStamped
<1>10. RetentionInv'
  BY <1>1, <1>2, <1>3, <1>5, <1>7, <1>9, UseStep, InvNext
<1>. QED  BY <1>1, <1>3, <1>10, UseStep

LEMMA UpdateTaskStep ==
  ASSUME RetentionInv, NEW t \in tasks,
         NEW status \in {"unfinished", "completed", "failed"}, UpdateTask(t, status)
  PROVE  RetentionInv' /\ cleaned' = FALSE
<1>1. now \in 1 .. MaxTime /\ t \in Task /\ Stamped(t, now)
  BY InvFacts
<1>2. Store(t, Finished(t, status))
  BY DEF UpdateTask
<1>. QED  BY <1>1, <1>2, FinishedTask, StoreStep

LEMMA RetryTaskStep ==
  ASSUME RetentionInv, NEW t \in tasks, RetryTask(t)
  PROVE  RetentionInv' /\ cleaned' = FALSE
<1> DEFINE u == [t EXCEPT !.status = "unfinished", !.completedAt = Unset, !.failedAt = Unset,
                          !.lastCompleted = Unset, !.completedAgain = FALSE]
<1>1. t \in Task /\ now \in Nat
  BY InvFacts
<1>2. Unset \in Unset .. MaxTime /\ FALSE \in BOOLEAN
  BY Bounds DEF Unset
<1>3. u \in Task /\ u.id = t.id /\ u.db = t.db
  BY <1>1, <1>2 DEF Task
<1>4. u.completedAt = Unset /\ u.lastCompleted = Unset
  BY <1>1 DEF Task
<1>5. Store(t, u)
  BY DEF RetryTask
<1> HIDE DEF u
<1>6. Stamped(u, now)
  BY <1>1, <1>4 DEF Stamped, Unset
<1>. QED  BY <1>3, <1>5, <1>6, StoreStep

LEMMA DeleteTaskStep ==
  ASSUME RetentionInv, NEW t \in tasks, DeleteTask(t)
  PROVE  RetentionInv' /\ cleaned' = FALSE
<1>1. /\ Use(t.sessionKey) /\ created' = created
      /\ tasks' = Reachable(factory', tasks) \ {t}
  BY DEF DeleteTask
<1>2. /\ Table(tasks) /\ created \in 0 .. MaxTasks
      /\ \A v \in tasks : v.id <= created /\ v \in Task
  BY InvFacts
<1>3. t.sessionKey \in Keys
  BY <1>2, TaskFields
<1>4. Table(Reachable(factory', tasks)) /\ Reachable(factory', tasks) \subseteq tasks
  BY <1>2, ReachableTasks
<1>5. Table(tasks') /\ tasks' \subseteq tasks
  BY <1>1, <1>4, PartOfTable
<1>6. \A v \in tasks' : v.db <= factory'.created /\ v.id <= created'
  BY <1>1, <1>2, <1>3, <1>5, UsedTasks
<1>7. \A v \in tasks' : Stamped(v, now')
  BY <1>1, <1>3, <1>5, StillStamped
<1>8. RetentionInv'
  BY <1>1, <1>2, <1>3, <1>5, <1>6, <1>7, UseStep, InvNext
<1>. QED  BY <1>1, <1>3, <1>8, UseStep

LEMMA DeleteSessionStep ==
  ASSUME RetentionInv, NEW key \in Keys, DeleteSession(key)
  PROVE  RetentionInv' /\ cleaned' = FALSE
<1>1. /\ factory' = RemoveSessions(factory, {Normalize[key]})
      /\ tasks' = Reachable(factory', tasks) /\ cleaned' = FALSE
      /\ now' = now /\ created' = created
  BY DEF DeleteSession, RemoveSession
<1>2. /\ WellFormed(factory) /\ Distinct(factory) /\ Table(tasks)
      /\ now \in 1 .. MaxTime /\ created \in 0 .. MaxTasks
      /\ \A t \in tasks : t.db <= factory.created /\ t.id <= created
  BY InvFacts
<1>3. WellFormed(factory') /\ KeepsPartOf(factory', factory) /\ Distinct(factory')
  BY <1>1, <1>2, RemovalKeepsPart, RemovalDistinct
<1>4. factory'.created = factory.created /\ factory.created <= MaxInstances
  BY <1>3 DEF KeepsPartOf, RetentionInv, Numbered
<1>5. Table(tasks') /\ tasks' \subseteq tasks
  BY <1>1, <1>2, ReachableTasks
<1>6. \A t \in tasks' : t.db <= factory'.created /\ t.id <= created'
  BY <1>1, <1>2, <1>4, <1>5
<1>7. \A t \in tasks' : Stamped(t, now')
  BY <1>1, <1>2, <1>5, StaysStamped
<1>8. RetentionInv'
  BY <1>1, <1>2, <1>3, <1>4, <1>5, <1>6, <1>7, InvNext
<1>. QED  BY <1>1, <1>8

LEMMA TickStep ==
  ASSUME RetentionInv, Tick
  PROVE  RetentionInv' /\ cleaned' = FALSE
<1>1. /\ now' = now + 1 /\ now < MaxTime /\ cleaned' = FALSE
      /\ factory' = factory /\ tasks' = tasks /\ created' = created
  BY DEF Tick
<1>2. /\ WellFormed(factory) /\ Distinct(factory) /\ Table(tasks)
      /\ now \in 1 .. MaxTime /\ created \in 0 .. MaxTasks
      /\ \A t \in tasks : t.db <= factory.created /\ t.id <= created
  BY InvFacts
<1>3. now' \in 1 .. MaxTime /\ factory.created <= MaxInstances
  BY <1>1, <1>2, Bounds DEF RetentionInv, Numbered
<1>4. \A t \in tasks' : Stamped(t, now')
  BY <1>1, <1>2, StaysStamped
<1>5. RetentionInv'
  BY <1>1, <1>2, <1>3, <1>4, InvNext
<1>. QED  BY <1>1, <1>5

\* Every step keeps the invariant, and only a cleanup run says that it cleaned.
LEMMA RetentionStep ==
  ASSUME RetentionInv, [Next]_vars
  PROVE  /\ RetentionInv'
         /\ \/ RunCleanup
            \/ cleaned' = FALSE
            \/ UNCHANGED vars
<1>1. CASE RunCleanup
  BY <1>1, CleanupStep
<1>2. CASE Tick
  BY <1>2, TickStep
<1>3. ASSUME NEW key \in Keys, UseOnly(key) \/ CreateTask(key) \/ DeleteSession(key)
      PROVE  RetentionInv' /\ cleaned' = FALSE
  BY <1>3, UseOnlyStep, CreateTaskStep, DeleteSessionStep
<1>4. ASSUME NEW t \in tasks, NEW status \in {"unfinished", "completed", "failed"},
             UpdateTask(t, status)
      PROVE  RetentionInv' /\ cleaned' = FALSE
  BY <1>4, UpdateTaskStep
<1>6. ASSUME NEW t \in tasks, RetryTask(t) \/ DeleteTask(t)
      PROVE  RetentionInv' /\ cleaned' = FALSE
  BY <1>6, RetryTaskStep, DeleteTaskStep
<1>5. CASE UNCHANGED vars
  <2>1. /\ now' = now /\ factory' = factory /\ tasks' = tasks
        /\ created' = created /\ cleaned' = cleaned
    BY <1>5 DEF vars
  <2>2. RetentionInv'
    BY <2>1 DEF RetentionInv, TypeOK, Numbered, CleanupIsThorough, Stamped
  <2>. QED  BY <1>5, <2>2
<1>. QED  BY <1>1, <1>2, <1>3, <1>4, <1>5, <1>6 DEF Next

-----------------------------------------------------------------------------
(* The theorems. *)

THEOREM RetentionInvariant == Spec => []RetentionInv
<1>1. RetentionInv /\ [Next]_vars => RetentionInv'
  BY RetentionStep
<1>. QED  BY RetentionInit, <1>1, PTL DEF Spec

\* The clock, the factory's two Maps and the tasks stay what they should be; no two
\* tasks get the same id, though an execution that was overtaken may still write.
THEOREM RetentionTypes == Spec => []TypeOK
<1>1. RetentionInv => TypeOK
  BY DEF RetentionInv
<1>. QED  BY <1>1, RetentionInvariant, PTL

\* A run (src/src/task/task-cleanup-service.ts:51) leaves no session it ends with more
\* finished tasks than the limits allow, whatever sessions its own calls of getDatabase
\* dropped and created again on the way.
THEOREM RunsAreThorough == Spec => []CleanupIsThorough
<1>1. RetentionInv => CleanupIsThorough
  BY DEF RetentionInv
<1>. QED  BY <1>1, RetentionInvariant, PTL

\* What the sort keeps before t finished no earlier, unless t completed more than once.
LEMMA ReplacedByNewer ==
  ASSUME RetentionInv, NEW ts \in SUBSET tasks, NEW t \in tasks, Replaced(ts, t)
  PROVE  Cardinality({u \in ts : /\ u.db = t.db /\ u.sessionKey = t.sessionKey
                                 /\ u.status = t.status
                                 /\ Misdated(t) \/ FinishedAt(u) >= FinishedAt(t)})
           >= Kept(t.status)
<1> DEFINE stamped == {u \in ts : /\ u.db = t.db /\ u.sessionKey = t.sessionKey
                                  /\ u.status = t.status /\ SortTime(u) >= SortTime(t)}
           newer == {u \in ts : /\ u.db = t.db /\ u.sessionKey = t.sessionKey
                                /\ u.status = t.status
                                /\ Misdated(t) \/ FinishedAt(u) >= FinishedAt(t)}
<1>1. Table(tasks) /\ Sortable(tasks) /\ \A u \in tasks : u \in Task /\ Stamped(u, now)
  BY InvFacts, TableSortable
<1>2. ASSUME NEW u \in stamped, ~Misdated(t) PROVE FinishedAt(u) >= FinishedAt(t)
  <2>1. u \in tasks /\ u.status = t.status /\ SortTime(u) >= SortTime(t)
    OBVIOUS
  <2>2. /\ Stamped(u, now) /\ Stamped(t, now)
        /\ u.completedAt \in 0 .. MaxTime /\ u.lastCompleted \in 0 .. MaxTime
        /\ t.completedAt \in 0 .. MaxTime
    BY <1>1, <2>1, TaskFields
  <2> HIDE DEF stamped
  <2>3. CASE t.status = "completed"
    <3>1. t.completedAt = t.lastCompleted
      BY <1>2, <2>2, <2>3 DEF Misdated, Stamped
    <3>2. u.completedAt >= t.completedAt /\ u.completedAt <= u.lastCompleted
      BY <2>1, <2>2, <2>3 DEF SortTime, Stamped
    <3>3. u.lastCompleted >= t.lastCompleted
      BY <2>2, <3>1, <3>2, Bounds
    <3>. QED  BY <2>1, <2>3, <3>3 DEF FinishedAt
  <2>4. CASE t.status # "completed"
    BY <2>1, <2>4 DEF FinishedAt, SortTime
  <2>. QED  BY <2>3, <2>4
<1>3. stamped \in SUBSET newer /\ newer \in SUBSET tasks
  BY <1>2
<1> HIDE DEF stamped, newer
<1>4. Sortable(newer)
  BY <1>1, <1>3, SubsetSortable
<1>5. /\ Cardinality(stamped) <= Cardinality(newer)
      /\ Cardinality(stamped) \in Nat /\ Cardinality(newer) \in Nat
  BY <1>3, <1>4, SubsetSortable
<1>6. Cardinality(stamped) >= Kept(t.status) /\ Kept(t.status) \in Nat
  BY Limits DEF Replaced, stamped
<1>7. Cardinality(newer) >= Kept(t.status)
  BY <1>5, <1>6
<1>. QED  BY <1>7 DEF newer

\* cleanupSessionTasks (src/src/task/task-manager.ts:225) deletes only finished tasks,
\* and for each of them as many as may be kept outlast the run; they finished no earlier,
\* unless the deleted task completed more than once since it was created or retried.
THEOREM TheNewestAreKept == Spec => NewestAreKept
<1>1. ASSUME RetentionInv, [Next]_vars, NEW t \in tasks, cleaned',
             \A u \in tasks' : u.id # t.id,
             \E s \in ActiveSessions(factory') : factory'.databases[s] = t.db
      PROVE  \/ UNCHANGED vars
             \/ /\ t.status # "unfinished"
                /\ Cardinality({u \in tasks' :
                                  /\ u.db = t.db /\ u.sessionKey = t.sessionKey
                                  /\ u.status = t.status
                                  /\ Misdated(t) \/ FinishedAt(u) >= FinishedAt(t)})
                     >= Kept(t.status)
  <2>1. Served(factory', t)
    BY <1>1 DEF Served, ActiveSessions
  <2>2. t \notin tasks'
    BY <1>1
  <2>3. CASE RunCleanup
    <3>1. Replaced(tasks', t) /\ tasks' \subseteq tasks
      BY <1>1, <2>1, <2>2, <2>3, CleanupStep
    <3>2. tasks' \in SUBSET tasks
      BY <3>1
    <3>. QED  BY <1>1, <3>1, <3>2, ReplacedByNewer DEF Replaced
  <2>. QED  BY <1>1, <2>3, RetentionStep
<1>2. RetentionInv /\ [Next]_vars
        => [\A t \in tasks :
              /\ cleaned' /\ \A u \in tasks' : u.id # t.id
              /\ \E s \in ActiveSessions(factory') : factory'.databases[s] = t.db
              => /\ t.status # "unfinished"
                 /\ Cardinality({u \in tasks' :
                                   /\ u.db = t.db /\ u.sessionKey = t.sessionKey
                                   /\ u.status = t.status
                                   /\ Misdated(t) \/ FinishedAt(u) >= FinishedAt(t)})
                      >= Kept(t.status)]_vars
  BY <1>1
<1>. QED  BY <1>2, RetentionInvariant, PTL DEF Spec, NewestAreKept

\* A run over no more sessions than config.maxSessions ends with the same sessions, and
\* takes the database of none that has not expired by its end: getDatabase evicts only
\* when there is no room (src/src/db-factory.ts:42).
THEOREM RunsSpareSessions == Spec => CleanupSparesSessions
<1>1. RetentionInv /\ [Next]_vars
        => [cleaned' /\ Size(factory) <= MaxSessions =>
              /\ ActiveSessions(factory') = ActiveSessions(factory)
              /\ \A s \in ActiveSessions(factory) :
                   Unexpired(factory, s, now') =>
                     factory'.databases[s] = factory.databases[s]]_vars
  BY RetentionStep, CleanupSpares
<1>. QED  BY <1>1, RetentionInvariant, PTL DEF Spec, CleanupSparesSessions

=============================================================================
