--------------------------- MODULE SessionsProofs ---------------------------
(***************************************************************************)
(* What the methods of DatabaseFactory do to its two Maps, for every set of *)
(* keys, every limit and every timeout.  The lemmas are shared by the       *)
(* proofs about SessionIsolation and TaskRetention.                         *)
(***************************************************************************)
EXTENDS Sessions, FiniteSetTheorems, WellFoundedInduction, TLAPS

(* What the Maps of a factory keep. *)

LEMMA NormalForms ==
  \A k \in Keys : Normalize[k] \in SessionIds
  BY DEF SessionIds

LEMMA PutIsMap ==
  \A m, id, v : IsMap(m) /\ id \in SessionIds /\ v \in Nat => IsMap(Put(m, id, v))
  BY DEF IsMap, Put

LEMMA WithoutIsMap ==
  \A m, ids : IsMap(m) => IsMap(Without(m, ids))
  BY DEF IsMap, Without

WellFormed(f) ==
  /\ IsFactory(f)
  /\ DOMAIN f.databases = DOMAIN f.sessionTimestamps
  /\ \A s \in DOMAIN f.databases : f.databases[s] \in 1 .. f.created

\* g holds no session that f does not hold with the same database.
KeepsPartOf(g, f) ==
  /\ g.created = f.created
  /\ DOMAIN g.databases \subseteq DOMAIN f.databases
  /\ \A s \in DOMAIN g.databases : g.databases[s] = f.databases[s]

LEMMA RemovalKeepsPart ==
  ASSUME NEW f, WellFormed(f), NEW ids
  PROVE  LET g == RemoveSessions(f, ids)
         IN  WellFormed(g) /\ KeepsPartOf(g, f) /\ DOMAIN g.databases = DOMAIN f.databases \ ids
<1> DEFINE g == RemoveSessions(f, ids)
<1>1. /\ g.databases = Without(f.databases, ids)
      /\ g.sessionTimestamps = Without(f.sessionTimestamps, ids)
      /\ g.created = f.created
  BY DEF RemoveSessions
<1>2. IsMap(f.databases) /\ IsMap(f.sessionTimestamps) /\ f.created \in Nat
  BY DEF WellFormed, IsFactory
<1> HIDE DEF g
<1>3. IsMap(g.databases) /\ IsMap(g.sessionTimestamps)
  BY <1>1, <1>2, WithoutIsMap
<1>4. /\ DOMAIN g.databases = DOMAIN f.databases \ ids
      /\ DOMAIN g.sessionTimestamps = DOMAIN f.sessionTimestamps \ ids
      /\ \A s \in DOMAIN f.databases \ ids : g.databases[s] = f.databases[s]
  BY <1>1 DEF Without
<1>5. WellFormed(g) /\ KeepsPartOf(g, f)
  BY <1>1, <1>2, <1>3, <1>4 DEF WellFormed, IsFactory, KeepsPartOf
<1>. QED  BY <1>4, <1>5 DEF g

LEMMA MakeRoomKeepsPart ==
  ASSUME NEW f, WellFormed(f), NEW t
  PROVE  WellFormed(MakeRoom(f, t)) /\ KeepsPartOf(MakeRoom(f, t), f)
<1> DEFINE g == CleanupExpiredSessions(f, t)
           h == RemoveSessions(g, OldestSession(g, t))
<1>1. WellFormed(g) /\ KeepsPartOf(g, f)
  BY RemovalKeepsPart DEF CleanupExpiredSessions
<1>2. WellFormed(h) /\ KeepsPartOf(h, g)
  BY <1>1, RemovalKeepsPart
<1>3. KeepsPartOf(h, f)
  BY <1>1, <1>2 DEF KeepsPartOf
<1>4. MakeRoom(f, t) \in {f, g, h}
  BY DEF MakeRoom, EvictOldest
<1>5. KeepsPartOf(f, f)
  BY DEF KeepsPartOf
<1>. QED  BY <1>1, <1>2, <1>3, <1>4, <1>5

\* getDatabase(key) changes no other session except by dropping it, and serves
\* either the database its session had or a new one.
Serves(g, f, id) ==
  /\ id \in DOMAIN g.databases
  /\ \A s \in DOMAIN g.databases \ {id} :
       s \in DOMAIN f.databases /\ g.databases[s] = f.databases[s]
  /\ \/ /\ g.created = f.created
        /\ id \in DOMAIN f.databases
        /\ g.databases[id] = f.databases[id]
     \/ /\ g.created = f.created + 1
        /\ g.databases[id] = f.created + 1

LEMMA GetDatabaseServes ==
  ASSUME NEW f, WellFormed(f), NEW key \in Keys, NEW t \in Nat
  PROVE  /\ WellFormed(GetDatabase(f, key, t))
         /\ Serves(GetDatabase(f, key, t), f, Normalize[key])
<1> DEFINE id == Normalize[key]
           p == MakeRoom(RemoveSession(f, key), t)
           g == GetDatabase(f, key, t)
<1>1. id \in SessionIds
  BY NormalForms
<1>2. CASE Unexpired(f, id, t)
  <2>1. /\ g.databases = f.databases
        /\ g.sessionTimestamps = Put(f.sessionTimestamps, id, t)
        /\ g.created = f.created
    BY <1>2 DEF GetDatabase, TouchSession
  <2>2. id \in DOMAIN f.databases
    BY <1>2 DEF Unexpired
  <2> HIDE DEF g, id
  <2>3. IsMap(f.databases) /\ IsMap(f.sessionTimestamps) /\ f.created \in Nat
    BY DEF WellFormed, IsFactory
  <2>4. IsMap(g.sessionTimestamps)
    BY <1>1, <2>1, <2>3, PutIsMap
  <2>5. DOMAIN g.sessionTimestamps = DOMAIN f.sessionTimestamps \cup {id}
    BY <2>1 DEF Put
  <2>6. WellFormed(g)
    BY <2>1, <2>2, <2>3, <2>4, <2>5 DEF WellFormed, IsFactory
  <2>7. Serves(g, f, id)
    BY <2>1, <2>2 DEF Serves
  <2>. QED  BY <2>6, <2>7 DEF g, id
<1>3. CASE ~Unexpired(f, id, t)
  <2>1. WellFormed(p) /\ KeepsPartOf(p, f)
    <3>1. WellFormed(RemoveSession(f, key)) /\ KeepsPartOf(RemoveSession(f, key), f)
      BY RemovalKeepsPart DEF RemoveSession
    <3>2. WellFormed(p) /\ KeepsPartOf(p, RemoveSession(f, key))
      BY <3>1, MakeRoomKeepsPart
    <3>. QED  BY <3>1, <3>2 DEF KeepsPartOf
  <2>2. g = CreateSession(p, id, t)
    BY <1>3 DEF GetDatabase
  <2>3. /\ g.databases = Put(p.databases, id, p.created + 1)
        /\ g.sessionTimestamps = Put(p.sessionTimestamps, id, t)
        /\ g.created = p.created + 1
    BY <2>2 DEF CreateSession
  <2> HIDE DEF g, id, p
  <2>4. IsMap(p.databases) /\ IsMap(p.sessionTimestamps) /\ p.created \in Nat
    BY <2>1 DEF WellFormed, IsFactory
  <2>5. IsMap(g.databases) /\ IsMap(g.sessionTimestamps)
    BY <1>1, <2>3, <2>4, PutIsMap
  <2>6. /\ DOMAIN g.databases = DOMAIN p.databases \cup {id}
        /\ DOMAIN g.sessionTimestamps = DOMAIN p.sessionTimestamps \cup {id}
        /\ g.databases[id] = p.created + 1
        /\ \A s \in DOMAIN p.databases \ {id} : g.databases[s] = p.databases[s]
    BY <2>3 DEF Put
  <2>7. \A s \in DOMAIN g.databases : g.databases[s] \in 1 .. g.created
    BY <2>1, <2>3, <2>4, <2>6 DEF WellFormed
  <2>8. WellFormed(g)
    BY <2>1, <2>3, <2>4, <2>5, <2>6, <2>7 DEF WellFormed, IsFactory
  <2>9. Serves(g, f, id)
    BY <2>1, <2>3, <2>6 DEF Serves, KeepsPartOf
  <2>. QED  BY <2>8, <2>9 DEF g, id
<1>. QED  BY <1>2, <1>3

LEMMA EmptyMap ==
  IsMap(<<>>) /\ DOMAIN <<>> = {}
  BY DEF IsMap

\* No two sessions share a database.
Distinct(f) ==
  \A s, t \in DOMAIN f.databases : f.databases[s] = f.databases[t] => s = t

\* A database that a factory has given out serves after getDatabase whom it served
\* before, and the new one serves nobody else.
LEMMA GetDatabaseDistinct ==
  ASSUME NEW f, WellFormed(f), Distinct(f), NEW key \in Keys, NEW t \in Nat
  PROVE  LET g == GetDatabase(f, key, t)
         IN  /\ Distinct(g)
             /\ g.created >= f.created
             /\ \A s \in DOMAIN g.databases :
                  g.databases[s] <= f.created =>
                    s \in DOMAIN f.databases /\ f.databases[s] = g.databases[s]
             /\ \A s \in DOMAIN g.databases :
                  \/ s \in DOMAIN f.databases /\ f.databases[s] = g.databases[s]
                  \/ s = Normalize[key] /\ g.databases[s] = f.created + 1
<1> DEFINE g == GetDatabase(f, key, t)
           id == Normalize[key]
<1>1. WellFormed(g) /\ Serves(g, f, id)
  BY GetDatabaseServes
<1>2. /\ f.created \in Nat /\ g.created \in Nat
      /\ \A s \in DOMAIN f.databases : f.databases[s] \in 1 .. f.created
      /\ \A s \in DOMAIN g.databases : g.databases[s] \in 1 .. g.created
  BY <1>1 DEF WellFormed, IsFactory
<1> HIDE DEF g, id
<1>3. \A s \in DOMAIN g.databases :
        \/ s \in DOMAIN f.databases /\ f.databases[s] = g.databases[s]
        \/ s = id /\ g.databases[s] = f.created + 1
  BY <1>1 DEF Serves
<1>4. Distinct(g)
  BY <1>2, <1>3 DEF Distinct
<1>5. \A s \in DOMAIN g.databases :
        g.databases[s] <= f.created =>
          s \in DOMAIN f.databases /\ f.databases[s] = g.databases[s]
  BY <1>2, <1>3
<1>6. g.created >= f.created
  BY <1>1, <1>2 DEF Serves
<1>. QED  BY <1>3, <1>4, <1>5, <1>6 DEF g, id

LEMMA RemovalDistinct ==
  ASSUME NEW f, WellFormed(f), Distinct(f), NEW ids
  PROVE  Distinct(RemoveSessions(f, ids))
  BY RemovalKeepsPart DEF KeepsPartOf, Distinct

-----------------------------------------------------------------------------
(* How many sessions a factory holds, and which it drops. *)

StampsPast(f, t) ==
  \A s \in DOMAIN f.sessionTimestamps : f.sessionTimestamps[s] <= t

LEMMA FiniteIds == IsFiniteSet(SessionIds)
<1>1. IsFiniteSet(Keys) /\ Normalize \in [Keys -> Keys]
  BY SessionsAssumption, Zenon
<1>2. SessionIds \in SUBSET Keys
  BY <1>1 DEF SessionIds
<1>. QED  BY <1>1, <1>2, FS_Subset

LEMMA FiniteFactory ==
  ASSUME NEW f, WellFormed(f)
  PROVE  IsFiniteSet(DOMAIN f.databases) /\ Size(f) \in Nat
<1>1. DOMAIN f.databases \in SUBSET SessionIds
  BY DEF WellFormed, IsFactory, IsMap
<1>2. IsFiniteSet(DOMAIN f.databases)
  BY <1>1, FiniteIds, FS_Subset
<1>. QED  BY <1>2, FS_CardinalityType DEF Size, ActiveSessions

LEMMA SmallerFactory ==
  ASSUME NEW f, WellFormed(f), NEW g, DOMAIN g.databases \subseteq DOMAIN f.databases
  PROVE  Size(g) \in Nat /\ Size(g) <= Size(f)
<1>1. IsFiniteSet(DOMAIN f.databases) /\ DOMAIN g.databases \in SUBSET DOMAIN f.databases
  BY FiniteFactory
<1>2. IsFiniteSet(DOMAIN g.databases) /\ Cardinality(DOMAIN g.databases) <= Cardinality(DOMAIN f.databases)
  BY <1>1, FS_Subset
<1>. QED  BY <1>2, FS_CardinalityType DEF Size, ActiveSessions

LEMMA OneMore ==
  ASSUME NEW f, WellFormed(f), NEW g, NEW id,
         DOMAIN g.databases = DOMAIN f.databases \cup {id}
  PROVE  Size(g) \in Nat /\ Size(g) <= Size(f) + 1
<1>1. IsFiniteSet(DOMAIN f.databases) /\ Cardinality(DOMAIN f.databases) \in Nat
  BY FiniteFactory DEF Size, ActiveSessions
<1>2. Cardinality(DOMAIN f.databases \cup {id})
        = IF id \in DOMAIN f.databases THEN Cardinality(DOMAIN f.databases)
          ELSE Cardinality(DOMAIN f.databases) + 1
  BY <1>1, FS_AddElement
<1>. QED  BY <1>1, <1>2 DEF Size, ActiveSessions

LEMMA OneLess ==
  ASSUME NEW f, WellFormed(f), NEW g, NEW s \in DOMAIN f.databases,
         DOMAIN g.databases \subseteq DOMAIN f.databases \ {s}
  PROVE  Size(g) \in Nat /\ Size(g) + 1 <= Size(f)
<1> DEFINE D == DOMAIN f.databases
<1>1. IsFiniteSet(D) /\ Cardinality(D) \in Nat
  BY FiniteFactory DEF Size, ActiveSessions
<1>2. IsFiniteSet(D \ {s}) /\ Cardinality(D \ {s}) = Cardinality(D) - 1
  BY <1>1, FS_RemoveElement
<1>3. DOMAIN g.databases \in SUBSET (D \ {s})
  OBVIOUS
<1>4. IsFiniteSet(DOMAIN g.databases) /\ Cardinality(DOMAIN g.databases) <= Cardinality(D \ {s})
  BY <1>2, <1>3, FS_Subset
<1>5. Cardinality(DOMAIN g.databases) \in Nat
  BY <1>4, FS_CardinalityType
<1>. QED  BY <1>1, <1>2, <1>4, <1>5 DEF Size, ActiveSessions

\* Every set of numbers has a smallest one.
LEMMA LeastNumber ==
  ASSUME NEW T, T \subseteq Nat, T # {}
  PROVE  \E m \in T : \A n \in T : m <= n
<1>1. PICK m \in T : \A n \in T : ~ (<<n, m>> \in OpToRel(<, Nat))
  BY NatLessThanWellFounded, WFMin, Zenon
<1>2. \A n \in T : <<n, m>> \in OpToRel(<, Nat) <=> n < m
  BY DEF OpToRel
<1>3. m \in Nat /\ \A n \in T : n \in Nat /\ ~(n < m)
  BY <1>1, <1>2
<1>. QED  BY <1>3

\* getOldestSession returns null only when every session was used at `t`.
LEMMA OldestExists ==
  ASSUME NEW f, WellFormed(f), NEW t \in Nat,
         NEW x \in DOMAIN f.sessionTimestamps, f.sessionTimestamps[x] < t
  PROVE  \E s \in DOMAIN f.databases : s \in OldestSession(f, t)
<1> DEFINE older == {s \in DOMAIN f.sessionTimestamps : f.sessionTimestamps[s] < t}
           stamps == {f.sessionTimestamps[s] : s \in older}
<1>1. /\ DOMAIN f.databases = DOMAIN f.sessionTimestamps
      /\ \A s \in DOMAIN f.databases : f.databases[s] \in Nat /\ f.sessionTimestamps[s] \in Nat
  BY DEF WellFormed, IsFactory, IsMap
<1>2. stamps \subseteq Nat /\ stamps # {}
  BY <1>1
<1>3. PICK m \in stamps : \A n \in stamps : m <= n
  BY <1>2, LeastNumber
<1> DEFINE first == {s \in older : f.sessionTimestamps[s] = m}
           numbers == {f.databases[s] : s \in first}
<1>4. numbers \subseteq Nat /\ numbers # {}
  BY <1>1
<1>5. PICK d \in numbers : \A n \in numbers : d <= n
  BY <1>4, LeastNumber
<1>6. PICK s \in first : f.databases[s] = d
  OBVIOUS
<1>7. s \in older /\ f.sessionTimestamps[s] = m
  OBVIOUS
<1>8. ASSUME NEW y \in older
      PROVE  \/ f.sessionTimestamps[s] < f.sessionTimestamps[y]
             \/ /\ f.sessionTimestamps[s] = f.sessionTimestamps[y]
                /\ f.databases[s] <= f.databases[y]
  <2>1. f.sessionTimestamps[y] \in stamps /\ f.sessionTimestamps[y] \in Nat
    BY <1>1
  <2>2. CASE f.sessionTimestamps[y] = m
    <3>1. f.databases[y] \in numbers
      BY <2>2
    <3>. QED  BY <1>5, <1>6, <1>7, <2>2, <3>1
  <2>3. CASE f.sessionTimestamps[y] # m
    <3>1. m <= f.sessionTimestamps[y] /\ m \in Nat
      BY <1>2, <1>3, <2>1
    <3>. QED  BY <1>7, <2>1, <2>3, <3>1
  <2>. QED  BY <2>2, <2>3
<1>9. s \in OldestSession(f, t)
  BY <1>7, <1>8 DEF OldestSession
<1>. QED  BY <1>1, <1>7, <1>9

\* The stamps that removals leave are what they were.
KeepsStampsOf(g, f) ==
  /\ DOMAIN g.sessionTimestamps \subseteq DOMAIN f.sessionTimestamps
  /\ \A s \in DOMAIN g.sessionTimestamps : g.sessionTimestamps[s] = f.sessionTimestamps[s]

LEMMA RemovalKeepsStamps ==
  ASSUME NEW f, NEW ids
  PROVE  KeepsStampsOf(RemoveSessions(f, ids), f)
  BY DEF RemoveSessions, Without, KeepsStampsOf

\* The factory that getDatabase adds a session to: the one before, less the session
\* itself, less the expired and the oldest ones.
Roomy(f, key, t) == MakeRoom(RemoveSession(f, key), t)

LEMMA GetDatabaseCases ==
  ASSUME NEW f, WellFormed(f), NEW key \in Keys, NEW t \in Nat
  PROVE  LET g == GetDatabase(f, key, t)
             id == Normalize[key]
             p == Roomy(f, key, t)
         IN  \/ /\ Unexpired(f, id, t)
                /\ id \in DOMAIN f.databases
                /\ g.databases = f.databases
                /\ DOMAIN g.sessionTimestamps = DOMAIN f.sessionTimestamps \cup {id}
                /\ g.sessionTimestamps[id] = t
                /\ \A s \in DOMAIN f.sessionTimestamps \ {id} :
                     g.sessionTimestamps[s] = f.sessionTimestamps[s]
             \/ /\ ~Unexpired(f, id, t)
                /\ DOMAIN g.databases = DOMAIN p.databases \cup {id}
                /\ DOMAIN g.sessionTimestamps = DOMAIN p.sessionTimestamps \cup {id}
                /\ g.databases[id] = p.created + 1
                /\ g.sessionTimestamps[id] = t
                /\ \A s \in DOMAIN p.sessionTimestamps \ {id} :
                     g.sessionTimestamps[s] = p.sessionTimestamps[s]
<1> DEFINE g == GetDatabase(f, key, t)
           id == Normalize[key]
           p == Roomy(f, key, t)
<1>1. CASE Unexpired(f, id, t)
  <2>1. g.databases = f.databases /\ g.sessionTimestamps = Put(f.sessionTimestamps, id, t)
    BY <1>1 DEF GetDatabase, TouchSession
  <2>2. id \in DOMAIN f.databases
    BY <1>1 DEF Unexpired
  <2> HIDE DEF g, id, p
  <2>3. /\ DOMAIN g.sessionTimestamps = DOMAIN f.sessionTimestamps \cup {id}
        /\ g.sessionTimestamps[id] = t
        /\ \A s \in DOMAIN f.sessionTimestamps \ {id} :
             g.sessionTimestamps[s] = f.sessionTimestamps[s]
    BY <2>1 DEF Put
  <2>. QED  BY <1>1, <2>1, <2>2, <2>3 DEF g, id, p
<1>2. CASE ~Unexpired(f, id, t)
  <2>1. g = CreateSession(p, id, t)
    BY <1>2 DEF GetDatabase, Roomy
  <2>2. /\ g.databases = Put(p.databases, id, p.created + 1)
        /\ g.sessionTimestamps = Put(p.sessionTimestamps, id, t)
    BY <2>1 DEF CreateSession
  <2> HIDE DEF g, id, p
  <2>3. /\ DOMAIN g.databases = DOMAIN p.databases \cup {id}
        /\ DOMAIN g.sessionTimestamps = DOMAIN p.sessionTimestamps \cup {id}
        /\ g.databases[id] = p.created + 1
        /\ g.sessionTimestamps[id] = t
        /\ \A s \in DOMAIN p.sessionTimestamps \ {id} :
             g.sessionTimestamps[s] = p.sessionTimestamps[s]
    BY <2>2 DEF Put
  <2>. QED  BY <1>2, <2>3 DEF g, id, p
<1>. QED  BY <1>1, <1>2

\* The factory in the course of getDatabase: without the session, without the
\* expired ones, without the oldest.
Removed(f, key) == RemoveSession(f, key)
Cleaned(f, key, t) == CleanupExpiredSessions(Removed(f, key), t)
Evicted(f, key, t) == RemoveSessions(Cleaned(f, key, t), OldestSession(Cleaned(f, key, t), t))

LEMMA RoomyCases ==
  ASSUME NEW f, WellFormed(f), NEW key \in Keys, NEW t \in Nat
  PROVE  LET f0 == Removed(f, key)
             f1 == Cleaned(f, key, t)
             f2 == Evicted(f, key, t)
             p  == Roomy(f, key, t)
         IN  /\ WellFormed(f0) /\ WellFormed(f1) /\ WellFormed(f2) /\ WellFormed(p)
             /\ KeepsStampsOf(f0, f) /\ KeepsStampsOf(f1, f) /\ KeepsStampsOf(p, f)
             /\ p.created = f.created
             /\ DOMAIN f0.databases = DOMAIN f.databases \ {Normalize[key]}
             /\ DOMAIN f1.databases = DOMAIN f0.databases \ ExpiredSessions(f0, t)
             /\ DOMAIN f2.databases = DOMAIN f1.databases \ OldestSession(f1, t)
             /\ \/ p = f0 /\ ~(Size(f0) >= MaxSessions)
                \/ p = f1 /\ ~(Size(f1) >= MaxSessions)
                \/ p = f2 /\ Size(f1) >= MaxSessions
<1> DEFINE f0 == Removed(f, key)
           f1 == Cleaned(f, key, t)
           f2 == Evicted(f, key, t)
           p  == Roomy(f, key, t)
<1>1. /\ WellFormed(f0) /\ KeepsPartOf(f0, f) /\ KeepsStampsOf(f0, f)
      /\ DOMAIN f0.databases = DOMAIN f.databases \ {Normalize[key]}
  BY RemovalKeepsPart, RemovalKeepsStamps DEF Removed, RemoveSession
<1>2. /\ WellFormed(f1) /\ KeepsPartOf(f1, f0) /\ KeepsStampsOf(f1, f0)
      /\ DOMAIN f1.databases = DOMAIN f0.databases \ ExpiredSessions(f0, t)
  BY <1>1, RemovalKeepsPart, RemovalKeepsStamps DEF Cleaned, CleanupExpiredSessions
<1>3. /\ WellFormed(f2) /\ KeepsPartOf(f2, f1) /\ KeepsStampsOf(f2, f1)
      /\ DOMAIN f2.databases = DOMAIN f1.databases \ OldestSession(f1, t)
  BY <1>2, RemovalKeepsPart, RemovalKeepsStamps DEF Evicted
<1>4. \/ p = f0 /\ ~(Size(f0) >= MaxSessions)
      \/ p = f1 /\ ~(Size(f1) >= MaxSessions)
      \/ p = f2 /\ Size(f1) >= MaxSessions
  BY DEF Roomy, MakeRoom, EvictOldest, Removed, Cleaned, Evicted
<1> HIDE DEF f0, f1, f2, p
<1>5. KeepsStampsOf(f1, f) /\ KeepsStampsOf(f2, f)
  BY <1>1, <1>2, <1>3 DEF KeepsStampsOf
<1>6. f0.created = f.created /\ f1.created = f.created /\ f2.created = f.created
  BY <1>1, <1>2, <1>3 DEF KeepsPartOf
<1>. QED  BY <1>1, <1>2, <1>3, <1>4, <1>5, <1>6 DEF f0, f1, f2, p

LEMMA GetDatabaseStamps ==
  ASSUME NEW f, WellFormed(f), NEW key \in Keys, NEW t \in Nat
  PROVE  LET g == GetDatabase(f, key, t)
         IN  \A s \in DOMAIN g.sessionTimestamps :
               \/ s = Normalize[key] /\ g.sessionTimestamps[s] = t
               \/ /\ s \in DOMAIN f.sessionTimestamps
                  /\ g.sessionTimestamps[s] = f.sessionTimestamps[s]
<1> DEFINE g == GetDatabase(f, key, t)
           p == Roomy(f, key, t)
<1>1. KeepsStampsOf(p, f)
  BY RoomyCases
<1> HIDE DEF p
<1>. QED  BY <1>1, GetDatabaseCases DEF KeepsStampsOf, p

\* Why getDatabase drops a session.
GoesForAReason(f, s, t) ==
  \/ t - f.sessionTimestamps[s] >= SessionTimeout
  \/ Cardinality({x \in DOMAIN f.sessionTimestamps :
                    f.sessionTimestamps[x] >= f.sessionTimestamps[s]}) >= MaxSessions

LEMMA GetDatabaseDrops ==
  ASSUME NEW f, WellFormed(f), NEW key \in Keys, NEW t \in Nat,
         NEW s \in DOMAIN f.databases,
         s \notin DOMAIN GetDatabase(f, key, t).databases
  PROVE  GoesForAReason(f, s, t)
<1> DEFINE g  == GetDatabase(f, key, t)
           id == Normalize[key]
           f0 == Removed(f, key)
           f1 == Cleaned(f, key, t)
           f2 == Evicted(f, key, t)
           p  == Roomy(f, key, t)
<1>1. /\ WellFormed(f0) /\ WellFormed(f1)
      /\ KeepsStampsOf(f0, f) /\ KeepsStampsOf(f1, f)
      /\ DOMAIN f0.databases = DOMAIN f.databases \ {id}
      /\ DOMAIN f1.databases = DOMAIN f0.databases \ ExpiredSessions(f0, t)
      /\ DOMAIN f2.databases = DOMAIN f1.databases \ OldestSession(f1, t)
      /\ \/ p = f0
         \/ p = f1
         \/ p = f2 /\ Size(f1) >= MaxSessions
  BY RoomyCases
<1>2. s # id /\ s \notin DOMAIN p.databases
  BY GetDatabaseCases
<1>3. SessionTimeout \in Nat /\ MaxSessions \in Nat
  BY SessionsAssumption, Zenon
<1>4. /\ DOMAIN f.databases = DOMAIN f.sessionTimestamps
      /\ \A x \in DOMAIN f.sessionTimestamps : f.sessionTimestamps[x] \in Nat
  BY DEF WellFormed, IsFactory, IsMap
<1>5. /\ DOMAIN f0.databases = DOMAIN f0.sessionTimestamps
      /\ DOMAIN f1.databases = DOMAIN f1.sessionTimestamps
  BY <1>1 DEF WellFormed
<1> HIDE DEF g, id, f0, f1, f2, p
<1>6. s \in DOMAIN f0.databases /\ s \in DOMAIN f0.sessionTimestamps
  BY <1>1, <1>2, <1>5
<1>7. CASE s \in ExpiredSessions(f0, t)
  <2>1. t - f0.sessionTimestamps[s] > SessionTimeout
    BY <1>7 DEF ExpiredSessions
  <2>2. f0.sessionTimestamps[s] = f.sessionTimestamps[s] /\ f.sessionTimestamps[s] \in Nat
    BY <1>1, <1>4, <1>6 DEF KeepsStampsOf
  <2>. QED  BY <1>3, <2>1, <2>2 DEF GoesForAReason
<1>8. CASE s \notin ExpiredSessions(f0, t)
  <2>1. s \in DOMAIN f1.databases
    BY <1>1, <1>6, <1>8
  <2>2. Size(f1) >= MaxSessions /\ s \in OldestSession(f1, t)
    BY <1>1, <1>2, <1>6, <2>1
  <2>3. \A x \in DOMAIN f1.sessionTimestamps :
          /\ f1.sessionTimestamps[x] = f.sessionTimestamps[x]
          /\ x \in DOMAIN f.sessionTimestamps
          /\ f.sessionTimestamps[x] \in Nat
    BY <1>1, <1>4 DEF KeepsStampsOf
  <2>4. s \in DOMAIN f1.sessionTimestamps /\ f1.sessionTimestamps[s] < t
    BY <2>2 DEF OldestSession
  <2>5. ASSUME NEW x \in DOMAIN f1.sessionTimestamps
        PROVE  f.sessionTimestamps[x] >= f.sessionTimestamps[s]
    <3>1. \/ f1.sessionTimestamps[s] < f1.sessionTimestamps[x]
          \/ f1.sessionTimestamps[s] = f1.sessionTimestamps[x]
          \/ ~(f1.sessionTimestamps[x] < t)
      BY <2>2 DEF OldestSession
    <3>. QED  BY <2>3, <2>4, <3>1
  <2> DEFINE S == {x \in DOMAIN f.sessionTimestamps :
                     f.sessionTimestamps[x] >= f.sessionTimestamps[s]}
  <2>6. DOMAIN f1.databases \in SUBSET S
    BY <1>5, <2>3, <2>5
  <2>7. IsFiniteSet(S)
    <3>1. IsFiniteSet(DOMAIN f.databases)
      BY FiniteFactory
    <3>2. S \in SUBSET DOMAIN f.databases
      BY <1>4
    <3>. QED  BY <3>1, <3>2, FS_Subset
  <2>8. Cardinality(DOMAIN f1.databases) <= Cardinality(S)
    BY <2>6, <2>7, FS_Subset
  <2>9. Cardinality(S) \in Nat
    BY <2>7, FS_CardinalityType
  <2>10. Size(f1) \in Nat /\ Size(f1) <= Cardinality(S)
    BY <1>1, <2>8, FiniteFactory DEF Size, ActiveSessions
  <2>11. Cardinality(S) >= MaxSessions
    BY <1>3, <2>2, <2>9, <2>10
  <2>. QED  BY <2>11 DEF GoesForAReason
<1>. QED  BY <1>7, <1>8

\* When getDatabase can grow the factory past its limit.
LEMMA GetDatabaseGrows ==
  ASSUME NEW f, WellFormed(f), NEW key \in Keys, NEW t \in Nat, StampsPast(f, t),
         Size(GetDatabase(f, key, t)) > MaxSessions,
         Size(GetDatabase(f, key, t)) > Size(f)
  PROVE  \A s \in DOMAIN f.databases \cap DOMAIN GetDatabase(f, key, t).databases :
           f.sessionTimestamps[s] = t
<1> DEFINE g  == GetDatabase(f, key, t)
           id == Normalize[key]
           f0 == Removed(f, key)
           f1 == Cleaned(f, key, t)
           f2 == Evicted(f, key, t)
           p  == Roomy(f, key, t)
<1>1. /\ WellFormed(f0) /\ WellFormed(f1) /\ WellFormed(p)
      /\ KeepsStampsOf(f1, f)
      /\ DOMAIN f0.databases = DOMAIN f.databases \ {id}
      /\ DOMAIN f1.databases = DOMAIN f0.databases \ ExpiredSessions(f0, t)
      /\ DOMAIN f2.databases = DOMAIN f1.databases \ OldestSession(f1, t)
      /\ \/ p = f0 /\ ~(Size(f0) >= MaxSessions)
         \/ p = f1 /\ ~(Size(f1) >= MaxSessions)
         \/ p = f2
  BY RoomyCases
<1>2. g.databases = f.databases \/ DOMAIN g.databases = DOMAIN p.databases \cup {id}
  BY GetDatabaseCases
<1>3. MaxSessions \in Nat
  BY SessionsAssumption, Zenon
<1>4. /\ DOMAIN f.databases = DOMAIN f.sessionTimestamps
      /\ \A x \in DOMAIN f.sessionTimestamps : f.sessionTimestamps[x] \in Nat
      /\ DOMAIN f1.databases = DOMAIN f1.sessionTimestamps
  BY <1>1 DEF WellFormed, IsFactory, IsMap
<1>5. Size(g) > MaxSessions /\ Size(g) > Size(f)
  OBVIOUS
<1> HIDE DEF g, id, f0, f1, f2, p
<1>6. Size(f) \in Nat /\ Size(f0) \in Nat /\ Size(f1) \in Nat /\ Size(p) \in Nat
  BY <1>1, FiniteFactory
<1>7. ASSUME DOMAIN g.databases \subseteq DOMAIN f.databases PROVE FALSE
  <2>1. Size(g) \in Nat /\ Size(g) <= Size(f)
    BY <1>7, SmallerFactory
  <2>. QED  BY <1>5, <1>6, <2>1
<1>8. DOMAIN g.databases = DOMAIN p.databases \cup {id}
  BY <1>2, <1>7
<1>9. DOMAIN p.databases \subseteq DOMAIN f.databases \ {id}
  BY <1>1
<1>10. id \notin DOMAIN f.databases
  BY <1>7, <1>8, <1>9
<1>11. Size(g) \in Nat /\ Size(g) <= Size(p) + 1
  BY <1>1, <1>8, OneMore
<1>12. Size(p) >= MaxSessions /\ p = f2
  BY <1>1, <1>3, <1>5, <1>6, <1>11
<1>13. ASSUME NEW o \in DOMAIN f1.databases, o \in OldestSession(f1, t) PROVE FALSE
  <2>1. Size(p) + 1 <= Size(f1)
    BY <1>1, <1>12, <1>13, OneLess
  <2>2. Size(f1) <= Size(f)
    <3>1. DOMAIN f1.databases \subseteq DOMAIN f.databases
      BY <1>1
    <3>. QED  BY <3>1, SmallerFactory
  <2>. QED  BY <1>5, <1>6, <1>11, <2>1, <2>2
<1>14. \A x \in DOMAIN f1.sessionTimestamps : ~(f1.sessionTimestamps[x] < t)
  BY <1>1, <1>13, OldestExists
<1>15. ASSUME NEW s \in DOMAIN f.databases \cap DOMAIN g.databases
       PROVE  f.sessionTimestamps[s] = t
  <2>1. s \in DOMAIN p.databases
    BY <1>8, <1>10
  <2>2. s \in DOMAIN f1.sessionTimestamps
    BY <1>1, <1>4, <1>12, <2>1
  <2>3. f1.sessionTimestamps[s] = f.sessionTimestamps[s]
    BY <1>1, <2>2 DEF KeepsStampsOf
  <2>4. f.sessionTimestamps[s] \in Nat /\ f.sessionTimestamps[s] <= t
    BY <1>4 DEF StampsPast
  <2>. QED  BY <1>14, <2>2, <2>3, <2>4
<1>. QED  BY <1>15 DEF g

=============================================================================
