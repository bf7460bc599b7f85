----------------------- MODULE SessionIsolationProofs -----------------------
(***************************************************************************)
(* Type correctness, the two Maps in step, isolation, the databases that   *)
(* never return, and why sessions go, for every set of keys, requests and  *)
(* addresses, every limit and every timeout.                               *)
(***************************************************************************)
EXTENDS SessionIsolation, SessionsProofs

-----------------------------------------------------------------------------
(* How holders change. *)

LEMMA InvWellFormed ==
  ASSUME IsolationInv
  PROVE  WellFormed(factory)
  BY DEF IsolationInv, TypeOK, MapsInStep, DatabasesNumbered, ActiveSessions, WellFormed

LEMMA Bounds ==
  MaxInstances \in Nat /\ MaxTime \in Nat /\ MaxTime # 0
  BY IsolationAssumption, Zenon

LEMMA InvBounds ==
  ASSUME IsolationInv
  PROVE  factory.created \in Nat /\ now \in Nat
  BY Bounds DEF IsolationInv, TypeOK, IsFactory

\* Isolation survives a step whose holders were holders before, but for one
\* session that takes a database just created.
LEMMA HoldersStep ==
  ASSUME IsolationInv, NEW id,
         factory'.created \in Nat, factory'.created >= factory.created,
         \A i \in Instances : \A s \in Holders(i)' :
           \/ s \in Holders(i)
           \/ s = id /\ i = factory'.created /\ i > factory.created
  PROVE  Isolation' /\ NoEarlyHolders'
<1>1. factory.created \in Nat
  BY InvBounds
<1>2. Isolation /\ NoEarlyHolders
  BY DEF IsolationInv
<1>3. ASSUME NEW i \in Instances, i > factory.created
      PROVE  Holders(i) = {}
  BY <1>2, <1>3 DEF NoEarlyHolders
<1>4. ASSUME NEW i \in Instances, NEW s \in Holders(i)', NEW t \in Holders(i)'
      PROVE  s = t
  <2>1. CASE i > factory.created
    BY <1>3, <1>4, <2>1
  <2>2. CASE ~(i > factory.created)
    BY <1>2, <1>4, <2>2 DEF Isolation
  <2>. QED  BY <2>1, <2>2
<1>5. ASSUME NEW i \in Instances, i > factory'.created, NEW s \in Holders(i)'
      PROVE  FALSE
  <2>1. i > factory.created
    BY <1>1, <1>5, Bounds DEF Instances
  <2>. QED  BY <1>3, <1>5, <2>1, Bounds DEF Instances
<1>. QED  BY <1>4, <1>5 DEF Isolation, NoEarlyHolders, Instances

\* A session of the factory in context c, or the one it serves, held its
\* database before, unless c created that database for it.
HeldOrNew(c, s, i) ==
  \/ s \in Holders(i)
  \/ s = Normalize[c.key] /\ i = c.factory.created /\ i > factory.created

GoodContext(c) ==
  /\ WellFormed(c.factory)
  /\ c.factory.created \in {factory.created, factory.created + 1}
  /\ c.key \in Keys
  /\ c.db \in 1 .. c.factory.created
  /\ \A s \in DOMAIN c.factory.databases : HeldOrNew(c, s, c.factory.databases[s])
  /\ HeldOrNew(c, Normalize[c.key], c.db)

LEMMA ServedContext ==
  ASSUME IsolationInv, NEW key \in Keys
  PROVE  LET f == GetDatabase(factory, key, now)
         IN  GoodContext([factory |-> f, key |-> key, db |-> DatabaseOf(f, key)])
<1> DEFINE f == GetDatabase(factory, key, now)
           c == [factory |-> f, key |-> key, db |-> DatabaseOf(f, key)]
<1>1. WellFormed(factory) /\ factory.created \in Nat /\ now \in Nat
  BY InvWellFormed, InvBounds
<1>2. WellFormed(f) /\ Serves(f, factory, Normalize[key])
  BY <1>1, GetDatabaseServes
<1>3. c.factory = f /\ c.key = key /\ c.db = f.databases[Normalize[key]]
  BY DEF DatabaseOf
<1> HIDE DEF f, c
<1>4. \A s \in DOMAIN factory.databases : s \in Holders(factory.databases[s])
  BY DEF Holders, ActiveSessions
<1>5. \A s \in DOMAIN f.databases : HeldOrNew(c, s, f.databases[s])
  BY <1>1, <1>2, <1>3, <1>4 DEF Serves, HeldOrNew
<1>6. f.created \in {factory.created, factory.created + 1}
  BY <1>2 DEF Serves
<1>7. Normalize[key] \in DOMAIN f.databases
  BY <1>2 DEF Serves
<1>8. c.db \in 1 .. f.created
  BY <1>2, <1>3, <1>7 DEF WellFormed
<1>9. GoodContext(c)
  BY <1>2, <1>3, <1>5, <1>6, <1>7, <1>8 DEF GoodContext
<1>. QED  BY <1>9 DEF c, f

LEMMA BoundContext ==
  ASSUME IsolationInv, NEW r \in Requests, requests[r] # Idle
  PROVE  GoodContext([factory |-> factory, key |-> requests[r].key, db |-> requests[r].db])
<1> DEFINE c == [factory |-> factory, key |-> requests[r].key, db |-> requests[r].db]
<1>1. WellFormed(factory) /\ factory.created \in Nat
  BY InvWellFormed, InvBounds
<1>2. requests[r] \in Bindings
  BY DEF IsolationInv, TypeOK, Bindings, Idle
<1>3. c.factory = factory /\ c.key = requests[r].key /\ c.db = requests[r].db
  OBVIOUS
<1> HIDE DEF c
<1>4. c.key \in Keys /\ c.db \in Instances
  BY <1>2, <1>3 DEF Bindings
<1>5. Normalize[c.key] \in Holders(c.db)
  BY <1>3 DEF Holders
<1>6. c.db \in 1 .. factory.created
  BY <1>1, <1>4, <1>5, Bounds DEF IsolationInv, NoEarlyHolders, Instances
<1>7. \A s \in DOMAIN factory.databases : s \in Holders(factory.databases[s])
  BY DEF Holders, ActiveSessions
<1>8. GoodContext(c)
  BY <1>1, <1>3, <1>4, <1>5, <1>6, <1>7 DEF GoodContext, HeldOrNew
<1>. QED  BY <1>8 DEF c

\* A step that works in a good context, forgets sessions at most, and lets only
\* the context's request hold or fill the context's database keeps the invariant.
LEMMA ContextStep ==
  ASSUME IsolationInv, TypeOK', NEW c, GoodContext(c), c.factory.created <= MaxInstances,
         WellFormed(factory'), KeepsPartOf(factory', c.factory),
         \A q \in Requests : requests'[q] \in {Idle, requests[q], [key |-> c.key, db |-> c.db]},
         \A i \in Instances : \A k \in rows'[i] : k \in rows[i] \/ (k = c.key /\ i = c.db)
  PROVE  IsolationInv'
<1>1. factory'.created = c.factory.created /\ factory'.created \in Nat
  BY DEF KeepsPartOf, WellFormed, IsFactory
<1>2. factory.created \in Nat /\ factory'.created >= factory.created
  BY <1>1, InvBounds DEF GoodContext
<1>3. ASSUME NEW i \in Instances, NEW s \in Holders(i)'
      PROVE  HeldOrNew(c, s, i)
  <2>1. CASE s \in ActiveSessions(factory') /\ factory'.databases[s] = i
    BY <2>1 DEF ActiveSessions, KeepsPartOf, GoodContext
  <2>2. ASSUME NEW q \in Requests, requests'[q] # Idle, requests'[q].db = i,
               s = Normalize[requests'[q].key]
        PROVE  HeldOrNew(c, s, i)
    <3>1. CASE requests'[q] = requests[q]
      BY <2>2, <3>1 DEF HeldOrNew, Holders
    <3>2. CASE requests'[q] = [key |-> c.key, db |-> c.db]
      BY <2>2, <3>2 DEF GoodContext
    <3>. QED  BY <2>2, <3>1, <3>2
  <2>3. ASSUME NEW k \in rows'[i], s = Normalize[k]
        PROVE  HeldOrNew(c, s, i)
    <3>1. CASE k \in rows[i]
      BY <2>3, <3>1 DEF HeldOrNew, Holders
    <3>2. CASE k = c.key /\ i = c.db
      BY <2>3, <3>2 DEF GoodContext
    <3>. QED  BY <2>3, <3>1, <3>2
  <2>. QED  BY <1>3, <2>1, <2>2, <2>3 DEF Holders
<1>4. Isolation' /\ NoEarlyHolders'
  <2> DEFINE id == Normalize[c.key]
  <2>1. \A i \in Instances : \A s \in Holders(i)' :
          \/ s \in Holders(i)
          \/ s = id /\ i = factory'.created /\ i > factory.created
    BY <1>1, <1>3 DEF HeldOrNew
  <2> HIDE DEF id
  <2>. QED  BY <1>1, <1>2, <2>1, HoldersStep
<1>5. MapsInStep' /\ DatabasesNumbered' /\ factory'.created <= MaxInstances
  BY <1>1 DEF MapsInStep, DatabasesNumbered, ActiveSessions, WellFormed
<1>. QED  BY <1>4, <1>5 DEF IsolationInv

-----------------------------------------------------------------------------
(* The initial states and the steps. *)

LEMMA NoMappings ==
  <<>> \in UNION {[S -> Keys] : S \in SUBSET IPs}
<1>1. <<>> \in [{} -> Keys]
  OBVIOUS
<1>. QED  BY <1>1

LEMMA IsolationInit ==
  Init => IsolationInv
<1> SUFFICES ASSUME Init PROVE IsolationInv
  OBVIOUS
<1>1. factory = NoSessions
  BY DEF Init
<1>2. /\ factory.databases = <<>>
      /\ factory.sessionTimestamps = <<>>
      /\ factory.created = 0
  BY <1>1 DEF NoSessions
<1>3. IsFactory(factory) /\ DOMAIN factory.databases = {}
  BY <1>2, EmptyMap DEF IsFactory
<1>4. ipSessionMap \in UNION {[S -> Keys] : S \in SUBSET IPs}
  BY NoMappings DEF Init
<1>5. TypeOK
  <2>1. now \in 1 .. MaxTime
    BY Bounds DEF Init
  <2>2. requests \in [Requests -> Bindings \cup {Idle}] /\ rows \in [Instances -> SUBSET Keys]
    BY DEF Init
  <2>. QED  BY <1>3, <1>4, <2>1, <2>2 DEF Init, TypeOK
<1>6. \A i \in Instances : Holders(i) = {}
  BY <1>3 DEF Init, Holders, ActiveSessions
<1>. QED
  BY <1>2, <1>3, <1>5, <1>6, Bounds
  DEF IsolationInv, MapsInStep, DatabasesNumbered, NoEarlyHolders, Isolation, ActiveSessions

LEMMA ExtractedKey ==
  ASSUME TypeOK, NEW carried \in Keys \cup {NoKey}, NEW ip \in IPs
  PROVE  ExtractSessionKey(carried, ip) \in Keys
<1>1. DefaultSession \in Keys /\ IPSessionKey \in [IPs -> Keys]
  BY IsolationAssumption, Zenon
<1>2. ip \in DOMAIN ipSessionMap => ipSessionMap[ip] \in Keys
  BY DEF TypeOK
<1>3. EnableSessionIsolation \in BOOLEAN /\ AutoMapSessionByIP \in BOOLEAN
  BY IsolationAssumption, Zenon
<1>. QED  BY <1>1, <1>2, <1>3 DEF ExtractSessionKey, MappedByIP

LEMMA MappedIP ==
  ASSUME TypeOK, NEW carried, NEW ip \in IPs, MapIP(carried, ip)
  PROVE  ipSessionMap' \in UNION {[S -> Keys] : S \in SUBSET IPs}
<1>1. IPSessionKey \in [IPs -> Keys]
  BY IsolationAssumption, Zenon
<1>2. PICK S \in SUBSET IPs : ipSessionMap \in [S -> Keys]
  BY DEF TypeOK
<1>3. ipSessionMap' \in [S \cup {ip} -> Keys] \/ ipSessionMap' = ipSessionMap
  BY <1>1, <1>2 DEF MapIP
<1>. QED  BY <1>2, <1>3

LEMMA ContextBinding ==
  ASSUME IsolationInv, NEW c, GoodContext(c), c.factory.created <= MaxInstances
  PROVE  [key |-> c.key, db |-> c.db] \in Bindings /\ c.db \in Instances
<1>1. c.factory.created \in Nat
  BY DEF GoodContext, WellFormed, IsFactory
<1>. QED  BY <1>1, Bounds DEF GoodContext, Bindings, Instances

LEMMA ArriveStep ==
  ASSUME IsolationInv, NEW r \in Requests, Arrive(r)
  PROVE  IsolationInv'
<1>1. PICK carried \in Keys \cup {NoKey}, ip \in IPs :
        Bind(r, ExtractSessionKey(carried, ip)) /\ MapIP(carried, ip)
  BY DEF Arrive
<1> DEFINE key == ExtractSessionKey(carried, ip)
           f == GetDatabase(factory, key, now)
           c == [factory |-> f, key |-> key, db |-> DatabaseOf(f, key)]
<1>2. key \in Keys
  BY ExtractedKey DEF IsolationInv
<1>3. /\ factory' = f
      /\ f.created <= MaxInstances
      /\ requests' = [requests EXCEPT ![r] = [key |-> key, db |-> DatabaseOf(f, key)]]
      /\ UNCHANGED <<now, authMode, rows>>
  BY <1>1 DEF Bind, Arrive
<1> HIDE DEF key
<1>4. GoodContext(c)
  BY <1>2, ServedContext
<1>5. c.factory = f /\ c.key = key /\ c.db = DatabaseOf(f, key)
  OBVIOUS
<1> HIDE DEF f, c
<1>6. WellFormed(factory') /\ KeepsPartOf(factory', c.factory)
  BY <1>3, <1>4, <1>5 DEF GoodContext, KeepsPartOf
<1>7. [key |-> c.key, db |-> c.db] \in Bindings
  BY <1>3, <1>4, <1>5, ContextBinding
<1>8. ipSessionMap' \in UNION {[S -> Keys] : S \in SUBSET IPs}
  BY <1>1, MappedIP DEF IsolationInv
<1>9. requests \in [Requests -> Bindings \cup {Idle}] /\ rows \in [Instances -> SUBSET Keys]
  BY DEF IsolationInv, TypeOK
<1>10. requests' = [requests EXCEPT ![r] = [key |-> c.key, db |-> c.db]]
  BY <1>3, <1>5
<1>11. requests' \in [Requests -> Bindings \cup {Idle}]
  BY <1>7, <1>9, <1>10
<1>12. TypeOK'
  BY <1>3, <1>6, <1>8, <1>9, <1>11 DEF IsolationInv, TypeOK, WellFormed
<1>13. \A q \in Requests : requests'[q] \in {Idle, requests[q], [key |-> c.key, db |-> c.db]}
  BY <1>9, <1>10
<1>14. \A i \in Instances : \A k \in rows'[i] : k \in rows[i] \/ (k = c.key /\ i = c.db)
  BY <1>3
<1>. QED  BY <1>3, <1>4, <1>5, <1>6, <1>12, <1>13, <1>14, ContextStep

\* Every handler but the one that clears the address map: the context's factory,
\* less some sessions, and at most the context's key added to its database.
LEMMA HandlerStep ==
  ASSUME IsolationInv, NEW r \in Requests, requests[r] # Idle,
         NEW c \in Contexts(r), Respond(r, c),
         factory' = c.factory \/ \E ids : factory' = RemoveSessions(c.factory, ids),
         ipSessionMap' = ipSessionMap \/ ipSessionMap' = <<>>,
         \/ rows' = rows
         \/ rows' = [rows EXCEPT ![c.db] = @ \cup {c.key}]
         \/ rows' = [rows EXCEPT ![c.db] = {}]
  PROVE  IsolationInv'
<1>1. GoodContext(c)
  <2>1. CASE authMode = "full"
    <3>1. PICK u \in Users :
            c = [factory |-> GetDatabase(factory, u, now), key |-> u,
                 db |-> DatabaseOf(GetDatabase(factory, u, now), u)]
      BY <2>1 DEF Contexts
    <3>2. u \in Keys
      BY IsolationAssumption, Zenon
    <3>. QED  BY <3>1, <3>2, ServedContext
  <2>2. CASE authMode # "full"
    <3>1. c = [factory |-> factory, key |-> requests[r].key, db |-> requests[r].db]
      BY <2>2 DEF Contexts
    <3>. QED  BY <3>1, BoundContext
  <2>. QED  BY <2>1, <2>2
<1>2. /\ c.factory.created <= MaxInstances
      /\ requests' = [requests EXCEPT ![r] = Idle]
      /\ now' = now /\ authMode' = authMode
  BY DEF Respond
<1>3. WellFormed(c.factory)
  BY <1>1 DEF GoodContext
<1>4. WellFormed(factory') /\ KeepsPartOf(factory', c.factory)
  <2>1. CASE factory' = c.factory
    BY <1>3, <2>1 DEF KeepsPartOf
  <2>2. ASSUME NEW ids, factory' = RemoveSessions(c.factory, ids)
        PROVE  WellFormed(factory') /\ KeepsPartOf(factory', c.factory)
    BY <1>3, <2>2, RemovalKeepsPart
  <2>. QED  BY <2>1, <2>2
<1>5. c.key \in Keys /\ c.db \in Instances
  BY <1>1, <1>2, ContextBinding DEF GoodContext
<1>6. requests \in [Requests -> Bindings \cup {Idle}] /\ rows \in [Instances -> SUBSET Keys]
  BY DEF IsolationInv, TypeOK
<1>7. requests' \in [Requests -> Bindings \cup {Idle}] /\ rows' \in [Instances -> SUBSET Keys]
  BY <1>2, <1>5, <1>6
<1>8. ipSessionMap' \in UNION {[S -> Keys] : S \in SUBSET IPs}
  BY NoMappings DEF IsolationInv, TypeOK
<1>9. TypeOK'
  BY <1>2, <1>4, <1>7, <1>8 DEF IsolationInv, TypeOK, WellFormed
<1>10. \A q \in Requests : requests'[q] \in {Idle, requests[q], [key |-> c.key, db |-> c.db]}
  BY <1>2, <1>6
<1>11. \A i \in Instances : \A k \in rows'[i] : k \in rows[i] \/ (k = c.key /\ i = c.db)
  BY <1>5, <1>6
<1>. QED  BY <1>1, <1>2, <1>4, <1>9, <1>10, <1>11, ContextStep

LEMMA HandleStep ==
  ASSUME IsolationInv, NEW r \in Requests, Handle(r)
  PROVE  IsolationInv'
<1>1. PICK c \in Contexts(r) :
        \/ Save(r, c)
        \/ DeleteAll(r, c)
        \/ Read(r, c)
        \/ \E key \in Keys : DeleteSession(r, c, key)
        \/ CleanupSessions(r, c)
        \/ ClearIPSessionMappings(r, c)
  BY DEF Handle
<1>2. requests[r] # Idle
  BY DEF Handle
<1>3. CASE Save(r, c)
  BY <1>2, <1>3, HandlerStep DEF Save
<1>4. CASE DeleteAll(r, c)
  BY <1>2, <1>4, HandlerStep DEF DeleteAll
<1>5. CASE Read(r, c)
  BY <1>2, <1>5, HandlerStep DEF Read
<1>6. CASE \E key \in Keys : DeleteSession(r, c, key)
  BY <1>2, <1>6, HandlerStep DEF DeleteSession, RemoveSession
<1>7. CASE CleanupSessions(r, c)
  BY <1>2, <1>7, HandlerStep DEF CleanupSessions, CleanupExpiredSessions
<1>8. CASE ClearIPSessionMappings(r, c)
  BY <1>2, <1>8, HandlerStep DEF ClearIPSessionMappings
<1>. QED  BY <1>1, <1>3, <1>4, <1>5, <1>6, <1>7, <1>8

\* Steps that change neither the factory nor the rows, and bind no request.
LEMMA QuietStep ==
  ASSUME IsolationInv, TypeOK', factory' = factory, rows' = rows,
         \A q \in Requests : requests'[q] \in {Idle, requests[q]}
  PROVE  IsolationInv'
<1>1. \A i \in Instances : \A s \in Holders(i)' : s \in Holders(i)
  BY DEF Holders, ActiveSessions
<1>2. Isolation' /\ NoEarlyHolders'
  BY <1>1 DEF IsolationInv, Isolation, NoEarlyHolders
<1>. QED
  BY <1>2 DEF IsolationInv, MapsInStep, DatabasesNumbered, ActiveSessions

LEMMA IsolationNext ==
  IsolationInv /\ [Next]_vars => IsolationInv'
<1> SUFFICES ASSUME IsolationInv, [Next]_vars PROVE IsolationInv'
  OBVIOUS
<1>1. ASSUME NEW r \in Requests, Arrive(r) PROVE IsolationInv'
  BY <1>1, ArriveStep
<1>2. ASSUME NEW r \in Requests, Handle(r) PROVE IsolationInv'
  BY <1>2, HandleStep
<1>3. ASSUME NEW r \in Requests, Abandon(r) PROVE IsolationInv'
  <2>1. TypeOK' /\ \A q \in Requests : requests'[q] \in {Idle, requests[q]}
    BY <1>3 DEF Abandon, IsolationInv, TypeOK
  <2>. QED  BY <1>3, <2>1, QuietStep DEF Abandon
<1>4. CASE Tick
  <2>1. TypeOK'
    BY <1>4, Bounds DEF Tick, IsolationInv, TypeOK
  <2>. QED  BY <1>4, <2>1, QuietStep DEF Tick
<1>5. CASE UNCHANGED vars
  <2>1. TypeOK'
    BY <1>5 DEF vars, IsolationInv, TypeOK
  <2>. QED  BY <1>5, <2>1, QuietStep DEF vars
<1>. QED  BY <1>1, <1>2, <1>3, <1>4, <1>5 DEF Next

-----------------------------------------------------------------------------
(* Theorems *)

\* The invariant that the others follow from: databases are numbered, a number not
\* given out has no holder, and the holders of a database are of one session.
THEOREM IsolationInvariant == Spec => []IsolationInv
  BY IsolationInit, IsolationNext, PTL DEF Spec

\* Every variable keeps its type, whatever the interleaving.
THEOREM TypeCorrect == Spec => []TypeOK
<1>1. IsolationInv => TypeOK
  BY DEF IsolationInv
<1>. QED  BY <1>1, IsolationInvariant, PTL

\* The two Maps of DatabaseFactory always hold the same sessions.
THEOREM MapsStayInStep == Spec => []MapsInStep
<1>1. IsolationInv => MapsInStep
  BY DEF IsolationInv
<1>. QED  BY <1>1, IsolationInvariant, PTL

\* No database of getDatabase ever serves or stores rows of two sessions.
THEOREM SessionsAreIsolated == Spec => []Isolation
<1>1. IsolationInv => Isolation
  BY DEF IsolationInv
<1>. QED  BY <1>1, IsolationInvariant, PTL

\* A step serves one session with getDatabase at most, and forgets some.
\* g is what getDatabase leaves before any session is removed.
Visited(g) == g = factory \/ \E key \in Keys : g = GetDatabase(factory, key, now)

Pruned(h, g) == h = g \/ \E ids : h = RemoveSessions(g, ids)

LEMMA FactoryStep ==
  ASSUME IsolationInv, [Next]_vars
  PROVE  \E g : Visited(g) /\ Pruned(factory', g)
<1>1. ASSUME NEW r \in Requests, Arrive(r)
      PROVE  \E key \in Keys : factory' = GetDatabase(factory, key, now)
  <2>1. PICK carried \in Keys \cup {NoKey}, ip \in IPs : Bind(r, ExtractSessionKey(carried, ip))
    BY <1>1 DEF Arrive
  <2>2. ExtractSessionKey(carried, ip) \in Keys
    BY ExtractedKey DEF IsolationInv
  <2>. QED  BY <2>1, <2>2 DEF Bind
<1>2. ASSUME NEW r \in Requests, Handle(r)
      PROVE  \E c \in Contexts(r) : Pruned(factory', c.factory)
  BY <1>2 DEF Pruned, Handle, Save, DeleteAll, Read, DeleteSession, RemoveSession,
              CleanupSessions, CleanupExpiredSessions, ClearIPSessionMappings
<1>3. ASSUME NEW r \in Requests, NEW c \in Contexts(r)
      PROVE  Visited(c.factory)
  <2>1. Users \subseteq Keys
    BY IsolationAssumption, Zenon
  <2>. QED  BY <1>3, <2>1 DEF Contexts, Visited
<1>4. ASSUME NEW r \in Requests, Abandon(r) PROVE factory' = factory
  BY <1>4 DEF Abandon
<1>5. Tick \/ UNCHANGED vars => factory' = factory
  BY DEF Tick, vars
<1>. QED  BY <1>1, <1>2, <1>3, <1>4, <1>5 DEF Next, Visited, Pruned

LEMMA ServingStep ==
  ASSUME IsolationInv, [Next]_vars, NEW i \in Instances, i <= factory.created,
         i \in Serving(factory')
  PROVE  i \in Serving(factory)
<1>1. PICK g : Visited(g) /\ Pruned(factory', g)
  BY FactoryStep
<1>2. WellFormed(factory) /\ factory.created \in Nat /\ now \in Nat
  BY InvWellFormed, InvBounds
<1>3. WellFormed(g) /\ (g = factory \/ \E key \in Keys : Serves(g, factory, Normalize[key]))
  BY <1>1, <1>2, GetDatabaseServes DEF Visited
<1>4. KeepsPartOf(factory', g)
  <2>1. CASE factory' = g
    BY <2>1 DEF KeepsPartOf
  <2>2. ASSUME NEW ids, factory' = RemoveSessions(g, ids) PROVE KeepsPartOf(factory', g)
    BY <1>3, <2>2, RemovalKeepsPart
  <2>. QED  BY <1>1, <2>1, <2>2 DEF Pruned
<1>5. PICK s \in DOMAIN g.databases : g.databases[s] = i
  BY <1>4 DEF Serving, ActiveSessions, KeepsPartOf
<1>6. s \in DOMAIN factory.databases /\ factory.databases[s] = i
  BY <1>2, <1>3, <1>5 DEF Serves, Instances
<1>. QED  BY <1>6 DEF Serving, ActiveSessions

\* Once out of the factory, a database never serves a session again: rows saved
\* in it by a request that was late are lost for good.
THEOREM DatabasesStayRetired == Spec => DatabasesNeverReturn
<1>1. IsolationInv /\ [Next]_vars
        => \A i \in Instances :
             i <= factory.created /\ i \in Serving(factory') => i \in Serving(factory)
  BY ServingStep
<1>. QED  BY <1>1, IsolationInvariant, PTL DEF Spec, DatabasesNeverReturn

-----------------------------------------------------------------------------
(* What follows needs besides IsolationInv that no session was last used in    *)
(* the future.                                                                 *)

LEMMA StampsStep ==
  ASSUME IsolationInv, StampsPast(factory, now), [Next]_vars
  PROVE  StampsPast(factory, now)'
<1>1. PICK g : Visited(g) /\ Pruned(factory', g)
  BY FactoryStep
<1>2. WellFormed(factory) /\ now \in Nat
  BY InvWellFormed, InvBounds
<1>3. StampsPast(g, now)
  <2>1. ASSUME NEW key \in Keys, g = GetDatabase(factory, key, now)
        PROVE  StampsPast(g, now)
    BY <1>2, <2>1, GetDatabaseStamps DEF StampsPast
  <2>. QED  BY <1>1, <2>1 DEF Visited
<1>4. KeepsStampsOf(factory', g)
  BY <1>1, RemovalKeepsStamps DEF Pruned, KeepsStampsOf
<1>5. now' \in Nat /\ now' >= now
  <2>1. ASSUME NEW r \in Requests, Handle(r) PROVE now' = now
    BY <2>1 DEF Handle, Save, DeleteAll, Read, DeleteSession, CleanupSessions,
                ClearIPSessionMappings, Respond
  <2>. QED  BY <1>2, <2>1 DEF Next, Tick, Arrive, Abandon, vars
<1>6. IsolationInv'
  BY IsolationNext
<1>7. \A s \in DOMAIN factory'.sessionTimestamps : factory'.sessionTimestamps[s] \in Nat
  BY <1>6 DEF IsolationInv, TypeOK, IsFactory, IsMap
<1>8. \A s \in DOMAIN factory'.sessionTimestamps : factory'.sessionTimestamps[s] <= now
  BY <1>3, <1>4 DEF StampsPast, KeepsStampsOf
<1>9. \A s \in DOMAIN factory'.sessionTimestamps : factory'.sessionTimestamps[s] <= now'
  BY <1>2, <1>5, <1>7, <1>8
<1>. QED  BY <1>9 DEF StampsPast

TimedInv == IsolationInv /\ StampsPast(factory, now)

LEMMA TimedInvariant == Spec => []TimedInv
<1>1. Init => TimedInv
  <2>1. Init => DOMAIN factory.sessionTimestamps = {}
    BY EmptyMap DEF Init, NoSessions
  <2>. QED  BY <2>1, IsolationInit DEF TimedInv, StampsPast
<1>2. TimedInv /\ [Next]_vars => TimedInv'
  BY IsolationNext, StampsStep DEF TimedInv
<1>. QED  BY <1>1, <1>2, PTL DEF Spec

-----------------------------------------------------------------------------
(* The life of a session *)

LEMMA OverflowStep ==
  ASSUME TimedInv, [Next]_vars,
         Size(factory') > MaxSessions, Size(factory') > Size(factory)
  PROVE  \A s \in ActiveSessions(factory) \cap ActiveSessions(factory') :
           factory.sessionTimestamps[s] = now
<1>1. PICK g : Visited(g) /\ Pruned(factory', g)
  BY FactoryStep DEF TimedInv
<1>2. PICK h : h = factory'
  OBVIOUS
<1>3. WellFormed(factory) /\ now \in Nat /\ StampsPast(factory, now)
  BY InvWellFormed, InvBounds DEF TimedInv
<1>4. WellFormed(g)
  BY <1>1, <1>3, GetDatabaseServes DEF Visited
<1>5. DOMAIN h.databases \subseteq DOMAIN g.databases
  BY <1>1, <1>2, <1>4, RemovalKeepsPart DEF Pruned
<1>6. Size(h) \in Nat /\ Size(h) <= Size(g) /\ Size(g) \in Nat /\ Size(factory) \in Nat
  BY <1>3, <1>4, <1>5, SmallerFactory, FiniteFactory
<1>7. MaxSessions \in Nat
  BY SessionsAssumption, Zenon
<1>8. Size(h) > MaxSessions /\ Size(h) > Size(factory)
  BY <1>2
<1>9. Size(g) > MaxSessions /\ Size(g) > Size(factory)
  BY <1>6, <1>7, <1>8
<1>10. PICK key \in Keys : g = GetDatabase(factory, key, now)
  BY <1>1, <1>6, <1>9 DEF Visited
<1>11. \A s \in DOMAIN factory.databases \cap DOMAIN g.databases :
         factory.sessionTimestamps[s] = now
  BY <1>3, <1>9, <1>10, GetDatabaseGrows
<1>. QED  BY <1>2, <1>5, <1>11 DEF ActiveSessions

\* The factory grows past its limit only while everybody it keeps was served in
\* this very millisecond, for every limit, timeout and set of keys.
THEOREM GrowsWithinAMillisecond == Spec => OverflowOnlyWithinAMillisecond
<1>1. TimedInv /\ [Next]_vars
        => (Size(factory') > MaxSessions /\ Size(factory') > Size(factory)
              => \A s \in ActiveSessions(factory) \cap ActiveSessions(factory') :
                   factory.sessionTimestamps[s] = now)
  BY OverflowStep
<1>. QED  BY <1>1, TimedInvariant, PTL DEF Spec, OverflowOnlyWithinAMillisecond

\* Only the middleware binds a request.
LEMMA BindingStep ==
  ASSUME IsolationInv, [Next]_vars, NEW r \in Requests,
         requests[r] = Idle, requests'[r] # Idle
  PROVE  \E key \in Keys :
           LET f == GetDatabase(factory, key, now)
           IN  requests'[r] = [key |-> key, db |-> DatabaseOf(f, key)]
<1>1. requests \in [Requests -> Bindings \cup {Idle}]
  BY DEF IsolationInv, TypeOK
<1>2. ASSUME NEW q \in Requests, Handle(q) PROVE FALSE
  <2>1. requests' = [requests EXCEPT ![q] = Idle]
    BY <1>2 DEF Handle, Save, DeleteAll, Read, DeleteSession, CleanupSessions,
                ClearIPSessionMappings, Respond
  <2>. QED  BY <1>1, <2>1
<1>3. ASSUME NEW q \in Requests, Abandon(q) PROVE FALSE
  BY <1>1, <1>3 DEF Abandon
<1>4. ~Tick /\ ~(UNCHANGED vars)
  BY DEF Tick, vars
<1>5. PICK q \in Requests : Arrive(q)
  BY <1>2, <1>3, <1>4 DEF Next
<1>6. PICK carried \in Keys \cup {NoKey}, ip \in IPs : Bind(q, ExtractSessionKey(carried, ip))
  BY <1>5 DEF Arrive
<1>7. PICK key \in Keys : key = ExtractSessionKey(carried, ip)
  BY ExtractedKey DEF IsolationInv
<1>8. requests' = [requests EXCEPT ![q] =
                     [key |-> key, db |-> DatabaseOf(GetDatabase(factory, key, now), key)]]
  BY <1>6, <1>7 DEF Bind
<1>9. q = r
  BY <1>1, <1>8
<1>. QED  BY <1>1, <1>8, <1>9

LEMMA IdleStep ==
  ASSUME IsolationInv, [Next]_vars, NEW r \in Requests,
         requests[r] = Idle, requests'[r] # Idle, requests'[r].db <= factory.created
  PROVE  LET s == Normalize[requests'[r].key]
         IN  /\ s \in DOMAIN factory.sessionTimestamps
             /\ now - factory.sessionTimestamps[s] < SessionTimeout
<1>1. PICK key \in Keys :
        requests'[r] = [key |-> key, db |-> DatabaseOf(GetDatabase(factory, key, now), key)]
  BY BindingStep
<1>2. WellFormed(factory) /\ factory.created \in Nat /\ now \in Nat
  BY InvWellFormed, InvBounds
<1>3. requests'[r].key = key
      /\ requests'[r].db = GetDatabase(factory, key, now).databases[Normalize[key]]
  BY <1>1 DEF DatabaseOf
<1>4. CASE Unexpired(factory, Normalize[key], now)
  BY <1>2, <1>3, <1>4 DEF Unexpired, WellFormed
<1>5. CASE ~Unexpired(factory, Normalize[key], now)
  <2>1. Roomy(factory, key, now).created = factory.created
    BY <1>2, RoomyCases
  <2>2. GetDatabase(factory, key, now).databases[Normalize[key]]
          = Roomy(factory, key, now).created + 1
    BY <1>2, <1>5, GetDatabaseCases
  <2>3. requests'[r].db = factory.created + 1
    BY <1>3, <2>1, <2>2
  <2>. QED  BY <1>2, <2>3
<1>. QED  BY <1>4, <1>5

\* Rows of an earlier request reach a later one only in a session that was used
\* within the timeout.
THEOREM IdleSessionsAreNew == Spec => IdleSessionsStartEmpty
<1>1. IsolationInv /\ [Next]_vars
        => \A r \in Requests :
             requests[r] = Idle /\ requests'[r] # Idle /\ requests'[r].db <= factory.created
               => LET s == Normalize[requests'[r].key]
                  IN  /\ s \in DOMAIN factory.sessionTimestamps
                      /\ now - factory.sessionTimestamps[s] < SessionTimeout
  BY IdleStep
<1>. QED  BY <1>1, IsolationInvariant, PTL DEF Spec, IdleSessionsStartEmpty

\* What a handler does not drop itself was dropped by the getDatabase before it.
LEMMA ContextDrops ==
  ASSUME IsolationInv, NEW r \in Requests, NEW c \in Contexts(r),
         NEW s \in DOMAIN factory.databases, s \notin DOMAIN c.factory.databases
  PROVE  GoesForAReason(factory, s, now)
<1>1. WellFormed(factory) /\ now \in Nat
  BY InvWellFormed, InvBounds
<1>2. Users \subseteq Keys
  BY IsolationAssumption, Zenon
<1>3. c.factory = factory \/ \E u \in Users : c.factory = GetDatabase(factory, u, now)
  BY DEF Contexts
<1>. QED  BY <1>1, <1>2, <1>3, GetDatabaseDrops

\* Cleaning up drops what is idle: a session just served by the context is not.
LEMMA ContextCleans ==
  ASSUME IsolationInv, NEW r \in Requests, NEW c \in Contexts(r),
         NEW s \in DOMAIN c.factory.databases, s \in ExpiredSessions(c.factory, now)
  PROVE  GoesForAReason(factory, s, now)
<1>1. WellFormed(factory) /\ now \in Nat
  BY InvWellFormed, InvBounds
<1>2. Users \subseteq Keys
  BY IsolationAssumption, Zenon
<1>3. SessionTimeout \in Nat
  BY SessionsAssumption, Zenon
<1>4. /\ s \in DOMAIN c.factory.sessionTimestamps
      /\ now - c.factory.sessionTimestamps[s] > SessionTimeout
  BY DEF ExpiredSessions
<1>5. \A x \in DOMAIN factory.sessionTimestamps : factory.sessionTimestamps[x] \in Nat
  BY <1>1 DEF WellFormed, IsFactory, IsMap
<1>6. CASE c.factory = factory
  BY <1>1, <1>3, <1>4, <1>5, <1>6 DEF GoesForAReason
<1>7. ASSUME NEW u \in Users, c.factory = GetDatabase(factory, u, now)
      PROVE  GoesForAReason(factory, s, now)
  <2>1. \/ c.factory.sessionTimestamps[s] = now
        \/ /\ s \in DOMAIN factory.sessionTimestamps
           /\ c.factory.sessionTimestamps[s] = factory.sessionTimestamps[s]
    BY <1>1, <1>2, <1>4, <1>7, GetDatabaseStamps
  <2>. QED  BY <1>1, <1>3, <1>4, <1>5, <2>1 DEF GoesForAReason
<1>8. c.factory = factory \/ \E u \in Users : c.factory = GetDatabase(factory, u, now)
  BY DEF Contexts
<1>. QED  BY <1>6, <1>7, <1>8

LEMMA HandleDrops ==
  ASSUME IsolationInv, NEW r \in Requests, Handle(r),
         NEW s \in ActiveSessions(factory), s \notin ActiveSessions(factory')
  PROVE  GoesForAReason(factory, s, now) \/ Deleted(s)
<1>1. PICK c \in Contexts(r) :
        \/ Save(r, c)
        \/ DeleteAll(r, c)
        \/ Read(r, c)
        \/ \E key \in Keys : DeleteSession(r, c, key)
        \/ CleanupSessions(r, c)
        \/ ClearIPSessionMappings(r, c)
  BY DEF Handle
<1>2. requests[r] # Idle /\ s \in DOMAIN factory.databases /\ s \notin DOMAIN factory'.databases
  BY DEF Handle, ActiveSessions
<1>3. CASE s \notin DOMAIN c.factory.databases
  BY <1>2, <1>3, ContextDrops
<1>4. CASE s \in DOMAIN c.factory.databases
  <2>1. factory' # c.factory
    BY <1>2, <1>4
  <2>2. CASE \E key \in Keys : DeleteSession(r, c, key)
    <3>1. PICK key \in Keys : DeleteSession(r, c, key)
      BY <2>2
    <3>2. factory' = RemoveSessions(c.factory, {Normalize[key]})
      BY <3>1 DEF DeleteSession, RemoveSession
    <3>3. s = Normalize[key]
      BY <1>2, <1>4, <3>2 DEF RemoveSessions, Without
    <3>. QED  BY <1>2, <3>1, <3>3 DEF Deleted
  <2>3. CASE CleanupSessions(r, c)
    <3>1. factory' = RemoveSessions(c.factory, ExpiredSessions(c.factory, now))
      BY <2>3 DEF CleanupSessions, CleanupExpiredSessions
    <3>2. s \in ExpiredSessions(c.factory, now)
      BY <1>2, <1>4, <3>1 DEF RemoveSessions, Without
    <3>. QED  BY <1>4, <3>2, ContextCleans
  <2>. QED  BY <1>1, <2>1, <2>2, <2>3 DEF Save, DeleteAll, Read, ClearIPSessionMappings
<1>. QED  BY <1>3, <1>4

LEMMA ReasonStep ==
  ASSUME IsolationInv, [Next]_vars,
         NEW s \in ActiveSessions(factory), s \notin ActiveSessions(factory')
  PROVE  GoesForAReason(factory, s, now) \/ Deleted(s)
<1>1. WellFormed(factory) /\ now \in Nat
  BY InvWellFormed, InvBounds
<1>2. ASSUME NEW r \in Requests, Arrive(r) PROVE GoesForAReason(factory, s, now)
  <2>1. PICK carried \in Keys \cup {NoKey}, ip \in IPs : Bind(r, ExtractSessionKey(carried, ip))
    BY <1>2 DEF Arrive
  <2>2. PICK key \in Keys : key = ExtractSessionKey(carried, ip)
    BY ExtractedKey DEF IsolationInv
  <2>3. factory' = GetDatabase(factory, key, now)
    BY <2>1, <2>2 DEF Bind
  <2>. QED  BY <1>1, <2>3, GetDatabaseDrops DEF ActiveSessions
<1>3. ASSUME NEW r \in Requests, Abandon(r) PROVE FALSE
  BY <1>3 DEF Abandon
<1>4. ~Tick /\ ~(UNCHANGED vars)
  BY DEF Tick, vars
<1>. QED  BY <1>2, <1>3, <1>4, HandleDrops DEF Next

\* Nobody loses a session but by its age, by the limit with at least as many
\* sessions used no earlier, or by a request to delete it.
THEOREM SessionsGoOnlyForAReason == Spec => SessionsGoForAReason
<1>1. ASSUME IsolationInv, [Next]_vars,
             NEW s \in ActiveSessions(factory) \ ActiveSessions(factory')
      PROVE  LET stamps == factory.sessionTimestamps IN
             \/ now - stamps[s] >= SessionTimeout
             \/ Cardinality({t \in DOMAIN stamps : stamps[t] >= stamps[s]}) >= MaxSessions
             \/ Deleted(s)
  BY <1>1, ReasonStep DEF GoesForAReason
<1>2. IsolationInv /\ [Next]_vars
        => \A s \in ActiveSessions(factory) \ ActiveSessions(factory') :
             LET stamps == factory.sessionTimestamps IN
             \/ now - stamps[s] >= SessionTimeout
             \/ Cardinality({t \in DOMAIN stamps : stamps[t] >= stamps[s]}) >= MaxSessions
             \/ Deleted(s)
  BY <1>1
<1>. QED  BY <1>2, IsolationInvariant, PTL DEF Spec, SessionsGoForAReason

=============================================================================
