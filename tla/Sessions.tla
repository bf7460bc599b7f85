------------------------------ MODULE Sessions ------------------------------
(***************************************************************************)
(* DatabaseFactory (src/src/db-factory.ts): one in-memory database per     *)
(* session, at most MaxSessions of them, each forgotten SessionTimeout     *)
(* milliseconds after its last use.                                        *)
(*                                                                         *)
(* A factory is a record.  Its two Maps are functions on the session ids   *)
(* they hold; a database is the number of the InMemoryDatabase in creation *)
(* order.  A Map is iterated in insertion order and getDatabase inserts a  *)
(* key only together with a new database, so the iteration order of both   *)
(* Maps is the order of the database numbers.                              *)
(*                                                                         *)
(* Every method is synchronous, so one call is one step of the event loop. *)
(* Its readings of Date.now() are taken to be one value, `now`.            *)
(***************************************************************************)
EXTENDS Naturals, FiniteSets

CONSTANTS
  Keys,            \* the session keys requests carry, and their normal forms
  Normalize,       \* normalizeSessionKey: characters outside [a-zA-Z0-9_-] become "_"
  MaxSessions,     \* config.maxSessions
  SessionTimeout   \* config.sessionTimeout, in ticks of the clock

ASSUME SessionsAssumption ==
  /\ IsFiniteSet(Keys)
  /\ Normalize \in [Keys -> Keys]
  /\ \A k \in Keys : Normalize[Normalize[k]] = Normalize[k]
  /\ MaxSessions \in Nat
  /\ SessionTimeout \in Nat

SessionIds == {Normalize[k] : k \in Keys}

\* The Maps of a factory are partial functions from session ids to numbers.
IsMap(m) == DOMAIN m \subseteq SessionIds /\ m \in [DOMAIN m -> Nat]

IsFactory(f) == IsMap(f.databases) /\ IsMap(f.sessionTimestamps) /\ f.created \in Nat

NoSessions == [databases |-> <<>>, sessionTimestamps |-> <<>>, created |-> 0]

ActiveSessions(f) == DOMAIN f.databases

Size(f) == Cardinality(ActiveSessions(f))

\* Map.set and Map.delete
Put(map, id, v) == [x \in DOMAIN map \cup {id} |-> IF x = id THEN v ELSE map[x]]
Without(map, ids) == [x \in DOMAIN map \ ids |-> map[x]]

-----------------------------------------------------------------------------
(* Plausible mistakes, one per definition they replace in a mutated model. *)

RemoveSessionsKeepingStamps(f, ids) ==
  [f EXCEPT !.databases = Without(@, ids)]

UnexpiredAtBoundary(f, id, now) ==
  id \in DOMAIN f.databases /\ now - f.sessionTimestamps[id] <= SessionTimeout

NewestSession(f, now) ==
  {s \in DOMAIN f.sessionTimestamps :
     \A t \in DOMAIN f.sessionTimestamps : f.databases[t] <= f.databases[s]}

MakeNoRoom(f, now) == f

\* Room is made before it is known whether the session needs a place.
GetDatabaseMakingRoom(f, key, now) ==
  LET id == Normalize[key]
      old == {s \in DOMAIN f.databases \ {id} : now > f.sessionTimestamps[s]}
      g == IF Cardinality(DOMAIN f.databases) >= MaxSessions
           THEN [f EXCEPT !.databases = Without(@, old), !.sessionTimestamps = Without(@, old)]
           ELSE f
  IN  IF id \in DOMAIN g.databases /\ now - g.sessionTimestamps[id] < SessionTimeout
      THEN [g EXCEPT !.sessionTimestamps = Put(@, id, now)]
      ELSE [databases         |-> Put(g.databases, id, g.created + 1),
            sessionTimestamps |-> Put(g.sessionTimestamps, id, now),
            created           |-> g.created + 1]

-----------------------------------------------------------------------------

\* removeSession, for each session of a set (the ids are normal forms already)
RemoveSessions(f, ids) ==
  [databases         |-> Without(f.databases, ids),
   sessionTimestamps |-> Without(f.sessionTimestamps, ids),
   created           |-> f.created]

RemoveSession(f, key) == RemoveSessions(f, {Normalize[key]})

\* The test of getDatabase; cleanupExpiredSessions has its own, which differs
\* from it when exactly SessionTimeout has passed.
Unexpired(f, id, now) ==
  id \in DOMAIN f.databases /\ now - f.sessionTimestamps[id] < SessionTimeout

ExpiredSessions(f, now) ==
  {s \in DOMAIN f.sessionTimestamps : now - f.sessionTimestamps[s] > SessionTimeout}

CleanupExpiredSessions(f, now) == RemoveSessions(f, ExpiredSessions(f, now))

\* getOldestSession, as the set of what it returns: empty for null.  The scan
\* starts from Date.now() and compares with <, so a session used in the current
\* millisecond is never the oldest, and of two equal stamps the first wins.
OldestSession(f, now) ==
  LET older == {s \in DOMAIN f.sessionTimestamps : f.sessionTimestamps[s] < now}
  IN  {s \in older :
         \A t \in older : \/ f.sessionTimestamps[s] < f.sessionTimestamps[t]
                          \/ /\ f.sessionTimestamps[s] = f.sessionTimestamps[t]
                             /\ f.databases[s] <= f.databases[t]}

EvictOldest(f, now) ==
  IF Size(f) >= MaxSessions THEN RemoveSessions(f, OldestSession(f, now)) ELSE f

MakeRoom(f, now) ==
  IF Size(f) >= MaxSessions
  THEN EvictOldest(CleanupExpiredSessions(f, now), now)
  ELSE f

TouchSession(f, id, now) ==
  [databases         |-> f.databases,
   sessionTimestamps |-> Put(f.sessionTimestamps, id, now),
   created           |-> f.created]

CreateSession(f, id, now) ==
  [databases         |-> Put(f.databases, id, f.created + 1),
   sessionTimestamps |-> Put(f.sessionTimestamps, id, now),
   created           |-> f.created + 1]

\* The factory after getDatabase(key); the call returns DatabaseOf of it.
GetDatabase(f, key, now) ==
  LET id == Normalize[key]
  IN  IF Unexpired(f, id, now)
      THEN TouchSession(f, id, now)
      ELSE CreateSession(MakeRoom(RemoveSession(f, key), now), id, now)

DatabaseOf(f, key) == f.databases[Normalize[key]]

=============================================================================
