-------------------------- MODULE SessionIsolation --------------------------
(***************************************************************************)
(* Requests over the session databases: SessionDatabaseMiddleware          *)
(* (src/src/middleware/session-database.ts) gives a request the database   *)
(* of its session, the request then waits (express.static looks for a      *)
(* file, express.json reads the body), and only later does a handler of    *)
(* CMSRoute read or write the database the request holds.  In between      *)
(* other requests, the clock and the session routes change the factory.    *)
(***************************************************************************)
EXTENDS Sessions

CONSTANTS
  Requests,               \* slots for the requests in flight
  IPs,                    \* client addresses
  IPSessionKey,           \* generateIPSessionKey: prefix and hash of an address
  DefaultSession,         \* options.defaultSession
  EnableSessionIsolation, \* options.enableSessionIsolation
  AutoMapSessionByIP,     \* options.autoMapSessionByIP
  Users,                  \* ids of the registered users
  MaxTime,                \* bound of the clock
  MaxInstances            \* bound of the databases ever created

ASSUME IsolationAssumption ==
  /\ "no key" \notin Keys
  /\ IPSessionKey \in [IPs -> Keys]
  /\ DefaultSession \in Keys
  /\ EnableSessionIsolation \in BOOLEAN
  /\ AutoMapSessionByIP \in BOOLEAN
  /\ Users \subseteq Keys
  /\ MaxTime \in Nat \ {0}
  /\ MaxInstances \in Nat

Instances == 1 .. MaxInstances
NoKey == "no key"
Idle == [key |-> NoKey, db |-> 0]

VARIABLES
  now,           \* Date.now()
  authMode,      \* AUTH_MODE, read from the environment at start
  factory,       \* the DatabaseFactory
  ipSessionMap,  \* addresses seen, each with its session key
  requests,      \* what each request in flight holds: req.sessionKey and req.sessionDatabase
  rows           \* for each database, the session keys whose requests saved rows in it

vars == <<now, authMode, factory, ipSessionMap, requests, rows>>

Bindings == [key : Keys, db : Instances]

TypeOK ==
  /\ now \in 1 .. MaxTime
  /\ authMode \in {"full", "prototype"}
  /\ IsFactory(factory)
  /\ ipSessionMap \in UNION {[S -> Keys] : S \in SUBSET IPs}
  /\ requests \in [Requests -> Bindings \cup {Idle}]
  /\ rows \in [Instances -> SUBSET Keys]

Init ==
  /\ now = 1
  /\ authMode \in {"full", "prototype"}
  /\ factory = NoSessions
  /\ ipSessionMap = <<>>
  /\ requests = [r \in Requests |-> Idle]
  /\ rows = [i \in Instances |-> {}]

-----------------------------------------------------------------------------

MappedByIP(carried) == EnableSessionIsolation /\ carried = NoKey /\ AutoMapSessionByIP

\* `carried` stands for the first key found in the header, the query and the
\* cookies, NoKey when there is none.
ExtractSessionKey(carried, ip) ==
  CASE ~EnableSessionIsolation -> DefaultSession
    [] EnableSessionIsolation /\ carried # NoKey -> carried
    [] MappedByIP(carried) /\ ip \in DOMAIN ipSessionMap -> ipSessionMap[ip]
    [] MappedByIP(carried) /\ ip \notin DOMAIN ipSessionMap -> IPSessionKey[ip]
    [] OTHER -> DefaultSession

(* Plausible mistakes, one per definition they replace in a mutated model. *)

MapIPToCarried(carried, ip) ==
  ipSessionMap' = IF MappedByIP(carried)
                  THEN [a \in DOMAIN ipSessionMap \cup {ip} |->
                          IF a = ip THEN carried ELSE ipSessionMap[a]]
                  ELSE ipSessionMap

\* The middleware keeps the first database and hands it to everybody.
BindToFirst(r, key) ==
  LET f == GetDatabase(factory, key, now) IN
  /\ f.created <= MaxInstances
  /\ factory' = [f EXCEPT !.databases = Put(@, Normalize[key], 1)]
  /\ requests' = [requests EXCEPT ![r] = [key |-> key, db |-> 1]]

-----------------------------------------------------------------------------

MapIP(carried, ip) ==
  ipSessionMap' = IF MappedByIP(carried) /\ ip \notin DOMAIN ipSessionMap
                  THEN [a \in DOMAIN ipSessionMap \cup {ip} |->
                          IF a = ip THEN IPSessionKey[ip] ELSE ipSessionMap[a]]
                  ELSE ipSessionMap

Bind(r, key) ==
  LET f == GetDatabase(factory, key, now) IN
  /\ f.created <= MaxInstances
  /\ factory' = f
  /\ requests' = [requests EXCEPT ![r] = [key |-> key, db |-> DatabaseOf(f, key)]]

\* The session middleware.
Arrive(r) ==
  /\ requests[r] = Idle
  /\ \E carried \in Keys \cup {NoKey}, ip \in IPs :
       /\ Bind(r, ExtractSessionKey(carried, ip))
       /\ MapIP(carried, ip)
  /\ UNCHANGED <<now, authMode, rows>>

-----------------------------------------------------------------------------
(* The handlers.  Each answers the request and frees its slot. *)

\* What createAuthModeMiddleware leaves a handler with: under full
\* authentication the session of the user the token names, with no suspension
\* between this getDatabase and the handler; otherwise what the session
\* middleware bound when the request arrived.
Contexts(r) ==
  IF authMode = "full"
  THEN {LET f == GetDatabase(factory, u, now)
        IN  [factory |-> f, key |-> u, db |-> DatabaseOf(f, u)] : u \in Users}
  ELSE {[factory |-> factory, key |-> requests[r].key, db |-> requests[r].db]}

Respond(r, c) ==
  /\ c.factory.created <= MaxInstances
  /\ requests' = [requests EXCEPT ![r] = Idle]
  /\ UNCHANGED <<now, authMode>>

\* CMSRoute.save
Save(r, c) ==
  /\ Respond(r, c)
  /\ factory' = c.factory
  /\ rows' = [rows EXCEPT ![c.db] = @ \cup {c.key}]
  /\ UNCHANGED ipSessionMap

\* CMSRoute.deleteAll
DeleteAll(r, c) ==
  /\ Respond(r, c)
  /\ factory' = c.factory
  /\ rows' = [rows EXCEPT ![c.db] = {}]
  /\ UNCHANGED ipSessionMap

\* CMSRoute.listAll and the other reads
Read(r, c) ==
  /\ Respond(r, c)
  /\ factory' = c.factory
  /\ UNCHANGED <<ipSessionMap, rows>>

\* DELETE /sessions/:sessionKey
DeleteSession(r, c, key) ==
  /\ Respond(r, c)
  /\ factory' = RemoveSession(c.factory, key)
  /\ UNCHANGED <<ipSessionMap, rows>>

\* GET /sessions/cleanup
CleanupSessions(r, c) ==
  /\ Respond(r, c)
  /\ factory' = CleanupExpiredSessions(c.factory, now)
  /\ UNCHANGED <<ipSessionMap, rows>>

\* DELETE /sessions/ip-mappings
ClearIPSessionMappings(r, c) ==
  /\ Respond(r, c)
  /\ factory' = c.factory
  /\ ipSessionMap' = <<>>
  /\ UNCHANGED rows

\* A request that reaches no handler of a session: 401, a path outside
\* isScopedPath, or a client that went away.
Abandon(r) ==
  /\ requests[r] # Idle
  /\ requests' = [requests EXCEPT ![r] = Idle]
  /\ UNCHANGED <<now, authMode, factory, ipSessionMap, rows>>

Tick ==
  /\ now < MaxTime
  /\ now' = now + 1
  /\ UNCHANGED <<authMode, factory, ipSessionMap, requests, rows>>

Handle(r) ==
  /\ requests[r] # Idle
  /\ \E c \in Contexts(r) :
       \/ Save(r, c)
       \/ DeleteAll(r, c)
       \/ Read(r, c)
       \/ \E key \in Keys : DeleteSession(r, c, key)
       \/ CleanupSessions(r, c)
       \/ ClearIPSessionMappings(r, c)

Next == Tick \/ \E r \in Requests : Arrive(r) \/ Abandon(r) \/ Handle(r)

Spec == Init /\ [][Next]_vars

-----------------------------------------------------------------------------
(* Properties *)

\* The sessions that lead to database i: those the factory maps to it, those of
\* the requests that hold it, and those whose requests saved rows in it.
Holders(i) ==
  {s \in ActiveSessions(factory) : factory.databases[s] = i}
    \cup {Normalize[requests[r].key] :
            r \in {q \in Requests : requests[q] # Idle /\ requests[q].db = i}}
    \cup {Normalize[k] : k \in rows[i]}

\* Session isolation: whatever was removed, evicted, created again or is still
\* in flight, one database never serves two sessions.
Isolation == \A i \in Instances : \A s, t \in Holders(i) : s = t

\* The databases and their timestamps are two Maps changed one after the other:
\* a session is in both or in neither.
MapsInStep == DOMAIN factory.databases = DOMAIN factory.sessionTimestamps

Deleted(s) ==
  \E r \in Requests : /\ requests[r] # Idle
                     /\ \E c \in Contexts(r), key \in Keys :
                          Normalize[key] = s /\ DeleteSession(r, c, key)

\* Nobody loses a session early: one that goes was idle for SessionTimeout, was
\* deleted by a request, or at least MaxSessions sessions (itself among them)
\* were used no earlier than it was.
SessionsGoForAReason ==
  [][\A s \in ActiveSessions(factory) \ ActiveSessions(factory') :
       LET stamps == factory.sessionTimestamps IN
       \/ now - stamps[s] >= SessionTimeout
       \/ Cardinality({t \in DOMAIN stamps : stamps[t] >= stamps[s]}) >= MaxSessions
       \/ Deleted(s)]_vars

\* What is left of the limit when sessions are used within one millisecond: the
\* factory grows past MaxSessions only while every session it keeps was used
\* in the current millisecond.
OverflowOnlyWithinAMillisecond ==
  [][Size(factory') > MaxSessions /\ Size(factory') > Size(factory)
       => \A s \in ActiveSessions(factory) \cap ActiveSessions(factory') :
            factory.sessionTimestamps[s] = now]_vars

\* An arriving request gets the rows of an earlier one only if its session was
\* used less than SessionTimeout ago; otherwise its database is a new one.
IdleSessionsStartEmpty ==
  [][\A r \in Requests :
       requests[r] = Idle /\ requests'[r] # Idle /\ requests'[r].db <= factory.created
         => LET s == Normalize[requests'[r].key]
            IN  /\ s \in DOMAIN factory.sessionTimestamps
                /\ now - factory.sessionTimestamps[s] < SessionTimeout]_vars

Serving(f) == {f.databases[s] : s \in ActiveSessions(f)}

\* A database that was removed, evicted or expired never serves a session again:
\* the rows a late handler saves in it are gone for good.
DatabasesNeverReturn ==
  [][\A i \in Instances :
       i <= factory.created /\ i \in Serving(factory') => i \in Serving(factory)]_vars

\* Isolation made inductive: a number not given out yet has no holder.
NoEarlyHolders == \A i \in Instances : i > factory.created => Holders(i) = {}

DatabasesNumbered ==
  \A s \in ActiveSessions(factory) : factory.databases[s] \in 1 .. factory.created

IsolationInv ==
  /\ TypeOK
  /\ factory.created <= MaxInstances
  /\ MapsInStep
  /\ DatabasesNumbered
  /\ NoEarlyHolders
  /\ Isolation

=============================================================================
