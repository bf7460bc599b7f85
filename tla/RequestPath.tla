----------------------------- MODULE RequestPath -----------------------------
(***************************************************************************)
(* The path of a request through the server: which middlewares and routes  *)
(* a build mounts, in which order and under which environment              *)
(* (src/src/server.ts, src/src/server-prototype.ts and the route           *)
(* builders), and what each stage hands to the next.                       *)
(*                                                                         *)
(* One request at a time: what others do meanwhile to sessions, tasks and  *)
(* jobs is looked at in SessionIsolation, TaskLifecycle and TrackableJobs. *)
(* Inputs that a stage reads (address, body, token) are chosen by it.      *)
(***************************************************************************)
EXTENDS Naturals, Sequences, FiniteSetsExt, SequencesExt

CONSTANTS
  Environments,   \* the builds and environment variables looked at
  Addresses,      \* addresses of clients
  ListedIn,       \* ListedIn[env]: the addresses in ALLOWED_IPS
  LocalAddresses, \* the addresses of this machine
  Users,
  Admins,
  MaxJobs         \* bound of the jobs created

\* What the code tells apart: "true", "false" and anything else or nothing.
Setting == {"true", "false", "unset"}

Environment ==
  [build : {"server", "prototype"}, isolation : Setting, autoMap : Setting,
   authMode : {"full", "prototype"}, storage : {"prisma", "memory"},
   restriction : Setting, allowLocal : Setting]

Nobody == "nobody"

ASSUME PathAssumption ==
  /\ Environments \subseteq Environment
  /\ ListedIn \in [Environments -> SUBSET Addresses]
  /\ LocalAddresses \subseteq Addresses
  /\ Admins \subseteq Users /\ Nobody \notin Users
  /\ MaxJobs \in Nat

VARIABLES
  env,            \* the environment of this life of the server
  request,        \* the request under way, or the answer of the last one
  ipSessionMap,   \* the addresses that the session middleware has mapped
  jobs            \* the rows of the table Job: who owns them, who created them

vars == <<env, request, ipSessionMap, jobs>>

-----------------------------------------------------------------------------
(* features, and what the constructors make of them *)

IsolatesSessions == env.isolation = "true"
HasFactory == IsolatesSessions
HasTaskSystem == HasFactory
HasJobs == env.build = "server" /\ env.storage = "prisma"
FullAuthMode == env.authMode = "full"
AutoMapsIP == env.autoMap # "false"          \* the middleware's option
MountsIPMappings == env.autoMap = "true"     \* features.useAutoMapSessionByIP

-----------------------------------------------------------------------------
(* Routes.  `uses` names what the handler takes for granted of its request. *)

Route(method, path, handler, uses, guarded) ==
  [method |-> method, path |-> <<"api", "v1">> \o path, handler |-> handler,
   uses |-> uses, guarded |-> guarded]

Plain(method, path, handler) == Route(method, path, handler, {}, FALSE)

\* ControllerRoute.buildRoutes, the only one outside /api/v1.
PageRoutes == <<[Plain("GET", <<>>, "page") EXCEPT !.path = <<"hello">>]>>

APIRoutes ==
  << Plain("GET", <<"hello">>, "helloGet"),
     Plain("POST", <<"hello">>, "helloPost"),
     Plain("GET", <<"health">>, "health") >>

IPMappingRoutes ==
  << Plain("GET", <<"sessions", "ip-mappings">>, "getIPSessionStats"),
     Plain("DELETE", <<"sessions", "ip-mappings">>, "clearIPSessionMappings") >>

SessionRoutes ==
  << Plain("GET", <<"sessions", "stats">>, "getSessionStats"),
     Plain("GET", <<"sessions", "cleanup">>, "cleanupSessions"),
     Plain("DELETE", <<"sessions", ":sessionKey">>, "removeSession") >>

CMSRoutes ==
  << Plain("GET", <<"cms", ":name">>, "listAll"),
     Plain("GET", <<"cms", ":name", ":id">>, "getById"),
     Plain("GET", <<"cms", "reset", ":name">>, "reset"),
     Plain("GET", <<"cms", "reset-all">>, "resetAll"),
     Plain("DELETE", <<"cms", ":name", ":id">>, "deleteById"),
     Plain("DELETE", <<"cms", ":name">>, "delete"),
     Plain("DELETE", <<"cms">>, "deleteAll"),
     Route("POST", <<"cms", "save", ":name">>, "save", {"body"}, FALSE),
     Plain("POST", <<"cms", "find", ":name">>, "findFirstByExample"),
     Plain("POST", <<"cms", "find-all", ":name">>, "findAllByExample"),
     Plain("POST", <<"cms", "save-db">>, "saveDB"),
     Plain("POST", <<"cms", "load-db">>, "loadDB") >>

UserRoutes ==
  << Route("POST", <<"users", "register">>, "register", {"body", "container"}, FALSE),
     Route("POST", <<"users", "login">>, "login", {"body", "container"}, FALSE),
     Route("GET", <<"users", "config">>, "getConfig", {"user"}, TRUE),
     Route("PUT", <<"users", "config">>, "updateConfig", {"user", "container"}, TRUE) >>

JobRoutes ==
  << Route("POST", <<"jobs">>, "createJob", {"body", "user", "jobRepository"}, TRUE),
     Route("POST", <<"jobs", "start-dummy-job">>, "startDummyJob",
           {"body", "user", "jobRepository"}, TRUE),
     Route("GET", <<"jobs">>, "listJobs", {"user", "jobRepository"}, TRUE),
     Route("GET", <<"jobs", ":id">>, "getJob", {"user", "jobRepository"}, TRUE) >>

OfTasks(method, path, handler) == Route(method, path, handler, {"database"}, FALSE)

TaskRoutes ==
  << Route("POST", <<"tasks">>, "createTask", {"database", "body"}, FALSE),
     OfTasks("GET", <<"tasks">>, "listTasks"),
     OfTasks("GET", <<"tasks", "stats">>, "getTaskStats"),
     Plain("GET", <<"tasks", "cleanup", "status">>, "getCleanupStatus"),
     Plain("POST", <<"tasks", "cleanup", "run">>, "runCleanup"),
     OfTasks("GET", <<"tasks", ":id">>, "getTask"),
     OfTasks("POST", <<"tasks", ":id", "start">>, "startTask"),
     OfTasks("POST", <<"tasks", ":id", "cancel">>, "cancelTask"),
     OfTasks("POST", <<"tasks", ":id", "retry">>, "retryTask"),
     OfTasks("GET", <<"tasks", ":id", "status">>, "getTaskStatus") >>

DemoTask(kind, handler) ==
  Route("POST", <<"demo", "tasks", kind>>, handler, {"database", "body"}, FALSE)

DemoRoutes ==
  << DemoTask("sample", "createSampleTask"),
     DemoTask("file-processing", "createFileProcessingTask"),
     DemoTask("api-call", "createAPICallTask"),
     DemoTask("batch", "createBatchTask"),
     OfTasks("POST", <<"demo", "tasks", ":id", "execute">>, "executeTask"),
     OfTasks("GET", <<"demo", "tasks", ":id", "result">>, "getTaskResult") >>

If(mounted, routes) == IF mounted THEN routes ELSE <<>>

\* Plausible mistakes: the session routes come first; the tasks are mounted
\* whether or not there are session databases.
MappingsLast ==
  If(IsolatesSessions, SessionRoutes \o If(MountsIPMappings, IPMappingRoutes))
TasksAlways == TaskRoutes \o DemoRoutes

SessionTable ==
  If(IsolatesSessions, If(MountsIPMappings, IPMappingRoutes) \o SessionRoutes)
TaskTable == If(HasTaskSystem, TaskRoutes \o DemoRoutes)

\* `controller` and then `api`, in the order of their calls.
PrototypeTable ==
  PageRoutes \o APIRoutes \o SessionTable \o CMSRoutes \o UserRoutes \o TaskTable

ServerTable ==
  PageRoutes \o APIRoutes \o SessionTable \o CMSRoutes \o UserRoutes
    \o If(HasJobs, JobRoutes) \o TaskTable

Table == IF env.build = "prototype" THEN PrototypeTable ELSE ServerTable

\* Every route of any environment, for the requests to ask for.
AllRoutes ==
  PageRoutes \o APIRoutes \o IPMappingRoutes \o SessionRoutes \o CMSRoutes
    \o UserRoutes \o JobRoutes \o TaskRoutes \o DemoRoutes

Parameters == {":name", ":id", ":sessionKey"}

\* The routers compare words without regard to the case of letters
\* (express.Router() has no `caseSensitive`): the words in the path of a request
\* stand as the routes have them, and `capitals` says which of them the client
\* has spelt in other letters.
Matches(route, asked) ==
  /\ route.method = asked.method
  /\ Len(route.path) = Len(asked.path)
  /\ \A i \in DOMAIN route.path :
       route.path[i] \in Parameters \/ route.path[i] = asked.path[i]

\* Express takes the first route that matches; the handlers call no `next`.
Matching(asked) == {i \in DOMAIN Table : Matches(Table[i], asked)}
Answering(asked) == Table[Min(Matching(asked))]

\* The request that a route is there for, and the ways to spell it below
\* /api/v1.
OwnRequest(route) ==
  [method |-> route.method,
   path |-> [i \in DOMAIN route.path |-> IF route.path[i] \in Parameters THEN "x"
                                         ELSE route.path[i]],
   capitals |-> {}]

Spellings(route) ==
  {[OwnRequest(route) EXCEPT !.capitals = capitals] :
     capitals \in SUBSET {i \in DOMAIN route.path : i > 2 /\ route.path[i] \notin Parameters}}

NoRoute(path) == [method |-> "GET", path |-> <<"api", "v1">> \o path, capitals |-> {}]

Asked ==
  UNION {Spellings(AllRoutes[i]) : i \in DOMAIN AllRoutes}
    \cup {NoRoute(<<"jobs", "x", "y">>), NoRoute(<<"nothing">>)}

-----------------------------------------------------------------------------
(* Requests *)

\* A session key is what the client carried, made of its address, the default
\* one, or the id of a user; without the middleware there is none.
Key(kind, of) == [kind |-> kind, of |-> of]
NoKey == Key("none", "none")
Keys ==
  {NoKey, Key("carried", "k"), Key("default", "default")}
    \cup {Key("ip", a) : a \in Addresses} \cup {Key("user", u) : u \in Users}

\* `database` is the key whose database the request is bound to.
Request(stage, asked, key, database, user) ==
  [stage |-> stage, asked |-> asked, key |-> key, database |-> database, user |-> user,
   answer |-> 0]

NotAsked == [method |-> "none", path |-> <<>>, capitals |-> {}]
Answered(status) ==
  [Request("idle", NotAsked, NoKey, NoKey, Nobody) EXCEPT !.answer = status]

\* received: static files and the body are awaited; mode, guard: the user of the
\* token is looked for by the auth mode middleware or by the route's `authenticate`;
\* handling: the handler is about to run, in the same turn.
Stages == {"idle", "received", "mode", "guard", "handling"}
Answers == {0, 200, 201, 204, 400, 401, 403, 404, 500, 503}
Job == [owner : Users \cup {Nobody}, creator : Users]

TypeOK ==
  /\ env \in Environments
  /\ request \in [stage : Stages, asked : Asked \cup {NotAsked}, key : Keys,
                  database : Keys, user : Users \cup {Nobody}, answer : Answers]
  /\ ipSessionMap \subseteq Addresses
  /\ jobs \subseteq Job

Init ==
  /\ env \in Environments
  /\ request = Answered(0)
  /\ ipSessionMap = {}
  /\ jobs = {}

Answer(status) == request' = Answered(status)

-----------------------------------------------------------------------------
(* Server.config: addresses, then sessions, then the body *)

\* IPRestrictionMiddleware
Restricts == env.restriction # "false"
AllowsLocal == env.allowLocal # "false"
IsLocalAddress(address) == address \in LocalAddresses

Passes(address) ==
  Restricts => \/ address \in ListedIn[env]
               \/ AllowsLocal /\ IsLocalAddress(address)

\* SessionDatabaseMiddleware: the key of a request that carries one or none.
SessionKeys(address) ==
  {Key("carried", "k"),
   IF AutoMapsIP THEN Key("ip", address) ELSE Key("default", "default")}

Receive(asked, address) ==
  /\ request.stage = "idle"
  /\ IF HasFactory
     THEN \E key \in SessionKeys(address) :
            /\ request' = Request("received", asked, key, key, Nobody)
            /\ ipSessionMap' = IF key.kind = "ip" THEN ipSessionMap \cup {address}
                               ELSE ipSessionMap
     ELSE /\ request' = Request("received", asked, NoKey, NoKey, Nobody)
          /\ UNCHANGED ipSessionMap

\* Plausible mistake: the session middleware comes before the restriction.
ArriveSessionFirst(asked, address) ==
  /\ Receive(asked, address)
  /\ UNCHANGED <<env, jobs>>

Arrive(asked, address) ==
  /\ Passes(address)
  /\ Receive(asked, address)
  /\ UNCHANGED <<env, jobs>>

Refuse(address) ==
  /\ request.stage = "idle"
  /\ ~Passes(address)
  /\ Answer(403)
  /\ UNCHANGED <<env, ipSessionMap, jobs>>

\* A body that does not parse meets the error handler, which makes it a 404; a
\* preflight (OPTIONS) is answered by cors before.
EndEarly(status) ==
  /\ request.stage = "received"
  /\ status \in {204, 404}
  /\ Answer(status)
  /\ UNCHANGED <<env, ipSessionMap, jobs>>

-----------------------------------------------------------------------------
(* Server.api: the auth mode middleware, then the routes *)

ScopedPrefixes == {<<"cms">>, <<"sessions">>, <<"tasks">>, <<"demo", "tasks">>}

\* The first n words of the path below /api/v1 are in the letters of the routes.
SpeltAsMounted(asked, n) == asked.capitals \cap (3 .. n + 2) = {}

\* Plausible mistake: only what is below a prefix is scoped.
IsScopedBelow(asked) ==
  \E prefix \in ScopedPrefixes :
    /\ IsStrictPrefix(<<"api", "v1">> \o prefix, asked.path)
    /\ SpeltAsMounted(asked, Len(prefix))

\* Unlike the routers, this comparison is one of strings: a prefix in other
\* letters is none.
IsScopedPath(asked) ==
  \E prefix \in ScopedPrefixes :
    /\ IsPrefix(<<"api", "v1">> \o prefix, asked.path)
    /\ SpeltAsMounted(asked, Len(prefix))

NeedsTokenByMode(asked) == FullAuthMode /\ IsScopedPath(asked) /\ HasFactory

\* Plausible mistake: the routes forget to authenticate.
NeedsNoToken(asked) == FALSE

\* The job router authenticates before it looks at its routes.
NeedsTokenByRoute(asked) ==
  \/ HasJobs /\ IsPrefix(<<"api", "v1", "jobs">>, asked.path)
  \/ Matching(asked) # {} /\ Answering(asked).guarded

\* The request goes on to its route, if there is one.
Dispatch(bound) ==
  IF Matching(bound.asked) = {} THEN Answer(404)
  ELSE request' = [bound EXCEPT !.stage = "handling"]

\* `authenticate` is given no token.
HasNoToken ==
  /\ request.stage = "received"
  /\ NeedsTokenByMode(request.asked) \/ NeedsTokenByRoute(request.asked)
  /\ Answer(401)
  /\ UNCHANGED <<env, ipSessionMap, jobs>>

BodyRead ==
  /\ request.stage = "received"
  /\ IF NeedsTokenByMode(request.asked)
     THEN request' = [request EXCEPT !.stage = "mode"]
     ELSE IF NeedsTokenByRoute(request.asked)
     THEN request' = [request EXCEPT !.stage = "guard"]
     ELSE Dispatch(request)
  /\ UNCHANGED <<env, ipSessionMap, jobs>>

\* The token is of no user, expired, or cannot be looked up.
TokenRefused ==
  /\ request.stage \in {"mode", "guard"}
  /\ Answer(401)
  /\ UNCHANGED <<env, ipSessionMap, jobs>>

\* In full mode the session of the user takes the place of the one that the
\* request came with.
UserFound(user) ==
  /\ \/ /\ request.stage = "mode"
        /\ Dispatch([request EXCEPT !.user = user, !.key = Key("user", user),
                                    !.database = Key("user", user)])
     \/ /\ request.stage = "guard"
        /\ Dispatch([request EXCEPT !.user = user])
  /\ UNCHANGED <<env, ipSessionMap, jobs>>

-----------------------------------------------------------------------------
(* Handlers.  Only those of the mappings and of the jobs change state that is
   looked at here. *)

Handling(handlers) ==
  request.stage = "handling" /\ Answering(request.asked).handler \in handlers

IsAdmin(user) == user \in Admins

\* Handlers that take the body apart fail when there is none (Express 5 leaves
\* `req.body` undefined then).
HandlerFails ==
  /\ request.stage = "handling"
  /\ Answering(request.asked).uses \cap {"body", "jobRepository", "container"} # {}
  /\ Answer(500)
  /\ UNCHANGED <<env, ipSessionMap, jobs>>

HandleOther ==
  /\ request.stage = "handling"
  /\ ~Handling({"clearIPSessionMappings", "createJob", "startDummyJob", "getJob"})
  /\ Answer(200)
  /\ UNCHANGED <<env, ipSessionMap, jobs>>

ClearIPSessionMappings ==
  /\ Handling({"clearIPSessionMappings"})
  /\ ipSessionMap' = {}
  /\ Answer(200)
  /\ UNCHANGED <<env, jobs>>

Insert(owner) ==
  /\ Cardinality(jobs) < MaxJobs
  /\ jobs' = jobs \cup {[owner |-> owner, creator |-> request.user]}
  /\ Answer(201)

\* Plausible mistake: anybody may create a system job.
CreateSystemJobUnchecked ==
  /\ Handling({"createJob"})
  /\ Insert(Nobody)
  /\ UNCHANGED <<env, ipSessionMap>>

\* POST /jobs with `system: true`.
CreateSystemJob ==
  /\ Handling({"createJob"})
  /\ IF IsAdmin(request.user) THEN Insert(Nobody) ELSE Answer(403) /\ UNCHANGED jobs
  /\ UNCHANGED <<env, ipSessionMap>>

CreateJob ==
  /\ Handling({"createJob", "startDummyJob"})
  /\ Insert(request.user)
  /\ UNCHANGED <<env, ipSessionMap>>

NoJobType ==
  /\ Handling({"createJob"})
  /\ Answer(400)
  /\ UNCHANGED <<env, ipSessionMap, jobs>>

CanAccess(user, job) == job.owner = user \/ IsAdmin(user)

\* GET /jobs, before status, limit and offset choose among them.
Listed(user) == IF IsAdmin(user) THEN jobs ELSE {job \in jobs : job.owner = user}

GetJob ==
  /\ Handling({"getJob"})
  /\ \/ \E job \in jobs : Answer(IF CanAccess(request.user, job) THEN 200 ELSE 403)
     \/ Answer(404)
  /\ UNCHANGED <<env, ipSessionMap, jobs>>

Next ==
  \/ \E address \in Addresses :
       Refuse(address) \/ \E asked \in Asked : Arrive(asked, address)
  \/ \E status \in {204, 404} : EndEarly(status)
  \/ HasNoToken \/ BodyRead \/ TokenRefused
  \/ \E user \in Users : UserFound(user)
  \/ HandlerFails \/ HandleOther \/ ClearIPSessionMappings
  \/ CreateSystemJob \/ CreateJob \/ NoJobType \/ GetJob

Spec == Init /\ [][Next]_vars

-----------------------------------------------------------------------------
(* Properties *)

\* Registered behind routes that match whatever they match (src/src/cms.ts:102).
Shadowed == {"reset", "resetAll"}

\* In every environment each mounted route but those two answers the request
\* it is there for, in whatever letters: none is hidden by one mounted earlier,
\* with a parameter in the place of its words.
RoutesAnswerTheirPaths ==
  request.stage = "handling" =>
    \A i \in DOMAIN Table :
      OwnRequest(Table[i]) = [request.asked EXCEPT !.capitals = {}] =>
        (Answering(request.asked) = Table[i] <=> Table[i].handler \notin Shadowed)

\* What a handler takes for granted (`req.sessionDatabase!`, `req.user!`,
\* `req.container!`, the job repository) is there when it runs: the conditions
\* under which routes are mounted fit those under which the stages before them
\* are.
HandlersHaveWhatTheyUse ==
  request.stage = "handling" =>
    LET uses == Answering(request.asked).uses IN
    /\ "database" \in uses => request.database # NoKey
    /\ "user" \in uses => request.user # Nobody
    /\ "jobRepository" \in uses => HasJobs

\* In full mode with session databases, a handler of the CMS, session, task or
\* demo routes works with the key and in the database of the user that the token
\* names, never in those the request came with, PROVIDED the path has the words
\* of its prefix in the letters of SCOPED_PATH_PREFIXES.  In other letters
\* (/api/v1/CMS/x) the routers find the same handler and isScopedPath finds
\* nothing to scope: it runs for no user in the session the request came with,
\* which is not what auth-mode.middleware.ts:8 says ("requires JWT for
\* CMS/task/session routes").
WorksForItsUser ==
  request.stage = "handling" /\ FullAuthMode /\ HasFactory
    /\ Answering(request.asked).handler \in
         {r.handler : r \in Range(SessionTable \o CMSRoutes \o TaskTable)}
    /\ SpeltAsMounted(request.asked, IF request.asked.path[3] = "demo" THEN 2 ELSE 1)
    => /\ request.user # Nobody
       /\ request.key = Key("user", request.user)
       /\ request.database = request.key

\* Addresses are mapped to sessions only when they pass the restriction and when
\* mapping is not switched off, whatever routes are mounted.
MappedAddressesPass ==
  \A address \in ipSessionMap : Passes(address) /\ AutoMapsIP /\ HasFactory

\* Who created a job can read it and finds it in the list, a system job included.
CreatorsReadTheirJobs ==
  \A job \in jobs : CanAccess(job.creator, job) /\ job \in Listed(job.creator)

=============================================================================
