------------------------- MODULE RequestPathProofs --------------------------
(***************************************************************************)
(* What a request meets on its path, for every set of addresses, users,    *)
(* admins and environments.                                                *)
(***************************************************************************)
EXTENDS RequestPath, SequenceTheorems, WellFoundedInduction, TLAPS

-----------------------------------------------------------------------------
(* The tables of routes. *)

\* The handlers of the routes that no session is needed for.
FreeHandlers ==
  {"page", "helloGet", "helloPost", "health", "register", "login", "getConfig",
   "updateConfig", "createJob", "startDummyJob", "listJobs", "getJob"}

CreatingHandlers == {"createJob", "startDummyJob"}

ScopedWords == {"cms", "sessions", "tasks"}

\* A path below one of ScopedPrefixes, word by word.
BelowAPrefix(path) ==
  /\ DOMAIN path = 1 .. Len(path)
  /\ Len(path) >= 3 /\ path[1] = "api" /\ path[2] = "v1"
  /\ \/ path[3] \in ScopedWords
     \/ Len(path) >= 4 /\ path[3] = "demo" /\ path[4] = "tasks"

\* What a route in the table of an environment may need.
Provided(route) ==
  /\ "user" \in route.uses => route.guarded
  /\ "database" \in route.uses => HasFactory
  /\ "jobRepository" \in route.uses => HasJobs
  /\ route.handler \in CreatingHandlers => route.guarded

Good(route) ==
  Provided(route) /\ (route.handler \in FreeHandlers \/ BelowAPrefix(route.path))

AllGood(routes) == \E R : routes \in Seq(R) /\ \A r \in R : Good(r)

\* A route of the CMS, the sessions or the tasks.
Scoped(route) == Good(route) /\ route.handler \notin FreeHandlers

AllScoped(routes) == \E R : routes \in Seq(R) /\ \A r \in R : Scoped(r)

Api(path) == <<"api", "v1">> \o path

\* A path of n words under /api/v1.
OnApi(p, n) == Len(p) = n /\ DOMAIN p = 1 .. n /\ p[1] = "api" /\ p[2] = "v1"

LEMMA Paths ==
  /\ \A a : LET p == Api(<<a>>) IN OnApi(p, 3) /\ p[3] = a
  /\ \A a, b : LET p == Api(<<a, b>>) IN OnApi(p, 4) /\ p[3] = a /\ p[4] = b
  /\ \A a, b, c : LET p == Api(<<a, b, c>>) IN
       OnApi(p, 5) /\ p[3] = a /\ p[4] = b /\ p[5] = c
  /\ \A a, b, c, d : LET p == Api(<<a, b, c, d>>) IN
       OnApi(p, 6) /\ p[3] = a /\ p[4] = b /\ p[5] = c
  BY DEF Api, OnApi

LEMMA ScopedPaths ==
  /\ \A a \in ScopedWords : BelowAPrefix(Api(<<a>>))
  /\ \A a \in ScopedWords : \A b : BelowAPrefix(Api(<<a, b>>))
  /\ \A a \in ScopedWords : \A b, c : BelowAPrefix(Api(<<a, b, c>>))
  /\ \A b : BelowAPrefix(Api(<<"demo", "tasks", b>>))
  /\ \A b, c : BelowAPrefix(Api(<<"demo", "tasks", b, c>>))
<1>1. ASSUME NEW a \in ScopedWords PROVE BelowAPrefix(Api(<<a>>))
  BY Paths DEF BelowAPrefix, OnApi
<1>2. ASSUME NEW a \in ScopedWords, NEW b PROVE BelowAPrefix(Api(<<a, b>>))
  BY Paths DEF BelowAPrefix, OnApi
<1>3. ASSUME NEW a \in ScopedWords, NEW b, NEW c PROVE BelowAPrefix(Api(<<a, b, c>>))
  BY Paths DEF BelowAPrefix, OnApi
<1>4. ASSUME NEW b PROVE BelowAPrefix(Api(<<"demo", "tasks", b>>))
  BY Paths DEF BelowAPrefix, OnApi
<1>5. ASSUME NEW b, NEW c PROVE BelowAPrefix(Api(<<"demo", "tasks", b, c>>))
  BY Paths DEF BelowAPrefix, OnApi
<1>. QED  BY <1>1, <1>2, <1>3, <1>4, <1>5

\* A route below a prefix that takes for granted what its environment provides.
LEMMA ScopedRoute ==
  ASSUME NEW method, NEW path, NEW handler, NEW uses,
         handler \notin FreeHandlers, BelowAPrefix(Api(path)),
         "user" \notin uses, "jobRepository" \notin uses, "database" \in uses => HasFactory
  PROVE  Scoped(Route(method, path, handler, uses, FALSE))
<1> DEFINE r == Route(method, path, handler, uses, FALSE)
<1>1. r.path = Api(path) /\ r.handler = handler /\ r.uses = uses
  BY DEF Route, Api
<1> HIDE DEF r
<1>. QED  BY <1>1 DEF Scoped, Good, Provided, FreeHandlers, CreatingHandlers, r

LEMMA PlainScoped ==
  ASSUME NEW method, NEW path, NEW handler, handler \notin FreeHandlers,
         BelowAPrefix(Api(path))
  PROVE  Scoped(Plain(method, path, handler))
  BY ScopedRoute DEF Plain

LEMMA Tuples ==
  /\ \A a, b : LET t == <<a, b>> IN t \in Seq({t[i] : i \in 1 .. 2})
  /\ \A a, b, c : LET t == <<a, b, c>> IN t \in Seq({t[i] : i \in 1 .. 3})
  /\ \A a, b, c, d : LET t == <<a, b, c, d>> IN t \in Seq({t[i] : i \in 1 .. 4})
  /\ \A a, b, c, d, e, f :
       LET t == <<a, b, c, d, e, f>> IN t \in Seq({t[i] : i \in 1 .. 6})
  /\ \A a, b, c, d, e, f, g, h, i, j :
       LET t == <<a, b, c, d, e, f, g, h, i, j>> IN t \in Seq({t[n] : n \in 1 .. 10})
  /\ \A a, b, c, d, e, f, g, h, i, j, k, l :
       LET t == <<a, b, c, d, e, f, g, h, i, j, k, l>> IN t \in Seq({t[n] : n \in 1 .. 12})
  OBVIOUS

LEMMA ScopedTable ==
  ASSUME NEW s, NEW n \in Nat, \A i \in 1 .. n : Scoped(s[i]),
         s \in Seq({s[i] : i \in 1 .. n})
  PROVE  AllScoped(s)
<1>1. \A r \in {s[i] : i \in 1 .. n} : Scoped(r)
  OBVIOUS
<1>. QED  BY <1>1, Zenon DEF AllScoped

LEMMA GoodTable ==
  ASSUME NEW s, NEW n \in Nat, \A i \in 1 .. n : Good(s[i]),
         s \in Seq({s[i] : i \in 1 .. n})
  PROVE  AllGood(s)
<1>1. \A r \in {s[i] : i \in 1 .. n} : Good(r)
  OBVIOUS
<1>. QED  BY <1>1, Zenon DEF AllGood

LEMMA ScopedIsGood == \A s : AllScoped(s) => AllGood(s)
  BY DEF AllScoped, AllGood, Scoped

LEMMA Concatenated ==
  /\ \A s, t : AllScoped(s) /\ AllScoped(t) => AllScoped(s \o t)
  /\ \A s, t : AllGood(s) /\ AllGood(t) => AllGood(s \o t)
<1>1. ASSUME NEW s, NEW t, AllScoped(s), AllScoped(t) PROVE AllScoped(s \o t)
  <2>1. PICK R : s \in Seq(R) /\ \A r \in R : Scoped(r)
    BY <1>1 DEF AllScoped
  <2>2. PICK Q : t \in Seq(Q) /\ \A r \in Q : Scoped(r)
    BY <1>1 DEF AllScoped
  <2>3. s \o t \in Seq(R \cup Q)
    BY <2>1, <2>2
  <2>4. \A r \in R \cup Q : Scoped(r)
    BY <2>1, <2>2
  <2>. QED  BY <2>3, <2>4, Zenon DEF AllScoped
<1>2. ASSUME NEW s, NEW t, AllGood(s), AllGood(t) PROVE AllGood(s \o t)
  <2>1. PICK R : s \in Seq(R) /\ \A r \in R : Good(r)
    BY <1>2 DEF AllGood
  <2>2. PICK Q : t \in Seq(Q) /\ \A r \in Q : Good(r)
    BY <1>2 DEF AllGood
  <2>3. s \o t \in Seq(R \cup Q)
    BY <2>1, <2>2
  <2>4. \A r \in R \cup Q : Good(r)
    BY <2>1, <2>2
  <2>. QED  BY <2>3, <2>4, Zenon DEF AllGood
<1>. QED  BY <1>1, <1>2

\* `If` mounts the routes or none.
LEMMA Mounted ==
  ASSUME NEW met \in BOOLEAN, NEW s
  PROVE  /\ (met => AllScoped(s)) => AllScoped(If(met, s))
         /\ (met => AllGood(s)) => AllGood(If(met, s))
<1>1. PICK none : none = {}
  OBVIOUS
<1>2. <<>> \in Seq(none) /\ (\A r \in none : Good(r)) /\ (\A r \in none : Scoped(r))
  BY <1>1
<1>3. AllScoped(<<>>) /\ AllGood(<<>>)
  BY <1>2, Zenon DEF AllScoped, AllGood
<1>4. CASE met
  BY <1>4 DEF If
<1>5. CASE ~met
  <2>1. If(met, s) = <<>>
    BY <1>5, Zenon DEF If
  <2>. QED  BY <1>3, <2>1, Zenon
<1>. QED  BY <1>4, <1>5

LEMMA CMSRoutesScoped == AllScoped(CMSRoutes)
<1>1. \A i \in 1 .. 6 : Scoped(CMSRoutes[i])
  BY PlainScoped, ScopedPaths DEF CMSRoutes, ScopedWords, FreeHandlers
<1>2. \A i \in {7, 9, 10, 11, 12} : Scoped(CMSRoutes[i])
  BY PlainScoped, ScopedPaths DEF CMSRoutes, ScopedWords, FreeHandlers
<1>3. Scoped(CMSRoutes[8])
  <2>1. Scoped(Route("POST", <<"cms", "save", ":name">>, "save", {"body"}, FALSE))
    BY ScopedRoute, ScopedPaths DEF ScopedWords, FreeHandlers
  <2>. QED  BY <2>1 DEF CMSRoutes
<1>4. \A i \in 1 .. 12 : Scoped(CMSRoutes[i])
  BY <1>1, <1>2, <1>3
<1>5. \E a, b, c, d, e, f, g, h, i, j, k, l :
        CMSRoutes = <<a, b, c, d, e, f, g, h, i, j, k, l>>
  BY Zenon DEF CMSRoutes
<1>6. CMSRoutes \in Seq({CMSRoutes[i] : i \in 1 .. 12})
  BY <1>5, Tuples
<1>. QED  BY <1>4, <1>6, ScopedTable

LEMMA SessionRoutesScoped == AllScoped(SessionRoutes) /\ AllScoped(IPMappingRoutes)
<1>1. \A i \in 1 .. 3 : Scoped(SessionRoutes[i])
  BY PlainScoped, ScopedPaths DEF SessionRoutes, ScopedWords, FreeHandlers
<1>2. \A i \in 1 .. 2 : Scoped(IPMappingRoutes[i])
  BY PlainScoped, ScopedPaths DEF IPMappingRoutes, ScopedWords, FreeHandlers
<1>3. \E a, b, c : SessionRoutes = <<a, b, c>>
  BY Zenon DEF SessionRoutes
<1>4. \E a, b : IPMappingRoutes = <<a, b>>
  BY Zenon DEF IPMappingRoutes
<1>5. /\ SessionRoutes \in Seq({SessionRoutes[i] : i \in 1 .. 3})
      /\ IPMappingRoutes \in Seq({IPMappingRoutes[i] : i \in 1 .. 2})
  BY <1>3, <1>4, Tuples
<1>. QED  BY <1>1, <1>2, <1>5, ScopedTable

LEMMA TaskRouteScoped ==
  ASSUME HasFactory, NEW method, NEW path, NEW handler, handler \notin FreeHandlers,
         BelowAPrefix(Api(path))
  PROVE  Scoped(OfTasks(method, path, handler))
  BY ScopedRoute DEF OfTasks

LEMMA TaskRoutesScoped == HasFactory => AllScoped(TaskRoutes)
<1> SUFFICES ASSUME HasFactory PROVE AllScoped(TaskRoutes)
  OBVIOUS
<1>1. Scoped(TaskRoutes[1])
  <2>1. Scoped(Route("POST", <<"tasks">>, "createTask", {"database", "body"}, FALSE))
    BY ScopedRoute, ScopedPaths DEF ScopedWords, FreeHandlers
  <2>. QED  BY <2>1 DEF TaskRoutes
<1>2. \A i \in {4, 5} : Scoped(TaskRoutes[i])
  BY PlainScoped, ScopedPaths DEF TaskRoutes, ScopedWords, FreeHandlers
<1>3. \A i \in {2, 3, 6, 7, 8, 9, 10} : Scoped(TaskRoutes[i])
  BY TaskRouteScoped, ScopedPaths DEF TaskRoutes, ScopedWords, FreeHandlers
<1>4. \A i \in 1 .. 10 : Scoped(TaskRoutes[i])
  BY <1>1, <1>2, <1>3
<1>5. \E a, b, c, d, e, f, g, h, i, j : TaskRoutes = <<a, b, c, d, e, f, g, h, i, j>>
  BY Zenon DEF TaskRoutes
<1>6. TaskRoutes \in Seq({TaskRoutes[i] : i \in 1 .. 10})
  BY <1>5, Tuples
<1>. QED  BY <1>4, <1>6, ScopedTable

LEMMA DemoRoutesScoped == HasFactory => AllScoped(DemoRoutes)
<1> SUFFICES ASSUME HasFactory PROVE AllScoped(DemoRoutes)
  OBVIOUS
<1>1. ASSUME NEW kind, NEW handler, handler \notin FreeHandlers
      PROVE  Scoped(DemoTask(kind, handler))
  <2>1. "user" \notin {"database", "body"} /\ "jobRepository" \notin {"database", "body"}
    OBVIOUS
  <2>. QED  BY <1>1, <2>1, ScopedRoute, ScopedPaths DEF DemoTask
<1>2. \A i \in 1 .. 4 : Scoped(DemoRoutes[i])
  BY <1>1 DEF DemoRoutes, FreeHandlers
<1>3. \A i \in 5 .. 6 : Scoped(DemoRoutes[i])
  BY TaskRouteScoped, ScopedPaths DEF DemoRoutes, FreeHandlers
<1>4. \A i \in 1 .. 6 : Scoped(DemoRoutes[i])
  BY <1>2, <1>3
<1>5. \E a, b, c, d, e, f : DemoRoutes = <<a, b, c, d, e, f>>
  BY Zenon DEF DemoRoutes
<1>6. DemoRoutes \in Seq({DemoRoutes[i] : i \in 1 .. 6})
  BY <1>5, Tuples
<1>. QED  BY <1>4, <1>6, ScopedTable

LEMMA FreeRoute ==
  ASSUME NEW method, NEW path, NEW handler, NEW uses,
         handler \in FreeHandlers \ CreatingHandlers, "database" \notin uses,
         "user" \notin uses, "jobRepository" \notin uses
  PROVE  Good(Route(method, path, handler, uses, FALSE))
<1> DEFINE r == Route(method, path, handler, uses, FALSE)
<1>1. r.handler = handler /\ r.uses = uses
  BY DEF Route
<1> HIDE DEF r
<1>. QED  BY <1>1 DEF Good, Provided, r

LEMMA GuardedRoute ==
  ASSUME NEW method, NEW path, NEW handler, NEW uses,
         handler \in FreeHandlers, "database" \notin uses,
         "jobRepository" \in uses => HasJobs
  PROVE  Good(Route(method, path, handler, uses, TRUE))
<1> DEFINE r == Route(method, path, handler, uses, TRUE)
<1>1. r.handler = handler /\ r.uses = uses /\ r.guarded = TRUE
  BY DEF Route
<1> HIDE DEF r
<1>2. r.guarded
  BY <1>1
<1>. QED  BY <1>1, <1>2 DEF Good, Provided, r

\* Every set of numbers has a smallest one.
LEMMA LeastNumber ==
  ASSUME NEW T, T \subseteq Nat, T # {}
  PROVE  \E m \in T : \A n \in T : m <= n
<1>1. PICK m \in T : \A n \in T : ~ (<<n, m>> \in OpToRel(<, Nat))
  BY NatLessThanWellFounded, WFMin, Zenon
<1>2. \A n \in T : <<n, m>> \in OpToRel(<, Nat) <=> n < m
  BY DEF OpToRel
<1>3. m \in Nat /\ \A n \in T : n \in Nat /\ ~(n < m)
  BY <1>1, <1>2
<1>. QED  BY <1>3

LEMMA FreeRoutes ==
  AllGood(PageRoutes) /\ AllGood(APIRoutes) /\ AllGood(UserRoutes)
    /\ (HasJobs => AllGood(JobRoutes))
<1>1. AllGood(PageRoutes)
  <2> DEFINE page == [Plain("GET", <<>>, "page") EXCEPT !.path = <<"hello">>]
  <2>1. page.handler = "page" /\ page.uses = {}
    BY DEF Plain, Route
  <2>2. PageRoutes = <<page>>
    BY DEF PageRoutes
  <2> HIDE DEF page
  <2>3. Good(page)
    BY <2>1 DEF Good, Provided, FreeHandlers, CreatingHandlers
  <2>4. PICK R : R = {page}
    OBVIOUS
  <2>5. PageRoutes \in Seq(R) /\ \A r \in R : Good(r)
    BY <2>2, <2>3, <2>4
  <2>. QED  BY <2>5, Zenon DEF AllGood
<1>2. AllGood(APIRoutes)
  <2>1. \A method, path : \A handler \in FreeHandlers \ CreatingHandlers :
          Good(Plain(method, path, handler))
    BY FreeRoute DEF Plain
  <2>4. \A i \in 1 .. 3 : Good(APIRoutes[i])
    BY <2>1 DEF APIRoutes, FreeHandlers, CreatingHandlers
  <2>2. \E a, b, c : APIRoutes = <<a, b, c>>
    BY Zenon DEF APIRoutes
  <2>3. APIRoutes \in Seq({APIRoutes[i] : i \in 1 .. 3})
    BY <2>2, Tuples
  <2>. QED  BY <2>3, <2>4, GoodTable
<1>3. AllGood(UserRoutes)
  <2>1. Good(UserRoutes[1]) /\ Good(UserRoutes[2])
    <3>1. PICK uses : uses = {"body", "container"}
      OBVIOUS
    <3>2. "database" \notin uses /\ "user" \notin uses /\ "jobRepository" \notin uses
      BY <3>1
    <3>3. \A method, path : \A handler \in FreeHandlers \ CreatingHandlers :
            Good(Route(method, path, handler, uses, FALSE))
      BY <3>2, FreeRoute
    <3>4. UserRoutes[1] = Route("POST", <<"users", "register">>, "register", uses, FALSE)
      BY <3>1 DEF UserRoutes
    <3>5. UserRoutes[2] = Route("POST", <<"users", "login">>, "login", uses, FALSE)
      BY <3>1 DEF UserRoutes
    <3>6. "register" \in FreeHandlers \ CreatingHandlers
            /\ "login" \in FreeHandlers \ CreatingHandlers
      BY DEF FreeHandlers, CreatingHandlers
    <3>. QED  BY <3>3, <3>4, <3>5, <3>6, Zenon
  <2>2. Good(UserRoutes[3])
    <3>1. PICK uses : uses = {"user"}
      OBVIOUS
    <3>2. "database" \notin uses /\ "jobRepository" \notin uses
      BY <3>1
    <3>3. \A method, path : \A handler \in FreeHandlers :
            Good(Route(method, path, handler, uses, TRUE))
      BY <3>2, GuardedRoute
    <3>4. UserRoutes[3] = Route("GET", <<"users", "config">>, "getConfig", uses, TRUE)
      BY <3>1 DEF UserRoutes
    <3>5. "getConfig" \in FreeHandlers
      BY DEF FreeHandlers
    <3>. QED  BY <3>3, <3>4, <3>5, Zenon
  <2>3. Good(UserRoutes[4])
    <3>1. PICK uses : uses = {"user", "container"}
      OBVIOUS
    <3>2. "database" \notin uses /\ "jobRepository" \notin uses
      BY <3>1
    <3>3. \A method, path : \A handler \in FreeHandlers :
            Good(Route(method, path, handler, uses, TRUE))
      BY <3>2, GuardedRoute
    <3>4. UserRoutes[4] = Route("PUT", <<"users", "config">>, "updateConfig", uses, TRUE)
      BY <3>1 DEF UserRoutes
    <3>5. "updateConfig" \in FreeHandlers
      BY DEF FreeHandlers
    <3>. QED  BY <3>3, <3>4, <3>5, Zenon
  <2>4. \A i \in 1 .. 4 : Good(UserRoutes[i])
    BY <2>1, <2>2, <2>3
  <2>5. \E a, b, c, d : UserRoutes = <<a, b, c, d>>
    BY Zenon DEF UserRoutes
  <2>6. UserRoutes \in Seq({UserRoutes[i] : i \in 1 .. 4})
    BY <2>5, Tuples
  <2>. QED  BY <2>4, <2>6, GoodTable
<1>4. ASSUME HasJobs PROVE AllGood(JobRoutes)
  <2>1. Good(JobRoutes[1]) /\ Good(JobRoutes[2])
    <3>1. PICK uses : uses = {"body", "user", "jobRepository"}
      OBVIOUS
    <3>2. "database" \notin uses
      BY <3>1
    <3>3. \A method, path : \A handler \in FreeHandlers :
            Good(Route(method, path, handler, uses, TRUE))
      BY <1>4, <3>2, GuardedRoute
    <3>4. JobRoutes[1] = Route("POST", <<"jobs">>, "createJob", uses, TRUE)
      BY <3>1 DEF JobRoutes
    <3>5. JobRoutes[2]
            = Route("POST", <<"jobs", "start-dummy-job">>, "startDummyJob", uses, TRUE)
      BY <3>1 DEF JobRoutes
    <3>6. "createJob" \in FreeHandlers /\ "startDummyJob" \in FreeHandlers
      BY DEF FreeHandlers
    <3>. QED  BY <3>3, <3>4, <3>5, <3>6, Zenon
  <2>2. Good(JobRoutes[3]) /\ Good(JobRoutes[4])
    <3>1. PICK uses : uses = {"user", "jobRepository"}
      OBVIOUS
    <3>2. "database" \notin uses
      BY <3>1
    <3>3. \A method, path : \A handler \in FreeHandlers :
            Good(Route(method, path, handler, uses, TRUE))
      BY <1>4, <3>2, GuardedRoute
    <3>4. JobRoutes[3] = Route("GET", <<"jobs">>, "listJobs", uses, TRUE)
      BY <3>1 DEF JobRoutes
    <3>5. JobRoutes[4] = Route("GET", <<"jobs", ":id">>, "getJob", uses, TRUE)
      BY <3>1 DEF JobRoutes
    <3>6. "listJobs" \in FreeHandlers /\ "getJob" \in FreeHandlers
      BY DEF FreeHandlers
    <3>. QED  BY <3>3, <3>4, <3>5, <3>6, Zenon
  <2>3. \A i \in 1 .. 4 : Good(JobRoutes[i])
    BY <2>1, <2>2
  <2>4. \E a, b, c, d : JobRoutes = <<a, b, c, d>>
    BY Zenon DEF JobRoutes
  <2>5. JobRoutes \in Seq({JobRoutes[i] : i \in 1 .. 4})
    BY <2>4, Tuples
  <2>. QED  BY <2>3, <2>5, GoodTable
<1>. QED  BY <1>1, <1>2, <1>3, <1>4

LEMMA ScopedTables ==
  AllScoped(SessionTable) /\ AllScoped(CMSRoutes) /\ AllScoped(TaskTable)
<1>1. /\ IsolatesSessions \in BOOLEAN /\ MountsIPMappings \in BOOLEAN
      /\ HasTaskSystem \in BOOLEAN
  BY DEF IsolatesSessions, MountsIPMappings, HasTaskSystem, HasFactory
<1>2. AllScoped(If(MountsIPMappings, IPMappingRoutes) \o SessionRoutes)
  BY <1>1, SessionRoutesScoped, Mounted, Concatenated
<1>3. AllScoped(SessionTable)
  BY <1>1, <1>2, Mounted DEF SessionTable
<1>4. HasTaskSystem => AllScoped(TaskRoutes \o DemoRoutes)
  BY TaskRoutesScoped, DemoRoutesScoped, Concatenated DEF HasTaskSystem
<1>5. AllScoped(TaskTable)
  BY <1>1, <1>4, Mounted DEF TaskTable
<1>. QED  BY <1>3, <1>5, CMSRoutesScoped

LEMMA TableGood == AllGood(Table)
<1>1. HasJobs \in BOOLEAN
  BY DEF HasJobs
<1>2. AllGood(If(HasJobs, JobRoutes))
  BY <1>1, FreeRoutes, Mounted
<1>3. AllGood(SessionTable) /\ AllGood(CMSRoutes) /\ AllGood(TaskTable)
  BY ScopedTables, ScopedIsGood
<1>4. AllGood(PageRoutes \o APIRoutes \o SessionTable \o CMSRoutes \o UserRoutes)
  BY <1>3, FreeRoutes, Concatenated, Zenon
<1>5. AllGood(PrototypeTable)
  BY <1>3, <1>4, Concatenated, Zenon DEF PrototypeTable
<1>6. AllGood(ServerTable)
  BY <1>2, <1>3, <1>4, Concatenated, Zenon DEF ServerTable
<1>. QED  BY <1>5, <1>6 DEF Table

\* The route that answers is the first that matches, and like all of them.
LEMMA AnsweringRoute ==
  ASSUME NEW asked, Matching(asked) # {}
  PROVE  Good(Answering(asked)) /\ Matches(Answering(asked), asked)
<1>1. PICK R : Table \in Seq(R) /\ \A r \in R : Good(r)
  BY TableGood DEF AllGood
<1>2. Matching(asked) \subseteq DOMAIN Table /\ DOMAIN Table \subseteq Nat
  BY <1>1 DEF Matching
<1>3. \E m \in Matching(asked) : \A n \in Matching(asked) : m <= n
  BY <1>2, LeastNumber
<1>4. Min(Matching(asked)) \in Matching(asked)
  BY <1>3 DEF Min
<1>5. Answering(asked) \in R
  BY <1>1, <1>2, <1>4 DEF Answering
<1>6. Matches(Answering(asked), asked)
  BY <1>4 DEF Answering, Matching
<1>. QED  BY <1>1, <1>5, <1>6

\* A route of the CMS, the sessions or the tasks is asked for by a scoped path,
\* if that spells the words of the prefix as it is mounted.
LEMMA ScopedByPath ==
  ASSUME NEW route, NEW asked, BelowAPrefix(route.path), Matches(route, asked),
         SpeltAsMounted(asked, IF asked.path[3] = "demo" THEN 2 ELSE 1)
  PROVE  IsScopedPath(asked)
<1> DEFINE p == asked.path
<1>1. /\ Len(p) >= 3 /\ p[1] = "api" /\ p[2] = "v1"
      /\ \/ p[3] \in ScopedWords
         \/ Len(p) >= 4 /\ p[3] = "demo" /\ p[4] = "tasks"
  BY DEF BelowAPrefix, Matches, Parameters, ScopedWords
<1> HIDE DEF p
<1>2. ASSUME NEW q, NEW n \in Nat, OnApi(q, n), Len(p) >= n,
             \A i \in 1 .. n : q[i] = p[i]
      PROVE  IsPrefix(q, p)
  BY <1>2 DEF IsPrefix, OnApi
<1>3. CASE p[3] \in ScopedWords
  <2>1. PICK w \in ScopedWords : w = p[3]
    BY <1>3
  <2>2. PICK q : q = Api(<<w>>)
    OBVIOUS
  <2>3. OnApi(q, 3) /\ \A i \in 1 .. 3 : q[i] = p[i]
    BY <1>1, <2>1, <2>2, Paths DEF OnApi
  <2>4. IsPrefix(Api(<<w>>), p)
    BY <1>1, <1>2, <2>2, <2>3
  <2>5. <<w>> \in ScopedPrefixes
    BY DEF ScopedPrefixes, ScopedWords
  <2>6. SpeltAsMounted(asked, Len(<<w>>))
    <3>1. p[3] # "demo" /\ Len(<<w>>) = 1
      BY <1>3 DEF ScopedWords
    <3>. QED  BY <3>1 DEF p
  <2>. QED  BY <2>4, <2>5, <2>6 DEF IsScopedPath, p, Api
<1>4. CASE Len(p) >= 4 /\ p[3] = "demo" /\ p[4] = "tasks"
  <2>1. PICK q : q = Api(<<"demo", "tasks">>)
    OBVIOUS
  <2>2. OnApi(q, 4) /\ \A i \in 1 .. 4 : q[i] = p[i]
    BY <1>1, <1>4, <2>1, Paths DEF OnApi
  <2>3. IsPrefix(Api(<<"demo", "tasks">>), p)
    BY <1>2, <1>4, <2>1, <2>2
  <2>4. <<"demo", "tasks">> \in ScopedPrefixes
    BY DEF ScopedPrefixes
  <2>5. SpeltAsMounted(asked, Len(<<"demo", "tasks">>))
    BY <1>4 DEF p
  <2>. QED  BY <2>3, <2>4, <2>5 DEF IsScopedPath, p, Api
<1>. QED  BY <1>1, <1>3, <1>4

LEMMA ScopedHandlers ==
  ASSUME NEW h \in {r.handler : r \in Range(SessionTable \o CMSRoutes \o TaskTable)}
  PROVE  h \notin FreeHandlers
<1>1. AllScoped(SessionTable \o CMSRoutes \o TaskTable)
  BY ScopedTables, Concatenated, Zenon
<1>2. PICK R : /\ SessionTable \o CMSRoutes \o TaskTable \in Seq(R)
               /\ \A r \in R : Scoped(r)
  BY <1>1, Zenon DEF AllScoped
<1> DEFINE s == SessionTable \o CMSRoutes \o TaskTable
<1> HIDE DEF s
<1>3. Range(s) \subseteq R
  BY <1>2 DEF Range, s
<1>. QED  BY <1>2, <1>3 DEF Scoped, s

-----------------------------------------------------------------------------
(* The order of the routes. *)

\* What stands in a request in the place of a word of a route.
Word(w) == IF w \in Parameters THEN "x" ELSE w

\* The word that tells the groups of routes apart.
Third(route) == IF Len(route.path) = 1 THEN "page" ELSE route.path[3]

\* A route of one of the groups W.
OfGroups(route, W) ==
  /\ Len(route.path) \in Nat /\ DOMAIN route.path = 1 .. Len(route.path)
  /\ Len(route.path) = 1 \/ Len(route.path) >= 3
  /\ Third(route) \in W /\ Third(route) \notin Parameters
  /\ route.handler \in Shadowed => Third(route) = "cms"

Takes(earlier, route) == Matches(earlier, OwnRequest(route))

\* What a route needs of each one before it.
Spared(earlier, route) ==
  IF route.handler \in Shadowed THEN earlier.handler # route.handler
  ELSE ~Takes(earlier, route)

InPlace(s, i) ==
  /\ \A j \in 1 .. i - 1 : Spared(s[j], s[i])
  /\ s[i].handler \in Shadowed => \E j \in 1 .. i - 1 : Takes(s[j], s[i])

InOrder(s, W) ==
  /\ \E R : s \in Seq(R)
  /\ \A i \in 1 .. Len(s) : OfGroups(s[i], W) /\ InPlace(s, i)

LEMMA OwnPath ==
  ASSUME NEW route, Len(route.path) \in Nat, DOMAIN route.path = 1 .. Len(route.path)
  PROVE  LET own == OwnRequest(route) IN
         /\ own.method = route.method
         /\ Len(own.path) = Len(route.path)
         /\ \A i \in 1 .. Len(route.path) : own.path[i] = Word(route.path[i])
<1> DEFINE p == route.path
           n == Len(p)
           f == [i \in 1 .. n |-> Word(p[i])]
           S == {f[i] : i \in 1 .. n}
<1>1. OwnRequest(route) = [method |-> route.method, path |-> f, capitals |-> {}]
  BY DEF OwnRequest, Word
<1>2. f \in [1 .. n -> S]
  OBVIOUS
<1>3. f \in Seq(S)
  BY <1>2, IsASeq
<1>4. Len(f) = n
  BY <1>3, LenProperties
<1>. QED  BY <1>1, <1>4

\* A route takes the request that it is there for.
LEMMA TakesItsOwn ==
  ASSUME NEW route, Len(route.path) \in Nat, DOMAIN route.path = 1 .. Len(route.path)
  PROVE  Takes(route, route)
  BY OwnPath DEF Takes, Matches, Word

\* A word that no parameter stands for tells two routes apart.
LEMMA ToldApart ==
  ASSUME NEW r, NEW q, Len(q.path) \in Nat, DOMAIN q.path = 1 .. Len(q.path),
         DOMAIN r.path = 1 .. Len(r.path),
         \/ r.method # q.method
         \/ Len(r.path) # Len(q.path)
         \/ \E i \in 1 .. Len(q.path) :
              r.path[i] \notin Parameters /\ r.path[i] # Word(q.path[i])
  PROVE  ~Takes(r, q)
  BY OwnPath DEF Takes, Matches

LEMMA OtherGroup ==
  ASSUME NEW V, NEW W, V \cap W = {}, NEW r, OfGroups(r, V), NEW q, OfGroups(q, W)
  PROVE  Spared(r, q)
<1>1. Third(r) # Third(q) /\ Third(q) \notin Parameters
  BY DEF OfGroups
<1>2. CASE q.handler \in Shadowed
  BY <1>1, <1>2 DEF Spared, OfGroups
<1>3. CASE q.handler \notin Shadowed
  <2>1. CASE Len(r.path) # Len(q.path)
    BY <2>1, ToldApart, <1>3 DEF Spared, OfGroups
  <2>2. CASE Len(r.path) = Len(q.path)
    <3>1. Len(q.path) >= 3 /\ r.path[3] # q.path[3]
      BY <1>1, <2>2 DEF Third, OfGroups
    <3>2. r.path[3] \notin Parameters /\ q.path[3] \notin Parameters
      BY <2>2, <3>1 DEF Third, OfGroups
    <3>3. \E i \in 1 .. Len(q.path) :
            r.path[i] \notin Parameters /\ r.path[i] # Word(q.path[i])
      BY <3>1, <3>2 DEF Word, OfGroups
    <3>. QED  BY <3>3, ToldApart, <1>3 DEF Spared, OfGroups
  <2>. QED  BY <2>1, <2>2
<1>. QED  BY <1>2, <1>3

LEMMA InOrderJoined ==
  ASSUME NEW s, NEW t, NEW V, NEW W, InOrder(s, V), InOrder(t, W),
         \A i \in 1 .. Len(s), j \in 1 .. Len(t) : Spared(s[i], t[j])
  PROVE  InOrder(s \o t, V \cup W)
<1> DEFINE st == s \o t
<1>1. PICK R, Q : s \in Seq(R) /\ t \in Seq(Q)
  BY DEF InOrder
<1>2. /\ Len(s) \in Nat /\ Len(t) \in Nat /\ Len(st) = Len(s) + Len(t)
      /\ \A i \in 1 .. Len(s) : st[i] = s[i]
      /\ \A i \in 1 .. Len(t) : st[Len(s) + i] = t[i]
      /\ st \in Seq(R \cup Q)
  BY <1>1
<1> HIDE DEF st
<1>3. ASSUME NEW i \in 1 .. Len(s)
      PROVE  OfGroups(st[i], V \cup W) /\ InPlace(st, i)
  <2>1. st[i] = s[i] /\ \A j \in 1 .. i - 1 : st[j] = s[j]
    BY <1>2
  <2>2. OfGroups(s[i], V) /\ InPlace(s, i)
    BY DEF InOrder
  <2>. QED  BY <2>1, <2>2 DEF OfGroups, InPlace
<1>4. ASSUME NEW k \in 1 .. Len(t)
      PROVE  OfGroups(st[Len(s) + k], V \cup W) /\ InPlace(st, Len(s) + k)
  <2> DEFINE i == Len(s) + k
  <2>1. st[i] = t[k] /\ \A j \in 1 .. k - 1 : st[Len(s) + j] = t[j]
    BY <1>2
  <2>2. OfGroups(t[k], W) /\ InPlace(t, k)
    BY DEF InOrder
  <2>3. ASSUME NEW j \in 1 .. i - 1 PROVE Spared(st[j], st[i])
    <3>1. CASE j \in 1 .. Len(s)
      BY <1>2, <2>1, <3>1
    <3>2. CASE j > Len(s)
      <4>1. j - Len(s) \in 1 .. k - 1 /\ j = Len(s) + (j - Len(s))
        BY <1>2, <3>2
      <4>2. st[j] = t[j - Len(s)]
        BY <2>1, <4>1
      <4>. QED  BY <2>1, <2>2, <4>1, <4>2 DEF InPlace
    <3>. QED  BY <1>2, <3>1, <3>2
  <2>4. ASSUME st[i].handler \in Shadowed
        PROVE  \E j \in 1 .. i - 1 : Takes(st[j], st[i])
    <3>1. PICK j \in 1 .. k - 1 : Takes(t[j], t[k])
      BY <2>1, <2>2, <2>4 DEF InPlace
    <3>2. Len(s) + j \in 1 .. i - 1 /\ Takes(st[Len(s) + j], st[i])
      BY <1>2, <2>1, <3>1
    <3>. QED  BY <3>2
  <2>5. OfGroups(st[i], V \cup W)
    BY <2>1, <2>2 DEF OfGroups
  <2>. QED  BY <2>3, <2>4, <2>5 DEF InPlace
<1>5. ASSUME NEW i \in 1 .. Len(st) PROVE OfGroups(st[i], V \cup W) /\ InPlace(st, i)
  <2>1. CASE i <= Len(s)
    <3>1. i \in 1 .. Len(s)
      BY <1>2, <2>1
    <3>. QED  BY <1>3, <3>1
  <2>2. CASE i > Len(s)
    <3>1. i - Len(s) \in 1 .. Len(t) /\ i = Len(s) + (i - Len(s))
      BY <1>2, <2>2
    <3>. QED  BY <1>4, <3>1
  <2>. QED  BY <1>2, <2>1, <2>2
<1>. QED  BY <1>2, <1>5 DEF InOrder, st

LEMMA InOrderApart ==
  ASSUME NEW s, NEW t, NEW V, NEW W, InOrder(s, V), InOrder(t, W), V \cap W = {}
  PROVE  InOrder(s \o t, V \cup W)
<1>1. \A i \in 1 .. Len(s), j \in 1 .. Len(t) : Spared(s[i], t[j])
  BY OtherGroup DEF InOrder
<1>. QED  BY <1>1, InOrderJoined

LEMMA InOrderMounted ==
  ASSUME NEW met \in BOOLEAN, NEW s, NEW W, met => InOrder(s, W)
  PROVE  InOrder(If(met, s), W)
<1>1. PICK none : none = {}
  OBVIOUS
<1>2. <<>> \in Seq(none) /\ Len(<<>>) = 0
  BY <1>1
<1>3. InOrder(<<>>, W)
  BY <1>2 DEF InOrder
<1>4. CASE met
  BY <1>4 DEF If
<1>5. CASE ~met
  <2>1. If(met, s) = <<>>
    BY <1>5, Zenon DEF If
  <2>. QED  BY <1>3, <2>1, Zenon
<1>. QED  BY <1>4, <1>5

\* What the first route that matches is in a table in order.
LEMMA FirstInOrder ==
  ASSUME NEW W, InOrder(Table, W), NEW i \in DOMAIN Table
  PROVE  Answering(OwnRequest(Table[i])) = Table[i] <=> Table[i].handler \notin Shadowed
<1> DEFINE asked == OwnRequest(Table[i])
           M == Matching(asked)
<1>1. PICK R : Table \in Seq(R)
  BY DEF InOrder
<1>2. DOMAIN Table = 1 .. Len(Table) /\ Len(Table) \in Nat
  BY <1>1
<1>3. OfGroups(Table[i], W) /\ InPlace(Table, i)
  BY <1>2 DEF InOrder
<1>4. M = {j \in DOMAIN Table : Takes(Table[j], Table[i])}
  BY DEF Matching, Takes
<1>5. i \in M
  BY <1>3, <1>4, TakesItsOwn DEF OfGroups
<1> HIDE DEF M
<1>6. M \subseteq Nat /\ M # {}
  BY <1>2, <1>4, <1>5
<1>7. PICK m \in M : m = Min(M) /\ \A n \in M : m <= n
  <2>1. \E m \in M : \A n \in M : m <= n
    BY <1>6, LeastNumber
  <2>. QED  BY <2>1 DEF Min
<1>8. Answering(asked) = Table[m]
  BY <1>7 DEF Answering, M
<1>9. CASE Table[i].handler \notin Shadowed
  <2>1. \A j \in M : ~(j < i)
    BY <1>2, <1>3, <1>4, <1>9 DEF InPlace, Spared
  <2>2. m = i
    BY <1>2, <1>5, <1>6, <1>7, <2>1
  <2>. QED  BY <1>8, <1>9, <2>2
<1>10. CASE Table[i].handler \in Shadowed
  <2>1. PICK j \in 1 .. i - 1 : Takes(Table[j], Table[i])
    BY <1>3, <1>10 DEF InPlace
  <2>2. j \in M
    BY <1>2, <1>4, <2>1
  <2>3. m \in 1 .. Len(Table) /\ i \in Nat /\ m <= j
    BY <1>2, <1>4, <1>7, <2>2
  <2>. m \in 1 .. i - 1
    BY <1>2, <2>3
  <2>4. Table[m].handler # Table[i].handler
    BY <1>3, <1>10 DEF InPlace, Spared
  <2>. QED  BY <1>8, <1>10, <2>4
<1>. QED  BY <1>9, <1>10

\* A route by its handler, method and the words of its path of n words under
\* /api/v1, as far as they tell routes apart.
Shape(route, handler, method, n, third, fourth, fifth) ==
  /\ route.handler = handler /\ route.method = method
  /\ OnApi(route.path, n) /\ route.path[3] = third
  /\ n >= 4 => route.path[4] = fourth
  /\ n >= 5 => route.path[5] = fifth

LEMMA Shapes ==
  ASSUME NEW m, NEW h, NEW uses, NEW guarded
  PROVE  /\ \A a : Shape(Route(m, <<a>>, h, uses, guarded), h, m, 3, a, "", "")
         /\ \A a, b : Shape(Route(m, <<a, b>>, h, uses, guarded), h, m, 4, a, b, "")
         /\ \A a, b, c : Shape(Route(m, <<a, b, c>>, h, uses, guarded), h, m, 5, a, b, c)
         /\ \A a, b, c, d :
              Shape(Route(m, <<a, b, c, d>>, h, uses, guarded), h, m, 6, a, b, c)
<1>1. \A path : LET r == Route(m, path, h, uses, guarded) IN
        r.method = m /\ r.handler = h /\ r.path = Api(path)
  BY DEF Route, Api
<1>2. ASSUME NEW a PROVE Shape(Route(m, <<a>>, h, uses, guarded), h, m, 3, a, "", "")
  BY <1>1, Paths DEF Shape
<1>3. ASSUME NEW a, NEW b
      PROVE  Shape(Route(m, <<a, b>>, h, uses, guarded), h, m, 4, a, b, "")
  BY <1>1, Paths DEF Shape
<1>4. ASSUME NEW a, NEW b, NEW c
      PROVE  Shape(Route(m, <<a, b, c>>, h, uses, guarded), h, m, 5, a, b, c)
  BY <1>1, Paths DEF Shape
<1>5. ASSUME NEW a, NEW b, NEW c, NEW d
      PROVE  Shape(Route(m, <<a, b, c, d>>, h, uses, guarded), h, m, 6, a, b, c)
  BY <1>1, Paths DEF Shape
<1>. QED  BY <1>2, <1>3, <1>4, <1>5

\* What tells two routes under the same third word apart.
Unlike(r, q) ==
  \/ r.method # q.method
  \/ Len(r.path) # Len(q.path)
  \/ Len(q.path) >= 3 /\ r.path[3] \notin Parameters /\ r.path[3] # Word(q.path[3])
  \/ Len(q.path) >= 4 /\ r.path[4] \notin Parameters /\ r.path[4] # Word(q.path[4])
  \/ Len(q.path) >= 5 /\ r.path[5] \notin Parameters /\ r.path[5] # Word(q.path[5])

Open(s, i) == s[i].handler \notin Shadowed /\ \A j \in 1 .. i - 1 : Unlike(s[j], s[i])

LEMMA UnlikeApart ==
  ASSUME NEW V, NEW W, NEW r, NEW q, OfGroups(r, V), OfGroups(q, W), Unlike(r, q)
  PROVE  ~Takes(r, q)
  BY ToldApart DEF OfGroups, Unlike

LEMMA GroupInOrder ==
  ASSUME NEW W, NEW s, NEW R, s \in Seq(R), \A i \in 1 .. Len(s) : OfGroups(s[i], W),
         \A i \in 1 .. Len(s) : Open(s, i) \/ InPlace(s, i)
  PROVE  InOrder(s, W)
<1>1. ASSUME NEW i \in 1 .. Len(s), Open(s, i) PROVE InPlace(s, i)
  <2>1. ASSUME NEW j \in 1 .. i - 1 PROVE ~Takes(s[j], s[i])
    <3>1. j \in 1 .. Len(s)
      OBVIOUS
    <3>2. Unlike(s[j], s[i])
      BY <1>1 DEF Open
    <3>. QED  BY <3>1, <3>2, UnlikeApart
  <2>. QED  BY <1>1, <2>1 DEF InPlace, Spared, Open
<1>. QED  BY <1>1 DEF InOrder

\* Group by group.
LEMMA SessionsInOrder == InOrder(SessionRoutes, {"sessions"})
<1> DEFINE s == SessionRoutes
           W == {"sessions"}
<1>1. /\ Shape(s[1], "getSessionStats", "GET", 4, "sessions", "stats", "")
      /\ Shape(s[2], "cleanupSessions", "GET", 4, "sessions", "cleanup", "")
      /\ Shape(s[3], "removeSession", "DELETE", 4, "sessions", ":sessionKey", "")
  BY Shapes DEF SessionRoutes, Plain
<1>2. s \in Seq({s[i] : i \in 1 .. 3}) /\ Len(s) = 3
  <2>1. PICK a, b, c : SessionRoutes = <<a, b, c>>
    BY Zenon DEF SessionRoutes
  <2>. QED  BY <2>1, Tuples
<1> HIDE DEF s, W
<1> DEFINE Fits(r) == OfGroups(r, W)
<1>3. /\ Fits(s[1]) /\ Fits(s[2]) /\ Fits(s[3])
  <2>1. \A r, h, m, b, c : h \notin Shadowed =>
           /\ Shape(r, h, m, 3, "sessions", b, c) => Fits(r)
           /\ Shape(r, h, m, 4, "sessions", b, c) => Fits(r)
           /\ Shape(r, h, m, 5, "sessions", b, c) => Fits(r)
           /\ Shape(r, h, m, 6, "sessions", b, c) => Fits(r)
    BY DEF Shape, OnApi, OfGroups, Third, W, Parameters
  <2> HIDE DEF Fits
  <2>. QED  BY <1>1, <2>1 DEF Shadowed
<1>4. Open(s, 1) /\ Open(s, 2) /\ Open(s, 3)
  BY <1>1 DEF Open, Shape, Unlike, OnApi, Shadowed, Parameters, Word
<1>5. \A i \in 1 .. 3 : Fits(s[i])
  <2> HIDE DEF Fits
  <2>. QED  BY <1>3
<1>6. \A i \in 1 .. 3 : Open(s, i) \/ InPlace(s, i)
  BY <1>4
<1>. QED  BY <1>2, <1>5, <1>6, GroupInOrder DEF s, W

LEMMA IPMappingsInOrder == InOrder(IPMappingRoutes, {"sessions"})
<1> DEFINE s == IPMappingRoutes
           W == {"sessions"}
<1>1. /\ Shape(s[1], "getIPSessionStats", "GET", 4, "sessions", "ip-mappings", "")
      /\ Shape(s[2], "clearIPSessionMappings", "DELETE", 4, "sessions", "ip-mappings", "")
  BY Shapes DEF IPMappingRoutes, Plain
<1>2. s \in Seq({s[i] : i \in 1 .. 2}) /\ Len(s) = 2
  <2>1. PICK a, b : IPMappingRoutes = <<a, b>>
    BY Zenon DEF IPMappingRoutes
  <2>. QED  BY <2>1, Tuples
<1> HIDE DEF s, W
<1> DEFINE Fits(r) == OfGroups(r, W)
<1>3. /\ Fits(s[1]) /\ Fits(s[2])
  <2>1. \A r, h, m, b, c : h \notin Shadowed =>
           /\ Shape(r, h, m, 3, "sessions", b, c) => Fits(r)
           /\ Shape(r, h, m, 4, "sessions", b, c) => Fits(r)
           /\ Shape(r, h, m, 5, "sessions", b, c) => Fits(r)
           /\ Shape(r, h, m, 6, "sessions", b, c) => Fits(r)
    BY DEF Shape, OnApi, OfGroups, Third, W, Parameters
  <2> HIDE DEF Fits
  <2>. QED  BY <1>1, <2>1 DEF Shadowed
<1>4. Open(s, 1) /\ Open(s, 2)
  BY <1>1 DEF Open, Shape, Unlike, OnApi, Shadowed, Parameters, Word
<1>5. \A i \in 1 .. 2 : Fits(s[i])
  <2> HIDE DEF Fits
  <2>. QED  BY <1>3
<1>6. \A i \in 1 .. 2 : Open(s, i) \/ InPlace(s, i)
  BY <1>4
<1>. QED  BY <1>2, <1>5, <1>6, GroupInOrder DEF s, W

LEMMA APIInOrder == InOrder(APIRoutes, {"hello", "health"})
<1> DEFINE s == APIRoutes
           W == {"hello", "health"}
<1>1. /\ Shape(s[1], "helloGet", "GET", 3, "hello", "", "")
      /\ Shape(s[2], "helloPost", "POST", 3, "hello", "", "")
      /\ Shape(s[3], "health", "GET", 3, "health", "", "")
  BY Shapes DEF APIRoutes, Plain
<1>2. s \in Seq({s[i] : i \in 1 .. 3}) /\ Len(s) = 3
  <2>1. PICK a, b, c : APIRoutes = <<a, b, c>>
    BY Zenon DEF APIRoutes
  <2>. QED  BY <2>1, Tuples
<1> HIDE DEF s, W
<1> DEFINE Fits(r) == OfGroups(r, W)
<1>3. /\ Fits(s[1]) /\ Fits(s[2]) /\ Fits(s[3])
  <2>1. \A r, h, m, b, c : h \notin Shadowed =>
           /\ Shape(r, h, m, 3, "hello", b, c) => Fits(r)
           /\ Shape(r, h, m, 4, "hello", b, c) => Fits(r)
           /\ Shape(r, h, m, 5, "hello", b, c) => Fits(r)
           /\ Shape(r, h, m, 6, "hello", b, c) => Fits(r)
    BY DEF Shape, OnApi, OfGroups, Third, W, Parameters
  <2>2. \A r, h, m, b, c : h \notin Shadowed =>
           /\ Shape(r, h, m, 3, "health", b, c) => Fits(r)
           /\ Shape(r, h, m, 4, "health", b, c) => Fits(r)
           /\ Shape(r, h, m, 5, "health", b, c) => Fits(r)
           /\ Shape(r, h, m, 6, "health", b, c) => Fits(r)
    BY DEF Shape, OnApi, OfGroups, Third, W, Parameters
  <2> HIDE DEF Fits
  <2>. QED  BY <1>1, <2>1, <2>2 DEF Shadowed
<1>4. Open(s, 1) /\ Open(s, 2) /\ Open(s, 3)
  BY <1>1 DEF Open, Shape, Unlike, OnApi, Shadowed, Parameters, Word
<1>5. \A i \in 1 .. 3 : Fits(s[i])
  <2> HIDE DEF Fits
  <2>. QED  BY <1>3
<1>6. \A i \in 1 .. 3 : Open(s, i) \/ InPlace(s, i)
  BY <1>4
<1>. QED  BY <1>2, <1>5, <1>6, GroupInOrder DEF s, W

LEMMA CMSInOrder == InOrder(CMSRoutes, {"cms"})
<1> DEFINE s == CMSRoutes
           W == {"cms"}
<1>1. /\ Shape(s[1], "listAll", "GET", 4, "cms", ":name", "")
      /\ Shape(s[2], "getById", "GET", 5, "cms", ":name", ":id")
      /\ Shape(s[3], "reset", "GET", 5, "cms", "reset", ":name")
      /\ Shape(s[4], "resetAll", "GET", 4, "cms", "reset-all", "")
      /\ Shape(s[5], "deleteById", "DELETE", 5, "cms", ":name", ":id")
      /\ Shape(s[6], "delete", "DELETE", 4, "cms", ":name", "")
      /\ Shape(s[7], "deleteAll", "DELETE", 3, "cms", "", "")
      /\ Shape(s[8], "save", "POST", 5, "cms", "save", ":name")
      /\ Shape(s[9], "findFirstByExample", "POST", 5, "cms", "find", ":name")
      /\ Shape(s[10], "findAllByExample", "POST", 5, "cms", "find-all", ":name")
      /\ Shape(s[11], "saveDB", "POST", 4, "cms", "save-db", "")
      /\ Shape(s[12], "loadDB", "POST", 4, "cms", "load-db", "")
  BY Shapes DEF CMSRoutes, Plain
<1>2. s \in Seq({s[i] : i \in 1 .. 12}) /\ Len(s) = 12
  <2>1. PICK a, b, c, d, e, f, g, h, i, j, k, l :
             CMSRoutes = <<a, b, c, d, e, f, g, h, i, j, k, l>>
    BY Zenon DEF CMSRoutes
  <2>. QED  BY <2>1, Tuples
<1> HIDE DEF s, W
<1> DEFINE Fits(r) == OfGroups(r, W)
<1>3. /\ Fits(s[1]) /\ Fits(s[2]) /\ Fits(s[3])
      /\ Fits(s[4]) /\ Fits(s[5]) /\ Fits(s[6])
      /\ Fits(s[7]) /\ Fits(s[8]) /\ Fits(s[9])
      /\ Fits(s[10]) /\ Fits(s[11]) /\ Fits(s[12])
  <2>1. \A r, h, m, b, c :
           /\ Shape(r, h, m, 3, "cms", b, c) => Fits(r)
           /\ Shape(r, h, m, 4, "cms", b, c) => Fits(r)
           /\ Shape(r, h, m, 5, "cms", b, c) => Fits(r)
           /\ Shape(r, h, m, 6, "cms", b, c) => Fits(r)
    BY DEF Shape, OnApi, OfGroups, Third, W, Parameters
  <2> HIDE DEF Fits
  <2>. QED  BY <1>1, <2>1
<1>4. Open(s, 1) /\ Open(s, 2)
  BY <1>1 DEF Open, Shape, Unlike, OnApi, Shadowed, Parameters, Word
<1>5. InPlace(s, 3)
  <2>1. \A j \in 1 .. 2 : s[j].handler # s[3].handler
    BY <1>1 DEF Shape
  <2>2. OfGroups(s[2], W) /\ OfGroups(s[3], W)
    BY <1>3
  <2>3. LET own == OwnRequest(s[3]) IN
        /\ own.method = s[3].method /\ Len(own.path) = Len(s[3].path)
        /\ \A n \in 1 .. Len(s[3].path) : own.path[n] = Word(s[3].path[n])
    BY <2>2, OwnPath DEF OfGroups
  <2>4. Takes(s[2], s[3])
    BY <1>1, <2>3 DEF Takes, Matches, Shape, OnApi, Parameters, Word
  <2>. QED  BY <1>1, <2>1, <2>4 DEF InPlace, Spared, Shape, Shadowed
<1>6. InPlace(s, 4)
  <2>1. \A j \in 1 .. 3 : s[j].handler # s[4].handler
    BY <1>1 DEF Shape
  <2>2. OfGroups(s[1], W) /\ OfGroups(s[4], W)
    BY <1>3
  <2>3. LET own == OwnRequest(s[4]) IN
        /\ own.method = s[4].method /\ Len(own.path) = Len(s[4].path)
        /\ \A n \in 1 .. Len(s[4].path) : own.path[n] = Word(s[4].path[n])
    BY <2>2, OwnPath DEF OfGroups
  <2>4. Takes(s[1], s[4])
    BY <1>1, <2>3 DEF Takes, Matches, Shape, OnApi, Parameters, Word
  <2>. QED  BY <1>1, <2>1, <2>4 DEF InPlace, Spared, Shape, Shadowed
<1>7. /\ Open(s, 5) /\ Open(s, 6) /\ Open(s, 7) /\ Open(s, 8) /\ Open(s, 9)
      /\ Open(s, 10) /\ Open(s, 11) /\ Open(s, 12)
  BY <1>1 DEF Open, Shape, Unlike, OnApi, Shadowed, Parameters, Word
<1>8. \A i \in 1 .. 12 : Fits(s[i])
  <2> HIDE DEF Fits
  <2>. QED  BY <1>3
<1>9. \A i \in 1 .. 12 : Open(s, i) \/ InPlace(s, i)
  BY <1>4, <1>5, <1>6, <1>7
<1>. QED  BY <1>2, <1>8, <1>9, GroupInOrder DEF s, W

LEMMA UsersInOrder == InOrder(UserRoutes, {"users"})
<1> DEFINE s == UserRoutes
           W == {"users"}
<1>1. /\ Shape(s[1], "register", "POST", 4, "users", "register", "")
      /\ Shape(s[2], "login", "POST", 4, "users", "login", "")
      /\ Shape(s[3], "getConfig", "GET", 4, "users", "config", "")
      /\ Shape(s[4], "updateConfig", "PUT", 4, "users", "config", "")
  BY Shapes DEF UserRoutes, Plain
<1>2. s \in Seq({s[i] : i \in 1 .. 4}) /\ Len(s) = 4
  <2>1. PICK a, b, c, d : UserRoutes = <<a, b, c, d>>
    BY Zenon DEF UserRoutes
  <2>. QED  BY <2>1, Tuples
<1> HIDE DEF s, W
<1> DEFINE Fits(r) == OfGroups(r, W)
<1>3. /\ Fits(s[1]) /\ Fits(s[2]) /\ Fits(s[3])
      /\ Fits(s[4])
  <2>1. \A r, h, m, b, c : h \notin Shadowed =>
           /\ Shape(r, h, m, 3, "users", b, c) => Fits(r)
           /\ Shape(r, h, m, 4, "users", b, c) => Fits(r)
           /\ Shape(r, h, m, 5, "users", b, c) => Fits(r)
           /\ Shape(r, h, m, 6, "users", b, c) => Fits(r)
    BY DEF Shape, OnApi, OfGroups, Third, W, Parameters
  <2> HIDE DEF Fits
  <2>. QED  BY <1>1, <2>1 DEF Shadowed
<1>4. Open(s, 1) /\ Open(s, 2) /\ Open(s, 3) /\ Open(s, 4)
  BY <1>1 DEF Open, Shape, Unlike, OnApi, Shadowed, Parameters, Word
<1>5. \A i \in 1 .. 4 : Fits(s[i])
  <2> HIDE DEF Fits
  <2>. QED  BY <1>3
<1>6. \A i \in 1 .. 4 : Open(s, i) \/ InPlace(s, i)
  BY <1>4
<1>. QED  BY <1>2, <1>5, <1>6, GroupInOrder DEF s, W

LEMMA JobsInOrder == InOrder(JobRoutes, {"jobs"})
<1> DEFINE s == JobRoutes
           W == {"jobs"}
<1>1. /\ Shape(s[1], "createJob", "POST", 3, "jobs", "", "")
      /\ Shape(s[2], "startDummyJob", "POST", 4, "jobs", "start-dummy-job", "")
      /\ Shape(s[3], "listJobs", "GET", 3, "jobs", "", "")
      /\ Shape(s[4], "getJob", "GET", 4, "jobs", ":id", "")
  BY Shapes DEF JobRoutes, Plain
<1>2. s \in Seq({s[i] : i \in 1 .. 4}) /\ Len(s) = 4
  <2>1. PICK a, b, c, d : JobRoutes = <<a, b, c, d>>
    BY Zenon DEF JobRoutes
  <2>. QED  BY <2>1, Tuples
<1> HIDE DEF s, W
<1> DEFINE Fits(r) == OfGroups(r, W)
<1>3. /\ Fits(s[1]) /\ Fits(s[2]) /\ Fits(s[3])
      /\ Fits(s[4])
  <2>1. \A r, h, m, b, c : h \notin Shadowed =>
           /\ Shape(r, h, m, 3, "jobs", b, c) => Fits(r)
           /\ Shape(r, h, m, 4, "jobs", b, c) => Fits(r)
           /\ Shape(r, h, m, 5, "jobs", b, c) => Fits(r)
           /\ Shape(r, h, m, 6, "jobs", b, c) => Fits(r)
    BY DEF Shape, OnApi, OfGroups, Third, W, Parameters
  <2> HIDE DEF Fits
  <2>. QED  BY <1>1, <2>1 DEF Shadowed
<1>4. Open(s, 1) /\ Open(s, 2) /\ Open(s, 3) /\ Open(s, 4)
  BY <1>1 DEF Open, Shape, Unlike, OnApi, Shadowed, Parameters, Word
<1>5. \A i \in 1 .. 4 : Fits(s[i])
  <2> HIDE DEF Fits
  <2>. QED  BY <1>3
<1>6. \A i \in 1 .. 4 : Open(s, i) \/ InPlace(s, i)
  BY <1>4
<1>. QED  BY <1>2, <1>5, <1>6, GroupInOrder DEF s, W

LEMMA TasksInOrder == InOrder(TaskRoutes, {"tasks"})
<1> DEFINE s == TaskRoutes
           W == {"tasks"}
<1>1. /\ Shape(s[1], "createTask", "POST", 3, "tasks", "", "")
      /\ Shape(s[2], "listTasks", "GET", 3, "tasks", "", "")
      /\ Shape(s[3], "getTaskStats", "GET", 4, "tasks", "stats", "")
      /\ Shape(s[4], "getCleanupStatus", "GET", 5, "tasks", "cleanup", "status")
      /\ Shape(s[5], "runCleanup", "POST", 5, "tasks", "cleanup", "run")
      /\ Shape(s[6], "getTask", "GET", 4, "tasks", ":id", "")
      /\ Shape(s[7], "startTask", "POST", 5, "tasks", ":id", "start")
      /\ Shape(s[8], "cancelTask", "POST", 5, "tasks", ":id", "cancel")
      /\ Shape(s[9], "retryTask", "POST", 5, "tasks", ":id", "retry")
      /\ Shape(s[10], "getTaskStatus", "GET", 5, "tasks", ":id", "status")
  BY Shapes DEF TaskRoutes, Plain, OfTasks
<1>2. s \in Seq({s[i] : i \in 1 .. 10}) /\ Len(s) = 10
  <2>1. PICK a, b, c, d, e, f, g, h, i, j :
             TaskRoutes = <<a, b, c, d, e, f, g, h, i, j>>
    BY Zenon DEF TaskRoutes
  <2>. QED  BY <2>1, Tuples
<1> HIDE DEF s, W
<1> DEFINE Fits(r) == OfGroups(r, W)
<1>3. /\ Fits(s[1]) /\ Fits(s[2]) /\ Fits(s[3])
      /\ Fits(s[4]) /\ Fits(s[5]) /\ Fits(s[6])
      /\ Fits(s[7]) /\ Fits(s[8]) /\ Fits(s[9])
      /\ Fits(s[10])
  <2>1. \A r, h, m, b, c : h \notin Shadowed =>
           /\ Shape(r, h, m, 3, "tasks", b, c) => Fits(r)
           /\ Shape(r, h, m, 4, "tasks", b, c) => Fits(r)
           /\ Shape(r, h, m, 5, "tasks", b, c) => Fits(r)
           /\ Shape(r, h, m, 6, "tasks", b, c) => Fits(r)
    BY DEF Shape, OnApi, OfGroups, Third, W, Parameters
  <2> HIDE DEF Fits
  <2>. QED  BY <1>1, <2>1 DEF Shadowed
<1>4. /\ Open(s, 1) /\ Open(s, 2) /\ Open(s, 3) /\ Open(s, 4) /\ Open(s, 5)
      /\ Open(s, 6) /\ Open(s, 7) /\ Open(s, 8) /\ Open(s, 9) /\ Open(s, 10)
  BY <1>1 DEF Open, Shape, Unlike, OnApi, Shadowed, Parameters, Word
<1>5. \A i \in 1 .. 10 : Fits(s[i])
  <2> HIDE DEF Fits
  <2>. QED  BY <1>3
<1>6. \A i \in 1 .. 10 : Open(s, i) \/ InPlace(s, i)
  BY <1>4
<1>. QED  BY <1>2, <1>5, <1>6, GroupInOrder DEF s, W

LEMMA DemoInOrder == InOrder(DemoRoutes, {"demo"})
<1> DEFINE s == DemoRoutes
           W == {"demo"}
<1>1. /\ Shape(s[1], "createSampleTask", "POST", 5, "demo", "tasks", "sample")
      /\ Shape(s[2], "createFileProcessingTask", "POST", 5, "demo", "tasks", "file-processing")
      /\ Shape(s[3], "createAPICallTask", "POST", 5, "demo", "tasks", "api-call")
      /\ Shape(s[4], "createBatchTask", "POST", 5, "demo", "tasks", "batch")
      /\ Shape(s[5], "executeTask", "POST", 6, "demo", "tasks", ":id")
      /\ Shape(s[6], "getTaskResult", "GET", 6, "demo", "tasks", ":id")
  BY Shapes DEF DemoRoutes, Plain, OfTasks, DemoTask
<1>2. s \in Seq({s[i] : i \in 1 .. 6}) /\ Len(s) = 6
  <2>1. PICK a, b, c, d, e, f : DemoRoutes = <<a, b, c, d, e, f>>
    BY Zenon DEF DemoRoutes
  <2>. QED  BY <2>1, Tuples
<1> HIDE DEF s, W
<1> DEFINE Fits(r) == OfGroups(r, W)
<1>3. /\ Fits(s[1]) /\ Fits(s[2]) /\ Fits(s[3])
      /\ Fits(s[4]) /\ Fits(s[5]) /\ Fits(s[6])
  <2>1. \A r, h, m, b, c : h \notin Shadowed =>
           /\ Shape(r, h, m, 3, "demo", b, c) => Fits(r)
           /\ Shape(r, h, m, 4, "demo", b, c) => Fits(r)
           /\ Shape(r, h, m, 5, "demo", b, c) => Fits(r)
           /\ Shape(r, h, m, 6, "demo", b, c) => Fits(r)
    BY DEF Shape, OnApi, OfGroups, Third, W, Parameters
  <2> HIDE DEF Fits
  <2>. QED  BY <1>1, <2>1 DEF Shadowed
<1>4. /\ Open(s, 1) /\ Open(s, 2) /\ Open(s, 3) /\ Open(s, 4) /\ Open(s, 5)
      /\ Open(s, 6)
  BY <1>1 DEF Open, Shape, Unlike, OnApi, Shadowed, Parameters, Word
<1>5. \A i \in 1 .. 6 : Fits(s[i])
  <2> HIDE DEF Fits
  <2>. QED  BY <1>3
<1>6. \A i \in 1 .. 6 : Open(s, i) \/ InPlace(s, i)
  BY <1>4
<1>. QED  BY <1>2, <1>5, <1>6, GroupInOrder DEF s, W

LEMMA PageInOrder == InOrder(PageRoutes, {"page"})
<1>1. PICK page : page = [Plain("GET", <<>>, "page") EXCEPT !.path = <<"hello">>]
  OBVIOUS
<1>2. page.handler = "page" /\ Len(page.path) = 1 /\ DOMAIN page.path = 1 .. 1
  BY <1>1 DEF Plain, Route
<1>3. OfGroups(page, {"page"}) /\ page.handler \notin Shadowed
  BY <1>2 DEF OfGroups, Third, Parameters, Shadowed
<1>4. PageRoutes = <<page>>
  BY <1>1 DEF PageRoutes
<1>5. PageRoutes \in Seq({page}) /\ Len(PageRoutes) = 1 /\ PageRoutes[1] = page
  BY <1>4
<1>6. Open(PageRoutes, 1)
  BY <1>3, <1>5 DEF Open
<1>7. \A i \in 1 .. Len(PageRoutes) : OfGroups(PageRoutes[i], {"page"}) /\ Open(PageRoutes, i)
  <2>1. \A i \in 1 .. Len(PageRoutes) : i = 1
    BY <1>5
  <2>. QED  BY <1>3, <1>5, <1>6, <2>1
<1>. QED  BY <1>5, <1>7, GroupInOrder

\* The mappings of addresses come before the sessions, one of which takes any word.
LEMMA SessionTableInOrder == InOrder(SessionTable, {"sessions"})
<1> DEFINE s == IPMappingRoutes
           t == SessionRoutes
           W == {"sessions"}
<1>1. /\ Shape(s[1], "getIPSessionStats", "GET", 4, "sessions", "ip-mappings", "")
      /\ Shape(s[2], "clearIPSessionMappings", "DELETE", 4, "sessions", "ip-mappings", "")
      /\ Shape(t[1], "getSessionStats", "GET", 4, "sessions", "stats", "")
      /\ Shape(t[2], "cleanupSessions", "GET", 4, "sessions", "cleanup", "")
      /\ Shape(t[3], "removeSession", "DELETE", 4, "sessions", ":sessionKey", "")
  BY Shapes DEF IPMappingRoutes, SessionRoutes, Plain
<1>2. Len(s) = 2 /\ Len(t) = 3
  BY DEF IPMappingRoutes, SessionRoutes
<1>3. InOrder(s, W) /\ InOrder(t, W)
  BY IPMappingsInOrder, SessionsInOrder
<1> HIDE DEF s, t, W
<1>4. \A i \in 1 .. 2, j \in 1 .. 3 :
        Unlike(s[i], t[j]) /\ t[j].handler \notin Shadowed
  BY <1>1 DEF Shape, Unlike, OnApi, Shadowed, Parameters, Word
<1>5. ASSUME NEW i \in 1 .. Len(s), NEW j \in 1 .. Len(t) PROVE Spared(s[i], t[j])
  <2>1. OfGroups(s[i], W) /\ OfGroups(t[j], W)
    BY <1>3 DEF InOrder
  <2>2. Unlike(s[i], t[j]) /\ t[j].handler \notin Shadowed
    BY <1>2, <1>4
  <2>. QED  BY <2>1, <2>2, UnlikeApart DEF Spared
<1>6. InOrder(s \o t, W)
  <2>1. InOrder(s \o t, W \cup W)
    BY <1>3, <1>5, InOrderJoined
  <2>2. W \cup W = W
    OBVIOUS
  <2>. QED  BY <2>1, <2>2
<1>7. IsolatesSessions \in BOOLEAN /\ MountsIPMappings \in BOOLEAN
  BY DEF IsolatesSessions, MountsIPMappings
<1>8. InOrder(If(MountsIPMappings, s) \o t, W)
  <2>1. CASE MountsIPMappings
    BY <1>6, <2>1 DEF If
  <2>2. CASE ~MountsIPMappings
    <3>1. If(MountsIPMappings, s) = <<>>
      BY <2>2, Zenon DEF If
    <3>2. <<>> \o t = t
      BY <1>3 DEF InOrder
    <3>. QED  BY <1>3, <3>1, <3>2
  <2>. QED  BY <2>1, <2>2
<1>. QED  BY <1>7, <1>8, InOrderMounted DEF SessionTable, s, t, W

LEMMA TaskTableInOrder == InOrder(TaskTable, {"tasks", "demo"})
<1>1. {"tasks"} \cap {"demo"} = {} /\ {"tasks"} \cup {"demo"} = {"tasks", "demo"}
  OBVIOUS
<1>2. InOrder(TaskRoutes \o DemoRoutes, {"tasks"} \cup {"demo"})
  BY <1>1, TasksInOrder, DemoInOrder, InOrderApart
<1>3. InOrder(TaskRoutes \o DemoRoutes, {"tasks", "demo"})
  BY <1>1, <1>2
<1>4. HasTaskSystem \in BOOLEAN
  BY DEF HasTaskSystem, HasFactory, IsolatesSessions
<1>. QED  BY <1>3, <1>4, InOrderMounted DEF TaskTable

\* In every environment each route comes where nothing before it takes its requests,
\* the two shadowed ones excepted.
LEMMA TableInOrder == \E W : InOrder(Table, W)
<1> DEFINE A == {"page"}
           B == {"hello", "health"}
           C == {"sessions"}
           D == {"cms"}
           E == {"users"}
           F == {"jobs"}
           G == {"tasks", "demo"}
<1>1. /\ A \cap B = {} /\ (A \cup B) \cap C = {} /\ (A \cup B \cup C) \cap D = {}
      /\ (A \cup B \cup C \cup D) \cap E = {} /\ (A \cup B \cup C \cup D \cup E) \cap F = {}
      /\ (A \cup B \cup C \cup D \cup E) \cap G = {}
      /\ (A \cup B \cup C \cup D \cup E \cup F) \cap G = {}
  OBVIOUS
<1>2. /\ InOrder(PageRoutes, A) /\ InOrder(APIRoutes, B) /\ InOrder(SessionTable, C)
      /\ InOrder(CMSRoutes, D) /\ InOrder(UserRoutes, E) /\ InOrder(TaskTable, G)
  BY PageInOrder, APIInOrder, SessionTableInOrder, CMSInOrder, UsersInOrder,
     TaskTableInOrder
<1>3. InOrder(If(HasJobs, JobRoutes), F)
  <2>1. HasJobs \in BOOLEAN
    BY DEF HasJobs
  <2>. QED  BY <2>1, JobsInOrder, InOrderMounted
<1> HIDE DEF A, B, C, D, E, F, G
<1>4. InOrder(PageRoutes \o APIRoutes, A \cup B)
  BY <1>1, <1>2, InOrderApart
<1>5. InOrder(PageRoutes \o APIRoutes \o SessionTable, A \cup B \cup C)
  BY <1>1, <1>2, <1>4, InOrderApart
<1>6. InOrder(PageRoutes \o APIRoutes \o SessionTable \o CMSRoutes, A \cup B \cup C \cup D)
  BY <1>1, <1>2, <1>5, InOrderApart
<1>7. InOrder(PageRoutes \o APIRoutes \o SessionTable \o CMSRoutes \o UserRoutes,
              A \cup B \cup C \cup D \cup E)
  BY <1>1, <1>2, <1>6, InOrderApart
<1>8. InOrder(PrototypeTable, A \cup B \cup C \cup D \cup E \cup G)
  BY <1>1, <1>2, <1>7, InOrderApart DEF PrototypeTable
<1>9. InOrder(PageRoutes \o APIRoutes \o SessionTable \o CMSRoutes \o UserRoutes
                \o If(HasJobs, JobRoutes), A \cup B \cup C \cup D \cup E \cup F)
  BY <1>1, <1>3, <1>7, InOrderApart
<1>10. InOrder(ServerTable, A \cup B \cup C \cup D \cup E \cup F \cup G)
  BY <1>1, <1>2, <1>9, InOrderApart DEF ServerTable
<1>. QED  BY <1>8, <1>10, Zenon DEF Table

-----------------------------------------------------------------------------
(* The stages. *)

\* What a request for `asked` has by the time its handler runs.
Prepared(asked) ==
  /\ Matching(asked) # {}
  /\ NeedsTokenByMode(asked) =>
       request.user \in Users /\ request.key = Key("user", request.user)
         /\ request.database = request.key
  /\ NeedsTokenByRoute(asked) => request.user \in Users

RequestOk ==
  /\ env \in Environments
  /\ request \in [stage : Stages, asked : Asked \cup {NotAsked}, key : Keys,
                  database : Keys, user : Users \cup {Nobody}, answer : Answers]
  /\ request.stage # "idle" /\ HasFactory => request.database # NoKey
  /\ \A asked : request.asked = asked =>
       /\ request.stage = "guard" => ~NeedsTokenByMode(asked)
       /\ request.stage = "handling" => Prepared(asked)

MappingsOk == ipSessionMap \subseteq Addresses /\ MappedAddressesPass

JobsOk ==
  /\ jobs \subseteq Job
  /\ \A job \in jobs :
       job.owner = job.creator \/ (job.owner = Nobody /\ IsAdmin(job.creator))

PathInv == RequestOk /\ MappingsOk /\ JobsOk

\* The environment of a life of the server, and so its wiring, never changes.
LEMMA SameEnvironment == Next => env' = env
  BY DEF Next, Refuse, Arrive, EndEarly, HasNoToken, BodyRead, TokenRefused, UserFound,
         HandlerFails, HandleOther, ClearIPSessionMappings, CreateSystemJob, CreateJob,
         NoJobType, GetJob

LEMMA SameWiring ==
  ASSUME env' = env, NEW asked, NEW address
  PROVE  /\ HasFactory' <=> HasFactory
         /\ NeedsTokenByMode(asked)' <=> NeedsTokenByMode(asked)
         /\ NeedsTokenByRoute(asked)' <=> NeedsTokenByRoute(asked)
         /\ Matching(asked)' = Matching(asked)
         /\ AutoMapsIP' <=> AutoMapsIP
         /\ Passes(address)' <=> Passes(address)
<1>1. HasFactory' <=> HasFactory
  BY DEF HasFactory, IsolatesSessions
<1>2. HasJobs' <=> HasJobs
  BY DEF HasJobs
<1>3. NeedsTokenByMode(asked)' <=> NeedsTokenByMode(asked)
  BY <1>1 DEF NeedsTokenByMode, FullAuthMode
<1>4. Table' = Table
  BY DEF Table, PrototypeTable, ServerTable, SessionTable, TaskTable, HasJobs,
         HasTaskSystem, HasFactory, IsolatesSessions, MountsIPMappings
<1>5. Matching(asked)' = Matching(asked) /\ Answering(asked)' = Answering(asked)
  BY <1>4 DEF Matching, Answering
<1>6. NeedsTokenByRoute(asked)' <=> NeedsTokenByRoute(asked)
  BY <1>2, <1>5 DEF NeedsTokenByRoute
<1>7. AutoMapsIP' <=> AutoMapsIP
  BY DEF AutoMapsIP
<1>8. Passes(address)' <=> Passes(address)
  BY DEF Passes, Restricts, AllowsLocal
<1>. QED  BY <1>1, <1>3, <1>5, <1>6, <1>7, <1>8

RequestType ==
  [stage : Stages, asked : Asked \cup {NotAsked}, key : Keys, database : Keys,
   user : Users \cup {Nobody}, answer : Answers]

\* To answer ends the request.
LEMMA AnsweringKeeps ==
  ASSUME RequestOk, env' = env, NEW status \in Answers, Answer(status)
  PROVE  RequestOk'
<1>1. request' = [stage |-> "idle", asked |-> NotAsked, key |-> NoKey, database |-> NoKey,
                  user |-> Nobody, answer |-> status]
  BY DEF Answer, Answered, Request
<1>2. NoKey \in Keys /\ "idle" \in Stages
  BY DEF Keys, Stages
<1>3. request' \in RequestType /\ request'.stage = "idle"
  BY <1>1, <1>2 DEF RequestType
<1>4. "idle" # "guard" /\ "idle" # "handling"
  OBVIOUS
<1>. QED  BY <1>3, <1>4 DEF RequestOk, RequestType

\* A bound request goes to its route with what that one takes for granted.
LEMMA DispatchKeeps ==
  ASSUME RequestOk, env' = env, NEW bound \in RequestType,
         HasFactory => bound.database # NoKey,
         NeedsTokenByMode(bound.asked) =>
           bound.user \in Users /\ bound.key = Key("user", bound.user)
             /\ bound.database = bound.key,
         NeedsTokenByRoute(bound.asked) => bound.user \in Users,
         Dispatch(bound)
  PROVE  RequestOk'
<1>1. CASE Matching(bound.asked) = {}
  BY <1>1, AnsweringKeeps DEF Dispatch, Answers
<1>2. CASE Matching(bound.asked) # {}
  <2>1. request' = [bound EXCEPT !.stage = "handling"]
    BY <1>2 DEF Dispatch
  <2>2. /\ request' \in RequestType
        /\ request'.stage = "handling" /\ request'.asked = bound.asked
        /\ request'.key = bound.key /\ request'.database = bound.database
        /\ request'.user = bound.user
    BY <2>1 DEF RequestType, Stages
  <2>3. PICK asked : asked = bound.asked
    OBVIOUS
  <2>4. /\ HasFactory' <=> HasFactory
        /\ Matching(asked)' = Matching(asked)
        /\ NeedsTokenByMode(asked)' <=> NeedsTokenByMode(asked)
        /\ NeedsTokenByRoute(asked)' <=> NeedsTokenByRoute(asked)
    BY SameWiring
  <2>5. Prepared(asked)'
    BY <1>2, <2>2, <2>3, <2>4 DEF Prepared
  <2>6. (HasFactory => request.database # NoKey)'
    BY <2>2, <2>4
  <2>7. request'.stage # "guard"
    BY <2>2
  <2>. QED  BY <2>2, <2>3, <2>5, <2>6, <2>7 DEF RequestOk, RequestType
<1>. QED  BY <1>1, <1>2

\* The user is waited for with the request as it was.
LEMMA WaitingKeeps ==
  ASSUME RequestOk, env' = env, NEW stage \in {"mode", "guard"},
         request.stage = "received",
         stage = "guard" => ~NeedsTokenByMode(request.asked),
         request' = [request EXCEPT !.stage = stage]
  PROVE  RequestOk'
<1>1. request \in RequestType
  BY DEF RequestOk, RequestType
<1>2. /\ request' \in RequestType
      /\ request'.stage = stage /\ request'.asked = request.asked
      /\ request'.database = request.database
  BY <1>1 DEF RequestType, Stages
<1>3. PICK asked : asked = request.asked
  OBVIOUS
<1>4. /\ HasFactory' <=> HasFactory
      /\ NeedsTokenByMode(asked)' <=> NeedsTokenByMode(asked)
  BY SameWiring
<1>5. (HasFactory => request.database # NoKey)'
  BY <1>2, <1>4 DEF RequestOk
<1>6. stage = "guard" => ~NeedsTokenByMode(asked)'
  BY <1>3, <1>4
<1>7. stage # "handling"
  OBVIOUS
<1>. QED  BY <1>2, <1>3, <1>5, <1>6, <1>7 DEF RequestOk, RequestType

LEMMA ArrivalKeeps ==
  ASSUME RequestOk, env' = env, NEW asked \in Asked, NEW address \in Addresses,
         Receive(asked, address)
  PROVE  RequestOk'
<1>1. HasFactory' <=> HasFactory
  BY SameWiring
<1>2. PICK key \in Keys : /\ HasFactory => key # NoKey
                          /\ request' = Request("received", asked, key, key, Nobody)
  <2>1. CASE HasFactory
    BY <2>1 DEF Receive, SessionKeys, Keys, Key, NoKey
  <2>2. CASE ~HasFactory
    BY <2>2 DEF Receive, Keys
  <2>. QED  BY <2>1, <2>2
<1>3. /\ request' \in RequestType
      /\ request'.stage = "received" /\ request'.database = key
  BY <1>2 DEF Request, RequestType, Stages, Answers
<1>. QED  BY <1>1, <1>2, <1>3 DEF RequestOk, RequestType

LEMMA RequestKept == RequestOk /\ Next => RequestOk'
<1> SUFFICES ASSUME RequestOk, Next PROVE RequestOk'
  OBVIOUS
<1>1. env' = env /\ request \in RequestType
  BY SameEnvironment DEF RequestOk, RequestType
<1>2. ASSUME NEW address \in Addresses, Refuse(address) PROVE RequestOk'
  BY <1>1, <1>2, AnsweringKeeps DEF Refuse, Answers
<1>3. ASSUME NEW address \in Addresses, NEW asked \in Asked, Arrive(asked, address)
      PROVE  RequestOk'
  BY <1>1, <1>3, ArrivalKeeps DEF Arrive
<1>4. ASSUME NEW status \in {204, 404}, EndEarly(status) PROVE RequestOk'
  BY <1>1, <1>4, AnsweringKeeps DEF EndEarly, Answers
<1>5. CASE HasNoToken \/ TokenRefused \/ HandlerFails \/ HandleOther
             \/ ClearIPSessionMappings \/ NoJobType \/ GetJob
  BY <1>1, <1>5, AnsweringKeeps
     DEF HasNoToken, TokenRefused, HandlerFails, HandleOther, ClearIPSessionMappings,
         NoJobType, GetJob, Answers
<1>6. CASE CreateSystemJob \/ CreateJob
  BY <1>1, <1>6, AnsweringKeeps DEF CreateSystemJob, CreateJob, Insert, Answers
<1>7. CASE BodyRead
  <2>1. CASE NeedsTokenByMode(request.asked)
    BY <1>1, <1>7, <2>1, WaitingKeeps DEF BodyRead
  <2>2. CASE ~NeedsTokenByMode(request.asked) /\ NeedsTokenByRoute(request.asked)
    BY <1>1, <1>7, <2>2, WaitingKeeps DEF BodyRead
  <2>3. CASE ~NeedsTokenByMode(request.asked) /\ ~NeedsTokenByRoute(request.asked)
    <3>1. PICK bound : bound = request
      OBVIOUS
    <3>2. HasFactory => bound.database # NoKey
      BY <1>7, <3>1 DEF BodyRead, RequestOk
    <3>3. Dispatch(bound)
      BY <1>7, <2>3, <3>1 DEF BodyRead
    <3>. QED  BY <1>1, <2>3, <3>1, <3>2, <3>3, DispatchKeeps
  <2>. QED  BY <2>1, <2>2, <2>3
<1>8. ASSUME NEW user \in Users, UserFound(user) PROVE RequestOk'
  <2>1. CASE request.stage = "mode"
    <3>1. PICK bound : bound = [request EXCEPT !.user = user, !.key = Key("user", user),
                                               !.database = Key("user", user)]
      OBVIOUS
    <3>2. Key("user", user) \in Keys /\ Key("user", user) # NoKey
      BY DEF Keys, Key, NoKey
    <3>3. /\ bound \in RequestType
          /\ bound.user = user /\ bound.key = Key("user", user)
          /\ bound.database = Key("user", user)
      BY <1>1, <3>1, <3>2 DEF RequestType
    <3>4. Dispatch(bound)
      BY <1>8, <2>1, <3>1 DEF UserFound
    <3>. QED  BY <1>1, <3>2, <3>3, <3>4, DispatchKeeps
  <2>2. CASE request.stage = "guard"
    <3>1. PICK bound : bound = [request EXCEPT !.user = user]
      OBVIOUS
    <3>2. /\ bound \in RequestType
          /\ bound.user = user /\ bound.asked = request.asked
          /\ bound.database = request.database
      BY <1>1, <3>1 DEF RequestType
    <3>3. ~NeedsTokenByMode(bound.asked) /\ (HasFactory => bound.database # NoKey)
      BY <2>2, <3>2 DEF RequestOk
    <3>4. Dispatch(bound)
      BY <1>8, <2>2, <3>1 DEF UserFound
    <3>. QED  BY <1>1, <3>2, <3>3, <3>4, DispatchKeeps
  <2>. QED  BY <1>8, <2>1, <2>2 DEF UserFound
<1>. QED  BY <1>2, <1>3, <1>4, <1>5, <1>6, <1>7, <1>8 DEF Next

\* What a handler that runs finds.
LEMMA Handled ==
  ASSUME RequestOk, request.stage = "handling"
  PROVE  LET route == Answering(request.asked)
         IN  /\ Good(route) /\ Matches(route, request.asked)
             /\ Prepared(request.asked)
             /\ route.guarded => request.user \in Users
<1>1. PICK asked : asked = request.asked
  OBVIOUS
<1>2. Prepared(asked)
  BY <1>1 DEF RequestOk
<1>3. Good(Answering(asked)) /\ Matches(Answering(asked), asked)
  BY <1>2, AnsweringRoute DEF Prepared
<1>4. Answering(asked).guarded => request.user \in Users
  BY <1>2, Zenon DEF Prepared, NeedsTokenByRoute
<1>. QED  BY <1>1, <1>2, <1>3, <1>4

\* An address is mapped when it passes, in an environment that maps addresses.
LEMMA MappingsKept == PathInv /\ Next => MappingsOk'
<1> SUFFICES ASSUME PathInv, Next PROVE MappingsOk'
  OBVIOUS
<1>1. env' = env
  BY SameEnvironment
<1>2. /\ HasFactory' <=> HasFactory
      /\ AutoMapsIP' <=> AutoMapsIP
      /\ \A address : Passes(address)' <=> Passes(address)
  BY <1>1, SameWiring
<1>3. ipSessionMap \subseteq Addresses /\ MappedAddressesPass
  BY DEF PathInv, MappingsOk
<1>4. ASSUME NEW address \in Addresses, NEW asked \in Asked, Arrive(asked, address)
      PROVE  MappingsOk'
  <2>1. Passes(address)
    BY <1>4 DEF Arrive
  <2>2. CASE ipSessionMap' = ipSessionMap
    BY <1>2, <1>3, <2>2 DEF MappingsOk, MappedAddressesPass
  <2>3. CASE ipSessionMap' # ipSessionMap
    <3>1. PICK key \in SessionKeys(address) : key.kind = "ip"
      BY <1>4, <2>3 DEF Arrive, Receive
    <3>2. HasFactory /\ ipSessionMap' = ipSessionMap \cup {address}
      BY <1>4, <2>3 DEF Arrive, Receive
    <3>3. AutoMapsIP
      BY <3>1 DEF SessionKeys, Key
    <3>. QED  BY <1>2, <1>3, <2>1, <3>2, <3>3 DEF MappingsOk, MappedAddressesPass
  <2>. QED  BY <2>2, <2>3
<1>5. CASE ClearIPSessionMappings
  BY <1>5 DEF ClearIPSessionMappings, MappingsOk, MappedAddressesPass
<1>6. CASE ipSessionMap' = ipSessionMap
  BY <1>2, <1>3, <1>6 DEF MappingsOk, MappedAddressesPass
<1>7. \/ ClearIPSessionMappings \/ ipSessionMap' = ipSessionMap
      \/ \E address \in Addresses : \E asked \in Asked : Arrive(asked, address)
  BY DEF Next, Refuse, EndEarly, HasNoToken, BodyRead, TokenRefused, UserFound,
         HandlerFails, HandleOther, CreateSystemJob, CreateJob, NoJobType, GetJob
<1>. QED  BY <1>4, <1>5, <1>6, <1>7

\* A job is created for the user who asks for it, and without an owner by admins only.
LEMMA JobsKept == PathInv /\ Next => JobsOk'
<1> SUFFICES ASSUME PathInv, Next PROVE JobsOk'
  OBVIOUS
<1>1. /\ jobs \subseteq Job
      /\ \A job \in jobs :
           job.owner = job.creator \/ (job.owner = Nobody /\ IsAdmin(job.creator))
  BY DEF PathInv, JobsOk
<1>2. ASSUME Handling(CreatingHandlers) PROVE request.user \in Users
  <2>1. request.stage = "handling" /\ Answering(request.asked).handler \in CreatingHandlers
    BY <1>2 DEF Handling
  <2>2. Good(Answering(request.asked))
          /\ (Answering(request.asked).guarded => request.user \in Users)
    BY <2>1, Handled DEF PathInv
  <2>. QED  BY <2>1, <2>2, Zenon DEF Good, Provided
<1>3. ASSUME NEW owner \in Users \cup {Nobody}, Insert(owner), request.user \in Users,
             owner = request.user \/ (owner = Nobody /\ IsAdmin(request.user))
      PROVE  JobsOk'
  <2>1. PICK job : job = [owner |-> owner, creator |-> request.user]
    OBVIOUS
  <2>2. /\ job \in Job
        /\ job.owner = job.creator \/ (job.owner = Nobody /\ IsAdmin(job.creator))
    BY <1>3, <2>1 DEF Job
  <2>3. jobs' = jobs \cup {job}
    BY <1>3, <2>1 DEF Insert
  <2>. QED  BY <1>1, <2>2, <2>3 DEF JobsOk, IsAdmin
<1>4. CASE jobs' = jobs
  BY <1>1, <1>4 DEF JobsOk, IsAdmin
<1>5. CASE CreateJob
  <2>1. request.user \in Users
    BY <1>2, <1>5 DEF CreateJob, CreatingHandlers
  <2>. QED  BY <1>3, <1>5, <2>1 DEF CreateJob
<1>6. CASE CreateSystemJob /\ jobs' # jobs
  <2>1. request.user \in Users
    BY <1>2, <1>6 DEF CreateSystemJob, CreatingHandlers, Handling
  <2>. QED  BY <1>3, <1>6, <2>1 DEF CreateSystemJob
<1>7. jobs' = jobs \/ CreateJob \/ CreateSystemJob
  BY DEF Next, Refuse, Arrive, EndEarly, HasNoToken, BodyRead, TokenRefused, UserFound,
         HandlerFails, HandleOther, ClearIPSessionMappings, NoJobType, GetJob
<1>. QED  BY <1>4, <1>5, <1>6, <1>7

-----------------------------------------------------------------------------
(* The theorems. *)

LEMMA PathInitially == Init => PathInv
<1> SUFFICES ASSUME Init PROVE PathInv
  OBVIOUS
<1>1. request = [stage |-> "idle", asked |-> NotAsked, key |-> NoKey, database |-> NoKey,
                 user |-> Nobody, answer |-> 0]
  BY DEF Init, Answered, Request
<1>2. NoKey \in Keys /\ "idle" \in Stages /\ 0 \in Answers
  BY DEF Keys, Stages, Answers
<1>3. request.stage # "guard" /\ request.stage # "handling"
  BY <1>1
<1>4. RequestOk
  BY <1>1, <1>2, <1>3 DEF Init, RequestOk
<1>5. MappingsOk /\ JobsOk
  BY DEF Init, MappingsOk, MappedAddressesPass, JobsOk
<1>. QED  BY <1>4, <1>5 DEF PathInv

LEMMA PathInvariant == Spec => []PathInv
<1>1. PathInv /\ [Next]_vars => PathInv'
  <2> SUFFICES ASSUME PathInv, [Next]_vars PROVE PathInv'
    OBVIOUS
  <2>1. CASE Next
    BY <2>1, RequestKept, MappingsKept, JobsKept DEF PathInv
  <2>2. CASE UNCHANGED vars
    <3>1. env' = env /\ request' = request /\ ipSessionMap' = ipSessionMap /\ jobs' = jobs
      BY <2>2 DEF vars
    <3>2. /\ HasFactory' <=> HasFactory
          /\ AutoMapsIP' <=> AutoMapsIP
          /\ \A address : Passes(address)' <=> Passes(address)
          /\ \A asked : /\ Matching(asked)' = Matching(asked)
                        /\ NeedsTokenByMode(asked)' <=> NeedsTokenByMode(asked)
                        /\ NeedsTokenByRoute(asked)' <=> NeedsTokenByRoute(asked)
      BY <3>1, SameWiring
    <3>3. \A asked : Prepared(asked)' <=> Prepared(asked)
      BY <3>1, <3>2 DEF Prepared
    <3>4. RequestOk'
      BY <3>1, <3>2, <3>3 DEF PathInv, RequestOk
    <3>5. MappingsOk'
      BY <3>1, <3>2 DEF PathInv, MappingsOk, MappedAddressesPass
    <3>6. JobsOk'
      BY <3>1 DEF PathInv, JobsOk, IsAdmin
    <3>. QED  BY <3>4, <3>5, <3>6 DEF PathInv
  <2>. QED  BY <2>1, <2>2
<1>. QED  BY <1>1, PathInitially, PTL DEF Spec

\* Every request, mapping and job is of its type, in every environment
\* (src/src/server.ts:120).
THEOREM PathTypes == Spec => []TypeOK
<1>1. PathInv => TypeOK
  BY DEF PathInv, RequestOk, MappingsOk, JobsOk, TypeOK
<1>. QED  BY <1>1, PathInvariant, PTL

\* What a handler takes for granted of its request is there, in every
\* environment: `req.sessionDatabase!` (src/src/task/task-manager.ts:15), `req.user!`
\* and the job repository (src/src/routes/job.routes.ts:20).
THEOREM WiringProvides == Spec => []HandlersHaveWhatTheyUse
<1>1. PathInv => HandlersHaveWhatTheyUse
  <2> SUFFICES ASSUME PathInv, request.stage = "handling"
               PROVE  LET uses == Answering(request.asked).uses IN
                      /\ "database" \in uses => request.database # NoKey
                      /\ "user" \in uses => request.user # Nobody
                      /\ "jobRepository" \in uses => HasJobs
    BY DEF HandlersHaveWhatTheyUse
  <2>1. PICK route : route = Answering(request.asked)
    OBVIOUS
  <2>2. Good(route) /\ (route.guarded => request.user \in Users)
    BY <2>1, Handled DEF PathInv
  <2>3. /\ "user" \in route.uses => route.guarded
        /\ "database" \in route.uses => HasFactory
        /\ "jobRepository" \in route.uses => HasJobs
    BY <2>2, Zenon DEF Good, Provided
  <2>4. HasFactory => request.database # NoKey
    BY DEF PathInv, RequestOk
  <2>5. "user" \in route.uses => request.user # Nobody
    BY <2>2, <2>3, PathAssumption
  <2>. QED  BY <2>1, <2>3, <2>4, <2>5
<1>. QED  BY <1>1, PathInvariant, PTL

\* In full mode a CMS, session or task route, asked for in the letters of the
\* prefixes, works for the user of the token and in that user's database
\* (src/src/middleware/auth-mode.middleware.ts:38).
THEOREM UsersWorkInTheirOwn == Spec => []WorksForItsUser
<1>1. PathInv => WorksForItsUser
  <2> SUFFICES ASSUME PathInv, request.stage = "handling", FullAuthMode, HasFactory,
                      Answering(request.asked).handler \in
                        {r.handler : r \in Range(SessionTable \o CMSRoutes \o TaskTable)},
                      SpeltAsMounted(request.asked,
                                     IF request.asked.path[3] = "demo" THEN 2 ELSE 1)
               PROVE  /\ request.user # Nobody
                      /\ request.key = Key("user", request.user)
                      /\ request.database = request.key
    BY DEF WorksForItsUser
  <2>1. PICK route, asked : route = Answering(request.asked) /\ asked = request.asked
    OBVIOUS
  <2>2. Good(route) /\ Matches(route, asked) /\ Prepared(asked)
    BY <2>1, Handled DEF PathInv
  <2>3. route.handler \notin FreeHandlers
    BY <2>1, ScopedHandlers
  <2>4. IsScopedPath(asked)
    BY <2>1, <2>2, <2>3, ScopedByPath DEF Good
  <2>5. NeedsTokenByMode(asked)
    BY <2>4 DEF NeedsTokenByMode
  <2>. QED  BY <2>2, <2>5, PathAssumption DEF Prepared
<1>. QED  BY <1>1, PathInvariant, PTL

\* Only addresses that pass the restriction are mapped to sessions, and only
\* where mapping is on (src/src/middleware/session-database.ts:82).
THEOREM OnlyPassingAddressesAreMapped == Spec => []MappedAddressesPass
<1>1. PathInv => MappedAddressesPass
  BY DEF PathInv, MappingsOk
<1>. QED  BY <1>1, PathInvariant, PTL

\* Who created a job can read and list it, a system job included
\* (src/src/routes/job.routes.ts:130).
THEOREM CreatorsKeepAccess == Spec => []CreatorsReadTheirJobs
<1>1. PathInv => CreatorsReadTheirJobs
  BY DEF PathInv, JobsOk, CreatorsReadTheirJobs, CanAccess, Listed
<1>. QED  BY <1>1, PathInvariant, PTL

\* A request in other letters finds the same route.
LEMMA LettersDoNotMatter ==
  ASSUME NEW asked, NEW route, OwnRequest(route) = [asked EXCEPT !.capitals = {}]
  PROVE  Answering(asked) = Answering(OwnRequest(route))
<1>1. asked.method = OwnRequest(route).method /\ asked.path = OwnRequest(route).path
  BY DEF OwnRequest
<1>2. \A r : Matches(r, asked) <=> Matches(r, OwnRequest(route))
  BY <1>1 DEF Matches
<1>. QED  BY <1>2 DEF Answering, Matching

\* In every environment each mounted route but `reset` and `resetAll` answers the
\* request it is there for, and these two never do: the routes of the CMS with a
\* parameter in the place of their words come first (src/src/cms.ts:102).
THEOREM RoutesAreReached == Spec => []RoutesAnswerTheirPaths
<1>1. RoutesAnswerTheirPaths
  <2>1. PICK W : InOrder(Table, W)
    BY TableInOrder
  <2>2. \A i \in DOMAIN Table :
          Answering(OwnRequest(Table[i])) = Table[i] <=> Table[i].handler \notin Shadowed
    BY <2>1, FirstInOrder
  <2>. QED  BY <2>2, LettersDoNotMatter DEF RoutesAnswerTheirPaths
<1>. QED  BY <1>1, PTL

=============================================================================
