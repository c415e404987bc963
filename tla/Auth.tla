--------------------------------- MODULE Auth ---------------------------------
(***************************************************************************)
(* Who may call the API (auth.go).  With BACKFLOW_API_KEY set, one token   *)
(* opens everything.  Without it, the api_keys table decides: while it is  *)
(* empty, anybody passes; else a request needs a key with the scope of its *)
(* route.  Whether the table is empty is cached, and asked anew after a    *)
(* time by the first requests that find the answer too old; nothing tells  *)
(* the server when keys are inserted, removed or expire.                   *)
(*                                                                         *)
(* Time is counted in ticks.  The module follows one middleware; the one   *)
(* of /debug/stats is another instance, with a cache of its own.           *)
(***************************************************************************)
EXTENDS Integers

CONSTANTS
    Client,      \* requests that may be served at once
    Key,         \* the keys that may be in the table
    Routes,      \* the routes that are called
    Grants,      \* the sets of scopes that keys are given
    TTL,         \* hasKeysCacheTTL, in ticks
    MaxLookup    \* bound: ticks from the query for keys to its answer's storing

VARIABLES
    static,      \* BACKFLOW_API_KEY is set
    keys,        \* the rows of api_keys
    expired,     \* the keys whose expires_at has passed
    permissions, \* permissions[k]: the scopes of key k
    cache,       \* what cachedHas says and the age of cachedAt
    req,         \* req[c]: a request on its way through the middleware
    ago          \* ago[h]: ticks since HasAPIKeys would last have answered h

table == <<static, keys, expired, permissions>>
vars == <<table, cache, req, ago>>

Scope == {"health:read", "stats:read", "tasks:read", "tasks:write"}

Route == [method : {"GET", "POST", "DELETE"},
          path : {"/health", "/debug/stats", "/tasks", "/tasks/id", "/tasks/id/logs",
                  "/tasks/id/output", "/tasks/id/output.json", "/tasks/id/retry"}]

ASSUME AuthAssumption ==
    /\ TTL \in Nat \ {0} /\ MaxLookup \in Nat
    /\ Routes \subseteq Route /\ Grants \subseteq SUBSET Scope

\* What parseBearerToken finds: no token, that of a key, or another one.
Token == Key \cup {"none", "static", "other"}

\* What HasAPIKeys says of the table.
Found == {"keys", "nokeys"}
HasKeys == IF keys = {} THEN "nokeys" ELSE "keys"

\* Ticks are not counted beyond this many.
Horizon == TTL + MaxLookup + 1

NoAnswer == "none"
Refused == {"401", "403", "500"}
Passed == {"open", "key", "static"}

Idle == [at |-> "idle", route |-> [method |-> "GET", path |-> "/health"],
         token |-> "none", has |-> "nokeys", wait |-> 0, answer |-> NoAnswer]

Request == [at : {"idle", "cache", "lookup", "store", "key", "answered"},
            route : Route, token : Token, has : Found, wait : 0 .. MaxLookup,
            answer : Passed \cup Refused \cup {NoAnswer}]

\* The cache is a truth value with an age, a request is somewhere in the
\* middleware, and what it is refused with is a 401, a 403 or a 500.
TypeOK ==
    /\ static \in BOOLEAN
    /\ keys \subseteq Key /\ expired \subseteq Key
    /\ permissions \in [Key -> SUBSET Scope]
    /\ cache \in [has : Found, age : 0 .. TTL]
    /\ req \in [Client -> Request]
    /\ ago \in [Found -> 0 .. Horizon]

\* An age of TTL also stands for a cachedAt that was never set.
Init ==
    /\ static \in BOOLEAN
    /\ keys \in SUBSET Key /\ expired = {}
    /\ permissions \in [Key -> Grants]
    /\ cache = [has |-> "nokeys", age |-> TTL]
    /\ req = [c \in Client |-> Idle]
    /\ ago = [h \in Found |-> IF h = HasKeys THEN 0 ELSE Horizon]

----------------------------------------------------------------------------
(* Scopes.                                                                 *)

TaskPaths == {"/tasks/id", "/tasks/id/logs", "/tasks/id/output",
              "/tasks/id/output.json", "/tasks/id/retry"}

\* requiredScopeForRequest: the scope, or "" when there is none.
ScopeOf(route) ==
    LET get == route.method = "GET" IN
    CASE get /\ route.path = "/health"      -> "health:read"
      [] get /\ route.path = "/debug/stats" -> "stats:read"
      [] get /\ route.path \in TaskPaths \cup {"/tasks"} -> "tasks:read"
      [] route.method = "POST" /\ route.path \in {"/tasks", "/tasks/id/retry"} -> "tasks:write"
      [] route.method = "DELETE" /\ route.path \in TaskPaths -> "tasks:write"
      [] OTHER -> ""

----------------------------------------------------------------------------
(* The middleware.                                                         *)

Become(c, r) == req' = [req EXCEPT ![c] = r]

Answer(c, has, a) ==
    Become(c, [Idle EXCEPT !.at = "answered", !.has = has, !.answer = a])

\* What is done once it is known whether there are keys.
Decide(c, has) ==
    IF has = "nokeys" THEN Answer(c, has, "open")
    ELSE IF req[c].token = "none" THEN Answer(c, has, "401")
    ELSE Become(c, [req[c] EXCEPT !.at = "key", !.has = has, !.wait = 0])

\* A request arrives; with a static token it is decided at once.
Arrive(c) ==
    /\ req[c].at = "idle"
    /\ IF static
       THEN \E token \in Token :
              Answer(c, "nokeys", IF token = "static" THEN "static" ELSE "401")
       ELSE \E route \in Routes, token \in Token \ {"static"} :
              Become(c, [Idle EXCEPT !.at = "cache", !.route = route, !.token = token])
    /\ UNCHANGED <<table, cache, ago>>

\* Mutation: an answer that is used does not age.
ReadCache_Sliding(c) ==
    /\ req[c].at = "cache"
    /\ IF cache.age < TTL
       THEN Decide(c, cache.has) /\ cache' = [cache EXCEPT !.age = 0]
       ELSE Become(c, [req[c] EXCEPT !.at = "lookup"]) /\ UNCHANGED cache
    /\ UNCHANGED <<table, ago>>

\* Mutation: once there are keys, nobody asks again.
ReadCache_KeysStay(c) ==
    /\ req[c].at = "cache"
    /\ IF cache.has = "keys" \/ cache.age < TTL
       THEN Decide(c, cache.has)
       ELSE Become(c, [req[c] EXCEPT !.at = "lookup"])
    /\ UNCHANGED <<table, cache, ago>>

\* cachedHasAPIKeys, under the lock for the first time...
ReadCache(c) ==
    /\ req[c].at = "cache"
    /\ IF cache.age < TTL
       THEN Decide(c, cache.has)
       ELSE Become(c, [req[c] EXCEPT !.at = "lookup"])
    /\ UNCHANGED <<table, cache, ago>>

\* ... HasAPIKeys, without the lock, which expired keys count for; an error is
\* not cached...
Lookup(c) ==
    /\ req[c].at = "lookup"
    /\ \/ Become(c, [req[c] EXCEPT !.at = "store", !.has = HasKeys])
       \/ Answer(c, "nokeys", "500")
    /\ UNCHANGED <<table, cache, ago>>

\* ... and under the lock once more: the last to store wins, and its answer
\* counts as new from now.
Store(c) ==
    /\ req[c].at = "store"
    /\ cache' = [has |-> req[c].has, age |-> 0]
    /\ Decide(c, req[c].has)
    /\ UNCHANGED <<table, ago>>

\* Mutation: a read needs no scope.
Permitted_AnyRead(k, route) ==
    /\ ScopeOf(route) # ""
    /\ route.method = "GET" \/ ScopeOf(route) \in permissions[k]

\* GetAPIKeyByHash finds a row; its expires_at has passed; it has the scope.
InTable(k) == k \in keys
Expired(k) == k \in expired
Permitted(k, route) == ScopeOf(route) # "" /\ ScopeOf(route) \in permissions[k]

\* The key decides; an error of the store is a 401 as well.
LookupKey(c) ==
    /\ req[c].at = "key"
    /\ LET k == req[c].token IN
       \/ /\ InTable(k) /\ ~Expired(k)
          /\ Answer(c, "keys", IF Permitted(k, req[c].route) THEN "key" ELSE "403")
       \/ Answer(c, "keys", "401")
    /\ UNCHANGED <<table, cache, ago>>

Leave(c) ==
    /\ req[c].at = "answered"
    /\ Become(c, Idle)
    /\ UNCHANGED <<table, cache, ago>>

----------------------------------------------------------------------------
(* The world.                                                              *)

Smaller(m, n) == IF m < n THEN m ELSE n

\* Time passes; no query for keys takes longer than MaxLookup.
Tick ==
    /\ \A c \in Client : req[c].at = "store" => req[c].wait < MaxLookup
    /\ cache' = [cache EXCEPT !.age = Smaller(@ + 1, TTL)]
    /\ req' = [c \in Client |->
                 IF req[c].at = "store" THEN [req[c] EXCEPT !.wait = @ + 1] ELSE req[c]]
    /\ ago' = [h \in Found |-> IF h = HasKeys THEN 0 ELSE Smaller(ago[h] + 1, Horizon)]
    /\ UNCHANGED table

\* Somebody inserts a key, or removes one, with a tool of their own.
ChangeKeys ==
    /\ \E k \in Key : keys' \in {keys \cup {k}, keys \ {k}}
    /\ keys' # keys
    /\ ago' = [ago EXCEPT ![HasKeys'] = 0]
    /\ UNCHANGED <<static, expired, permissions, cache, req>>

KeyExpires ==
    /\ \E k \in Key \ expired : expired' = expired \cup {k}
    /\ UNCHANGED <<static, keys, permissions, cache, req, ago>>

\* What the goroutine of a request does.
Handle(c) == ReadCache(c) \/ Lookup(c) \/ Store(c) \/ LookupKey(c) \/ Leave(c)

Next ==
    \/ \E c \in Client : Arrive(c) \/ Handle(c)
    \/ Tick \/ ChangeKeys \/ KeyExpires

Spec == Init /\ [][Next]_vars

\* Clocks and goroutines go on.
FairSpec == Spec /\ WF_vars(Tick) /\ \A c \in Client : WF_vars(Handle(c))

----------------------------------------------------------------------------
(* What keys are good for.                                                 *)

\* A decision in which has says whether keys are required.
Decides(c) ==
    /\ req[c].at \in {"cache", "store"}
    /\ req'[c].at \in {"answered", "key"}

\* However slow lookups and late storing interleave, a request is let in without
\* a key, or asked for one, only when that was right at some time in the last
\* TTL, and the time that a lookup takes.
StalenessIsBounded ==
    [][\A c \in Client : Decides(c) => ago[req'[c].has] < TTL + MaxLookup]_vars

\* The scope that openapi.yaml documents for a route: what is no read needs the
\* one to write; health and statistics, and the tasks, each have one to read.
Documented(route) ==
    IF route.method # "GET" THEN "tasks:write"
    ELSE IF route.path = "/health" THEN "health:read"
    ELSE IF route.path = "/debug/stats" THEN "stats:read"
    ELSE "tasks:read"

\* A key is good for the routes of its scopes and no longer than it lives: a
\* request passes by key only in a step that finds its key in the table, not
\* expired, and with the scope documented for the request's own route, to read as
\* well as to write; whatever the cache said of the table before.
KeysOpenTheirRoutes ==
    [][\A c \in Client :
         req[c].answer # "key" /\ req'[c].answer = "key" =>
            /\ req[c].token \in keys \ expired
            /\ Documented(req[c].route) \in permissions[req[c].token]]_vars

\* The cache follows the table: when keys have come, or gone, for good, every
\* request is decided accordingly in the end.
CacheFollowsTable ==
    \A h \in Found :
        <>[](HasKeys = h) =>
            <>[](\A c \in Client : req[c].at \in {"answered", "key"} /\ req[c].answer # "500"
                                       /\ ~static => req[c].has = h)
=============================================================================
