----------------------------- MODULE AuthProofs -----------------------------
(***************************************************************************)
(* Proofs about the middleware: types, how stale its cached answer may be, *)
(* and what a key opens, for any number of requests, keys and routes.      *)
(***************************************************************************)
EXTENDS Auth, TLAPS

\* What the middleware makes of a request is a request, and leaves the rest of
\* the state well typed.
LEMMA IdleType == Idle \in Request
BY AuthAssumption DEF Idle, Request, Route, Token, NoAnswer, Found

LEMMA BecomeType ==
    ASSUME TypeOK, NEW c \in Client, NEW r \in Request, Become(c, r),
           UNCHANGED <<table, ago>>, cache' \in [has : Found, age : 0 .. TTL]
    PROVE  TypeOK'
BY DEF TypeOK, Become, table

LEMMA AnswerType ==
    ASSUME TypeOK, NEW c \in Client, NEW has \in Found, NEW a \in Passed \cup Refused,
           Answer(c, has, a),
           UNCHANGED <<table, ago>>, cache' \in [has : Found, age : 0 .. TTL]
    PROVE  TypeOK'
<1>1. [Idle EXCEPT !.at = "answered", !.has = has, !.answer = a] \in Request
    BY IdleType DEF Request, Found
<1> QED BY <1>1, BecomeType DEF Answer

LEMMA DecideType ==
    ASSUME TypeOK, NEW c \in Client, NEW has \in Found, Decide(c, has),
           UNCHANGED <<table, ago>>, cache' \in [has : Found, age : 0 .. TTL]
    PROVE  TypeOK'
<1>1. CASE has = "nokeys"
    BY <1>1, AnswerType DEF Decide, Passed
<1>2. CASE has # "nokeys" /\ req[c].token = "none"
    BY <1>2, AnswerType DEF Decide, Refused
<1>3. CASE has # "nokeys" /\ req[c].token # "none"
    <2>1. [req[c] EXCEPT !.at = "key", !.has = has, !.wait = 0] \in Request
        <3>1. req[c] \in Request /\ 0 \in 0 .. MaxLookup
            BY AuthAssumption DEF TypeOK
        <3> QED BY <3>1 DEF Request
    <2> QED BY <1>3, <2>1, BecomeType DEF Decide
<1> QED BY <1>1, <1>2, <1>3

LEMMA Typing == TypeOK /\ [Next]_vars => TypeOK'
<1> SUFFICES ASSUME TypeOK, [Next]_vars PROVE TypeOK'
    OBVIOUS
<1> USE AuthAssumption
<1>0. cache \in [has : Found, age : 0 .. TTL] /\ cache.has \in Found
    BY DEF TypeOK
<1>1. ASSUME NEW c \in Client, Arrive(c) PROVE TypeOK'
    <2>1. ASSUME NEW route \in Routes, NEW token \in Token,
                 Become(c, [Idle EXCEPT !.at = "cache", !.route = route, !.token = token])
          PROVE  TypeOK'
        <3>1. [Idle EXCEPT !.at = "cache", !.route = route, !.token = token] \in Request
            BY IdleType DEF Request, Found
        <3> QED BY <1>0, <1>1, <2>1, <3>1, BecomeType DEF Arrive
    <2>2. ASSUME NEW token \in Token,
                 Answer(c, "nokeys", IF token = "static" THEN "static" ELSE "401")
          PROVE  TypeOK'
        BY <1>0, <1>1, <2>2, AnswerType DEF Arrive, Passed, Refused, Found
    <2> QED BY <1>1, <2>1, <2>2 DEF Arrive
<1>2. ASSUME NEW c \in Client, ReadCache(c) PROVE TypeOK'
    <2>1. [req[c] EXCEPT !.at = "lookup"] \in Request
        BY DEF TypeOK, Request
    <2> QED BY <1>0, <1>2, <2>1, DecideType, BecomeType DEF ReadCache
<1>3. ASSUME NEW c \in Client, Lookup(c) PROVE TypeOK'
    <2>1. [req[c] EXCEPT !.at = "store", !.has = HasKeys] \in Request
        <3>1. req[c] \in Request
            BY DEF TypeOK
        <3>2. HasKeys \in Found
            BY DEF HasKeys, Found
        <3> QED BY <3>1, <3>2 DEF Request
    <2> QED BY <1>0, <1>3, <2>1, AnswerType, BecomeType DEF Lookup, Refused, Found
<1>4. ASSUME NEW c \in Client, Store(c) PROVE TypeOK'
    <2>1. req[c].has \in Found
        BY DEF TypeOK, Request
    <2>2. cache' \in [has : Found, age : 0 .. TTL]
        BY <1>4, <2>1 DEF Store
    <2> QED BY <1>4, <2>1, <2>2, DecideType DEF Store
<1>5. ASSUME NEW c \in Client, LookupKey(c) PROVE TypeOK'
    <2>1. PICK a \in Passed \cup Refused : Answer(c, "keys", a)
        BY <1>5 DEF LookupKey, Passed, Refused
    <2> QED BY <1>0, <1>5, <2>1, AnswerType DEF LookupKey, Found
<1>6. ASSUME NEW c \in Client, Leave(c) PROVE TypeOK'
    BY <1>0, <1>6, IdleType, BecomeType DEF Leave
<1>7. ASSUME Tick PROVE TypeOK'
    <2>1. cache' \in [has : Found, age : 0 .. TTL]
        BY <1>7 DEF Tick, TypeOK, Smaller
    <2>2. req' \in [Client -> Request]
        <3>1. ASSUME NEW c \in Client, req[c].at = "store"
              PROVE  [req[c] EXCEPT !.wait = @ + 1] \in Request
            BY <1>7, <3>1 DEF Tick, TypeOK, Request
        <3> QED BY <1>7, <3>1 DEF Tick, TypeOK
    <2>3. ago' \in [Found -> 0 .. Horizon]
        BY <1>7 DEF Tick, TypeOK, Smaller, Horizon
    <2> QED BY <1>7, <2>1, <2>2, <2>3 DEF Tick, TypeOK, table
<1>8. ASSUME ChangeKeys PROVE TypeOK'
    BY <1>8 DEF ChangeKeys, TypeOK, Horizon, HasKeys, Found
<1>9. ASSUME KeyExpires \/ UNCHANGED vars PROVE TypeOK'
    BY <1>9 DEF KeyExpires, vars, table, TypeOK
<1> QED BY <1>1, <1>2, <1>3, <1>4, <1>5, <1>6, <1>7, <1>8, <1>9 DEF Next, Handle

LEMMA TypingInit == Init => TypeOK
<1> SUFFICES ASSUME Init PROVE TypeOK
    OBVIOUS
<1>1. permissions \in [Key -> SUBSET Scope]
    BY AuthAssumption DEF Init
<1>2. ago \in [Found -> 0 .. Horizon]
    BY AuthAssumption DEF Init, Horizon, Found
<1> QED BY <1>1, <1>2, IdleType, AuthAssumption DEF Init, TypeOK, Found

\* The state stays well typed however requests, time and keys come: in
\* particular an answer never waits for its storing longer than a lookup takes.
THEOREM TypeCorrect == Spec => []TypeOK
<1> QED BY Typing, TypingInit, PTL DEF Spec

----------------------------------------------------------------------------
(* How old an answer may be, wherever it is.                               *)

FreshInv ==
    /\ ago[HasKeys] = 0
    /\ \A c \in Client : req[c].at = "store" => ago[req[c].has] <= req[c].wait
    /\ cache.age < TTL => ago[cache.has] <= cache.age + MaxLookup

LEMMA HasKeysFound == HasKeys \in Found
BY DEF HasKeys, Found

LEMMA FreshInit == Init => FreshInv
<1> SUFFICES ASSUME Init PROVE FreshInv
    OBVIOUS
<1>1. ago[HasKeys] = 0
    BY HasKeysFound DEF Init
<1>2. \A c \in Client : req[c].at = "idle"
    BY DEF Init, Idle
<1>3. ~(cache.age < TTL)
    BY AuthAssumption DEF Init
<1> QED BY <1>1, <1>2, <1>3 DEF FreshInv

\* Where a step is not about the cache, time or the table, the cached answer and
\* those about to be stored stay as they are.
LEMMA Untouched ==
    ASSUME TypeOK, FreshInv, NEW c \in Client,
           UNCHANGED <<table, cache, ago>>,
           NEW r, Become(c, r), r.at # "store"
    PROVE  FreshInv'
<1>1. HasKeys' = HasKeys
    BY DEF table, HasKeys
<1>2. \A d \in Client : req'[d] = IF d = c THEN r ELSE req[d]
    BY DEF TypeOK, Become
<1> QED BY <1>1, <1>2 DEF FreshInv

\* The answers that a request may get, and where it then is.
LEMMA AnswerIs ==
    ASSUME TypeOK, NEW c \in Client, NEW has, NEW a, Answer(c, has, a)
    PROVE  /\ Become(c, req'[c])
           /\ req'[c].at = "answered" /\ req'[c].has = has /\ req'[c].answer = a
BY DEF TypeOK, Answer, Become, Idle

LEMMA DecideIs ==
    ASSUME TypeOK, NEW c \in Client, NEW has \in Found, Decide(c, has)
    PROVE  /\ Become(c, req'[c])
           /\ req'[c].at \in {"answered", "key"} /\ req'[c].has = has
           /\ req'[c].answer \in {req[c].answer, "open", "401"}
<1>1. CASE has = "nokeys" \/ req[c].token = "none"
    BY <1>1, AnswerIs DEF Decide
<1>2. CASE has # "nokeys" /\ req[c].token # "none"
    <2> DEFINE r == [req[c] EXCEPT !.at = "key", !.has = has, !.wait = 0]
    <2>1. Become(c, r)
        BY <1>2 DEF Decide
    <2>2. req'[c] = r
        BY <2>1 DEF Become, TypeOK
    <2>3. r.at = "key" /\ r.has = has /\ r.answer = req[c].answer
        BY DEF TypeOK, Request
    <2> HIDE DEF r
    <2> QED BY <2>1, <2>2, <2>3
<1> QED BY <1>1, <1>2

LEMMA FreshStep == TypeOK /\ FreshInv /\ [Next]_vars => FreshInv'
<1> SUFFICES ASSUME TypeOK, FreshInv, [Next]_vars PROVE FreshInv'
    OBVIOUS
<1> USE AuthAssumption
<1>0. cache.has \in Found /\ \A c \in Client : req[c].has \in Found
    BY DEF TypeOK, Request
<1>1. ASSUME NEW c \in Client, Arrive(c) PROVE FreshInv'
    <2>1. CASE static
        BY <1>1, <2>1, Untouched, AnswerIs DEF Arrive
    <2>2. CASE ~static
        BY <1>1, <2>2, Untouched DEF Arrive, Idle
    <2> QED BY <2>1, <2>2
<1>2. ASSUME NEW c \in Client, ReadCache(c) PROVE FreshInv'
    <2>1. CASE cache.age < TTL
        BY <1>0, <1>2, <2>1, Untouched, DecideIs DEF ReadCache
    <2>2. CASE ~(cache.age < TTL)
        BY <1>2, <2>2, Untouched DEF ReadCache, TypeOK, Request
    <2> QED BY <2>1, <2>2
<1>3. ASSUME NEW c \in Client, Lookup(c) PROVE FreshInv'
    <2>1. CASE Answer(c, "nokeys", "500")
        BY <1>3, <2>1, Untouched, AnswerIs DEF Lookup
    <2>2. CASE Become(c, [req[c] EXCEPT !.at = "store", !.has = HasKeys])
        <3>1. HasKeys' = HasKeys
            BY <1>3 DEF Lookup, table, HasKeys
        <3>2. req'[c].has = HasKeys /\ req'[c].wait = req[c].wait /\ req[c].wait >= 0
            BY <2>2 DEF Become, TypeOK, Request
        <3>3. \A d \in Client \ {c} : req'[d] = req[d]
            BY <2>2 DEF Become, TypeOK
        <3> QED BY <1>3, <3>1, <3>2, <3>3 DEF Lookup, FreshInv
    <2> QED BY <1>3, <2>1, <2>2 DEF Lookup
<1>4. ASSUME NEW c \in Client, Store(c) PROVE FreshInv'
    <2>1. HasKeys' = HasKeys
        BY <1>4 DEF Store, table, HasKeys
    <2>2. \A d \in Client : req'[d].at = "store" => req'[d] = req[d]
        BY <1>0, <1>4, DecideIs DEF Store, Become, TypeOK
    <2>3. ago[req[c].has] <= MaxLookup
        BY <1>0, <1>4 DEF Store, FreshInv, TypeOK, Request
    <2> QED BY <1>4, <2>1, <2>2, <2>3 DEF Store, FreshInv
<1>5. ASSUME NEW c \in Client, LookupKey(c) PROVE FreshInv'
    BY <1>5, Untouched, AnswerIs DEF LookupKey
<1>6. ASSUME NEW c \in Client, Leave(c) PROVE FreshInv'
    BY <1>6, Untouched DEF Leave, Idle
<1>7. ASSUME Tick PROVE FreshInv'
    <2>1. HasKeys' = HasKeys
        BY <1>7 DEF Tick, table, HasKeys
    <2>2. ago'[HasKeys] = 0
        BY <1>7, HasKeysFound DEF Tick
    <2>3. \A h \in Found : ago'[h] \in Nat /\ ago[h] \in Nat /\ ago'[h] <= ago[h] + 1
        BY <1>7 DEF Tick, TypeOK, Smaller, Horizon
    <2>4. ASSUME NEW c \in Client, req'[c].at = "store"
          PROVE  ago'[req'[c].has] <= req'[c].wait
        <3>1. req[c].at = "store" /\ req'[c].has = req[c].has /\ req'[c].wait = req[c].wait + 1
            BY <1>7, <2>4 DEF Tick, TypeOK, Request
        <3>2. req[c].wait \in Nat
            BY DEF TypeOK, Request
        <3> QED BY <1>0, <2>3, <3>1, <3>2 DEF FreshInv
    <2>5. ASSUME cache'.age < TTL PROVE ago'[cache'.has] <= cache'.age + MaxLookup
        <3>1. cache.age < TTL /\ cache'.age = cache.age + 1 /\ cache'.has = cache.has
              /\ cache.age \in Nat
            BY <1>7, <2>5 DEF Tick, TypeOK, Smaller
        <3> QED BY <1>0, <2>3, <3>1 DEF FreshInv
    <2> QED BY <2>1, <2>2, <2>4, <2>5 DEF FreshInv
<1>8. ASSUME ChangeKeys PROVE FreshInv'
    <2>1. ago'[HasKeys'] = 0
        BY <1>8 DEF ChangeKeys, TypeOK, HasKeys, Found
    <2>2. \A h \in Found : ago'[h] <= ago[h]
        BY <1>8 DEF ChangeKeys, TypeOK
    <2>3. \A h \in Found : ago'[h] \in Nat /\ ago[h] \in Nat
        BY <1>8 DEF ChangeKeys, TypeOK, Horizon
    <2>4. \A c \in Client : req[c].wait \in Nat
        BY DEF TypeOK, Request
    <2> QED BY <1>0, <1>8, <2>1, <2>2, <2>3, <2>4 DEF ChangeKeys, FreshInv, TypeOK
<1>9. ASSUME KeyExpires \/ UNCHANGED vars PROVE FreshInv'
    BY <1>9 DEF KeyExpires, vars, table, FreshInv, HasKeys
<1> QED BY <1>1, <1>2, <1>3, <1>4, <1>5, <1>6, <1>7, <1>8, <1>9 DEF Next, Handle

\* Nobody decides about a request but its own goroutine, at the cache or when it
\* has stored an answer.
LEMMA WhoDecides ==
    ASSUME TypeOK, [Next]_vars, NEW c \in Client, Decides(c)
    PROVE  \/ ReadCache(c) /\ cache.age < TTL /\ req'[c].has = cache.has
           \/ Store(c) /\ req'[c].has = req[c].has
<1>0. cache.has \in Found /\ \A d \in Client : req[d].has \in Found
    BY DEF TypeOK, Request
<1>1. ASSUME NEW d \in Client, NEW r, Become(d, r) PROVE c = d
    BY <1>1 DEF Become, TypeOK, Decides
<1>2. ASSUME NEW d \in Client, Arrive(d) \/ Lookup(d) \/ LookupKey(d) \/ Leave(d)
      PROVE  FALSE
    <2>1. c = d
        BY <1>1, <1>2 DEF Arrive, Lookup, LookupKey, Leave, Answer
    <2> QED BY <1>2, <2>1 DEF Decides, Arrive, Lookup, LookupKey, Leave, Become, TypeOK, Request
<1>3. ASSUME NEW d \in Client, ReadCache(d)
      PROVE  c = d /\ cache.age < TTL /\ req'[c].has = cache.has
    <2>1. c = d
        BY <1>0, <1>1, <1>3, DecideIs DEF ReadCache
    <2>2. cache.age < TTL
        BY <1>3, <2>1 DEF ReadCache, Decides, Become, TypeOK, Request
    <2> QED BY <1>0, <1>3, <2>1, <2>2, DecideIs DEF ReadCache
<1>4. ASSUME NEW d \in Client, Store(d) PROVE c = d /\ req'[c].has = req[c].has
    BY <1>0, <1>1, <1>4, DecideIs DEF Store
<1>5. ASSUME Tick PROVE FALSE
    BY <1>5 DEF Tick, Decides, TypeOK, Request
<1>6. ASSUME ChangeKeys \/ KeyExpires \/ UNCHANGED vars PROVE FALSE
    BY <1>6 DEF ChangeKeys, KeyExpires, vars, Decides
<1> QED BY <1>2, <1>3, <1>4, <1>5, <1>6 DEF Next, Handle

\* However many requests overlap and however late they store what they have
\* found, no request is decided by an answer that was not true at some time in
\* the last TTL and the time of a lookup.
THEOREM BoundedStaleness == Spec => StalenessIsBounded
<1>1. TypeOK /\ FreshInv /\ [Next]_vars =>
        [\A c \in Client : Decides(c) => ago[req'[c].has] < TTL + MaxLookup]_vars
    <2> SUFFICES ASSUME TypeOK, FreshInv, [Next]_vars, NEW c \in Client, Decides(c)
                 PROVE  ago[req'[c].has] < TTL + MaxLookup
        OBVIOUS
    <2>1. CASE ReadCache(c) /\ cache.age < TTL /\ req'[c].has = cache.has
        <3>1. cache.age \in Nat /\ cache.has \in Found /\ ago[cache.has] \in Nat
            BY DEF TypeOK, Horizon
        <3> QED BY <2>1, <3>1, AuthAssumption DEF FreshInv
    <2>2. CASE Store(c) /\ req'[c].has = req[c].has
        <3>1. req[c].has \in Found /\ req[c].wait \in 0 .. MaxLookup
            BY DEF TypeOK, Request
        <3>2. ago[req[c].has] \in Nat /\ ago[req[c].has] <= req[c].wait
            BY <2>2, <3>1, AuthAssumption DEF Store, FreshInv, TypeOK, Horizon
        <3> QED BY <2>2, <3>1, <3>2, AuthAssumption
    <2> QED BY <2>1, <2>2, WhoDecides
<1> QED BY <1>1, Typing, TypingInit, FreshInit, FreshStep, PTL DEF Spec, StalenessIsBounded

----------------------------------------------------------------------------
\* The scope that the code asks for, when it asks for one, is the documented one.
LEMMA ScopeIsDocumented ==
    ASSUME NEW route \in Route, ScopeOf(route) # ""
    PROVE  ScopeOf(route) = Documented(route)
<1> DEFINE get == route.method = "GET"
<1>1. CASE get /\ route.path = "/health"
    BY <1>1 DEF ScopeOf, Documented, TaskPaths
<1>2. CASE get /\ route.path = "/debug/stats"
    BY <1>2 DEF ScopeOf, Documented, TaskPaths
<1>3. CASE get /\ route.path \in TaskPaths \cup {"/tasks"}
    BY <1>3 DEF ScopeOf, Documented, TaskPaths
<1>4. CASE ~get
    BY <1>4 DEF ScopeOf, Documented
<1> QED BY <1>1, <1>2, <1>3, <1>4 DEF ScopeOf

\* A request passes by a key only in the step that has looked the key up and found
\* it alive and with the scope documented for the request's own route, for any set
\* of routes and any scopes of the keys.
THEOREM KeysOpenOnlyTheirRoutes == Spec => KeysOpenTheirRoutes
<1>1. ASSUME TypeOK, [Next]_vars, NEW c \in Client,
             req[c].answer # "key", req'[c].answer = "key"
      PROVE  /\ req[c].token \in keys \ expired
             /\ Documented(req[c].route) \in permissions[req[c].token]
    <2>0. cache.has \in Found /\ \A d \in Client : req[d].has \in Found
        BY <1>1 DEF TypeOK, Request
    <2>1. ASSUME NEW d \in Client, NEW r, Become(d, r) PROVE c = d
        BY <1>1, <2>1 DEF Become, TypeOK
    <2>2. ASSUME NEW d \in Client, Decide(d, cache.has) \/ Decide(d, req[d].has) PROVE FALSE
        BY <1>1, <2>0, <2>1, <2>2, DecideIs
    <2>3. ASSUME NEW d \in Client, NEW has, NEW a, Answer(d, has, a), a # "key" PROVE FALSE
        BY <1>1, <2>1, <2>3, AnswerIs
    <2>4. ASSUME NEW d \in Client, NEW r, Become(d, r), r.answer # "key" PROVE FALSE
        BY <1>1, <2>1, <2>4 DEF Become, TypeOK
    <2>5. ASSUME NEW d \in Client, Arrive(d) \/ ReadCache(d) \/ Lookup(d) \/ Store(d) \/ Leave(d)
          PROVE  FALSE
        <3>1. ASSUME Arrive(d) PROVE FALSE
            <4>1. CASE static
                BY <2>3, <3>1, <4>1 DEF Arrive
            <4>2. CASE ~static
                BY <2>4, <3>1, <4>2 DEF Arrive, Idle, NoAnswer
            <4> QED BY <4>1, <4>2
        <3>2. ASSUME Become(d, [req[d] EXCEPT !.at = "lookup"])
                     \/ Become(d, [req[d] EXCEPT !.at = "store", !.has = HasKeys])
              PROVE  FALSE
            <4>1. c = d
                BY <2>1, <3>2
            <4>2. req'[c].answer = req[c].answer
                <5>1. c \in DOMAIN req /\ req[c] \in Request
                    BY <1>1 DEF TypeOK
                <5>2. req'[c] \in {[req[c] EXCEPT !.at = "lookup"],
                                  [req[c] EXCEPT !.at = "store", !.has = HasKeys]}
                    BY <3>2, <4>1, <5>1 DEF Become
                <5> QED BY <5>1, <5>2 DEF Request
            <4> QED BY <1>1, <4>2
        <3>3. ASSUME Leave(d) PROVE FALSE
            BY <2>4, <3>3 DEF Leave, Idle, NoAnswer
        <3> QED BY <2>2, <2>3, <2>5, <3>1, <3>2, <3>3 DEF ReadCache, Lookup, Store
    <2>6. ASSUME Tick PROVE FALSE
        BY <1>1, <2>6 DEF Tick, TypeOK, Request
    <2>7. ASSUME ChangeKeys \/ KeyExpires \/ UNCHANGED vars PROVE FALSE
        BY <1>1, <2>7 DEF ChangeKeys, KeyExpires, vars
    <2>8. LookupKey(c)
        BY <1>1, <2>1, <2>5, <2>6, <2>7 DEF Next, Handle, LookupKey, Answer
    <2>9. /\ InTable(req[c].token) /\ ~Expired(req[c].token)
          /\ Permitted(req[c].token, req[c].route)
        BY <1>1, <2>3, <2>8 DEF LookupKey
    <2>10. req[c].route \in Route
        BY <1>1 DEF TypeOK, Request
    <2> QED BY <2>9, <2>10, ScopeIsDocumented DEF InTable, Expired, Permitted
<1>2. TypeOK /\ [Next]_vars =>
        [\A c \in Client :
           req[c].answer # "key" /\ req'[c].answer = "key" =>
              /\ req[c].token \in keys \ expired
              /\ Documented(req[c].route) \in permissions[req[c].token]]_vars
    BY <1>1
<1> QED BY <1>2, Typing, TypingInit, PTL DEF Spec, KeysOpenTheirRoutes
=============================================================================
