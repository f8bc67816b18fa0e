------------------------------ MODULE HttpGate ------------------------------
(***************************************************************************)
(* What a request passes on its way to a handler (app/main.py): the CSRF   *)
(* check, the semaphore of the concurrency limit, the request guard that   *)
(* reads the body, the rate limit in Redis or in local memory, the origin  *)
(* check and the handler.  The middlewares run in one event loop, so a     *)
(* step lasts from one await to the next.  An answer is only an answer:    *)
(* status, headers and text are left out.                                  *)
(***************************************************************************)
EXTENDS Integers, FiniteSets, Sequences, RateLimitSettings

CONSTANTS Requests,
          Clients,       \* an address with the identity of its session
          Shapes,        \* the requests that arrive
          Slots,         \* MAX_CONCURRENT_REQUESTS
          MaxBody,       \* MAX_REQUEST_BODY_BYTES
          Limit,         \* the requests of a scope in a window
          Window,        \* RATE_LIMIT_WINDOW_SECONDS
          Fallback,      \* REDIS_FALLBACK_SECONDS
          MaxTime        \* bound: the clock

\* Paths as the middlewares tell them apart, with the flags for documentation
\* and the database's health taken into account.
OutsideApi == {"root", "health", "health_db", "docs", "other"}
Routes == OutsideApi \cup
  {"webhook", "login", "recovery", "users", "auth", "dashboard", "pdf", "overview",
   "notifications", "admin", "tickets", "comments", "api"}
Methods == {"GET", "HEAD", "OPTIONS", "POST", "PUT", "PATCH", "DELETE"}
Flaws == {"url", "header", "lengths", "declared", "type"}

\* csrf: the header repeats the cookie; origin: absent or an allowed one.
Shape == [route: Routes, method: Methods, client: Clients, session: BOOLEAN,
          csrf: BOOLEAN, origin: BOOLEAN, flaws: SUBSET Flaws]

OwnScope == [webhook |-> "webhook.evolution", login |-> "auth.login",
             recovery |-> "auth.recovery", users |-> "user.registration",
             auth |-> "auth.account", dashboard |-> "dashboard.summary",
             pdf |-> "report.pdf", overview |-> "report.overview",
             comments |-> "comment.write"]

ReadOr(s, reads, read, write) == IF s.method \in reads THEN read ELSE write

Scope(s) ==
  CASE s.method = "OPTIONS" \/ s.route \in {"root", "health", "health_db"} -> "public"
    [] s.route \in DOMAIN OwnScope -> OwnScope[s.route]
    [] s.route = "notifications" -> ReadOr(s, {"GET"}, "notification.read", "notification.write")
    [] s.route = "admin" -> ReadOr(s, {"GET", "HEAD"}, "admin.read", "admin.write")
    [] s.route = "tickets" -> ReadOr(s, {"GET", "HEAD"}, "ticket.read", "ticket.write")
    [] OTHER -> ReadOr(s, {"GET", "HEAD"}, "general", "sensitive")

RateKey(s) == <<Scope(s), s.client>>
Keys == {RateKey(s) : s \in Shapes}
Scopes == {k[1] : k \in Keys}

ASSUME GateAssumption ==
  /\ Shapes \subseteq Shape
  /\ Slots \in Nat \ {0}
  /\ MaxTracked \in Nat \ {0}
  /\ Window \in Nat \ {0}
  /\ MaxBody \in Nat /\ Fallback \in Nat /\ MaxTime \in Nat
  /\ Limit \in [Scopes -> Nat]
  /\ RedisInUse \in BOOLEAN

\* max(max_requests, 1), in units of which a request takes Window and a unit of
\* time gives back Capacity.
Capacity(k) == IF Limit[k[1]] = 0 THEN 1 ELSE Limit[k[1]]
Full(k) == Capacity(k) * Window
WindowOf(t) == t \div Window

VARIABLES requests,      \* what has arrived: where each is, or that it is answered
          free, queue,   \* the semaphore and who waits for it
          buckets,       \* _rate_limit_buckets
          counters,      \* Redis: requests counted by key and window
          downUntil,     \* _unavailable_until
          now,
          life,          \* history of each bucket: since when, requests let
                         \* through, time taken back
          admitted       \* history: requests Redis let through, by key and window

gate == <<free, queue>>
rates == <<buckets, counters, downUntil, life, admitted>>
vars == <<requests, gate, rates, now>>

At(r) == IF r \in DOMAIN requests THEN requests[r].at ELSE "absent"
ShapeOf(r) == requests[r].shape
Inside == {"guard", "receiving", "limiting", "calling", "expiring", "handler"}
Holders == {r \in Requests : At(r) \in Inside}

Pending == [at: Inside \cup {"waiting"}, shape: Shapes, received: 0 .. MaxBody,
            stamp: 0 .. MaxTime]
Answer == [at: {"answered"}]

Init ==
  /\ requests = << >>
  /\ free = Slots
  /\ queue = << >>
  /\ buckets = << >>
  /\ counters = << >>
  /\ downUntil = 0
  /\ now = 0
  /\ life = << >>
  /\ admitted = << >>

With(f, x, y) == [z \in DOMAIN f \cup {x} |-> IF z = x THEN y ELSE f[z]]
Count(f, x) == IF x \in DOMAIN f THEN f[x] ELSE 0
Moved(r, to) == [requests EXCEPT ![r].at = to]
\* On to the handler: what the gates noted is not looked at again.
Inward(r) == [requests EXCEPT ![r].at = "handler", ![r].stamp = 0]
Answered(r) == With(requests, r, [at |-> "answered"])

-----------------------------------------------------------------------------
(* CSRFMiddleware and ConcurrencyLimitMiddleware. *)

CsrfFails(s) ==
  /\ s.method \in {"POST", "PUT", "PATCH", "DELETE"}
  /\ s.route \notin OutsideApi \cup {"login", "recovery", "users", "webhook"}
  /\ s.session
  /\ ~s.csrf

Enter(r, s, at) ==
  requests' = With(requests, r, [at |-> at, shape |-> s, received |-> 0, stamp |-> 0])

RefuseCsrf(r, s) ==
  /\ At(r) = "absent"
  /\ CsrfFails(s)
  /\ requests' = Answered(r)
  /\ UNCHANGED <<gate, rates, now>>

\* A semaphore with waiters is locked for whoever comes after them.
Acquire(r, s) ==
  /\ At(r) = "absent"
  /\ ~CsrfFails(s)
  /\ free > 0 /\ queue = << >>
  /\ free' = free - 1
  /\ Enter(r, s, "guard")
  /\ UNCHANGED <<queue, rates, now>>

Wait(r, s) ==
  /\ At(r) = "absent"
  /\ ~CsrfFails(s)
  /\ free = 0 \/ queue # << >>
  /\ queue' = Append(queue, r)
  /\ Enter(r, s, "waiting")
  /\ UNCHANGED <<free, rates, now>>

\* Mutant: the semaphore is awaited without wait_for.
MayTimeOutNever(r) == FALSE

MayTimeOut(r) == At(r) = "waiting"

TimeOut(r) ==
  /\ MayTimeOut(r)
  /\ requests' = Answered(r)
  /\ \E i \in DOMAIN queue :
       /\ queue[i] = r
       /\ queue' = [j \in 1 .. Len(queue) - 1 |-> IF j < i THEN queue[j] ELSE queue[j + 1]]
  /\ UNCHANGED <<free, rates, now>>

\* Mutant: the semaphore is raised although its slot goes to a waiter.
FreedAndWoken == free + 1

Freed == IF queue = << >> THEN free + 1 ELSE free

\* The answer leaves and the finally clause gives the slot back, to the first
\* that waits if there is one.
Leave(r) ==
  /\ requests' =
       IF queue = << >> THEN Answered(r)
       ELSE [Answered(r) EXCEPT ![Head(queue)].at = "guard"]
  /\ free' = Freed
  /\ queue' = IF queue = << >> THEN queue ELSE Tail(queue)

-----------------------------------------------------------------------------
(* RequestGuardMiddleware: what is long or malformed is refused, then the whole *)
(* body is read before anything further in sees the request.                    *)

Buffered(s) == s.method \in {"POST", "PUT", "PATCH"} /\ s.route \notin OutsideApi

\* The content type is looked at only where a body is expected.
FlawsOf(s) == IF Buffered(s) THEN s.flaws ELSE s.flaws \ {"type"}

GuardRefuses(r) ==
  /\ At(r) = "guard"
  /\ FlawsOf(ShapeOf(r)) # {}
  /\ Leave(r)
  /\ UNCHANGED <<rates, now>>

GuardPasses(r) ==
  /\ At(r) = "guard"
  /\ FlawsOf(ShapeOf(r)) = {}
  /\ requests' = Moved(r, IF Buffered(ShapeOf(r)) THEN "receiving" ELSE "limiting")
  /\ UNCHANGED <<gate, rates, now>>

\* What was received is handed inwards; its size is not looked at again.
HandedIn(r) == [requests EXCEPT ![r].at = "limiting", ![r].received = 0]

\* A piece of the body arrives; it is the last one without more_body, or when the
\* client has gone.
Receive(r, more) ==
  /\ At(r) = "receiving"
  /\ requests[r].received < MaxBody
  /\ requests' = IF more THEN [requests EXCEPT ![r].received = @ + 1] ELSE HandedIn(r)
  /\ UNCHANGED <<gate, rates, now>>

Disconnect(r) ==
  /\ At(r) = "receiving"
  /\ requests' = HandedIn(r)
  /\ UNCHANGED <<gate, rates, now>>

TooMuch(r) ==
  /\ At(r) = "receiving"
  /\ requests[r].received = MaxBody
  /\ Leave(r)
  /\ UNCHANGED <<rates, now>>

-----------------------------------------------------------------------------
(* RateLimitMiddleware. *)

\* Mutant: the oldest go down to the maximum, with no room for the newcomer.
RoomAtMaximum == MaxTracked

Room == MaxTracked - 1

\* _cleanup_rate_limit_buckets: at the maximum the idle keys go, then the oldest.
Kept(t) == {k \in DOMAIN buckets : t - buckets[k].last < 2 * Window}

Survivors(t) ==
  IF Cardinality(DOMAIN buckets) < MaxTracked THEN {DOMAIN buckets}
  ELSE IF Cardinality(Kept(t)) <= Room THEN {Kept(t)}
  ELSE {S \in SUBSET Kept(t) :
          /\ Cardinality(S) = Room
          /\ \A k \in Kept(t) \ S, l \in S : buckets[k].last <= buckets[l].last}

Restricted(f, S) == [x \in S |-> f[x]]

\* Mutant: max(0, ...) is missing, a clock behind last_refill_at takes tokens away.
RefilledBackwards(k, t) ==
  LET tokens == buckets[k].tokens + (t - buckets[k].last) * Capacity(k)
  IN IF tokens > Full(k) THEN Full(k) ELSE tokens

\* A clock behind last_refill_at refills nothing.
Refilled(k, t) ==
  LET elapsed == IF t > buckets[k].last THEN t - buckets[k].last ELSE 0
      tokens == buckets[k].tokens + elapsed * Capacity(k)
  IN IF tokens > Full(k) THEN Full(k) ELSE tokens

\* Mutant: a refill leaves last_refill_at where it was.
StampedOnce(known, k, t) == IF k \in known THEN buckets[k].last ELSE t

Stamped(known, k, t) == t

\* _consume_local_rate_limit on the keys in known, with a clock read at t.
Consume(r, known, t) ==
  LET k == RateKey(ShapeOf(r))
      tokens == IF k \in known THEN Refilled(k, t) ELSE Full(k)
      allowed == tokens >= Window
      was == IF k \in known THEN life[k] ELSE [born |-> t, granted |-> 0, back |-> 0]
      back == IF k \in known /\ buckets[k].last > t THEN buckets[k].last - t ELSE 0
  IN
  /\ buckets' = With(Restricted(buckets, known), k,
                     [tokens |-> IF allowed THEN tokens - Window ELSE tokens,
                      last |-> Stamped(known, k, t)])
  /\ life' = With(Restricted(life, known), k,
                  [was EXCEPT !.granted = IF allowed THEN @ + 1 ELSE @, !.back = @ + back])
  /\ IF allowed
     THEN requests' = Inward(r) /\ UNCHANGED gate
     ELSE Leave(r)

\* The documentation is not counted.
Exempt(r) ==
  /\ At(r) = "limiting"
  /\ ShapeOf(r).route = "docs"
  /\ requests' = Inward(r)
  /\ UNCHANGED <<gate, rates, now>>

\* Without Redis, or while it counts as down, nothing is awaited.
LimitLocally(r) ==
  /\ At(r) = "limiting"
  /\ ShapeOf(r).route # "docs"
  /\ ~RedisInUse \/ now < downUntil
  /\ \E known \in Survivors(now) : Consume(r, known, now)
  /\ UNCHANGED <<counters, downUntil, admitted, now>>

\* The clock is read and the table cleaned before Redis is awaited.
CallRedis(r) ==
  /\ At(r) = "limiting"
  /\ ShapeOf(r).route # "docs"
  /\ RedisInUse /\ now >= downUntil
  /\ \E known \in Survivors(now) :
       /\ buckets' = Restricted(buckets, known)
       /\ life' = Restricted(life, known)
  /\ requests' = [requests EXCEPT ![r].at = "calling", ![r].stamp = now]
  /\ UNCHANGED <<gate, counters, downUntil, admitted, now>>

Counter(r) == <<RateKey(ShapeOf(r)), WindowOf(requests[r].stamp)>>
Counted(r) == With(counters, Counter(r), Count(counters, Counter(r)) + 1)

WithinLimit(r, count) == count <= Limit[Scope(ShapeOf(r))]

\* Redis has the last word on a request it counted.
Decide(r, count) ==
  IF WithinLimit(r, count)
  THEN /\ admitted' = With(admitted, Counter(r), Count(admitted, Counter(r)) + 1)
       /\ requests' = Inward(r)
       /\ UNCHANGED gate
  ELSE Leave(r) /\ UNCHANGED admitted

Increment(r) ==
  /\ At(r) = "calling"
  /\ counters' = Counted(r)
  /\ LET count == counters'[Counter(r)] IN
       IF count = 1
       THEN requests' = Moved(r, "expiring") /\ UNCHANGED <<gate, admitted>>
       ELSE Decide(r, count)
  /\ UNCHANGED <<buckets, life, downUntil, now>>

SetExpiry(r) ==
  /\ At(r) = "expiring"
  /\ Decide(r, 1)
  /\ UNCHANGED <<buckets, life, counters, downUntil, now>>

\* A call fails, with or without effect: the local table decides, by the clock
\* as it was read before the call.
RedisFails(r) ==
  /\ At(r) \in {"calling", "expiring"}
  /\ counters' \in {counters} \cup (IF At(r) = "calling" THEN {Counted(r)} ELSE {})
  /\ downUntil' = requests[r].stamp + Fallback
  /\ Consume(r, DOMAIN buckets, requests[r].stamp)
  /\ UNCHANGED <<admitted, now>>

-----------------------------------------------------------------------------
(* OriginCheckMiddleware, the handler and ExceptionMiddleware. *)

RefuseOrigin(r) ==
  /\ At(r) = "handler"
  /\ ShapeOf(r).route \notin OutsideApi /\ ~ShapeOf(r).origin
  /\ Leave(r)
  /\ UNCHANGED <<rates, now>>

\* The handler's response, or the one ExceptionMiddleware gives for what it raised.
Respond(r) ==
  /\ At(r) = "handler"
  /\ ShapeOf(r).route \in OutsideApi \/ ShapeOf(r).origin
  /\ Leave(r)
  /\ UNCHANGED <<rates, now>>

Tick ==
  /\ now < MaxTime
  /\ now' = now + 1
  /\ UNCHANGED <<requests, gate, rates>>

\* The steps of the server; what the client sends is not up to it.
Serve(r) ==
  \/ TimeOut(r)
  \/ GuardRefuses(r) \/ GuardPasses(r)
  \/ Exempt(r) \/ LimitLocally(r) \/ CallRedis(r)
  \/ Increment(r) \/ SetExpiry(r) \/ RedisFails(r)
  \/ RefuseOrigin(r) \/ Respond(r)

Next ==
  \/ \E r \in Requests :
       \/ \E s \in Shapes : RefuseCsrf(r, s) \/ Acquire(r, s) \/ Wait(r, s)
       \/ \E more \in BOOLEAN : Receive(r, more)
       \/ Disconnect(r) \/ TooMuch(r)
       \/ Serve(r)
  \/ Tick

\* Handlers end, Redis answers or its socket times out, the wait for a slot has
\* a timeout; nothing makes a client send the rest of its body.
Fairness == \A r \in Requests : WF_vars(Serve(r))

Spec == Init /\ [][Next]_vars /\ Fairness

-----------------------------------------------------------------------------
(* Properties *)

\* The shape of the state; a bucket never holds more than its capacity.
TypeOK ==
  /\ DOMAIN requests \subseteq Requests
  /\ \A r \in DOMAIN requests : requests[r] \in Pending \cup Answer
  /\ free \in 0 .. Slots
  /\ queue \in Seq(Requests)
  /\ DOMAIN buckets \subseteq Keys
  /\ \A k \in DOMAIN buckets :
       /\ buckets[k].tokens \in 0 .. Full(k)
       /\ buckets[k].last \in 0 .. now
  /\ downUntil \in 0 .. MaxTime + Fallback
  /\ now \in 0 .. MaxTime

\* Every slot is free or held by one request that is inside, on whatever way
\* requests leave, and none is free while somebody waits: no wake-up is lost.
SlotsAccounted ==
  /\ free + Cardinality(Holders) = Slots
  /\ {queue[i] : i \in DOMAIN queue} = {r \in Requests : At(r) = "waiting"}
  /\ \A i, j \in DOMAIN queue : queue[i] = queue[j] => i = j
  /\ queue # << >> => free = 0

\* The table of buckets is cleaned before Redis is awaited and grows after: it
\* outgrows its maximum by what the slots let in at once, and no more.
TableBounded == Cardinality(DOMAIN buckets) <= MaxTracked - 1 + Slots

\* No key gets more than its rate.  Locally: its capacity and what time gave
\* back since its bucket was made, plus the time that requests with an older
\* clock took back, as that is refilled twice.  In Redis: the limit of each
\* window, whatever replies are lost.
RateBound ==
  /\ \A k \in DOMAIN buckets :
       life[k].granted * Window + buckets[k].tokens
         <= Full(k) + Capacity(k) * (buckets[k].last - life[k].born + life[k].back)
  /\ \A c \in DOMAIN admitted : admitted[c] <= Limit[c[1][1]]

\* Whoever arrives is answered, or it is up to its client to send the body: again
\* and again the server owes nobody a step.  Clients that stall inside hold their
\* slots, and the others are refused rather than kept waiting.
AnsweredUnlessStalled ==
  []<>(\A r \in Requests : At(r) \in {"absent", "receiving", "answered"})
=============================================================================
