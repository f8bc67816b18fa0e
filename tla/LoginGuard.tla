----------------------------- MODULE LoginGuard -----------------------------
(***************************************************************************)
(* The progressive block of logins (services/auth/rate_limits.py with the  *)
(* login of api/v1/auth.py): failures counted in Redis with two pipelines, *)
(* or, while Redis is not in use, in a dictionary of one process whose     *)
(* entries the threads change in place.  A failure counts for the address  *)
(* with the email and for the email; every Threshold-th one blocks.        *)
(***************************************************************************)
EXTENDS Integers, FiniteSets, Sequences, Functions, RateLimitSettings

CONSTANTS Logins,        \* the requests to log in
          Addresses, Emails,
          Objects,       \* identities of the dictionary's entries
          NoObject,
          Threshold,     \* LOGIN_FAILURE_THRESHOLD
          MaxLevel,      \* the number of LOGIN_LOCK_DURATIONS_SECONDS
          MaxTries       \* bound: wrong passwords

ASSUME GuardAssumption ==
  /\ Threshold \in Nat \ {0} /\ MaxLevel \in Nat \ {0} /\ MaxTracked \in Nat \ {0}
  /\ MaxTries \in Nat
  /\ RedisInUse \in BOOLEAN
  /\ NoObject \notin Objects
  /\ (Addresses \X Emails) \cap Emails = {}

LoginKeys == (Addresses \X Emails) \cup Emails
KeysFor(a, e) == << <<a, e>>, e >>

Entry == [count: 0 .. MaxTries, level: 0 .. MaxLevel, old: BOOLEAN]
NewEntry == [count |-> 0, level |-> 0, old |-> FALSE]
Stores == {"redis", "local"}

\* A login: the keys, the one a local registration is at, the counts that
\* Redis gave back and the entry in hand.
Login == [at: {"verify", "count", "block", "fetch", "add", "insert", "clear", "pop"},
            keys: Seq(LoginKeys), turn: 1 .. 2, counts: [LoginKeys -> 0 .. MaxTries],
            object: Objects \cup {NoObject}]

VARIABLES fails, blocks,   \* Redis: failures, and the level of the block, by key
          down,            \* _redis_unavailable_until lies ahead
          table,           \* failed_logins, in the order of insertion
          heap,            \* the entries behind the references
          inflight,
          tried,
          owed             \* history: failures since the last block or clearing
                           \* that a count stands for, by store and key

redis == <<fails, blocks>>
local == <<table, heap>>
guardVars == <<redis, down, local, inflight, tried, owed>>

Serving(r, at) == r \in DOMAIN inflight /\ inflight[r].at = at
Goto(r, at) == inflight' = [inflight EXCEPT ![r].at = at]
Done(r) == inflight' = [s \in DOMAIN inflight \ {r} |-> inflight[s]]
KeysOf(r) == Range(inflight[r].keys)
KeyOf(r) == inflight[r].keys[inflight[r].turn]

\* The entries of a key: the one in the table and those that threads hold.
Stored(k) == {p[2] : p \in {q \in Range(table) : q[1] = k}}
Held(k) == {inflight[r].object : r \in {s \in DOMAIN inflight : KeyOf(s) = k}} \ {NoObject}
Live(k) == Stored(k) \cup Held(k)
Unused == Objects \ UNION {Live(k) : k \in LoginKeys}

\* Mutant: blocks start one failure late.
HitsPast(count) == count > Threshold

Hits(count) == count % Threshold = 0
Level(count) == IF count \div Threshold < MaxLevel THEN count \div Threshold ELSE MaxLevel
Hit(r) == {k \in KeysOf(r) : Hits(inflight[r].counts[k])}
Blocking(k) == {r \in DOMAIN inflight : Serving(r, "block") /\ k \in Hit(r)}

\* Failures that entries stand for beyond their last block.
Residue(S) ==
  Cardinality({p \in S \X (1 .. Threshold) : p[2] <= heap[p[1]].count % Threshold})

GuardInit ==
  /\ fails = [k \in LoginKeys |-> 0]
  /\ blocks = [k \in LoginKeys |-> 0]
  /\ down = FALSE
  /\ table = << >>
  /\ heap = [o \in Objects |-> NewEntry]
  /\ inflight = << >>
  /\ tried = 0
  /\ owed = [s \in Stores |-> [k \in LoginKeys |-> 0]]

Up == RedisInUse /\ ~down

Positive(n) == IF n > 0 THEN n ELSE 0

\* The failures of the keys in one are counted, as many as lost are lost for good,
\* and those of the keys in cleared are settled.
Recorded(store, one, lost, cleared) ==
  owed' = [owed EXCEPT ![store] = [k \in LoginKeys |->
             IF k \in cleared THEN 0
             ELSE Positive(@[k] + (IF k \in one THEN 1 ELSE 0) - lost[k])]]

NoneLost == [k \in LoginKeys |-> 0]

\* Failures whose block is lost: they lead to no other.
BlockLost(K) == [k \in LoginKeys |-> IF k \in K THEN Threshold ELSE 0]

\* After a step on the table: what nothing refers to any more is collected, and
\* the failures it stood for are lost unless their keys were cleared.
LocalStep(entries, one, cleared) ==
  /\ heap' = [o \in Objects |-> IF \E k \in LoginKeys : o \in Live(k)' THEN entries[o] ELSE NewEntry]
  /\ Recorded("local", one, [k \in LoginKeys |-> Residue(Live(k) \ Live(k)')], cleared)

-----------------------------------------------------------------------------
(* The check before the password is verified. *)

\* The entries of the table at the positions in I, in their order.
Selected(I) ==
  [n \in 1 .. Cardinality(I) |->
     table[CHOOSE i \in I : Cardinality({j \in I : j < i}) = n - 1]]

\* _cleanup_failed_logins
Cleaned ==
  IF Len(table) < MaxTracked THEN table
  ELSE Selected({i \in DOMAIN table : ~heap[table[i][2]].old})

LocallyFree(keys) == \A p \in Range(Cleaned) : p[1] \in keys => heap[p[2]].level = 0

Arrive(r, a, e) ==
  /\ r \notin DOMAIN inflight
  /\ inflight' = [s \in DOMAIN inflight \cup {r} |->
       IF s = r THEN [at |-> "verify", keys |-> KeysFor(a, e), turn |-> 1,
                      counts |-> [k \in LoginKeys |-> 0], object |-> NoObject]
       ELSE inflight[s]]

CheckInRedis(r, a, e) ==
  /\ Up
  /\ \A k \in {<<a, e>>, e} : blocks[k] = 0
  /\ Arrive(r, a, e)
  /\ UNCHANGED <<redis, down, local, tried, owed>>

\* Redis is not in use, is down, or fails now.
CheckLocally(r, a, e) ==
  /\ LocallyFree({<<a, e>>, e})
  /\ down' = RedisInUse
  /\ table' = Cleaned
  /\ Arrive(r, a, e)
  /\ LocalStep(heap, {}, {})
  /\ UNCHANGED <<redis, tried>>

\* A check that lets nobody through, or the one after a failure.
Look ==
  /\ down' = RedisInUse
  /\ table' = Cleaned
  /\ UNCHANGED <<redis, inflight, tried>>
  /\ LocalStep(heap, {}, {})

WrongPassword(r) ==
  /\ Serving(r, "verify")
  /\ tried < MaxTries
  /\ tried' = tried + 1
  /\ Goto(r, "count")
  /\ UNCHANGED <<redis, down, local, owed>>

RightPassword(r) ==
  /\ Serving(r, "verify")
  /\ Goto(r, "clear")
  /\ UNCHANGED <<redis, down, local, tried, owed>>

\* The database fails: no verdict.
Abort(r) ==
  /\ Serving(r, "verify")
  /\ Done(r)
  /\ UNCHANGED <<redis, down, local, tried, owed>>

-----------------------------------------------------------------------------
(* register_failed_login in Redis: one pipeline counts, another one blocks. *)

Incremented(r) == [k \in LoginKeys |-> IF k \in KeysOf(r) THEN fails[k] + 1 ELSE fails[k]]
HitNow(r) == {k \in KeysOf(r) : Hits(fails[k] + 1)}

CountInRedis(r) ==
  /\ Serving(r, "count")
  /\ Up
  /\ fails' = Incremented(r)
  /\ IF HitNow(r) = {} THEN Done(r)
     ELSE inflight' = [inflight EXCEPT ![r].at = "block",
                         ![r].counts = [k \in LoginKeys |-> IF k \in KeysOf(r) THEN fails'[k] ELSE 0]]
  /\ Recorded("redis", KeysOf(r), NoneLost, {})
  /\ UNCHANGED <<blocks, down, local, tried>>

Blocked(r) ==
  [k \in LoginKeys |-> IF k \in Hit(r) THEN Level(inflight[r].counts[k]) ELSE blocks[k]]

BlockInRedis(r) ==
  /\ Serving(r, "block")
  /\ blocks' = Blocked(r)
  /\ Done(r)
  /\ Recorded("redis", {}, NoneLost, Hit(r))
  /\ UNCHANGED <<fails, down, local, tried>>

\* From Redis to the local table, with what Redis counted left as it is.
ToLocal(r) ==
  inflight' = [inflight EXCEPT ![r].at = "fetch", ![r].counts = [k \in LoginKeys |-> 0]]

SkipRedis(r) ==
  /\ Serving(r, "count")
  /\ ~Up
  /\ ToLocal(r)
  /\ UNCHANGED <<redis, down, local, tried, owed>>

\* The first pipeline fails, with or without effect: nobody blocks for it.
CountFails(r) ==
  /\ Serving(r, "count")
  /\ Up
  /\ down' = TRUE
  /\ ToLocal(r)
  /\ \/ UNCHANGED <<fails, owed>>
     \/ /\ fails' = Incremented(r)
        /\ Recorded("redis", KeysOf(r), BlockLost(HitNow(r)), {})
  /\ UNCHANGED <<blocks, local, tried>>

\* The second pipeline fails, with or without effect.
BlockFails(r) ==
  /\ Serving(r, "block")
  /\ down' = TRUE
  /\ ToLocal(r)
  /\ \/ /\ blocks' = Blocked(r)
        /\ Recorded("redis", {}, NoneLost, Hit(r))
     \/ /\ Recorded("redis", {}, BlockLost(Hit(r)), {})
        /\ UNCHANGED blocks
  /\ UNCHANGED <<fails, local, tried>>

-----------------------------------------------------------------------------
(* register_failed_login in the dictionary, key by key: an entry is fetched, *)
(* counted in place, taken out and put in again at the end.                  *)

Others(K) == Selected({i \in DOMAIN table : table[i][1] \notin K})

\* Mutant: the table is cut to its maximum before the entry goes in.
TrimmedBefore(t) ==
  IF Len(t) > MaxTracked + 1 THEN SubSeq(t, Len(t) - MaxTracked, Len(t)) ELSE t

Trimmed(t) == IF Len(t) > MaxTracked THEN SubSeq(t, Len(t) - MaxTracked + 1, Len(t)) ELSE t

Fetch(r) ==
  /\ Serving(r, "fetch")
  /\ table' = IF inflight[r].turn = 1 THEN Cleaned ELSE table
  /\ LET found == {p[2] : p \in {q \in Range(table') : q[1] = KeyOf(r)}} IN
       \E o \in (IF found = {} THEN {NoObject} ELSE found) :
         inflight' = [inflight EXCEPT ![r].at = "add", ![r].object = o]
  /\ LocalStep(heap, {}, {})
  /\ UNCHANGED <<redis, down, tried>>

\* An entry that is missing or too old gives way to a new one.
CountLocally(r) ==
  /\ Serving(r, "add")
  /\ LET k == KeyOf(r)
         o == inflight[r].object
         anew == o = NoObject \/ heap[o].old
         id == IF anew THEN CHOOSE x \in Unused : TRUE ELSE o
         was == IF anew THEN NewEntry ELSE heap[o]
         count == was.count + 1
     IN
     /\ anew => Unused # {}
     /\ table' = Others({k})
     /\ inflight' = [inflight EXCEPT ![r].at = "insert", ![r].object = id]
     /\ LocalStep([heap EXCEPT ![id] = [count |-> count, old |-> FALSE,
                      level |-> IF Hits(count) THEN Level(count) ELSE was.level]],
                  {k}, IF Hits(count) THEN {k} ELSE {})
  /\ UNCHANGED <<redis, down, tried>>

Insert(r) ==
  /\ Serving(r, "insert")
  /\ table' = Trimmed(Append(Others({KeyOf(r)}), <<KeyOf(r), inflight[r].object>>))
  /\ IF inflight[r].turn = 2 THEN Done(r)
     ELSE inflight' = [inflight EXCEPT ![r].at = "fetch", ![r].turn = 2, ![r].object = NoObject]
  /\ LocalStep(heap, {}, {})
  /\ UNCHANGED <<redis, down, tried>>

-----------------------------------------------------------------------------
(* clear_failed_login after a right password: in Redis if it can, then here. *)

Cleared(f, r) == [k \in LoginKeys |-> IF k \in KeysOf(r) THEN 0 ELSE f[k]]

ClearInRedis(r) ==
  /\ Serving(r, "clear")
  /\ Up
  /\ down' \in BOOLEAN
  /\ fails' = Cleared(fails, r)
  /\ blocks' = Cleared(blocks, r)
  /\ Goto(r, "pop")
  /\ Recorded("redis", {}, NoneLost, KeysOf(r))
  /\ UNCHANGED <<local, tried>>

\* Redis is not in use, is down, or fails now: what it holds stays.
LeaveRedis(r) ==
  /\ Serving(r, "clear")
  /\ down' = RedisInUse
  /\ Goto(r, "pop")
  /\ UNCHANGED <<redis, local, tried, owed>>

ClearLocally(r) ==
  /\ Serving(r, "pop")
  /\ table' = Others(KeysOf(r))
  /\ Done(r)
  /\ LocalStep(heap, {}, KeysOf(r))
  /\ UNCHANGED <<redis, down, tried>>

-----------------------------------------------------------------------------
(* Time and failures. *)

\* A block runs out.
BlockEnds(k) ==
  /\ blocks[k] > 0
  /\ blocks' = [blocks EXCEPT ![k] = 0]
  /\ UNCHANGED <<fails, down, local, inflight, tried, owed>>

LocalBlockEnds(o) ==
  /\ heap[o].level > 0
  /\ heap' = [heap EXCEPT ![o].level = 0]
  /\ UNCHANGED <<redis, down, table, inflight, tried, owed>>

\* LOGIN_FAILURE_WINDOW_SECONDS without a failure; no block lasts that long.
Forget(k) ==
  /\ fails[k] > 0 /\ blocks[k] = 0
  /\ fails' = [fails EXCEPT ![k] = 0]
  /\ Recorded("redis", {}, NoneLost, {k})
  /\ UNCHANGED <<blocks, down, local, inflight, tried>>

Age(o) ==
  /\ heap[o].count > 0 /\ heap[o].level = 0 /\ ~heap[o].old
  /\ heap' = [heap EXCEPT ![o].old = TRUE]
  /\ UNCHANGED <<redis, down, table, inflight, tried, owed>>

\* REDIS_FALLBACK_SECONDS are over.
Resume ==
  /\ down
  /\ down' = FALSE
  /\ UNCHANGED <<redis, local, inflight, tried, owed>>

\* The process is killed and starts again with an empty table.
Restart ==
  /\ inflight' = << >>
  /\ table' = << >>
  /\ heap' = [o \in Objects |-> NewEntry]
  /\ down' = FALSE
  /\ owed' = [redis |-> [k \in LoginKeys |->
                           Positive(owed["redis"][k] - Threshold * Cardinality(Blocking(k)))],
              local |-> [k \in LoginKeys |-> 0]]
  /\ UNCHANGED <<redis, tried>>

GuardNext ==
  \/ \E r \in Logins :
       \/ \E a \in Addresses, e \in Emails : CheckInRedis(r, a, e) \/ CheckLocally(r, a, e)
       \/ WrongPassword(r) \/ RightPassword(r) \/ Abort(r)
       \/ CountInRedis(r) \/ BlockInRedis(r)
       \/ SkipRedis(r) \/ CountFails(r) \/ BlockFails(r)
       \/ Fetch(r) \/ CountLocally(r) \/ Insert(r)
       \/ ClearInRedis(r) \/ LeaveRedis(r) \/ ClearLocally(r)
  \/ Look
  \/ \E k \in LoginKeys : BlockEnds(k) \/ Forget(k)
  \/ \E o \in Objects : LocalBlockEnds(o) \/ Age(o)
  \/ Resume
  \/ Restart

GuardSpec == GuardInit /\ [][GuardNext]_guardVars

-----------------------------------------------------------------------------
(* Properties *)

\* The shape of the state; the table stays within its maximum and has one entry
\* for a key.
GuardTypeOK ==
  /\ fails \in [LoginKeys -> 0 .. MaxTries]
  /\ blocks \in [LoginKeys -> 0 .. MaxLevel]
  /\ down \in BOOLEAN
  /\ table \in Seq(LoginKeys \X Objects) /\ Len(table) <= MaxTracked
  /\ \A i, j \in DOMAIN table : table[i][1] = table[j][1] => i = j
  /\ heap \in [Objects -> Entry]
  /\ DOMAIN inflight \subseteq Logins
  /\ \A r \in DOMAIN inflight : inflight[r] \in Login
  /\ tried \in 0 .. MaxTries

\* Fewer than Threshold failures of a key stay without a block in a store, but for
\* those of requests about to block: every failure is on a count that leads to the
\* next block, unless Redis failed or the process died between the two pipelines,
\* or its entry was dropped by the table's bound or by another thread's.
FailuresOnRecord ==
  \A k \in LoginKeys :
    /\ owed["redis"][k] <= (fails[k] % Threshold) + Threshold * Cardinality(Blocking(k))
    /\ owed["local"][k] <= Residue(Live(k))
=============================================================================
