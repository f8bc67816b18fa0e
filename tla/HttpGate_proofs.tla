--------------------------- MODULE HttpGate_proofs ---------------------------
(***************************************************************************)
(* Proofs about the limits on requests.  HttpGate, for any number of       *)
(* requests, clients, slots and keys: whatever way a request leaves, its   *)
(* slot comes back once, and the tables of the rate limit keep to their    *)
(* bounds.  LoginGuard, for any number of logins, addresses, emails and    *)
(* entries and any threshold: every failure stays on record until it leads *)
(* to a block, in Redis and in the table.                                  *)
(***************************************************************************)
EXTENDS HttpGate, LoginGuard, SequenceTheorems, FiniteSetTheorems, TLAPS

Waiting == {r \in Requests : At(r) = "waiting"}

\* What a request is known by at each gate.
RequestTypes ==
  /\ DOMAIN requests \subseteq Requests
  /\ \A r \in DOMAIN requests : requests[r] \in Pending \cup Answer

\* The semaphore's half of the inductive invariant.
SlotInv ==
  /\ RequestTypes
  /\ free \in 0 .. Slots
  /\ queue \in Seq(Requests)
  /\ IsFiniteSet(Holders)
  /\ SlotsAccounted

-----------------------------------------------------------------------------
\* p is the list q of n different elements without the one at i.
Without(p, q, n, i) ==
  /\ n \in Nat /\ i \in 1 .. n /\ DOMAIN q = 1 .. n
  /\ \A j, k \in 1 .. n : q[j] = q[k] => j = k
  /\ DOMAIN p = 1 .. n - 1
  /\ \A j \in 1 .. n - 1 : p[j] = IF j < i THEN q[j] ELSE q[j + 1]

\* The others are still there, each once.
LEMMA ListWithout ==
  ASSUME NEW p, NEW q, NEW n, NEW i, Without(p, q, n, i)
  PROVE  /\ \A j \in DOMAIN p : \E k \in DOMAIN q : p[j] = q[k] /\ k # i
         /\ \A k \in DOMAIN q : k # i => \E j \in DOMAIN p : p[j] = q[k]
         /\ \A j, k \in DOMAIN p : p[j] = p[k] => j = k
<1> USE DEF Without
<1>1. ASSUME NEW j \in 1 .. n - 1 PROVE \E k \in 1 .. n : p[j] = q[k] /\ k # i
  <2>1. CASE j < i
    <3>1. j \in 1 .. n /\ p[j] = q[j] /\ j # i
      BY <2>1
    <3>2. QED
      BY <3>1
  <2>2. CASE j >= i
    <3>1. j + 1 \in 1 .. n /\ p[j] = q[j + 1] /\ j + 1 # i
      BY <2>2
    <3>2. QED
      BY <3>1
  <2>3. QED
    BY <2>1, <2>2
<1>2. ASSUME NEW k \in 1 .. n, k # i PROVE \E j \in 1 .. n - 1 : p[j] = q[k]
  <2>1. CASE k < i
    <3>1. k \in 1 .. n - 1 /\ p[k] = q[k]
      BY <2>1
    <3>2. QED
      BY <3>1
  <2>2. CASE k > i
    <3>1. k - 1 \in 1 .. n - 1 /\ p[k - 1] = q[k]
      BY <2>2
    <3>2. QED
      BY <3>1
  <2>3. QED
    BY <1>2, <2>1, <2>2
<1>3. ASSUME NEW j \in 1 .. n - 1, NEW k \in 1 .. n - 1, p[j] = p[k] PROVE j = k
  <2>1. PICK x \in 1 .. n : x = IF j < i THEN j ELSE j + 1
    OBVIOUS
  <2>2. PICK y \in 1 .. n : y = IF k < i THEN k ELSE k + 1
    OBVIOUS
  <2>3. q[x] = q[y]
    BY <1>3, <2>1, <2>2
  <2>4. x = y
    BY <2>3
  <2>5. QED
    BY <2>1, <2>2, <2>4
<1>4. QED
  BY <1>1, <1>2, <1>3

\* Whoever is inside, waiting or done, by what the steps do to requests.
LEMMA AtAfter ==
  ASSUME NEW r, NEW q, requests' = With(requests, r, q)
  PROVE  /\ At(r)' = q.at
         /\ \A s : s # r => At(s)' = At(s)
BY DEF With, At

\* A request gets a slot and goes inside.
LEMMA HolderEnters ==
  ASSUME IsFiniteSet(Holders), NEW r \in Requests, r \notin Holders,
         Holders' = Holders \cup {r}
  PROVE  IsFiniteSet(Holders') /\ Cardinality(Holders') = Cardinality(Holders) + 1
BY FS_AddElement

LEMMA HolderLeaves ==
  ASSUME IsFiniteSet(Holders), NEW r \in Holders, Holders' = Holders \ {r}
  PROVE  IsFiniteSet(Holders') /\ Cardinality(Holders') = Cardinality(Holders) - 1
BY FS_RemoveElement

LEMMA SlotInit == Init => SlotInv
<1> SUFFICES ASSUME Init PROVE SlotInv
  OBVIOUS
<1>1. /\ requests = << >> /\ free = Slots /\ queue = << >>
      /\ \A r : At(r) = "absent"
  BY DEF Init, At
<1>2. Holders = {} /\ {r \in Requests : At(r) = "waiting"} = {}
  BY <1>1 DEF Holders, Inside
<1>3. IsFiniteSet(Holders) /\ Cardinality(Holders) = 0
  BY <1>2, FS_EmptySet
<1>4. Slots \in Nat
  BY GateAssumption
<1>5. SlotsAccounted
  BY <1>1, <1>2, <1>3, <1>4 DEF SlotsAccounted
<1>6. QED
  BY <1>1, <1>3, <1>4, <1>5 DEF SlotInv, RequestTypes

\* A request goes from one gate to the next, and keeps its slot.
LEMMA MoveInside ==
  ASSUME SlotInv, NEW r \in Requests, At(r) \in Inside,
         NEW q \in Pending, q.at \in Inside,
         requests' = [requests EXCEPT ![r] = q], UNCHANGED gate
  PROVE  SlotInv'
<1>1. r \in DOMAIN requests /\ DOMAIN requests' = DOMAIN requests
  BY DEF At, Inside
<1>2. At(r)' = q.at /\ \A s : s # r => At(s)' = At(s)
  BY <1>1 DEF At
<1>3. Holders' = Holders /\ {s \in Requests : At(s) = "waiting"}' = {s \in Requests : At(s) = "waiting"}
  BY <1>2 DEF Holders, Inside
<1>4. RequestTypes'
  BY <1>1 DEF SlotInv, RequestTypes
<1>5. QED
  BY <1>3, <1>4 DEF SlotInv, SlotsAccounted, gate

\* Those who wait are those in the queue.
LEMMA QueueHolds ==
  ASSUME SlotInv
  PROVE  /\ \A i \in DOMAIN queue : queue[i] \in Requests /\ At(queue[i]) = "waiting"
         /\ \A r \in Requests : At(r) = "waiting" => \E i \in DOMAIN queue : queue[i] = r
         /\ \A i, j \in DOMAIN queue : queue[i] = queue[j] => i = j
         /\ Len(queue) \in Nat /\ DOMAIN queue = 1 .. Len(queue)
         /\ queue # << >> => free = 0 /\ Len(queue) > 0
         /\ queue = << >> => \A r \in Requests : At(r) # "waiting"
<1>1. /\ {queue[i] : i \in DOMAIN queue} = {r \in Requests : At(r) = "waiting"}
      /\ \A i, j \in DOMAIN queue : queue[i] = queue[j] => i = j
      /\ queue # << >> => free = 0
  BY DEF SlotInv, SlotsAccounted
<1>2. Len(queue) \in Nat /\ DOMAIN queue = 1 .. Len(queue)
  BY LenProperties DEF SlotInv
<1>3. queue # << >> => Len(queue) > 0
  BY EmptySeq, <1>2 DEF SlotInv
<1>4. \A i \in DOMAIN queue : queue[i] \in Requests /\ At(queue[i]) = "waiting"
  BY <1>1
<1>5. \A r \in Requests : At(r) = "waiting" => \E i \in DOMAIN queue : queue[i] = r
  BY <1>1
<1>6. queue = << >> => DOMAIN queue = {}
  OBVIOUS
<1>7. QED
  BY <1>1, <1>2, <1>3, <1>4, <1>5, <1>6

\* SlotsAccounted, from what a step does to the queue one by one.
LEMMA Accounted ==
  ASSUME free' + Cardinality(Holders') = Slots,
         \A i \in DOMAIN queue' : \E t \in Requests : t = queue'[i] /\ At(t)' = "waiting",
         \A r \in Requests : At(r)' = "waiting" => \E i \in DOMAIN queue' : queue'[i] = r,
         \A i, j \in DOMAIN queue' : queue'[i] = queue'[j] => i = j,
         queue' # << >> => free' = 0
  PROVE  SlotsAccounted'
<1>1. {queue'[i] : i \in DOMAIN queue'} = {r \in Requests : At(r)' = "waiting"}
  <2>1. ASSUME NEW x \in {queue'[i] : i \in DOMAIN queue'}
        PROVE  x \in {r \in Requests : At(r)' = "waiting"}
    OBVIOUS
  <2>2. ASSUME NEW x \in {r \in Requests : At(r)' = "waiting"}
        PROVE  x \in {queue'[i] : i \in DOMAIN queue'}
    OBVIOUS
  <2>3. QED
    BY <2>1, <2>2, Zenon
<1>2. QED
  BY <1>1 DEF SlotsAccounted

LEMMA RefuseCsrfSlots ==
  ASSUME SlotInv, NEW r \in Requests, NEW s \in Shapes, RefuseCsrf(r, s)
  PROVE  SlotInv'
<1>1. PICK a : a = [at |-> "answered"]
  OBVIOUS
<1>2. requests' = With(requests, r, a) /\ UNCHANGED gate /\ At(r) = "absent"
  BY <1>1 DEF RefuseCsrf, Answered
<1>3. At(r)' = "answered" /\ \A t : t # r => At(t)' = At(t)
  BY <1>1, <1>2, AtAfter
<1>4. Holders' = Holders /\ {t \in Requests : At(t) = "waiting"}' = {t \in Requests : At(t) = "waiting"}
  BY <1>2, <1>3 DEF Holders, Inside
<1>5. RequestTypes'
  BY <1>1, <1>2 DEF SlotInv, RequestTypes, With, Answer
<1>6. QED
  BY <1>2, <1>4, <1>5 DEF SlotInv, SlotsAccounted, gate

LEMMA EntryTypes ==
  ASSUME SlotInv, NEW r \in Requests, NEW s \in Shapes, NEW at \in Inside \cup {"waiting"},
         Enter(r, s, at)
  PROVE  /\ RequestTypes' /\ At(r)' = at /\ \A t : t # r => At(t)' = At(t)
<1>1. PICK q : q = [at |-> at, shape |-> s, received |-> 0, stamp |-> 0]
  OBVIOUS
<1>2. q \in Pending /\ q.at = at
  BY <1>1, GateAssumption DEF Pending
<1>3. requests' = With(requests, r, q)
  BY <1>1 DEF Enter
<1>4. RequestTypes'
  BY <1>2, <1>3 DEF SlotInv, RequestTypes, With
<1>5. QED
  BY <1>2, <1>3, <1>4, AtAfter

LEMMA AcquireSlots ==
  ASSUME SlotInv, NEW r \in Requests, NEW s \in Shapes, Acquire(r, s)
  PROVE  SlotInv'
<1>1. /\ At(r) = "absent" /\ free > 0 /\ free' = free - 1 /\ queue' = queue
      /\ queue = << >> /\ Enter(r, s, "guard")
  BY DEF Acquire
<1>2. RequestTypes' /\ At(r)' = "guard" /\ \A t : t # r => At(t)' = At(t)
  BY <1>1, EntryTypes DEF Inside
<1>3. r \notin Holders /\ Holders' = Holders \cup {r}
  BY <1>1, <1>2 DEF Holders, Inside
<1>4. IsFiniteSet(Holders') /\ Cardinality(Holders') = Cardinality(Holders) + 1
  BY <1>3, HolderEnters DEF SlotInv
<1>5. Cardinality(Holders) \in Nat /\ free + Cardinality(Holders) = Slots /\ Slots \in Nat
  BY FS_CardinalityType, GateAssumption DEF SlotInv, SlotsAccounted
<1>6. free' \in 0 .. Slots /\ free' + Cardinality(Holders') = Slots
  BY <1>1, <1>4, <1>5 DEF SlotInv
<1>7. SlotsAccounted'
  <2>1. \A t \in Requests : At(t)' # "waiting"
    BY <1>1, <1>2, QueueHolds
  <2>2. {queue[i] : i \in DOMAIN queue} = {}
    BY <1>1
  <2>3. QED
    BY <1>1, <1>6, <2>1, <2>2 DEF SlotsAccounted
<1>8. QED
  BY <1>1, <1>2, <1>4, <1>6, <1>7 DEF SlotInv

LEMMA WaitSlots ==
  ASSUME SlotInv, NEW r \in Requests, NEW s \in Shapes, Wait(r, s)
  PROVE  SlotInv'
<1>1. /\ At(r) = "absent" /\ free' = free
      /\ free = 0 \/ queue # << >>
      /\ queue' = Append(queue, r) /\ Enter(r, s, "waiting")
  BY DEF Wait
<1>2. RequestTypes' /\ At(r)' = "waiting" /\ \A t : t # r => At(t)' = At(t)
  BY <1>1, EntryTypes DEF Inside
<1>3. Holders' = Holders
  BY <1>1, <1>2 DEF Holders, Inside
<1>4. PICK n : n = Len(queue)
  OBVIOUS
<1>5. n \in Nat /\ DOMAIN queue = 1 .. n /\ queue \in Seq(Requests)
  BY <1>4, QueueHolds DEF SlotInv
<1>6. /\ queue' \in Seq(Requests) /\ DOMAIN queue' = 1 .. n + 1
      /\ queue'[n + 1] = r /\ \A i \in 1 .. n : queue'[i] = queue[i]
  <2>1. /\ queue' \in Seq(Requests) /\ Len(queue') = n + 1
        /\ queue'[n + 1] = r /\ \A i \in 1 .. n : queue'[i] = queue[i]
    BY <1>1, <1>4, <1>5, AppendProperties
  <2>2. QED
    BY <2>1, LenProperties
<1>7. SlotsAccounted'
  <2>1. free' + Cardinality(Holders') = Slots
    BY <1>1, <1>3 DEF SlotInv, SlotsAccounted
  <2>2. \A i \in 1 .. n + 1 : i = n + 1 \/ i \in 1 .. n
    BY <1>5
  <2>3. \A i \in 1 .. n : queue[i] \in Requests /\ At(queue[i]) = "waiting" /\ queue[i] # r
    BY <1>1, <1>5, QueueHolds
  <2>4. \A i \in DOMAIN queue' : \E t \in Requests : t = queue'[i] /\ At(t)' = "waiting"
    <3>1. ASSUME NEW i \in 1 .. n
          PROVE  \E t \in Requests : t = queue'[i] /\ At(t)' = "waiting"
      <4>1. PICK t : t = queue[i]
        OBVIOUS
      <4>2. t \in Requests /\ t # r /\ At(t) = "waiting"
        BY <2>3, <4>1
      <4>3. At(t)' = "waiting"
        BY <1>2, <4>2
      <4>4. QED
        BY <1>6, <4>1, <4>2, <4>3
    <3>2. QED
      BY <1>2, <1>6, <2>2, <3>1
  <2>5. \A t \in Requests : At(t)' = "waiting" => \E i \in DOMAIN queue' : queue'[i] = t
    <3>1. \A t \in Requests : t # r /\ At(t)' = "waiting" => \E i \in 1 .. n : queue[i] = t
      BY <1>2, <1>5, QueueHolds
    <3>2. n + 1 \in DOMAIN queue' /\ \A i \in 1 .. n : i \in DOMAIN queue'
      BY <1>5, <1>6
    <3>3. QED
      BY <1>6, <3>1, <3>2
  <2>6. \A i, j \in DOMAIN queue' : queue'[i] = queue'[j] => i = j
    BY <1>5, <1>6, <2>2, <2>3, QueueHolds
  <2>7. queue' # << >> => free' = 0
    BY <1>1, QueueHolds
  <2>8. QED
    BY <2>1, <2>4, <2>5, <2>6, <2>7, Accounted
<1>8. QED
  BY <1>1, <1>2, <1>3, <1>6, <1>7 DEF SlotInv

\* The one at i, r, is out of the queue and no longer waits.
LEMMA QueueShrinks ==
  ASSUME SlotInv, NEW i \in DOMAIN queue, NEW r, r = queue[i],
         DOMAIN queue' = 1 .. Len(queue) - 1,
         \A j \in 1 .. Len(queue) - 1 : queue'[j] = IF j < i THEN queue[j] ELSE queue[j + 1],
         At(r)' # "waiting",
         \A t : t # r => (At(t)' = "waiting" <=> At(t) = "waiting"),
         free' + Cardinality(Holders') = Slots, free' = free
  PROVE  SlotsAccounted'
<1>1. PICK n : n = Len(queue)
  OBVIOUS
<1>2. n \in Nat /\ DOMAIN queue = 1 .. n /\ i \in 1 .. n
  BY <1>1, QueueHolds
<1>3. /\ DOMAIN queue' = 1 .. n - 1
      /\ \A j \in 1 .. n - 1 : queue'[j] = IF j < i THEN queue[j] ELSE queue[j + 1]
  BY <1>1
<1>4. \A j, k \in 1 .. n : queue[j] = queue[k] => j = k
  BY <1>2, QueueHolds
<1>5. /\ \A j \in DOMAIN queue' : \E k \in DOMAIN queue : queue'[j] = queue[k] /\ k # i
      /\ \A k \in DOMAIN queue : k # i => \E j \in DOMAIN queue' : queue'[j] = queue[k]
      /\ \A j, k \in DOMAIN queue' : queue'[j] = queue'[k] => j = k
  <2>1. Without(queue', queue, n, i)
    BY <1>2, <1>3, <1>4 DEF Without
  <2>2. QED
    BY <2>1, ListWithout
<1>6. ASSUME NEW j \in DOMAIN queue'
      PROVE  \E t \in Requests : t = queue'[j] /\ At(t)' = "waiting"
  <2>1. PICK k \in DOMAIN queue : queue'[j] = queue[k] /\ k # i
    BY <1>5
  <2>2. PICK t : t = queue[k]
    OBVIOUS
  <2>3. t \in Requests /\ At(t) = "waiting" /\ t # r
    BY <1>2, <1>4, <2>1, <2>2, QueueHolds
  <2>4. At(t)' = "waiting"
    BY <2>3
  <2>5. QED
    BY <2>1, <2>2, <2>3, <2>4
<1>7. \A t \in Requests : At(t)' = "waiting" => \E j \in DOMAIN queue' : queue'[j] = t
  <2> SUFFICES ASSUME NEW t \in Requests, At(t)' = "waiting"
               PROVE  \E j \in DOMAIN queue' : queue'[j] = t
    OBVIOUS
  <2>1. t # r /\ At(t) = "waiting"
    OBVIOUS
  <2>2. PICK k \in DOMAIN queue : queue[k] = t
    BY <2>1, QueueHolds
  <2>3. QED
    BY <1>5, <2>1, <2>2
<1>8. free = 0
  <2>1. queue # << >>
    OBVIOUS
  <2>2. QED
    BY <2>1, QueueHolds
<1>9. QED
  BY <1>5, <1>6, <1>7, <1>8, Accounted

LEMMA TimeOutSlots ==
  ASSUME SlotInv, NEW r \in Requests, TimeOut(r)
  PROVE  SlotInv'
<1>1. PICK a : a = [at |-> "answered"]
  OBVIOUS
<1>2. requests' = With(requests, r, a) /\ free' = free /\ At(r) = "waiting"
  BY <1>1 DEF TimeOut, Answered, MayTimeOut
<1>3. PICK i \in DOMAIN queue :
        /\ queue[i] = r
        /\ queue' = [j \in 1 .. Len(queue) - 1 |-> IF j < i THEN queue[j] ELSE queue[j + 1]]
  BY DEF TimeOut
<1>4. At(r)' = "answered" /\ \A t : t # r => At(t)' = At(t)
  BY <1>1, <1>2, AtAfter
<1>5. Holders' = Holders
  BY <1>2, <1>4 DEF Holders, Inside
<1>6. RequestTypes'
  BY <1>1, <1>2 DEF SlotInv, RequestTypes, With, Answer
<1>7. queue' \in Seq(Requests)
  <2>1. Len(queue) - 1 \in Nat
    BY QueueHolds, <1>3
  <2>2. \A j \in 1 .. Len(queue) - 1 : (IF j < i THEN queue[j] ELSE queue[j + 1]) \in Requests
    BY QueueHolds
  <2>3. QED
    BY <1>3, <2>1, <2>2, IsASeq
<1>8. SlotsAccounted'
  <2>1. free' + Cardinality(Holders') = Slots
    BY <1>2, <1>5 DEF SlotInv, SlotsAccounted
  <2>2. QED
    BY <1>2, <1>3, <1>4, <2>1, QueueShrinks
<1>9. QED
  BY <1>2, <1>5, <1>6, <1>7, <1>8 DEF SlotInv

\* However a request leaves, its slot is free or goes to the first that waits.
LEMMA LeaveSlots ==
  ASSUME SlotInv, NEW r \in Requests, At(r) \in Inside, Leave(r)
  PROVE  SlotInv'
<1>1. PICK a : a = [at |-> "answered"]
  OBVIOUS
<1>2. r \in Holders /\ At(r) # "waiting"
  BY DEF Holders, Inside
<1>3. /\ Cardinality(Holders) \in Nat /\ Cardinality(Holders) > 0
      /\ free + Cardinality(Holders) = Slots /\ Slots \in Nat /\ free \in Nat
  <2>1. Cardinality(Holders) \in Nat /\ Cardinality(Holders) # 0
    BY <1>2, FS_CardinalityType, FS_EmptySet DEF SlotInv
  <2>2. QED
    BY <2>1, GateAssumption DEF SlotInv, SlotsAccounted
<1>4. CASE queue = << >>
  <2>1. requests' = With(requests, r, a) /\ free' = free + 1 /\ queue' = queue
    BY <1>1, <1>4 DEF Leave, Answered, Freed
  <2>2. At(r)' = "answered" /\ \A t : t # r => At(t)' = At(t)
    BY <1>1, <2>1, AtAfter
  <2>3. Holders' = Holders \ {r}
    BY <1>2, <2>2 DEF Holders, Inside
  <2>4. IsFiniteSet(Holders') /\ Cardinality(Holders') = Cardinality(Holders) - 1
    BY <1>2, <2>3, HolderLeaves DEF SlotInv
  <2>5. RequestTypes'
    BY <1>1, <2>1 DEF SlotInv, RequestTypes, With, Answer
  <2>6. free' \in 0 .. Slots /\ free' + Cardinality(Holders') = Slots
    BY <1>3, <2>1, <2>4
  <2>7. \A t \in Requests : At(t)' # "waiting"
    BY <1>4, <2>2, QueueHolds
  <2>8. SlotsAccounted'
    BY <1>4, <2>1, <2>6, <2>7, Accounted
  <2>9. QED
    BY <2>1, <2>4, <2>5, <2>6, <2>8 DEF SlotInv
<1>5. CASE queue # << >>
  <2>1. PICK h : h = Head(queue)
    OBVIOUS
  <2>2. 1 \in DOMAIN queue /\ h = queue[1] /\ h \in Requests /\ At(h) = "waiting" /\ h # r
    <3>1. 1 \in DOMAIN queue
      BY <1>5, QueueHolds
    <3>2. h = queue[1]
      BY <1>5, <2>1 DEF SlotInv
    <3>3. QED
      BY <1>2, <3>1, <3>2, QueueHolds
  <2>3. /\ requests' = [With(requests, r, a) EXCEPT ![h].at = "guard"]
        /\ free' = free /\ queue' = Tail(queue)
    BY <1>1, <1>5, <2>1 DEF Leave, Answered, Freed
  <2>4. /\ h \in DOMAIN requests /\ requests[h] \in Pending
        /\ DOMAIN requests' = DOMAIN requests \cup {r}
        /\ requests'[h] = [requests[h] EXCEPT !.at = "guard"]
        /\ requests'[r] = a
        /\ \A t \in DOMAIN requests \ {h, r} : requests'[t] = requests[t]
    <3>1. h \in DOMAIN requests /\ requests[h].at = "waiting"
      BY <2>2 DEF At
    <3>2. requests[h] \in Pending
      BY <3>1 DEF SlotInv, RequestTypes, Answer
    <3>3. QED
      BY <2>2, <2>3, <3>1, <3>2 DEF With
  <2>5. requests'[h] \in Pending /\ requests'[h].at = "guard"
    BY <2>4 DEF Pending, Inside
  <2>6. RequestTypes'
    BY <1>1, <2>4, <2>5 DEF SlotInv, RequestTypes, Answer
  <2>7. /\ At(h)' = "guard" /\ At(r)' = "answered"
        /\ \A t : t \notin {h, r} => At(t)' = At(t)
    BY <1>1, <2>4, <2>5 DEF At
  <2>8. Holders' = (Holders \ {r}) \cup {h}
    BY <1>2, <2>2, <2>7 DEF Holders, Inside
  <2>9. IsFiniteSet(Holders') /\ Cardinality(Holders') = Cardinality(Holders)
    <3>1. h \notin Holders
      BY <2>2 DEF Holders, Inside
    <3>2. PICK H : H = Holders \ {r}
      OBVIOUS
    <3>3. IsFiniteSet(H) /\ Cardinality(H) = Cardinality(Holders) - 1 /\ h \notin H
      BY <1>2, <3>1, <3>2, FS_RemoveElement DEF SlotInv
    <3>4. IsFiniteSet(H \cup {h}) /\ Cardinality(H \cup {h}) = Cardinality(H) + 1
      BY <3>3, FS_AddElement
    <3>5. QED
      BY <1>3, <2>8, <3>2, <3>3, <3>4
  <2>10. /\ queue' \in Seq(Requests) /\ DOMAIN queue' = 1 .. Len(queue) - 1
         /\ \A j \in 1 .. Len(queue) - 1 :
              queue'[j] = IF j < 1 THEN queue[j] ELSE queue[j + 1]
    <3>1. /\ queue' \in Seq(Requests) /\ Len(queue') = Len(queue) - 1
          /\ \A j \in 1 .. Len(queue') : queue'[j] = queue[j + 1]
      BY <1>5, <2>3, HeadTailProperties DEF SlotInv
    <3>2. QED
      BY <3>1, LenProperties
  <2>11. SlotsAccounted'
    <3>1. free' + Cardinality(Holders') = Slots
      BY <1>3, <2>3, <2>9
    <3>2. \A t : t # h => (At(t)' = "waiting" <=> At(t) = "waiting")
      BY <1>2, <2>7
    <3>3. QED
      BY <2>2, <2>3, <2>7, <2>10, <3>1, <3>2, QueueShrinks
  <2>12. QED
    BY <1>3, <2>3, <2>6, <2>9, <2>10, <2>11 DEF SlotInv
<1>6. QED
  BY <1>4, <1>5

\* What is let through goes on to the handler with its slot.
LEMMA InwardOrLeave ==
  ASSUME SlotInv, NEW r \in Requests, At(r) \in Inside,
         (requests' = Inward(r) /\ UNCHANGED gate) \/ Leave(r)
  PROVE  SlotInv'
<1>1. r \in DOMAIN requests /\ requests[r] \in Pending
  BY DEF SlotInv, RequestTypes, At, Inside, Answer
<1>2. PICK q : q = [requests[r] EXCEPT !.at = "handler", !.stamp = 0]
  OBVIOUS
<1>3. q \in Pending /\ q.at = "handler" /\ q.at \in Inside
  <2>1. 0 \in 0 .. MaxTime /\ "handler" \in Inside
    BY GateAssumption DEF Inside
  <2>2. QED
    BY <1>1, <1>2, <2>1 DEF Pending
<1>4. CASE requests' = Inward(r) /\ UNCHANGED gate
  <2>1. requests' = [requests EXCEPT ![r] = q]
    BY <1>1, <1>2, <1>4 DEF Inward
  <2>2. QED
    BY <1>3, <1>4, <2>1, MoveInside
<1>5. QED
  BY <1>4, LeaveSlots

LEMMA GuardSlots ==
  ASSUME SlotInv, NEW r \in Requests,
         \/ GuardPasses(r)
         \/ \E more \in BOOLEAN : Receive(r, more)
         \/ Disconnect(r)
  PROVE  SlotInv'
<1>1. At(r) \in {"guard", "receiving"} /\ UNCHANGED gate
  BY DEF GuardPasses, Receive, Disconnect, gate
<1>2. r \in DOMAIN requests /\ requests[r] \in Pending /\ At(r) \in Inside
  BY <1>1 DEF SlotInv, RequestTypes, At, Inside, Answer
<1>3. PICK at \in {"receiving", "limiting"}, n \in 0 .. MaxBody :
        requests' = [requests EXCEPT ![r].at = at, ![r].received = n]
  <2>1. requests[r].received \in 0 .. MaxBody
    BY <1>2 DEF Pending
  <2>2. ASSUME NEW at, requests' = Moved(r, at)
        PROVE  requests' = [requests EXCEPT ![r].at = at, ![r].received = requests[r].received]
    BY <1>2, <2>2 DEF Moved, Pending
  <2>3. CASE GuardPasses(r)
    BY <2>1, <2>2, <2>3 DEF GuardPasses
  <2>4. CASE requests' = HandedIn(r)
    <3>1. 0 \in 0 .. MaxBody
      BY GateAssumption
    <3>2. QED
      BY <2>4, <3>1 DEF HandedIn
  <2>5. CASE \E more \in BOOLEAN : Receive(r, more)
    <3>1. PICK more \in BOOLEAN : Receive(r, more)
      BY <2>5
    <3>2. requests[r].received + 1 \in 0 .. MaxBody
      BY <2>1, <3>1, GateAssumption DEF Receive
    <3>3. CASE more
      <4>1. requests[r].at = "receiving"
        BY <1>2, <3>1 DEF Receive, At
      <4>2. requests' = [requests EXCEPT ![r].at = "receiving",
                                         ![r].received = requests[r].received + 1]
        BY <1>2, <3>1, <3>3, <4>1 DEF Receive, Pending
      <4>3. QED
        BY <3>2, <4>2
    <3>4. QED
      BY <2>4, <3>1, <3>3 DEF Receive
  <2>6. QED
    BY <2>3, <2>4, <2>5 DEF Disconnect
<1>4. PICK q : q = [requests[r] EXCEPT !.at = at, !.received = n]
  OBVIOUS
<1>5. q \in Pending /\ q.at \in Inside
  BY <1>2, <1>4 DEF Pending, Inside
<1>6. requests' = [requests EXCEPT ![r] = q]
  BY <1>2, <1>3, <1>4
<1>7. QED
  BY <1>1, <1>2, <1>5, <1>6, MoveInside

LEMMA CallSlots ==
  ASSUME SlotInv, now \in 0 .. MaxTime, NEW r \in Requests, CallRedis(r) \/ Increment(r)
  PROVE  SlotInv'
<1>1. At(r) \in Inside /\ At(r) \in {"limiting", "calling"}
  BY DEF CallRedis, Increment, Inside
<1>2. r \in DOMAIN requests /\ requests[r] \in Pending
  BY <1>1 DEF SlotInv, RequestTypes, At, Inside, Answer
<1>3. CASE CallRedis(r)
  <2>1. PICK q : q = [requests[r] EXCEPT !.at = "calling", !.stamp = now]
    OBVIOUS
  <2>2. q \in Pending /\ q.at \in Inside
    BY <1>2, <2>1 DEF Pending, Inside
  <2>3. requests' = [requests EXCEPT ![r] = q] /\ UNCHANGED gate
    BY <1>2, <1>3, <2>1 DEF CallRedis
  <2>4. QED
    BY <1>1, <2>2, <2>3, MoveInside
<1>4. CASE requests' = Moved(r, "expiring") /\ UNCHANGED gate
  <2>1. PICK q : q = [requests[r] EXCEPT !.at = "expiring"]
    OBVIOUS
  <2>2. q \in Pending /\ q.at \in Inside
    BY <1>2, <2>1 DEF Pending, Inside
  <2>3. requests' = [requests EXCEPT ![r] = q]
    BY <1>2, <1>4, <2>1 DEF Moved
  <2>4. QED
    BY <1>1, <1>4, <2>2, <2>3, MoveInside
<1>5. CASE (requests' = Inward(r) /\ UNCHANGED gate) \/ Leave(r)
  BY <1>1, <1>5, InwardOrLeave
<1>6. QED
  BY <1>3, <1>4, <1>5 DEF Increment, Decide

LEMMA ServeSlots ==
  ASSUME SlotInv, now \in 0 .. MaxTime, NEW r \in Requests, Serve(r)
  PROVE  SlotInv'
<1>1. CASE TimeOut(r)
  BY <1>1, TimeOutSlots
<1>2. CASE GuardRefuses(r) \/ RefuseOrigin(r) \/ Respond(r)
  BY <1>2, LeaveSlots DEF GuardRefuses, RefuseOrigin, Respond, Inside
<1>3. CASE GuardPasses(r)
  BY <1>3, GuardSlots
<1>4. CASE Exempt(r) \/ SetExpiry(r)
  BY <1>4, InwardOrLeave DEF Exempt, SetExpiry, Decide, Inside
<1>5. CASE LimitLocally(r) \/ RedisFails(r)
  <2>1. At(r) \in Inside
    BY <1>5 DEF LimitLocally, RedisFails, Inside
  <2>2. \E known, t : Consume(r, known, t)
    BY <1>5 DEF LimitLocally, RedisFails
  <2>3. (requests' = Inward(r) /\ UNCHANGED gate) \/ Leave(r)
    BY <2>2 DEF Consume
  <2>4. QED
    BY <2>1, <2>3, InwardOrLeave
<1>6. CASE CallRedis(r) \/ Increment(r)
  BY <1>6, CallSlots
<1>7. QED
  BY <1>1, <1>2, <1>3, <1>4, <1>5, <1>6 DEF Serve

LEMMA NextSlots ==
  SlotInv /\ now \in 0 .. MaxTime /\ [Next]_vars => (SlotInv /\ now \in 0 .. MaxTime)'
<1> SUFFICES ASSUME SlotInv, now \in 0 .. MaxTime, [Next]_vars
             PROVE  (SlotInv /\ now \in 0 .. MaxTime)'
  OBVIOUS
<1>1. ASSUME NEW r \in Requests, NEW s \in Shapes, RefuseCsrf(r, s) \/ Acquire(r, s) \/ Wait(r, s)
      PROVE  SlotInv' /\ now' = now
  BY <1>1, RefuseCsrfSlots, AcquireSlots, WaitSlots DEF RefuseCsrf, Acquire, Wait
<1>2. ASSUME NEW r \in Requests,
             \/ \E more \in BOOLEAN : Receive(r, more)
             \/ Disconnect(r)
      PROVE  SlotInv' /\ now' = now
  BY <1>2, GuardSlots DEF Receive, Disconnect
<1>3. ASSUME NEW r \in Requests, TooMuch(r)
      PROVE  SlotInv' /\ now' = now
  BY <1>3, LeaveSlots DEF TooMuch, Inside
<1>4. ASSUME NEW r \in Requests, Serve(r)
      PROVE  SlotInv' /\ now' = now
  <2>1. now' = now
    BY <1>4 DEF Serve, TimeOut, GuardRefuses, GuardPasses, Exempt, LimitLocally, CallRedis,
                Increment, SetExpiry, RedisFails, RefuseOrigin, Respond
  <2>2. QED
    BY <1>4, <2>1, ServeSlots
<1>5. CASE Tick \/ UNCHANGED vars
  <2>1. UNCHANGED <<requests, free, queue>> /\ now' \in 0 .. MaxTime
    BY <1>5, GateAssumption DEF Tick, vars, gate
  <2>2. RequestTypes' /\ Holders' = Holders
    BY <2>1 DEF SlotInv, RequestTypes, Holders, At
  <2>3. {r \in Requests : At(r) = "waiting"}' = {r \in Requests : At(r) = "waiting"}
    BY <2>1 DEF At
  <2>4. QED
    BY <2>1, <2>2, <2>3 DEF SlotInv, SlotsAccounted
<1>6. QED
  BY <1>1, <1>2, <1>3, <1>4, <1>5 DEF Next

-----------------------------------------------------------------------------
(* The rate limit's half: the buckets of the local table. *)

\* A bucket and its history: what it let through and has left came from its
\* capacity and from time.
Sound(b, l, k) ==
  /\ b.tokens \in 0 .. Full(k) /\ b.last \in Nat
  /\ l.born \in Nat /\ l.granted \in Nat /\ l.back \in Nat
  /\ l.granted * Window + b.tokens <= Full(k) + Capacity(k) * (b.last - l.born + l.back)

BucketInv ==
  /\ DOMAIN buckets \subseteq Keys /\ DOMAIN life = DOMAIN buckets
  /\ IsFiniteSet(DOMAIN buckets)
  /\ \A k \in DOMAIN buckets : Sound(buckets[k], life[k], k) /\ buckets[k].last <= now

LEMMA Distribute ==
  \A a, b, c \in Int : a * b \in Int /\ a * (b + c) = a * b + a * c /\ a * b = b * a
OBVIOUS

LEMMA KeyBounds ==
  ASSUME NEW k \in Keys
  PROVE  /\ k[1] \in Scopes /\ Limit[k[1]] \in Nat
         /\ Capacity(k) \in Nat \ {0} /\ Window \in Nat \ {0}
         /\ Full(k) \in Nat /\ Full(k) = Capacity(k) * Window /\ Full(k) >= Window
<1>1. k[1] \in Scopes
  BY DEF Scopes
<1>2. Limit[k[1]] \in Nat /\ Window \in Nat \ {0}
  BY <1>1, GateAssumption
<1>3. PICK a : a = Capacity(k)
  OBVIOUS
<1>4. a \in Nat \ {0}
  BY <1>2, <1>3 DEF Capacity
<1>5. a * Window \in Nat /\ a * Window >= Window
  <2>1. PICK w : w = Window
    OBVIOUS
  <2>2. w \in Nat \ {0} /\ a - 1 \in Nat
    BY <1>2, <1>4, <2>1
  <2>3. a * w = w + (a - 1) * w /\ (a - 1) * w \in Nat
    BY <1>4, <2>2
  <2>4. QED
    BY <2>1, <2>2, <2>3
<1>6. QED
  BY <1>1, <1>2, <1>3, <1>4, <1>5 DEF Full

\* A new bucket is full.
LEMMA SoundNew ==
  ASSUME NEW k \in Keys, NEW t \in Nat, NEW allowed \in BOOLEAN,
         NEW b, b = [tokens |-> IF allowed THEN Full(k) - Window ELSE Full(k), last |-> t],
         NEW l, l.born = t, l.granted = IF allowed THEN 1 ELSE 0, l.back = 0
  PROVE  Sound(b, l, k)
<1>1. PICK f, w, c : f = Full(k) /\ w = Window /\ c = Capacity(k)
  OBVIOUS
<1>2. f \in Nat /\ w \in Nat /\ c \in Nat /\ f >= w
  BY <1>1, KeyBounds
<1>3. b.tokens \in 0 .. f /\ b.last = t /\ l.born = t /\ l.granted \in {0, 1} /\ l.back = 0
  BY <1>1, <1>2
<1>4. c * (b.last - l.born + l.back) = 0
  BY <1>2, <1>3
<1>5. l.granted * w + b.tokens = f
  BY <1>1, <1>2
<1>6. QED
  BY <1>1, <1>2, <1>3, <1>4, <1>5 DEF Sound

\* A refill gives back what time brought; a clock that is behind takes nothing,
\* and what it takes the stamp back is in the account.
LEMMA SoundRefill ==
  ASSUME NEW k \in Keys, NEW b, NEW l, Sound(b, l, k), NEW t \in Nat, NEW allowed \in BOOLEAN,
         NEW tokens \in 0 .. Full(k), allowed => tokens >= Window,
         tokens <= b.tokens + (IF t > b.last THEN t - b.last ELSE 0) * Capacity(k),
         NEW c, c.tokens = IF allowed THEN tokens - Window ELSE tokens, c.last = t,
         NEW m, m.born = l.born, m.granted = IF allowed THEN l.granted + 1 ELSE l.granted,
         m.back = l.back + (IF b.last > t THEN b.last - t ELSE 0)
  PROVE  Sound(c, m, k)
<1>1. PICK f, w, a : f = Full(k) /\ w = Window /\ a = Capacity(k)
  OBVIOUS
<1>2. f \in Nat /\ w \in Nat /\ a \in Nat
  BY <1>1, KeyBounds
<1>3. PICK e, x : e = (IF t > b.last THEN t - b.last ELSE 0) /\ x = b.last - l.born + l.back
  OBVIOUS
<1>4. /\ b.tokens \in Nat /\ b.last \in Nat /\ l.born \in Nat /\ l.granted \in Nat /\ l.back \in Nat
      /\ l.granted * w + b.tokens <= f + a * x
  BY <1>1, <1>3 DEF Sound
<1>5. e \in Nat /\ x \in Int
  BY <1>3, <1>4
<1>6. c.last - m.born + m.back = x + e
  BY <1>3, <1>4
<1>7. a * (x + e) = a * x + a * e /\ a * x \in Int /\ a * e \in Int /\ e * a = a * e
  BY <1>2, <1>5, Distribute
<1>8. tokens <= b.tokens + a * e
  BY <1>1, <1>3, <1>7
<1>9. m.granted * w + c.tokens = l.granted * w + tokens
  <2>1. (l.granted + 1) * w = l.granted * w + w /\ l.granted * w \in Int
    BY <1>2, <1>4
  <2>2. tokens \in Int
    OBVIOUS
  <2>3. QED
    BY <1>1, <1>2, <2>1, <2>2
<1>10. m.granted * w + c.tokens <= f + a * (x + e)
  <2>1. l.granted * w \in Int
    BY <1>2, <1>4
  <2>2. QED
    BY <1>2, <1>4, <1>7, <1>8, <1>9, <2>1
<1>11. c.tokens \in 0 .. f
  BY <1>1, <1>2
<1>12. c.last \in Nat /\ m.born \in Nat /\ m.granted \in Nat /\ m.back \in Nat
  BY <1>4
<1>13. QED
  BY <1>1, <1>6, <1>10, <1>11, <1>12 DEF Sound

\* Cleaning the table leaves the other buckets as they are.
LEMMA CleanedBuckets ==
  ASSUME BucketInv, NEW known \in SUBSET DOMAIN buckets,
         buckets' = Restricted(buckets, known), life' = Restricted(life, known), now' = now
  PROVE  BucketInv'
<1>1. IsFiniteSet(known)
  BY FS_Subset DEF BucketInv
<1>2. /\ DOMAIN buckets' = known /\ DOMAIN life' = known
      /\ \A k \in known : buckets'[k] = buckets[k] /\ life'[k] = life[k]
  BY DEF Restricted
<1>3. \A k \in known : Sound(buckets[k], life[k], k) /\ buckets[k].last <= now /\ k \in Keys
  BY DEF BucketInv
<1>4. QED
  BY <1>1, <1>2, <1>3 DEF BucketInv

LEMMA ConsumeBuckets ==
  ASSUME BucketInv, NEW known \in SUBSET DOMAIN buckets, NEW t \in Nat, t <= now, now \in Nat,
         NEW r, RateKey(ShapeOf(r)) \in Keys, Consume(r, known, t), now' = now
  PROVE  /\ BucketInv'
         /\ DOMAIN buckets' = known \cup {RateKey(ShapeOf(r))}
<1>1. PICK k : k = RateKey(ShapeOf(r))
  OBVIOUS
<1>2. k \in Keys /\ Full(k) \in Nat /\ Window \in Nat \ {0} /\ Full(k) >= Window /\ Capacity(k) \in Nat
  BY <1>1, KeyBounds
<1>3. PICK tokens, allowed :
        /\ tokens = IF k \in known THEN Refilled(k, t) ELSE Full(k)
        /\ allowed = (tokens >= Window)
  OBVIOUS
<1>4. PICK was, back :
        /\ was = IF k \in known THEN life[k] ELSE [born |-> t, granted |-> 0, back |-> 0]
        /\ back = IF k \in known /\ buckets[k].last > t THEN buckets[k].last - t ELSE 0
  OBVIOUS
<1>5. PICK b, l :
        /\ b = [tokens |-> IF allowed THEN tokens - Window ELSE tokens, last |-> t]
        /\ l = [was EXCEPT !.granted = IF allowed THEN @ + 1 ELSE @, !.back = @ + back]
  OBVIOUS
<1>6. /\ buckets' = With(Restricted(buckets, known), k, b)
      /\ life' = With(Restricted(life, known), k, l)
  BY <1>1, <1>3, <1>4, <1>5 DEF Consume, Stamped
<1>7. /\ DOMAIN buckets' = known \cup {k} /\ DOMAIN life' = known \cup {k}
      /\ buckets'[k] = b /\ life'[k] = l
      /\ \A j \in known \ {k} : buckets'[j] = buckets[j] /\ life'[j] = life[j]
  BY <1>6 DEF With, Restricted
<1>8. allowed \in BOOLEAN
  BY <1>3
<1>9. Sound(b, l, k)
  <2>1. CASE k \notin known
    <3>1. tokens = Full(k) /\ allowed = TRUE
      BY <1>2, <1>3, <2>1
    <3>2. was = [born |-> t, granted |-> 0, back |-> 0] /\ back = 0
      BY <1>4, <2>1
    <3>3. l.born = t /\ l.granted = (IF allowed THEN 1 ELSE 0) /\ l.back = 0
      BY <1>5, <3>1, <3>2
    <3>4. b = [tokens |-> IF allowed THEN Full(k) - Window ELSE Full(k), last |-> t]
      BY <1>5, <3>1
    <3>5. QED
      BY <1>2, <1>8, <3>3, <3>4, SoundNew
  <2>2. CASE k \in known
    <3>1. PICK old, past : old = buckets[k] /\ past = life[k]
      OBVIOUS
    <3>2. Sound(old, past, k)
      BY <2>2, <3>1 DEF BucketInv
    <3>3. /\ old.tokens \in 0 .. Full(k) /\ old.last \in Nat
      BY <3>2 DEF Sound
    <3>4. PICK e : e = IF t > old.last THEN t - old.last ELSE 0
      OBVIOUS
    <3>5. e \in Nat /\ e * Capacity(k) \in Nat
      BY <1>2, <3>3, <3>4
    <3>6. tokens = IF old.tokens + e * Capacity(k) > Full(k) THEN Full(k)
                   ELSE old.tokens + e * Capacity(k)
      BY <1>3, <2>2, <3>1, <3>4 DEF Refilled
    <3>7. /\ tokens \in 0 .. Full(k)
          /\ tokens <= old.tokens + e * Capacity(k)
      <4>1. PICK g, f : g = e * Capacity(k) /\ f = Full(k)
        OBVIOUS
      <4>2. g \in Nat /\ f \in Nat /\ old.tokens \in 0 .. f
        BY <1>2, <3>3, <3>5, <4>1
      <4>3. tokens = IF old.tokens + g > f THEN f ELSE old.tokens + g
        BY <3>6, <4>1
      <4>4. tokens \in 0 .. f /\ tokens <= old.tokens + g
        BY <4>2, <4>3
      <4>5. QED
        BY <4>1, <4>4
    <3>8. allowed => tokens >= Window
      BY <1>3
    <3>9. b.tokens = (IF allowed THEN tokens - Window ELSE tokens) /\ b.last = t
      BY <1>5
    <3>10. /\ l.born = past.born
           /\ l.granted = IF allowed THEN past.granted + 1 ELSE past.granted
           /\ l.back = past.back + (IF old.last > t THEN old.last - t ELSE 0)
      BY <1>4, <1>5, <2>2, <3>1
    <3>11. QED
      BY <1>2, <1>8, <3>2, <3>4, <3>7, <3>8, <3>9, <3>10, SoundRefill
  <2>3. QED
    BY <2>1, <2>2
<1>10. IsFiniteSet(known \cup {k})
  BY FS_Subset, FS_AddElement DEF BucketInv
<1>11. b.last <= now
  BY <1>5
<1>12. BucketInv'
  <2>1. \A j \in known \ {k} : Sound(buckets[j], life[j], j) /\ buckets[j].last <= now /\ j \in Keys
    BY DEF BucketInv
  <2>2. QED
    BY <1>2, <1>7, <1>9, <1>10, <1>11, <2>1 DEF BucketInv
<1>13. QED
  BY <1>1, <1>7, <1>12

-----------------------------------------------------------------------------
(* Requests that wait for Redis, and what Redis has counted. *)

Callers == {r \in Requests : At(r) \in {"calling", "expiring"}}
Expiring == {r \in Requests : At(r) = "expiring"}

\* The table and the calls under way, which may each add a bucket.
CallInv ==
  /\ \A r \in Callers : requests[r].stamp <= now
  /\ Cardinality(DOMAIN buckets) + Cardinality(Callers) <= MaxTracked - 1 + Slots

\* Redis has counted whatever it let through, and who is to set a key's expiry
\* is counted and not yet let through.
CountInv ==
  /\ \A c : /\ Count(counters, c) \in Nat /\ Count(admitted, c) \in Nat
            /\ Count(admitted, c) <= Count(counters, c)
  /\ \A c \in DOMAIN admitted : admitted[c] <= Limit[c[1][1]]
  /\ \A r \in Expiring :
       /\ Count(admitted, Counter(r)) + 1 <= Count(counters, Counter(r))
       /\ WithinLimit(r, 1) => Count(admitted, Counter(r)) + 1 <= Limit[Counter(r)[1][1]]
  /\ \A r, s \in Expiring : Counter(r) = Counter(s) => r = s

RateInv ==
  /\ BucketInv
  /\ CallInv
  /\ CountInv
  /\ downUntil \in 0 .. MaxTime + Fallback

\* r is not, or no longer, calling Redis, and the others that do stand.
Passive(r) ==
  \A s \in Requests :
    At(s)' \in {"calling", "expiring"} =>
      s # r /\ At(s)' = At(s) /\ requests'[s] = requests[s]

LEMMA PassiveWith ==
  ASSUME NEW r, NEW q, q.at \notin {"calling", "expiring"},
         requests' = With(requests, r, q)
  PROVE  Passive(r)
BY DEF With, Passive, At

LEMMA PassiveExcept ==
  ASSUME NEW r, r \in DOMAIN requests, NEW q, q.at \notin {"calling", "expiring"},
         requests' = [requests EXCEPT ![r] = q]
  PROVE  Passive(r)
BY DEF Passive, At

LEMMA PassiveLeave ==
  ASSUME NEW r, Leave(r), SlotInv
  PROVE  Passive(r)
<1>1. PICK a : a = [at |-> "answered"]
  OBVIOUS
<1>2. CASE queue = << >>
  <2>1. requests' = With(requests, r, a)
    BY <1>1, <1>2 DEF Leave, Answered
  <2>2. QED
    BY <1>1, <2>1, PassiveWith
<1>3. CASE queue # << >>
  <2>1. PICK h : h = Head(queue)
    OBVIOUS
  <2>2. requests' = [With(requests, r, a) EXCEPT ![h].at = "guard"]
    BY <1>1, <1>3, <2>1 DEF Leave, Answered
  <2>3. h \in DOMAIN requests /\ requests[h] \in Pending
    <3>1. 1 \in DOMAIN queue /\ h = queue[1]
      BY <1>3, <2>1, QueueHolds DEF SlotInv
    <3>2. h \in Requests /\ At(h) = "waiting"
      BY <3>1, QueueHolds
    <3>3. QED
      BY <3>2 DEF SlotInv, RequestTypes, At, Answer
  <2>4. /\ DOMAIN requests' = DOMAIN requests \cup {r}
        /\ h # r => requests'[h].at = "guard" /\ requests'[r] = a
        /\ h = r => requests'[r].at = "guard"
        /\ \A s \in DOMAIN requests \ {h, r} : requests'[s] = requests[s]
    BY <1>1, <2>2, <2>3 DEF With, Pending
  <2>5. QED
    BY <1>1, <2>4 DEF Passive, At
<1>4. QED
  BY <1>2, <1>3

LEMMA PassiveGate ==
  ASSUME SlotInv, NEW r \in Requests, At(r) \in Inside,
         (requests' = Inward(r) /\ UNCHANGED gate) \/ Leave(r)
  PROVE  Passive(r)
<1>1. r \in DOMAIN requests /\ requests[r] \in Pending
  BY DEF SlotInv, RequestTypes, At, Inside, Answer
<1>2. PICK q : q = [requests[r] EXCEPT !.at = "handler", !.stamp = 0]
  OBVIOUS
<1>3. q.at = "handler"
  BY <1>1, <1>2 DEF Pending
<1>4. CASE requests' = Inward(r)
  <2>1. requests' = [requests EXCEPT ![r] = q]
    BY <1>1, <1>2, <1>4 DEF Inward
  <2>2. QED
    BY <1>1, <1>3, <2>1, PassiveExcept
<1>5. QED
  BY <1>4, PassiveLeave

\* The callers after a step that adds none.
LEMMA PassiveCallers ==
  ASSUME SlotInv, NEW r, Passive(r)
  PROVE  /\ Callers' \subseteq Callers \ {r}
         /\ IsFiniteSet(Callers) /\ IsFiniteSet(Callers')
         /\ Cardinality(Callers) \in Nat /\ Cardinality(Callers') \in Nat
         /\ Cardinality(Callers') <= Cardinality(Callers)
         /\ r \in Callers => Cardinality(Callers') < Cardinality(Callers)
         /\ \A s \in Callers' : requests'[s] = requests[s]
         /\ Expiring' \subseteq Expiring \ {r} /\ Expiring' \subseteq Callers'
<1>1. Callers' \subseteq Callers \ {r} /\ \A s \in Callers' : requests'[s] = requests[s]
  BY DEF Callers, Passive
<1>2. Expiring' \subseteq Expiring \ {r} /\ Expiring' \subseteq Callers'
  BY DEF Callers, Expiring, Passive
<1>3. IsFiniteSet(Callers)
  <2>1. Callers \subseteq Holders
    BY DEF Callers, Holders, Inside
  <2>2. QED
    BY <2>1, FS_Subset DEF SlotInv
<1>4. PICK C : C = Callers'
  OBVIOUS
<1>5. IsFiniteSet(C) /\ Cardinality(C) <= Cardinality(Callers)
  BY <1>1, <1>3, <1>4, FS_Subset
<1>6. Cardinality(C) \in Nat /\ Cardinality(Callers) \in Nat
  BY <1>3, <1>5, FS_CardinalityType
<1>7. r \in Callers => Cardinality(C) # Cardinality(Callers)
  <2>1. C \in SUBSET Callers
    BY <1>1, <1>4
  <2>2. Cardinality(C) = Cardinality(Callers) => C = Callers
    BY <1>3, <2>1, FS_Subset
  <2>3. QED
    BY <1>1, <1>4, <2>2
<1>8. QED
  BY <1>1, <1>2, <1>3, <1>4, <1>5, <1>6, <1>7

\* What Redis has counted stands when nobody new is let through or to set an expiry.
LEMMA CountsStand ==
  ASSUME CountInv, Expiring' \subseteq Expiring,
         \A s \in Expiring' : requests'[s] = requests[s],
         admitted' = admitted,
         \A c : Count(counters', c) \in Nat /\ Count(counters', c) >= Count(counters, c)
  PROVE  CountInv'
<1>1. \A s \in Expiring' : /\ Counter(s)' = Counter(s)
                           /\ WithinLimit(s, 1)' <=> WithinLimit(s, 1)
  BY DEF Counter, WithinLimit, ShapeOf
<1>2. \A c : /\ Count(counters', c) \in Nat /\ Count(admitted', c) \in Nat
             /\ Count(admitted', c) <= Count(counters', c)
  BY DEF CountInv
<1>3. \A s \in Expiring' :
        /\ Count(admitted, Counter(s)) + 1 <= Count(counters', Counter(s))
        /\ WithinLimit(s, 1) => Count(admitted, Counter(s)) + 1 <= Limit[Counter(s)[1][1]]
  <2> SUFFICES ASSUME NEW s \in Expiring', NEW c, c = Counter(s)
               PROVE  /\ Count(admitted, c) + 1 <= Count(counters', c)
                      /\ WithinLimit(s, 1) => Count(admitted, c) + 1 <= Limit[c[1][1]]
    OBVIOUS
  <2>1. /\ Count(admitted, c) + 1 <= Count(counters, c)
        /\ WithinLimit(s, 1) => Count(admitted, c) + 1 <= Limit[c[1][1]]
        /\ Count(admitted, c) \in Nat /\ Count(counters, c) \in Nat
    BY DEF CountInv
  <2>2. QED
    BY <2>1
<1>4. QED
  BY <1>1, <1>2, <1>3 DEF CountInv

-----------------------------------------------------------------------------
LEMMA RateInit == Init => RateInv
<1> SUFFICES ASSUME Init PROVE RateInv
  OBVIOUS
<1>1. /\ buckets = << >> /\ life = << >> /\ counters = << >> /\ admitted = << >>
      /\ \A r : At(r) = "absent"
  BY DEF Init, At
<1>2. Callers = {} /\ Expiring = {} /\ DOMAIN buckets = {} /\ DOMAIN admitted = {}
  BY <1>1 DEF Callers, Expiring
<1>3. BucketInv
  BY <1>1, <1>2, FS_EmptySet DEF BucketInv
<1>4. CallInv
  <2>1. Cardinality(Callers) = 0 /\ Cardinality(DOMAIN buckets) = 0
    BY <1>2, FS_EmptySet
  <2>2. 0 <= MaxTracked - 1 + Slots
    BY GateAssumption
  <2>3. QED
    BY <1>2, <2>1, <2>2 DEF CallInv
<1>5. CountInv
  BY <1>1, <1>2 DEF CountInv, Count
<1>6. downUntil \in 0 .. MaxTime + Fallback
  BY GateAssumption DEF Init
<1>7. QED
  BY <1>3, <1>4, <1>5, <1>6 DEF RateInv

\* What the other gates do does not touch the rate limit.
LEMMA PassiveRates ==
  ASSUME SlotInv, RateInv, NEW r, Passive(r), UNCHANGED <<rates, now>>
  PROVE  RateInv'
<1>1. UNCHANGED <<buckets, counters, downUntil, life, admitted, now>>
  BY DEF rates
<1>2. BucketInv'
  BY <1>1 DEF RateInv, BucketInv
<1>3. CallInv'
  <2>1. \A s \in Callers' : requests'[s].stamp <= now
    BY PassiveCallers DEF RateInv, CallInv
  <2>2. Cardinality(DOMAIN buckets) \in Nat
    BY FS_CardinalityType DEF RateInv, BucketInv
  <2>3. Cardinality(DOMAIN buckets) + Cardinality(Callers') <= MaxTracked - 1 + Slots
    BY <2>2, PassiveCallers, GateAssumption DEF RateInv, CallInv
  <2>4. QED
    BY <1>1, <2>1, <2>3 DEF CallInv
<1>4. CountInv'
  <2>1. CountInv /\ \A c : Count(counters', c) \in Nat /\ Count(counters', c) >= Count(counters, c)
    BY <1>1 DEF RateInv, CountInv
  <2>2. QED
    BY <1>1, <2>1, PassiveCallers, CountsStand
<1>5. QED
  BY <1>1, <1>2, <1>3, <1>4 DEF RateInv

\* Every way of cleaning the table leaves known keys, and room for one.
LEMMA SurvivorsFit ==
  ASSUME BucketInv, NEW t, NEW known \in Survivors(t)
  PROVE  known \subseteq DOMAIN buckets /\ Cardinality(known) <= MaxTracked - 1
<1>1. Kept(t) \subseteq DOMAIN buckets
  BY DEF Kept
<1>2. CASE Cardinality(DOMAIN buckets) < MaxTracked
  <2>1. known = DOMAIN buckets
    BY <1>2 DEF Survivors
  <2>2. Cardinality(DOMAIN buckets) \in Nat
    BY FS_CardinalityType DEF BucketInv
  <2>3. QED
    BY <1>2, <2>1, <2>2, GateAssumption
<1>3. CASE ~(Cardinality(DOMAIN buckets) < MaxTracked)
  <2>1. MaxTracked - 1 <= MaxTracked - 1
    BY GateAssumption
  <2>2. CASE Cardinality(Kept(t)) <= Room
    <3>1. known = Kept(t)
      BY <1>3, <2>2 DEF Survivors
    <3>2. QED
      BY <1>1, <2>2, <3>1 DEF Room
  <2>3. CASE ~(Cardinality(Kept(t)) <= Room)
    <3>1. known \in SUBSET Kept(t) /\ Cardinality(known) = Room
      BY <1>3, <2>3 DEF Survivors
    <3>2. QED
      BY <1>1, <2>1, <3>1 DEF Room
  <2>4. QED
    BY <2>2, <2>3
<1>4. QED
  BY <1>2, <1>3

\* A request that is not calling Redis leaves the callers room below the slots.
LEMMA CallersBelowSlots ==
  ASSUME SlotInv, NEW r \in Requests, At(r) \in Inside
  PROVE  /\ IsFiniteSet(Callers) /\ Cardinality(Callers) \in Nat
         /\ Cardinality(Callers) <= Slots
         /\ r \notin Callers => Cardinality(Callers) + 1 <= Slots
<1>1. IsFiniteSet(Holders) /\ Cardinality(Holders) \in Nat /\ Cardinality(Holders) <= Slots
  BY FS_CardinalityType, GateAssumption DEF SlotInv, SlotsAccounted
<1>2. Callers \subseteq Holders /\ r \in Holders
  BY DEF Callers, Holders, Inside
<1>3. /\ IsFiniteSet(Callers) /\ Cardinality(Callers) <= Cardinality(Holders)
      /\ Cardinality(Callers) = Cardinality(Holders) => Callers = Holders
  BY <1>1, <1>2, FS_Subset
<1>4. Cardinality(Callers) \in Nat
  BY <1>3, FS_CardinalityType
<1>5. QED
  BY <1>1, <1>2, <1>3, <1>4, GateAssumption

LEMMA LimitLocallyRates ==
  ASSUME SlotInv, RateInv, now \in 0 .. MaxTime, NEW r \in Requests, LimitLocally(r)
  PROVE  RateInv'
<1>1. PICK known \in Survivors(now) : Consume(r, known, now)
  BY DEF LimitLocally
<1>2. At(r) = "limiting" /\ UNCHANGED <<counters, downUntil, admitted, now>>
  BY DEF LimitLocally
<1>3. Passive(r)
  BY <1>1, <1>2, PassiveGate DEF Consume, Inside
<1>4. r \notin Callers /\ At(r) \in Inside
  BY <1>2 DEF Callers, Inside
<1>5. RateKey(ShapeOf(r)) \in Keys
  <2>1. requests[r] \in Pending
    BY <1>2 DEF SlotInv, RequestTypes, At, Answer
  <2>2. QED
    BY <2>1 DEF Keys, ShapeOf, Pending
<1>6. known \in SUBSET DOMAIN buckets /\ Cardinality(known) <= MaxTracked - 1
  BY <1>1, SurvivorsFit DEF RateInv
<1>7. now \in Nat
  BY GateAssumption
<1>8. BucketInv' /\ DOMAIN buckets' = known \cup {RateKey(ShapeOf(r))}
  BY <1>1, <1>2, <1>5, <1>6, <1>7, ConsumeBuckets DEF RateInv
<1>9. PICK B : B = DOMAIN buckets'
  OBVIOUS
<1>10. Cardinality(B) \in Nat /\ Cardinality(B) <= MaxTracked
  <2>1. IsFiniteSet(known)
    BY <1>6, FS_Subset DEF RateInv, BucketInv
  <2>2. IsFiniteSet(B) /\ Cardinality(B) <= Cardinality(known) + 1 /\ Cardinality(known) \in Nat
    <3>1. PICK k : k = RateKey(ShapeOf(r))
      OBVIOUS
    <3>2. B = known \cup {k}
      BY <1>8, <1>9, <3>1
    <3>3. Cardinality(known) \in Nat
      BY <2>1, FS_CardinalityType
    <3>4. /\ IsFiniteSet(known \cup {k})
          /\ Cardinality(known \cup {k}) = IF k \in known THEN Cardinality(known) ELSE Cardinality(known) + 1
      BY <2>1, FS_AddElement
    <3>5. QED
      BY <3>2, <3>3, <3>4
  <2>3. QED
    BY <1>6, <2>2, FS_CardinalityType, GateAssumption
<1>11. CallInv'
  <2>1. \A s \in Callers' : requests'[s].stamp <= now
    BY <1>3, PassiveCallers DEF RateInv, CallInv
  <2>2. Cardinality(Callers') \in Nat /\ Cardinality(Callers') + 1 <= Slots
    BY <1>3, <1>4, PassiveCallers, CallersBelowSlots, GateAssumption
  <2>3. Cardinality(B) + Cardinality(Callers') <= MaxTracked - 1 + Slots
    BY <1>10, <2>2, GateAssumption
  <2>4. QED
    BY <1>2, <1>9, <2>1, <2>3 DEF CallInv
<1>12. CountInv'
  <2>1. CountInv /\ \A c : Count(counters', c) \in Nat /\ Count(counters', c) >= Count(counters, c)
    BY <1>2 DEF RateInv, CountInv
  <2>2. QED
    BY <1>2, <1>3, <2>1, PassiveCallers, CountsStand
<1>13. QED
  BY <1>2, <1>8, <1>11, <1>12 DEF RateInv

LEMMA CallRedisRates ==
  ASSUME SlotInv, RateInv, now \in 0 .. MaxTime, NEW r \in Requests, CallRedis(r)
  PROVE  RateInv'
<1>1. PICK known \in Survivors(now) :
        buckets' = Restricted(buckets, known) /\ life' = Restricted(life, known)
  BY DEF CallRedis
<1>2. /\ At(r) = "limiting" /\ UNCHANGED <<counters, downUntil, admitted, now>>
      /\ requests' = [requests EXCEPT ![r].at = "calling", ![r].stamp = now]
  BY DEF CallRedis
<1>3. r \in DOMAIN requests /\ requests[r] \in Pending
  BY <1>2 DEF SlotInv, RequestTypes, At, Answer
<1>4. /\ requests'[r].stamp = now /\ At(r)' = "calling"
      /\ \A s : s # r => At(s)' = At(s) /\ requests'[s] = requests[s]
  <2>1. PICK q : q = [requests[r] EXCEPT !.at = "calling", !.stamp = now]
    OBVIOUS
  <2>2. q.at = "calling" /\ q.stamp = now
    BY <1>3, <2>1 DEF Pending
  <2>3. requests' = [requests EXCEPT ![r] = q]
    BY <1>2, <1>3, <2>1
  <2>4. QED
    BY <1>3, <2>2, <2>3 DEF At
<1>5. known \in SUBSET DOMAIN buckets /\ Cardinality(known) <= MaxTracked - 1
  BY <1>1, SurvivorsFit DEF RateInv
<1>6. BucketInv'
  BY <1>1, <1>2, <1>5, CleanedBuckets DEF RateInv
<1>7. CallInv'
  <2>1. Callers' = Callers \cup {r}
    BY <1>4 DEF Callers
  <2>2. r \notin Callers /\ At(r) \in Inside
    BY <1>2 DEF Callers, Inside
  <2>3. /\ Cardinality(Callers \cup {r}) = Cardinality(Callers) + 1
        /\ Cardinality(Callers) \in Nat /\ Cardinality(Callers) + 1 <= Slots
    BY <2>2, CallersBelowSlots, FS_AddElement
  <2>4. DOMAIN buckets' = known
    BY <1>1 DEF Restricted
  <2>5. Cardinality(known) \in Nat
    BY <1>5, FS_Subset, FS_CardinalityType DEF RateInv, BucketInv
  <2>6. Cardinality(DOMAIN buckets') + Cardinality(Callers') <= MaxTracked - 1 + Slots
    BY <1>5, <2>1, <2>3, <2>4, <2>5, GateAssumption
  <2>7. now <= now
    BY GateAssumption
  <2>8. \A s \in Callers' : requests'[s].stamp <= now
    BY <1>4, <2>1, <2>7 DEF RateInv, CallInv
  <2>9. QED
    BY <1>2, <2>6, <2>8 DEF CallInv
<1>8. CountInv'
  <2>1. CountInv /\ \A c : Count(counters', c) \in Nat /\ Count(counters', c) >= Count(counters, c)
    BY <1>2 DEF RateInv, CountInv
  <2>2. Expiring' \subseteq Expiring /\ \A s \in Expiring' : requests'[s] = requests[s]
    BY <1>4 DEF Expiring
  <2>3. QED
    BY <1>2, <2>1, <2>2, CountsStand
<1>9. QED
  BY <1>2, <1>6, <1>7, <1>8 DEF RateInv

\* The calls and the buckets, when an answer of Redis settles a request.
LEMMA SettledCalls ==
  ASSUME SlotInv, RateInv, NEW r, Passive(r), UNCHANGED <<buckets, life, downUntil, now>>
  PROVE  BucketInv' /\ CallInv' /\ downUntil' \in 0 .. MaxTime + Fallback
<1>1. BucketInv' /\ downUntil' \in 0 .. MaxTime + Fallback
  BY DEF RateInv, BucketInv
<1>2. \A s \in Callers' : requests'[s].stamp <= now
  BY PassiveCallers DEF RateInv, CallInv
<1>3. Cardinality(DOMAIN buckets) \in Nat
  BY FS_CardinalityType DEF RateInv, BucketInv
<1>4. Cardinality(DOMAIN buckets) + Cardinality(Callers') <= MaxTracked - 1 + Slots
  BY <1>3, PassiveCallers, GateAssumption DEF RateInv, CallInv
<1>5. QED
  BY <1>1, <1>2, <1>4 DEF CallInv

\* One more let through: counted, within the limit, and no other's turn.
LEMMA AdmitCounts ==
  ASSUME CountInv, NEW r, NEW c,
         \A d : Count(counters', d) \in Nat /\ Count(counters', d) >= Count(counters, d),
         admitted' = With(admitted, c, Count(admitted, c) + 1),
         Count(admitted, c) + 1 <= Count(counters', c),
         Count(admitted, c) + 1 <= Limit[c[1][1]],
         Limit[c[1][1]] \in Nat,
         Expiring' \subseteq Expiring, \A s \in Expiring' : requests'[s] = requests[s],
         \A s \in Expiring' : Counter(s) = c =>
           /\ Count(admitted, c) + 2 <= Count(counters', c)
           /\ WithinLimit(s, 1) => Count(admitted, c) + 2 <= Limit[c[1][1]]
  PROVE  CountInv'
<1>1. /\ Count(admitted', c) = Count(admitted, c) + 1
      /\ \A d : d # c => Count(admitted', d) = Count(admitted, d)
      /\ DOMAIN admitted' = DOMAIN admitted \cup {c}
      /\ admitted'[c] = Count(admitted, c) + 1
      /\ \A d \in DOMAIN admitted \ {c} : admitted'[d] = admitted[d]
  BY DEF With, Count
<1>2. \A d : Count(admitted, d) \in Nat /\ Count(counters, d) \in Nat /\ Count(admitted, d) <= Count(counters, d)
  BY DEF CountInv
<1>3. \A d : /\ Count(counters', d) \in Nat /\ Count(admitted', d) \in Nat
             /\ Count(admitted', d) <= Count(counters', d)
  <2> TAKE d
  <2>1. CASE d = c
    BY <1>1, <1>2, <2>1
  <2>2. CASE d # c
    <3>1. /\ Count(admitted', d) = Count(admitted, d)
          /\ Count(admitted, d) \in Nat /\ Count(counters, d) \in Nat
          /\ Count(admitted, d) <= Count(counters, d)
          /\ Count(counters', d) \in Nat /\ Count(counters', d) >= Count(counters, d)
      BY <1>1, <1>2, <2>2
    <3>2. QED
      BY <3>1
  <2>3. QED
    BY <2>1, <2>2
<1>4. \A d \in DOMAIN admitted' : admitted'[d] <= Limit[d[1][1]]
  BY <1>1 DEF CountInv
<1>5. \A s \in Expiring' : /\ Counter(s)' = Counter(s)
                           /\ WithinLimit(s, 1)' <=> WithinLimit(s, 1)
  BY DEF Counter, WithinLimit, ShapeOf
<1>6. \A s \in Expiring' :
        /\ Count(admitted', Counter(s)) + 1 <= Count(counters', Counter(s))
        /\ WithinLimit(s, 1) => Count(admitted', Counter(s)) + 1 <= Limit[Counter(s)[1][1]]
  <2> SUFFICES ASSUME NEW s \in Expiring', NEW d, d = Counter(s)
               PROVE  /\ Count(admitted', d) + 1 <= Count(counters', d)
                      /\ WithinLimit(s, 1) => Count(admitted', d) + 1 <= Limit[d[1][1]]
    OBVIOUS
  <2>1. CASE d = c
    <3>1. /\ Count(admitted, c) + 2 <= Count(counters', c)
          /\ WithinLimit(s, 1) => Count(admitted, c) + 2 <= Limit[c[1][1]]
      BY <2>1
    <3>2. Count(admitted, c) \in Nat
      BY <1>2
    <3>3. QED
      BY <1>1, <2>1, <3>1, <3>2
  <2>2. CASE d # c
    <3>1. /\ Count(admitted, d) + 1 <= Count(counters, d)
          /\ WithinLimit(s, 1) => Count(admitted, d) + 1 <= Limit[d[1][1]]
      BY DEF CountInv
    <3>2. Count(admitted, d) \in Nat /\ Count(counters, d) \in Nat /\ Count(admitted', d) = Count(admitted, d)
      BY <1>1, <1>2, <2>2
    <3>3. Count(counters', d) \in Nat /\ Count(counters', d) >= Count(counters, d)
      OBVIOUS
    <3>4. QED
      BY <3>1, <3>2, <3>3
  <2>3. QED
    BY <2>1, <2>2
<1>7. \A s, t \in Expiring' : Counter(s)' = Counter(t)' => s = t
  BY <1>5 DEF CountInv
<1>8. QED
  BY <1>3, <1>4, <1>5, <1>6, <1>7 DEF CountInv

LEMMA CounterBounds ==
  ASSUME SlotInv, NEW r \in Requests, At(r) \in Inside
  PROVE  /\ r \in DOMAIN requests /\ requests[r] \in Pending
         /\ RateKey(ShapeOf(r)) \in Keys
         /\ Counter(r)[1][1] = Scope(ShapeOf(r))
         /\ Limit[Counter(r)[1][1]] \in Nat
<1>1. r \in DOMAIN requests /\ requests[r] \in Pending
  BY DEF SlotInv, RequestTypes, At, Inside, Answer
<1>2. RateKey(ShapeOf(r)) \in Keys
  BY <1>1 DEF Keys, ShapeOf, Pending
<1>3. Counter(r)[1] = RateKey(ShapeOf(r))
  BY DEF Counter
<1>4. QED
  BY <1>1, <1>2, <1>3, KeyBounds DEF RateKey

LEMMA IncrementRates ==
  ASSUME SlotInv, RateInv, NEW r \in Requests, Increment(r)
  PROVE  RateInv'
<1>1. PICK c, n : c = Counter(r) /\ n = Count(counters, c) + 1
  OBVIOUS
<1>2. At(r) = "calling" /\ At(r) \in Inside /\ UNCHANGED <<buckets, life, downUntil, now>>
  BY DEF Increment, Inside
<1>3. /\ r \in DOMAIN requests /\ requests[r] \in Pending
      /\ c[1][1] = Scope(ShapeOf(r)) /\ Limit[c[1][1]] \in Nat
  BY <1>1, <1>2, CounterBounds
<1>4. counters' = With(counters, c, n)
  BY <1>1 DEF Increment, Counted
<1>5. /\ Count(counters', c) = n /\ counters'[c] = n
      /\ \A d : d # c => Count(counters', d) = Count(counters, d)
  BY <1>4 DEF With, Count
<1>6. /\ n \in Nat /\ Count(counters, c) \in Nat /\ n = Count(counters, c) + 1
      /\ Count(admitted, c) \in Nat /\ Count(admitted, c) <= Count(counters, c)
  BY <1>1 DEF RateInv, CountInv
<1>7. \A d : Count(counters', d) \in Nat /\ Count(counters', d) >= Count(counters, d)
  <2> TAKE d
  <2>1. Count(counters, d) \in Nat
    BY DEF RateInv, CountInv
  <2>2. QED
    BY <1>5, <1>6, <2>1
<1>8. \/ n = 1 /\ requests' = Moved(r, "expiring") /\ UNCHANGED <<gate, admitted>>
      \/ n # 1 /\ Decide(r, n)
  BY <1>1, <1>5 DEF Increment
<1>9. CASE n = 1 /\ requests' = Moved(r, "expiring") /\ UNCHANGED <<gate, admitted>>
  <2>1. PICK q : q = [requests[r] EXCEPT !.at = "expiring"]
    OBVIOUS
  <2>2. /\ requests' = [requests EXCEPT ![r] = q]
        /\ q.at = "expiring" /\ q.stamp = requests[r].stamp /\ q.shape = requests[r].shape
    BY <1>3, <1>9, <2>1 DEF Moved, Pending
  <2>3. /\ At(r)' = "expiring" /\ requests'[r].stamp = requests[r].stamp
        /\ requests'[r].shape = requests[r].shape
        /\ \A s : s # r => At(s)' = At(s) /\ requests'[s] = requests[s]
    BY <1>3, <2>2 DEF At
  <2>4. Callers' = Callers /\ Expiring' = Expiring \cup {r} /\ r \in Callers /\ r \notin Expiring
    BY <1>2, <2>3 DEF Callers, Expiring
  <2>5. BucketInv'
    BY <1>2 DEF RateInv, BucketInv
  <2>6. CallInv'
    <3>1. \A s \in Callers : requests'[s].stamp <= now
      BY <2>3, <2>4 DEF RateInv, CallInv
    <3>2. QED
      BY <1>2, <2>4, <3>1 DEF RateInv, CallInv
  <2>7. CountInv'
    <3>1. \A s \in Requests : /\ Counter(s)' = Counter(s)
                              /\ WithinLimit(s, 1)' <=> WithinLimit(s, 1)
      BY <2>3 DEF Counter, WithinLimit, ShapeOf
    <3>2. Count(admitted, c) = 0 /\ Count(counters, c) = 0
      BY <1>6, <1>9
    <3>3. \A d : /\ Count(counters', d) \in Nat /\ Count(admitted', d) \in Nat
                 /\ Count(admitted', d) <= Count(counters', d)
      <4> TAKE d
      <4>1. Count(counters, d) \in Nat /\ Count(admitted, d) \in Nat /\ Count(admitted, d) <= Count(counters, d)
        BY DEF RateInv, CountInv
      <4>2. Count(counters', d) \in Nat /\ Count(counters', d) >= Count(counters, d)
        BY <1>7
      <4>3. Count(admitted', d) = Count(admitted, d)
        BY <1>9
      <4>4. QED
        BY <4>1, <4>2, <4>3
    <3>4. \A s \in Expiring : Counter(s) # c
      <4>1. ASSUME NEW s \in Expiring, Counter(s) = c PROVE FALSE
        <5>1. Count(admitted, c) + 1 <= Count(counters, c)
          BY <4>1 DEF RateInv, CountInv
        <5>2. QED
          BY <3>2, <5>1
      <4>2. QED
        BY <4>1
    <3>5. ASSUME NEW s \in Expiring'
          PROVE  /\ Count(admitted, Counter(s)) + 1 <= Count(counters', Counter(s))
                 /\ WithinLimit(s, 1) => Count(admitted, Counter(s)) + 1 <= Limit[Counter(s)[1][1]]
      <4>1. CASE s = r
        <5>1. WithinLimit(r, 1) => 1 <= Limit[c[1][1]]
          BY <1>3 DEF WithinLimit
        <5>2. QED
          BY <1>1, <1>5, <1>9, <3>2, <4>1, <5>1
      <4>2. CASE s # r
        <5>1. PICK d : d = Counter(s)
          OBVIOUS
        <5>2. s \in Expiring
          BY <2>4, <4>2
        <5>3. d # c
          BY <3>4, <5>1, <5>2
        <5>4. /\ Count(admitted, d) + 1 <= Count(counters, d)
              /\ WithinLimit(s, 1) => Count(admitted, d) + 1 <= Limit[d[1][1]]
          BY <5>1, <5>2 DEF RateInv, CountInv
        <5>5. QED
          BY <1>5, <5>1, <5>3, <5>4
      <4>3. QED
        BY <4>1, <4>2
    <3>6. \A s, t \in Expiring' : Counter(s) = Counter(t) => s = t
      BY <1>1, <2>4, <3>4 DEF RateInv, CountInv
    <3>7. \A s \in Expiring' : s \in Requests
      BY DEF Expiring
    <3>8. \A d \in DOMAIN admitted' : admitted'[d] <= Limit[d[1][1]]
      BY <1>9 DEF RateInv, CountInv
    <3>9. \A s \in Expiring' :
            /\ Count(admitted, Counter(s))' + 1 <= Count(counters, Counter(s))'
            /\ WithinLimit(s, 1)' => Count(admitted, Counter(s))' + 1 <= Limit[Counter(s)'[1][1]]
      BY <1>9, <3>1, <3>5, <3>7
    <3>10. \A s, t \in Expiring' : Counter(s)' = Counter(t)' => s = t
      BY <3>1, <3>6, <3>7
    <3>11. QED
      BY <3>3, <3>8, <3>9, <3>10 DEF CountInv
  <2>8. QED
    BY <1>2, <2>5, <2>6, <2>7 DEF RateInv
<1>10. CASE n # 1 /\ Decide(r, n)
  <2>1. Passive(r)
    BY <1>2, <1>10, PassiveGate DEF Decide
  <2>2. /\ BucketInv' /\ CallInv' /\ downUntil' \in 0 .. MaxTime + Fallback
        /\ Expiring' \subseteq Expiring /\ \A s \in Expiring' : requests'[s] = requests[s]
    BY <1>2, <2>1, SettledCalls, PassiveCallers
  <2>3. CASE ~WithinLimit(r, n)
    <3>1. admitted' = admitted /\ CountInv
      BY <1>10, <2>3 DEF Decide, RateInv
    <3>2. CountInv'
      BY <1>7, <2>2, <3>1, CountsStand
    <3>3. QED
      BY <2>2, <3>2 DEF RateInv
  <2>4. CASE WithinLimit(r, n)
    <3>1. admitted' = With(admitted, c, Count(admitted, c) + 1) /\ n <= Limit[c[1][1]]
      BY <1>1, <1>3, <1>10, <2>4 DEF Decide, WithinLimit
    <3>2. Count(admitted, c) + 1 <= Count(counters', c) /\ Count(admitted, c) + 1 <= Limit[c[1][1]]
      BY <1>3, <1>5, <1>6, <3>1
    <3>3. ASSUME NEW s \in Expiring', Counter(s) = c
          PROVE  /\ Count(admitted, c) + 2 <= Count(counters', c)
                 /\ Count(admitted, c) + 2 <= Limit[c[1][1]]
      <4>1. Count(admitted, c) + 1 <= Count(counters, c)
        BY <2>2, <3>3 DEF RateInv, CountInv
      <4>2. QED
        BY <1>3, <1>5, <1>6, <3>1, <4>1
    <3>4. CountInv
      BY DEF RateInv
    <3>5. CountInv'
      BY <1>3, <1>7, <2>2, <3>1, <3>2, <3>3, <3>4, AdmitCounts
    <3>6. QED
      BY <2>2, <3>5 DEF RateInv
  <2>5. QED
    BY <2>3, <2>4
<1>11. QED
  BY <1>8, <1>9, <1>10

LEMMA SetExpiryRates ==
  ASSUME SlotInv, RateInv, NEW r \in Requests, SetExpiry(r)
  PROVE  RateInv'
<1>1. PICK c : c = Counter(r)
  OBVIOUS
<1>2. /\ At(r) = "expiring" /\ At(r) \in Inside /\ Decide(r, 1)
      /\ UNCHANGED <<buckets, life, counters, downUntil, now>>
  BY DEF SetExpiry, Inside
<1>3. Limit[c[1][1]] \in Nat /\ r \in Expiring
  BY <1>1, <1>2, CounterBounds DEF Expiring
<1>4. Passive(r)
  BY <1>2, PassiveGate DEF Decide
<1>5. /\ BucketInv' /\ CallInv' /\ downUntil' \in 0 .. MaxTime + Fallback
      /\ Expiring' \subseteq Expiring \ {r} /\ \A s \in Expiring' : requests'[s] = requests[s]
  BY <1>2, <1>4, SettledCalls, PassiveCallers
<1>6. CountInv /\ \A d : Count(counters', d) \in Nat /\ Count(counters', d) >= Count(counters, d)
  BY <1>2 DEF RateInv, CountInv
<1>7. CASE ~WithinLimit(r, 1)
  <2>1. admitted' = admitted
    BY <1>2, <1>7 DEF Decide
  <2>2. CountInv'
    BY <1>5, <1>6, <2>1, CountsStand
  <2>3. QED
    BY <1>5, <2>2 DEF RateInv
<1>8. CASE WithinLimit(r, 1)
  <2>1. admitted' = With(admitted, c, Count(admitted, c) + 1)
    BY <1>1, <1>2, <1>8 DEF Decide
  <2>2. Count(admitted, c) + 1 <= Count(counters', c) /\ Count(admitted, c) + 1 <= Limit[c[1][1]]
    BY <1>1, <1>2, <1>3, <1>6, <1>8 DEF CountInv
  <2>3. \A s \in Expiring' : Counter(s) # c
    BY <1>1, <1>3, <1>5, <1>6 DEF CountInv
  <2>4. CountInv'
    BY <1>3, <1>5, <1>6, <2>1, <2>2, <2>3, AdmitCounts
  <2>5. QED
    BY <1>5, <2>4 DEF RateInv
<1>9. QED
  BY <1>7, <1>8

LEMMA RedisFailsRates ==
  ASSUME SlotInv, RateInv, now \in 0 .. MaxTime, NEW r \in Requests, RedisFails(r)
  PROVE  RateInv'
<1>1. PICK t, k, B : t = requests[r].stamp /\ k = RateKey(ShapeOf(r)) /\ B = DOMAIN buckets
  OBVIOUS
<1>2. /\ At(r) \in {"calling", "expiring"} /\ At(r) \in Inside
      /\ Consume(r, B, t) /\ downUntil' = t + Fallback /\ admitted' = admitted /\ now' = now
      /\ counters' \in {counters, Counted(r)}
  BY <1>1 DEF RedisFails, Inside
<1>3. r \in Callers /\ requests[r] \in Pending /\ k \in Keys
  BY <1>1, <1>2, CounterBounds DEF Callers
<1>4. t \in 0 .. MaxTime /\ t <= now /\ t \in Nat /\ now \in Nat
  BY <1>1, <1>3, GateAssumption DEF Pending, RateInv, CallInv
<1>5. B \in SUBSET DOMAIN buckets
  BY <1>1
<1>6. BucketInv' /\ DOMAIN buckets' = B \cup {k}
  BY <1>1, <1>2, <1>3, <1>4, <1>5, ConsumeBuckets DEF RateInv
<1>7. Passive(r)
  BY <1>2, PassiveGate DEF Consume
<1>8. CallInv'
  <2>1. \A s \in Callers' : requests'[s].stamp <= now
    BY <1>7, PassiveCallers DEF RateInv, CallInv
  <2>2. IsFiniteSet(B) /\ Cardinality(B) \in Nat
    BY <1>1, FS_CardinalityType DEF RateInv, BucketInv
  <2>3. Cardinality(B \cup {k}) \in Nat /\ Cardinality(B \cup {k}) <= Cardinality(B) + 1
    <3>1. /\ IsFiniteSet(B \cup {k})
          /\ Cardinality(B \cup {k}) = IF k \in B THEN Cardinality(B) ELSE Cardinality(B) + 1
      BY <2>2, FS_AddElement
    <3>2. QED
      BY <2>2, <3>1
  <2>4. /\ Cardinality(Callers) \in Nat /\ Cardinality(Callers') \in Nat
        /\ Cardinality(Callers') + 1 <= Cardinality(Callers)
    BY <1>3, <1>7, PassiveCallers
  <2>5. Cardinality(B) + Cardinality(Callers) <= MaxTracked - 1 + Slots
    BY <1>1 DEF RateInv, CallInv
  <2>6. Cardinality(B \cup {k}) + Cardinality(Callers') <= MaxTracked - 1 + Slots
    BY <2>2, <2>3, <2>4, <2>5, GateAssumption
  <2>7. QED
    BY <1>2, <1>6, <2>1, <2>6 DEF CallInv
<1>9. CountInv'
  <2>1. CountInv
    BY DEF RateInv
  <2>2. \A d : Count(counters', d) \in Nat /\ Count(counters', d) >= Count(counters, d)
    <3> TAKE d
    <3>1. Count(counters, d) \in Nat
      BY <2>1 DEF CountInv
    <3>2. Count(Counted(r), d) \in {Count(counters, d), Count(counters, d) + 1}
      BY DEF Counted, With, Count
    <3>3. Count(counters', d) \in {Count(counters, d), Count(Counted(r), d)}
      BY <1>2
    <3>4. QED
      BY <3>1, <3>2, <3>3
  <2>3. QED
    BY <1>2, <1>7, <2>1, <2>2, PassiveCallers, CountsStand
<1>10. downUntil' \in 0 .. MaxTime + Fallback
  BY <1>2, <1>4, GateAssumption
<1>11. QED
  BY <1>6, <1>8, <1>9, <1>10 DEF RateInv

LEMMA ServeRates ==
  ASSUME SlotInv, RateInv, now \in 0 .. MaxTime, NEW r \in Requests, Serve(r)
  PROVE  RateInv'
<1>1. PICK a : a = [at |-> "answered"]
  OBVIOUS
<1>2. CASE TimeOut(r)
  <2>1. requests' = With(requests, r, a) /\ UNCHANGED <<rates, now>>
    BY <1>1, <1>2 DEF TimeOut, Answered
  <2>2. QED
    BY <1>1, <2>1, PassiveWith, PassiveRates
<1>3. CASE GuardRefuses(r) \/ RefuseOrigin(r) \/ Respond(r)
  <2>1. Leave(r) /\ UNCHANGED <<rates, now>>
    BY <1>3 DEF GuardRefuses, RefuseOrigin, Respond
  <2>2. QED
    BY <2>1, PassiveLeave, PassiveRates
<1>4. CASE GuardPasses(r)
  <2>1. At(r) = "guard" /\ UNCHANGED <<rates, now>>
    BY <1>4 DEF GuardPasses
  <2>2. PICK at : at \in {"receiving", "limiting"} /\ requests' = Moved(r, at)
    BY <1>4 DEF GuardPasses
  <2>3. r \in DOMAIN requests /\ requests[r] \in Pending
    BY <2>1 DEF SlotInv, RequestTypes, At, Answer
  <2>4. PICK q : q = [requests[r] EXCEPT !.at = at]
    OBVIOUS
  <2>5. requests' = [requests EXCEPT ![r] = q] /\ q.at = at
    BY <2>2, <2>3, <2>4 DEF Moved, Pending
  <2>6. QED
    BY <2>1, <2>2, <2>3, <2>5, PassiveExcept, PassiveRates
<1>5. CASE Exempt(r)
  <2>1. At(r) \in Inside /\ requests' = Inward(r) /\ UNCHANGED gate /\ UNCHANGED <<rates, now>>
    BY <1>5 DEF Exempt, Inside
  <2>2. QED
    BY <2>1, PassiveGate, PassiveRates
<1>6. QED
  BY <1>2, <1>3, <1>4, <1>5, LimitLocallyRates, CallRedisRates, IncrementRates,
     SetExpiryRates, RedisFailsRates DEF Serve

LEMMA NextRates ==
  ASSUME SlotInv, RateInv, now \in 0 .. MaxTime, [Next]_vars
  PROVE  RateInv'
<1>1. ASSUME NEW r \in Requests, NEW s \in Shapes, RefuseCsrf(r, s) \/ Acquire(r, s) \/ Wait(r, s)
      PROVE  RateInv'
  <2>1. PICK q : requests' = With(requests, r, q) /\ q.at \notin {"calling", "expiring"}
    <3>1. PICK a, b, c :
            /\ a = [at |-> "answered"]
            /\ b = [at |-> "guard", shape |-> s, received |-> 0, stamp |-> 0]
            /\ c = [at |-> "waiting", shape |-> s, received |-> 0, stamp |-> 0]
      OBVIOUS
    <3>2. \E q \in {a, b, c} : requests' = With(requests, r, q)
      BY <1>1, <3>1 DEF RefuseCsrf, Acquire, Wait, Answered, Enter
    <3>3. QED
      BY <3>1, <3>2
  <2>2. UNCHANGED <<rates, now>>
    BY <1>1 DEF RefuseCsrf, Acquire, Wait
  <2>3. QED
    BY <2>1, <2>2, PassiveWith, PassiveRates
<1>2. ASSUME NEW r \in Requests,
             \/ \E more \in BOOLEAN : Receive(r, more)
             \/ Disconnect(r)
      PROVE  RateInv'
  <2>1. At(r) = "receiving" /\ UNCHANGED <<rates, now>>
    BY <1>2 DEF Receive, Disconnect
  <2>2. r \in DOMAIN requests /\ requests[r] \in Pending
    BY <2>1 DEF SlotInv, RequestTypes, At, Answer
  <2>3. PICK q : requests' = [requests EXCEPT ![r] = q] /\ q.at \notin {"calling", "expiring"}
    <3>1. CASE requests' = HandedIn(r)
      <4>1. PICK q : q = [requests[r] EXCEPT !.at = "limiting", !.received = 0]
        OBVIOUS
      <4>2. q.at = "limiting" /\ requests' = [requests EXCEPT ![r] = q]
        BY <2>2, <3>1, <4>1 DEF HandedIn, Pending
      <4>3. QED
        BY <4>2
    <3>2. CASE requests' = [requests EXCEPT ![r].received = @ + 1]
      <4>1. PICK q : q = [requests[r] EXCEPT !.received = @ + 1]
        OBVIOUS
      <4>2. q.at = "receiving"
        BY <2>1, <2>2, <4>1 DEF At, Pending
      <4>3. requests' = [requests EXCEPT ![r] = q]
        BY <2>2, <3>2, <4>1
      <4>4. QED
        BY <4>2, <4>3
    <3>3. QED
      BY <1>2, <3>1, <3>2 DEF Receive, Disconnect
  <2>4. QED
    BY <2>1, <2>2, <2>3, PassiveExcept, PassiveRates
<1>3. ASSUME NEW r \in Requests, TooMuch(r)
      PROVE  RateInv'
  BY <1>3, PassiveLeave, PassiveRates DEF TooMuch
<1>4. ASSUME NEW r \in Requests, Serve(r)
      PROVE  RateInv'
  BY <1>4, ServeRates
<1>5. CASE Tick \/ UNCHANGED vars
  <2>1. /\ UNCHANGED <<requests, buckets, counters, downUntil, life, admitted>>
        /\ now' \in {now, now + 1}
    BY <1>5 DEF Tick, vars, rates
  <2>2. \A x \in Nat : x <= now => x <= now'
    BY <2>1, GateAssumption
  <2>3. BucketInv'
    <3>1. \A k \in DOMAIN buckets : Sound(buckets[k], life[k], k) /\ buckets[k].last <= now'
      BY <2>2 DEF RateInv, BucketInv, Sound
    <3>2. QED
      BY <2>1, <3>1 DEF RateInv, BucketInv
  <2>4. Callers' = Callers /\ Expiring' = Expiring
    BY <2>1 DEF Callers, Expiring, At
  <2>5. CallInv'
    <3>1. \A s \in Callers : requests[s].stamp \in Nat
      <4>1. \A s \in Callers : requests[s] \in Pending
        BY DEF Callers, SlotInv, RequestTypes, At, Answer
      <4>2. \A x \in 0 .. MaxTime : x \in Nat
        BY GateAssumption
      <4>3. QED
        BY <4>1, <4>2 DEF Pending
    <3>2. QED
      BY <2>1, <2>2, <2>4, <3>1 DEF RateInv, CallInv
  <2>6. CountInv'
    <3>1. CountInv /\ \A d : Count(counters', d) \in Nat /\ Count(counters', d) >= Count(counters, d)
      BY <2>1 DEF RateInv, CountInv
    <3>2. QED
      BY <2>1, <2>4, <3>1, CountsStand
  <2>7. QED
    BY <2>1, <2>3, <2>5, <2>6 DEF RateInv
<1>6. QED
  BY <1>1, <1>2, <1>3, <1>4, <1>5 DEF Next

\* The inductive invariant of the whole gate.
GateInv == SlotInv /\ RateInv /\ now \in 0 .. MaxTime

THEOREM GateInvariance == Spec => []GateInv
<1>1. Init => GateInv
  <2>1. Init => now \in 0 .. MaxTime
    BY GateAssumption DEF Init
  <2>2. QED
    BY <2>1, SlotInit, RateInit DEF GateInv
<1>2. GateInv /\ [Next]_vars => GateInv'
  BY NextSlots, NextRates DEF GateInv
<1>3. QED
  BY <1>1, <1>2, PTL DEF Spec

\* The shape of the state; a bucket never holds more than its capacity and is
\* never stamped ahead of the clock.
THEOREM GateTypes == Spec => []TypeOK
<1>1. GateInv => TypeOK
  BY DEF GateInv, SlotInv, RequestTypes, RateInv, BucketInv, Sound, TypeOK
<1>2. QED
  BY <1>1, GateInvariance, PTL

\* On whatever way requests leave - answered, refused, timed out in the queue -
\* the slots are all accounted for, and none is free while somebody waits.
THEOREM SlotsAreAccounted == Spec => []SlotsAccounted
<1>1. GateInv => SlotsAccounted
  BY DEF GateInv, SlotInv
<1>2. QED
  BY <1>1, GateInvariance, PTL

\* The table of buckets outgrows its maximum by the calls under way, no more.
THEOREM TableStaysBounded == Spec => []TableBounded
<1>1. ASSUME GateInv PROVE TableBounded
  <2>1. IsFiniteSet(Callers)
    <3>1. Callers \subseteq Holders /\ IsFiniteSet(Holders)
      BY <1>1 DEF GateInv, SlotInv, Callers, Holders, Inside
    <3>2. QED
      BY <3>1, FS_Subset
  <2>2. Cardinality(Callers) \in Nat /\ Cardinality(DOMAIN buckets) \in Nat
    BY <1>1, <2>1, FS_CardinalityType DEF GateInv, RateInv, BucketInv
  <2>3. Cardinality(DOMAIN buckets) + Cardinality(Callers) <= MaxTracked - 1 + Slots
    BY <1>1 DEF GateInv, RateInv, CallInv
  <2>4. QED
    BY <2>2, <2>3, GateAssumption DEF TableBounded
<1>2. QED
  BY <1>1, GateInvariance, PTL

\* No key gets more than its rate: in the local table its capacity and what time
\* gave back, with clocks that run behind in the account, in Redis the limit of
\* each window whatever replies are lost.
THEOREM RatesAreBounded == Spec => []RateBound
<1>1. GateInv => RateBound
  BY DEF GateInv, RateInv, BucketInv, Sound, CountInv, RateBound
<1>2. QED
  BY <1>1, GateInvariance, PTL

-----------------------------------------------------------------------------
(* The block of logins.                                                    *)

\* A request has the two keys of a login and holds an entry only while it counts.
SoundLogin(q) ==
  /\ \E a \in Addresses, e \in Emails : q.keys = KeysFor(a, e)
  /\ q.at \notin {"add", "insert"} => q.object = NoObject
  /\ q.at = "insert" => q.object # NoObject

\* A failure of the request is still to be counted for k, in this process.
Owes(q, k) ==
  \/ q.at \in {"count", "block"} /\ k \in Range(q.keys)
  \/ q.at \in {"fetch", "add"} /\ \E i \in q.turn .. 2 : q.keys[i] = k
  \/ q.at = "insert" /\ q.turn = 1 /\ q.keys[2] = k

Owing(k) == {r \in DOMAIN inflight : Owes(inflight[r], k)}
Counting(k) == {r \in DOMAIN inflight : Serving(r, "count") /\ k \in KeysOf(r)}

\* No entry is shared by two keys.
Apart == \A j, k \in LoginKeys : j # k => Live(j) \cap Live(k) = {}

LEMMA Division ==
  ASSUME NEW n \in Nat, NEW T \in Nat \ {0}
  PROVE  /\ n % T \in 0 .. T - 1
         /\ n \div T \in Nat
         /\ n = T * (n \div T) + (n % T)
<1>1. n % T \in 0 .. T - 1 /\ n \div T \in Nat
  BY SMT
<1>2. n = T * (n \div T) + (n % T)
  BY Z3
<1> QED
  BY <1>1, <1>2

LEMMA NextRemainder ==
  ASSUME NEW T \in Nat, NEW q \in Nat, NEW p \in Nat, NEW r \in 0 .. T - 1, NEW s \in 0 .. T - 1,
         T * p + s = T * q + r + 1
  PROVE  s = r + 1 \/ (s = 0 /\ r = T - 1)
<1>1. CASE p = q
  BY <1>1
<1>2. CASE p > q
  <2>1. T * p >= T * q + T
    <3>1. PICK d \in Nat : p = q + 1 + d
      BY <1>2
    <3>2. T * p = T * q + T + T * d /\ T * d >= 0
      BY <3>1
    <3> QED
      BY <3>2
  <2> QED
    BY <2>1
<1>3. CASE p < q
  <2>1. T * q >= T * p + T
    <3>1. PICK d \in Nat : q = p + 1 + d
      BY <1>3
    <3>2. T * q = T * p + T + T * d /\ T * d >= 0
      BY <3>1
    <3> QED
      BY <3>2
  <2> QED
    BY <2>1
<1> QED
  BY <1>1, <1>2, <1>3

LEMMA Remainder ==
  ASSUME NEW n \in Nat, NEW T \in Nat \ {0}
  PROVE  /\ n % T \in 0 .. T - 1
         /\ n \div T \in Nat
         /\ (n + 1) % T = 0 => n % T = T - 1
         /\ (n + 1) % T # 0 => (n + 1) % T = (n % T) + 1
<1> DEFINE m == n + 1
<1>1. m \in Nat /\ m = n + 1
  OBVIOUS
<1> HIDE DEF m
<1>2. /\ m % T \in 0 .. T - 1 /\ m \div T \in Nat
      /\ m = T * (m \div T) + (m % T)
  BY <1>1, Division
<1>3. /\ n % T \in 0 .. T - 1 /\ n \div T \in Nat
      /\ n = T * (n \div T) + (n % T)
  BY Division
<1> DEFINE q == n \div T
           p == m \div T
           r == n % T
           s == m % T
<1>4. T * p + s = T * q + r + 1
  BY <1>1, <1>2, <1>3
<1>5. q \in Nat /\ p \in Nat /\ r \in 0 .. T - 1 /\ s \in 0 .. T - 1
  BY <1>2, <1>3
<1> HIDE DEF q, p, r, s
<1>6. s = r + 1 \/ (s = 0 /\ r = T - 1)
  BY <1>4, <1>5, NextRemainder
<1>7. m % T = (n % T) + 1 \/ (m % T = 0 /\ n % T = T - 1)
  BY <1>6 DEF r, s
<1> QED
  BY <1>1, <1>3, <1>7 DEF m

-----------------------------------------------------------------------------
(* What is kept of the table.                                              *)

TableOK ==
  /\ table \in Seq(LoginKeys \X Objects) /\ Len(table) <= MaxTracked
  /\ \A i, j \in DOMAIN table : table[i][1] = table[j][1] => i = j

Below(I, i) == {j \in I : j < i}

LEMMA BelowCounts ==
  ASSUME NEW I, I \subseteq Nat, IsFiniteSet(I), NEW i \in I
  PROVE  /\ Cardinality(Below(I, i)) \in 0 .. Cardinality(I) - 1
         /\ \A j \in I : j < i => Cardinality(Below(I, j)) < Cardinality(Below(I, i))
<1>1. Below(I, i) \in SUBSET I /\ i \notin Below(I, i)
  BY DEF Below
<1>2. /\ IsFiniteSet(Below(I, i)) /\ Cardinality(Below(I, i)) <= Cardinality(I)
      /\ Cardinality(I) = Cardinality(Below(I, i)) => I = Below(I, i)
  BY <1>1, FS_Subset
<1>3. Cardinality(Below(I, i)) \in Nat /\ Cardinality(I) \in Nat
  BY <1>2, FS_CardinalityType
<1>4. ASSUME NEW j \in I, j < i
      PROVE  Cardinality(Below(I, j)) < Cardinality(Below(I, i))
  <2>1. Below(I, j) \in SUBSET Below(I, i) /\ j \in Below(I, i) /\ j \notin Below(I, j)
    <3>1. i \in Nat /\ j \in Nat /\ \A k \in I : k \in Nat
      OBVIOUS
    <3>2. \A k \in I : k < j => k < i
      BY <1>4, <3>1
    <3>3. ~(j < j)
      BY <3>1
    <3> QED
      BY <1>4, <3>2, <3>3 DEF Below
  <2>2. /\ IsFiniteSet(Below(I, j)) /\ Cardinality(Below(I, j)) <= Cardinality(Below(I, i))
        /\ Cardinality(Below(I, i)) = Cardinality(Below(I, j)) => Below(I, i) = Below(I, j)
    BY <1>2, <2>1, FS_Subset
  <2>3. Cardinality(Below(I, j)) \in Nat
    BY <2>2, FS_CardinalityType
  <2> QED
    BY <1>3, <2>1, <2>2, <2>3
<1> QED
  BY <1>1, <1>2, <1>3, <1>4

\* The positions of a finite set of numbers are counted without gaps.
LEMMA EveryPlaceTaken ==
  ASSUME NEW I, I \subseteq Nat, IsFiniteSet(I), NEW n \in 1 .. Cardinality(I)
  PROVE  \E i \in I : Cardinality(Below(I, i)) = n - 1
<1> DEFINE N == Cardinality(I)
           P == 0 .. N - 1
           S == P \ {n - 1}
           f == [i \in I |-> Cardinality(Below(I, i))]
<1>1. N \in Nat
  BY FS_CardinalityType
<1>2. IsFiniteSet(P) /\ Cardinality(P) = N
  <2>1. 0 \in Int /\ N - 1 \in Int
    BY <1>1
  <2>2. /\ IsFiniteSet(P)
        /\ Cardinality(P) = IF 0 > N - 1 THEN 0 ELSE N - 1 - 0 + 1
    BY <2>1, FS_Interval, Zenon
  <2> QED
    BY <1>1, <2>2
<1>3. n - 1 \in P
  BY <1>1
<1> HIDE DEF N, P
<1>4. IsFiniteSet(S) /\ Cardinality(S) = N - 1
  BY <1>1, <1>2, <1>3, FS_RemoveElement
<1>5. SUFFICES ASSUME \A i \in I : Cardinality(Below(I, i)) # n - 1
               PROVE  FALSE
  OBVIOUS
<1>6. \A i \in I : Cardinality(Below(I, i)) \in P
  BY BelowCounts DEF P, N
<1>7. f \in [I -> S]
  BY <1>5, <1>6
<1>8. Cardinality(S) < Cardinality(I)
  BY <1>1, <1>4 DEF N
<1> HIDE DEF S, f
<1>9. PICK x, y \in I : x # y /\ f[x] = f[y]
  BY <1>4, <1>7, <1>8, FS_PigeonHole
<1>10. Cardinality(Below(I, x)) = Cardinality(Below(I, y))
  BY <1>9 DEF f
<1>11. Cardinality(Below(I, x)) \in Int /\ x \in Nat /\ y \in Nat
  BY <1>1, <1>6 DEF P
<1>12. CASE x < y
  <2>1. Cardinality(Below(I, x)) < Cardinality(Below(I, y))
    BY <1>12, BelowCounts
  <2> QED
    BY <1>10, <1>11, <2>1
<1>13. CASE y < x
  <2>1. Cardinality(Below(I, y)) < Cardinality(Below(I, x))
    BY <1>13, BelowCounts
  <2> QED
    BY <1>10, <1>11, <2>1
<1> QED
  BY <1>9, <1>11, <1>12, <1>13

LEMMA SelectedIsSound ==
  ASSUME TableOK, NEW I \in SUBSET DOMAIN table
  PROVE  /\ Selected(I) \in Seq(LoginKeys \X Objects) /\ Len(Selected(I)) <= Len(table)
         /\ \A i, j \in DOMAIN Selected(I) : Selected(I)[i][1] = Selected(I)[j][1] => i = j
         /\ \A p \in Range(Selected(I)) : \E i \in I : p = table[i]
<1> DEFINE N == Cardinality(I)
           Place(n) == CHOOSE i \in I : Cardinality({j \in I : j < i}) = n - 1
           s == Selected(I)
<1>1. DOMAIN table = 1 .. Len(table) /\ Len(table) \in Nat
  BY DEF TableOK
<1>2. /\ IsFiniteSet(DOMAIN table) /\ Cardinality(DOMAIN table) = Len(table)
  <2> DEFINE m == Len(table)
  <2>1. m \in Nat /\ DOMAIN table = 1 .. m
    BY <1>1
  <2> HIDE DEF m
  <2>2. 1 \in Int /\ m \in Int
    BY <2>1
  <2>3. /\ IsFiniteSet(1 .. m)
        /\ Cardinality(1 .. m) = IF 1 > m THEN 0 ELSE m - 1 + 1
    BY <2>2, FS_Interval, Zenon
  <2> QED
    BY <2>1, <2>3 DEF m
<1>3. IsFiniteSet(I) /\ N \in Nat /\ N <= Len(table)
  BY <1>1, <1>2, FS_Subset, FS_CardinalityType
<1>4. I \subseteq Nat
  BY <1>1
<1>5. \A n \in 1 .. N : Place(n) \in I /\ Cardinality(Below(I, Place(n))) = n - 1
  <2> TAKE n \in 1 .. N
  <2>1. \E i \in I : Cardinality({j \in I : j < i}) = n - 1
    BY <1>3, <1>4, EveryPlaceTaken DEF Below
  <2> QED
    BY <2>1 DEF Below
<1>6. s = [n \in 1 .. N |-> table[Place(n)]]
  BY DEF Selected
<1> HIDE DEF N, Place, s
<1>7. \A n \in 1 .. N : s[n] \in LoginKeys \X Objects
  BY <1>1, <1>5, <1>6 DEF TableOK
<1>8. s \in Seq(LoginKeys \X Objects) /\ Len(s) = N /\ DOMAIN s = 1 .. N
  BY <1>3, <1>6, <1>7
<1>9. ASSUME NEW i \in DOMAIN s, NEW j \in DOMAIN s, s[i][1] = s[j][1] PROVE i = j
  <2>1. Place(i) \in DOMAIN table /\ Place(j) \in DOMAIN table /\ table[Place(i)][1] = table[Place(j)][1]
    BY <1>5, <1>6, <1>8, <1>9
  <2>2. Place(i) = Place(j)
    BY <2>1 DEF TableOK
  <2>3. i - 1 = j - 1
    BY <1>5, <1>8, <2>2
  <2> QED
    BY <1>3, <1>8, <2>3
<1>10. \A p \in Range(s) : \E i \in I : p = table[i]
  BY <1>5, <1>6, <1>8 DEF Range
<1> QED
  BY <1>3, <1>8, <1>9, <1>10 DEF s

LEMMA TableWithout ==
  ASSUME TableOK, NEW t, t = Cleaned \/ t = table \/ \E K : t = Others(K)
  PROVE  /\ t \in Seq(LoginKeys \X Objects) /\ Len(t) <= Len(table)
         /\ \A i, j \in DOMAIN t : t[i][1] = t[j][1] => i = j
         /\ Range(t) \subseteq Range(table)
<1>1. ASSUME NEW I \in SUBSET DOMAIN table, t = Selected(I)
      PROVE  /\ t \in Seq(LoginKeys \X Objects) /\ Len(t) <= Len(table)
             /\ \A i, j \in DOMAIN t : t[i][1] = t[j][1] => i = j
             /\ Range(t) \subseteq Range(table)
  <2>1. \A p \in Range(t) : \E i \in I : p = table[i]
    BY <1>1, SelectedIsSound
  <2>2. Range(t) \subseteq Range(table)
    BY <2>1 DEF Range
  <2> QED
    BY <1>1, <2>2, SelectedIsSound
<1>2. CASE t = table
  BY <1>2 DEF TableOK
<1>3. CASE t = Cleaned
  <2> DEFINE I == {i \in DOMAIN table : ~heap[table[i][2]].old}
  <2>1. t = table \/ t = Selected(I)
    BY <1>3 DEF Cleaned
  <2>2. I \in SUBSET DOMAIN table
    OBVIOUS
  <2> HIDE DEF I
  <2> QED
    BY <1>1, <1>2, <2>1, <2>2
<1>4. CASE \E K : t = Others(K)
  <2>1. PICK K : t = Others(K)
    BY <1>4
  <2> DEFINE I == {i \in DOMAIN table : table[i][1] \notin K}
  <2>2. t = Selected(I) /\ I \in SUBSET DOMAIN table
    BY <2>1 DEF Others
  <2> HIDE DEF I
  <2> QED
    BY <1>1, <2>2
<1> QED
  BY <1>2, <1>3, <1>4

LEMMA OthersHaveOtherKeys ==
  ASSUME TableOK, NEW K, NEW p \in Range(Others(K))
  PROVE  p[1] \notin K
<1> DEFINE I == {i \in DOMAIN table : table[i][1] \notin K}
<1>1. I \in SUBSET DOMAIN table /\ p \in Range(Selected(I))
  BY DEF Others
<1> HIDE DEF I
<1>2. PICK i \in I : p = table[i]
  BY <1>1, SelectedIsSound
<1> QED
  BY <1>2 DEF I

\* The table with an entry put in at its end.
LEMMA TableInserted ==
  ASSUME TableOK, NEW k \in LoginKeys, NEW o \in Objects, NEW t,
         t = Trimmed(Append(Others({k}), <<k, o>>))
  PROVE  /\ t \in Seq(LoginKeys \X Objects) /\ Len(t) <= MaxTracked
         /\ \A i, j \in DOMAIN t : t[i][1] = t[j][1] => i = j
         /\ Range(t) \subseteq Range(table) \cup {<<k, o>>}
<1> DEFINE s == Others({k})
           a == Append(s, <<k, o>>)
           n == Len(s)
<1>1. /\ s \in Seq(LoginKeys \X Objects) /\ Len(s) <= Len(table)
      /\ \A i, j \in DOMAIN s : s[i][1] = s[j][1] => i = j
      /\ Range(s) \subseteq Range(table)
  BY TableWithout
<1>2. \A p \in Range(s) : p[1] # k
  BY OthersHaveOtherKeys
<1> HIDE DEF s
<1>3. /\ n \in Nat /\ n <= MaxTracked /\ MaxTracked \in Nat \ {0}
      /\ DOMAIN s = 1 .. n
  BY <1>1, GuardAssumption DEF TableOK
<1>4. \A i \in 1 .. n : s[i][1] # k /\ s[i] \in Range(table)
  BY <1>1, <1>2, <1>3 DEF Range
<1>5. /\ a \in Seq(LoginKeys \X Objects) /\ Len(a) = n + 1 /\ DOMAIN a = 1 .. n + 1
      /\ \A i \in 1 .. n : a[i] = s[i]
      /\ a[n + 1] = <<k, o>>
  BY <1>1, <1>3
<1> HIDE DEF a, n
<1>10. t = Trimmed(a)
  BY DEF a, s
<1>6. \A i, j \in 1 .. n + 1 : a[i][1] = a[j][1] => i = j
  <2> TAKE i, j \in 1 .. n + 1
  <2>1. CASE i \in 1 .. n /\ j \in 1 .. n
    BY <1>1, <1>3, <1>5, <2>1
  <2>2. CASE i = n + 1 /\ j \in 1 .. n
    BY <1>4, <1>5, <2>2
  <2>3. CASE j = n + 1 /\ i \in 1 .. n
    BY <1>4, <1>5, <2>3
  <2>4. CASE i = n + 1 /\ j = n + 1
    BY <2>4
  <2> QED
    BY <1>3, <2>1, <2>2, <2>3, <2>4
<1>7. \A i \in 1 .. n + 1 : a[i] \in Range(table) \cup {<<k, o>>}
  BY <1>3, <1>4, <1>5
<1>8. CASE n + 1 <= MaxTracked
  <2>1. ~(Len(a) > MaxTracked)
    BY <1>3, <1>5, <1>8
  <2>2. t = a
    BY <1>10, <2>1 DEF Trimmed
  <2>3. Range(t) \subseteq Range(table) \cup {<<k, o>>}
    BY <1>5, <1>7, <2>2 DEF Range
  <2>4. \A i, j \in DOMAIN t : t[i][1] = t[j][1] => i = j
    BY <1>5, <1>6, <2>2
  <2> QED
    BY <1>5, <1>8, <2>2, <2>3, <2>4
<1>9. CASE n + 1 > MaxTracked
  <2>1. n = MaxTracked
    BY <1>3, <1>9
  <2>4. Len(a) > MaxTracked /\ Len(a) - MaxTracked + 1 = 2
    BY <1>3, <1>5, <1>9, <2>1
  <2>2. t = SubSeq(a, 2, n + 1)
    BY <1>5, <1>10, <2>4 DEF Trimmed
  <2>3. /\ t \in Seq(LoginKeys \X Objects) /\ Len(t) = n /\ DOMAIN t = 1 .. n
        /\ \A i \in 1 .. n : t[i] = a[i + 1]
    <3>1. a # << >>
      BY <1>3, <1>5
    <3>2. t = Tail(a)
      BY <1>5, <2>2, <3>1, TailIsSubSeq
    <3>3. /\ Tail(a) \in Seq(LoginKeys \X Objects) /\ Len(Tail(a)) = Len(a) - 1
          /\ \A i \in 1 .. Len(Tail(a)) : Tail(a)[i] = a[i + 1]
      BY <1>5, <3>1, HeadTailProperties
    <3>4. Len(a) - 1 = n
      BY <1>3, <1>5
    <3>5. t \in Seq(LoginKeys \X Objects) /\ Len(t) = n
      BY <3>2, <3>3, <3>4
    <3>6. DOMAIN t = 1 .. n
      BY <3>5
    <3>7. \A i \in 1 .. n : t[i] = a[i + 1]
      BY <3>2, <3>3, <3>4
    <3> QED
      BY <3>5, <3>6, <3>7
  <2>5. \A i \in 1 .. n : i + 1 \in 1 .. n + 1
    BY <1>3
  <2>6. Range(t) \subseteq Range(table) \cup {<<k, o>>}
    <3>1. \A i \in DOMAIN t : t[i] \in Range(table) \cup {<<k, o>>}
      BY <1>7, <2>3, <2>5
    <3> QED
      BY <3>1 DEF Range
  <2>7. \A i, j \in DOMAIN t : t[i][1] = t[j][1] => i = j
    <3> TAKE i, j \in DOMAIN t
    <3>1. t[i] = a[i + 1] /\ t[j] = a[j + 1] /\ i + 1 \in 1 .. n + 1 /\ j + 1 \in 1 .. n + 1
      BY <2>3, <2>5
    <3>2. t[i][1] = t[j][1] => i + 1 = j + 1
      BY <1>6, <3>1
    <3> QED
      BY <1>3, <2>3, <3>2
  <2> QED
    BY <1>3, <2>1, <2>3, <2>6, <2>7
<1>11. n + 1 <= MaxTracked \/ n + 1 > MaxTracked
  BY <1>3
<1> QED
  BY <1>8, <1>9, <1>11

-----------------------------------------------------------------------------
(* The failures that entries stand for, one by one.                        *)

Rest(h, o) == h[o].count % Threshold
Tokens(h, S) == {p \in S \X (1 .. Threshold) : p[2] <= Rest(h, p[1])}

LEMMA TokensAreFinite ==
  ASSUME NEW h, NEW S, IsFiniteSet(S)
  PROVE  IsFiniteSet(Tokens(h, S)) /\ Cardinality(Tokens(h, S)) \in Nat
<1> DEFINE P == 1 .. Threshold
           Q == S \X P
<1>1. 1 \in Int /\ Threshold \in Int
  BY GuardAssumption
<1>2. IsFiniteSet(P)
  BY <1>1, FS_Interval, Zenon
<1>4. Tokens(h, S) \in SUBSET Q
  BY SMT DEF Tokens
<1> HIDE DEF P
<1>3. IsFiniteSet(Q)
  BY <1>2, FS_Product
<1> HIDE DEF Q
<1>5. IsFiniteSet(Tokens(h, S))
  BY <1>3, <1>4, FS_Subset
<1> QED
  BY <1>5, FS_CardinalityType

LEMMA AtMostTogether ==
  ASSUME NEW A, NEW B, IsFiniteSet(A), IsFiniteSet(B), NEW C, C \subseteq A \cup B
  PROVE  IsFiniteSet(C) /\ Cardinality(C) <= Cardinality(A) + Cardinality(B)
<1> DEFINE U == A \cup B
<1>1. IsFiniteSet(U) /\ Cardinality(U) = Cardinality(A) + Cardinality(B) - Cardinality(A \cap B)
  BY FS_Union
<1>2. IsFiniteSet(A \cap B)
  BY FS_Intersection
<1> HIDE DEF U
<1>3. C \in SUBSET U
  BY DEF U
<1>4. IsFiniteSet(C) /\ Cardinality(C) <= Cardinality(U)
  BY <1>1, <1>3, FS_Subset
<1>5. /\ Cardinality(A) \in Nat /\ Cardinality(B) \in Nat /\ Cardinality(A \cap B) \in Nat
      /\ Cardinality(U) \in Nat /\ Cardinality(C) \in Nat
  BY <1>1, <1>2, <1>4, FS_CardinalityType
<1> QED
  BY <1>1, <1>4, <1>5

\* What is lost and what is left of a key's failures are all there were.
LEMMA LostAndLeft ==
  ASSUME NEW g, NEW h, NEW L, IsFiniteSet(L), NEW M, M \subseteq L,
         \A o \in M : h[o].count = g[o].count
  PROVE  Cardinality(Tokens(g, L))
           <= Cardinality(Tokens(g, L \ M)) + Cardinality(Tokens(h, M))
<1>1. M \in SUBSET L /\ L \ M \in SUBSET L
  OBVIOUS
<1>2. IsFiniteSet(M) /\ IsFiniteSet(L \ M)
  BY <1>1, FS_Subset
<1>3. Tokens(g, L) \subseteq Tokens(g, L \ M) \cup Tokens(h, M)
  <2>1. \A o \in M : Rest(h, o) = Rest(g, o)
    BY DEF Rest
  <2> QED
    BY <2>1, SMT DEF Tokens
<1> QED
  BY <1>2, <1>3, TokensAreFinite, AtMostTogether

\* And one more when an entry has counted one that leads to no block.
LEMMA LostAndLeftAndOne ==
  ASSUME NEW g, NEW h, NEW L, IsFiniteSet(L), NEW M, IsFiniteSet(M), NEW id \in M,
         \A o \in (L \cap M) \ {id} : h[o].count = g[o].count,
         NEW n \in 1 .. Threshold, n <= Rest(h, id),
         Rest(h, id) \in Int,
         id \in L => Rest(g, id) \in Int /\ Rest(g, id) < n
  PROVE  Cardinality(Tokens(g, L)) + 1
           <= Cardinality(Tokens(g, L \ M)) + Cardinality(Tokens(h, M))
<1> DEFINE x == <<id, n>>
           A == Tokens(g, L)
           C == A \cup {x}
<1>1. L \ M \in SUBSET L
  OBVIOUS
<1>2. IsFiniteSet(L \ M)
  BY <1>1, FS_Subset
<1>3. x \notin A
  BY SMT DEF Tokens
<1>4. C \subseteq Tokens(g, L \ M) \cup Tokens(h, M)
  <2>1. x \in Tokens(h, M)
    BY SMT DEF Tokens
  <2>2. ASSUME NEW o \in L, NEW m \in 1 .. Threshold, m <= Rest(g, o)
        PROVE  <<o, m>> \in Tokens(g, L \ M) \cup Tokens(h, M)
    <3>1. CASE o \notin M
      BY <2>2, <3>1, SMT DEF Tokens
    <3>2. CASE o \in M /\ o # id
      <4>1. Rest(h, o) = Rest(g, o)
        BY <3>2 DEF Rest
      <4> QED
        BY <2>2, <3>2, <4>1, SMT DEF Tokens
    <3>3. CASE o = id
      <4>1. m <= Rest(h, id)
        BY <2>2, <3>3, SMT
      <4> QED
        BY <3>3, <4>1, SMT DEF Tokens
    <3> QED
      BY <3>1, <3>2, <3>3, SMT
  <2>3. A \subseteq Tokens(g, L \ M) \cup Tokens(h, M)
    <3>1. ASSUME NEW p \in L \X (1 .. Threshold), p[2] <= Rest(g, p[1])
          PROVE  p \in Tokens(g, L \ M) \cup Tokens(h, M)
      <4>1. PICK o \in L, m \in 1 .. Threshold : p = <<o, m>>
        BY SMT
      <4>2. m <= Rest(g, o)
        BY <3>1, <4>1, SMT
      <4>3. <<o, m>> \in Tokens(g, L \ M) \cup Tokens(h, M)
        BY <2>2, <4>2, Zenon
      <4> QED
        BY <4>1, <4>3, Zenon
    <3> QED
      BY <3>1, SMT DEF Tokens
  <2> QED
    BY <2>1, <2>3, SMT
<1>5. IsFiniteSet(A) /\ Cardinality(A) \in Nat
  BY TokensAreFinite
<1> HIDE DEF A, x
<1>6. Cardinality(C) = Cardinality(A) + 1
  BY <1>3, <1>5, FS_AddElement
<1>7. Cardinality(C) <= Cardinality(Tokens(g, L \ M)) + Cardinality(Tokens(h, M))
  BY <1>2, <1>4, TokensAreFinite, AtMostTogether
<1> QED
  BY <1>6, <1>7 DEF A

-----------------------------------------------------------------------------
(* The history of failures.                                                *)

OwedOK == owed \in [Stores -> [LoginKeys -> Nat]]

\* What is owed after some failures were lost, and after one more was counted.
SomeLess(was, lost) == Positive(was - lost)
OneMore(was, lost) == Positive(was + 1 - lost)

\* What is owed for k after a step that counts, loses and settles.
NowOwed(was, k, one, lost, settled) ==
  IF k \in settled THEN 0 ELSE Positive(was + (IF k \in one THEN 1 ELSE 0) - lost)

LEMMA NowOwedIs ==
  ASSUME NEW was \in Nat, NEW lost \in Nat, NEW k, NEW one, NEW settled
  PROVE  /\ NowOwed(was, k, one, lost, settled) \in Nat
         /\ k \in settled => NowOwed(was, k, one, lost, settled) = 0
         /\ k \notin settled /\ k \in one =>
              NowOwed(was, k, one, lost, settled) = OneMore(was, lost)
         /\ k \notin settled /\ k \notin one =>
              NowOwed(was, k, one, lost, settled) = SomeLess(was, lost)
<1>1. CASE k \in settled
  BY <1>1 DEF NowOwed
<1>2. CASE k \notin settled /\ k \in one
  <2>1. NowOwed(was, k, one, lost, settled) = Positive(was + 1 - lost)
    BY <1>2 DEF NowOwed
  <2> QED
    BY <1>2, <2>1 DEF OneMore, Positive
<1>3. CASE k \notin settled /\ k \notin one
  <2>1. NowOwed(was, k, one, lost, settled) = Positive(was + 0 - lost) /\ was + 0 = was
    BY <1>3 DEF NowOwed
  <2> QED
    BY <1>3, <2>1 DEF SomeLess, Positive
<1> QED
  BY <1>1, <1>2, <1>3

LEMMA StepOfOwed ==
  ASSUME OwedOK, NEW store \in Stores, NEW one, NEW lost \in [LoginKeys -> Nat], NEW settled,
         Recorded(store, one, lost, settled)
  PROVE  /\ OwedOK'
         /\ \A s \in Stores : s # store => owed'[s] = owed[s]
         /\ \A k \in LoginKeys :
              owed'[store][k] = NowOwed(owed[store][k], k, one, lost[k], settled)
<1> DEFINE was == owed[store]
           after == [k \in LoginKeys |-> NowOwed(was[k], k, one, lost[k], settled)]
<1>1. owed' = [owed EXCEPT ![store] = after]
  BY DEF Recorded, NowOwed
<1>2. \A k \in LoginKeys : was[k] \in Nat /\ lost[k] \in Nat
  BY DEF OwedOK
<1>3. after \in [LoginKeys -> Nat]
  BY <1>2, NowOwedIs
<1>4. \A k \in LoginKeys : after[k] = NowOwed(was[k], k, one, lost[k], settled)
  OBVIOUS
<1> HIDE DEF after
<1>5. OwedOK' /\ owed'[store] = after /\ \A s \in Stores : s # store => owed'[s] = owed[s]
  BY <1>1, <1>3 DEF OwedOK
<1> QED
  BY <1>4, <1>5

LEMMA OwedBounds ==
  ASSUME NEW was \in Nat, NEW lost \in Nat, NEW m \in Nat
  PROVE  /\ was - lost <= m => SomeLess(was, lost) <= m
         /\ was + 1 - lost <= m => OneMore(was, lost) <= m
         /\ lost = 0 => SomeLess(was, lost) = was /\ OneMore(was, lost) = was + 1
BY DEF SomeLess, OneMore, Positive

-----------------------------------------------------------------------------
(* The entries that a table and the requests in hand refer to.             *)

LiveIn(t, f, k) ==
  {p[2] : p \in {q \in Range(t) : q[1] = k}} \cup
  ({f[r].object : r \in {s \in DOMAIN f : f[s].keys[f[s].turn] = k}} \ {NoObject})

LEMMA LiveIsIn == \A k : /\ Live(k) = LiveIn(table, inflight, k)
                         /\ Live(k)' = LiveIn(table', inflight', k)
BY DEF Live, LiveIn, Stored, Held, KeyOf

LEMMA LiveMembers ==
  ASSUME NEW t, NEW f, NEW k, NEW o
  PROVE  o \in LiveIn(t, f, k) <=>
           \/ \E p \in Range(t) : p[1] = k /\ p[2] = o
           \/ o # NoObject /\ \E r \in DOMAIN f : f[r].keys[f[r].turn] = k /\ f[r].object = o
BY DEF LiveIn

LEMMA LiveAreFinite ==
  ASSUME NEW t, t \in Seq(LoginKeys \X Objects), NEW f, IsFiniteSet(DOMAIN f), NEW k
  PROVE  IsFiniteSet(LiveIn(t, f, k))
<1> DEFINE D == DOMAIN t
           I == {i \in D : t[i][1] = k}
           S == {p[2] : p \in {q \in Range(t) : q[1] = k}}
           gs == [i \in I |-> t[i][2]]
           J == {s \in DOMAIN f : f[s].keys[f[s].turn] = k}
           H == {f[r].object : r \in J}
           gh == [r \in J |-> f[r].object]
<1>1. IsFiniteSet(D)
  <2> DEFINE m == Len(t)
  <2>1. m \in Nat /\ D = 1 .. m
    OBVIOUS
  <2> HIDE DEF m, D
  <2>2. 1 \in Int /\ m \in Int
    BY <2>1
  <2>3. IsFiniteSet(1 .. m)
    BY <2>2, FS_Interval, Zenon
  <2> QED
    BY <2>1, <2>3
<1>2. IsFiniteSet(I)
  <2>1. I \in SUBSET D
    OBVIOUS
  <2> HIDE DEF I, D
  <2> QED
    BY <1>1, <2>1, FS_Subset
<1>3. gs \in Surjection(I, S)
  <2>1. \A x \in S : \E i \in I : t[i][2] = x
    BY DEF Range
  <2>2. \A i \in I : t[i][2] \in S
    BY DEF Range
  <2> HIDE DEF I, S
  <2> QED
    BY <2>1, <2>2 DEF Surjection
<1>4. gh \in Surjection(J, H)
  BY DEF Surjection
<1>5. J \in SUBSET DOMAIN f
  OBVIOUS
<1>6. LiveIn(t, f, k) \in SUBSET (S \cup H)
  BY DEF LiveIn
<1> HIDE DEF I, S, gs, gh, J, H
<1>7. IsFiniteSet(S)
  BY <1>2, <1>3, FS_Surjection
<1>8. IsFiniteSet(J)
  BY <1>5, FS_Subset
<1>9. IsFiniteSet(H)
  BY <1>4, <1>8, FS_Surjection
<1>10. IsFiniteSet(S \cup H)
  BY <1>7, <1>9, FS_Union
<1> QED
  BY <1>6, <1>10, FS_Subset

\* A request has the two keys of a login and an entry in hand or none.
RequestsOK ==
  /\ DOMAIN inflight \subseteq Logins /\ IsFiniteSet(DOMAIN inflight)
  /\ \A r \in DOMAIN inflight : inflight[r] \in Login /\ SoundLogin(inflight[r])

HeapOK == heap \in [Objects -> Entry]

LEMMA LiveIsSound ==
  ASSUME TableOK, RequestsOK
  PROVE  \A k \in LoginKeys : Live(k) \subseteq Objects /\ IsFiniteSet(Live(k))
<1> TAKE k \in LoginKeys
<1>1. IsFiniteSet(Live(k))
  BY LiveIsIn, LiveAreFinite DEF TableOK, RequestsOK
<1>2. ASSUME NEW o \in Live(k)
      PROVE  o \in Objects
  <2>1. \/ \E p \in Range(table) : p[1] = k /\ p[2] = o
        \/ o # NoObject /\ \E r \in DOMAIN inflight :
             inflight[r].keys[inflight[r].turn] = k /\ inflight[r].object = o
    BY LiveIsIn, LiveMembers
  <2>2. \A p \in Range(table) : p \in LoginKeys \X Objects
    BY DEF TableOK, Range
  <2>3. \A r \in DOMAIN inflight : inflight[r].object \in Objects \cup {NoObject}
    BY DEF RequestsOK, Login
  <2>4. \A p \in LoginKeys \X Objects : p[2] \in Objects
    OBVIOUS
  <2> QED
    BY <2>1, <2>2, <2>3, <2>4
<1> QED
  BY <1>1, <1>2

\* Of the key of a login at turn, and the key it is at.
LEMMA KeysOfALogin ==
  ASSUME NEW q, q \in Login, SoundLogin(q)
  PROVE  /\ DOMAIN q.keys = 1 .. 2 /\ q.keys[1] # q.keys[2]
         /\ q.keys[1] \in LoginKeys /\ q.keys[2] \in LoginKeys
         /\ q.keys[q.turn] \in LoginKeys /\ q.keys[q.turn] \in Range(q.keys)
         /\ Range(q.keys) = {q.keys[1], q.keys[2]}
<1>1. PICK a \in Addresses, e \in Emails : q.keys = << <<a, e>>, e >>
  BY DEF SoundLogin, KeysFor
<1>2. <<a, e>> \in Addresses \X Emails /\ e \in Emails
  OBVIOUS
<1>3. <<a, e>> # e
  BY <1>2, GuardAssumption
<1>4. q.turn \in 1 .. 2
  BY DEF Login
<1>5. q.keys[1] = <<a, e>> /\ q.keys[2] = e /\ DOMAIN q.keys = 1 .. 2
  BY <1>1
<1>6. <<a, e>> \in LoginKeys /\ e \in LoginKeys
  BY <1>2 DEF LoginKeys
<1>7. Range(q.keys) = {q.keys[1], q.keys[2]}
  BY <1>5 DEF Range
<1>8. q.turn = 1 \/ q.turn = 2
  BY <1>4
<1> QED
  BY <1>3, <1>5, <1>6, <1>7, <1>8

-----------------------------------------------------------------------------
(* What a step does to the requests.                                       *)

OthersStay(r) ==
  /\ DOMAIN inflight' \subseteq DOMAIN inflight \cup {r}
  /\ DOMAIN inflight \subseteq DOMAIN inflight' \cup {r}
  /\ \A s \in DOMAIN inflight \ {r} : inflight'[s] = inflight[s]

\* The request r, and no other, is new, has moved or is over; it is sound then.
OneMoves(r) ==
  /\ OthersStay(r)
  /\ r \in DOMAIN inflight' => r \in Logins /\ inflight'[r] \in Login /\ SoundLogin(inflight'[r])

LEMMA RequestsStaySound ==
  ASSUME RequestsOK, NEW r, OneMoves(r)
  PROVE  RequestsOK'
<1>1. IsFiniteSet(DOMAIN inflight \cup {r})
  BY FS_AddElement DEF RequestsOK
<1>2. DOMAIN inflight' \in SUBSET (DOMAIN inflight \cup {r})
  BY DEF OneMoves, OthersStay
<1>3. IsFiniteSet(DOMAIN inflight')
  BY <1>1, <1>2, FS_Subset
<1>4. DOMAIN inflight' \subseteq Logins
  BY DEF OneMoves, OthersStay, RequestsOK
<1>5. \A s \in DOMAIN inflight' : inflight'[s] \in Login /\ SoundLogin(inflight'[s])
  BY DEF OneMoves, OthersStay, RequestsOK
<1> QED
  BY <1>3, <1>4, <1>5 DEF RequestsOK, SoundLogin

LEMMA StepsOfOne ==
  ASSUME NEW r, NEW q
  PROVE  /\ r \in DOMAIN inflight /\ inflight' = [inflight EXCEPT ![r] = q] =>
              OthersStay(r) /\ r \in DOMAIN inflight' /\ inflight'[r] = q
         /\ inflight' = [s \in DOMAIN inflight \cup {r} |-> IF s = r THEN q ELSE inflight[s]] =>
              OthersStay(r) /\ r \in DOMAIN inflight' /\ inflight'[r] = q
         /\ Done(r) => OthersStay(r) /\ r \notin DOMAIN inflight'
         /\ inflight' = inflight => OthersStay(r)
BY DEF OthersStay, Done

LEMMA SetsOfOthers ==
  ASSUME NEW r, OthersStay(r), NEW k
  PROVE  /\ \A s : s # r => (s \in Owing(k)' <=> s \in Owing(k))
         /\ \A s : s # r => (s \in Counting(k)' <=> s \in Counting(k))
         /\ \A s : s # r => (s \in Blocking(k)' <=> s \in Blocking(k))
<1>1. ASSUME NEW s, s # r
      PROVE  /\ s \in DOMAIN inflight' <=> s \in DOMAIN inflight
             /\ s \in DOMAIN inflight => inflight'[s] = inflight[s]
  BY <1>1 DEF OthersStay
<1>2. \A s : s # r => (s \in Owing(k)' <=> s \in Owing(k))
  BY <1>1 DEF Owing, Owes
<1>3. \A s : s # r => (s \in Counting(k)' <=> s \in Counting(k))
  BY <1>1 DEF Counting, Serving, KeysOf
<1>4. \A s : s # r => (s \in Blocking(k)' <=> s \in Blocking(k))
  BY <1>1 DEF Blocking, Serving, Hit, KeysOf
<1> QED
  BY <1>2, <1>3, <1>4

\* No failure more is on its way, and no block is off it.
OwesNoMore(r) == \A k \in LoginKeys : r \in Owing(k)' => r \in Owing(k)
CountsNoMore(r) == \A k \in LoginKeys : r \in Counting(k)' => r \in Counting(k)
StillBlocks(r) == \A k \in LoginKeys : r \in Blocking(k) => r \in Blocking(k)'

\* The request has no entry in hand, before or after.
EmptyHanded(r) ==
  /\ r \in DOMAIN inflight => inflight[r].object = NoObject
  /\ r \in DOMAIN inflight' => inflight'[r].object = NoObject

LEMMA EmptyHandedKeepsLive ==
  ASSUME NEW r, OthersStay(r), EmptyHanded(r), table' = table, NEW k
  PROVE  Live(k)' = Live(k)
<1>1. ASSUME NEW o
      PROVE  o \in LiveIn(table', inflight', k) <=> o \in LiveIn(table, inflight, k)
  <2>1. \A s : s # r => /\ s \in DOMAIN inflight' <=> s \in DOMAIN inflight
                        /\ s \in DOMAIN inflight => inflight'[s] = inflight[s]
    BY DEF OthersStay
  <2> QED
    BY <2>1, LiveMembers DEF EmptyHanded
<1> QED
  BY <1>1, LiveIsIn

LEMMA EntersEmpty ==
  ASSUME NEW r \in Logins, NEW a \in Addresses, NEW e \in Emails, Arrive(r, a, e)
  PROVE  OneMoves(r) /\ OwesNoMore(r) /\ CountsNoMore(r) /\ StillBlocks(r) /\ EmptyHanded(r)
<1> DEFINE q == [at |-> "verify", keys |-> KeysFor(a, e), turn |-> 1,
                 counts |-> [k \in LoginKeys |-> 0], object |-> NoObject]
<1>1. q \in Login /\ SoundLogin(q)
  <2>1. KeysFor(a, e) \in Seq(LoginKeys)
    <3>1. <<a, e>> \in LoginKeys /\ e \in LoginKeys
      BY DEF LoginKeys
    <3> QED
      BY <3>1 DEF KeysFor
  <2>2. [k \in LoginKeys |-> 0] \in [LoginKeys -> 0 .. MaxTries]
    BY GuardAssumption
  <2>3. 1 \in 1 .. 2
    OBVIOUS
  <2>4. q \in Login
    BY <2>1, <2>2, <2>3 DEF Login
  <2> QED
    BY <2>4 DEF SoundLogin
<1>2. q.at = "verify" /\ q.object = NoObject
  OBVIOUS
<1>3. inflight' = [s \in DOMAIN inflight \cup {r} |-> IF s = r THEN q ELSE inflight[s]]
  BY DEF Arrive
<1> HIDE DEF q
<1>4. OthersStay(r) /\ r \in DOMAIN inflight' /\ inflight'[r] = q
  BY <1>3, StepsOfOne
<1>5. r \notin DOMAIN inflight
  BY DEF Arrive
<1>6. OneMoves(r) /\ EmptyHanded(r)
  BY <1>1, <1>2, <1>4, <1>5 DEF OneMoves, EmptyHanded
<1>7. OwesNoMore(r)
  BY <1>2, <1>4 DEF OwesNoMore, Owing, Owes
<1>8. CountsNoMore(r)
  BY <1>2, <1>4 DEF CountsNoMore, Counting, Serving
<1>9. StillBlocks(r)
  BY <1>5 DEF StillBlocks, Blocking
<1> QED
  BY <1>6, <1>7, <1>8, <1>9

-----------------------------------------------------------------------------
(* The moves of a request that has no entry in hand.                       *)

EmptyPlaces == {"verify", "count", "block", "fetch", "clear", "pop"}

StaysItself(r) ==
  /\ r \in DOMAIN inflight /\ r \in DOMAIN inflight'
  /\ inflight'[r].keys = inflight[r].keys /\ inflight'[r].turn = inflight[r].turn

LEMMA EmptyPlaceHasNone ==
  ASSUME RequestsOK, NEW r, NEW a \in EmptyPlaces, Serving(r, a)
  PROVE  r \in Logins /\ r \in DOMAIN inflight /\ inflight[r] \in Login
         /\ inflight[r].at = a /\ inflight[r].object = NoObject /\ SoundLogin(inflight[r])
BY DEF RequestsOK, Serving, SoundLogin, EmptyPlaces

LEMMA MovesEmpty ==
  ASSUME RequestsOK, NEW r, NEW b \in EmptyPlaces, Serving(r, b), NEW a \in EmptyPlaces,
         NEW c \in [LoginKeys -> 0 .. MaxTries],
         \/ Goto(r, a) /\ c = inflight[r].counts
         \/ inflight' = [inflight EXCEPT ![r].at = a, ![r].counts = c]
  PROVE  /\ OneMoves(r) /\ EmptyHanded(r) /\ StaysItself(r)
         /\ inflight'[r].at = a /\ inflight'[r].counts = c
<1> DEFINE q == inflight[r]
           p == [q EXCEPT !.at = a, !.counts = c]
           g == [q EXCEPT !.at = a]
<1>1. /\ r \in Logins /\ r \in DOMAIN inflight /\ q \in Login /\ q.object = NoObject /\ SoundLogin(q)
  BY EmptyPlaceHasNone
<1>2. /\ p \in Login /\ p.keys = q.keys /\ p.turn = q.turn /\ p.object = q.object
      /\ p.at = a /\ p.counts = c
  BY <1>1 DEF Login, EmptyPlaces
<1>3. /\ g \in Login /\ g.keys = q.keys /\ g.turn = q.turn /\ g.object = q.object
      /\ g.at = a /\ g.counts = q.counts
  BY <1>1 DEF Login, EmptyPlaces
<1>4. PICK x \in {p, g} : inflight' = [inflight EXCEPT ![r] = x] /\ x.counts = c
  BY <1>2, <1>3 DEF Goto
<1>5. /\ x \in Login /\ x.keys = q.keys /\ x.turn = q.turn /\ x.object = NoObject
      /\ x.at = a
  BY <1>1, <1>2, <1>3, <1>4
<1> HIDE DEF p, g
<1>6. OthersStay(r) /\ r \in DOMAIN inflight' /\ inflight'[r] = x
  BY <1>1, <1>4, StepsOfOne
<1>7. SoundLogin(x)
  BY <1>1, <1>5 DEF SoundLogin, EmptyPlaces
<1> QED
  BY <1>1, <1>4, <1>5, <1>6, <1>7 DEF OneMoves, EmptyHanded, StaysItself

LEMMA LeavesEmpty ==
  ASSUME RequestsOK, NEW r, NEW b \in EmptyPlaces, Serving(r, b), Done(r)
  PROVE  OneMoves(r) /\ EmptyHanded(r) /\ r \notin DOMAIN inflight'
<1>1. OthersStay(r) /\ r \notin DOMAIN inflight'
  BY StepsOfOne
<1>2. inflight[r].object = NoObject
  BY EmptyPlaceHasNone
<1> QED
  BY <1>1, <1>2 DEF OneMoves, EmptyHanded

\* What a request that left has on its way.
LEMMA GoneOwesNothing ==
  ASSUME NEW r, r \notin DOMAIN inflight'
  PROVE  \A k : r \notin Owing(k)' /\ r \notin Counting(k)' /\ r \notin Blocking(k)'
BY DEF Owing, Counting, Blocking, Serving

\* What a request has on its way, by where it is.
LEMMA OnItsWay ==
  ASSUME NEW r, NEW k
  PROVE  /\ r \in Owing(k) <=> r \in DOMAIN inflight /\ Owes(inflight[r], k)
         /\ r \in Owing(k)' <=> r \in DOMAIN inflight' /\ Owes(inflight'[r], k)
         /\ r \in Counting(k) <=>
              r \in DOMAIN inflight /\ inflight[r].at = "count" /\ k \in Range(inflight[r].keys)
         /\ r \in Counting(k)' <=>
              r \in DOMAIN inflight' /\ inflight'[r].at = "count" /\ k \in Range(inflight'[r].keys)
         /\ r \in Blocking(k) <=>
              /\ r \in DOMAIN inflight /\ inflight[r].at = "block" /\ k \in Range(inflight[r].keys)
              /\ Hits(inflight[r].counts[k])
         /\ r \in Blocking(k)' <=>
              /\ r \in DOMAIN inflight' /\ inflight'[r].at = "block" /\ k \in Range(inflight'[r].keys)
              /\ Hits(inflight'[r].counts[k])
BY DEF Owing, Owes, Counting, Blocking, Serving, Hit, KeysOf, Hits

\* From a place before the password is known, or after it was right, nothing is owed.
LEMMA MovesWithoutAFailure ==
  ASSUME RequestsOK, NEW r, NEW b \in {"verify", "clear", "pop"}, Serving(r, b),
         \/ Done(r)
         \/ Goto(r, "clear") \/ Goto(r, "pop")
  PROVE  OneMoves(r) /\ OwesNoMore(r) /\ CountsNoMore(r) /\ StillBlocks(r) /\ EmptyHanded(r)
<1>1. b \in EmptyPlaces /\ "clear" \in EmptyPlaces /\ "pop" \in EmptyPlaces
  BY DEF EmptyPlaces
<1>2. /\ inflight[r] \in Login /\ inflight[r].at = b
  BY <1>1, EmptyPlaceHasNone
<1>3. StillBlocks(r)
  BY <1>2, OnItsWay DEF StillBlocks
<1>4. CASE Done(r)
  <2>1. OneMoves(r) /\ EmptyHanded(r) /\ r \notin DOMAIN inflight'
    BY <1>1, <1>4, LeavesEmpty
  <2> QED
    BY <1>3, <2>1, GoneOwesNothing DEF OwesNoMore, CountsNoMore
<1>5. ASSUME NEW a \in {"clear", "pop"}, Goto(r, a)
      PROVE  OneMoves(r) /\ OwesNoMore(r) /\ CountsNoMore(r) /\ StillBlocks(r) /\ EmptyHanded(r)
  <2>1. inflight[r].counts \in [LoginKeys -> 0 .. MaxTries] /\ a \in EmptyPlaces
    BY <1>1, <1>2 DEF Login
  <2>2. OneMoves(r) /\ EmptyHanded(r) /\ StaysItself(r) /\ inflight'[r].at = a
    BY <1>1, <1>5, <2>1, MovesEmpty
  <2>3. OwesNoMore(r)
    BY <2>2, OnItsWay DEF OwesNoMore, Owes
  <2>4. CountsNoMore(r)
    BY <2>2, OnItsWay DEF CountsNoMore
  <2> QED
    BY <1>3, <2>2, <2>3, <2>4
<1> QED
  BY <1>4, <1>5

\* A count for a failure stays due on the way to the table.
LEMMA MovesToTheTable ==
  ASSUME RequestsOK, NEW r, NEW b \in {"count", "block"}, Serving(r, b), ToLocal(r)
  PROVE  /\ OneMoves(r) /\ OwesNoMore(r) /\ EmptyHanded(r)
         /\ \A k : r \notin Counting(k)' /\ r \notin Blocking(k)'
<1>1. b \in EmptyPlaces /\ "fetch" \in EmptyPlaces
  BY DEF EmptyPlaces
<1> DEFINE c == [k \in LoginKeys |-> 0]
<1>2. c \in [LoginKeys -> 0 .. MaxTries]
  BY GuardAssumption
<1>3. inflight' = [inflight EXCEPT ![r].at = "fetch", ![r].counts = c]
  BY DEF ToLocal
<1> HIDE DEF c
<1>4. OneMoves(r) /\ EmptyHanded(r) /\ StaysItself(r) /\ inflight'[r].at = "fetch"
  BY <1>1, <1>2, <1>3, MovesEmpty
<1>5. inflight[r] \in Login /\ inflight[r].at = b /\ SoundLogin(inflight[r])
  BY <1>1, EmptyPlaceHasNone
<1>6. OwesNoMore(r)
  <2> SUFFICES ASSUME NEW k \in LoginKeys, r \in Owing(k)'
               PROVE  r \in Owing(k)
    BY DEF OwesNoMore
  <2>1. \E i \in inflight[r].turn .. 2 : inflight[r].keys[i] = k
    BY <1>4, OnItsWay DEF Owes, StaysItself
  <2>2. DOMAIN inflight[r].keys = 1 .. 2 /\ inflight[r].turn \in 1 .. 2
    BY <1>5, KeysOfALogin DEF Login
  <2>3. k \in Range(inflight[r].keys)
    BY <2>1, <2>2 DEF Range
  <2> QED
    BY <1>4, <1>5, <2>3, OnItsWay DEF Owes, StaysItself
<1> QED
  BY <1>4, <1>6, OnItsWay

-----------------------------------------------------------------------------
(* The tally of failures.                                                  *)

LEMMA SetsDifferInOne ==
  ASSUME NEW S, IsFiniteSet(S), NEW T, NEW r, \A s : s # r => (s \in T <=> s \in S)
  PROVE  /\ IsFiniteSet(T) /\ Cardinality(S) \in Nat /\ Cardinality(T) \in Nat
         /\ Cardinality(T) <= Cardinality(S) + 1
         /\ Cardinality(S) <= Cardinality(T) + 1
         /\ (r \in T => r \in S) => Cardinality(T) <= Cardinality(S)
         /\ (r \in S => r \in T) => Cardinality(S) <= Cardinality(T)
         /\ r \in S /\ r \notin T => Cardinality(T) = Cardinality(S) - 1
         /\ r \in T /\ r \notin S => Cardinality(T) = Cardinality(S) + 1
<1>1. CASE (r \in T) <=> (r \in S)
  <2>1. T = S
    BY <1>1
  <2> QED
    BY <2>1, <1>1, FS_CardinalityType
<1>2. CASE r \in T /\ r \notin S
  <2>1. T = S \cup {r}
    BY <1>2
  <2>2. IsFiniteSet(T) /\ Cardinality(T) = Cardinality(S) + 1
    BY <1>2, <2>1, FS_AddElement
  <2> QED
    BY <1>2, <2>2, FS_CardinalityType
<1>3. CASE r \notin T /\ r \in S
  <2>1. T = S \ {r}
    BY <1>3
  <2>2. IsFiniteSet(T) /\ Cardinality(T) = Cardinality(S) - 1
    BY <1>3, <2>1, FS_RemoveElement
  <2> QED
    BY <1>3, <2>2, FS_CardinalityType
<1> QED
  BY <1>1, <1>2, <1>3

LEMMA SetsAreFinite ==
  ASSUME RequestsOK, NEW k
  PROVE  /\ IsFiniteSet(Owing(k)) /\ IsFiniteSet(Counting(k)) /\ IsFiniteSet(Blocking(k))
         /\ Cardinality(Owing(k)) \in Nat /\ Cardinality(Counting(k)) \in Nat
         /\ Cardinality(Blocking(k)) \in Nat
<1>1. /\ Owing(k) \in SUBSET DOMAIN inflight /\ Counting(k) \in SUBSET DOMAIN inflight
      /\ Blocking(k) \in SUBSET DOMAIN inflight
  BY DEF Owing, Counting, Blocking
<1>2. IsFiniteSet(Owing(k)) /\ IsFiniteSet(Counting(k)) /\ IsFiniteSet(Blocking(k))
  BY <1>1, FS_Subset DEF RequestsOK
<1> QED
  BY <1>2, FS_CardinalityType

TallyOf(k) ==
  /\ Cardinality(Owing(k)) <= tried
  /\ fails[k] + Cardinality(Counting(k)) <= tried
  /\ \A o \in Live(k) : heap[o].count + Cardinality(Owing(k)) <= tried

QuietLive(k) ==
  /\ Live(k)' \subseteq Live(k)
  /\ \A o \in Live(k)' : heap'[o].count = heap[o].count

CountsOK ==
  /\ fails \in [LoginKeys -> Nat] /\ tried \in Nat
  /\ \A k \in LoginKeys : \A o \in Live(k) : heap[o].count \in Nat

LEMMA QuietKeepsTally ==
  ASSUME RequestsOK, CountsOK, NEW k \in LoginKeys, TallyOf(k),
         NEW r, OthersStay(r), r \in Owing(k)' => r \in Owing(k),
         r \in Counting(k)' => r \in Counting(k),
         tried' = tried, fails'[k] = fails[k] \/ fails'[k] = 0, QuietLive(k)
  PROVE  TallyOf(k)'
<1> DEFINE W == Cardinality(Owing(k))
           W1 == Cardinality(Owing(k)')
           C == Cardinality(Counting(k))
           C1 == Cardinality(Counting(k)')
<1>1. W \in Nat /\ W1 \in Nat /\ W1 <= W
  BY SetsAreFinite, SetsOfOthers, SetsDifferInOne
<1>2. C \in Nat /\ C1 \in Nat /\ C1 <= C
  BY SetsAreFinite, SetsOfOthers, SetsDifferInOne
<1>3. W <= tried /\ fails[k] + C <= tried /\ \A o \in Live(k) : heap[o].count + W <= tried
  BY DEF TallyOf
<1> HIDE DEF W, W1, C, C1
<1>4. fails[k] \in Nat /\ tried \in Nat
  BY DEF CountsOK
<1>5. W1 <= tried' /\ fails'[k] + C1 <= tried'
  BY <1>1, <1>2, <1>3, <1>4
<1>6. ASSUME NEW o \in Live(k)'
      PROVE  heap'[o].count + W1 <= tried'
  <2>1. o \in Live(k) /\ heap'[o].count = heap[o].count
    BY DEF QuietLive
  <2>2. heap[o].count \in Nat
    BY <2>1 DEF CountsOK
  <2>3. heap[o].count + W <= tried
    BY <1>3, <2>1
  <2> QED
    BY <1>1, <1>4, <2>1, <2>2, <2>3
<1> QED
  BY <1>5, <1>6 DEF TallyOf, W1, C1

\* A wrong password is one failure more, due for both keys.
LEMMA FailureKeepsTally ==
  ASSUME RequestsOK, CountsOK, NEW k \in LoginKeys, TallyOf(k),
         NEW r, OthersStay(r), tried' = tried + 1, fails' = fails, QuietLive(k)
  PROVE  TallyOf(k)'
<1> DEFINE W == Cardinality(Owing(k))
           W1 == Cardinality(Owing(k)')
           C == Cardinality(Counting(k))
           C1 == Cardinality(Counting(k)')
<1>1. W \in Nat /\ W1 \in Nat /\ W1 <= W + 1
  <2>1. IsFiniteSet(Owing(k)) /\ \A s : s # r => (s \in Owing(k)' <=> s \in Owing(k))
    BY SetsAreFinite, SetsOfOthers
  <2>2. W \in Nat /\ W1 \in Nat
    BY <2>1, SetsDifferInOne
  <2>3. W1 <= W + 1
    BY <2>1, SetsDifferInOne
  <2> QED
    BY <2>2, <2>3
<1>2. C \in Nat /\ C1 \in Nat /\ C1 <= C + 1
  <2>1. IsFiniteSet(Counting(k)) /\ \A s : s # r => (s \in Counting(k)' <=> s \in Counting(k))
    BY SetsAreFinite, SetsOfOthers
  <2>2. C \in Nat /\ C1 \in Nat
    BY <2>1, SetsDifferInOne
  <2>3. C1 <= C + 1
    BY <2>1, SetsDifferInOne
  <2> QED
    BY <2>2, <2>3
<1>3. W <= tried /\ fails[k] + C <= tried /\ \A o \in Live(k) : heap[o].count + W <= tried
  BY DEF TallyOf
<1> HIDE DEF W, W1, C, C1
<1>4. fails[k] \in Nat /\ tried \in Nat
  BY DEF CountsOK
<1>5. W1 <= tried' /\ fails'[k] + C1 <= tried'
  BY <1>1, <1>2, <1>3, <1>4
<1>6. ASSUME NEW o \in Live(k)'
      PROVE  heap'[o].count + W1 <= tried'
  <2>1. o \in Live(k) /\ heap'[o].count = heap[o].count
    BY DEF QuietLive
  <2>2. heap[o].count \in Nat
    BY <2>1 DEF CountsOK
  <2>3. heap[o].count + W <= tried
    BY <1>3, <2>1
  <2> QED
    BY <1>1, <1>4, <2>1, <2>2, <2>3
<1> QED
  BY <1>5, <1>6 DEF TallyOf, W1, C1

\* A request that counts in Redis is one count less on its way.
LEMMA CountKeepsTally ==
  ASSUME RequestsOK, CountsOK, NEW k \in LoginKeys, TallyOf(k),
         NEW r, OthersStay(r), r \in Owing(k)' => r \in Owing(k),
         r \in Counting(k), r \notin Counting(k)',
         tried' = tried, fails'[k] = fails[k] + 1, QuietLive(k)
  PROVE  TallyOf(k)'
<1> DEFINE W == Cardinality(Owing(k))
           W1 == Cardinality(Owing(k)')
           C == Cardinality(Counting(k))
           C1 == Cardinality(Counting(k)')
<1>1. W \in Nat /\ W1 \in Nat /\ W1 <= W
  BY SetsAreFinite, SetsOfOthers, SetsDifferInOne
<1>2. C \in Nat /\ C1 \in Nat /\ C1 = C - 1
  BY SetsAreFinite, SetsOfOthers, SetsDifferInOne
<1>3. W <= tried /\ fails[k] + C <= tried /\ \A o \in Live(k) : heap[o].count + W <= tried
  BY DEF TallyOf
<1> HIDE DEF W, W1, C, C1
<1>4. fails[k] \in Nat /\ tried \in Nat
  BY DEF CountsOK
<1>5. W1 <= tried' /\ fails'[k] + C1 <= tried'
  BY <1>1, <1>2, <1>3, <1>4
<1>6. ASSUME NEW o \in Live(k)'
      PROVE  heap'[o].count + W1 <= tried'
  <2>1. o \in Live(k) /\ heap'[o].count = heap[o].count
    BY DEF QuietLive
  <2>2. heap[o].count \in Nat
    BY <2>1 DEF CountsOK
  <2>3. heap[o].count + W <= tried
    BY <1>3, <2>1
  <2> QED
    BY <1>1, <1>4, <2>1, <2>2, <2>3
<1> QED
  BY <1>5, <1>6 DEF TallyOf, W1, C1

\* An entry that counts a failure is one count less on its way.
LEMMA LocalCountKeepsTally ==
  ASSUME RequestsOK, CountsOK, NEW k \in LoginKeys, TallyOf(k),
         NEW r, OthersStay(r), r \in Owing(k), r \notin Owing(k)',
         r \in Counting(k)' => r \in Counting(k),
         tried' = tried, fails' = fails,
         NEW id, NEW n \in Nat, heap'[id].count = n + 1,
         n = 0 \/ (id \in Live(k) /\ n = heap[id].count),
         Live(k)' \subseteq Live(k) \cup {id},
         \A o \in Live(k)' \ {id} : heap'[o].count = heap[o].count
  PROVE  TallyOf(k)'
<1> DEFINE W == Cardinality(Owing(k))
           W1 == Cardinality(Owing(k)')
           C == Cardinality(Counting(k))
           C1 == Cardinality(Counting(k)')
<1>1. W \in Nat /\ W1 \in Nat /\ W1 = W - 1
  <2>1. IsFiniteSet(Owing(k)) /\ \A s : s # r => (s \in Owing(k)' <=> s \in Owing(k))
    BY SetsAreFinite, SetsOfOthers
  <2>2. W \in Nat /\ W1 \in Nat
    BY <2>1, SetsDifferInOne
  <2>3. W1 = W - 1
    BY <2>1, SetsDifferInOne
  <2> QED
    BY <2>2, <2>3
<1>2. C \in Nat /\ C1 \in Nat /\ C1 <= C
  <2>1. IsFiniteSet(Counting(k)) /\ \A s : s # r => (s \in Counting(k)' <=> s \in Counting(k))
    BY SetsAreFinite, SetsOfOthers
  <2>2. C \in Nat /\ C1 \in Nat
    BY <2>1, SetsDifferInOne
  <2>3. C1 <= C
    BY <2>1, SetsDifferInOne
  <2> QED
    BY <2>2, <2>3
<1>3. W <= tried /\ fails[k] + C <= tried /\ \A o \in Live(k) : heap[o].count + W <= tried
  BY DEF TallyOf
<1> HIDE DEF W, W1, C, C1
<1>4. fails[k] \in Nat /\ tried \in Nat
  BY DEF CountsOK
<1>5. W1 <= tried' /\ fails'[k] + C1 <= tried'
  BY <1>1, <1>2, <1>3, <1>4
<1>6. ASSUME NEW o \in Live(k)'
      PROVE  heap'[o].count + W1 <= tried'
  <2>1. CASE o = id
    <3>1. n + W <= tried
      BY <1>1, <1>3, <1>4
    <3> QED
      BY <1>1, <1>4, <2>1, <3>1
  <2>2. CASE o # id
    <3>1. o \in Live(k) /\ heap'[o].count = heap[o].count
      BY <1>6, <2>2
    <3>2. heap[o].count \in Nat
      BY <3>1 DEF CountsOK
    <3>3. heap[o].count + W <= tried
      BY <1>3, <3>1
    <3> QED
      BY <1>1, <1>4, <3>1, <3>2, <3>3
  <2> QED
    BY <2>1, <2>2
<1> QED
  BY <1>5, <1>6 DEF TallyOf, W1, C1

-----------------------------------------------------------------------------
(* The failures on record in Redis.                                        *)

RedisRecord(k) ==
  owed["redis"][k] <= (fails[k] % Threshold) + Threshold * Cardinality(Blocking(k))

FailsOK == fails \in [LoginKeys -> Nat]

LEMMA RecordTerms ==
  ASSUME RequestsOK, OwedOK, FailsOK, NEW k \in LoginKeys
  PROVE  /\ owed["redis"][k] \in Nat /\ owed["local"][k] \in Nat
         /\ fails[k] \in Nat /\ fails[k] % Threshold \in 0 .. Threshold - 1
         /\ Cardinality(Blocking(k)) \in Nat /\ Threshold \in Nat \ {0}
<1>1. "redis" \in Stores /\ "local" \in Stores /\ Threshold \in Nat \ {0}
  BY GuardAssumption DEF Stores
<1>2. fails[k] \in Nat
  BY DEF FailsOK
<1>3. fails[k] % Threshold \in 0 .. Threshold - 1
  BY <1>1, <1>2, Division
<1>4. Cardinality(Blocking(k)) \in Nat
  BY SetsAreFinite
<1>5. owed["redis"][k] \in Nat /\ owed["local"][k] \in Nat
  BY <1>1 DEF OwedOK
<1> QED
  BY <1>1, <1>2, <1>3, <1>4, <1>5

LEMMA ProductBounds ==
  ASSUME NEW T \in Nat, NEW b \in Nat, NEW c \in Nat
  PROVE  /\ T * b \in Nat
         /\ b <= c => T * b <= T * c
         /\ c = b + 1 => T * c = T * b + T
         /\ b = c - 1 => T * b = T * c - T
<1>1. T * b \in Nat
  BY SMT
<1>2. c = b + 1 => T * c = T * b + T
  BY SMT
<1>3. ASSUME b <= c PROVE T * b <= T * c
  <2>1. PICK d \in Nat : c = b + d
    BY <1>3
  <2>2. T * c = T * b + T * d /\ T * d >= 0
    BY <2>1
  <2> QED
    BY <2>2
<1>4. b = c - 1 => T * b = T * c - T
  BY SMT
<1> QED
  BY <1>1, <1>2, <1>3, <1>4

LEMMA SettledKeepsRecord ==
  ASSUME RequestsOK', FailsOK', OwedOK', NEW k \in LoginKeys, owed'["redis"][k] = 0
  PROVE  RedisRecord(k)'
<1> DEFINE T == Threshold
           G == fails'[k] % T
           B1 == Cardinality(Blocking(k)')
<1>1. T \in Nat \ {0}
  BY GuardAssumption
<1>2. G \in 0 .. T - 1
  BY <1>1, Division DEF FailsOK
<1>3. B1 \in Nat
  <2>1. Blocking(k)' \in SUBSET DOMAIN inflight'
    BY DEF Blocking
  <2>2. IsFiniteSet(DOMAIN inflight')
    BY DEF RequestsOK
  <2> QED
    BY <2>1, <2>2, FS_Subset, FS_CardinalityType
<1> HIDE DEF T, G, B1
<1>4. T * B1 \in Nat
  BY <1>1, <1>3
<1>5. 0 <= G + T * B1
  BY <1>1, <1>2, <1>4
<1> QED
  BY <1>5 DEF RedisRecord, T, G, B1

LEMMA QuietKeepsRecord ==
  ASSUME RequestsOK, OwedOK, FailsOK, NEW k \in LoginKeys, RedisRecord(k),
         NEW r, OthersStay(r), r \in Blocking(k) => r \in Blocking(k)',
         owed'["redis"][k] = owed["redis"][k], fails'[k] = fails[k]
  PROVE  RedisRecord(k)'
<1> DEFINE T == Threshold
           F == fails[k] % T
           B == Cardinality(Blocking(k))
           B1 == Cardinality(Blocking(k)')
           w == owed["redis"][k]
<1>1. T \in Nat \ {0} /\ F \in 0 .. T - 1 /\ B \in Nat /\ w \in Nat
  BY RecordTerms
<1>2. w <= F + T * B
  BY DEF RedisRecord
<1>3. IsFiniteSet(Blocking(k)) /\ \A s : s # r => (s \in Blocking(k)' <=> s \in Blocking(k))
  BY SetsAreFinite, SetsOfOthers
<1>4. B1 \in Nat /\ B <= B1
  BY <1>3, SetsDifferInOne
<1>5. fails'[k] % T = F
  OBVIOUS
<1> HIDE DEF T, F, B, B1, w
<1>6. T * B <= T * B1 /\ T * B \in Nat /\ T * B1 \in Nat
  BY <1>1, <1>4, ProductBounds
<1>7. w <= F + T * B1
  BY <1>1, <1>2, <1>6
<1> QED
  BY <1>5, <1>7 DEF RedisRecord, T, B1, w

\* A count that leads to no block, or to one that the request is about to make.
LEMMA CountKeepsRecord ==
  ASSUME RequestsOK, OwedOK, FailsOK, NEW k \in LoginKeys, RedisRecord(k),
         NEW r, OthersStay(r), r \notin Blocking(k),
         r \in Blocking(k)' <=> Hits(fails[k] + 1),
         owed'["redis"][k] = owed["redis"][k] + 1, fails'[k] = fails[k] + 1
  PROVE  RedisRecord(k)'
<1> DEFINE T == Threshold
           n == fails[k]
           F == n % T
           G == (n + 1) % T
           B == Cardinality(Blocking(k))
           B1 == Cardinality(Blocking(k)')
           w == owed["redis"][k]
<1>1. T \in Nat \ {0} /\ F \in 0 .. T - 1 /\ B \in Nat /\ w \in Nat /\ n \in Nat
  BY RecordTerms
<1>2. w <= F + T * B
  BY DEF RedisRecord
<1>3. IsFiniteSet(Blocking(k)) /\ \A s : s # r => (s \in Blocking(k)' <=> s \in Blocking(k))
  BY SetsAreFinite, SetsOfOthers
<1>4. /\ B1 \in Nat /\ B <= B1
      /\ r \in Blocking(k)' => B1 = B + 1
  BY <1>3, SetsDifferInOne
<1>5. r \in Blocking(k)' <=> G = 0
  BY DEF Hits
<1>6. fails'[k] % T = G
  OBVIOUS
<1> HIDE DEF T, B, B1, w, n
<1>7. /\ G = 0 => F = T - 1
      /\ G # 0 => G = F + 1
  BY <1>1, Remainder
<1> HIDE DEF F, G
<1>8. T * B <= T * B1 /\ T * B \in Nat /\ T * B1 \in Nat /\ (B1 = B + 1 => T * B1 = T * B + T)
  BY <1>1, <1>4, ProductBounds
<1>9. w + 1 <= G + T * B1
  <2>1. CASE G = 0
    BY <1>1, <1>2, <1>4, <1>5, <1>7, <1>8, <2>1
  <2>2. CASE G # 0
    BY <1>1, <1>2, <1>7, <1>8, <2>2
  <2> QED
    BY <2>1, <2>2
<1> QED
  BY <1>6, <1>9 DEF RedisRecord, T, B1, w

\* A count whose block is lost.
LEMMA LostCountKeepsRecord ==
  ASSUME RequestsOK, OwedOK, FailsOK, NEW k \in LoginKeys, RedisRecord(k),
         NEW r, OthersStay(r), r \notin Blocking(k), Hits(fails[k] + 1),
         owed'["redis"][k] = OneMore(owed["redis"][k], Threshold),
         fails'[k] = fails[k] + 1
  PROVE  RedisRecord(k)'
<1> DEFINE T == Threshold
           n == fails[k]
           F == n % T
           B == Cardinality(Blocking(k))
           B1 == Cardinality(Blocking(k)')
           w == owed["redis"][k]
<1>1. T \in Nat \ {0} /\ F \in 0 .. T - 1 /\ B \in Nat /\ w \in Nat /\ n \in Nat
  BY RecordTerms
<1>2. w <= F + T * B
  BY DEF RedisRecord
<1>3. IsFiniteSet(Blocking(k)) /\ \A s : s # r => (s \in Blocking(k)' <=> s \in Blocking(k))
  BY SetsAreFinite, SetsOfOthers
<1>4. B1 \in Nat /\ B <= B1
  BY <1>3, SetsDifferInOne
<1>5. fails'[k] % T = 0
  BY DEF Hits
<1> HIDE DEF T, F, B, B1, w, n
<1>6. T * B <= T * B1 /\ T * B \in Nat /\ T * B1 \in Nat
  BY <1>1, <1>4, ProductBounds
<1>7. OneMore(w, T) <= T * B1
  <2>1. w + 1 - T <= T * B1 /\ T \in Nat
    BY <1>1, <1>2, <1>6
  <2> QED
    BY <1>1, <1>6, <2>1, OwedBounds
<1>9. \A x \in Nat : 0 + x = x
  OBVIOUS
<1>8. OneMore(w, T) <= 0 + T * B1
  BY <1>6, <1>7, <1>9
<1> QED
  BY <1>5, <1>8 DEF RedisRecord, T, B1, w

\* A block that is lost.
LEMMA LostBlockKeepsRecord ==
  ASSUME RequestsOK, OwedOK, FailsOK, NEW k \in LoginKeys, RedisRecord(k),
         NEW r, OthersStay(r), r \in Blocking(k), r \notin Blocking(k)',
         owed'["redis"][k] = SomeLess(owed["redis"][k], Threshold), fails'[k] = fails[k]
  PROVE  RedisRecord(k)'
<1> DEFINE T == Threshold
           n == fails[k]
           F == n % T
           B == Cardinality(Blocking(k))
           B1 == Cardinality(Blocking(k)')
           w == owed["redis"][k]
<1>1. T \in Nat \ {0} /\ F \in 0 .. T - 1 /\ B \in Nat /\ w \in Nat /\ n \in Nat
  BY RecordTerms
<1>2. w <= F + T * B
  BY DEF RedisRecord
<1>3. IsFiniteSet(Blocking(k)) /\ \A s : s # r => (s \in Blocking(k)' <=> s \in Blocking(k))
  BY SetsAreFinite, SetsOfOthers
<1>4. B1 \in Nat /\ B1 = B - 1
  BY <1>3, SetsDifferInOne
<1>5. fails'[k] % T = F
  OBVIOUS
<1> HIDE DEF T, F, B, B1, w, n
<1>6. T * B1 = T * B - T /\ T * B \in Nat /\ T * B1 \in Nat
  BY <1>1, <1>4, ProductBounds
<1>7. T \in Nat /\ F + T * B1 \in Nat /\ w - T <= F + T * B1
  BY <1>1, <1>2, <1>6
<1>8. SomeLess(w, T) <= F + T * B1
  BY <1>1, <1>7, OwedBounds
<1> QED
  BY <1>5, <1>8 DEF RedisRecord, T, B1, w

-----------------------------------------------------------------------------
(* The failures on record in the table.                                    *)

LocalRecord(k) == owed["local"][k] <= Residue(Live(k))

LEMMA ResidueIs ==
  ASSUME NEW k
  PROVE  /\ Residue(Live(k)) = Cardinality(Tokens(heap, Live(k)))
         /\ Residue(Live(k))' = Cardinality(Tokens(heap', Live(k)'))
         /\ Residue(Live(k) \ Live(k)') = Cardinality(Tokens(heap, Live(k) \ Live(k)'))
<1>1. \A S : {p \in S \X (1 .. Threshold) : p[2] <= heap[p[1]].count % Threshold} = Tokens(heap, S)
  BY DEF Tokens, Rest
<1>2. \A S : {p \in S \X (1 .. Threshold) : p[2] <= heap'[p[1]].count % Threshold} = Tokens(heap', S)
  BY DEF Tokens, Rest
<1>3. Residue(Live(k)) = Cardinality(Tokens(heap, Live(k)))
  BY <1>1 DEF Residue
<1>4. Residue(Live(k))' = Cardinality(Tokens(heap', Live(k)'))
  BY <1>2 DEF Residue
<1>5. Residue(Live(k) \ Live(k)') = Cardinality(Tokens(heap, Live(k) \ Live(k)'))
  BY <1>1 DEF Residue
<1> QED
  BY <1>3, <1>4, <1>5

LEMMA LostIsCounted ==
  ASSUME TableOK, RequestsOK, NEW k \in LoginKeys
  PROVE  Residue(Live(k) \ Live(k)') \in Nat
<1>1. Live(k) \ Live(k)' \in SUBSET Live(k)
  OBVIOUS
<1>2. IsFiniteSet(Live(k))
  BY LiveIsSound
<1>3. IsFiniteSet(Live(k) \ Live(k)')
  BY <1>1, <1>2, FS_Subset
<1> QED
  BY <1>3, ResidueIs, TokensAreFinite

LEMMA ResidueIsNat ==
  ASSUME TableOK', RequestsOK', NEW k \in LoginKeys
  PROVE  IsFiniteSet(Live(k)') /\ Residue(Live(k))' \in Nat
<1>1. IsFiniteSet(Live(k)')
  BY LiveIsIn, LiveAreFinite DEF TableOK, RequestsOK
<1> QED
  BY <1>1, ResidueIs, TokensAreFinite

\* The local half is left alone.
LEMMA IdleKeepsLocal ==
  ASSUME NEW k \in LoginKeys, LocalRecord(k), Live(k)' = Live(k),
         \A o \in Live(k) : heap'[o].count = heap[o].count,
         owed'["local"][k] = owed["local"][k]
  PROVE  LocalRecord(k)'
<1>1. Tokens(heap', Live(k)') = Tokens(heap, Live(k))
  BY SMT DEF Tokens, Rest
<1>2. Residue(Live(k))' = Residue(Live(k))
  BY <1>1, ResidueIs
<1> QED
  BY <1>2 DEF LocalRecord

LEMMA QuietKeepsLocal ==
  ASSUME TableOK, RequestsOK, TableOK', RequestsOK', OwedOK, NEW k \in LoginKeys, LocalRecord(k),
         QuietLive(k),
         owed'["local"][k] = SomeLess(owed["local"][k], Residue(Live(k) \ Live(k)'))
  PROVE  LocalRecord(k)'
<1> DEFINE w == owed["local"][k]
           R == Residue(Live(k))
           L == Residue(Live(k) \ Live(k)')
           R1 == Residue(Live(k))'
<1>1. w \in Nat /\ w <= R
  BY DEF LocalRecord, OwedOK, Stores
<1>2. L \in Nat /\ R1 \in Nat /\ R \in Nat
  BY LostIsCounted, ResidueIsNat, LiveIsSound, ResidueIs, TokensAreFinite
<1>3. R <= L + R1
  <2> DEFINE A == Live(k)
             B == Live(k)'
  <2>1. IsFiniteSet(A) /\ B \subseteq A /\ \A o \in B : heap'[o].count = heap[o].count
    BY LiveIsSound DEF QuietLive
  <2>2. R = Cardinality(Tokens(heap, A)) /\ L = Cardinality(Tokens(heap, A \ B))
        /\ R1 = Cardinality(Tokens(heap', B))
    BY ResidueIs
  <2> HIDE DEF A, B, R, L, R1
  <2>3. Cardinality(Tokens(heap, A))
           <= Cardinality(Tokens(heap, A \ B)) + Cardinality(Tokens(heap', B))
    BY <2>1, LostAndLeft
  <2> QED
    BY <2>2, <2>3
<1>5. owed'["local"][k] = SomeLess(w, L)
  OBVIOUS
<1> HIDE DEF w, R, L, R1
<1>4. w - L <= R1
  BY <1>1, <1>2, <1>3
<1>6. SomeLess(w, L) <= R1
  BY <1>1, <1>2, <1>4, OwedBounds
<1> QED
  BY <1>5, <1>6 DEF LocalRecord, R1

LEMMA SettledKeepsLocal ==
  ASSUME TableOK', RequestsOK', NEW k \in LoginKeys, owed'["local"][k] = 0
  PROVE  LocalRecord(k)'
<1>1. Residue(Live(k))' \in Nat
  BY ResidueIsNat
<1> QED
  BY <1>1 DEF LocalRecord

\* An entry counts one more, and that is no block.
LEMMA LocalCountKeepsLocal ==
  ASSUME TableOK, RequestsOK, TableOK', RequestsOK', OwedOK, NEW k \in LoginKeys, LocalRecord(k),
         NEW id \in Live(k)', NEW n \in Nat, heap'[id].count = n + 1, ~Hits(n + 1),
         id \in Live(k) => heap[id].count = n,
         \A o \in (Live(k) \cap Live(k)') \ {id} : heap'[o].count = heap[o].count,
         owed'["local"][k] = OneMore(owed["local"][k], Residue(Live(k) \ Live(k)'))
  PROVE  LocalRecord(k)'
<1> DEFINE w == owed["local"][k]
           R == Residue(Live(k))
           L == Residue(Live(k) \ Live(k)')
           R1 == Residue(Live(k))'
<1>1. w \in Nat /\ w <= R
  BY DEF LocalRecord, OwedOK, Stores
<1>2. L \in Nat /\ R1 \in Nat /\ R \in Nat
  BY LostIsCounted, ResidueIsNat, LiveIsSound, ResidueIs, TokensAreFinite
<1>3. R + 1 <= L + R1
  <2> DEFINE A == Live(k)
             B == Live(k)'
             m == (n + 1) % Threshold
             F == n % Threshold
  <2>1. /\ IsFiniteSet(A) /\ IsFiniteSet(B) /\ id \in B
        /\ \A o \in (A \cap B) \ {id} : heap'[o].count = heap[o].count
    BY LiveIsSound, ResidueIsNat
  <2>2. R = Cardinality(Tokens(heap, A)) /\ L = Cardinality(Tokens(heap, A \ B))
        /\ R1 = Cardinality(Tokens(heap', B))
    BY ResidueIs
  <2>3. Rest(heap', id) = m /\ (id \in A => Rest(heap, id) = F)
    BY DEF Rest
  <2>4. m # 0
    BY DEF Hits
  <2>5. F \in 0 .. Threshold - 1 /\ (m # 0 => m = F + 1) /\ Threshold \in Nat \ {0}
    BY Remainder, GuardAssumption
  <2> HIDE DEF A, B, R, L, R1, m, F
  <2>6. m \in 1 .. Threshold /\ F \in Int /\ F < m /\ m \in Int
    BY <2>4, <2>5
  <2>7. /\ m <= Rest(heap', id) /\ Rest(heap', id) \in Int
        /\ id \in A => Rest(heap, id) \in Int /\ Rest(heap, id) < m
    BY <2>3, <2>6
  <2>8. Cardinality(Tokens(heap, A)) + 1
           <= Cardinality(Tokens(heap, A \ B)) + Cardinality(Tokens(heap', B))
    BY <2>1, <2>6, <2>7, LostAndLeftAndOne
  <2> QED
    BY <2>2, <2>8
<1>5. owed'["local"][k] = OneMore(w, L)
  OBVIOUS
<1> HIDE DEF w, R, L, R1
<1>4. w + 1 - L <= R1
  BY <1>1, <1>2, <1>3
<1>6. OneMore(w, L) <= R1
  BY <1>1, <1>2, <1>4, OwedBounds
<1> QED
  BY <1>5, <1>6 DEF LocalRecord, R1

-----------------------------------------------------------------------------
(* What a step does to the table and its entries.                          *)

LEMMA WhatIsLive ==
  /\ \A p \in Range(table) : p[2] \in Live(p[1])
  /\ \A s \in DOMAIN inflight :
       inflight[s].object # NoObject => inflight[s].object \in Live(inflight[s].keys[inflight[s].turn])
BY LiveIsIn, LiveMembers

LEMMA NothingComesAlive ==
  ASSUME NEW r, OthersStay(r), NEW k,
         \A p \in Range(table') : p[1] = k => p[2] \in Live(k),
         r \in DOMAIN inflight' /\ inflight'[r].object # NoObject =>
           inflight'[r].object \in Live(inflight'[r].keys[inflight'[r].turn])
  PROVE  Live(k)' \subseteq Live(k)
<1> SUFFICES ASSUME NEW o, o \in LiveIn(table', inflight', k)
             PROVE  o \in Live(k)
  BY LiveIsIn
<1>1. CASE \E p \in Range(table') : p[1] = k /\ p[2] = o
  BY <1>1
<1>2. ASSUME o # NoObject, NEW s \in DOMAIN inflight',
             inflight'[s].keys[inflight'[s].turn] = k, inflight'[s].object = o
      PROVE  o \in Live(k)
  <2>1. CASE s = r
    BY <1>2, <2>1
  <2>2. CASE s # r
    <3>1. s \in DOMAIN inflight /\ inflight'[s] = inflight[s]
      BY <2>2 DEF OthersStay
    <3> QED
      BY <1>2, <3>1, WhatIsLive
  <2> QED
    BY <2>1, <2>2
<1> QED
  BY <1>1, <1>2, LiveMembers

LEMMA ApartStays ==
  ASSUME Apart, \A k \in LoginKeys : Live(k)' \subseteq Live(k)
  PROVE  Apart'
BY DEF Apart

\* Nothing of the local half changes.
LEMMA IdleStep ==
  ASSUME TableOK, RequestsOK, Apart, \A k \in LoginKeys : LocalRecord(k),
         table' = table, HeapOK', \A k \in LoginKeys : Live(k)' = Live(k),
         \A o \in Objects : heap'[o].count = heap[o].count,
         \A k \in LoginKeys : owed'["local"][k] = owed["local"][k]
  PROVE  /\ TableOK' /\ Apart'
         /\ \A k \in LoginKeys : QuietLive(k) /\ LocalRecord(k)'
<1>1. TableOK'
  BY DEF TableOK
<1>2. Apart'
  BY ApartStays
<1>3. \A k \in LoginKeys : QuietLive(k)
  BY LiveIsSound DEF QuietLive
<1>4. \A k \in LoginKeys : LocalRecord(k)'
  BY LiveIsSound, IdleKeepsLocal
<1> QED
  BY <1>1, <1>2, <1>3, <1>4

\* The request r has nothing in hand and nothing of the local half changes.
LEMMA RequestIdles ==
  ASSUME TableOK, HeapOK, RequestsOK, Apart, \A k \in LoginKeys : LocalRecord(k),
         NEW r, OthersStay(r), EmptyHanded(r), table' = table, heap' = heap,
         \A k \in LoginKeys : owed'["local"][k] = owed["local"][k]
  PROVE  /\ TableOK' /\ HeapOK' /\ Apart'
         /\ \A k \in LoginKeys : QuietLive(k) /\ LocalRecord(k)'
<1>1. \A k \in LoginKeys : Live(k)' = Live(k)
  BY EmptyHandedKeepsLive
<1>2. HeapOK'
  BY DEF HeapOK
<1>3. \A o \in Objects : heap'[o].count = heap[o].count
  OBVIOUS
<1> QED
  BY <1>1, <1>2, <1>3, IdleStep

LEMMA NewEntryIsSound == NewEntry \in Entry /\ NewEntry.count = 0
BY GuardAssumption DEF NewEntry, Entry

LEMMA StepOfTheTable ==
  ASSUME TableOK, RequestsOK, OwedOK, NEW entries \in [Objects -> Entry], NEW one, NEW settled,
         LocalStep(entries, one, settled)
  PROVE  /\ HeapOK' /\ OwedOK'
         /\ \A k \in LoginKeys : \A o \in Live(k)' : o \in Objects => heap'[o] = entries[o]
         /\ \A k \in LoginKeys : owed'["redis"][k] = owed["redis"][k]
         /\ \A k \in LoginKeys :
              owed'["local"][k]
                = NowOwed(owed["local"][k], k, one, Residue(Live(k) \ Live(k)'), settled)
<1> DEFINE lost == [k \in LoginKeys |-> Residue(Live(k) \ Live(k)')]
           l == "local"
<1>1. lost \in [LoginKeys -> Nat]
  BY LostIsCounted
<1>2. l \in Stores /\ Recorded(l, one, lost, settled)
  BY DEF LocalStep, Stores
<1>3. \A k \in LoginKeys : lost[k] = Residue(Live(k) \ Live(k)')
  OBVIOUS
<1>4. "redis" \in Stores /\ "redis" # l
  BY DEF Stores
<1>5. heap' = [o \in Objects |-> IF \E k \in LoginKeys : o \in Live(k)' THEN entries[o] ELSE NewEntry]
  BY DEF LocalStep
<1> HIDE DEF lost, l
<1>6. /\ OwedOK' /\ \A s \in Stores : s # l => owed'[s] = owed[s]
      /\ \A k \in LoginKeys : owed'[l][k] = NowOwed(owed[l][k], k, one, lost[k], settled)
  BY <1>1, <1>2, StepOfOwed
<1>7. HeapOK'
  BY <1>5, NewEntryIsSound DEF HeapOK
<1>8. \A k \in LoginKeys : \A o \in Live(k)' : o \in Objects => heap'[o] = entries[o]
  BY <1>5
<1>9. \A k \in LoginKeys : owed'["redis"][k] = owed["redis"][k]
  BY <1>4, <1>6
<1>10. \A k \in LoginKeys :
         owed'[l][k] = NowOwed(owed[l][k], k, one, Residue(Live(k) \ Live(k)'), settled)
  BY <1>3, <1>6
<1> QED
  BY <1>6, <1>7, <1>8, <1>9, <1>10 DEF l

\* What is owed of a key in the table then.
LEMMA OwedInTheTable ==
  ASSUME TableOK, RequestsOK, OwedOK, NEW k \in LoginKeys, NEW one, NEW settled,
         owed'["local"][k]
           = NowOwed(owed["local"][k], k, one, Residue(Live(k) \ Live(k)'), settled)
  PROVE  /\ k \in settled => owed'["local"][k] = 0
         /\ k \notin settled /\ k \in one =>
              owed'["local"][k] = OneMore(owed["local"][k], Residue(Live(k) \ Live(k)'))
         /\ k \notin settled /\ k \notin one =>
              owed'["local"][k] = SomeLess(owed["local"][k], Residue(Live(k) \ Live(k)'))
<1>1. owed["local"][k] \in Nat
  BY DEF OwedOK, Stores
<1>2. Residue(Live(k) \ Live(k)') \in Nat
  BY LostIsCounted
<1> QED
  BY <1>1, <1>2, NowOwedIs

\* The table loses entries, or gets one that a request had in hand.
LEMMA TableQuiet ==
  ASSUME TableOK, HeapOK, RequestsOK, OwedOK, Apart, \A k \in LoginKeys : LocalRecord(k),
         TableOK', RequestsOK', \A k \in LoginKeys : Live(k)' \subseteq Live(k),
         NEW settled, LocalStep(heap, {}, settled)
  PROVE  /\ HeapOK' /\ OwedOK' /\ Apart'
         /\ \A k \in LoginKeys : owed'["redis"][k] = owed["redis"][k]
         /\ \A k \in LoginKeys : QuietLive(k) /\ LocalRecord(k)'
<1>1. heap \in [Objects -> Entry]
  BY DEF HeapOK
<1>2. /\ HeapOK' /\ OwedOK'
      /\ \A k \in LoginKeys : \A o \in Live(k)' : o \in Objects => heap'[o] = heap[o]
      /\ \A k \in LoginKeys : owed'["redis"][k] = owed["redis"][k]
      /\ \A k \in LoginKeys :
           owed'["local"][k]
             = NowOwed(owed["local"][k], k, {}, Residue(Live(k) \ Live(k)'), settled)
  BY <1>1, StepOfTheTable
<1>3. \A k \in LoginKeys : QuietLive(k)
  BY <1>2, LiveIsSound DEF QuietLive
<1>4. \A k \in LoginKeys : LocalRecord(k)'
  <2> TAKE k \in LoginKeys
  <2>4. owed'["local"][k]
          = NowOwed(owed["local"][k], k, {}, Residue(Live(k) \ Live(k)'), settled)
    BY <1>2
  <2>5. k \in settled => owed'["local"][k] = 0
    BY <2>4, OwedInTheTable
  <2>6. k \notin settled /\ k \notin {} =>
          owed'["local"][k] = SomeLess(owed["local"][k], Residue(Live(k) \ Live(k)'))
    BY <2>4, OwedInTheTable
  <2>3. /\ k \in settled => owed'["local"][k] = 0
        /\ k \notin settled =>
             owed'["local"][k] = SomeLess(owed["local"][k], Residue(Live(k) \ Live(k)'))
    BY <2>5, <2>6
  <2>1. CASE k \in settled
    BY <2>1, <2>3, SettledKeepsLocal
  <2>2. CASE k \notin settled
    BY <1>3, <2>2, <2>3, QuietKeepsLocal
  <2> QED
    BY <2>1, <2>2
<1> QED
  BY <1>2, <1>3, <1>4, ApartStays

-----------------------------------------------------------------------------
(* The inductive invariant.                                                *)

ShapeOK ==
  /\ FailsOK /\ blocks \in [LoginKeys -> 0 .. MaxLevel] /\ down \in BOOLEAN
  /\ TableOK /\ HeapOK /\ RequestsOK /\ OwedOK /\ tried \in 0 .. MaxTries

\* The counts stay behind the wrong passwords there were, no two keys share an entry,
\* and the failures of each key are on record in both stores.
GuardInv ==
  /\ ShapeOK /\ Apart
  /\ \A k \in LoginKeys : TallyOf(k) /\ RedisRecord(k) /\ LocalRecord(k)

LEMMA InvCounts ==
  ASSUME GuardInv
  PROVE  CountsOK
<1>1. tried \in Nat /\ fails \in [LoginKeys -> Nat]
  BY GuardAssumption DEF GuardInv, ShapeOK, FailsOK
<1>2. ASSUME NEW k \in LoginKeys, NEW o \in Live(k)
      PROVE  heap[o].count \in Nat
  <2>1. o \in Objects
    BY LiveIsSound DEF GuardInv, ShapeOK
  <2>2. heap[o] \in Entry
    BY <2>1 DEF GuardInv, ShapeOK, HeapOK
  <2> QED
    BY <2>2, GuardAssumption DEF Entry
<1> QED
  BY <1>1, <1>2 DEF CountsOK

\* A step that counts no failure keeps the invariant when it keeps both records.
LEMMA QuietStep ==
  ASSUME GuardInv, NEW r, OneMoves(r), OwesNoMore(r), CountsNoMore(r),
         TableOK', HeapOK', Apart', OwedOK', FailsOK',
         \A k \in LoginKeys : QuietLive(k) /\ LocalRecord(k)' /\ RedisRecord(k)',
         tried' = tried, \A k \in LoginKeys : fails'[k] = fails[k] \/ fails'[k] = 0,
         blocks' \in [LoginKeys -> 0 .. MaxLevel], down' \in BOOLEAN
  PROVE  GuardInv'
<1>1. RequestsOK'
  BY RequestsStaySound DEF GuardInv, ShapeOK
<1>2. ShapeOK'
  BY <1>1 DEF GuardInv, ShapeOK
<1>3. \A k \in LoginKeys : TallyOf(k)'
  BY InvCounts, QuietKeepsTally DEF GuardInv, ShapeOK, OneMoves, OwesNoMore, CountsNoMore
<1> QED
  BY <1>2, <1>3 DEF GuardInv

LEMMA RedisQuiet ==
  ASSUME GuardInv, NEW r, OneMoves(r), StillBlocks(r), fails' = fails,
         \A k \in LoginKeys : owed'["redis"][k] = owed["redis"][k]
  PROVE  FailsOK' /\ \A k \in LoginKeys : RedisRecord(k)'
<1>1. FailsOK'
  BY DEF GuardInv, ShapeOK, FailsOK
<1>2. \A k \in LoginKeys : RedisRecord(k)'
  BY QuietKeepsRecord DEF GuardInv, ShapeOK, OneMoves, StillBlocks
<1> QED
  BY <1>1, <1>2

\* Only the request moves.
LEMMA OnlyTheRequestMoves ==
  ASSUME GuardInv, NEW r, OneMoves(r), OwesNoMore(r), CountsNoMore(r), StillBlocks(r),
         EmptyHanded(r), UNCHANGED <<redis, local, tried, owed>>, down' \in BOOLEAN
  PROVE  GuardInv'
<1>1. /\ fails' = fails /\ blocks' = blocks /\ table' = table /\ heap' = heap
      /\ tried' = tried /\ owed' = owed
  BY DEF redis, local
<1>2. FailsOK' /\ \A k \in LoginKeys : RedisRecord(k)'
  BY <1>1, RedisQuiet
<1>3. /\ TableOK' /\ HeapOK' /\ Apart'
      /\ \A k \in LoginKeys : QuietLive(k) /\ LocalRecord(k)'
  BY <1>1, RequestIdles DEF GuardInv, ShapeOK, OneMoves
<1>4. OwedOK'
  BY <1>1 DEF GuardInv, ShapeOK, OwedOK
<1>5. blocks' \in [LoginKeys -> 0 .. MaxLevel]
  BY <1>1 DEF GuardInv, ShapeOK
<1> QED
  BY <1>1, <1>2, <1>3, <1>4, <1>5, QuietStep

\* The request moves, and the table loses entries or gets one that it had in hand.
LEMMA TheTableMoves ==
  ASSUME GuardInv, NEW r, OneMoves(r), OwesNoMore(r), CountsNoMore(r), StillBlocks(r),
         TableOK', \A k \in LoginKeys : Live(k)' \subseteq Live(k),
         NEW settled, LocalStep(heap, {}, settled),
         UNCHANGED <<redis, tried>>, down' \in BOOLEAN
  PROVE  GuardInv'
<1>1. fails' = fails /\ blocks' = blocks /\ tried' = tried
  BY DEF redis
<1>2. RequestsOK'
  BY RequestsStaySound DEF GuardInv, ShapeOK
<1>3. /\ HeapOK' /\ OwedOK' /\ Apart'
      /\ \A k \in LoginKeys : owed'["redis"][k] = owed["redis"][k]
      /\ \A k \in LoginKeys : QuietLive(k) /\ LocalRecord(k)'
  BY <1>2, TableQuiet DEF GuardInv, ShapeOK
<1>4. FailsOK' /\ \A k \in LoginKeys : RedisRecord(k)'
  BY <1>1, <1>3, RedisQuiet
<1>5. blocks' \in [LoginKeys -> 0 .. MaxLevel]
  BY <1>1 DEF GuardInv, ShapeOK
<1> QED
  BY <1>1, <1>3, <1>4, <1>5, QuietStep

\* No request moves.
LEMMA NoRequestMoves ==
  ASSUME GuardInv, inflight' = inflight, NEW r
  PROVE  /\ OneMoves(r) /\ OwesNoMore(r) /\ CountsNoMore(r) /\ StillBlocks(r)
         /\ table' = table => \A k : Live(k)' = Live(k)
<1>1. OneMoves(r)
  BY StepsOfOne DEF OneMoves, GuardInv, ShapeOK, RequestsOK
<1>2. OwesNoMore(r) /\ CountsNoMore(r) /\ StillBlocks(r)
  BY OnItsWay DEF OwesNoMore, CountsNoMore, StillBlocks
<1>3. table' = table => \A k : Live(k)' = Live(k)
  BY LiveIsIn
<1> QED
  BY <1>1, <1>2, <1>3

-----------------------------------------------------------------------------
(* The steps that count no failure.                                        *)

LEMMA CheckInRedisKeeps ==
  ASSUME GuardInv, NEW r \in Logins, NEW a \in Addresses, NEW e \in Emails, CheckInRedis(r, a, e)
  PROVE  GuardInv'
<1>1. Arrive(r, a, e) /\ UNCHANGED <<redis, down, local, tried, owed>>
  BY DEF CheckInRedis
<1>2. down' \in BOOLEAN
  BY <1>1 DEF GuardInv, ShapeOK
<1> QED
  BY <1>1, <1>2, EntersEmpty, OnlyTheRequestMoves

LEMMA TableShrinks ==
  ASSUME GuardInv, table' = Cleaned \/ table' = table \/ \E K : table' = Others(K)
  PROVE  /\ TableOK' /\ Range(table') \subseteq Range(table)
         /\ \A k : \A p \in Range(table') : p[1] = k => p[2] \in Live(k)
<1>1. TableOK /\ Len(table) \in Nat /\ Len(table) <= MaxTracked /\ MaxTracked \in Nat
  BY GuardAssumption DEF GuardInv, ShapeOK, TableOK
<1>2. /\ table' \in Seq(LoginKeys \X Objects) /\ Len(table') <= Len(table)
      /\ \A i, j \in DOMAIN table' : table'[i][1] = table'[j][1] => i = j
      /\ Range(table') \subseteq Range(table)
  BY <1>1, TableWithout
<1>3. Len(table') \in Nat
  BY <1>2
<1>4. Len(table') <= MaxTracked
  BY <1>1, <1>2, <1>3
<1>5. TableOK'
  BY <1>2, <1>4 DEF TableOK
<1>6. \A k : \A p \in Range(table') : p[1] = k => p[2] \in Live(k)
  BY <1>2, WhatIsLive
<1> QED
  BY <1>2, <1>5, <1>6

LEMMA CheckLocallyKeeps ==
  ASSUME GuardInv, NEW r \in Logins, NEW a \in Addresses, NEW e \in Emails, CheckLocally(r, a, e)
  PROVE  GuardInv'
<1>1. /\ Arrive(r, a, e) /\ UNCHANGED <<redis, tried>> /\ LocalStep(heap, {}, {})
      /\ table' = Cleaned /\ down' \in BOOLEAN
  BY GuardAssumption DEF CheckLocally
<1>2. OneMoves(r) /\ OwesNoMore(r) /\ CountsNoMore(r) /\ StillBlocks(r) /\ EmptyHanded(r)
  BY <1>1, EntersEmpty
<1>3. TableOK' /\ \A k : \A p \in Range(table') : p[1] = k => p[2] \in Live(k)
  BY <1>1, TableShrinks
<1>4. \A k \in LoginKeys : Live(k)' \subseteq Live(k)
  BY <1>2, <1>3, NothingComesAlive DEF OneMoves, EmptyHanded
<1> QED
  BY <1>1, <1>2, <1>3, <1>4, TheTableMoves

LEMMA LookKeeps ==
  ASSUME GuardInv, Look
  PROVE  GuardInv'
<1> DEFINE r == inflight
<1>1. /\ inflight' = inflight /\ UNCHANGED <<redis, tried>> /\ LocalStep(heap, {}, {})
      /\ table' = Cleaned /\ down' \in BOOLEAN
  BY GuardAssumption DEF Look
<1> HIDE DEF r
<1>2. OneMoves(r) /\ OwesNoMore(r) /\ CountsNoMore(r) /\ StillBlocks(r)
  BY <1>1, NoRequestMoves
<1>3. TableOK' /\ \A k : \A p \in Range(table') : p[1] = k => p[2] \in Live(k)
  BY <1>1, TableShrinks
<1>4. \A s \in DOMAIN inflight' : inflight'[s].object # NoObject =>
             inflight'[s].object \in Live(inflight'[s].keys[inflight'[s].turn])
  BY <1>1, WhatIsLive
<1>5. \A k \in LoginKeys : Live(k)' \subseteq Live(k)
  BY <1>2, <1>3, <1>4, NothingComesAlive DEF OneMoves
<1> QED
  BY <1>1, <1>2, <1>3, <1>5, TheTableMoves

LEMMA RightPasswordKeeps ==
  ASSUME GuardInv, NEW r, RightPassword(r) \/ Abort(r)
  PROVE  GuardInv'
<1>1. /\ Serving(r, "verify") /\ (Done(r) \/ Goto(r, "clear"))
      /\ UNCHANGED <<redis, local, tried, owed>> /\ down' = down
  BY DEF RightPassword, Abort
<1>2. RequestsOK /\ down' \in BOOLEAN
  BY <1>1 DEF GuardInv, ShapeOK
<1>3. OneMoves(r) /\ OwesNoMore(r) /\ CountsNoMore(r) /\ StillBlocks(r) /\ EmptyHanded(r)
  BY <1>1, <1>2, MovesWithoutAFailure
<1> QED
  BY <1>1, <1>2, <1>3, OnlyTheRequestMoves

LEMMA LeaveRedisKeeps ==
  ASSUME GuardInv, NEW r, LeaveRedis(r)
  PROVE  GuardInv'
<1>1. /\ Serving(r, "clear") /\ Goto(r, "pop") /\ UNCHANGED <<redis, local, tried, owed>>
      /\ down' \in BOOLEAN
  BY GuardAssumption DEF LeaveRedis
<1>2. RequestsOK
  BY DEF GuardInv, ShapeOK
<1>3. OneMoves(r) /\ OwesNoMore(r) /\ CountsNoMore(r) /\ StillBlocks(r) /\ EmptyHanded(r)
  BY <1>1, <1>2, MovesWithoutAFailure
<1> QED
  BY <1>1, <1>3, OnlyTheRequestMoves

LEMMA SkipRedisKeeps ==
  ASSUME GuardInv, NEW r, SkipRedis(r)
  PROVE  GuardInv'
<1>1. /\ Serving(r, "count") /\ ToLocal(r) /\ UNCHANGED <<redis, local, tried, owed>>
      /\ down' = down
  BY DEF SkipRedis
<1>2. RequestsOK /\ down' \in BOOLEAN
  BY <1>1 DEF GuardInv, ShapeOK
<1>3. /\ OneMoves(r) /\ OwesNoMore(r) /\ EmptyHanded(r)
      /\ \A k : r \notin Counting(k)' /\ r \notin Blocking(k)'
  BY <1>1, <1>2, MovesToTheTable
<1>4. CountsNoMore(r)
  BY <1>3 DEF CountsNoMore
<1>5. StillBlocks(r)
  BY <1>1, OnItsWay DEF StillBlocks, Serving
<1> QED
  BY <1>1, <1>2, <1>3, <1>4, <1>5, OnlyTheRequestMoves

LEMMA ClearLocallyKeeps ==
  ASSUME GuardInv, NEW r, ClearLocally(r)
  PROVE  GuardInv'
<1>1. /\ Serving(r, "pop") /\ Done(r) /\ table' = Others(KeysOf(r))
      /\ LocalStep(heap, {}, KeysOf(r)) /\ UNCHANGED <<redis, tried>> /\ down' = down
  BY DEF ClearLocally
<1>2. RequestsOK /\ down' \in BOOLEAN
  BY <1>1 DEF GuardInv, ShapeOK
<1>3. OneMoves(r) /\ OwesNoMore(r) /\ CountsNoMore(r) /\ StillBlocks(r) /\ EmptyHanded(r)
  BY <1>1, <1>2, MovesWithoutAFailure
<1>4. TableOK' /\ \A k : \A p \in Range(table') : p[1] = k => p[2] \in Live(k)
  BY <1>1, TableShrinks
<1>5. \A k \in LoginKeys : Live(k)' \subseteq Live(k)
  BY <1>3, <1>4, NothingComesAlive DEF OneMoves, EmptyHanded
<1> QED
  BY <1>1, <1>2, <1>3, <1>4, <1>5, TheTableMoves

LEMMA FetchKeeps ==
  ASSUME GuardInv, NEW r, Fetch(r)
  PROVE  GuardInv'
<1> DEFINE q == inflight[r]
           k == KeyOf(r)
           found == {x[2] : x \in {y \in Range(table') : y[1] = k}}
<1>1. /\ Serving(r, "fetch") /\ LocalStep(heap, {}, {}) /\ UNCHANGED <<redis, tried>>
      /\ down' \in BOOLEAN /\ (table' = Cleaned \/ table' = table)
  BY DEF Fetch, GuardInv, ShapeOK
<1>2. PICK o : /\ o = NoObject \/ o \in found
               /\ inflight' = [inflight EXCEPT ![r].at = "add", ![r].object = o]
  <2>1. \E o \in (IF found = {} THEN {NoObject} ELSE found) :
           inflight' = [inflight EXCEPT ![r].at = "add", ![r].object = o]
    BY DEF Fetch
  <2> HIDE DEF found
  <2> QED
    BY <2>1
<1>3. "fetch" \in EmptyPlaces /\ RequestsOK
  BY DEF EmptyPlaces, GuardInv, ShapeOK
<1>4. /\ r \in Logins /\ r \in DOMAIN inflight /\ q \in Login /\ q.at = "fetch" /\ SoundLogin(q)
  BY <1>1, <1>3, EmptyPlaceHasNone
<1>5. TableOK' /\ \A j : \A p \in Range(table') : p[1] = j => p[2] \in Live(j)
  BY <1>1, TableShrinks
<1>6. o # NoObject => o \in Live(k)
  BY <1>2, <1>5
<1>7. k \in LoginKeys /\ k = q.keys[q.turn]
  BY <1>4, KeysOfALogin DEF KeyOf
<1>8. o \in Objects \cup {NoObject}
  BY <1>6, <1>7, LiveIsSound DEF GuardInv, ShapeOK
<1> DEFINE p == [q EXCEPT !.at = "add", !.object = o]
<1>9. /\ p \in Login /\ p.at = "add" /\ p.object = o /\ p.keys = q.keys /\ p.turn = q.turn
  BY <1>4, <1>8 DEF Login
<1>10. inflight' = [inflight EXCEPT ![r] = p]
  BY <1>2
<1> HIDE DEF p, k, found
<1>11. OthersStay(r) /\ r \in DOMAIN inflight' /\ inflight'[r] = p
  BY <1>4, <1>10, StepsOfOne
<1>12. OneMoves(r)
  BY <1>4, <1>9, <1>11 DEF OneMoves, SoundLogin
<1>13. OwesNoMore(r)
  BY <1>4, <1>9, <1>11, OnItsWay DEF OwesNoMore, Owes
<1>14. CountsNoMore(r) /\ StillBlocks(r)
  BY <1>4, <1>9, <1>11, OnItsWay DEF CountsNoMore, StillBlocks
<1>15. inflight'[r].object # NoObject =>
           inflight'[r].object \in Live(inflight'[r].keys[inflight'[r].turn])
  BY <1>6, <1>7, <1>9, <1>11
<1>16. \A j \in LoginKeys : Live(j)' \subseteq Live(j)
  BY <1>5, <1>11, <1>15, NothingComesAlive
<1> QED
  BY <1>1, <1>5, <1>12, <1>13, <1>14, <1>16, TheTableMoves

LEMMA InsertKeeps ==
  ASSUME GuardInv, NEW r, Insert(r)
  PROVE  GuardInv'
<1> DEFINE q == inflight[r]
           k == KeyOf(r)
           o == q.object
           p == [q EXCEPT !.at = "fetch", !.turn = 2, !.object = NoObject]
<1>1. /\ Serving(r, "insert") /\ LocalStep(heap, {}, {}) /\ UNCHANGED <<redis, tried>>
      /\ down' \in BOOLEAN /\ table' = Trimmed(Append(Others({k}), <<k, o>>))
      /\ \/ Done(r)
         \/ q.turn # 2 /\ inflight' = [inflight EXCEPT ![r].at = "fetch", ![r].turn = 2,
                                           ![r].object = NoObject]
  BY DEF Insert, GuardInv, ShapeOK
<1>2. /\ r \in Logins /\ r \in DOMAIN inflight /\ q \in Login /\ q.at = "insert" /\ SoundLogin(q)
  BY <1>1 DEF Serving, GuardInv, ShapeOK, RequestsOK
<1>3. o # NoObject /\ o \in Objects
  BY <1>2 DEF SoundLogin, Login
<1>4. k \in LoginKeys /\ k = q.keys[q.turn] /\ q.turn \in 1 .. 2
  BY <1>2, KeysOfALogin DEF KeyOf, Login
<1>5. o \in Live(k)
  BY <1>2, <1>3, <1>4, WhatIsLive
<1>6. TableOK
  BY DEF GuardInv, ShapeOK
<1> HIDE DEF k, o
<1>7. /\ TableOK' /\ Range(table') \subseteq Range(table) \cup {<<k, o>>}
  <2>1. table' = Trimmed(Append(Others({k}), <<k, o>>))
    BY <1>1
  <2>2. table' \in Seq(LoginKeys \X Objects)
    BY <1>3, <1>4, <1>6, <2>1, TableInserted
  <2>3. Len(table') <= MaxTracked
    BY <1>3, <1>4, <1>6, <2>1, TableInserted
  <2>4. \A i, j \in DOMAIN table' : table'[i][1] = table'[j][1] => i = j
    BY <1>3, <1>4, <1>6, <2>1, TableInserted
  <2>5. Range(table') \subseteq Range(table) \cup {<<k, o>>}
    BY <1>3, <1>4, <1>6, <2>1, TableInserted
  <2> QED
    BY <2>2, <2>3, <2>4, <2>5 DEF TableOK
<1>8. \A j : \A x \in Range(table') : x[1] = j => x[2] \in Live(j)
  BY <1>5, <1>7, WhatIsLive
<1>9. CASE Done(r)
  <2>1. OthersStay(r) /\ r \notin DOMAIN inflight'
    BY <1>9, StepsOfOne
  <2>2. OneMoves(r) /\ OwesNoMore(r) /\ CountsNoMore(r) /\ StillBlocks(r)
    BY <1>2, <2>1, OnItsWay DEF OneMoves, OwesNoMore, CountsNoMore, StillBlocks
  <2>3. \A j \in LoginKeys : Live(j)' \subseteq Live(j)
    BY <1>8, <2>1, NothingComesAlive
  <2> QED
    BY <1>1, <1>7, <2>2, <2>3, TheTableMoves
<1>10. CASE q.turn # 2 /\ inflight' = [inflight EXCEPT ![r].at = "fetch", ![r].turn = 2,
                                           ![r].object = NoObject]
  <2>9. 2 \in 1 .. 2 /\ NoObject \in Objects \cup {NoObject}
    OBVIOUS
  <2>10. p \in Login
    BY <1>2, <2>9 DEF Login
  <2>11. p.at = "fetch" /\ p.object = NoObject /\ p.keys = q.keys /\ p.turn = 2
    BY <1>2 DEF Login
  <2>1. /\ p \in Login /\ p.at = "fetch" /\ p.object = NoObject /\ p.keys = q.keys /\ p.turn = 2
    BY <2>10, <2>11
  <2>2. inflight' = [inflight EXCEPT ![r] = p]
    BY <1>10
  <2> HIDE DEF p
  <2>3. OthersStay(r) /\ r \in DOMAIN inflight' /\ inflight'[r] = p
    BY <1>2, <2>2, StepsOfOne
  <2>4. OneMoves(r)
    BY <1>2, <2>1, <2>3 DEF OneMoves, SoundLogin
  <2>5. OwesNoMore(r)
    <3> SUFFICES ASSUME NEW j \in LoginKeys, r \in Owing(j)'
                 PROVE  r \in Owing(j)
      BY DEF OwesNoMore
    <3>1. \E i \in 2 .. 2 : q.keys[i] = j
      BY <2>1, <2>3, OnItsWay DEF Owes
    <3>2. q.keys[2] = j
      BY <3>1
    <3>3. q.turn = 1
      BY <1>4, <1>10
    <3> QED
      BY <1>2, <3>2, <3>3, OnItsWay DEF Owes
  <2>6. CountsNoMore(r) /\ StillBlocks(r)
    BY <1>2, <2>1, <2>3, OnItsWay DEF CountsNoMore, StillBlocks
  <2>7. inflight'[r].object = NoObject
    BY <2>1, <2>3
  <2>8. \A j \in LoginKeys : Live(j)' \subseteq Live(j)
    BY <1>8, <2>3, <2>7, NothingComesAlive
  <2> QED
    BY <1>1, <1>7, <2>4, <2>5, <2>6, <2>8, TheTableMoves
<1> QED
  BY <1>1, <1>9, <1>10

-----------------------------------------------------------------------------
(* The steps of Redis and of time.                                         *)

\* No request moves, and at most ages and blocks change.
LEMMA TimeKeeps ==
  ASSUME GuardInv, inflight' = inflight, table' = table, fails' = fails, tried' = tried,
         owed' = owed, HeapOK', \A o \in Objects : heap'[o].count = heap[o].count,
         blocks' \in [LoginKeys -> 0 .. MaxLevel], down' \in BOOLEAN
  PROVE  GuardInv'
<1> DEFINE r == inflight
<1> HIDE DEF r
<1>1. /\ OneMoves(r) /\ OwesNoMore(r) /\ CountsNoMore(r) /\ StillBlocks(r)
      /\ \A k : Live(k)' = Live(k)
  BY NoRequestMoves
<1>2. FailsOK' /\ \A k \in LoginKeys : RedisRecord(k)'
  BY <1>1, RedisQuiet
<1>3. /\ TableOK' /\ Apart' /\ \A k \in LoginKeys : QuietLive(k) /\ LocalRecord(k)'
  BY <1>1, IdleStep DEF GuardInv, ShapeOK
<1>4. OwedOK'
  BY DEF GuardInv, ShapeOK, OwedOK
<1> QED
  BY <1>1, <1>2, <1>3, <1>4, QuietStep

LEMMA BlockEndsKeeps ==
  ASSUME GuardInv, Resume \/ \E k \in LoginKeys : BlockEnds(k)
  PROVE  GuardInv'
<1>1. /\ fails' = fails /\ table' = table /\ heap' = heap /\ inflight' = inflight
      /\ tried' = tried /\ owed' = owed
  BY DEF Resume, BlockEnds, redis, local
<1>2. blocks' \in [LoginKeys -> 0 .. MaxLevel] /\ down' \in BOOLEAN
  <2>1. blocks \in [LoginKeys -> 0 .. MaxLevel] /\ down \in BOOLEAN /\ 0 \in 0 .. MaxLevel
    BY GuardAssumption DEF GuardInv, ShapeOK
  <2> QED
    BY <2>1 DEF Resume, BlockEnds, redis
<1>3. HeapOK' /\ \A o \in Objects : heap'[o].count = heap[o].count
  BY <1>1 DEF GuardInv, ShapeOK, HeapOK
<1> QED
  BY <1>1, <1>2, <1>3, TimeKeeps

LEMMA EntryAgesKeeps ==
  ASSUME GuardInv, NEW o \in Objects, LocalBlockEnds(o) \/ Age(o)
  PROVE  GuardInv'
<1> DEFINE h == heap[o]
           unblocked == [h EXCEPT !.level = 0]
           aged == [h EXCEPT !.old = TRUE]
<1>1. /\ fails' = fails /\ blocks' = blocks /\ table' = table /\ inflight' = inflight
      /\ tried' = tried /\ owed' = owed /\ down' = down
  BY DEF LocalBlockEnds, Age, redis
<1>2. heap \in [Objects -> Entry] /\ h \in Entry
  BY DEF GuardInv, ShapeOK, HeapOK
<1>3. 0 \in 0 .. MaxLevel
  BY GuardAssumption
<1>4. /\ unblocked \in Entry /\ unblocked.count = h.count
      /\ aged \in Entry /\ aged.count = h.count
  BY <1>2, <1>3 DEF Entry
<1>5. PICK e \in {unblocked, aged} : heap' = [heap EXCEPT ![o] = e]
  BY DEF LocalBlockEnds, Age
<1>6. e \in Entry /\ e.count = heap[o].count
  BY <1>4, <1>5
<1> HIDE DEF h, unblocked, aged
<1>7. HeapOK' /\ \A x \in Objects : heap'[x].count = heap[x].count
  BY <1>2, <1>5, <1>6 DEF HeapOK
<1>8. blocks' \in [LoginKeys -> 0 .. MaxLevel] /\ down' \in BOOLEAN
  BY <1>1 DEF GuardInv, ShapeOK
<1> QED
  BY <1>1, <1>7, <1>8, TimeKeeps

\* A step of Redis and of a request with nothing in hand.
LEMMA StepOfRedis ==
  ASSUME GuardInv, NEW one, NEW lost \in [LoginKeys -> Nat], NEW settled,
         Recorded("redis", one, lost, settled)
  PROVE  /\ OwedOK' /\ \A k \in LoginKeys : owed'["local"][k] = owed["local"][k]
         /\ \A k \in LoginKeys :
              owed'["redis"][k] = NowOwed(owed["redis"][k], k, one, lost[k], settled)
<1> DEFINE l == "redis"
<1>1. l \in Stores /\ Recorded(l, one, lost, settled) /\ OwedOK
  BY DEF Stores, GuardInv, ShapeOK
<1>2. "local" \in Stores /\ "local" # l
  BY DEF Stores
<1> HIDE DEF l
<1>3. /\ OwedOK' /\ \A s \in Stores : s # l => owed'[s] = owed[s]
      /\ \A k \in LoginKeys : owed'[l][k] = NowOwed(owed[l][k], k, one, lost[k], settled)
  BY <1>1, StepOfOwed
<1>4. \A k \in LoginKeys : owed'["local"][k] = owed["local"][k]
  BY <1>2, <1>3
<1> QED
  BY <1>3, <1>4 DEF l

\* What is owed of a key in Redis then.
LEMMA OwedInRedis ==
  ASSUME GuardInv, NEW k \in LoginKeys, NEW one, NEW lost \in [LoginKeys -> Nat], NEW settled,
         owed'["redis"][k] = NowOwed(owed["redis"][k], k, one, lost[k], settled)
  PROVE  /\ k \in settled => owed'["redis"][k] = 0
         /\ k \notin settled /\ k \in one =>
              owed'["redis"][k] = OneMore(owed["redis"][k], lost[k])
         /\ k \notin settled /\ k \notin one =>
              owed'["redis"][k] = SomeLess(owed["redis"][k], lost[k])
<1>1. owed["redis"][k] \in Nat /\ lost[k] \in Nat
  BY DEF OwedOK, Stores, GuardInv, ShapeOK
<1> QED
  BY <1>1, NowOwedIs

LEMMA NoneIsLost ==
  /\ NoneLost \in [LoginKeys -> Nat] /\ \A k \in LoginKeys : NoneLost[k] = 0
  /\ \A K : /\ BlockLost(K) \in [LoginKeys -> Nat]
            /\ \A k \in LoginKeys : /\ k \in K => BlockLost(K)[k] = Threshold
                                    /\ k \notin K => BlockLost(K)[k] = 0
BY GuardAssumption DEF NoneLost, BlockLost

\* What is owed in Redis for a key that is not counted stays or is settled.
LEMMA NothingMoreOwed ==
  ASSUME GuardInv, NEW k \in LoginKeys
  PROVE  /\ SomeLess(owed["redis"][k], 0) = owed["redis"][k]
         /\ OneMore(owed["redis"][k], 0) = owed["redis"][k] + 1
<1>1. owed["redis"][k] \in Nat
  BY DEF GuardInv, ShapeOK, OwedOK, Stores
<1> QED
  BY <1>1, OwedBounds

LEMMA ForgetKeeps ==
  ASSUME GuardInv, NEW k \in LoginKeys, Forget(k)
  PROVE  GuardInv'
<1> DEFINE r == inflight
<1> HIDE DEF r
<1>1. /\ fails' = [fails EXCEPT ![k] = 0] /\ blocks' = blocks /\ down' = down /\ table' = table
      /\ heap' = heap /\ inflight' = inflight /\ tried' = tried
      /\ Recorded("redis", {}, NoneLost, {k})
  BY DEF Forget, local
<1>2. /\ OneMoves(r) /\ OwesNoMore(r) /\ CountsNoMore(r) /\ StillBlocks(r)
      /\ \A j : Live(j)' = Live(j)
  BY <1>1, NoRequestMoves
<1>3. /\ OwedOK' /\ \A j \in LoginKeys : owed'["local"][j] = owed["local"][j]
      /\ owed'["redis"][k] = 0
      /\ \A j \in LoginKeys : j # k =>
           owed'["redis"][j] = SomeLess(owed["redis"][j], NoneLost[j])
  <2>1. OwedOK' /\ \A j \in LoginKeys : owed'["local"][j] = owed["local"][j]
    BY <1>1, NoneIsLost, StepOfRedis
  <2>2. \A j \in LoginKeys :
           owed'["redis"][j] = NowOwed(owed["redis"][j], j, {}, NoneLost[j], {k})
    BY <1>1, NoneIsLost, StepOfRedis
  <2>3. \A j \in LoginKeys :
           /\ j \in {k} => owed'["redis"][j] = 0
           /\ j \notin {k} /\ j \notin {} =>
                owed'["redis"][j] = SomeLess(owed["redis"][j], NoneLost[j])
    BY <2>2, NoneIsLost, OwedInRedis
  <2> QED
    BY <2>1, <2>3
<1>4. /\ FailsOK' /\ fails'[k] = 0 /\ \A j \in LoginKeys \ {k} : fails'[j] = fails[j]
  BY <1>1 DEF GuardInv, ShapeOK, FailsOK
<1>5. RequestsOK'
  BY <1>2, RequestsStaySound DEF GuardInv, ShapeOK
<1>6. RedisRecord(k)'
  BY <1>3, <1>4, <1>5, SettledKeepsRecord
<1>7. ASSUME NEW j \in LoginKeys, j # k
      PROVE  RedisRecord(j)'
  <2>1. owed'["redis"][j] = owed["redis"][j]
    BY <1>3, <1>7, NoneIsLost, NothingMoreOwed
  <2> QED
    BY <1>2, <1>4, <1>7, <2>1, QuietKeepsRecord DEF GuardInv, ShapeOK, OneMoves, StillBlocks
<1>8. HeapOK'
  BY <1>1 DEF GuardInv, ShapeOK, HeapOK
<1>9. /\ TableOK' /\ Apart' /\ \A j \in LoginKeys : QuietLive(j) /\ LocalRecord(j)'
  BY <1>1, <1>2, <1>3, <1>8, IdleStep DEF GuardInv, ShapeOK
<1>10. blocks' \in [LoginKeys -> 0 .. MaxLevel] /\ down' \in BOOLEAN
  BY <1>1 DEF GuardInv, ShapeOK
<1> QED
  BY <1>1, <1>2, <1>3, <1>4, <1>6, <1>7, <1>8, <1>9, <1>10, QuietStep

-----------------------------------------------------------------------------
(* The steps that count a failure in Redis, block for it or clear it.      *)

\* A step of Redis that counts no failure.
LEMMA RedisMoves ==
  ASSUME GuardInv, NEW r, OneMoves(r), OwesNoMore(r), CountsNoMore(r), EmptyHanded(r),
         table' = table, heap' = heap, tried' = tried, OwedOK', FailsOK',
         \A k \in LoginKeys : owed'["local"][k] = owed["local"][k],
         \A k \in LoginKeys : fails'[k] = fails[k] \/ fails'[k] = 0,
         \A k \in LoginKeys : RedisRecord(k)',
         blocks' \in [LoginKeys -> 0 .. MaxLevel], down' \in BOOLEAN
  PROVE  GuardInv'
<1>1. /\ TableOK' /\ HeapOK' /\ Apart'
      /\ \A k \in LoginKeys : QuietLive(k) /\ LocalRecord(k)'
  BY RequestIdles DEF GuardInv, ShapeOK, OneMoves
<1> QED
  BY <1>1, QuietStep

LEMMA WrongPasswordKeeps ==
  ASSUME GuardInv, NEW r, WrongPassword(r)
  PROVE  GuardInv'
<1> DEFINE c == inflight[r].counts
<1>1. /\ Serving(r, "verify") /\ Goto(r, "count") /\ tried < MaxTries /\ tried' = tried + 1
      /\ fails' = fails /\ blocks' = blocks /\ down' = down /\ table' = table /\ heap' = heap
      /\ owed' = owed
  BY DEF WrongPassword, redis, local
<1>2. "verify" \in EmptyPlaces /\ "count" \in EmptyPlaces /\ RequestsOK
  BY DEF EmptyPlaces, GuardInv, ShapeOK
<1>3. inflight[r] \in Login /\ inflight[r].at = "verify"
  BY <1>1, <1>2, EmptyPlaceHasNone
<1>4. c \in [LoginKeys -> 0 .. MaxTries]
  BY <1>3 DEF Login
<1>5. OneMoves(r) /\ EmptyHanded(r)
  BY <1>1, <1>2, <1>4, MovesEmpty
<1>6. StillBlocks(r)
  BY <1>3, OnItsWay DEF StillBlocks
<1>7. FailsOK' /\ \A k \in LoginKeys : RedisRecord(k)'
  BY <1>1, <1>5, <1>6, RedisQuiet
<1>8. /\ TableOK' /\ HeapOK' /\ Apart'
      /\ \A k \in LoginKeys : QuietLive(k) /\ LocalRecord(k)'
  BY <1>1, <1>5, RequestIdles DEF GuardInv, ShapeOK, OneMoves
<1>9. \A k \in LoginKeys : TallyOf(k)'
  BY <1>1, <1>2, <1>5, <1>8, InvCounts, FailureKeepsTally DEF GuardInv, OneMoves
<1>10. tried' \in 0 .. MaxTries /\ blocks' \in [LoginKeys -> 0 .. MaxLevel] /\ down' \in BOOLEAN
  <2>1. tried \in 0 .. MaxTries /\ MaxTries \in Nat
    BY GuardAssumption DEF GuardInv, ShapeOK
  <2>2. tried' \in 0 .. MaxTries
    BY <1>1, <2>1
  <2> QED
    BY <1>1, <2>2 DEF GuardInv, ShapeOK
<1>11. OwedOK' /\ RequestsOK'
  BY <1>1, <1>2, <1>5, RequestsStaySound DEF GuardInv, ShapeOK, OwedOK
<1> QED
  BY <1>7, <1>8, <1>9, <1>10, <1>11 DEF GuardInv, ShapeOK

\* A request that is to count leaves room for it.
LEMMA RoomToCount ==
  ASSUME GuardInv, NEW k \in LoginKeys, NEW r \in Counting(k)
  PROVE  fails[k] \in Nat /\ fails[k] + 1 \in 0 .. MaxTries
<1>1. IsFiniteSet(Counting(k)) /\ Cardinality(Counting(k)) \in Nat
  BY SetsAreFinite DEF GuardInv, ShapeOK
<1>2. Cardinality(Counting(k)) # 0
  BY <1>1, FS_EmptySet
<1>3. fails[k] + Cardinality(Counting(k)) <= tried
  BY DEF GuardInv, TallyOf
<1>4. fails[k] \in Nat /\ tried \in 0 .. MaxTries /\ MaxTries \in Nat
  BY GuardAssumption DEF GuardInv, ShapeOK, FailsOK
<1> QED
  BY <1>1, <1>2, <1>3, <1>4

LEMMA LevelIsSound ==
  ASSUME NEW n \in Nat
  PROVE  Level(n) \in 0 .. MaxLevel
<1>1. n \div Threshold \in Nat /\ MaxLevel \in Nat
  BY Division, GuardAssumption
<1> QED
  BY <1>1 DEF Level

LEMMA BlockedIsSound ==
  ASSUME GuardInv, NEW r \in DOMAIN inflight
  PROVE  Blocked(r) \in [LoginKeys -> 0 .. MaxLevel]
<1>1. \A k \in LoginKeys : inflight[r].counts[k] \in Nat
  BY GuardAssumption DEF GuardInv, ShapeOK, RequestsOK, Login
<1>2. \A k \in LoginKeys : Level(inflight[r].counts[k]) \in 0 .. MaxLevel
  BY <1>1, LevelIsSound
<1> QED
  BY <1>2 DEF Blocked, GuardInv, ShapeOK

LEMMA KeysOfAreKeys ==
  ASSUME GuardInv, NEW r \in DOMAIN inflight
  PROVE  KeysOf(r) \subseteq LoginKeys /\ KeysOf(r) = Range(inflight[r].keys)
<1>1. inflight[r] \in Login /\ SoundLogin(inflight[r])
  BY DEF GuardInv, ShapeOK, RequestsOK
<1> QED
  BY <1>1, KeysOfALogin DEF KeysOf

\* The records when the failures of the keys of r are counted.
LEMMA CountedOnce ==
  ASSUME GuardInv, NEW r, r \in DOMAIN inflight, inflight[r].at = "count",
         fails' = Incremented(r)
  PROVE  /\ FailsOK' /\ \A k \in LoginKeys : r \notin Blocking(k)
         /\ \A k \in LoginKeys : /\ k \in KeysOf(r) => fails'[k] = fails[k] + 1 /\ r \in Counting(k)
                                 /\ k \notin KeysOf(r) => fails'[k] = fails[k]
<1>1. fails \in [LoginKeys -> Nat]
  BY DEF GuardInv, ShapeOK, FailsOK
<1>2. \A k \in LoginKeys : fails[k] \in Nat /\ fails[k] + 1 \in Nat
  BY <1>1
<1>3. FailsOK'
  BY <1>2 DEF FailsOK, Incremented
<1>4. \A k \in LoginKeys : /\ k \in KeysOf(r) => fails'[k] = fails[k] + 1
                           /\ k \notin KeysOf(r) => fails'[k] = fails[k]
  BY DEF Incremented
<1>5. \A k \in LoginKeys : r \notin Blocking(k) /\ (k \in KeysOf(r) => r \in Counting(k))
  BY OnItsWay DEF KeysOf
<1> QED
  BY <1>3, <1>4, <1>5

\* A step of Redis that counts for r.
LEMMA RedisCounts ==
  ASSUME GuardInv, NEW r, r \in DOMAIN inflight, inflight[r].at = "count",
         fails' = Incremented(r), OneMoves(r), OwesNoMore(r), EmptyHanded(r),
         \A k : r \notin Counting(k)',
         table' = table, heap' = heap, tried' = tried, blocks' = blocks, OwedOK',
         \A k \in LoginKeys : owed'["local"][k] = owed["local"][k],
         \A k \in LoginKeys : RedisRecord(k)', down' \in BOOLEAN
  PROVE  GuardInv'
<1>1. /\ TableOK' /\ HeapOK' /\ Apart'
      /\ \A k \in LoginKeys : QuietLive(k) /\ LocalRecord(k)'
  BY RequestIdles DEF GuardInv, ShapeOK, OneMoves
<1>2. RequestsOK'
  BY RequestsStaySound DEF GuardInv, ShapeOK
<1>3. /\ FailsOK'
      /\ \A k \in LoginKeys : /\ k \in KeysOf(r) => fails'[k] = fails[k] + 1 /\ r \in Counting(k)
                              /\ k \notin KeysOf(r) => fails'[k] = fails[k]
  BY CountedOnce
<1>4. ShapeOK'
  BY <1>1, <1>2, <1>3 DEF GuardInv, ShapeOK
<1>5. ASSUME NEW k \in LoginKeys
      PROVE  TallyOf(k)'
  <2>1. /\ RequestsOK /\ CountsOK /\ TallyOf(k) /\ OthersStay(r) /\ QuietLive(k)
        /\ r \in Owing(k)' => r \in Owing(k)
    BY <1>1, InvCounts DEF GuardInv, ShapeOK, OneMoves, OwesNoMore
  <2>2. CASE k \in KeysOf(r)
    BY <1>3, <2>1, <2>2, CountKeepsTally
  <2>3. CASE k \notin KeysOf(r)
    BY <1>3, <2>1, <2>3, QuietKeepsTally
  <2> QED
    BY <2>2, <2>3
<1> QED
  BY <1>1, <1>4, <1>5 DEF GuardInv

\* What blocks the request is to make after it counted.
LEMMA CountInRedisMoves ==
  ASSUME GuardInv, NEW r, CountInRedis(r)
  PROVE  /\ OneMoves(r) /\ EmptyHanded(r) /\ OwesNoMore(r)
         /\ \A k : r \notin Counting(k)'
         /\ \A k \in LoginKeys : r \in Blocking(k)' <=> k \in HitNow(r)
<1> DEFINE c == [k \in LoginKeys |-> IF k \in KeysOf(r) THEN fails'[k] ELSE 0]
           q == inflight[r]
<1>1. /\ Serving(r, "count") /\ fails' = Incremented(r)
      /\ \/ HitNow(r) = {} /\ Done(r)
         \/ inflight' = [inflight EXCEPT ![r].at = "block", ![r].counts = c]
  BY DEF CountInRedis
<1>2. "count" \in EmptyPlaces /\ "block" \in EmptyPlaces /\ RequestsOK
  BY DEF EmptyPlaces, GuardInv, ShapeOK
<1>3. r \in DOMAIN inflight /\ q \in Login /\ q.at = "count" /\ SoundLogin(q)
  BY <1>1, <1>2, EmptyPlaceHasNone
<1>4. /\ KeysOf(r) \subseteq LoginKeys /\ KeysOf(r) = Range(q.keys)
      /\ \A k \in LoginKeys : /\ k \in KeysOf(r) => fails'[k] = fails[k] + 1 /\ r \in Counting(k)
  BY <1>1, <1>3, CountedOnce, KeysOfAreKeys
<1>5. c \in [LoginKeys -> 0 .. MaxTries]
  <2>1. ASSUME NEW k \in LoginKeys, k \in KeysOf(r) PROVE fails'[k] \in 0 .. MaxTries
    BY <1>4, <2>1, RoomToCount
  <2> QED
    BY <2>1, GuardAssumption
<1>6. CASE HitNow(r) = {} /\ Done(r)
  <2>1. OneMoves(r) /\ EmptyHanded(r) /\ r \notin DOMAIN inflight'
    BY <1>1, <1>2, <1>6, LeavesEmpty
  <2> QED
    BY <1>6, <2>1, GoneOwesNothing DEF OwesNoMore
<1>7. CASE inflight' = [inflight EXCEPT ![r].at = "block", ![r].counts = c]
  <2>1. \A k \in LoginKeys : k \in KeysOf(r) => c[k] = fails[k] + 1
    BY <1>4
  <2> HIDE DEF c
  <2>2. OneMoves(r) /\ EmptyHanded(r) /\ StaysItself(r) /\ inflight'[r].at = "block" /\ inflight'[r].counts = c
    BY <1>1, <1>2, <1>5, <1>7, MovesEmpty
  <2>3. OwesNoMore(r)
    BY <1>3, <2>2, OnItsWay DEF OwesNoMore, Owes, StaysItself
  <2>4. \A k : r \notin Counting(k)'
    BY <2>2, OnItsWay
  <2>5. \A k \in LoginKeys : r \in Blocking(k)' <=> k \in HitNow(r)
    <3> TAKE k \in LoginKeys
    <3>1. r \in Blocking(k)' <=> k \in KeysOf(r) /\ Hits(c[k])
      BY <1>4, <2>2, OnItsWay DEF StaysItself
    <3>2. k \in HitNow(r) <=> k \in KeysOf(r) /\ Hits(fails[k] + 1)
      BY DEF HitNow
    <3>3. k \in KeysOf(r) => c[k] = fails[k] + 1
      BY <2>1
    <3> QED
      BY <3>1, <3>2, <3>3
  <2> QED
    BY <2>2, <2>3, <2>4, <2>5
<1> QED
  BY <1>1, <1>6, <1>7

LEMMA CountInRedisKeeps ==
  ASSUME GuardInv, NEW r, CountInRedis(r)
  PROVE  GuardInv'
<1>1. /\ Serving(r, "count") /\ fails' = Incremented(r) /\ blocks' = blocks /\ down' = down
      /\ table' = table /\ heap' = heap /\ tried' = tried
      /\ Recorded("redis", KeysOf(r), NoneLost, {})
  BY DEF CountInRedis, local
<1>2. "count" \in EmptyPlaces /\ RequestsOK
  BY DEF EmptyPlaces, GuardInv, ShapeOK
<1>3. r \in DOMAIN inflight /\ inflight[r].at = "count"
  BY <1>1, <1>2, EmptyPlaceHasNone
<1>4. /\ OneMoves(r) /\ EmptyHanded(r) /\ OwesNoMore(r)
      /\ \A k : r \notin Counting(k)'
      /\ \A k \in LoginKeys : r \in Blocking(k)' <=> k \in HitNow(r)
  BY CountInRedisMoves
<1>5. \A k \in LoginKeys : /\ r \notin Blocking(k)
                           /\ k \in KeysOf(r) => fails'[k] = fails[k] + 1
                           /\ k \notin KeysOf(r) => fails'[k] = fails[k]
  BY <1>1, <1>3, CountedOnce
<1>6. OwedOK' /\ \A k \in LoginKeys : owed'["local"][k] = owed["local"][k]
  BY <1>1, NoneIsLost, StepOfRedis
<1>7. \A k \in LoginKeys :
        owed'["redis"][k] = NowOwed(owed["redis"][k], k, KeysOf(r), NoneLost[k], {})
  BY <1>1, NoneIsLost, StepOfRedis
<1>8. ASSUME NEW k \in LoginKeys
      PROVE  RedisRecord(k)'
  <2>1. /\ k \notin {} /\ k \in KeysOf(r) =>
             owed'["redis"][k] = OneMore(owed["redis"][k], NoneLost[k])
        /\ k \notin {} /\ k \notin KeysOf(r) =>
             owed'["redis"][k] = SomeLess(owed["redis"][k], NoneLost[k])
    BY <1>7, NoneIsLost, OwedInRedis
  <2>2. RequestsOK /\ OwedOK /\ FailsOK /\ RedisRecord(k) /\ OthersStay(r) /\ NoneLost[k] = 0
    BY <1>4, NoneIsLost DEF GuardInv, ShapeOK, OneMoves
  <2>3. CASE k \in KeysOf(r)
    <3>1. owed'["redis"][k] = owed["redis"][k] + 1
      BY <2>1, <2>2, <2>3, NothingMoreOwed
    <3>2. r \in Blocking(k)' <=> Hits(fails[k] + 1)
      BY <1>4, <2>3 DEF HitNow
    <3> QED
      BY <1>5, <2>2, <2>3, <3>1, <3>2, CountKeepsRecord
  <2>4. CASE k \notin KeysOf(r)
    <3>1. owed'["redis"][k] = owed["redis"][k]
      BY <2>1, <2>2, <2>4, NothingMoreOwed
    <3> QED
      BY <1>5, <2>2, <2>4, <3>1, QuietKeepsRecord
  <2> QED
    BY <2>3, <2>4
<1>9. down' \in BOOLEAN
  BY <1>1 DEF GuardInv, ShapeOK
<1> QED
  BY <1>1, <1>3, <1>4, <1>6, <1>8, <1>9, RedisCounts

LEMMA CountFailsKeeps ==
  ASSUME GuardInv, NEW r, CountFails(r)
  PROVE  GuardInv'
<1>1. /\ Serving(r, "count") /\ ToLocal(r) /\ down' \in BOOLEAN /\ blocks' = blocks
      /\ table' = table /\ heap' = heap /\ tried' = tried
  BY DEF CountFails, local
<1>2. "count" \in EmptyPlaces /\ RequestsOK
  BY DEF EmptyPlaces, GuardInv, ShapeOK
<1>3. r \in DOMAIN inflight /\ inflight[r].at = "count"
  BY <1>1, <1>2, EmptyPlaceHasNone
<1>4. /\ OneMoves(r) /\ EmptyHanded(r) /\ OwesNoMore(r)
      /\ \A k : r \notin Counting(k)' /\ r \notin Blocking(k)'
  BY <1>1, <1>2, MovesToTheTable
<1>5. CASE UNCHANGED <<fails, owed>>
  <2>1. UNCHANGED <<redis, local, tried, owed>>
    BY <1>1, <1>5 DEF redis, local
  <2>2. CountsNoMore(r)
    BY <1>4 DEF CountsNoMore
  <2>3. StillBlocks(r)
    BY <1>3, OnItsWay DEF StillBlocks
  <2> QED
    BY <1>1, <1>4, <2>1, <2>2, <2>3, OnlyTheRequestMoves
<1>6. CASE fails' = Incremented(r) /\ Recorded("redis", KeysOf(r), BlockLost(HitNow(r)), {})
  <2> DEFINE lost == BlockLost(HitNow(r))
  <2>1. /\ lost \in [LoginKeys -> Nat] /\ Recorded("redis", KeysOf(r), lost, {})
        /\ \A k \in LoginKeys : /\ k \in HitNow(r) => lost[k] = Threshold
                                /\ k \notin HitNow(r) => lost[k] = 0
    BY <1>6, NoneIsLost
  <2> HIDE DEF lost
  <2>2. OwedOK' /\ \A k \in LoginKeys : owed'["local"][k] = owed["local"][k]
    BY <2>1, StepOfRedis
  <2>3. \A k \in LoginKeys :
          owed'["redis"][k] = NowOwed(owed["redis"][k], k, KeysOf(r), lost[k], {})
    BY <2>1, StepOfRedis
  <2>4. \A k \in LoginKeys : /\ r \notin Blocking(k)
                             /\ k \in KeysOf(r) => fails'[k] = fails[k] + 1
                             /\ k \notin KeysOf(r) => fails'[k] = fails[k]
    BY <1>3, <1>6, CountedOnce
  <2>5. ASSUME NEW k \in LoginKeys
        PROVE  RedisRecord(k)'
    <3>1. /\ k \notin {} /\ k \in KeysOf(r) =>
               owed'["redis"][k] = OneMore(owed["redis"][k], lost[k])
          /\ k \notin {} /\ k \notin KeysOf(r) =>
               owed'["redis"][k] = SomeLess(owed["redis"][k], lost[k])
      BY <2>1, <2>3, OwedInRedis
    <3>2. RequestsOK /\ OwedOK /\ FailsOK /\ RedisRecord(k) /\ OthersStay(r)
      BY <1>4 DEF GuardInv, ShapeOK, OneMoves
    <3>3. k \in HitNow(r) <=> k \in KeysOf(r) /\ Hits(fails[k] + 1)
      BY DEF HitNow
    <3>4. CASE k \in KeysOf(r) /\ Hits(fails[k] + 1)
      <4>1. owed'["redis"][k] = OneMore(owed["redis"][k], Threshold)
        BY <2>1, <3>1, <3>3, <3>4
      <4> QED
        BY <2>4, <3>2, <3>4, <4>1, LostCountKeepsRecord
    <3>5. CASE k \in KeysOf(r) /\ ~Hits(fails[k] + 1)
      <4>1. owed'["redis"][k] = owed["redis"][k] + 1
        BY <2>1, <3>1, <3>3, <3>5, NothingMoreOwed
      <4>2. r \in Blocking(k)' <=> Hits(fails[k] + 1)
        BY <1>4, <3>5
      <4> QED
        BY <2>4, <3>2, <3>5, <4>1, <4>2, CountKeepsRecord
    <3>6. CASE k \notin KeysOf(r)
      <4>1. owed'["redis"][k] = owed["redis"][k]
        BY <2>1, <3>1, <3>3, <3>6, NothingMoreOwed
      <4> QED
        BY <2>4, <3>2, <3>6, <4>1, QuietKeepsRecord
    <3> QED
      BY <3>4, <3>5, <3>6
  <2> QED
    BY <1>1, <1>3, <1>4, <1>6, <2>2, <2>5, RedisCounts
<1> QED
  BY <1>5, <1>6 DEF CountFails

LEMMA BlocksOff ==
  ASSUME GuardInv, NEW r, Serving(r, "block")
  PROVE  /\ r \in DOMAIN inflight /\ inflight[r].at = "block"
         /\ \A k : r \in Blocking(k) <=> k \in Hit(r)
<1>1. r \in DOMAIN inflight /\ inflight[r].at = "block"
  BY DEF Serving
<1>2. \A k : r \in Blocking(k) <=> k \in Hit(r)
  BY <1>1 DEF Blocking
<1> QED
  BY <1>1, <1>2

\* The blocks are made, or lost, and the request goes on.
LEMMA BlockStepKeeps ==
  ASSUME GuardInv, NEW r, Serving(r, "block"), OneMoves(r), EmptyHanded(r), OwesNoMore(r),
         \A k : r \notin Counting(k)' /\ r \notin Blocking(k)',
         fails' = fails, table' = table, heap' = heap, tried' = tried, down' \in BOOLEAN,
         \/ blocks' = Blocked(r) /\ Recorded("redis", {}, NoneLost, Hit(r))
         \/ blocks' = blocks /\ Recorded("redis", {}, BlockLost(Hit(r)), {})
  PROVE  GuardInv'
<1>1. /\ r \in DOMAIN inflight /\ inflight[r].at = "block"
      /\ \A k : r \in Blocking(k) <=> k \in Hit(r)
  BY BlocksOff
<1>2. blocks' \in [LoginKeys -> 0 .. MaxLevel]
  BY <1>1, BlockedIsSound DEF GuardInv, ShapeOK
<1>3. FailsOK' /\ RequestsOK'
  BY RequestsStaySound DEF GuardInv, ShapeOK, FailsOK
<1>4. \A k \in LoginKeys :
        RequestsOK /\ OwedOK /\ FailsOK /\ RedisRecord(k) /\ OthersStay(r)
  BY DEF GuardInv, ShapeOK, OneMoves
<1>5. PICK lost, settled : /\ lost \in [LoginKeys -> Nat] /\ Recorded("redis", {}, lost, settled)
                           /\ \/ lost = NoneLost /\ settled = Hit(r)
                              \/ lost = BlockLost(Hit(r)) /\ settled = {}
  BY NoneIsLost
<1>6. OwedOK' /\ \A k \in LoginKeys : owed'["local"][k] = owed["local"][k]
  BY <1>5, StepOfRedis
<1>7. \A k \in LoginKeys :
        owed'["redis"][k] = NowOwed(owed["redis"][k], k, {}, lost[k], settled)
  BY <1>5, StepOfRedis
<1>8. ASSUME NEW k \in LoginKeys
      PROVE  RedisRecord(k)'
  <2>1. /\ k \in settled => owed'["redis"][k] = 0
        /\ k \notin settled /\ k \notin {} =>
               owed'["redis"][k] = SomeLess(owed["redis"][k], lost[k])
    BY <1>5, <1>7, OwedInRedis
  <2>2. CASE k \in settled
    BY <1>3, <1>6, <2>1, <2>2, SettledKeepsRecord
  <2>3. CASE k \notin settled /\ k \in Hit(r)
    <3>1. lost[k] = Threshold
      BY <1>5, <2>3, NoneIsLost
    <3>2. owed'["redis"][k] = SomeLess(owed["redis"][k], Threshold)
      BY <2>1, <2>3, <3>1
    <3> QED
      BY <1>1, <1>4, <2>3, <3>2, LostBlockKeepsRecord
  <2>4. CASE k \notin settled /\ k \notin Hit(r)
    <3>1. lost[k] = 0
      BY <1>5, <2>4, NoneIsLost
    <3>2. owed'["redis"][k] = owed["redis"][k]
      BY <2>1, <2>4, <3>1, NothingMoreOwed
    <3> QED
      BY <1>1, <1>4, <2>4, <3>2, QuietKeepsRecord
  <2> QED
    BY <2>2, <2>3, <2>4
<1>9. CountsNoMore(r)
  BY DEF CountsNoMore
<1> QED
  BY <1>2, <1>3, <1>6, <1>8, <1>9, RedisMoves

LEMMA BlockInRedisKeeps ==
  ASSUME GuardInv, NEW r, BlockInRedis(r)
  PROVE  GuardInv'
<1>1. /\ Serving(r, "block") /\ blocks' = Blocked(r) /\ Done(r) /\ fails' = fails
      /\ table' = table /\ heap' = heap /\ tried' = tried /\ down' \in BOOLEAN
      /\ Recorded("redis", {}, NoneLost, Hit(r))
  BY DEF BlockInRedis, local, GuardInv, ShapeOK
<1>2. "block" \in EmptyPlaces /\ RequestsOK
  BY DEF EmptyPlaces, GuardInv, ShapeOK
<1>3. OneMoves(r) /\ EmptyHanded(r) /\ r \notin DOMAIN inflight'
  BY <1>1, <1>2, LeavesEmpty
<1>4. OwesNoMore(r) /\ \A k : r \notin Counting(k)' /\ r \notin Blocking(k)'
  BY <1>3, GoneOwesNothing DEF OwesNoMore
<1> QED
  BY <1>1, <1>3, <1>4, BlockStepKeeps

LEMMA BlockFailsKeeps ==
  ASSUME GuardInv, NEW r, BlockFails(r)
  PROVE  GuardInv'
<1>1. /\ Serving(r, "block") /\ ToLocal(r) /\ fails' = fails
      /\ table' = table /\ heap' = heap /\ tried' = tried /\ down' \in BOOLEAN
      /\ \/ blocks' = Blocked(r) /\ Recorded("redis", {}, NoneLost, Hit(r))
         \/ blocks' = blocks /\ Recorded("redis", {}, BlockLost(Hit(r)), {})
  BY DEF BlockFails, local
<1>2. RequestsOK
  BY DEF GuardInv, ShapeOK
<1>3. /\ OneMoves(r) /\ EmptyHanded(r) /\ OwesNoMore(r)
      /\ \A k : r \notin Counting(k)' /\ r \notin Blocking(k)'
  BY <1>1, <1>2, MovesToTheTable
<1> QED
  BY <1>1, <1>3, BlockStepKeeps

LEMMA ClearInRedisKeeps ==
  ASSUME GuardInv, NEW r, ClearInRedis(r)
  PROVE  GuardInv'
<1> DEFINE K == KeysOf(r)
<1>1. /\ Serving(r, "clear") /\ Goto(r, "pop") /\ fails' = Cleared(fails, r)
      /\ blocks' = Cleared(blocks, r) /\ down' \in BOOLEAN
      /\ table' = table /\ heap' = heap /\ tried' = tried
      /\ Recorded("redis", {}, NoneLost, K)
  BY DEF ClearInRedis, local
<1>2. RequestsOK
  BY DEF GuardInv, ShapeOK
<1>3. OneMoves(r) /\ OwesNoMore(r) /\ CountsNoMore(r) /\ StillBlocks(r) /\ EmptyHanded(r)
  BY <1>1, <1>2, MovesWithoutAFailure
<1>4. \A k \in LoginKeys : /\ k \in K => fails'[k] = 0
                           /\ k \notin K => fails'[k] = fails[k]
  BY <1>1 DEF Cleared
<1>5. FailsOK' /\ blocks' \in [LoginKeys -> 0 .. MaxLevel]
  BY <1>1, GuardAssumption DEF Cleared, GuardInv, ShapeOK, FailsOK
<1>6. RequestsOK'
  BY <1>2, <1>3, RequestsStaySound
<1> HIDE DEF K
<1>7. OwedOK' /\ \A k \in LoginKeys : owed'["local"][k] = owed["local"][k]
  BY <1>1, NoneIsLost, StepOfRedis
<1>8. \A k \in LoginKeys :
        owed'["redis"][k] = NowOwed(owed["redis"][k], k, {}, NoneLost[k], K)
  BY <1>1, NoneIsLost, StepOfRedis
<1>9. ASSUME NEW k \in LoginKeys
      PROVE  RedisRecord(k)'
  <2>1. /\ k \in K => owed'["redis"][k] = 0
        /\ k \notin K /\ k \notin {} =>
               owed'["redis"][k] = SomeLess(owed["redis"][k], NoneLost[k])
    BY <1>8, NoneIsLost, OwedInRedis
  <2>2. CASE k \in K
    BY <1>5, <1>6, <1>7, <2>1, <2>2, SettledKeepsRecord
  <2>3. CASE k \notin K
    <3>1. owed'["redis"][k] = owed["redis"][k]
      BY <2>1, <2>3, NoneIsLost, NothingMoreOwed
    <3> QED
      BY <1>3, <1>4, <2>3, <3>1, QuietKeepsRecord DEF GuardInv, ShapeOK, OneMoves, StillBlocks
  <2> QED
    BY <2>2, <2>3
<1> QED
  BY <1>1, <1>3, <1>4, <1>5, <1>7, <1>9, RedisMoves

-----------------------------------------------------------------------------
(* The step that counts a failure in an entry.                             *)

LEMMA OneComesAlive ==
  ASSUME NEW r, OthersStay(r), r \in DOMAIN inflight', NEW k, NEW id, id # NoObject,
         inflight'[r].keys[inflight'[r].turn] = k, inflight'[r].object = id,
         \A j : \A p \in Range(table') : p[1] = j => p[2] \in Live(j)
  PROVE  /\ id \in Live(k)' /\ Live(k)' \subseteq Live(k) \cup {id}
         /\ \A j : j # k => Live(j)' \subseteq Live(j)
<1>1. id \in Live(k)'
  BY LiveIsIn, LiveMembers
<1>2. ASSUME NEW j, NEW o \in Live(j)'
      PROVE  o \in Live(j) \/ (j = k /\ o = id)
  <2>1. \/ \E p \in Range(table') : p[1] = j /\ p[2] = o
        \/ o # NoObject /\ \E s \in DOMAIN inflight' :
             inflight'[s].keys[inflight'[s].turn] = j /\ inflight'[s].object = o
    BY <1>2, LiveIsIn, LiveMembers
  <2>2. CASE \E p \in Range(table') : p[1] = j /\ p[2] = o
    BY <2>2
  <2>3. ASSUME o # NoObject, NEW s \in DOMAIN inflight',
               inflight'[s].keys[inflight'[s].turn] = j, inflight'[s].object = o
        PROVE  o \in Live(j) \/ (j = k /\ o = id)
    <3>1. CASE s = r
      BY <2>3, <3>1
    <3>2. CASE s # r
      <4>1. s \in DOMAIN inflight /\ inflight'[s] = inflight[s]
        BY <3>2 DEF OthersStay
      <4> QED
        BY <2>3, <4>1, WhatIsLive
    <3> QED
      BY <3>1, <3>2
  <2> QED
    BY <2>1, <2>2, <2>3
<1>3. Live(k)' \subseteq Live(k) \cup {id}
  BY <1>2
<1>4. \A j : j # k => Live(j)' \subseteq Live(j)
  BY <1>2
<1> QED
  BY <1>1, <1>3, <1>4

LEMMA EntryLevels ==
  ASSUME NEW e \in Entry
  PROVE  e.count \in Nat /\ e.level \in 0 .. MaxLevel
BY GuardAssumption DEF Entry

\* The entry that counts: the one in hand, or a new one that nothing refers to.
LEMMA EntryThatCounts ==
  ASSUME GuardInv, NEW r, CountLocally(r)
  PROVE  \E id \in Objects, n \in Nat, l \in 0 .. MaxLevel :
           /\ \/ id \in Live(KeyOf(r)) /\ n = heap[id].count
              \/ n = 0 /\ \A j \in LoginKeys : id \notin Live(j)
           /\ inflight' = [inflight EXCEPT ![r].at = "insert", ![r].object = id]
           /\ LocalStep([heap EXCEPT ![id] = [count |-> n + 1, old |-> FALSE, level |-> l]],
                        {KeyOf(r)}, IF Hits(n + 1) THEN {KeyOf(r)} ELSE {})
<1> DEFINE k == KeyOf(r)
           o == inflight[r].object
           anew == o = NoObject \/ heap[o].old
           id == IF anew THEN CHOOSE x \in Unused : TRUE ELSE o
           was == IF anew THEN NewEntry ELSE heap[o]
           n == was.count
           l == IF Hits(n + 1) THEN Level(n + 1) ELSE was.level
<1>1. /\ r \in DOMAIN inflight /\ inflight[r] \in Login /\ SoundLogin(inflight[r])
      /\ inflight[r].at = "add"
  BY DEF CountLocally, Serving, GuardInv, ShapeOK, RequestsOK
<1>2. k \in LoginKeys /\ k = inflight[r].keys[inflight[r].turn]
  BY <1>1, KeysOfALogin DEF KeyOf
<1>3. /\ inflight' = [inflight EXCEPT ![r].at = "insert", ![r].object = id]
      /\ LocalStep([heap EXCEPT ![id] = [count |-> n + 1, old |-> FALSE, level |-> l]],
                   {k}, IF Hits(n + 1) THEN {k} ELSE {})
  BY DEF CountLocally
<1>4. /\ anew => Unused # {} /\ id = (CHOOSE x \in Unused : TRUE) /\ was = NewEntry
      /\ ~anew => o # NoObject /\ id = o /\ was = heap[o]
  BY DEF CountLocally
<1>5. n = was.count /\ (l = Level(n + 1) \/ l = was.level)
  OBVIOUS
<1> HIDE DEF anew, id, was, n, l, k
<1>6. ASSUME anew
      PROVE  was \in Entry /\ id \in Objects /\ n = 0 /\ \A j \in LoginKeys : id \notin Live(j)
  <2>1. id \in Unused
    BY <1>4, <1>6
  <2>2. id \in Objects /\ \A j \in LoginKeys : id \notin Live(j)
    BY <2>1 DEF Unused
  <2>3. n = 0 /\ was \in Entry
    BY <1>4, <1>5, <1>6, NewEntryIsSound
  <2> QED
    BY <2>2, <2>3
<1>7. ASSUME ~anew
      PROVE  was \in Entry /\ id \in Objects /\ id \in Live(k) /\ n = heap[id].count
  <2>1. o \in Live(k)
    BY <1>1, <1>2, <1>4, <1>7, WhatIsLive
  <2>2. o \in Objects
    BY <1>2, <2>1, LiveIsSound DEF GuardInv, ShapeOK
  <2>3. id \in Objects /\ id \in Live(k) /\ n = heap[id].count
    BY <1>4, <1>5, <1>7, <2>1, <2>2
  <2>4. was \in Entry
    BY <1>4, <1>7, <2>2 DEF GuardInv, ShapeOK, HeapOK
  <2> QED
    BY <2>3, <2>4
<1>8. n \in Nat /\ l \in 0 .. MaxLevel
  <2>1. n \in Nat /\ was.level \in 0 .. MaxLevel
    BY <1>5, <1>6, <1>7, EntryLevels
  <2>2. Level(n + 1) \in 0 .. MaxLevel
    BY <2>1, LevelIsSound
  <2> QED
    BY <1>5, <2>1, <2>2
<1>9. id \in Objects
  BY <1>6, <1>7
<1>10. \/ id \in Live(k) /\ n = heap[id].count
       \/ n = 0 /\ \A j \in LoginKeys : id \notin Live(j)
  BY <1>6, <1>7
<1> USE <1>8, <1>9
<1> WITNESS id \in Objects, n \in Nat, l \in 0 .. MaxLevel
<1> QED
  BY <1>3, <1>10 DEF k

LEMMA CountLocallyKeeps ==
  ASSUME GuardInv, NEW r, CountLocally(r)
  PROVE  GuardInv'
<1> DEFINE q == inflight[r]
<1>30. PICK k : k = KeyOf(r)
  OBVIOUS
<1>1. PICK id \in Objects, n \in Nat, l \in 0 .. MaxLevel :
           /\ \/ id \in Live(k) /\ n = heap[id].count
              \/ n = 0 /\ \A j \in LoginKeys : id \notin Live(j)
           /\ inflight' = [inflight EXCEPT ![r].at = "insert", ![r].object = id]
           /\ LocalStep([heap EXCEPT ![id] = [count |-> n + 1, old |-> FALSE, level |-> l]],
                        {k}, IF Hits(n + 1) THEN {k} ELSE {})
  BY <1>30, EntryThatCounts
<1>2. /\ r \in Logins /\ r \in DOMAIN inflight /\ q \in Login /\ q.at = "add" /\ SoundLogin(q)
  BY DEF CountLocally, Serving, GuardInv, ShapeOK, RequestsOK
<1>3. /\ k \in LoginKeys /\ k = q.keys[q.turn] /\ q.turn \in 1 .. 2 /\ q.keys[1] # q.keys[2]
  BY <1>2, <1>30, KeysOfALogin DEF KeyOf, Login
<1>4. /\ fails' = fails /\ blocks' = blocks /\ tried' = tried /\ down' \in BOOLEAN
      /\ table' = Others({k})
  BY <1>30 DEF CountLocally, redis, GuardInv, ShapeOK
<1> DEFINE p == [q EXCEPT !.at = "insert", !.object = id]
           e == [count |-> n + 1, old |-> FALSE, level |-> l]
           entries == [heap EXCEPT ![id] = e]
           settled == IF Hits(n + 1) THEN {k} ELSE {}
<1>5. /\ p \in Login /\ p.at = "insert" /\ p.object = id /\ p.keys = q.keys /\ p.turn = q.turn
  BY <1>2 DEF Login
<1>6. inflight' = [inflight EXCEPT ![r] = p]
  BY <1>1
<1>7. LocalStep(entries, {k}, settled)
  BY <1>1
<1> HIDE DEF p, entries, settled
<1>8. OthersStay(r) /\ r \in DOMAIN inflight' /\ inflight'[r] = p
  BY <1>2, <1>6, StepsOfOne
<1>9. id # NoObject
  BY GuardAssumption
<1>10. OneMoves(r)
  BY <1>2, <1>5, <1>8, <1>9 DEF OneMoves, SoundLogin
<1>11. RequestsOK' /\ RequestsOK /\ TableOK /\ OwedOK /\ HeapOK /\ Apart
  BY <1>10, RequestsStaySound DEF GuardInv, ShapeOK
<1>12. TableOK' /\ \A j : \A x \in Range(table') : x[1] = j => x[2] \in Live(j)
  BY <1>4, TableShrinks
<1>13. /\ id \in Live(k)' /\ Live(k)' \subseteq Live(k) \cup {id}
       /\ \A j : j # k => Live(j)' \subseteq Live(j)
  BY <1>3, <1>5, <1>8, <1>9, <1>12, OneComesAlive
<1>14. \A j \in LoginKeys : j # k => id \notin Live(j)
  BY <1>1, <1>3, <1>11 DEF Apart
<1>15. id \in Live(k) => n = heap[id].count
  BY <1>1, <1>3
<1>16. (n = 0 \/ (id \in Live(k) /\ n = heap[id].count))
  BY <1>1
\* What the request still has to count.
<1>17. r \in Owing(k) /\ r \notin Owing(k)' /\ OwesNoMore(r)
  <2>1. q.turn = 1 \/ q.turn = 2
    BY <1>3
  <2>2. \A j : r \in Owing(j) <=> \E i \in q.turn .. 2 : q.keys[i] = j
    BY <1>2, OnItsWay DEF Owes
  <2>3. \A j : r \in Owing(j)' <=> q.turn = 1 /\ q.keys[2] = j
    BY <1>5, <1>8, OnItsWay DEF Owes
  <2>4. q.turn \in q.turn .. 2 /\ (q.turn = 1 => 2 \in q.turn .. 2)
    BY <2>1
  <2>5. r \in Owing(k)
    BY <1>3, <2>2, <2>4
  <2>6. r \notin Owing(k)'
    BY <1>3, <2>1, <2>3
  <2>7. OwesNoMore(r)
    BY <2>2, <2>3, <2>4 DEF OwesNoMore
  <2> QED
    BY <2>5, <2>6, <2>7
<1>18. CountsNoMore(r) /\ StillBlocks(r)
  BY <1>2, <1>5, <1>8, OnItsWay DEF CountsNoMore, StillBlocks
\* The count of the entry stays within what was tried.
<1>19. e \in Entry /\ e.count = n + 1
  <2>1. IsFiniteSet(Owing(k)) /\ Cardinality(Owing(k)) \in Nat
    BY <1>11, SetsAreFinite
  <2>2. Cardinality(Owing(k)) # 0
    BY <1>17, <2>1, FS_EmptySet
  <2>3. n + Cardinality(Owing(k)) <= tried
    <3>1. TallyOf(k)
      BY <1>3 DEF GuardInv
    <3>2. CASE n = 0
      BY <2>1, <3>1, <3>2 DEF TallyOf
    <3>3. CASE id \in Live(k) /\ n = heap[id].count
      BY <3>1, <3>3 DEF TallyOf
    <3> QED
      BY <1>16, <3>2, <3>3
  <2>4. tried \in 0 .. MaxTries /\ MaxTries \in Nat
    BY GuardAssumption DEF GuardInv, ShapeOK
  <2>5. n + 1 \in 0 .. MaxTries
    BY <2>1, <2>2, <2>3, <2>4
  <2> QED
    BY <2>5 DEF Entry
<1> HIDE DEF e
<1>20. /\ entries \in [Objects -> Entry] /\ entries[id] = e
       /\ \A x \in Objects : x # id => entries[x] = heap[x]
  BY <1>11, <1>19 DEF HeapOK, entries
<1>21. /\ HeapOK' /\ OwedOK'
       /\ \A j \in LoginKeys : \A o \in Live(j)' : o \in Objects => heap'[o] = entries[o]
       /\ \A j \in LoginKeys : owed'["redis"][j] = owed["redis"][j]
       /\ \A j \in LoginKeys :
            owed'["local"][j]
              = NowOwed(owed["local"][j], j, {k}, Residue(Live(j) \ Live(j)'), settled)
  BY <1>7, <1>11, <1>20, StepOfTheTable
<1>22. heap'[id].count = n + 1
  BY <1>3, <1>13, <1>19, <1>20, <1>21
<1>23. \A j \in LoginKeys : \A o \in Live(j)' : o # id => heap'[o].count = heap[o].count
  <2> TAKE j \in LoginKeys
  <2> TAKE o \in Live(j)'
  <2> HAVE o # id
  <2>1. o \in Live(j)
    BY <1>13
  <2>2. o \in Objects
    BY <1>11, <2>1, LiveIsSound
  <2> QED
    BY <1>20, <1>21, <2>2
<1>24. \A j \in LoginKeys : j # k => QuietLive(j)
  BY <1>13, <1>14, <1>23 DEF QuietLive
<1>25. FailsOK' /\ \A j \in LoginKeys : RedisRecord(j)'
  BY <1>4, <1>10, <1>18, <1>21, RedisQuiet
<1>26. ASSUME NEW j \in LoginKeys
       PROVE  TallyOf(j)'
  <2>1. CountsOK /\ TallyOf(j)
    BY InvCounts DEF GuardInv
  <2>2. CASE j = k
    <3>1. r \in Counting(k)' => r \in Counting(k)
      BY <1>3, <1>18 DEF CountsNoMore
    <3>2. \A o \in Live(k)' \ {id} : heap'[o].count = heap[o].count
      BY <1>3, <1>23
    <3> QED
      BY <1>3, <1>4, <1>8, <1>11, <1>13, <1>16, <1>17, <1>22, <2>1, <2>2, <3>1, <3>2,
         LocalCountKeepsTally
  <2>3. CASE j # k
    <3>1. (r \in Counting(j)' => r \in Counting(j)) /\ (r \in Owing(j)' => r \in Owing(j))
      BY <1>17, <1>18 DEF CountsNoMore, OwesNoMore
    <3> QED
      BY <1>4, <1>8, <1>11, <1>24, <2>1, <2>3, <3>1, QuietKeepsTally
  <2> QED
    BY <2>2, <2>3
<1>27. ASSUME NEW j \in LoginKeys
       PROVE  LocalRecord(j)'
  <2>1. /\ j \in settled => owed'["local"][j] = 0
        /\ j \notin settled /\ j \in {k} =>
             owed'["local"][j] = OneMore(owed["local"][j], Residue(Live(j) \ Live(j)'))
        /\ j \notin settled /\ j \notin {k} =>
             owed'["local"][j] = SomeLess(owed["local"][j], Residue(Live(j) \ Live(j)'))
    BY <1>11, <1>21, OwedInTheTable
  <2>2. LocalRecord(j)
    BY DEF GuardInv
  <2>3. CASE j \in settled
    BY <1>11, <1>12, <2>1, <2>3, SettledKeepsLocal
  <2>4. CASE j \notin settled /\ j = k
    <3>1. ~Hits(n + 1)
      BY <2>4 DEF settled
    <3>2. owed'["local"][k] = OneMore(owed["local"][k], Residue(Live(k) \ Live(k)'))
      BY <2>1, <2>4
    <3>3. \A o \in (Live(k) \cap Live(k)') \ {id} : heap'[o].count = heap[o].count
      BY <1>3, <1>23
    <3>4. LocalRecord(k)
      BY <2>2, <2>4
    <3>5. LocalRecord(k)'
      BY <1>3, <1>11, <1>12, <1>13, <1>15, <1>22, <3>1, <3>2, <3>3, <3>4, LocalCountKeepsLocal
    <3> QED
      BY <2>4, <3>5
  <2>5. CASE j \notin settled /\ j # k
    <3>1. owed'["local"][j] = SomeLess(owed["local"][j], Residue(Live(j) \ Live(j)'))
      BY <2>1, <2>5
    <3> QED
      BY <1>11, <1>12, <1>24, <2>2, <2>5, <3>1, QuietKeepsLocal
  <2> QED
    BY <2>3, <2>4, <2>5
<1>28. Apart'
  <2> SUFFICES ASSUME NEW i \in LoginKeys, NEW j \in LoginKeys, i # j,
                      NEW o, o \in Live(i)', o \in Live(j)'
               PROVE  FALSE
    BY DEF Apart
  <2>1. \A x \in LoginKeys : o \in Live(x)' => o \in Live(x) \/ (x = k /\ o = id)
    BY <1>13
  <2>2. CASE o = id
    BY <1>13, <1>14, <2>2
  <2>3. CASE o # id
    BY <1>11, <2>1, <2>3 DEF Apart
  <2> QED
    BY <2>2, <2>3
<1>29. ShapeOK'
  BY <1>4, <1>11, <1>12, <1>21, <1>25 DEF GuardInv, ShapeOK
<1> QED
  BY <1>25, <1>26, <1>27, <1>28, <1>29 DEF GuardInv

-----------------------------------------------------------------------------
(* The invariant holds.                                                    *)

\* The process starts again: what Redis counts stays, and the blocks that were
\* being made are lost.
LEMMA RestartKeeps ==
  ASSUME GuardInv, Restart
  PROVE  GuardInv'
<1>1. /\ inflight' = << >> /\ table' = << >> /\ heap' = [o \in Objects |-> NewEntry]
      /\ down' = FALSE /\ fails' = fails /\ blocks' = blocks /\ tried' = tried
  BY DEF Restart, redis
<1>2. DOMAIN inflight' = {} /\ Range(table') = {}
  BY <1>1 DEF Range
<1>3. RequestsOK'
  BY <1>2, FS_EmptySet DEF RequestsOK
<1>4. TableOK'
  <2>1. table' \in Seq(LoginKeys \X Objects) /\ Len(table') = 0 /\ DOMAIN table' = {}
    BY <1>1
  <2> QED
    BY <2>1, GuardAssumption DEF TableOK
<1>5. HeapOK'
  BY <1>1, NewEntryIsSound DEF HeapOK
<1>6. \A k : /\ Live(k)' = {} /\ Owing(k)' = {} /\ Counting(k)' = {} /\ Blocking(k)' = {}
  <2>1. \A k : Live(k)' = {}
    BY <1>2, LiveIsIn, LiveMembers
  <2> QED
    BY <1>2, <2>1 DEF Owing, Counting, Blocking
<1>7. Cardinality({}) = 0
  BY FS_EmptySet
<1>8. \A k \in LoginKeys :
        /\ owed["redis"][k] \in Nat /\ fails[k] \in Nat
        /\ fails[k] % Threshold \in 0 .. Threshold - 1
        /\ Cardinality(Blocking(k)) \in Nat /\ Threshold \in Nat \ {0}
  BY RecordTerms DEF GuardInv, ShapeOK
<1> DEFINE lost(k) == Threshold * Cardinality(Blocking(k))
           left == [k \in LoginKeys |-> SomeLess(owed["redis"][k], lost(k))]
<1>9. \A k \in LoginKeys : lost(k) \in Nat
  BY <1>8, ProductBounds
<1>10. owed' = [redis |-> left, local |-> [k \in LoginKeys |-> 0]]
  BY DEF Restart, SomeLess
<1>11. ASSUME NEW k \in LoginKeys
       PROVE  left[k] \in Nat /\ left[k] <= fails[k] % Threshold
  <2> DEFINE w == owed["redis"][k]
             F == fails[k] % Threshold
             b == lost(k)
  <2>1. w <= F + b
    BY DEF GuardInv, RedisRecord
  <2>2. w \in Nat /\ F \in Nat /\ b \in Nat
    BY <1>8, <1>9
  <2>3. left[k] = SomeLess(w, b)
    OBVIOUS
  <2> HIDE DEF w, F, b, left
  <2>4. SomeLess(w, b) <= F
    BY <2>1, <2>2, OwedBounds
  <2>5. SomeLess(w, b) \in Nat
    BY <2>2 DEF SomeLess, Positive
  <2> QED
    BY <2>3, <2>4, <2>5 DEF F
<1>12. left \in [LoginKeys -> Nat]
  BY <1>11
<1> HIDE DEF left, lost
<1>13. OwedOK' /\ owed'["redis"] = left /\ owed'["local"] = [k \in LoginKeys |-> 0]
  BY <1>10, <1>12 DEF OwedOK, Stores
<1>14. FailsOK' /\ ShapeOK'
  BY <1>1, <1>3, <1>4, <1>5, <1>13 DEF GuardInv, ShapeOK, FailsOK
<1>15. Apart'
  BY <1>6 DEF Apart
<1>16. \A k \in LoginKeys : TallyOf(k)'
  <2> TAKE k \in LoginKeys
  <2>1. fails[k] + Cardinality(Counting(k)) <= tried /\ Cardinality(Counting(k)) \in Nat
    BY SetsAreFinite DEF GuardInv, ShapeOK, TallyOf
  <2>2. fails[k] \in Nat /\ tried \in 0 .. MaxTries /\ MaxTries \in Nat
    BY <1>8, GuardAssumption DEF GuardInv, ShapeOK
  <2>3. 0 <= tried' /\ fails'[k] + 0 <= tried'
    BY <1>1, <2>1, <2>2
  <2> QED
    BY <1>6, <1>7, <2>3 DEF TallyOf
<1>17. \A k \in LoginKeys : LocalRecord(k)'
  BY <1>3, <1>4, <1>13, SettledKeepsLocal
<1>18. \A k \in LoginKeys : RedisRecord(k)'
  <2> TAKE k \in LoginKeys
  <2>1. owed'["redis"][k] = left[k] /\ left[k] <= fails[k] % Threshold /\ left[k] \in Nat
    BY <1>11, <1>13
  <2>2. Threshold * 0 = 0 /\ (fails[k] % Threshold) + 0 = fails[k] % Threshold
    BY <1>8
  <2>3. Blocking(k)' = {} /\ fails'[k] = fails[k]
    BY <1>1, <1>6
  <2> QED
    BY <1>7, <2>1, <2>2, <2>3 DEF RedisRecord
<1> QED
  BY <1>14, <1>15, <1>16, <1>17, <1>18 DEF GuardInv

LEMMA GuardInvInit == GuardInit => GuardInv
<1> SUFFICES ASSUME GuardInit
             PROVE  GuardInv
  OBVIOUS
<1>1. /\ inflight = << >> /\ table = << >> /\ heap = [o \in Objects |-> NewEntry]
      /\ down = FALSE /\ fails = [k \in LoginKeys |-> 0] /\ blocks = [k \in LoginKeys |-> 0]
      /\ tried = 0 /\ owed = [s \in Stores |-> [k \in LoginKeys |-> 0]]
  BY DEF GuardInit
<1>2. DOMAIN inflight = {} /\ Range(table) = {}
  BY <1>1 DEF Range
<1>3. RequestsOK
  BY <1>2, FS_EmptySet DEF RequestsOK
<1>4. TableOK
  <2>1. table \in Seq(LoginKeys \X Objects) /\ Len(table) = 0 /\ DOMAIN table = {}
    BY <1>1
  <2> QED
    BY <2>1, GuardAssumption DEF TableOK
<1>5. ShapeOK
  <2>1. HeapOK
    BY <1>1, NewEntryIsSound DEF HeapOK
  <2>2. FailsOK /\ OwedOK
    BY <1>1 DEF FailsOK, OwedOK
  <2>3. blocks \in [LoginKeys -> 0 .. MaxLevel] /\ tried \in 0 .. MaxTries
    BY <1>1, GuardAssumption
  <2> QED
    BY <1>1, <1>3, <1>4, <2>1, <2>2, <2>3 DEF ShapeOK
<1>6. \A k : /\ Live(k) = {} /\ Owing(k) = {} /\ Counting(k) = {} /\ Blocking(k) = {}
  <2>1. \A k : Live(k) = {}
    BY <1>2, LiveIsIn, LiveMembers
  <2> QED
    BY <1>2, <2>1 DEF Owing, Counting, Blocking
<1>7. Cardinality({}) = 0
  BY FS_EmptySet
<1>8. \A k \in LoginKeys : fails[k] = 0 /\ owed["redis"][k] = 0 /\ owed["local"][k] = 0
  BY <1>1 DEF Stores
<1>9. Apart
  BY <1>6 DEF Apart
<1>10. \A k \in LoginKeys : TallyOf(k)
  <2> TAKE k \in LoginKeys
  <2>1. /\ fails[k] = 0 /\ tried = 0 /\ Live(k) = {}
        /\ Cardinality(Owing(k)) = 0 /\ Cardinality(Counting(k)) = 0
    BY <1>1, <1>6, <1>7, <1>8
  <2> QED
    BY <2>1 DEF TallyOf
<1>11. \A k \in LoginKeys : RedisRecord(k)
  <2> TAKE k \in LoginKeys
  <2>1. fails[k] % Threshold \in 0 .. Threshold - 1 /\ Threshold \in Nat \ {0}
    BY <1>3, <1>5, RecordTerms DEF ShapeOK
  <2>2. Threshold * 0 = 0 /\ 0 <= (fails[k] % Threshold) + 0
    BY <2>1
  <2> QED
    BY <1>6, <1>7, <1>8, <2>2 DEF RedisRecord
<1>12. \A k \in LoginKeys : LocalRecord(k)
  <2> TAKE k \in LoginKeys
  <2>1. IsFiniteSet(Live(k)) /\ Residue(Live(k)) = Cardinality(Tokens(heap, Live(k)))
    BY <1>3, <1>4, LiveIsSound, ResidueIs
  <2>2. Residue(Live(k)) \in Nat
    BY <2>1, TokensAreFinite
  <2> QED
    BY <1>8, <2>2 DEF LocalRecord
<1> QED
  BY <1>5, <1>9, <1>10, <1>11, <1>12 DEF GuardInv

LEMMA StutterKeeps ==
  ASSUME GuardInv, UNCHANGED guardVars
  PROVE  GuardInv'
<1>1. /\ inflight' = inflight /\ table' = table /\ fails' = fails /\ tried' = tried
      /\ owed' = owed /\ heap' = heap /\ blocks' = blocks /\ down' = down
  BY DEF guardVars, redis, local
<1>2. HeapOK' /\ \A o \in Objects : heap'[o].count = heap[o].count
  BY <1>1 DEF GuardInv, ShapeOK, HeapOK
<1>3. blocks' \in [LoginKeys -> 0 .. MaxLevel] /\ down' \in BOOLEAN
  BY <1>1 DEF GuardInv, ShapeOK
<1> QED
  BY <1>1, <1>2, <1>3, TimeKeeps

LEMMA GuardInvStep == GuardInv /\ [GuardNext]_guardVars => GuardInv'
<1> SUFFICES ASSUME GuardInv, [GuardNext]_guardVars
             PROVE  GuardInv'
  OBVIOUS
<1>1. CASE UNCHANGED guardVars
  BY <1>1, StutterKeeps
<1>2. ASSUME NEW r \in Logins, NEW a \in Addresses, NEW e \in Emails,
             CheckInRedis(r, a, e) \/ CheckLocally(r, a, e)
      PROVE  GuardInv'
  BY <1>2, CheckInRedisKeeps, CheckLocallyKeeps
<1>3. ASSUME NEW r \in Logins,
             \/ WrongPassword(r) \/ RightPassword(r) \/ Abort(r)
             \/ CountInRedis(r) \/ BlockInRedis(r)
             \/ SkipRedis(r) \/ CountFails(r) \/ BlockFails(r)
             \/ Fetch(r) \/ CountLocally(r) \/ Insert(r)
             \/ ClearInRedis(r) \/ LeaveRedis(r) \/ ClearLocally(r)
      PROVE  GuardInv'
  BY <1>3, WrongPasswordKeeps, RightPasswordKeeps, CountInRedisKeeps, BlockInRedisKeeps,
     SkipRedisKeeps, CountFailsKeeps, BlockFailsKeeps, FetchKeeps, CountLocallyKeeps, InsertKeeps,
     ClearInRedisKeeps, LeaveRedisKeeps, ClearLocallyKeeps
<1>4. CASE Look
  BY <1>4, LookKeeps
<1>5. ASSUME NEW k \in LoginKeys, BlockEnds(k) \/ Forget(k)
      PROVE  GuardInv'
  BY <1>5, BlockEndsKeeps, ForgetKeeps
<1>6. ASSUME NEW o \in Objects, LocalBlockEnds(o) \/ Age(o)
      PROVE  GuardInv'
  BY <1>6, EntryAgesKeeps
<1>7. CASE Resume
  BY <1>7, BlockEndsKeeps
<1>8. CASE Restart
  BY <1>8, RestartKeeps
<1> QED
  BY <1>1, <1>2, <1>3, <1>4, <1>5, <1>6, <1>7, <1>8 DEF GuardNext

\* The invariant gives the shape, with the bounds that the tally sets.
LEMMA GuardInvTypes == GuardInv => GuardTypeOK
<1> SUFFICES ASSUME GuardInv
             PROVE  GuardTypeOK
  OBVIOUS
<1>1. fails \in [LoginKeys -> 0 .. MaxTries]
  <2>1. ASSUME NEW k \in LoginKeys
        PROVE  fails[k] \in 0 .. MaxTries
    <3>1. fails[k] + Cardinality(Counting(k)) <= tried /\ Cardinality(Counting(k)) \in Nat
      BY SetsAreFinite DEF GuardInv, ShapeOK, TallyOf
    <3>2. fails[k] \in Nat /\ tried \in 0 .. MaxTries /\ MaxTries \in Nat
      BY GuardAssumption DEF GuardInv, ShapeOK, FailsOK
    <3> QED
      BY <3>1, <3>2
  <2> QED
    BY <2>1 DEF GuardInv, ShapeOK, FailsOK
<1>2. /\ table \in Seq(LoginKeys \X Objects) /\ Len(table) <= MaxTracked
      /\ \A i, j \in DOMAIN table : table[i][1] = table[j][1] => i = j
  BY DEF GuardInv, ShapeOK, TableOK
<1>3. /\ DOMAIN inflight \subseteq Logins /\ \A r \in DOMAIN inflight : inflight[r] \in Login
      /\ heap \in [Objects -> Entry]
  BY DEF GuardInv, ShapeOK, RequestsOK, HeapOK
<1>4. blocks \in [LoginKeys -> 0 .. MaxLevel] /\ down \in BOOLEAN /\ tried \in 0 .. MaxTries
  BY DEF GuardInv, ShapeOK
<1> QED
  BY <1>1, <1>2, <1>3, <1>4 DEF GuardTypeOK

LEMMA GuardInvRecords == GuardInv => FailuresOnRecord
BY DEF GuardInv, FailuresOnRecord, RedisRecord, LocalRecord

\* The block of logins keeps the inductive invariant: the tally of failures, entries
\* that no two keys share, and the records of both stores.
THEOREM GuardInvariance == GuardSpec => []GuardInv
<1>1. GuardInit => GuardInv
  BY GuardInvInit
<1>2. GuardInv /\ [GuardNext]_guardVars => GuardInv'
  BY GuardInvStep
<1> QED
  BY <1>1, <1>2, PTL DEF GuardSpec

\* The counts, the table within its maximum with one entry for a key, and the requests
\* keep their shape (services/auth/rate_limits.py).
THEOREM GuardTypes == GuardSpec => []GuardTypeOK
<1>1. GuardInv => GuardTypeOK
  BY GuardInvTypes
<1> QED
  BY <1>1, GuardInvariance, PTL

\* Fewer than Threshold failures of a key stay without a block in a store, but for
\* those of requests about to block and those that a failure of Redis, a killed process
\* or a dropped entry took.
THEOREM FailuresStayOnRecord == GuardSpec => []FailuresOnRecord
<1>1. GuardInv => FailuresOnRecord
  BY GuardInvRecords
<1> QED
  BY <1>1, GuardInvariance, PTL
=============================================================================
