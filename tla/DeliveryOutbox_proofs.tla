----------------------- MODULE DeliveryOutbox_proofs -----------------------
(***************************************************************************)
(* Proofs about DeliveryOutbox for any deliveries, workers and limits.     *)
(* The provider is called at most once per counted attempt because the     *)
(* claim counts the attempt before the call (AttemptGained), the call uses *)
(* it up (AttemptUsed), and every other step is quiet about both (Quiet).  *)
(* The claim is exclusive because the row of a worker that handles it is    *)
(* held or gone (ClaimInv): nobody can claim it again, no lease of it runs  *)
(* out, and the outcome is written into the row the worker loaded.          *)
(***************************************************************************)
EXTENDS DeliveryOutbox, FiniteSetTheorems, SequenceTheorems, TLAPS

OInv == TypeOK /\ CallsWithinAttempts

WorkerOK(rec) == rec \in Worker /\ (rec.pc \in Busy => rec.todo # <<>>)

RowsOK == rows \in [Deliveries -> Row]

WorkersOK ==
  /\ workers \in [Workers -> Worker]
  /\ \A w \in Workers : workers[w].pc \in Busy => workers[w].todo # <<>>

RestOK ==
  /\ stream \in Seq(Deliveries)
  /\ group \in BOOLEAN
  /\ crashes \in 0 .. MaxCrashes
  /\ faults \in 0 .. MaxFaults

\* A step that neither counts an attempt nor gains or uses one.
AttemptsQuiet == \A d \in Deliveries : rows'[d].attempts = rows[d].attempts

UnspentQuiet == \A d \in Deliveries : Unspent(d)' \subseteq Unspent(d)

-----------------------------------------------------------------------------
LEMMA TypeParts ==
  ASSUME RowsOK', WorkersOK', RestOK', calls' \in [Deliveries -> Nat]
  PROVE  TypeOK'
BY DEF RowsOK, WorkersOK, RestOK, TypeOK

LEMMA UnspentFinite ==
  ASSUME NEW d
  PROVE  /\ IsFiniteSet(Unspent(d))
         /\ Cardinality(Unspent(d)) \in Nat
<1>1. Unspent(d) \in SUBSET Workers
  BY DEF Unspent
<1>2. IsFiniteSet(Unspent(d))
  BY <1>1, FS_Subset, OutboxAssumption
<1>3. QED
  BY <1>2, FS_CardinalityType

LEMMA QuietStep ==
  ASSUME OInv, RowsOK', WorkersOK', RestOK', calls' = calls,
         AttemptsQuiet, UnspentQuiet
  PROVE  OInv'
<1>1. TypeOK'
  BY TypeParts DEF OInv, TypeOK
<1>2. ASSUME NEW d \in Deliveries
      PROVE  (calls[d] + Cardinality(Unspent(d)) <= rows[d].attempts)'
  <2>1. Unspent(d)' \in SUBSET Unspent(d)
    BY DEF UnspentQuiet
  <2>2. /\ IsFiniteSet(Unspent(d)) /\ Cardinality(Unspent(d)) \in Nat
    BY UnspentFinite
  <2>3. /\ IsFiniteSet(Unspent(d)')
        /\ Cardinality(Unspent(d)') <= Cardinality(Unspent(d))
    BY <2>1, <2>2, FS_Subset
  <2>4. Cardinality(Unspent(d)') \in Nat
    BY <2>3, FS_CardinalityType
  <2>5. /\ calls[d] + Cardinality(Unspent(d)) <= rows[d].attempts
        /\ calls[d] \in Nat /\ rows[d].attempts \in Nat
    BY OutboxAssumption DEF OInv, CallsWithinAttempts, TypeOK, Row
  <2>6. calls'[d] = calls[d] /\ rows'[d].attempts = rows[d].attempts
    BY DEF AttemptsQuiet
  <2>7. QED
    BY <2>2, <2>3, <2>4, <2>5, <2>6
<1>3. QED
  BY <1>1, <1>2 DEF OInv, CallsWithinAttempts

-----------------------------------------------------------------------------
(* What the pieces of a step do. *)

LEMMA WorkerFields ==
  ASSUME TypeOK, NEW w \in Workers
  PROVE  /\ workers[w] \in Worker
         /\ workers[w].todo \in Seq(Deliveries)
         /\ workers[w].snap \in Row
         /\ workers[w].pc \in Busy => /\ workers[w].todo # <<>>
                                      /\ Current(w) \in Deliveries
                                      /\ Tail(workers[w].todo) \in Seq(Deliveries)
<1>1. /\ workers[w] \in Worker
      /\ workers[w].todo \in Seq(Deliveries)
      /\ workers[w].snap \in Row
      /\ workers[w].pc \in Busy => workers[w].todo # <<>>
  BY DEF TypeOK, Worker
<1>2. QED
  BY <1>1, HeadTailProperties DEF Current

\* A worker that is set to a proper record keeps the workers proper; it gains no
\* attempt unless the record is at load or send with another delivery.
LEMMA MoveWorker ==
  ASSUME TypeOK, NEW w \in Workers, NEW rec, WorkerOK(rec),
         workers' = [workers EXCEPT ![w] = rec],
         rec.pc \in {"load", "send"} =>
           workers[w].pc \in {"load", "send"} /\ rec.todo = workers[w].todo
  PROVE  WorkersOK' /\ UnspentQuiet
<1>1. WorkersOK'
  BY DEF TypeOK, WorkersOK, WorkerOK
<1>2. \A v \in Workers : workers'[v] = IF v = w THEN rec ELSE workers[v]
  BY DEF TypeOK
<1>3. UnspentQuiet
  BY <1>2 DEF UnspentQuiet, Unspent, Current
<1>4. QED
  BY <1>1, <1>3

LEMMA RecordGone ==
  ASSUME NEW place \in Busy \union {"down", "recover", "select", "read"},
         NEW todo \in Seq(Deliveries), NEW first \in BOOLEAN,
         place \in Busy => todo # <<>>
  PROVE  LET rec == [Down EXCEPT !.pc = place, !.todo = todo]
             later == [Down EXCEPT !.pc = place, !.todo = todo, !.first = first]
         IN  /\ WorkerOK(rec) /\ rec.pc = place /\ rec.todo = todo
             /\ WorkerOK(later) /\ later.pc = place /\ later.todo = todo
<1>1. NoRow \in Row
  BY OutboxAssumption DEF NoRow, Row, Statuses
<1>2. QED
  BY <1>1 DEF Down, WorkerOK, Worker

LEMMA GotoQuiet ==
  ASSUME TypeOK, NEW w \in Workers, NEW todo \in Seq(Deliveries),
         NEW place \in Busy \union {"down", "recover", "select", "read"},
         place \notin {"load", "send"},
         place \in Busy => todo # <<>>,
         Goto(w, place, todo)
  PROVE  WorkersOK' /\ UnspentQuiet
<1> DEFINE rec == [Down EXCEPT !.pc = place, !.todo = todo]
<1>1. WorkerOK(rec) /\ rec.pc = place
  BY RecordGone, FALSE \in BOOLEAN
<1>2. workers' = [workers EXCEPT ![w] = rec]
  BY DEF Goto
<1> HIDE DEF rec
<1>3. QED
  BY <1>1, <1>2, MoveWorker

LEMMA DiesQuiet ==
  ASSUME TypeOK, NEW w \in Workers, Dies(w)
  PROVE  WorkersOK' /\ UnspentQuiet
<1>1. WorkerOK(Down) /\ Down.pc = "down"
  <2>1. NoRow \in Row
    BY OutboxAssumption DEF NoRow, Row, Statuses
  <2>2. QED
    BY <2>1 DEF Down, WorkerOK, Worker, Busy, Handling
<1>2. QED
  BY <1>1, MoveWorker DEF Dies

LEMMA NextEntryQuiet ==
  ASSUME TypeOK, NEW w \in Workers, workers[w].pc \in Busy, NextEntry(w)
  PROVE  WorkersOK' /\ UnspentQuiet
<1> DEFINE rest == Tail(workers[w].todo)
           place == IF rest = <<>> THEN "recover" ELSE "claim"
<1>1. rest \in Seq(Deliveries)
  BY WorkerFields
<1>2. place \in Busy \union {"down", "recover", "select", "read"}
  BY DEF Busy
<1>3. place \notin {"load", "send"} /\ (place \in Busy => rest # <<>>)
  BY DEF Busy, Handling
<1>4. Goto(w, place, rest)
  BY DEF NextEntry
<1> HIDE DEF rest, place
<1>5. QED
  BY <1>1, <1>2, <1>3, <1>4, GotoQuiet

\* Only the place changes, within one entry.
LEMMA PlaceQuiet ==
  ASSUME TypeOK, NEW w \in Workers, NEW place \in Busy, workers[w].pc \in Busy,
         place \in {"load", "send"} => workers[w].pc \in {"load", "send"},
         workers' = [workers EXCEPT ![w].pc = place]
  PROVE  WorkersOK' /\ UnspentQuiet
<1> DEFINE rec == [workers[w] EXCEPT !.pc = place]
<1>1. /\ rec \in Worker /\ rec.pc = place /\ rec.todo = workers[w].todo
  BY WorkerFields DEF Worker
<1>2. WorkerOK(rec)
  BY <1>1, WorkerFields DEF WorkerOK
<1>3. workers' = [workers EXCEPT ![w] = rec]
  OBVIOUS
<1> HIDE DEF rec
<1>4. QED
  BY <1>1, <1>2, <1>3, MoveWorker

LEMMA RowQuiet ==
  ASSUME TypeOK, NEW d \in Deliveries, NEW row \in Row,
         row.attempts = rows[d].attempts,
         rows' = [rows EXCEPT ![d] = row]
  PROVE  RowsOK' /\ AttemptsQuiet
BY DEF TypeOK, RowsOK, AttemptsQuiet

LEMMA SameRows ==
  ASSUME TypeOK, rows' = rows
  PROVE  RowsOK' /\ AttemptsQuiet
BY DEF TypeOK, RowsOK, AttemptsQuiet

LEMMA SameWorkers ==
  ASSUME TypeOK, workers' = workers
  PROVE  WorkersOK' /\ UnspentQuiet
BY DEF TypeOK, WorkersOK, UnspentQuiet, Unspent, Current

\* A flush writes no attempts when the new row has those of the loaded one.
LEMMA FlushQuiet ==
  ASSUME TypeOK, NEW d \in Deliveries, NEW snap \in Row, NEW new \in Row,
         new.attempts = snap.attempts, Flush(d, snap, new)
  PROVE  RowsOK' /\ AttemptsQuiet
<1> DEFINE base == rows[d]
           row == [f \in DOMAIN new |->
                     IF new[f] = snap[f] /\ (f = "next_attempt_at" => new[f] # "future")
                     THEN base[f] ELSE new[f]]
<1>1. base \in Row
  BY DEF TypeOK
<1>2. row \in Row /\ row.attempts = base.attempts
  <2> HIDE DEF base
  <2>1. DOMAIN new = {"status", "attempts", "next_attempt_at", "queued_at",
                      "processing_until", "provider_message_id", "last_error"}
    BY DEF Row
  <2>2. row = [status |-> row.status, attempts |-> row.attempts,
               next_attempt_at |-> row.next_attempt_at, queued_at |-> row.queued_at,
               processing_until |-> row.processing_until,
               provider_message_id |-> row.provider_message_id,
               last_error |-> row.last_error]
    BY <2>1
  <2>3. /\ row.status \in Statuses /\ row.attempts \in 0 .. MaxAttempts
        /\ row.next_attempt_at \in {"null", "future", "due"}
        /\ row.queued_at \in {"null", "fresh", "stale"}
        /\ row.processing_until \in {"null", "held", "expired"}
        /\ row.last_error \in {"null", "send", "provider"}
    BY <1>1, <2>1 DEF Row
  <2>4. row.provider_message_id \in BOOLEAN
    BY <1>1, <2>1 DEF Row
  <2>5. row.attempts = base.attempts
    BY <2>1
  <2> HIDE DEF row
  <2>6. QED
    BY <2>2, <2>3, <2>4, <2>5 DEF Row
<1>3. rows' = [rows EXCEPT ![d] = row]
  BY DEF Flush
<1> HIDE DEF row
<1>4. QED
  BY <1>2, <1>3, RowQuiet

LEMMA SameRest ==
  ASSUME TypeOK, UNCHANGED <<stream, group, crashes, faults>>
  PROVE  RestOK'
BY DEF TypeOK, RestOK

LEMMA PublishedType ==
  ASSUME TypeOK, NEW d \in Deliveries
  PROVE  Published(d) \in Seq(Deliveries)
<1>1. Append(stream, d) \in Seq(Deliveries) /\ Append(stream, d) # <<>>
  BY AppendProperties DEF TypeOK
<1>2. Tail(Append(stream, d)) \in Seq(Deliveries)
  BY <1>1, HeadTailProperties
<1>3. QED
  BY <1>1, <1>2 DEF Published

-----------------------------------------------------------------------------
(* The web processes and the passing of time touch neither workers nor calls. *)

LEMMA RowStep ==
  ASSUME OInv, NEW d \in Deliveries, NEW row \in Row,
         row.attempts = rows[d].attempts, rows' = [rows EXCEPT ![d] = row],
         UNCHANGED <<stream, group, workers, calls, crashes, faults>>
  PROVE  OInv'
<1>1. TypeOK
  BY DEF OInv
<1>2. RowsOK' /\ AttemptsQuiet
  BY <1>1, RowQuiet
<1>3. WorkersOK' /\ UnspentQuiet
  BY <1>1, SameWorkers
<1>4. RestOK'
  BY <1>1, SameRest
<1>5. QED
  BY <1>2, <1>3, <1>4, QuietStep

LEMMA WebStep ==
  ASSUME OInv, NEW d \in Deliveries,
         \/ Create(d) \/ Delete(d)
         \/ \E delivered \in BOOLEAN : Webhook(d, delivered)
  PROVE  OInv'
<1>0. rows[d] \in Row /\ rows \in [Deliveries -> Row]
  BY DEF OInv, TypeOK
<1>1. CASE Create(d)
  <2> DEFINE row == [rows[d] EXCEPT !.status = "pending"]
  <2>1. row \in Row /\ row.attempts = rows[d].attempts
    BY <1>0 DEF Row, Statuses
  <2>2. rows' = [rows EXCEPT ![d] = row]
    BY <1>1 DEF Create
  <2> HIDE DEF row
  <2>3. QED
    BY <1>1, <2>1, <2>2, RowStep DEF Create
<1>2. CASE Delete(d)
  <2> DEFINE row == [rows[d] EXCEPT !.status = "gone"]
  <2>1. row \in Row /\ row.attempts = rows[d].attempts
    BY <1>0 DEF Row, Statuses
  <2>2. rows' = [rows EXCEPT ![d] = row]
    BY <1>2 DEF Delete
  <2> HIDE DEF row
  <2>3. QED
    BY <1>2, <2>1, <2>2, RowStep DEF Delete
<1>3. ASSUME NEW delivered \in BOOLEAN, Webhook(d, delivered) PROVE OInv'
  <2> DEFINE s == IF delivered THEN "sent" ELSE "failed"
             e == IF delivered THEN "null" ELSE "provider"
             row == [rows[d] EXCEPT !.status = s, !.last_error = e,
                                    !.processing_until = "null", !.queued_at = "null"]
  <2>1. s \in Statuses /\ e \in {"null", "send", "provider"}
    BY DEF Statuses
  <2>2. rows' = [rows EXCEPT ![d] = row]
    BY <1>0, <1>3 DEF Webhook
  <2> HIDE DEF s, e
  <2>3. row \in Row /\ row.attempts = rows[d].attempts
    BY <1>0, <2>1 DEF Row
  <2> HIDE DEF row
  <2>4. UNCHANGED <<stream, group, workers, calls, crashes, faults>>
    BY <1>3 DEF Webhook
  <2>5. QED
    BY <2>2, <2>3, <2>4, RowStep
<1>4. QED
  BY <1>1, <1>2, <1>3

LEMMA TickStep ==
  ASSUME OInv, NEW d \in Deliveries, Tick(d)
  PROVE  OInv'
<1>0. rows[d] \in Row /\ rows \in [Deliveries -> Row]
  BY DEF OInv, TypeOK
<1>1. CASE RetryDue(d)
  <2> DEFINE row == [rows[d] EXCEPT !.next_attempt_at = "due"]
  <2>1. row \in Row /\ row.attempts = rows[d].attempts
    BY <1>0 DEF Row
  <2>2. rows' = [rows EXCEPT ![d] = row]
    BY <1>1 DEF RetryDue
  <2> HIDE DEF row
  <2>3. QED
    BY <1>1, <2>1, <2>2, RowStep DEF RetryDue
<1>2. CASE QueueLeaseEnds(d)
  <2> DEFINE row == [rows[d] EXCEPT !.queued_at = "stale"]
  <2>1. row \in Row /\ row.attempts = rows[d].attempts
    BY <1>0 DEF Row
  <2>2. rows' = [rows EXCEPT ![d] = row]
    BY <1>2 DEF QueueLeaseEnds
  <2> HIDE DEF row
  <2>3. QED
    BY <1>2, <2>1, <2>2, RowStep DEF QueueLeaseEnds
<1>3. CASE LeaseEnds(d)
  <2> DEFINE row == [rows[d] EXCEPT !.processing_until = "expired"]
  <2>1. row \in Row /\ row.attempts = rows[d].attempts
    BY <1>0 DEF Row
  <2>2. rows' = [rows EXCEPT ![d] = row]
    BY <1>3 DEF LeaseEnds
  <2> HIDE DEF row
  <2>3. QED
    BY <1>3, <2>1, <2>2, RowStep DEF LeaseEnds
<1>4. QED
  BY <1>1, <1>2, <1>3 DEF Tick

-----------------------------------------------------------------------------
(* The loop of the worker. *)

LEMMA LoopStep ==
  ASSUME OInv, NEW w \in Workers,
         \/ Start(w) \/ RecoverExpired(w) \/ Select(w) \/ ReadNothing(w)
         \/ Crash(w) \/ Load(w)
  PROVE  OInv'
<1>0. TypeOK
  BY DEF OInv
<1>a. <<>> \in Seq(Deliveries) /\ {"down", "recover", "select", "read"} \intersect
        (Busy \union {"load", "send"}) = {}
  BY DEF Busy, Handling
<1>1. CASE Start(w)
  <2>1. WorkersOK' /\ UnspentQuiet
    BY <1>0, <1>1, <1>a, GotoQuiet DEF Start
  <2>2. RowsOK' /\ AttemptsQuiet
    BY <1>0, <1>1, SameRows DEF Start
  <2>3. RestOK'
    BY <1>0, <1>1 DEF Start, RestOK, TypeOK
  <2>4. QED
    BY <1>1, <2>1, <2>2, <2>3, QuietStep DEF Start
<1>2. CASE RecoverExpired(w)
  <2>1. WorkersOK' /\ UnspentQuiet
    BY <1>0, <1>2, <1>a, GotoQuiet DEF RecoverExpired
  <2>2. ASSUME NEW row \in Row
        PROVE  LET free == [row EXCEPT !.status = "pending", !.queued_at = "null",
                                       !.processing_until = "null"]
               IN free \in Row /\ free.attempts = row.attempts
    BY DEF Row, Statuses
  <2>3. ASSUME NEW d \in Deliveries
        PROVE  rows'[d] \in Row /\ rows'[d].attempts = rows[d].attempts
    <3>1. rows[d] \in Row
      BY <1>0 DEF TypeOK
    <3>2. \/ rows'[d] = rows[d]
          \/ rows'[d] = [rows[d] EXCEPT !.status = "pending", !.queued_at = "null",
                                        !.processing_until = "null"]
      BY <1>2 DEF RecoverExpired
    <3>3. QED
      BY <2>2, <3>1, <3>2
  <2>4. RowsOK' /\ AttemptsQuiet
    <3>1. rows' = [d \in Deliveries |-> rows'[d]]
      BY <1>2 DEF RecoverExpired
    <3>2. QED
      BY <2>3, <3>1 DEF RowsOK, AttemptsQuiet
  <2>5. RestOK'
    BY <1>0, <1>2, SameRest DEF RecoverExpired
  <2>6. QED
    BY <1>2, <2>1, <2>4, <2>5, QuietStep DEF RecoverExpired
<1>3. CASE Select(w)
  <2> DEFINE due == Oldest({d \in Deliveries : Queueable(d)})
             place == IF due = {} THEN "read" ELSE "publish"
  <2>1. due \subseteq Deliveries
    BY DEF Oldest
  <2>2. IsFiniteSet(due) /\ Cardinality(due) \in Nat /\ (due # {} => Cardinality(due) # 0)
    BY <2>1, FS_Subset, FS_CardinalityType, FS_EmptySet, OutboxAssumption
  <2>3. PICK batch \in [1 .. Cardinality(due) -> due] : Goto(w, place, batch)
    BY <1>3 DEF Select
  <2>4. batch \in Seq(Deliveries) /\ (due # {} => batch # <<>>)
    BY <2>1, <2>2
  <2>5. /\ place \in Busy \union {"down", "recover", "select", "read"}
        /\ place \notin {"load", "send"}
        /\ place \in Busy => due # {}
    BY DEF Busy, Handling
  <2> HIDE DEF place, due
  <2>6. WorkersOK' /\ UnspentQuiet
    BY <1>0, <2>3, <2>4, <2>5, GotoQuiet
  <2>7. RowsOK' /\ AttemptsQuiet
    BY <1>0, <1>3, SameRows DEF Select
  <2>8. RestOK'
    BY <1>0, <1>3, SameRest DEF Select
  <2>9. QED
    BY <1>3, <2>6, <2>7, <2>8, QuietStep DEF Select
<1>4. CASE ReadNothing(w)
  <2>1. WorkersOK' /\ UnspentQuiet
    <3>1. CASE Goto(w, "recover", <<>>)
      BY <1>0, <1>a, <3>1, GotoQuiet
    <3>2. CASE Dies(w)
      BY <1>0, <3>2, DiesQuiet
    <3>3. QED
      BY <1>4, <3>1, <3>2 DEF ReadNothing
  <2>2. RowsOK' /\ AttemptsQuiet
    BY <1>0, <1>4, SameRows DEF ReadNothing
  <2>3. RestOK'
    BY <1>0, <1>4, SameRest DEF ReadNothing
  <2>4. QED
    BY <1>4, <2>1, <2>2, <2>3, QuietStep DEF ReadNothing
<1>5. CASE Crash(w)
  <2>1. WorkersOK' /\ UnspentQuiet
    BY <1>0, <1>5, DiesQuiet DEF Crash
  <2>2. RowsOK' /\ AttemptsQuiet
    BY <1>0, <1>5, SameRows DEF Crash
  <2>3. RestOK'
    BY <1>0, <1>5, OutboxAssumption DEF Crash, RestOK, TypeOK
  <2>4. QED
    BY <1>5, <2>1, <2>2, <2>3, QuietStep DEF Crash
<1>6. CASE Load(w)
  <2>1. workers[w].pc = "load" /\ "load" \in Busy /\ "send" \in Busy
    BY <1>6 DEF Load, At, Busy, Handling
  <2>2. CASE NextEntry(w)
    BY <1>0, <1>6, <2>1, <2>2, NextEntryQuiet, SameRows, SameRest, QuietStep DEF Load
  <2>3. CASE ~NextEntry(w)
    <3> DEFINE rec == [workers[w] EXCEPT !.pc = "send", !.snap = rows[Current(w)]]
    <3>1. workers' = [workers EXCEPT ![w] = rec]
      BY <1>0, <1>6, <2>3 DEF Load, TypeOK
    <3>2. rows[Current(w)] \in Row
      BY <1>0, <2>1, WorkerFields DEF TypeOK
    <3>3. WorkerOK(rec) /\ rec.todo = workers[w].todo
      BY <1>0, <2>1, <3>2, WorkerFields DEF WorkerOK, Worker
    <3> HIDE DEF rec
    <3>4. WorkersOK' /\ UnspentQuiet
      BY <1>0, <2>1, <3>1, <3>3, MoveWorker
    <3>5. QED
      BY <1>0, <1>6, <3>4, SameRows, SameRest, QuietStep DEF Load
  <2>4. QED
    BY <2>2, <2>3
<1>7. QED
  BY <1>1, <1>2, <1>3, <1>4, <1>5, <1>6

LEMMA QueueStep ==
  ASSUME OInv, NEW w \in Workers,
         Publish(w) \/ MarkQueued(w) \/ PublishFails(w) \/ Read(w)
  PROVE  OInv'
<1>0. TypeOK /\ <<>> \in Seq(Deliveries)
  BY DEF OInv
<1>a. /\ {"publish", "queued", "claim"} \subseteq Busy
      /\ "read" \notin Busy
  BY DEF Busy, Handling
<1>1. CASE Publish(w)
  <2>1. workers[w].pc = "publish" /\ Current(w) \in Deliveries
    BY <1>0, <1>1, <1>a, WorkerFields DEF Publish, At
  <2>2. WorkersOK' /\ UnspentQuiet
    <3>1. CASE workers' = [workers EXCEPT ![w].pc = "queued"]
      BY <1>0, <1>a, <2>1, <3>1, PlaceQuiet
    <3>2. CASE Dies(w)
      BY <1>0, <3>2, DiesQuiet
    <3>3. QED
      BY <1>1, <3>1, <3>2 DEF Publish
  <2>3. RestOK'
    <3>1. stream' \in {stream, Published(Current(w))}
      BY <1>1 DEF Publish
    <3>2. QED
      BY <1>0, <1>1, <2>1, <3>1, PublishedType DEF Publish, RestOK, TypeOK
  <2>4. QED
    BY <1>0, <1>1, <2>2, <2>3, SameRows, QuietStep DEF Publish
<1>2. CASE MarkQueued(w)
  <2> DEFINE d == Current(w)
             rest == Tail(workers[w].todo)
             place == IF rest = <<>> THEN "read" ELSE "publish"
  <2>1. /\ workers[w].pc = "queued"
        /\ d \in Deliveries /\ rest \in Seq(Deliveries)
    BY <1>0, <1>2, <1>a, WorkerFields DEF MarkQueued, At
  <2>2. RestOK'
    BY <1>0, <1>2, SameRest DEF MarkQueued
  <2>3. CASE Present(d)
    <3> DEFINE rec == [Down EXCEPT !.pc = place, !.todo = rest, !.first = FALSE]
               row == [rows[d] EXCEPT !.queued_at = "fresh"]
    <3>1. rows' = [rows EXCEPT ![d] = row] /\ workers' = [workers EXCEPT ![w] = rec]
      BY <1>0, <1>2, <2>1, <2>3 DEF MarkQueued, TypeOK
    <3>2. row \in Row /\ row.attempts = rows[d].attempts
      BY <1>0, <2>1 DEF TypeOK, Row
    <3>3. /\ place \in Busy \union {"down", "recover", "select", "read"}
          /\ place \in Busy => rest # <<>>
          /\ place \notin {"load", "send"}
      BY <1>a
    <3> HIDE DEF place, rest
    <3>4. WorkerOK(rec) /\ rec.pc = place
      BY <2>1, <3>3, RecordGone
    <3> HIDE DEF rec, row
    <3>5. WorkersOK' /\ UnspentQuiet
      BY <1>0, <3>1, <3>3, <3>4, MoveWorker
    <3>6. RowsOK' /\ AttemptsQuiet
      BY <1>0, <2>1, <3>1, <3>2, RowQuiet
    <3>7. QED
      BY <1>2, <2>2, <3>5, <3>6, QuietStep DEF MarkQueued
  <2>4. CASE ~Present(d)
    BY <1>0, <1>2, <2>2, <2>4, DiesQuiet, SameRows, QuietStep DEF MarkQueued
  <2>5. QED
    BY <2>3, <2>4
<1>3. CASE PublishFails(w)
  <2>1. workers[w].pc = "publish" /\ Current(w) \in Deliveries
    BY <1>0, <1>3, <1>a, WorkerFields DEF PublishFails, At
  <2>2. WorkersOK' /\ UnspentQuiet
    <3>1. CASE Goto(w, "read", <<>>)
      BY <1>0, <1>a, <3>1, GotoQuiet
    <3>2. CASE Dies(w)
      BY <1>0, <3>2, DiesQuiet
    <3>3. QED
      BY <1>3, <3>1, <3>2 DEF PublishFails
  <2>3. RestOK'
    <3>1. stream' \in Seq(Deliveries)
      BY <1>0, <1>3, <2>1, PublishedType DEF PublishFails, TypeOK
    <3>2. faults' \in 0 .. MaxFaults
      BY <1>0, <1>3, OutboxAssumption DEF PublishFails, TypeOK
    <3>3. QED
      BY <1>0, <1>3, <3>1, <3>2 DEF PublishFails, RestOK, TypeOK
  <2>4. QED
    BY <1>0, <1>3, <2>2, <2>3, SameRows, QuietStep DEF PublishFails
<1>4. CASE Read(w)
  <2> DEFINE n == IF Len(stream) < BatchSize THEN Len(stream) ELSE BatchSize
             taken == SubSeq(stream, 1, n)
  <2>1. /\ Len(stream) \in Nat /\ Len(stream) # 0
        /\ stream \in Seq(Deliveries)
    BY <1>0, <1>4, EmptySeq DEF Read, TypeOK
  <2>2. n \in 1 .. Len(stream)
    BY <2>1, OutboxAssumption
  <2>3. Goto(w, "claim", taken) /\ stream' = SubSeq(stream, n + 1, Len(stream))
    BY <1>4 DEF Read
  <2> HIDE DEF n
  <2>4. taken \in Seq(Deliveries) /\ taken # <<>>
    BY <2>1, <2>2
  <2>5. stream' \in Seq(Deliveries)
    BY <2>1, <2>2, <2>3
  <2> HIDE DEF taken
  <2>6. WorkersOK' /\ UnspentQuiet
    BY <1>0, <1>a, <2>3, <2>4, GotoQuiet
  <2>7. RestOK'
    BY <1>0, <1>4, <2>5 DEF Read, RestOK, TypeOK
  <2>8. QED
    BY <1>0, <1>4, <2>6, <2>7, SameRows, QuietStep DEF Read
<1>5. QED
  BY <1>1, <1>2, <1>3, <1>4

LEMMA LossStep ==
  ASSUME OInv, StreamLost
  PROVE  OInv'
<1>0. TypeOK /\ <<>> \in Seq(Deliveries)
  BY DEF OInv
<1>1. RestOK'
  <2>1. faults' \in 0 .. MaxFaults
    BY <1>0, OutboxAssumption DEF StreamLost, TypeOK
  <2>2. group' \in BOOLEAN
    BY DEF StreamLost
  <2>3. QED
    BY <1>0, <2>1, <2>2 DEF StreamLost, RestOK, TypeOK
<1>2. QED
  BY <1>0, <1>1, SameRows, SameWorkers, QuietStep DEF StreamLost

-----------------------------------------------------------------------------
(* The two commits that end an entry, and the steps about an attempt. *)

LEMMA OutcomeStep ==
  ASSUME OInv, NEW w \in Workers, MarkSent(w) \/ MarkFailed(w)
  PROVE  OInv'
<1> DEFINE d == Current(w)
           snap == workers[w].snap
<1>0. TypeOK
  BY DEF OInv
<1>1. workers[w].pc \in Busy
  BY DEF MarkSent, MarkFailed, At, Busy, Handling
<1>2. d \in Deliveries /\ snap \in Row
  BY <1>0, <1>1, WorkerFields
<1>3. RestOK' /\ calls' = calls
  BY <1>0, SameRest DEF MarkSent, MarkFailed
<1>4. CASE Dies(w) /\ UNCHANGED rows
  BY <1>0, <1>3, <1>4, DiesQuiet, SameRows, QuietStep
<1>5. ASSUME NEW answered \in BOOLEAN, NextEntry(w),
             Flush(d, snap, [snap EXCEPT !.status = "sent",
                                         !.provider_message_id = answered,
                                         !.next_attempt_at = "null",
                                         !.queued_at = "null",
                                         !.processing_until = "null",
                                         !.last_error = "null"])
      PROVE  OInv'
  <2> DEFINE new == [snap EXCEPT !.status = "sent", !.provider_message_id = answered,
                                 !.next_attempt_at = "null", !.queued_at = "null",
                                 !.processing_until = "null", !.last_error = "null"]
  <2> HIDE DEF snap
  <2>1. new \in Row /\ new.attempts = snap.attempts
    BY <1>2, <1>5 DEF Row, Statuses
  <2> HIDE DEF new
  <2>2. Flush(d, snap, new)
    BY <1>5 DEF new
  <2>3. RowsOK' /\ AttemptsQuiet
    BY <1>0, <1>2, <2>1, <2>2, FlushQuiet
  <2>4. WorkersOK' /\ UnspentQuiet
    BY <1>0, <1>1, <1>5, NextEntryQuiet
  <2>5. QED
    BY <1>3, <2>3, <2>4, QuietStep
<1>6. CASE Flush(d, snap, Failed(snap)) /\ NextEntry(w)
  <2> HIDE DEF snap
  <2>1. Failed(snap) \in Row /\ Failed(snap).attempts = snap.attempts
    <3> DEFINE s == IF snap.attempts >= MaxAttempts THEN "failed" ELSE "pending"
               n == IF snap.attempts >= MaxAttempts THEN "null" ELSE "future"
    <3>1. s \in Statuses /\ n \in {"null", "future", "due"}
      BY DEF Statuses
    <3>2. Failed(snap) = [snap EXCEPT !.status = s, !.next_attempt_at = n,
                                      !.queued_at = "null", !.processing_until = "null",
                                      !.last_error = "send"]
      BY DEF Failed
    <3> HIDE DEF s, n
    <3>3. QED
      BY <1>2, <3>1, <3>2 DEF Row
  <2>2. RowsOK' /\ AttemptsQuiet
    BY <1>0, <1>2, <1>6, <2>1, FlushQuiet
  <2>3. WorkersOK' /\ UnspentQuiet
    BY <1>0, <1>1, <1>6, NextEntryQuiet
  <2>4. QED
    BY <1>3, <2>2, <2>3, QuietStep
<1>7. QED
  BY <1>4, <1>5, <1>6 DEF MarkSent, MarkFailed

\* The claim counts an attempt, and gives its worker the right to one call.
LEMMA AttemptGained ==
  ASSUME OInv, NEW w \in Workers, Claim(w)
  PROVE  OInv'
<1> DEFINE d == Current(w)
           rec == [workers[w] EXCEPT !.pc = "load"]
           row == [rows[d] EXCEPT !.status = "processing", !.attempts = @ + 1,
                                  !.queued_at = "null", !.processing_until = "held"]
<1>0. TypeOK
  BY DEF OInv
<1>1. /\ workers[w].pc = "claim" /\ "claim" \in Busy /\ "load" \in Busy
      /\ "claim" \notin {"load", "send"}
  BY DEF Claim, At, Busy, Handling
<1>2. d \in Deliveries
  BY <1>0, <1>1, WorkerFields
<1>3. RestOK' /\ calls' = calls
  BY <1>0, SameRest DEF Claim
<1>4. CASE ~Claimable(d)
  BY <1>0, <1>1, <1>3, <1>4, NextEntryQuiet, SameRows, QuietStep DEF Claim
<1>5. CASE Claimable(d)
  <2>1. rows[d] \in Row /\ rows[d].attempts \in Nat /\ rows[d].attempts < MaxAttempts
    <3>1. rows[d] \in Row
      BY <1>0, <1>2 DEF TypeOK
    <3>2. rows[d].attempts \in Nat
      BY <3>1, OutboxAssumption DEF Row
    <3>3. rows[d].attempts < MaxAttempts
      BY <1>5 DEF Claimable
    <3>4. QED
      BY <3>1, <3>2, <3>3
  <2>2. row \in Row /\ row.attempts = rows[d].attempts + 1
    <3>1. rows[d].attempts + 1 \in 0 .. MaxAttempts
      BY <2>1, OutboxAssumption
    <3>2. QED
      BY <2>1, <3>1 DEF Row, Statuses
  <2>3. rows' = [rows EXCEPT ![d] = row] /\ workers' = [workers EXCEPT ![w] = rec]
    BY <1>0, <1>2, <1>5 DEF Claim, TypeOK
  <2> HIDE DEF row
  <2>4. RowsOK' /\ \A e \in Deliveries :
          rows'[e].attempts = IF e = d THEN rows[e].attempts + 1 ELSE rows[e].attempts
    BY <1>0, <1>2, <2>2, <2>3 DEF RowsOK, TypeOK
  <2>5. rec \in Worker /\ rec.pc = "load" /\ rec.todo = workers[w].todo
        /\ rec.todo # <<>>
    BY <1>0, <1>1, WorkerFields DEF Worker
  <2> HIDE DEF rec
  <2>6. WorkersOK'
    BY <1>0, <2>3, <2>5 DEF WorkersOK, TypeOK
  <2>7. ASSUME NEW e \in Deliveries
        PROVE  (calls[e] + Cardinality(Unspent(e)) <= rows[e].attempts)'
    <3>1. /\ calls[e] + Cardinality(Unspent(e)) <= rows[e].attempts
          /\ calls[e] \in Nat /\ rows[e].attempts \in Nat
      BY <1>0, OutboxAssumption DEF OInv, CallsWithinAttempts, TypeOK, Row
    <3>2. IsFiniteSet(Unspent(e)) /\ Cardinality(Unspent(e)) \in Nat
      BY UnspentFinite
    <3>3. Unspent(e)' = IF e = d THEN Unspent(e) \union {w} ELSE Unspent(e)
      <4>1. \A v \in Workers : workers'[v] = IF v = w THEN rec ELSE workers[v]
        BY <1>0, <2>3 DEF TypeOK
      <4>2. QED
        BY <1>1, <2>5, <4>1 DEF Unspent, Current
    <3>4. Cardinality(Unspent(e) \union {w}) <= Cardinality(Unspent(e)) + 1
          /\ Cardinality(Unspent(e) \union {w}) \in Nat
      <4> DEFINE u == Unspent(e)
      <4>1. IsFiniteSet(u) /\ Cardinality(u) \in Nat
        BY <3>2
      <4> HIDE DEF u
      <4>2. Cardinality(u \union {w}) = IF w \in u THEN Cardinality(u) ELSE Cardinality(u) + 1
        BY <4>1, FS_AddElement
      <4>3. Cardinality(u \union {w}) <= Cardinality(u) + 1
            /\ Cardinality(u \union {w}) \in Nat
        BY <4>1, <4>2
      <4>4. QED
        BY <4>3 DEF u
    <3>5. QED
      BY <1>3, <2>4, <3>1, <3>2, <3>3, <3>4
  <2>8. TypeOK'
    BY <1>0, <1>3, <2>4, <2>6, TypeParts DEF TypeOK
  <2>9. QED
    BY <2>7, <2>8 DEF OInv, CallsWithinAttempts
<1>6. QED
  BY <1>4, <1>5

\* A call of the provider uses the attempt of the worker that makes it.
LEMMA AttemptUsed ==
  ASSUME OInv, NEW w \in Workers, workers[w].pc = "send",
         NEW place \in {"sent", "unsent"},
         workers' = [workers EXCEPT ![w].pc = place],
         calls' = [calls EXCEPT ![Current(w)] = @ + 1],
         UNCHANGED <<rows, stream, group, crashes, faults>>
  PROVE  OInv'
<1> DEFINE d == Current(w)
           rec == [workers[w] EXCEPT !.pc = place]
<1>0. TypeOK
  BY DEF OInv
<1>1. workers[w].pc \in Busy /\ place \in Busy
  BY DEF Busy, Handling
<1>2. d \in Deliveries
  BY <1>0, <1>1, WorkerFields
<1>3. WorkersOK'
  BY <1>0, <1>1, PlaceQuiet
<1>4. RowsOK' /\ AttemptsQuiet /\ RestOK'
  BY <1>0, SameRows, SameRest
<1>5. calls' \in [Deliveries -> Nat]
      /\ \A e \in Deliveries : calls'[e] = IF e = d THEN calls[e] + 1 ELSE calls[e]
  BY <1>0, <1>2 DEF TypeOK
<1>6. ASSUME NEW e \in Deliveries
      PROVE  (calls[e] + Cardinality(Unspent(e)) <= rows[e].attempts)'
  <2>1. /\ calls[e] + Cardinality(Unspent(e)) <= rows[e].attempts
        /\ calls[e] \in Nat /\ rows[e].attempts \in Nat
    BY <1>0, OutboxAssumption DEF OInv, CallsWithinAttempts, TypeOK, Row
  <2>2. IsFiniteSet(Unspent(e)) /\ Cardinality(Unspent(e)) \in Nat
    BY UnspentFinite
  <2>3. Unspent(e)' = Unspent(e) \ {w}
    <3>1. \A v \in Workers : workers'[v] = IF v = w THEN rec ELSE workers[v]
      BY <1>0 DEF TypeOK
    <3>2. rec.pc = place
      BY <1>0, WorkerFields DEF Worker
    <3> HIDE DEF rec
    <3>3. QED
      BY <3>1, <3>2 DEF Unspent, Current
  <2>4. w \in Unspent(e) <=> e = d
    BY DEF Unspent
  <2>5. Cardinality(Unspent(e) \ {w}) =
          IF e = d THEN Cardinality(Unspent(e)) - 1 ELSE Cardinality(Unspent(e))
    BY <2>2, <2>4, FS_RemoveElement
  <2>6. QED
    BY <1>5, <2>1, <2>2, <2>3, <2>5
<1>7. TypeOK'
  BY <1>3, <1>4, <1>5, TypeParts
<1>8. QED
  BY <1>6, <1>7 DEF OInv, CallsWithinAttempts

LEMMA SendStep ==
  ASSUME OInv, NEW w \in Workers, Send(w) \/ SendFails(w)
  PROVE  OInv'
<1>0. TypeOK /\ workers[w].pc = "send"
  BY DEF OInv, Send, SendFails, At
<1>1. CASE Send(w)
  BY <1>0, <1>1, AttemptUsed DEF Send
<1>2. CASE SendFails(w) /\ calls' # calls
  BY <1>0, <1>2, AttemptUsed DEF SendFails
<1>3. CASE SendFails(w) /\ calls' = calls
  <2>1. workers[w].pc \in Busy /\ "unsent" \in Busy
    BY <1>0 DEF Busy, Handling
  <2>2. WorkersOK' /\ UnspentQuiet
    BY <1>0, <1>3, <2>1, PlaceQuiet DEF SendFails
  <2>3. QED
    BY <1>0, <1>3, <2>2, SameRows, SameRest, QuietStep DEF SendFails
<1>4. QED
  BY <1>1, <1>2, <1>3

-----------------------------------------------------------------------------
LEMMA OInvInit == Init => OInv
<1> SUFFICES ASSUME Init PROVE OInv
  OBVIOUS
<1>1. NoRow \in Row
  BY OutboxAssumption DEF NoRow, Row, Statuses
<1>2. Down \in Worker /\ Down.pc \notin Busy /\ Down.pc = "down"
  BY <1>1 DEF Down, Worker, Busy, Handling
<1>3. rows \in [Deliveries -> Row] /\ workers \in [Workers -> Worker]
  BY <1>1, <1>2 DEF Init
<1>4. stream \in Seq(Deliveries) /\ group \in BOOLEAN
  <2>1. stream \in Seq(Deliveries)
    BY DEF Init
  <2>2. group \in BOOLEAN
    BY DEF Init
  <2>3. QED
    BY <2>1, <2>2
<1>5. calls \in [Deliveries -> Nat] /\ crashes \in 0 .. MaxCrashes
      /\ faults \in 0 .. MaxFaults
  BY OutboxAssumption DEF Init
<1>6. TypeOK
  BY <1>2, <1>3, <1>4, <1>5 DEF Init, TypeOK
<1>7. ASSUME NEW d \in Deliveries
      PROVE  calls[d] + Cardinality(Unspent(d)) <= rows[d].attempts
  <2>1. \A w \in Workers : workers[w] = Down
    BY DEF Init
  <2>2. Unspent(d) = {}
    BY <1>2, <2>1 DEF Unspent
  <2>3. calls[d] = 0 /\ rows[d].attempts = 0
    BY DEF Init, NoRow
  <2>4. QED
    BY <2>2, <2>3, FS_EmptySet
<1>8. QED
  BY <1>6, <1>7 DEF OInv, CallsWithinAttempts

LEMMA OInvStep ==
  ASSUME OInv, [Next]_vars
  PROVE  OInv'
<1>1. CASE UNCHANGED vars
  BY <1>1, SameRows, SameWorkers, SameRest, QuietStep DEF vars, OInv
<1>2. ASSUME NEW w \in Workers, WorkerStep(w) PROVE OInv'
  BY <1>2, LoopStep, QueueStep, OutcomeStep, AttemptGained, SendStep DEF WorkerStep
<1>3. ASSUME NEW w \in Workers, PublishFails(w) \/ Crash(w) PROVE OInv'
  BY <1>3, LoopStep, QueueStep
<1>4. ASSUME NEW d \in Deliveries,
             \/ Create(d) \/ Delete(d) \/ Tick(d)
             \/ \E delivered \in BOOLEAN : Webhook(d, delivered)
      PROVE  OInv'
  BY <1>4, WebStep, TickStep
<1>5. CASE StreamLost
  BY <1>5, LossStep
<1>6. QED
  BY <1>1, <1>2, <1>3, <1>4, <1>5 DEF Next

\* The rows, the stream and the workers keep their shape, for any number of
\* deliveries and workers and any limits.
THEOREM OutboxTypes == Spec => []TypeOK
<1>1. OInv => TypeOK
  BY DEF OInv
<1>2. QED
  BY <1>1, OInvInit, OInvStep, PTL DEF Spec

\* No delivery makes more provider calls than its counted attempts, whether or
\* not the leases outlive the calls.
THEOREM AttemptsAreBounded == Spec => []CallsWithinAttempts
<1>1. OInv => CallsWithinAttempts
  BY DEF OInv
<1>2. QED
  BY <1>1, OInvInit, OInvStep, PTL DEF Spec
-----------------------------------------------------------------------------
(* The claim is exclusive and what is reported of a delivery stands.  A worker *)
(* that handles a row relies on its lease: no lease runs out under a call, so  *)
(* the row is as the worker loaded it, up to its times, or it is gone.         *)

Leased(row) == row.status = "processing" /\ row.processing_until = "held"

\* What holds of any row: one in processing has a lease, the provider knows only
\* messages that were sent, and failures to send end at the last attempt.
RowSound(row) ==
  /\ row.status = "processing" => row.processing_until # "null"
  /\ row.provider_message_id => row.status \in {"sent", "failed", "gone"}
  /\ row.status = "failed" /\ row.last_error = "send" => row.attempts = MaxAttempts

\* The row as a worker loaded it, compared with the row as it is.
Matches(snap, row) ==
  /\ Leased(snap)
  /\ ~snap.provider_message_id
  /\ snap.attempts = row.attempts

HeldBy(rec, row) ==
  \/ row.status = "gone"
  \/ Leased(row) /\ (rec.pc # "load" => Matches(rec.snap, row))

OneHandler ==
  \A v, w \in Workers :
    workers[v].pc \in Handling /\ workers[w].pc \in Handling /\ Current(v) = Current(w)
      => v = w

ClaimInv ==
  /\ \A d \in Deliveries : RowSound(rows[d])
  /\ \A w \in Workers :
       workers[w].pc \in Handling => HeldBy(workers[w], rows[Current(w)])
  /\ OneHandler

LEMMA ClaimMeans == ClaimInv => ClaimIsExclusive /\ FailedIsExhausted
<1> SUFFICES ASSUME ClaimInv PROVE ClaimIsExclusive /\ FailedIsExhausted
  OBVIOUS
<1>1. HandledOnce
  BY DEF ClaimInv, HandledOnce, Handles, HeldBy, Leased, OneHandler
<1>2. ProcessingHasLease /\ FailedIsExhausted
  BY DEF ClaimInv, RowSound, ProcessingHasLease, FailedIsExhausted
<1>3. QED
  BY <1>1, <1>2 DEF ClaimIsExclusive

\* The steps at which no worker takes up a delivery, and the rows that are
\* handled after them are as they were or gone.
NoneBegins ==
  \A v \in Workers : workers'[v].pc \in Handling => workers'[v] = workers[v]

RowsFair ==
  \A d \in Deliveries :
    /\ RowSound(rows'[d])
    /\ (\E v \in Workers : Handles(v, d)') =>
         \/ rows'[d].status = "gone"
         \/ /\ rows[d].status # "gone"
            /\ Leased(rows'[d])
            /\ rows'[d].attempts = rows[d].attempts

LEMMA FairStep ==
  ASSUME TypeOK, ClaimInv, NoneBegins, RowsFair
  PROVE  ClaimInv'
<1>1. ASSUME NEW v \in Workers, workers'[v].pc \in Handling
      PROVE  /\ workers'[v] = workers[v] /\ workers[v].pc \in Handling
             /\ Current(v)' = Current(v) /\ Current(v) \in Deliveries
             /\ Handles(v, Current(v))'
  <2>1. workers'[v] = workers[v] /\ workers[v].pc \in Busy
    BY <1>1 DEF NoneBegins, Busy
  <2>2. Current(v)' = Current(v) /\ Current(v) \in Deliveries
    BY <2>1, WorkerFields DEF Current
  <2>3. QED
    BY <1>1, <2>1, <2>2 DEF Handles
<1>2. ASSUME NEW v \in Workers, workers'[v].pc \in Handling
      PROVE  HeldBy(workers'[v], rows'[Current(v)'])
  <2>1. HeldBy(workers[v], rows[Current(v)])
    BY <1>1, <1>2 DEF ClaimInv
  <2>2. QED
    BY <1>1, <1>2, <2>1 DEF RowsFair, HeldBy, Matches
<1>3. OneHandler'
  BY <1>1 DEF ClaimInv, OneHandler
<1>4. QED
  BY <1>2, <1>3 DEF ClaimInv, RowsFair

\* A row that is handled after such a step was held before it, or gone.
LEMMA HandledBefore ==
  ASSUME ClaimInv, NoneBegins, NEW v \in Workers, NEW d, Handles(v, d)'
  PROVE  rows[d].status = "gone" \/ Leased(rows[d])
BY DEF NoneBegins, Handles, Current, ClaimInv, HeldBy

\* The rows are fair when they stand still, or change in one row fairly.
LEMMA RowsStill ==
  ASSUME TypeOK, ClaimInv, NoneBegins, rows' = rows
  PROVE  RowsFair
<1>1. ASSUME NEW v \in Workers, NEW d \in Deliveries, Handles(v, d)'
      PROVE  rows[d].status = "gone" \/ Leased(rows[d])
  BY <1>1 DEF NoneBegins, Handles, Current, ClaimInv, HeldBy
<1>2. QED
  BY <1>1 DEF RowsFair, ClaimInv

LEMMA OneRowFair ==
  ASSUME TypeOK, ClaimInv, NoneBegins, NEW d \in Deliveries,
         \A e \in Deliveries \ {d} : rows'[e] = rows[e],
         RowSound(rows'[d]),
         (\E v \in Workers : Handles(v, d)') =>
           \/ rows'[d].status = "gone"
           \/ /\ rows[d].status # "gone"
              /\ Leased(rows'[d])
              /\ rows'[d].attempts = rows[d].attempts
  PROVE  RowsFair
<1>1. ASSUME NEW v \in Workers, NEW e \in Deliveries, Handles(v, e)'
      PROVE  rows[e].status = "gone" \/ Leased(rows[e])
  BY <1>1 DEF NoneBegins, Handles, Current, ClaimInv, HeldBy
<1>2. QED
  BY <1>1 DEF RowsFair, ClaimInv

\* A worker goes where nothing is handled.
LEMMA MovesAway ==
  ASSUME TypeOK, NEW w \in Workers, NEW rec, rec.pc \notin Handling,
         workers' = [workers EXCEPT ![w] = rec]
  PROVE  NoneBegins
BY DEF TypeOK, NoneBegins

LEMMA GoesAway ==
  ASSUME TypeOK, NEW w \in Workers, NEW todo, NEW place, place \notin Handling,
         Goto(w, place, todo)
  PROVE  NoneBegins
<1> DEFINE rec == [Down EXCEPT !.pc = place, !.todo = todo]
<1>1. rec.pc \notin Handling
  BY DEF Down
<1>2. workers' = [workers EXCEPT ![w] = rec]
  BY DEF Goto
<1> HIDE DEF rec
<1>3. QED
  BY <1>1, <1>2, MovesAway

LEMMA DiesAway ==
  ASSUME TypeOK, NEW w \in Workers, Dies(w)
  PROVE  NoneBegins
BY MovesAway DEF Dies, Down, Handling

LEMMA NextAway ==
  ASSUME TypeOK, NEW w \in Workers, NextEntry(w)
  PROVE  NoneBegins
<1> DEFINE rest == Tail(workers[w].todo)
           place == IF rest = <<>> THEN "recover" ELSE "claim"
<1>1. place \notin Handling
  BY DEF Handling
<1>2. Goto(w, place, rest)
  BY DEF NextEntry
<1> HIDE DEF rest, place
<1>3. QED
  BY <1>1, <1>2, GoesAway

\* Afterwards w, which has gone away, does not handle anything, so what it
\* handled is handled by nobody.
LEMMA LeftAlone ==
  ASSUME TypeOK, ClaimInv, NoneBegins, NEW w \in Workers, NEW d \in Deliveries,
         Handles(w, d), workers'[w].pc \notin Handling
  PROVE  \A v \in Workers : ~Handles(v, d)'
BY DEF NoneBegins, Handles, Current, ClaimInv, OneHandler
-----------------------------------------------------------------------------
(* The web requests and the passing of time. *)

\* A row a worker handles is held, or it is gone.
LEMMA HandledRow ==
  ASSUME ClaimInv, NEW v \in Workers, NEW d, Handles(v, d)
  PROVE  rows[d].status = "gone" \/ Leased(rows[d])
BY DEF ClaimInv, Handles, HeldBy

LEMMA WebClaim ==
  ASSUME TypeOK, ClaimInv, NEW d \in Deliveries,
         \/ Create(d) \/ Delete(d) \/ RetryDue(d) \/ QueueLeaseEnds(d)
         \/ \E delivered \in BOOLEAN : Webhook(d, delivered)
  PROVE  ClaimInv'
<1>0. /\ rows[d] \in Row /\ RowSound(rows[d])
      /\ rows \in [Deliveries -> Row]
  BY DEF TypeOK, ClaimInv
<1>1. workers' = workers /\ NoneBegins
  BY DEF Create, Delete, RetryDue, QueueLeaseEnds, Webhook, NoneBegins
<1>2. \A e \in Deliveries \ {d} : rows'[e] = rows[e]
  BY <1>0 DEF Create, Delete, RetryDue, QueueLeaseEnds, Webhook
<1>3. ASSUME NEW v \in Workers, Handles(v, d)'
      PROVE  rows[d].status = "gone" \/ Leased(rows[d])
  BY <1>1, <1>3, HandledRow DEF Handles, Current
<1>4. CASE Create(d)
  <2>1. rows'[d] = [rows[d] EXCEPT !.status = "pending"] /\ rows[d].status = "absent"
    BY <1>0, <1>4 DEF Create, NoRow
  <2>2. rows'[d].status = "pending" /\ ~rows'[d].provider_message_id
    BY <1>0, <1>4, <2>1 DEF Create, NoRow, Row
  <2>3. RowSound(rows'[d])
    BY <2>2 DEF RowSound
  <2>4. \A v \in Workers : ~Handles(v, d)'
    BY <1>3, <2>1 DEF Leased
  <2>5. QED
    BY <1>1, <1>2, <2>3, <2>4, OneRowFair, FairStep
<1>5. CASE Delete(d)
  <2>1. rows'[d] = [rows[d] EXCEPT !.status = "gone"]
    BY <1>0, <1>5 DEF Delete
  <2>2. rows'[d].status = "gone"
    BY <1>0, <2>1 DEF Row
  <2>3. RowSound(rows'[d])
    BY <2>2 DEF RowSound
  <2>4. QED
    BY <1>1, <1>2, <2>2, <2>3, OneRowFair, FairStep
<1>6. CASE RetryDue(d) \/ QueueLeaseEnds(d)
  <2>1. PICK n, q : rows'[d] = [rows[d] EXCEPT !.next_attempt_at = n, !.queued_at = q]
    <3>1. CASE RetryDue(d)
      <4>1. rows'[d] = [rows[d] EXCEPT !.next_attempt_at = "due",
                                       !.queued_at = rows[d].queued_at]
        BY <1>0, <3>1 DEF RetryDue, Row
      <4>2. QED
        BY <4>1
    <3>2. CASE QueueLeaseEnds(d)
      <4>1. rows'[d] = [rows[d] EXCEPT !.next_attempt_at = rows[d].next_attempt_at,
                                       !.queued_at = "stale"]
        BY <1>0, <3>2 DEF QueueLeaseEnds, Row
      <4>2. QED
        BY <4>1
    <3>3. QED
      BY <1>6, <3>1, <3>2
  <2>2. /\ rows'[d].status = rows[d].status
        /\ rows'[d].attempts = rows[d].attempts
        /\ rows'[d].processing_until = rows[d].processing_until
        /\ rows'[d].provider_message_id = rows[d].provider_message_id
        /\ rows'[d].last_error = rows[d].last_error
    BY <1>0, <2>1 DEF Row
  <2>3. RowSound(rows'[d])
    BY <1>0, <2>2 DEF RowSound
  <2>4. QED
    BY <1>1, <1>2, <1>3, <2>2, <2>3, OneRowFair, FairStep DEF Leased
<1>7. ASSUME NEW delivered \in BOOLEAN, Webhook(d, delivered) PROVE ClaimInv'
  <2>1. /\ rows[d].status \in {"sent", "failed"}
        /\ rows[d].status # "gone" /\ ~Leased(rows[d])
    BY <1>0, <1>7 DEF Webhook, Present, RowSound, Leased
  <2>2. rows'[d].status \in {"sent", "failed"}
        /\ rows'[d].last_error = IF delivered THEN "null" ELSE "provider"
    BY <1>0, <1>7 DEF Webhook, Row
  <2>3. rows'[d].status = "failed" => rows'[d].last_error = "provider"
    BY <1>0, <1>7 DEF Webhook, Row
  <2>4. RowSound(rows'[d])
    BY <2>2, <2>3 DEF RowSound
  <2>5. \A v \in Workers : ~Handles(v, d)'
    BY <1>3, <2>1
  <2>6. QED
    BY <1>1, <1>2, <2>4, <2>5, OneRowFair, FairStep
<1>8. QED
  BY <1>4, <1>5, <1>6, <1>7

\* The lease of a row that is handled does not run out.
LEMMA LeaseClaim ==
  ASSUME TypeOK, ClaimInv, LeaseOutlivesCall, NEW d \in Deliveries, LeaseEnds(d)
  PROVE  ClaimInv'
<1>0. rows[d] \in Row /\ rows \in [Deliveries -> Row] /\ RowSound(rows[d])
  BY DEF TypeOK, ClaimInv
<1>1. workers' = workers /\ NoneBegins
  BY DEF LeaseEnds, NoneBegins
<1>2. \A v \in Workers : ~Handles(v, d)'
  BY <1>1 DEF LeaseEnds, Handles, Current
<1>3. /\ \A e \in Deliveries \ {d} : rows'[e] = rows[e]
      /\ rows'[d] = [rows[d] EXCEPT !.processing_until = "expired"]
  BY <1>0 DEF LeaseEnds
<1>4. RowSound(rows'[d])
  BY <1>0, <1>3 DEF RowSound, Row
<1>5. QED
  BY <1>1, <1>2, <1>3, <1>4, OneRowFair, FairStep

-----------------------------------------------------------------------------
(* The steps of the loop that handle nothing. *)

LEMMA LoopClaim ==
  ASSUME TypeOK, ClaimInv, NEW w \in Workers,
         \/ Start(w) \/ Select(w) \/ Publish(w) \/ PublishFails(w)
         \/ Read(w) \/ ReadNothing(w) \/ Crash(w)
  PROVE  ClaimInv'
<1>1. rows' = rows
  BY DEF Start, Select, Publish, PublishFails, Read, ReadNothing, Crash
<1>0. NoneBegins => ClaimInv'
  BY <1>1, RowsStill, FairStep
<1>2. \A place \in {"recover", "read", "publish", "queued", "claim"} : place \notin Handling
  BY DEF Handling
<1>3. ASSUME NEW todo, NEW place \in {"recover", "read", "publish", "queued", "claim"},
             Goto(w, place, todo)
      PROVE  NoneBegins
  BY <1>2, <1>3, GoesAway
<1> SUFFICES NoneBegins
  BY <1>0
<1>4. CASE Start(w) \/ Read(w)
  <2>1. CASE Start(w)
    <3>1. Goto(w, "recover", <<>>)
      BY <2>1 DEF Start
    <3>2. QED
      BY <1>3, <3>1
  <2>2. CASE Read(w)
    <3>1. PICK todo : Goto(w, "claim", todo)
      BY <2>2 DEF Read
    <3>2. QED
      BY <1>3, <3>1
  <2>3. QED
    BY <1>4, <2>1, <2>2
<1>5. CASE Select(w)
  <2> DEFINE due == Oldest({d \in Deliveries : Queueable(d)})
             place == IF due = {} THEN "read" ELSE "publish"
  <2>1. PICK batch \in [1 .. Cardinality(due) -> due] : Goto(w, place, batch)
    BY <1>5 DEF Select
  <2>2. place \in {"read", "publish"}
    OBVIOUS
  <2> HIDE DEF place, due
  <2>3. QED
    BY <1>3, <2>1, <2>2
<1>6. CASE Publish(w)
  <2>1. CASE workers' = [workers EXCEPT ![w].pc = "queued"]
    <3> DEFINE rec == [workers[w] EXCEPT !.pc = "queued"]
    <3>1. rec.pc = "queued" /\ workers' = [workers EXCEPT ![w] = rec]
      BY <2>1 DEF TypeOK, Worker
    <3> HIDE DEF rec
    <3>2. rec.pc \notin Handling
      BY <1>2, <3>1
    <3>3. QED
      BY <3>1, <3>2, MovesAway
  <2>2. CASE Dies(w)
    BY <2>2, DiesAway
  <2>3. QED
    BY <1>6, <2>1, <2>2 DEF Publish
<1>7. CASE PublishFails(w) \/ ReadNothing(w) \/ Crash(w)
  <2>1. Goto(w, "read", <<>>) \/ Goto(w, "recover", <<>>) \/ Dies(w)
    BY <1>7 DEF PublishFails, ReadNothing, Crash
  <2>2. CASE Dies(w)
    BY <2>2, DiesAway
  <2>3. QED
    BY <1>3, <2>1, <2>2
<1>8. QED
  BY <1>4, <1>5, <1>6, <1>7

\* Rows whose lease ran out are handled by nobody.
LEMMA RecoverClaim ==
  ASSUME TypeOK, ClaimInv, NEW w \in Workers, RecoverExpired(w)
  PROVE  ClaimInv'
<1>1. NoneBegins
  BY GoesAway DEF RecoverExpired, Handling
<1>2. ASSUME NEW d \in Deliveries
      PROVE  /\ RowSound(rows'[d])
             /\ (\E v \in Workers : Handles(v, d)') => rows'[d] = rows[d]
  <2>1. rows[d] \in Row /\ RowSound(rows[d])
    BY DEF TypeOK, ClaimInv
  <2>2. CASE rows[d].status = "processing" /\ rows[d].processing_until = "expired"
    <3>1. rows'[d] = [rows[d] EXCEPT !.status = "pending", !.queued_at = "null",
                                     !.processing_until = "null"]
      BY <2>2 DEF RecoverExpired
    <3>2. /\ rows'[d].status = "pending"
          /\ rows'[d].provider_message_id = rows[d].provider_message_id
      BY <2>1, <3>1 DEF Row
    <3>3. RowSound(rows'[d])
      BY <2>1, <2>2, <3>2 DEF RowSound
    <3>4. \A v \in Workers : ~Handles(v, d)'
      BY <1>1, <2>2 DEF NoneBegins, Handles, Current, ClaimInv, HeldBy, Leased
    <3>5. QED
      BY <3>3, <3>4
  <2>3. CASE ~(rows[d].status = "processing" /\ rows[d].processing_until = "expired")
    BY <2>1, <2>3 DEF RecoverExpired
  <2>4. QED
    BY <2>2, <2>3
<1>3. ASSUME NEW d \in Deliveries, NEW v \in Workers, Handles(v, d)'
      PROVE  rows[d].status = "gone" \/ Leased(rows[d])
  BY <1>1, <1>3 DEF NoneBegins, Handles, Current, ClaimInv, HeldBy
<1>4. RowsFair
  BY <1>2, <1>3 DEF RowsFair
<1>5. QED
  BY <1>1, <1>4, FairStep

\* queued_at is written into whatever the row has become, and nothing else.
LEMMA QueuedClaim ==
  ASSUME TypeOK, ClaimInv, NEW w \in Workers, MarkQueued(w)
  PROVE  ClaimInv'
<1>1. PICK d \in Deliveries : d = Current(w)
  BY WorkerFields DEF MarkQueued, At, Busy
<1> DEFINE rest == Tail(workers[w].todo)
           place == IF rest = <<>> THEN "read" ELSE "publish"
           rec == [Down EXCEPT !.pc = place, !.todo = rest, !.first = FALSE]
<1>2. CASE ~Present(d)
  BY <1>1, <1>2, DiesAway, RowsStill, FairStep DEF MarkQueued
<1>3. CASE Present(d)
  <2>1. workers' = [workers EXCEPT ![w] = rec]
    BY <1>1, <1>3 DEF MarkQueued
  <2>2. rec.pc \notin Handling
    BY DEF Down, Handling
  <2> HIDE DEF rec
  <2>3. NoneBegins
    BY <2>1, <2>2, MovesAway
  <2>4. rows[d] \in Row /\ RowSound(rows[d]) /\ rows \in [Deliveries -> Row]
    BY <1>1 DEF TypeOK, ClaimInv
  <2>5. /\ \A e \in Deliveries \ {d} : rows'[e] = rows[e]
        /\ rows'[d] = [rows[d] EXCEPT !.queued_at = "fresh"]
    BY <1>1, <1>3, <2>4 DEF MarkQueued
  <2>6. /\ rows'[d].status = rows[d].status
        /\ rows'[d].attempts = rows[d].attempts
        /\ rows'[d].processing_until = rows[d].processing_until
        /\ rows'[d].provider_message_id = rows[d].provider_message_id
        /\ rows'[d].last_error = rows[d].last_error
    BY <2>4, <2>5 DEF Row
  <2>7. RowSound(rows'[d])
    BY <2>4, <2>6 DEF RowSound
  <2>8. ASSUME NEW v \in Workers, Handles(v, d)'
        PROVE  rows[d].status = "gone" \/ Leased(rows[d])
    BY <2>3, <2>8, HandledBefore
  <2>9. QED
    BY <1>1, <2>3, <2>5, <2>6, <2>7, <2>8, OneRowFair, FairStep DEF Leased
<1>4. QED
  BY <1>2, <1>3

-----------------------------------------------------------------------------
(* process_delivery: the claim, the call and the outcome. *)

LEMMA TakeClaim ==
  ASSUME TypeOK, ClaimInv, NEW w \in Workers, Claim(w)
  PROVE  ClaimInv'
<1> DEFINE d == Current(w)
<1>1. d \in Deliveries /\ workers[w].pc = "claim"
  BY WorkerFields DEF Claim, At, Busy
<1>2. CASE ~Claimable(d)
  BY <1>2, NextAway, RowsStill, FairStep DEF Claim
<1>3. CASE Claimable(d)
  <2>0. rows[d] \in Row /\ rows \in [Deliveries -> Row] /\ RowSound(rows[d])
    BY <1>1 DEF TypeOK, ClaimInv
  <2>1. /\ \A e \in Deliveries \ {d} : rows'[e] = rows[e]
        /\ rows'[d] = [rows[d] EXCEPT !.status = "processing", !.attempts = @ + 1,
                                      !.queued_at = "null",
                                      !.processing_until = "held"]
    BY <1>1, <1>3, <2>0 DEF Claim
  <2>2. /\ Leased(rows'[d])
        /\ rows'[d].provider_message_id = rows[d].provider_message_id
    BY <2>0, <2>1 DEF Row, Leased
  <2>3. RowSound(rows'[d])
    BY <1>3, <2>0, <2>2 DEF RowSound, Leased, Claimable
  <2>4. \A v \in Workers : ~Handles(v, d)
    BY <1>3, HandledRow DEF Claimable, Leased
  <2>5. \A v \in Workers : workers'[v] = IF v = w THEN [workers[w] EXCEPT !.pc = "load"]
                                         ELSE workers[v]
    BY <1>3 DEF Claim, TypeOK
  <2>6. /\ workers'[w].pc = "load" /\ Current(w)' = d
        /\ \A v \in Workers \ {w} : workers'[v] = workers[v] /\ Current(v)' = Current(v)
    BY <2>5, WorkerFields DEF Worker, Current
  <2>7. ASSUME NEW v \in Workers, workers'[v].pc \in Handling
        PROVE  HeldBy(workers'[v], rows'[Current(v)'])
    <3>1. CASE v = w
      BY <2>2, <2>6, <3>1 DEF HeldBy
    <3>2. CASE v # w
      <4>1. /\ workers[v].pc \in Handling /\ workers'[v] = workers[v]
            /\ Current(v)' = Current(v) /\ Current(v) # d
        BY <2>4, <2>6, <2>7, <3>2 DEF Handles
      <4>2. Current(v) \in Deliveries
        BY <4>1, WorkerFields DEF Busy
      <4> HIDE DEF d
      <4>3. QED
        BY <2>1, <4>1, <4>2 DEF ClaimInv
    <3>3. QED
      BY <3>1, <3>2
  <2>8. OneHandler'
    <3> HIDE DEF d
    <3>1. QED
      BY <2>4, <2>6 DEF ClaimInv, OneHandler, Handles
  <2>9. \A e \in Deliveries : RowSound(rows'[e])
    BY <2>1, <2>3 DEF ClaimInv
  <2>10. QED
    BY <2>7, <2>8, <2>9 DEF ClaimInv
<1>4. QED
  BY <1>2, <1>3

\* A worker goes on with the delivery it handles.
LEMMA StaysWith ==
  ASSUME TypeOK, ClaimInv, NEW w \in Workers, NEW rec,
         workers[w].pc \in Handling, rec.todo = workers[w].todo,
         workers' = [workers EXCEPT ![w] = rec], rows' = rows,
         HeldBy(rec, rows[Current(w)])
  PROVE  ClaimInv'
<1>1. \A v \in Workers : workers'[v] = IF v = w THEN rec ELSE workers[v]
  BY DEF TypeOK
<1>2. \A v \in Workers : Current(v)' = Current(v)
  BY <1>1 DEF Current
<1>3. \A v \in Workers : workers'[v].pc \in Handling => workers[v].pc \in Handling
  BY <1>1
<1>4. OneHandler'
  BY <1>2, <1>3 DEF ClaimInv, OneHandler
<1>5. \A v \in Workers :
        workers'[v].pc \in Handling => HeldBy(workers'[v], rows'[Current(v)'])
  BY <1>1, <1>2, <1>3 DEF ClaimInv
<1>6. QED
  BY <1>4, <1>5 DEF ClaimInv

LEMMA CallClaim ==
  ASSUME TypeOK, ClaimInv, NEW w \in Workers, Load(w) \/ Send(w) \/ SendFails(w)
  PROVE  ClaimInv'
<1> DEFINE d == Current(w)
<1>1. workers[w].pc \in {"load", "send"} /\ workers[w].pc \in Handling
      /\ workers[w].pc \in Busy
  BY DEF Load, Send, SendFails, At, Handling, Busy
<1>2. workers[w] \in Worker /\ d \in Deliveries /\ HeldBy(workers[w], rows[d])
  BY <1>1, WorkerFields DEF ClaimInv
<1>3. CASE Load(w) /\ ~Present(d)
  BY <1>3, NextAway, RowsStill, FairStep DEF Load
<1>4. CASE Load(w) /\ Present(d)
  <2> DEFINE rec == [workers[w] EXCEPT !.pc = "send", !.snap = rows[d]]
  <2>1. workers' = [workers EXCEPT ![w] = rec] /\ rows' = rows
    BY <1>4 DEF Load, TypeOK
  <2>2. rec.pc = "send" /\ rec.snap = rows[d] /\ rec.todo = workers[w].todo
    BY <1>2 DEF Worker
  <2>3. Leased(rows[d]) /\ ~rows[d].provider_message_id
    BY <1>2, <1>4 DEF Present, HeldBy, Leased, ClaimInv, RowSound
  <2>4. HeldBy(rec, rows[d])
    BY <2>2, <2>3 DEF HeldBy, Matches
  <2> HIDE DEF rec
  <2>5. QED
    BY <1>1, <2>1, <2>2, <2>4, StaysWith
<1>5. CASE Send(w) \/ SendFails(w)
  <2>1. PICK place \in {"sent", "unsent"} :
          workers' = [workers EXCEPT ![w].pc = place] /\ rows' = rows
    BY <1>5 DEF Send, SendFails
  <2> DEFINE rec == [workers[w] EXCEPT !.pc = place]
  <2>2. workers' = [workers EXCEPT ![w] = rec]
    BY <2>1
  <2>3. rec.pc = place /\ rec.snap = workers[w].snap /\ rec.todo = workers[w].todo
    BY <1>2 DEF Worker
  <2>4. workers[w].pc = "send"
    BY <1>5 DEF Send, SendFails, At
  <2>5. HeldBy(rec, rows[d])
    BY <1>2, <2>3, <2>4 DEF HeldBy
  <2> HIDE DEF rec
  <2>6. QED
    BY <1>1, <2>1, <2>2, <2>3, <2>5, StaysWith
<1>6. QED
  BY <1>3, <1>4, <1>5

\* What a flush writes where the row is as it was loaded: all that the outcome
\* changes, and attempts and last_error as they are or as the outcome has them.
LEMMA FlushWrites ==
  ASSUME TypeOK, NEW d \in Deliveries, NEW snap \in Row, NEW new \in Row,
         Flush(d, snap, new)
  PROVE  /\ \A e \in Deliveries \ {d} : rows'[e] = rows[e]
         /\ new.status # snap.status => rows'[d].status = new.status
         /\ new.attempts = snap.attempts => rows'[d].attempts = rows[d].attempts
         /\ new.provider_message_id = snap.provider_message_id =>
              rows'[d].provider_message_id = rows[d].provider_message_id
         /\ rows'[d].last_error \in {rows[d].last_error, new.last_error}
<1>1. \A e \in Deliveries \ {d} : rows'[e] = rows[e]
  BY DEF Flush, TypeOK
<1> DEFINE base == rows[d]
           row == [f \in DOMAIN new |->
                     IF new[f] = snap[f] /\ (f = "next_attempt_at" => new[f] # "future")
                     THEN base[f] ELSE new[f]]
<1>2. rows'[d] = row
  BY DEF Flush, TypeOK
<1>3. {"status", "attempts", "provider_message_id", "last_error"} \subseteq DOMAIN new
  BY DEF Row
<1>4. /\ row.status = IF new.status = snap.status THEN base.status ELSE new.status
      /\ row.attempts = IF new.attempts = snap.attempts THEN base.attempts
                        ELSE new.attempts
      /\ row.provider_message_id =
           IF new.provider_message_id = snap.provider_message_id
           THEN base.provider_message_id ELSE new.provider_message_id
      /\ row.last_error = IF new.last_error = snap.last_error THEN base.last_error
                          ELSE new.last_error
  BY <1>3
<1> HIDE DEF row
<1>5. QED
  BY <1>1, <1>2, <1>4

LEMMA OutcomeClaim ==
  ASSUME TypeOK, ClaimInv, NEW w \in Workers, MarkSent(w) \/ MarkFailed(w)
  PROVE  ClaimInv'
<1> DEFINE snap == workers[w].snap
<1>1. /\ workers[w].pc \in {"sent", "unsent"} /\ workers[w].pc \in Handling
      /\ workers[w].pc \in Busy
  BY DEF MarkSent, MarkFailed, At, Handling, Busy
<1>2. PICK d \in Deliveries : d = Current(w)
  BY <1>1, WorkerFields
<1>3. snap \in Row /\ HeldBy(workers[w], rows[d]) /\ Handles(w, d)
  BY <1>1, <1>2, WorkerFields DEF ClaimInv, Handles
<1>4. CASE ~Present(d)
  BY <1>2, <1>4, DiesAway, RowsStill, FairStep DEF MarkSent, MarkFailed
<1>5. CASE Present(d)
  <2>1. NextEntry(w) /\ NoneBegins
    BY <1>2, <1>5, NextAway DEF MarkSent, MarkFailed
  <2>2. \A v \in Workers : ~Handles(v, d)'
    <3>1. workers'[w].pc \notin Handling
      BY <2>1 DEF NextEntry, Goto, Down, TypeOK, Handling
    <3>2. QED
      BY <1>2, <1>3, <2>1, <3>1, LeftAlone
  <2>3. Matches(snap, rows[d])
    BY <1>1, <1>2, <1>3, <1>5 DEF HeldBy, Present
  <2>4. snap.status = "processing" /\ snap.attempts = rows[d].attempts
        /\ snap.provider_message_id = FALSE
    BY <1>2, <1>3, <2>3 DEF Matches, Leased, Row
  <2>5. rows[d] \in Row /\ RowSound(rows[d]) /\ rows[d].provider_message_id = FALSE
        /\ rows[d].attempts <= MaxAttempts /\ rows[d].attempts \in Nat
    <3>1. rows[d] \in Row /\ RowSound(rows[d])
      BY <1>2, <1>3 DEF TypeOK, ClaimInv
    <3>2. rows[d].status = "processing"
      BY <1>2, <1>3, <1>5 DEF HeldBy, Present, Leased
    <3>3. rows[d].provider_message_id = FALSE
      BY <3>1, <3>2 DEF RowSound, Row
    <3>4. rows[d].attempts \in 0 .. MaxAttempts
      BY <3>1 DEF Row
    <3>5. QED
      BY <3>1, <3>3, <3>4, OutboxAssumption
  <2> HIDE DEF snap
  <2>6. RowSound(rows'[d]) /\ \A e \in Deliveries \ {d} : rows'[e] = rows[e]
    <3>1. CASE MarkSent(w)
      <4>1. PICK answered \in BOOLEAN :
              Flush(d, snap, [snap EXCEPT !.status = "sent",
                                          !.provider_message_id = answered,
                                          !.next_attempt_at = "null",
                                          !.queued_at = "null",
                                          !.processing_until = "null",
                                          !.last_error = "null"])
        BY <1>2, <1>5, <3>1 DEF MarkSent, snap
      <4> DEFINE new == [snap EXCEPT !.status = "sent", !.provider_message_id = answered,
                                     !.next_attempt_at = "null", !.queued_at = "null",
                                     !.processing_until = "null", !.last_error = "null"]
      <4>2. new \in Row /\ new.status = "sent"
        BY <1>2, <1>3 DEF Row, Statuses
      <4>3. Flush(d, snap, new)
        BY <4>1
      <4> HIDE DEF new
      <4>4. rows'[d].status = "sent" /\ \A e \in Deliveries \ {d} : rows'[e] = rows[e]
        BY <1>2, <1>3, <2>4, <4>2, <4>3, FlushWrites
      <4>5. QED
        BY <4>4 DEF RowSound
    <3>2. CASE MarkFailed(w)
      <4> DEFINE s == IF snap.attempts >= MaxAttempts THEN "failed" ELSE "pending"
                 n == IF snap.attempts >= MaxAttempts THEN "null" ELSE "future"
                 new == [snap EXCEPT !.status = s, !.next_attempt_at = n,
                                     !.queued_at = "null", !.processing_until = "null",
                                     !.last_error = "send"]
      <4>1. Flush(d, snap, new)
        BY <1>2, <1>5, <3>2 DEF MarkFailed, snap, Failed
      <4>2. s \in Statuses /\ s # "processing" /\ n \in {"null", "future", "due"}
        BY DEF Statuses
      <4>3. s = "failed" => snap.attempts >= MaxAttempts
        OBVIOUS
      <4> HIDE DEF s, n
      <4>4. /\ new \in Row /\ new.status = s /\ new.attempts = snap.attempts
            /\ new.provider_message_id = snap.provider_message_id
        BY <1>2, <1>3, <4>2 DEF Row
      <4> HIDE DEF new
      <4>5. /\ rows'[d].status = s /\ rows'[d].attempts = rows[d].attempts
            /\ rows'[d].provider_message_id = rows[d].provider_message_id
            /\ \A e \in Deliveries \ {d} : rows'[e] = rows[e]
        BY <1>2, <1>3, <2>4, <4>1, <4>2, <4>4, FlushWrites
      <4>6. s = "failed" => rows[d].attempts = MaxAttempts
        BY <2>4, <2>5, <4>3, OutboxAssumption
      <4>7. QED
        BY <2>5, <4>2, <4>5, <4>6 DEF RowSound
    <3>3. QED
      BY <3>1, <3>2
  <2>7. QED
    BY <1>2, <1>3, <2>1, <2>2, <2>6, OneRowFair, FairStep
<1>6. QED
  BY <1>4, <1>5

-----------------------------------------------------------------------------
LEMMA ClaimInvInit == Init => ClaimInv
<1> SUFFICES ASSUME Init PROVE ClaimInv
  OBVIOUS
<1>1. \A d \in Deliveries : RowSound(rows[d])
  BY DEF Init, NoRow, RowSound
<1>2. \A w \in Workers : workers[w].pc \notin Handling
  BY DEF Init, Down, Handling
<1>3. QED
  BY <1>1, <1>2 DEF ClaimInv, OneHandler

LEMMA ClaimInvStep ==
  ASSUME LeaseOutlivesCall, TypeOK, ClaimInv, [Next]_vars
  PROVE  ClaimInv'
<1>1. CASE UNCHANGED vars
  BY <1>1, RowsStill, FairStep DEF vars, NoneBegins
<1>2. ASSUME NEW w \in Workers, WorkerStep(w) PROVE ClaimInv'
  BY <1>2, LoopClaim, RecoverClaim, QueuedClaim, TakeClaim, CallClaim, OutcomeClaim
     DEF WorkerStep
<1>3. ASSUME NEW w \in Workers, PublishFails(w) \/ Crash(w) PROVE ClaimInv'
  BY <1>3, LoopClaim
<1>4. ASSUME NEW d \in Deliveries,
             \/ Create(d) \/ Delete(d) \/ Tick(d)
             \/ \E delivered \in BOOLEAN : Webhook(d, delivered)
      PROVE  ClaimInv'
  BY <1>4, WebClaim, LeaseClaim DEF Tick
<1>5. CASE StreamLost
  BY <1>5, RowsStill, FairStep DEF StreamLost, NoneBegins
<1>6. QED
  BY <1>1, <1>2, <1>3, <1>4, <1>5 DEF Next

\* The call of a worker is about a row in processing, and no step but the
\* provider's verdict or the removal moves a row from "sent".
SentStands ==
  \A d \in Deliveries :
    rows[d].status = "sent" =>
      /\ rows'[d].status \in {"sent", "failed", "gone"}
      /\ calls'[d] = calls[d]

\* Writing an outcome, or calling the provider, leaves the "sent" rows alone: a
\* worker's row is in processing or gone.
LEMMA SentByOutcome ==
  ASSUME TypeOK, ClaimInv, NEW w \in Workers, MarkSent(w) \/ MarkFailed(w)
  PROVE  SentStands
<1>1. /\ workers[w].pc \in Handling /\ workers[w].pc \in Busy
      /\ calls' = calls
  BY DEF MarkSent, MarkFailed, At, Handling, Busy
<1>2. PICK d \in Deliveries : d = Current(w)
  BY <1>1, WorkerFields
<1>3. rows[d].status # "sent"
  BY <1>1, <1>2, HandledRow DEF Handles, Leased
<1>4. \A e \in Deliveries \ {d} : rows'[e] = rows[e]
  BY <1>2 DEF MarkSent, MarkFailed, Flush, TypeOK
<1>5. QED
  BY <1>1, <1>3, <1>4 DEF SentStands

LEMMA SentByCall ==
  ASSUME TypeOK, ClaimInv, NEW w \in Workers, Send(w) \/ SendFails(w)
  PROVE  SentStands
<1>1. /\ workers[w].pc \in Handling /\ workers[w].pc \in Busy
      /\ rows' = rows
  BY DEF Send, SendFails, At, Handling, Busy
<1>2. PICK d \in Deliveries : d = Current(w)
  BY <1>1, WorkerFields
<1>3. rows[d].status # "sent"
  BY <1>1, <1>2, HandledRow DEF Handles, Leased
<1>4. \A e \in Deliveries \ {d} : calls'[e] = calls[e]
  BY <1>2 DEF Send, SendFails, TypeOK
<1>5. QED
  BY <1>1, <1>3, <1>4 DEF SentStands

LEMMA SentByLoop ==
  ASSUME TypeOK, NEW w \in Workers,
         \/ Start(w) \/ RecoverExpired(w) \/ Select(w) \/ Publish(w) \/ MarkQueued(w)
         \/ Read(w) \/ ReadNothing(w) \/ Claim(w) \/ Load(w) \/ PublishFails(w) \/ Crash(w)
  PROVE  SentStands
<1>1. calls' = calls
  BY DEF Start, RecoverExpired, Select, Publish, MarkQueued, Read, ReadNothing, Claim,
         Load, PublishFails, Crash
<1>2. ASSUME NEW d \in Deliveries, rows[d].status = "sent"
      PROVE  rows'[d].status = "sent"
  <2>1. rows[d] \in Row /\ rows \in [Deliveries -> Row]
    BY DEF TypeOK
  <2>2. CASE rows' = rows
    BY <1>2, <2>2
  <2>3. CASE RecoverExpired(w)
    BY <1>2, <2>3 DEF RecoverExpired
  <2>4. CASE MarkQueued(w) \/ Claim(w)
    <3>1. PICK e \in Deliveries : e = Current(w)
      BY <2>4, WorkerFields DEF MarkQueued, Claim, At, Busy
    <3>2. CASE e = d
      <4>1. ~Claimable(e)
        BY <1>2, <3>2 DEF Claimable
      <4>2. rows' = rows \/ rows' = [rows EXCEPT ![d].queued_at = "fresh"]
        BY <2>4, <3>1, <3>2, <4>1 DEF MarkQueued, Claim
      <4>3. rows'[d] = rows[d] \/ rows'[d] = [rows[d] EXCEPT !.queued_at = "fresh"]
        BY <2>1, <4>2
      <4>4. QED
        BY <1>2, <2>1, <4>3 DEF Row
    <3>3. CASE e # d
      <4>1. rows'[d] = rows[d]
        BY <2>1, <2>4, <3>1, <3>3 DEF MarkQueued, Claim
      <4>2. QED
        BY <1>2, <4>1
    <3>4. QED
      BY <3>2, <3>3
  <2>5. QED
    BY <2>2, <2>3, <2>4
       DEF Start, Select, Publish, Read, ReadNothing, Load, PublishFails, Crash
<1>3. QED
  BY <1>1, <1>2 DEF SentStands

LEMMA SentByOthers ==
  ASSUME TypeOK, ClaimInv, NEW d \in Deliveries,
         \/ Create(d) \/ Delete(d) \/ Tick(d)
         \/ \E delivered \in BOOLEAN : Webhook(d, delivered)
  PROVE  SentStands
<1>1. calls' = calls
  BY DEF Create, Delete, Tick, RetryDue, QueueLeaseEnds, LeaseEnds, Webhook
<1>2. rows[d] \in Row /\ rows \in [Deliveries -> Row]
  BY DEF TypeOK
<1>3. \A e \in Deliveries \ {d} : rows'[e] = rows[e]
  BY <1>2 DEF Create, Delete, Tick, RetryDue, QueueLeaseEnds, LeaseEnds, Webhook
<1>4. ASSUME rows[d].status = "sent"
      PROVE  rows'[d].status \in {"sent", "failed", "gone"}
  <2>1. CASE Create(d)
    BY <1>4, <2>1 DEF Create, NoRow
  <2>2. CASE Delete(d)
    BY <1>2, <2>2 DEF Delete, Row
  <2>3. CASE RetryDue(d)
    BY <1>2, <1>4, <2>3 DEF RetryDue, Row
  <2>4. CASE QueueLeaseEnds(d)
    BY <1>2, <1>4, <2>4 DEF QueueLeaseEnds, Row
  <2>5. CASE LeaseEnds(d)
    BY <1>2, <1>4, <2>5 DEF LeaseEnds, Row
  <2>6. ASSUME NEW delivered \in BOOLEAN, Webhook(d, delivered)
        PROVE  rows'[d].status \in {"sent", "failed"}
    BY <1>2, <2>6 DEF Webhook, Row
  <2>7. QED
    BY <2>1, <2>2, <2>3, <2>4, <2>5, <2>6 DEF Tick
<1>5. QED
  BY <1>1, <1>3, <1>4 DEF SentStands

LEMMA SentStep ==
  ASSUME TypeOK, ClaimInv, [Next]_vars
  PROVE  SentStands
<1>1. CASE UNCHANGED vars
  BY <1>1 DEF vars, SentStands
<1>2. ASSUME NEW w \in Workers, WorkerStep(w) \/ PublishFails(w) \/ Crash(w)
      PROVE  SentStands
  BY <1>2, SentByLoop, SentByCall, SentByOutcome DEF WorkerStep
<1>3. ASSUME NEW d \in Deliveries,
             \/ Create(d) \/ Delete(d) \/ Tick(d)
             \/ \E delivered \in BOOLEAN : Webhook(d, delivered)
      PROVE  SentStands
  BY <1>3, SentByOthers
<1>4. CASE StreamLost
  BY <1>4 DEF StreamLost, SentStands
<1>5. QED
  BY <1>1, <1>2, <1>3, <1>4 DEF Next

\* No two workers handle the same delivery, whoever inserts, removes or publishes
\* it and whichever workers die, as long as no call outlasts its lease; and a row
\* in processing has a lease for recover_expired_processing to find.
THEOREM ClaimsAreExclusive ==
  ASSUME LeaseOutlivesCall
  PROVE  Spec => []ClaimIsExclusive
<1>1. Init => OInv /\ ClaimInv
  BY OInvInit, ClaimInvInit
<1>2. OInv /\ ClaimInv /\ [Next]_vars => (OInv /\ ClaimInv)'
  BY OInvStep, ClaimInvStep DEF OInv
<1>3. OInv /\ ClaimInv => ClaimIsExclusive
  BY ClaimMeans
<1>4. QED
  BY <1>1, <1>2, <1>3, PTL DEF Spec

\* What is reported of a delivery stands under the same condition: "failed" after a
\* failure to send means that every attempt is used, and a row that is "sent" is
\* not sent again and only the provider or its removal changes that.
THEOREM OutcomesStand ==
  ASSUME LeaseOutlivesCall
  PROVE  Spec => OutcomesAreFinal
<1>1. Init => OInv /\ ClaimInv
  BY OInvInit, ClaimInvInit
<1>2. OInv /\ ClaimInv /\ [Next]_vars => (OInv /\ ClaimInv)'
  BY OInvStep, ClaimInvStep DEF OInv
<1>3. OInv /\ ClaimInv => FailedIsExhausted
  BY ClaimMeans
<1>4. OInv /\ ClaimInv /\ [Next]_vars
        => [\A d \in Deliveries :
              rows[d].status = "sent" =>
                /\ rows'[d].status \in {"sent", "failed", "gone"}
                /\ calls'[d] = calls[d]]_vars
  BY SentStep DEF OInv, SentStands
<1>5. QED
  BY <1>1, <1>2, <1>3, <1>4, PTL DEF Spec, OutcomesAreFinal, SentIsFinal
=============================================================================
