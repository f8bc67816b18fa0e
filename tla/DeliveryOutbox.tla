--------------------------- MODULE DeliveryOutbox ---------------------------
(***************************************************************************)
(* The WhatsApp outbox: rows of notification_deliveries, the Redis stream  *)
(* that carries their ids, the worker process that publishes, claims and   *)
(* sends them (app/workers/whatsapp_worker.py), the web requests that      *)
(* insert and remove rows, and the provider's status webhook.              *)
(*                                                                         *)
(* A worker step ends where the code commits, calls Redis or calls the     *)
(* provider.  Time is abstract: a timestamp is null, ahead of the clock or *)
(* behind it, and a step of its own moves it from ahead to behind.         *)
(***************************************************************************)
EXTENDS Naturals, Sequences, FiniteSets

CONSTANTS Deliveries,        \* delivery ids, ordered as their created_at
          Workers,           \* worker processes
          MaxAttempts,       \* WHATSAPP_MAX_ATTEMPTS
          BatchSize,         \* WHATSAPP_WORKER_BATCH_SIZE
          StreamLimit,       \* WHATSAPP_STREAM_MAXLEN
          LeaseOutlivesCall, \* no call outlasts WHATSAPP_WORKER_LEASE_SECONDS
          MaxCrashes,        \* bound: crashes of worker processes
          MaxFaults          \* bound: failed Redis commands and stream losses

ASSUME OutboxAssumption ==
  /\ Deliveries \subseteq Nat /\ IsFiniteSet(Deliveries)
  /\ IsFiniteSet(Workers)
  /\ MaxAttempts \in Nat \ {0}
  /\ BatchSize \in Nat \ {0}
  /\ StreamLimit \in Nat \ {0}
  /\ LeaseOutlivesCall \in BOOLEAN
  /\ MaxCrashes \in Nat
  /\ MaxFaults \in Nat

Statuses == {"absent", "pending", "processing", "sent", "failed", "gone"}

Row == [status : Statuses, attempts : 0 .. MaxAttempts,
        next_attempt_at : {"null", "future", "due"},
        queued_at : {"null", "fresh", "stale"},
        processing_until : {"null", "held", "expired"},
        provider_message_id : BOOLEAN,
        last_error : {"null", "send", "provider"}]

NoRow == [status |-> "absent", attempts |-> 0, next_attempt_at |-> "null",
          queued_at |-> "null", processing_until |-> "null",
          provider_message_id |-> FALSE, last_error |-> "null"]

Handling == {"load", "send", "sent", "unsent"}
Busy == Handling \union {"publish", "queued", "claim"}

\* A worker: where it is, the ids it still has to publish or to process, whether
\* the next one to publish is the first of its batch, the row it loaded.
Worker == [pc : Busy \union {"down", "recover", "select", "read"},
           todo : Seq(Deliveries), first : BOOLEAN, snap : Row]

Down == [pc |-> "down", todo |-> <<>>, first |-> TRUE, snap |-> NoRow]

VARIABLES rows,     \* the notification_deliveries table; gone = deleted
          stream,   \* the entries the consumer group has not delivered yet
          group,    \* the consumer group exists
          workers,
          calls,    \* history: calls of the provider made for each delivery
          crashes, faults

vars == <<rows, stream, group, workers, calls, crashes, faults>>

-----------------------------------------------------------------------------
Present(d) == rows[d].status \notin {"absent", "gone"}

At(w, pc) == workers[w].pc = pc

Current(w) == Head(workers[w].todo)

\* w has claimed d and has not written the outcome yet.
Handles(w, d) == workers[w].pc \in Handling /\ Current(w) = d

Goto(w, pc, todo) ==
  workers' = [workers EXCEPT ![w] = [Down EXCEPT !.pc = pc, !.todo = todo]]

\* An exception that process_delivery does not catch ends the process.
Dies(w) == workers' = [workers EXCEPT ![w] = Down]

Oldest(D) == {d \in D : Cardinality({e \in D : e < d}) < BatchSize}

\* Mutant: an id that was published once is never published again.
QueueableOnce(d) ==
  /\ rows[d].status = "pending"
  /\ rows[d].attempts < MaxAttempts
  /\ rows[d].next_attempt_at # "future"
  /\ rows[d].queued_at = "null"

Queueable(d) ==
  /\ rows[d].status = "pending"
  /\ rows[d].attempts < MaxAttempts
  /\ rows[d].next_attempt_at # "future"
  /\ rows[d].queued_at # "fresh"

\* Mutants: the attempts, or the status, are left to the query that published.
ClaimableUncapped(d) ==
  /\ rows[d].status = "pending"
  /\ rows[d].next_attempt_at # "future"

ClaimableAnyStatus(d) ==
  /\ Present(d)
  /\ rows[d].attempts < MaxAttempts
  /\ rows[d].next_attempt_at # "future"

Claimable(d) ==
  /\ rows[d].status = "pending"
  /\ rows[d].attempts < MaxAttempts
  /\ rows[d].next_attempt_at # "future"

\* XADD with MAXLEN drops the oldest entries.
Published(d) ==
  LET s == Append(stream, d) IN
  IF Len(s) > StreamLimit THEN Tail(s) ELSE s

\* The session only writes the columns that differ from the row it loaded; a
\* retry time computed now always differs.
Flush(d, snap, new) ==
  rows' = [rows EXCEPT ![d] =
    [f \in DOMAIN new |->
       IF new[f] = snap[f] /\ (f = "next_attempt_at" => new[f] # "future")
       THEN @[f] ELSE new[f]]]

NextEntry(w) ==
  LET rest == Tail(workers[w].todo) IN
  Goto(w, IF rest = <<>> THEN "recover" ELSE "claim", rest)

-----------------------------------------------------------------------------
Init ==
  /\ rows = [d \in Deliveries |-> NoRow]
  /\ stream = <<>>
  /\ group = FALSE
  /\ workers = [w \in Workers |-> Down]
  /\ calls = [d \in Deliveries |-> 0]
  /\ crashes = 0
  /\ faults = 0

(* The web processes. *)

\* create_notifications_for_event, in the transaction of the ticket operation.
Create(d) ==
  /\ rows[d] = NoRow
  /\ rows' = [rows EXCEPT ![d].status = "pending"]
  /\ UNCHANGED <<stream, group, workers, calls, crashes, faults>>

\* Archiving a ticket or removing a user deletes the row whatever its status.
Delete(d) ==
  /\ Present(d)
  /\ rows' = [rows EXCEPT ![d].status = "gone"]
  /\ UNCHANGED <<stream, group, workers, calls, crashes, faults>>

Webhook(d, delivered) ==
  /\ Present(d)
  /\ rows[d].provider_message_id
  /\ rows' = [rows EXCEPT ![d].status = IF delivered THEN "sent" ELSE "failed",
                          ![d].last_error = IF delivered THEN "null" ELSE "provider",
                          ![d].processing_until = "null",
                          ![d].queued_at = "null"]
  /\ UNCHANGED <<stream, group, workers, calls, crashes, faults>>

-----------------------------------------------------------------------------
(* One pass of run_worker's loop. *)

Start(w) ==
  /\ At(w, "down")
  /\ group' = TRUE
  /\ Goto(w, "recover", <<>>)
  /\ UNCHANGED <<rows, stream, calls, crashes, faults>>

\* Mutant: an attempt whose worker died is given back.
RecoverRefunded(w) ==
  /\ At(w, "recover")
  /\ rows' = [d \in Deliveries |->
                IF rows[d].status = "processing" /\ rows[d].processing_until = "expired"
                THEN [rows[d] EXCEPT !.status = "pending", !.queued_at = "null",
                                     !.processing_until = "null", !.attempts = @ - 1]
                ELSE rows[d]]
  /\ Goto(w, "select", <<>>)
  /\ UNCHANGED <<stream, group, calls, crashes, faults>>

RecoverExpired(w) ==
  /\ At(w, "recover")
  /\ rows' = [d \in Deliveries |->
                IF rows[d].status = "processing" /\ rows[d].processing_until = "expired"
                THEN [rows[d] EXCEPT !.status = "pending", !.queued_at = "null",
                                     !.processing_until = "null"]
                ELSE rows[d]]
  /\ Goto(w, "select", <<>>)
  /\ UNCHANGED <<stream, group, calls, crashes, faults>>

Select(w) ==
  LET due == Oldest({d \in Deliveries : Queueable(d)}) IN
  /\ At(w, "select")
  /\ \E batch \in [1 .. Cardinality(due) -> due] :
       /\ \A i, j \in DOMAIN batch : i < j => batch[i] < batch[j]
       /\ Goto(w, IF due = {} THEN "read" ELSE "publish", batch)
  /\ UNCHANGED <<rows, stream, group, calls, crashes, faults>>

\* The commit of the previous id expired the other rows, so their id is read
\* again: from the second on, a row that is gone ends the process.
Publish(w) ==
  /\ At(w, "publish")
  /\ IF workers[w].first \/ Present(Current(w))
     THEN /\ stream' = Published(Current(w))
          /\ workers' = [workers EXCEPT ![w].pc = "queued"]
     ELSE Dies(w) /\ UNCHANGED stream
  /\ UNCHANGED <<rows, group, calls, crashes, faults>>

\* queued_at is written whatever the row has become since it was selected.
MarkQueued(w) ==
  LET d == Current(w)
      rest == Tail(workers[w].todo)
  IN
  /\ At(w, "queued")
  /\ IF Present(d)
     THEN /\ rows' = [rows EXCEPT ![d].queued_at = "fresh"]
          /\ workers' = [workers EXCEPT
               ![w] = [Down EXCEPT !.pc = IF rest = <<>> THEN "read" ELSE "publish",
                                   !.todo = rest, !.first = FALSE]]
     ELSE Dies(w) /\ UNCHANGED rows
  /\ UNCHANGED <<stream, group, calls, crashes, faults>>

\* XADD raises, with or without having appended; the batch is given up.
PublishFails(w) ==
  /\ At(w, "publish")
  /\ faults < MaxFaults
  /\ workers[w].first \/ Present(Current(w))
  /\ stream' \in {stream, Published(Current(w))}
  /\ IF Present(Current(w)) THEN Goto(w, "read", <<>>) ELSE Dies(w)
  /\ faults' = faults + 1
  /\ UNCHANGED <<rows, group, calls, crashes>>

Read(w) ==
  /\ At(w, "read")
  /\ group
  /\ stream # <<>>
  /\ LET n == IF Len(stream) < BatchSize THEN Len(stream) ELSE BatchSize IN
     /\ Goto(w, "claim", SubSeq(stream, 1, n))
     /\ stream' = SubSeq(stream, n + 1, Len(stream))
  /\ UNCHANGED <<rows, group, calls, crashes, faults>>

\* The read blocks for longer than the socket timeout, so an empty stream may
\* end it with an exception; without the group it always does.
ReadNothing(w) ==
  /\ At(w, "read")
  /\ group => stream = <<>>
  /\ \/ group /\ Goto(w, "recover", <<>>)
     \/ Dies(w)
  /\ UNCHANGED <<rows, stream, group, calls, crashes, faults>>

-----------------------------------------------------------------------------
(* process_delivery, for the first of the entries that were read. *)

\* Mutant: the claim takes no lease.
ClaimWithoutLease(w) ==
  LET d == Current(w) IN
  /\ At(w, "claim")
  /\ IF Claimable(d)
     THEN /\ rows' = [rows EXCEPT ![d].status = "processing",
                                  ![d].attempts = @ + 1,
                                  ![d].queued_at = "null"]
          /\ workers' = [workers EXCEPT ![w].pc = "load"]
     ELSE NextEntry(w) /\ UNCHANGED rows
  /\ UNCHANGED <<stream, group, calls, crashes, faults>>

Claim(w) ==
  LET d == Current(w) IN
  /\ At(w, "claim")
  /\ IF Claimable(d)
     THEN /\ rows' = [rows EXCEPT ![d].status = "processing",
                                  ![d].attempts = @ + 1,
                                  ![d].queued_at = "null",
                                  ![d].processing_until = "held"]
          /\ workers' = [workers EXCEPT ![w].pc = "load"]
     ELSE NextEntry(w) /\ UNCHANGED rows
  /\ UNCHANGED <<stream, group, calls, crashes, faults>>

Load(w) ==
  /\ At(w, "load")
  /\ IF Present(Current(w))
     THEN workers' = [workers EXCEPT ![w].pc = "send",
                                     ![w].snap = rows[Current(w)]]
     ELSE NextEntry(w)
  /\ UNCHANGED <<rows, stream, group, calls, crashes, faults>>

\* The provider is called and answers.
Send(w) ==
  /\ At(w, "send")
  /\ calls' = [calls EXCEPT ![Current(w)] = @ + 1]
  /\ workers' = [workers EXCEPT ![w].pc = "sent"]
  /\ UNCHANGED <<rows, stream, group, crashes, faults>>

\* Anything raised before the call (a phone or a reference that is missing) or
\* by it (an HTTP error, a timeout after the message may have gone out).
SendFails(w) ==
  /\ At(w, "send")
  /\ calls' \in {calls, [calls EXCEPT ![Current(w)] = @ + 1]}
  /\ workers' = [workers EXCEPT ![w].pc = "unsent"]
  /\ UNCHANGED <<rows, stream, group, crashes, faults>>

\* Both commits find no row to update when it was deleted meanwhile.
MarkSent(w) ==
  LET d == Current(w)
      snap == workers[w].snap
  IN
  /\ At(w, "sent")
  /\ IF Present(d)
     THEN /\ \E answered \in BOOLEAN :   \* the answer may carry no message id
               Flush(d, snap, [snap EXCEPT !.status = "sent",
                                           !.provider_message_id = answered,
                                           !.next_attempt_at = "null",
                                           !.queued_at = "null",
                                           !.processing_until = "null",
                                           !.last_error = "null"])
          /\ NextEntry(w)
     ELSE Dies(w) /\ UNCHANGED rows
  /\ UNCHANGED <<stream, group, calls, crashes, faults>>

\* Mutant: the last attempt is compared off by one.
FailedTooLate(snap) ==
  [snap EXCEPT !.status = IF snap.attempts > MaxAttempts THEN "failed" ELSE "pending",
               !.next_attempt_at = "future",
               !.queued_at = "null",
               !.processing_until = "null",
               !.last_error = "send"]

\* The row as _mark_failed leaves it.
Failed(snap) ==
  [snap EXCEPT !.status = IF snap.attempts >= MaxAttempts THEN "failed" ELSE "pending",
               !.next_attempt_at = IF snap.attempts >= MaxAttempts THEN "null" ELSE "future",
               !.queued_at = "null",
               !.processing_until = "null",
               !.last_error = "send"]

MarkFailed(w) ==
  LET d == Current(w)
      snap == workers[w].snap
  IN
  /\ At(w, "unsent")
  /\ IF Present(d)
     THEN Flush(d, snap, Failed(snap)) /\ NextEntry(w)
     ELSE Dies(w) /\ UNCHANGED rows
  /\ UNCHANGED <<stream, group, calls, crashes, faults>>

-----------------------------------------------------------------------------
(* Time and failures. *)

RetryDue(d) ==
  /\ rows[d].next_attempt_at = "future"
  /\ rows' = [rows EXCEPT ![d].next_attempt_at = "due"]
  /\ UNCHANGED <<stream, group, workers, calls, crashes, faults>>

QueueLeaseEnds(d) ==
  /\ rows[d].queued_at = "fresh"
  /\ rows' = [rows EXCEPT ![d].queued_at = "stale"]
  /\ UNCHANGED <<stream, group, workers, calls, crashes, faults>>

LeaseEnds(d) ==
  /\ rows[d].processing_until = "held"
  /\ LeaseOutlivesCall => \A w \in Workers : ~Handles(w, d)
  /\ rows' = [rows EXCEPT ![d].processing_until = "expired"]
  /\ UNCHANGED <<stream, group, workers, calls, crashes, faults>>

\* The process is killed, or a database or Redis error it does not catch ends
\* it; the entries it had read are never delivered again.
Crash(w) ==
  /\ crashes < MaxCrashes
  /\ ~At(w, "down")
  /\ Dies(w)
  /\ crashes' = crashes + 1
  /\ UNCHANGED <<rows, stream, group, calls, faults>>

\* Redis restarts without its data.
StreamLost ==
  /\ faults < MaxFaults
  /\ stream' = <<>>
  /\ group' = FALSE
  /\ faults' = faults + 1
  /\ UNCHANGED <<rows, workers, calls, crashes>>

WorkerStep(w) ==
  \/ Start(w) \/ RecoverExpired(w) \/ Select(w) \/ Publish(w) \/ MarkQueued(w)
  \/ Read(w) \/ ReadNothing(w) \/ Claim(w) \/ Load(w) \/ Send(w) \/ SendFails(w)
  \/ MarkSent(w) \/ MarkFailed(w)

Tick(d) == RetryDue(d) \/ QueueLeaseEnds(d) \/ LeaseEnds(d)

Next ==
  \/ \E d \in Deliveries :
       \/ Create(d) \/ Delete(d) \/ Tick(d)
       \/ \E delivered \in BOOLEAN : Webhook(d, delivered)
  \/ \E w \in Workers : WorkerStep(w) \/ PublishFails(w) \/ Crash(w)
  \/ StreamLost

Spec == Init /\ [][Next]_vars

\* A worker that is not stopped runs on and the host restarts one that ended;
\* each of a row's timestamps is reached.
FairSpec ==
  /\ Spec
  /\ \A w \in Workers : WF_vars(WorkerStep(w))
  /\ \A d \in Deliveries :
       WF_vars(RetryDue(d)) /\ WF_vars(QueueLeaseEnds(d)) /\ WF_vars(LeaseEnds(d))

-----------------------------------------------------------------------------
(* Properties. *)

\* Every variable keeps the shape of the table, stream and process it stands for.
TypeOK ==
  /\ rows \in [Deliveries -> Row]
  /\ stream \in Seq(Deliveries)
  /\ group \in BOOLEAN
  /\ workers \in [Workers -> Worker]
  /\ \A w \in Workers : workers[w].pc \in Busy => workers[w].todo # <<>>
  /\ calls \in [Deliveries -> Nat]
  /\ crashes \in 0 .. MaxCrashes
  /\ faults \in 0 .. MaxFaults

\* The workers that hold a counted attempt and have not called the provider yet.
Unspent(d) == {w \in Workers : workers[w].pc \in {"load", "send"} /\ Current(w) = d}

\* "Claim atômico e tentativas limitadas": the provider is called at most once
\* per counted attempt, so at most MaxAttempts times for a delivery, however
\* often its id is published, its worker dies or its lease runs out.
CallsWithinAttempts ==
  \A d \in Deliveries : calls[d] + Cardinality(Unspent(d)) <= rows[d].attempts

\* The claim is exclusive: two workers never handle the same delivery, and the
\* row of one being handled is still marked processing under its lease.
HandledOnce ==
  \A w \in Workers, d \in Deliveries :
    Handles(w, d) =>
      /\ \/ rows[d].status = "gone"
         \/ rows[d].status = "processing" /\ rows[d].processing_until = "held"
      /\ \A v \in Workers : Handles(v, d) => v = w

\* A row in processing always has a lease: without one _recover_expired_processing
\* would pass over it for ever.
ProcessingHasLease ==
  \A d \in Deliveries :
    rows[d].status = "processing" => rows[d].processing_until # "null"

\* The worker gives up only when every attempt is used.
FailedIsExhausted ==
  \A d \in Deliveries :
    rows[d].status = "failed" /\ rows[d].last_error = "send" =>
      rows[d].attempts = MaxAttempts

\* A message the provider took is not sent again: the status only changes by the
\* provider's own verdict or by the removal of the row.
SentIsFinal ==
  [][\A d \in Deliveries :
       rows[d].status = "sent" =>
         /\ rows'[d].status \in {"sent", "failed", "gone"}
         /\ calls'[d] = calls[d]]_vars

\* The claim, as a run checks it: one worker at a time, always under a lease.
ClaimIsExclusive == HandledOnce /\ ProcessingHasLease

\* What is reported of a delivery stands: "failed" only when every attempt is
\* used, and "sent" for good unless the provider itself says otherwise.
OutcomesAreFinal == []FailedIsExhausted /\ SentIsFinal

\* A pending delivery with attempts left is eventually taken up, although stream
\* entries get lost with crashes, timeouts, trimming or Redis itself.
EventuallyTaken ==
  \A d \in Deliveries :
    (rows[d].status = "pending" /\ rows[d].attempts < MaxAttempts)
      ~> rows[d].status # "pending"

\* A delivery does not stay in processing, whoever claimed it and died.
EventuallyReleased ==
  \A d \in Deliveries :
    rows[d].status = "processing" ~> rows[d].status # "processing"

\* Every delivery ends as sent, or as failed where it can be seen, unless the
\* worker is killed: attempts run out exactly when the row says so.
SettledUnlessKilled ==
  \A d \in Deliveries :
    rows[d].status = "pending" ~>
      rows[d].status \in {"sent", "failed", "gone"} \/ crashes > 0

\* No delivery is stuck on the way, whatever the stream loses and whoever dies:
\* neither pending with attempts left nor in processing; and without a killed
\* worker each one ends.
EventuallyMoves == EventuallyTaken /\ EventuallyReleased /\ SettledUnlessKilled

\* NotificationDelivery: "O worker pode então reenfileirar a entrega sem perder
\* o evento": every delivery ends as sent, or as failed where it can be seen.
EventuallySettled ==
  \A d \in Deliveries :
    rows[d].status = "pending" ~> rows[d].status \in {"sent", "failed", "gone"}
=============================================================================
