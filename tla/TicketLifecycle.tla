-------------------------- MODULE TicketLifecycle --------------------------
(***************************************************************************)
(* The life of a help-desk ticket under concurrent HTTP requests:          *)
(* app/services/tickets/{service,deleted,comments,access}.py together with *)
(* the notifications that app/services/notifications writes in the same    *)
(* transaction.                                                            *)
(*                                                                         *)
(* Each request runs in its own thread and database session (READ          *)
(* COMMITTED, autoflush off).  It reads the row, checks it, and commits    *)
(* later, so an operation is two steps here: Begin, which keeps the row    *)
(* that was read as the session's snapshot, and the operation's own action,*)
(* which is its commit.  The commit is one step because the UPDATE that    *)
(* opens it locks the row until the transaction ends.  Roles do not change *)
(* in this module and every account is active with a confirmed email.      *)
(***************************************************************************)
EXTENDS Naturals, Sequences, FiniteSets, Functions

CONSTANTS Tickets,      \* ticket ids
          Users,        \* accounts whose role is "user"
          Technicians,  \* accounts whose role is "technician"
          Admins,       \* accounts whose role is "admin"
          NoOne,        \* SQL NULL in a column that refers to a user
          Requests,     \* request threads, each serving one call at a time
          MaxEvents     \* bound: events recorded for one ticket

People == Users \union Technicians \union Admins

ASSUME RolesAssumption ==
  /\ Users \intersect Technicians = {}
  /\ Users \intersect Admins = {}
  /\ Technicians \intersect Admins = {}
  /\ NoOne \notin People

ASSUME BoundAssumption == MaxEvents \in Nat

Unassigned == {"absent", "open", "cancelled"}
Served == {"in_progress", "resolved", "closed", "reopened"}
Statuses == Unassigned \union Served

\* The columns of a tickets row the operations depend on; the timestamps
\* resolved_at and deleted_at only matter as NULL or not.
Row == [status : Statuses, user_id : People \union {NoOne},
        technician_id : Technicians \union Admins \union {NoOne},
        resolved_at : BOOLEAN, deleted_at : BOOLEAN,
        deleted_by : People \union {NoOne}]

NoRow == [status |-> "absent", user_id |-> NoOne, technician_id |-> NoOne,
          resolved_at |-> FALSE, deleted_at |-> FALSE, deleted_by |-> NoOne]

LinkedEvents == {"REOPENED", "COMMENTED", "ASSIGNED", "RESOLVED", "CLOSED"}
EventTypes == LinkedEvents \union {"CREATED", "CANCELLED", "RECOVERED"}

\* A timeline entry; COMMENTED carries no status, CREATED no from_status.
Event == [type : EventTypes, from : Statuses \union {"null"},
          to : Statuses \union {"null"}, actor : People]

Notification == [ticket : Tickets, recipient : People, event : Nat]

Operations == {"assign", "resolve", "close", "delete", "cancel", "reopen",
               "restore", "comment"}

\* A request between its read and its commit: who asks for what, the row it
\* read, and for a delete the notifications its transaction has removed.
Request == [op : Operations, ticket : Tickets, actor : People, row : Row,
            cleared : BOOLEAN, doomed : SUBSET Notification]

VARIABLES tickets,        \* the tickets table
          events,         \* ticket_events, per ticket in insertion order
          notifications,  \* the notifications table
          inflight        \* the requests that have read and not committed

vars == <<tickets, events, notifications, inflight>>

-----------------------------------------------------------------------------
(* Checks made on the row a request reads. *)

IsOperator(u) == u \in Technicians \union Admins

\* Mutant: the role is not checked.
MayAssignAnyRole(u, row) ==
  /\ ~row.deleted_at
  /\ row.status \in {"open", "reopened"}
  /\ row.technician_id \in {NoOne, u}

MayAssign(u, row) ==
  /\ IsOperator(u)
  /\ ~row.deleted_at
  /\ row.status \in {"open", "reopened"}
  /\ row.technician_id \in {NoOne, u}

MayResolve(u, row) ==
  /\ IsOperator(u)
  /\ ~row.deleted_at
  /\ row.status = "in_progress"
  /\ u \in Admins \/ row.technician_id = u

MayClose(u, row) ==
  /\ ~row.deleted_at
  /\ u \in Admins \/ row.user_id = u
  /\ row.status = "resolved"

MayDelete(u, row) == u \in Admins /\ ~row.deleted_at

\* The read of a cancel only checks the author; the rest is in its UPDATE.
MayCancel(u, row) == ~row.deleted_at /\ row.user_id = u

MayReopen(u, row) ==
  /\ u \in Admins
  /\ ~row.deleted_at
  /\ row.status \in {"resolved", "closed"}

MayRestore(u, row) == u \in Admins /\ row.deleted_at

MayComment(u, row) ==
  /\ ~row.deleted_at
  /\ row.status # "closed"
  /\ u \in Users => row.user_id = u
  /\ u \in Technicians => row.technician_id = u

May(op, u, row) ==
  \/ op = "assign"  /\ MayAssign(u, row)
  \/ op = "resolve" /\ MayResolve(u, row)
  \/ op = "close"   /\ MayClose(u, row)
  \/ op = "delete"  /\ MayDelete(u, row)
  \/ op = "cancel"  /\ MayCancel(u, row)
  \/ op = "reopen"  /\ MayReopen(u, row)
  \/ op = "restore" /\ MayRestore(u, row)
  \/ op = "comment" /\ MayComment(u, row)

\* The ticket detail: who sees it, and whether it offers the cancel button.
CanView(u, row) ==
  /\ ~row.deleted_at
  /\ \/ u \in Admins
     \/ u \in Technicians /\ \/ row.technician_id = u
                             \/ /\ row.technician_id = NoOne
                                /\ row.status \in {"open", "reopened"}
     \/ u \in Users /\ row.user_id = u

HasEvent(t, type) == \E i \in DOMAIN events[t] : events[t][i].type = type

\* Mutant: the flag is offered to whoever sees the ticket.
CanCancelAnyViewer(t, u) ==
  /\ tickets[t].status = "open"
  /\ tickets[t].technician_id = NoOne
  /\ ~HasEvent(t, "ASSIGNED")

CanCancel(t, u) ==
  /\ tickets[t].user_id = u
  /\ tickets[t].status = "open"
  /\ tickets[t].technician_id = NoOne
  /\ ~HasEvent(t, "ASSIGNED")

-----------------------------------------------------------------------------
(* The event and the notifications written in the operation's transaction. *)

\* Mutant: a reopening is announced to the whole technical team.
RecipientsReopenedToTeam(type, row, actor) ==
  IF type \in {"CREATED", "REOPENED"} THEN Technicians
  ELSE IF type \in LinkedEvents
       THEN ((Users \intersect {row.user_id})
              \union (Technicians \intersect {row.technician_id})) \ {actor}
       ELSE {}

\* CREATED goes to the whole technical team; a linked event to the requester
\* and the linked technician, never to its actor; the others to nobody.
Recipients(type, row, actor) ==
  IF type = "CREATED" THEN Technicians
  ELSE IF type \in LinkedEvents
       THEN ((Users \intersect {row.user_id})
              \union (Technicians \intersect {row.technician_id})) \ {actor}
       ELSE {}

Record(t, type, from, to, actor) ==
  events' = [events EXCEPT ![t] = Append(@, [type |-> type, from |-> from,
                                             to |-> to, actor |-> actor])]

Notify(t, type, row, actor) ==
  notifications' = notifications \union
    [ticket : {t}, recipient : Recipients(type, row, actor),
     event : {Len(events[t]) + 1}]

NotificationsOf(t) == {n \in notifications : n.ticket = t}

Pending(t) == {r \in DOMAIN inflight : inflight[r].ticket = t}

Serving(r, op) == r \in DOMAIN inflight /\ inflight[r].op = op

Finish(r) == inflight' = Restrict(inflight, DOMAIN inflight \ {r})

-----------------------------------------------------------------------------
Init ==
  /\ tickets = [t \in Tickets |-> NoRow]
  /\ events = [t \in Tickets |-> <<>>]
  /\ notifications = {}
  /\ inflight = [r \in {} |-> NoRow]

Create(t, u) ==
  /\ tickets[t] = NoRow
  /\ MaxEvents > 0
  /\ tickets' = [tickets EXCEPT ![t] = [NoRow EXCEPT !.status = "open",
                                                     !.user_id = u]]
  /\ Record(t, "CREATED", "null", "open", u)
  /\ Notify(t, "CREATED", tickets'[t], u)
  /\ UNCHANGED inflight

Begin(r, op, t, u) ==
  /\ r \notin DOMAIN inflight
  /\ tickets[t] # NoRow
  /\ Len(events[t]) + Cardinality(Pending(t)) < MaxEvents
  /\ May(op, u, tickets[t])
  /\ inflight' = [x \in DOMAIN inflight \union {r} |->
                    IF x = r THEN [op |-> op, ticket |-> t, actor |-> u,
                                   row |-> tickets[t], cleared |-> FALSE,
                                   doomed |-> {}]
                    ELSE inflight[x]]
  /\ UNCHANGED <<tickets, events, notifications>>

\* Mutants of the WHERE clauses: the UPDATE trusts the technician that was read,
\* or the status that was read; the cancel and the restore trust what they read.
StillAssignableToMe(q) == ~tickets[q.ticket].deleted_at

StillAssignableNow(q) ==
  /\ ~tickets[q.ticket].deleted_at
  /\ tickets[q.ticket].technician_id \in {NoOne, q.actor}

StillCancellableUnchecked(q) ==
  /\ tickets[q.ticket].user_id = q.actor
  /\ ~tickets[q.ticket].deleted_at

StillRestorableAnywhere(q) == tickets[q.ticket].status = q.row.status

\* The WHERE clauses of the three conditional UPDATEs.
StillAssignable(q) ==
  LET row == tickets[q.ticket] IN
  /\ ~row.deleted_at
  /\ row.status = q.row.status
  /\ row.technician_id \in {NoOne, q.actor}

StillCancellable(q) ==
  LET row == tickets[q.ticket] IN
  /\ row.user_id = q.actor
  /\ ~row.deleted_at
  /\ row.status = "open"
  /\ row.technician_id = NoOne
  /\ ~HasEvent(q.ticket, "ASSIGNED")

StillRestorable(q) ==
  LET row == tickets[q.ticket] IN
  /\ row.deleted_at
  /\ row.status = q.row.status

Assign(r) ==
  LET q == inflight[r] IN
  /\ Serving(r, "assign")
  /\ StillAssignable(q)
  /\ tickets' = [tickets EXCEPT ![q.ticket].technician_id = q.actor,
                                ![q.ticket].status = "in_progress"]
  /\ Record(q.ticket, "ASSIGNED", q.row.status, "in_progress", q.actor)
  /\ Notify(q.ticket, "ASSIGNED", tickets'[q.ticket], q.actor)
  /\ Finish(r)

\* resolve, close and reopen write the attributes they changed WHERE id = t:
\* nothing is compared with the row that was read.
Resolve(r) ==
  LET q == inflight[r] IN
  /\ Serving(r, "resolve")
  /\ tickets' = [tickets EXCEPT ![q.ticket].status = "resolved",
                                ![q.ticket].resolved_at = TRUE]
  /\ Record(q.ticket, "RESOLVED", q.row.status, "resolved", q.actor)
  /\ Notify(q.ticket, "RESOLVED", q.row, q.actor)
  /\ Finish(r)

Close(r) ==
  LET q == inflight[r] IN
  /\ Serving(r, "close")
  /\ tickets' = [tickets EXCEPT ![q.ticket].status = "closed"]
  /\ Record(q.ticket, "CLOSED", q.row.status, "closed", q.actor)
  /\ Notify(q.ticket, "CLOSED", q.row, q.actor)
  /\ Finish(r)

\* resolved_at = None is only flushed when the row read had a value.
Reopen(r) ==
  LET q == inflight[r] IN
  /\ Serving(r, "reopen")
  /\ tickets' = [tickets EXCEPT ![q.ticket].status = "reopened",
                                ![q.ticket].resolved_at = @ /\ ~q.row.resolved_at]
  /\ Record(q.ticket, "REOPENED", q.row.status, "reopened", q.actor)
  /\ Notify(q.ticket, "REOPENED", q.row, q.actor)
  /\ Finish(r)

\* delete removes the notifications it can see, then flushes deleted_at with
\* the commit; both become visible to the others at the commit.
ClearNotifications(r) ==
  LET q == inflight[r] IN
  /\ Serving(r, "delete")
  /\ ~q.cleared
  /\ inflight' = [inflight EXCEPT ![r].cleared = TRUE,
                                  ![r].doomed = NotificationsOf(q.ticket)]
  /\ UNCHANGED <<tickets, events, notifications>>

Delete(r) ==
  LET q == inflight[r] IN
  /\ Serving(r, "delete")
  /\ q.cleared
  /\ tickets' = [tickets EXCEPT ![q.ticket].deleted_at = TRUE,
                                ![q.ticket].deleted_by = q.actor]
  /\ notifications' = notifications \ q.doomed
  /\ Finish(r)
  /\ UNCHANGED events

Cancel(r) ==
  LET q == inflight[r] IN
  /\ Serving(r, "cancel")
  /\ StillCancellable(q)
  /\ tickets' = [tickets EXCEPT ![q.ticket].status = "cancelled",
                                ![q.ticket].deleted_at = TRUE,
                                ![q.ticket].deleted_by = q.actor]
  /\ notifications' = notifications \ NotificationsOf(q.ticket)
  /\ Record(q.ticket, "CANCELLED", "open", "cancelled", q.actor)
  /\ Finish(r)

RestoredStatus(status) == IF status = "cancelled" THEN "open" ELSE status

\* Mutant: the event repeats the status that was read.
RestoreMisrecorded(r) ==
  LET q == inflight[r] IN
  /\ Serving(r, "restore")
  /\ StillRestorable(q)
  /\ tickets' = [tickets EXCEPT
                   ![q.ticket].status = RestoredStatus(q.row.status),
                   ![q.ticket].resolved_at = @ /\ q.row.status # "cancelled",
                   ![q.ticket].deleted_at = FALSE,
                   ![q.ticket].deleted_by = NoOne]
  /\ Record(q.ticket, "RECOVERED", q.row.status, q.row.status, q.actor)
  /\ Finish(r)
  /\ UNCHANGED notifications

Restore(r) ==
  LET q == inflight[r] IN
  /\ Serving(r, "restore")
  /\ StillRestorable(q)
  /\ tickets' = [tickets EXCEPT
                   ![q.ticket].status = RestoredStatus(q.row.status),
                   ![q.ticket].resolved_at = @ /\ q.row.status # "cancelled",
                   ![q.ticket].deleted_at = FALSE,
                   ![q.ticket].deleted_by = NoOne]
  /\ Record(q.ticket, "RECOVERED", q.row.status,
            RestoredStatus(q.row.status), q.actor)
  /\ Finish(r)
  /\ UNCHANGED notifications

\* A comment does not write the ticket, so nothing orders it after a close or
\* an archive that commits in between.
Comment(r) ==
  LET q == inflight[r] IN
  /\ Serving(r, "comment")
  /\ Record(q.ticket, "COMMENTED", "null", "null", q.actor)
  /\ Notify(q.ticket, "COMMENTED", q.row, q.actor)
  /\ Finish(r)
  /\ UNCHANGED tickets

\* The conditional UPDATE matched no row: rollback and an error to the caller.
Conflict(r) ==
  /\ \/ Serving(r, "assign")  /\ ~StillAssignable(inflight[r])
     \/ Serving(r, "cancel")  /\ ~StillCancellable(inflight[r])
     \/ Serving(r, "restore") /\ ~StillRestorable(inflight[r])
  /\ Finish(r)
  /\ UNCHANGED <<tickets, events, notifications>>

\* The process dies or the database fails before the commit.
Abort(r) ==
  /\ r \in DOMAIN inflight
  /\ Finish(r)
  /\ UNCHANGED <<tickets, events, notifications>>

Next ==
  \/ \E t \in Tickets, u \in People : Create(t, u)
  \/ \E r \in Requests, op \in Operations, t \in Tickets, u \in People :
       Begin(r, op, t, u)
  \/ \E r \in Requests :
       \/ Assign(r) \/ Resolve(r) \/ Close(r) \/ Reopen(r)
       \/ ClearNotifications(r) \/ Delete(r) \/ Cancel(r) \/ Restore(r)
       \/ Comment(r) \/ Conflict(r) \/ Abort(r)

Spec == Init /\ [][Next]_vars

-----------------------------------------------------------------------------
(* Properties. *)

\* Every variable keeps the shape of the tables and sessions it stands for.
TypeOK ==
  /\ tickets \in [Tickets -> Row]
  /\ events \in [Tickets -> Seq(Event)]
  /\ notifications \subseteq Notification
  /\ DOMAIN inflight \subseteq Requests
  /\ inflight \in [DOMAIN inflight -> Request]

\* A request cannot take a ticket that its owner cancelled, nor cancel one that
\* a technician ever took: the row has a technician, and an ASSIGNED event
\* exists, exactly in the statuses other than open and cancelled, whatever
\* stale reads the requests act on (assign_ticket_service, cancel_ticket_service).
CancelledNeverServed ==
  \A t \in Tickets :
    /\ HasEvent(t, "ASSIGNED") <=> tickets[t].status \in Served
    /\ tickets[t].technician_id # NoOne <=> tickets[t].status \in Served

\* What the checks of a request established still holds, in the part the blind
\* writes rely on, when it commits on a row that others have changed since: a
\* ticket read in service is in service, so resolve, close and reopen cannot
\* bring back one that was never taken.
ReadsOutlived ==
  \A r \in DOMAIN inflight :
    LET q == inflight[r] IN
    /\ q.row.status \in Served => tickets[q.ticket].status \in Served
    /\ q.op \in {"resolve", "close", "reopen"} => q.row.status \in Served
    /\ q.op = "assign" => /\ IsOperator(q.actor)
                          /\ q.row.status \in {"open", "reopened"}

\* Whoever took the ticket keeps it: every ASSIGNED event of its history, the
\* ones after a reopening included, was made by the technician of the row.
OneTechnician ==
  \A t \in Tickets : \A i \in DOMAIN events[t] :
    events[t][i].type = "ASSIGNED" => events[t][i].actor = tickets[t].technician_id

\* The inductive invariant of the proofs.
IInv == TypeOK /\ CancelledNeverServed /\ ReadsOutlived /\ OneTechnician

StatusEvents(t) == {i \in DOMAIN events[t] : events[t][i].to # "null"}

LastStatus(t, upto) ==
  LET earlier == {i \in StatusEvents(t) : i <= upto} IN
  IF earlier = {} THEN "absent"
  ELSE events[t][CHOOSE i \in earlier : \A j \in earlier : j <= i].to

\* The history never lags behind the row: in the order of the event ids, which
\* is the order of the commits, the newest status-bearing event leads to the
\* status the row has, also after racing blind writes.
TimelineEndsAtStatus ==
  \A t \in Tickets : LastStatus(t, Len(events[t])) = tickets[t].status

\* The three operations that write conditionally leave no gap in the timeline:
\* an ASSIGNED, CANCELLED or RECOVERED event starts at the status that the
\* events before it lead to.
ConditionalEventsChain ==
  \A t \in Tickets : \A i \in DOMAIN events[t] :
    events[t][i].type \in {"ASSIGNED", "CANCELLED", "RECOVERED"} =>
      events[t][i].from = LastStatus(t, i - 1)

\* The timeline, as a run checks it: complete at its end, without gaps before.
TimelineIsComplete == TimelineEndsAtStatus /\ ConditionalEventsChain

CountEvents(t, type, from) ==
  Cardinality({i \in DOMAIN events[t] : /\ events[t][i].type = type
                                        /\ events[t][i].from = from})

\* "Only the request that restores the archived row may record recovery
\* events": each cancellation is recovered at most once, however many
\* administrators press restore, and it stays archived until then.
OneRecoveryPerCancel ==
  \A t \in Tickets :
    CountEvents(t, "CANCELLED", "open") =
      CountEvents(t, "RECOVERED", "cancelled")
        + (IF tickets[t].status = "cancelled" /\ tickets[t].deleted_at THEN 1 ELSE 0)

\* Notifications of a ticket in service are private and usable: the recipient
\* is not the person who acted and, unless the ticket is archived, may open it,
\* although the recipients were computed from a row read before the commit.
NotifiedCanView ==
  \A n \in notifications :
    LET e == events[n.ticket][n.event] IN
    e.type \in LinkedEvents =>
      /\ n.recipient # e.actor
      /\ \/ tickets[n.ticket].deleted_at
         \/ CanView(n.recipient, tickets[n.ticket])

\* The flag the ticket detail computes agrees with the UPDATE that will decide:
\* whoever sees the ticket is offered the cancellation exactly when a cancel
\* that ran now would go through.
CancelOfferIsHonest ==
  \A t \in Tickets, u \in People :
    CanView(u, tickets[t]) =>
      (CanCancel(t, u) <=> /\ MayCancel(u, tickets[t])
                           /\ StillCancellable([ticket |-> t, actor |-> u]))

\* A step that records RECOVERED brings that ticket back from the archive, and
\* no other kind of step does.
RecoveryLeavesArchive ==
  [][\A t \in Tickets :
       (tickets[t].deleted_at /\ ~tickets'[t].deleted_at) <=>
         /\ Len(events'[t]) > Len(events[t])
         /\ events'[t][Len(events'[t])].type = "RECOVERED"]_vars

\* What people are told they can do works when they try: the ticket a
\* notification links to opens, the cancellation that is offered goes through.
OffersAreHonest == NotifiedCanView /\ CancelOfferIsHonest

\* Recovery and the archive go together: one recovery for each cancellation,
\* and no way out of the archive but a recorded recovery.
RecoveredOnce == []OneRecoveryPerCancel /\ RecoveryLeavesArchive

-----------------------------------------------------------------------------
(* What the claim of a ticket promises, and how this module keeps it. *)

\* Who has the ticket, read off its history and its row.
Holder(t) ==
  IF HasEvent(t, "ASSIGNED") THEN tickets[t].technician_id
  ELSE IF tickets[t].status = "cancelled" THEN "withdrawn" ELSE "free"

Claim == INSTANCE TicketClaim
           WITH Operators <- Technicians \union Admins,
                claim <- [t \in Tickets |-> Holder(t)]

\* The two-step operations, their stale reads and their blind writes implement
\* the one-word promise of TicketClaim: taken once for good, or withdrawn and
\* maybe reinstated, never both.
ImplementsClaim == Claim!Spec

-----------------------------------------------------------------------------
(* Statements of the documentation that racing requests break. *)

\* reopen_ticket_service: "Só faz sentido reabrir ticket que foi resolvido ou
\* fechado": a reopening finds the ticket resolved or closed.
ReopensOnlyFinished ==
  [][\A t \in Tickets :
       /\ Len(events'[t]) > Len(events[t])
       /\ events'[t][Len(events'[t])].type = "REOPENED"
       => tickets[t].status \in {"resolved", "closed"}]_vars

\* README, on cancelling: "Remove notificacoes": a cancelled ticket has none.
CancelledHasNoNotifications ==
  \A t \in Tickets : tickets[t].status = "cancelled" => NotificationsOf(t) = {}

\* create_comment_service: "Ticket encerrado não permite comentários".
ClosedTakesNoComment ==
  [][\A t \in Tickets :
       /\ Len(events'[t]) > Len(events[t])
       /\ events'[t][Len(events'[t])].type = "COMMENTED"
       => tickets[t].status # "closed"]_vars
=============================================================================
