----------------------- MODULE TicketLifecycle_proofs -----------------------
(***************************************************************************)
(* Proofs about TicketLifecycle for any sets of tickets, people and        *)
(* request threads.  Who holds a ticket: only a successful assignment      *)
(* changes it, every other step is quiet about it (RowsQuiet and           *)
(* EventsQuiet), and the conditional UPDATE of the assignment excludes a   *)
(* ticket that somebody else holds.  What the events of a ticket tell: its *)
(* history leads to its status, and each cancellation is recovered once.   *)
(* Where its notifications lead: to tickets their recipients may open.     *)
(***************************************************************************)
EXTENDS TicketLifecycle, FiniteSetTheorems, TLAPS

-----------------------------------------------------------------------------
(* What a step does not change: the holder of each ticket. *)

\* No row changes technician or moves in or out of the statuses in service.
RowsQuiet ==
  /\ tickets' \in [Tickets -> Row]
  /\ \A t \in Tickets :
       /\ tickets'[t].technician_id = tickets[t].technician_id
       /\ tickets'[t].status \in Served <=> tickets[t].status \in Served

\* The timelines only grow, and not by an ASSIGNED event.
EventsQuiet ==
  /\ events' \in [Tickets -> Seq(Event)]
  /\ \A t \in Tickets :
       /\ \A i \in DOMAIN events[t] :
            i \in DOMAIN events'[t] /\ events'[t][i] = events[t][i]
       /\ \A i \in DOMAIN events'[t] :
            events'[t][i].type = "ASSIGNED" => i \in DOMAIN events[t]

\* The requests in flight afterwards were in flight before, with the same read.
RequestsQuiet ==
  /\ DOMAIN inflight' \subseteq Requests
  /\ inflight' \in [DOMAIN inflight' -> Request]
  /\ \A r \in DOMAIN inflight' :
       /\ r \in DOMAIN inflight
       /\ inflight'[r].op = inflight[r].op
       /\ inflight'[r].ticket = inflight[r].ticket
       /\ inflight'[r].actor = inflight[r].actor
       /\ inflight'[r].row = inflight[r].row

Quiet ==
  /\ RowsQuiet
  /\ EventsQuiet
  /\ RequestsQuiet
  /\ notifications' \subseteq Notification

LEMMA QuietStep ==
  ASSUME IInv, Quiet
  PROVE  IInv'
<1> USE DEF Quiet
<1>1. TypeOK'
  BY DEF TypeOK, RowsQuiet, EventsQuiet, RequestsQuiet
<1>2. \A t \in Tickets : HasEvent(t, "ASSIGNED")' <=> HasEvent(t, "ASSIGNED")
  BY DEF EventsQuiet, HasEvent
<1>3. CancelledNeverServed'
  BY <1>2 DEF IInv, CancelledNeverServed, RowsQuiet
<1>4. ReadsOutlived'
  <2> SUFFICES ASSUME NEW r \in DOMAIN inflight'
      PROVE /\ inflight'[r].row.status \in Served =>
                 tickets'[inflight'[r].ticket].status \in Served
            /\ inflight'[r].op \in {"resolve", "close", "reopen"} =>
                 inflight'[r].row.status \in Served
            /\ inflight'[r].op = "assign" =>
                 /\ IsOperator(inflight'[r].actor)
                 /\ inflight'[r].row.status \in {"open", "reopened"}
    BY DEF ReadsOutlived, IsOperator
  <2>1. r \in DOMAIN inflight /\ inflight[r].ticket \in Tickets
    BY DEF RequestsQuiet, IInv, TypeOK, Request
  <2> QED
    BY <2>1 DEF RequestsQuiet, RowsQuiet, IInv, ReadsOutlived
<1>5. OneTechnician'
  BY DEF IInv, OneTechnician, RowsQuiet, EventsQuiet
<1> QED
  BY <1>1, <1>3, <1>4, <1>5 DEF IInv

-----------------------------------------------------------------------------
(* Lemmas about the pieces the operations are made of. *)

\* What an operation knows of its own request.
LEMMA RequestFields ==
  ASSUME TypeOK, NEW r \in DOMAIN inflight
  PROVE  /\ r \in Requests
         /\ inflight[r] \in Request
         /\ inflight[r].ticket \in Tickets
         /\ inflight[r].actor \in People
         /\ inflight[r].row \in Row
         /\ inflight[r].row.status \in Statuses
         /\ inflight[r].doomed \subseteq Notification
BY DEF TypeOK, Request, Row

LEMMA FinishQuiet ==
  ASSUME TypeOK, NEW r, Finish(r)
  PROVE  RequestsQuiet
BY DEF TypeOK, Finish, Restrict, RequestsQuiet

LEMMA UnchangedRowsQuiet ==
  ASSUME TypeOK, tickets' = tickets
  PROVE  RowsQuiet
BY DEF TypeOK, RowsQuiet

LEMMA UnchangedEventsQuiet ==
  ASSUME TypeOK, events' = events
  PROVE  EventsQuiet
BY DEF TypeOK, EventsQuiet

\* The rows the operations write are rows, with the columns they assign.
LEMMA RowAssigned ==
  ASSUME NEW base \in Row, NEW p \in Technicians \union Admins
  PROVE  LET row == [base EXCEPT !.technician_id = p, !.status = "in_progress"]
         IN  /\ row \in Row
             /\ row.technician_id = p
             /\ row.status = "in_progress"
BY DEF Row, Statuses, Served

LEMMA RowMoved ==
  ASSUME NEW base \in Row, NEW s \in Statuses, NEW b \in BOOLEAN
  PROVE  LET row == [base EXCEPT !.status = s, !.resolved_at = b]
         IN  /\ row \in Row
             /\ row.technician_id = base.technician_id
             /\ row.status = s
BY DEF Row

LEMMA RowClosed ==
  ASSUME NEW base \in Row
  PROVE  LET row == [base EXCEPT !.status = "closed"]
         IN  /\ row \in Row
             /\ row.technician_id = base.technician_id
             /\ row.status = "closed"
BY DEF Row, Statuses, Served

LEMMA RowArchived ==
  ASSUME NEW base \in Row, NEW p \in People
  PROVE  LET row == [base EXCEPT !.deleted_at = TRUE, !.deleted_by = p]
         IN  /\ row \in Row
             /\ row.technician_id = base.technician_id
             /\ row.status = base.status
BY DEF Row

LEMMA RowCancelled ==
  ASSUME NEW base \in Row, NEW p \in People
  PROVE  LET row == [base EXCEPT !.status = "cancelled", !.deleted_at = TRUE,
                                 !.deleted_by = p]
         IN  /\ row \in Row
             /\ row.technician_id = base.technician_id
             /\ row.status = "cancelled"
BY DEF Row, Statuses, Unassigned

\* A row rewritten with the same technician, on the same side of Served.
LEMMA WriteQuiet ==
  ASSUME TypeOK, NEW t \in Tickets, NEW row \in Row,
         tickets' = [tickets EXCEPT ![t] = row],
         row.technician_id = tickets[t].technician_id,
         row.status \in Served <=> tickets[t].status \in Served
  PROVE  RowsQuiet
BY DEF TypeOK, RowsQuiet

LEMMA RecordGrows ==
  ASSUME TypeOK, NEW t \in Tickets, NEW type \in EventTypes,
         NEW from \in Statuses \union {"null"},
         NEW to \in Statuses \union {"null"}, NEW actor \in People,
         Record(t, type, from, to, actor)
  PROVE  /\ events' \in [Tickets -> Seq(Event)]
         /\ \A s \in Tickets : \A i \in DOMAIN events[s] :
              i \in DOMAIN events'[s] /\ events'[s][i] = events[s][i]
         /\ \A s \in Tickets : \A i \in DOMAIN events'[s] :
              \/ i \in DOMAIN events[s]
              \/ /\ s = t
                 /\ events'[s][i] = [type |-> type, from |-> from, to |-> to,
                                     actor |-> actor]
         /\ Len(events[t]) + 1 \in DOMAIN events'[t]
         /\ events'[t][Len(events[t]) + 1].type = type
<1> DEFINE e == [type |-> type, from |-> from, to |-> to, actor |-> actor]
<1>1. e \in Event
  BY DEF Event
<1>2. events[t] \in Seq(Event)
  BY DEF TypeOK
<1>3. Append(events[t], e) \in Seq(Event)
  BY <1>1, <1>2
<1>4. events' = [events EXCEPT ![t] = Append(events[t], e)]
  BY DEF Record
<1>5. \A i \in DOMAIN Append(events[t], e) : 
        \/ i \in DOMAIN events[t]
        \/ Append(events[t], e)[i] = e
  BY <1>1, <1>2
<1>6. \A i \in DOMAIN events[t] :
        /\ i \in DOMAIN Append(events[t], e)
        /\ Append(events[t], e)[i] = events[t][i]
  BY <1>1, <1>2
<1>7. /\ Len(events[t]) + 1 \in DOMAIN Append(events[t], e)
      /\ Append(events[t], e)[Len(events[t]) + 1] = e
  BY <1>1, <1>2
<1> HIDE DEF e
<1>8. e.type = type
  BY DEF e
<1> QED
  BY <1>2, <1>3, <1>4, <1>5, <1>6, <1>7, <1>8 DEF TypeOK, e

LEMMA RecordQuiet ==
  ASSUME TypeOK, NEW t \in Tickets, NEW type \in EventTypes \ {"ASSIGNED"},
         NEW from \in Statuses \union {"null"},
         NEW to \in Statuses \union {"null"}, NEW actor \in People,
         Record(t, type, from, to, actor)
  PROVE  EventsQuiet
<1> DEFINE e == [type |-> type, from |-> from, to |-> to, actor |-> actor]
<1>1. type \in EventTypes
  OBVIOUS
<1>2. /\ events' \in [Tickets -> Seq(Event)]
      /\ \A s \in Tickets : \A i \in DOMAIN events[s] :
           i \in DOMAIN events'[s] /\ events'[s][i] = events[s][i]
      /\ \A s \in Tickets : \A i \in DOMAIN events'[s] :
           i \in DOMAIN events[s] \/ events'[s][i] = e
  BY <1>1, RecordGrows
<1>3. e.type # "ASSIGNED"
  OBVIOUS
<1> QED
  BY <1>2, <1>3 DEF EventsQuiet

LEMMA NotifyType ==
  ASSUME TypeOK, NEW t \in Tickets, NEW type, NEW row, NEW actor,
         Notify(t, type, row, actor)
  PROVE  notifications' \subseteq Notification
<1>1. Len(events[t]) + 1 \in Nat
  BY DEF TypeOK
<1>2. Recipients(type, row, actor) \subseteq People
  BY DEF Recipients, People
<1> QED
  BY <1>1, <1>2 DEF TypeOK, Notify, Notification

-----------------------------------------------------------------------------
(* Each step preserves the invariant. *)

LEMMA InitIInv == Init => IInv
<1> SUFFICES ASSUME Init PROVE IInv
  OBVIOUS
<1>1. NoRow \in Row /\ NoRow.status \notin Served /\ NoRow.technician_id = NoOne
  BY DEF NoRow, Row, Statuses, Unassigned, Served
<1>2. <<>> \in Seq(Event) /\ DOMAIN <<>> = {}
  OBVIOUS
<1>3. TypeOK
  BY <1>1, <1>2 DEF Init, TypeOK
<1>4. CancelledNeverServed
  BY <1>1, <1>2 DEF Init, CancelledNeverServed, HasEvent
<1>5. ReadsOutlived
  BY DEF Init, ReadsOutlived
<1>6. OneTechnician
  BY <1>2 DEF Init, OneTechnician
<1> QED
  BY <1>3, <1>4, <1>5, <1>6 DEF IInv

LEMMA CreateQuiet ==
  ASSUME IInv, NEW t \in Tickets, NEW u \in People, Create(t, u)
  PROVE  Quiet
<1> DEFINE row == [NoRow EXCEPT !.status = "open", !.user_id = u]
<1> USE DEF IInv
<1>1. row \in Row /\ row.technician_id = NoOne /\ row.status \notin Served
  BY DEF NoRow, Row, Statuses, Unassigned, Served, People
<1>2. tickets' = [tickets EXCEPT ![t] = row] /\ tickets[t] = NoRow
  BY DEF Create
<1>3. tickets[t].technician_id = NoOne /\ tickets[t].status \notin Served
  BY <1>2 DEF NoRow, Served
<1>4. RowsQuiet
  BY <1>1, <1>2, <1>3, WriteQuiet
<1>5. EventsQuiet
  <2>1. "CREATED" \in EventTypes \ {"ASSIGNED"} /\ "open" \in Statuses
    BY DEF EventTypes, LinkedEvents, Statuses, Unassigned
  <2> QED
    BY <2>1, RecordQuiet DEF Create
<1>6. notifications' \subseteq Notification
  BY NotifyType DEF Create
<1>7. RequestsQuiet
  BY DEF Create, RequestsQuiet, TypeOK
<1> QED
  BY <1>4, <1>5, <1>6, <1>7 DEF Quiet

\* The request that begins reads the row as it is now.
LEMMA BeginIInv ==
  ASSUME IInv, NEW r \in Requests, NEW op \in Operations, NEW t \in Tickets,
         NEW u \in People, Begin(r, op, t, u)
  PROVE  IInv'
<1> DEFINE q == [op |-> op, ticket |-> t, actor |-> u, row |-> tickets[t],
                 cleared |-> FALSE, doomed |-> {}]
<1> USE DEF IInv
<1>1. q \in Request
  BY DEF TypeOK, Request
<1>2. inflight' = [x \in DOMAIN inflight \union {r} |->
                     IF x = r THEN q ELSE inflight[x]]
  BY DEF Begin
<1>3. tickets' = tickets /\ events' = events /\ notifications' = notifications
  BY DEF Begin
<1>4. TypeOK'
  <2>1. DOMAIN inflight' \subseteq Requests
    BY <1>2 DEF TypeOK
  <2>2. inflight' \in [DOMAIN inflight' -> Request]
    BY <1>1, <1>2 DEF TypeOK
  <2> QED
    BY <1>3, <2>1, <2>2 DEF TypeOK
<1>5. ReadsOutlived'
  <2>1. /\ op \in {"resolve", "close", "reopen"} => tickets[t].status \in Served
        /\ op = "assign" => /\ IsOperator(u)
                            /\ tickets[t].status \in {"open", "reopened"}
    BY DEF Begin, May, MayResolve, MayClose, MayReopen, MayAssign, Served
  <2> SUFFICES ASSUME NEW x \in DOMAIN inflight'
      PROVE /\ inflight'[x].row.status \in Served =>
                 tickets[inflight'[x].ticket].status \in Served
            /\ inflight'[x].op \in {"resolve", "close", "reopen"} =>
                 inflight'[x].row.status \in Served
            /\ inflight'[x].op = "assign" =>
                 /\ IsOperator(inflight'[x].actor)
                 /\ inflight'[x].row.status \in {"open", "reopened"}
    BY <1>3 DEF ReadsOutlived, IsOperator
  <2>2. CASE x = r
    BY <1>2, <2>1, <2>2
  <2>3. CASE x # r
    BY <1>2, <2>3 DEF ReadsOutlived
  <2> QED
    BY <2>2, <2>3
<1>6. CancelledNeverServed' /\ OneTechnician'
  BY <1>3 DEF CancelledNeverServed, OneTechnician, HasEvent
<1> QED
  BY <1>4, <1>5, <1>6

\* The only step that is not quiet.  Its UPDATE matches a row whose technician
\* is NULL or the actor, so the ASSIGNED events there are, by OneTechnician,
\* the actor's own.
LEMMA AssignIInv ==
  ASSUME IInv, NEW r \in Requests, Assign(r)
  PROVE  IInv'
<1> DEFINE q == inflight[r]
           t == q.ticket
           row == [tickets[t] EXCEPT !.technician_id = q.actor,
                                     !.status = "in_progress"]
<1> USE DEF IInv
<1>0. r \in DOMAIN inflight /\ q.op = "assign"
  BY DEF Assign, Serving
<1>1. /\ t \in Tickets /\ q.actor \in People
      /\ q.row.status \in Statuses
  BY <1>0, RequestFields
<1>2. q.actor \in Technicians \union Admins /\ q.actor # NoOne
  BY <1>0, <1>1, RolesAssumption DEF ReadsOutlived, IsOperator
<1>3. tickets' = [tickets EXCEPT ![t] = row]
  BY <1>1 DEF Assign, TypeOK
<1>4. /\ row \in Row
      /\ row.technician_id = q.actor
      /\ row.status = "in_progress"
  <2>1. tickets[t] \in Row
    BY <1>1 DEF TypeOK
  <2> QED
    BY <1>2, <2>1, RowAssigned
<1>5. tickets' \in [Tickets -> Row]
  BY <1>3, <1>4 DEF TypeOK
<1>6. Record(t, "ASSIGNED", q.row.status, "in_progress", q.actor)
  BY DEF Assign
<1>7. "ASSIGNED" \in EventTypes /\ "in_progress" \in Statuses \union {"null"}
  BY DEF EventTypes, LinkedEvents, Statuses, Served
<1> DEFINE e == [type |-> "ASSIGNED", from |-> q.row.status,
                 to |-> "in_progress", actor |-> q.actor]
<1>8. /\ events' \in [Tickets -> Seq(Event)]
      /\ \A s \in Tickets : \A i \in DOMAIN events[s] :
           i \in DOMAIN events'[s] /\ events'[s][i] = events[s][i]
      /\ \A s \in Tickets : \A i \in DOMAIN events'[s] :
           i \in DOMAIN events[s] \/ (s = t /\ events'[s][i] = e)
      /\ Len(events[t]) + 1 \in DOMAIN events'[t]
      /\ events'[t][Len(events[t]) + 1].type = "ASSIGNED"
  BY <1>1, <1>6, <1>7, RecordGrows
<1>9. notifications' \subseteq Notification
  BY <1>1, NotifyType DEF Assign
<1>10. RequestsQuiet
  BY FinishQuiet DEF Assign
<1>11. TypeOK'
  BY <1>5, <1>8, <1>9, <1>10 DEF TypeOK, RequestsQuiet
<1>12. CancelledNeverServed'
  <2> SUFFICES ASSUME NEW s \in Tickets
      PROVE /\ HasEvent(s, "ASSIGNED")' <=> tickets'[s].status \in Served
            /\ tickets'[s].technician_id # NoOne <=> tickets'[s].status \in Served
    BY DEF CancelledNeverServed
  <2>1. CASE s = t
    <3>1. HasEvent(s, "ASSIGNED")'
      BY <1>8, <2>1 DEF HasEvent
    <3>2. tickets'[s] = row
      BY <1>1, <1>3, <2>1 DEF TypeOK
    <3> HIDE DEF row
    <3> QED
      BY <1>2, <1>4, <3>1, <3>2 DEF Served
  <2>2. CASE s # t
    <3>1. HasEvent(s, "ASSIGNED")' <=> HasEvent(s, "ASSIGNED")
      BY <1>8, <2>2 DEF HasEvent
    <3> QED
      BY <1>3, <2>2, <3>1 DEF CancelledNeverServed, TypeOK
  <2> QED
    BY <2>1, <2>2
<1>13. ReadsOutlived'
  <2>1. \A s \in Tickets : tickets[s].status \in Served => tickets'[s].status \in Served
    BY <1>1, <1>3, <1>4 DEF TypeOK, Served
  <2> SUFFICES ASSUME NEW x \in DOMAIN inflight'
      PROVE /\ inflight'[x].row.status \in Served =>
                 tickets'[inflight'[x].ticket].status \in Served
            /\ inflight'[x].op \in {"resolve", "close", "reopen"} =>
                 inflight'[x].row.status \in Served
            /\ inflight'[x].op = "assign" =>
                 /\ IsOperator(inflight'[x].actor)
                 /\ inflight'[x].row.status \in {"open", "reopened"}
    BY DEF ReadsOutlived, IsOperator
  <2>2. x \in DOMAIN inflight /\ inflight[x].ticket \in Tickets
    BY <1>10 DEF RequestsQuiet, TypeOK, Request
  <2> QED
    BY <1>10, <2>1, <2>2 DEF RequestsQuiet, ReadsOutlived
<1>14. OneTechnician'
  <2> SUFFICES ASSUME NEW s \in Tickets, NEW i \in DOMAIN events'[s],
                      events'[s][i].type = "ASSIGNED"
      PROVE events'[s][i].actor = tickets'[s].technician_id
    BY DEF OneTechnician
  <2>1. CASE s # t
    BY <1>3, <1>8, <2>1 DEF OneTechnician, TypeOK
  <2>2. CASE s = t
    <3>1. tickets'[s].technician_id = q.actor
      BY <1>1, <1>3, <1>4, <2>2 DEF TypeOK
    <3>2. CASE i \in DOMAIN events[s]
      <4>1. events[s][i].actor = tickets[s].technician_id
        BY <1>8, <3>2 DEF OneTechnician
      <4>2. HasEvent(s, "ASSIGNED")
        BY <1>8, <3>2 DEF HasEvent
      <4>3. tickets[s].technician_id # NoOne
        BY <4>2 DEF CancelledNeverServed
      <4>4. tickets[s].technician_id = q.actor
        BY <2>2, <4>3 DEF Assign, StillAssignable
      <4> QED
        BY <1>8, <3>1, <3>2, <4>1, <4>4
    <3>3. CASE i \notin DOMAIN events[s]
      BY <1>8, <3>1, <3>3
    <3> QED
      BY <3>2, <3>3
  <2> QED
    BY <2>1, <2>2
<1> QED
  BY <1>11, <1>12, <1>13, <1>14

\* The blind writes stay among the statuses in service because the status they
\* were checked against was one, and ReadsOutlived carries that to the commit.
LEMMA ResolveQuiet ==
  ASSUME IInv, NEW r \in Requests, Resolve(r)
  PROVE  Quiet
<1> DEFINE q == inflight[r]
           t == q.ticket
           row == [tickets[t] EXCEPT !.status = "resolved", !.resolved_at = TRUE]
<1> USE DEF IInv
<1>0. r \in DOMAIN inflight /\ q.op = "resolve"
  BY DEF Resolve, Serving
<1>1. /\ t \in Tickets /\ q.actor \in People /\ q.row \in Row
      /\ q.row.status \in Statuses
  BY <1>0, RequestFields
<1>2. tickets[t] \in Row
  BY <1>1 DEF TypeOK
<1>3. tickets[t].status \in Served
  BY <1>0 DEF ReadsOutlived
<1>4. RowsQuiet
  <2>1. tickets' = [tickets EXCEPT ![t] = row]
    BY <1>1 DEF Resolve, TypeOK
  <2>2. /\ row \in Row
        /\ row.technician_id = tickets[t].technician_id
        /\ row.status = "resolved"
    BY <1>2, RowMoved DEF Statuses, Served
  <2>3. row.status \in Served
    BY <2>2 DEF Served
  <2> HIDE DEF row
  <2> QED
    BY <1>1, <1>3, <2>1, <2>2, <2>3, WriteQuiet
<1>5. EventsQuiet
  <2>1. "RESOLVED" \in EventTypes \ {"ASSIGNED"} /\ "resolved" \in Statuses
    BY DEF EventTypes, LinkedEvents, Statuses, Served
  <2> QED
    BY <1>1, <2>1, RecordQuiet DEF Resolve
<1>6. notifications' \subseteq Notification
  BY <1>1, NotifyType DEF Resolve
<1>7. RequestsQuiet
  BY FinishQuiet DEF Resolve
<1> QED
  BY <1>4, <1>5, <1>6, <1>7 DEF Quiet

LEMMA CloseQuiet ==
  ASSUME IInv, NEW r \in Requests, Close(r)
  PROVE  Quiet
<1> DEFINE q == inflight[r]
           t == q.ticket
           row == [tickets[t] EXCEPT !.status = "closed"]
<1> USE DEF IInv
<1>0. r \in DOMAIN inflight /\ q.op = "close"
  BY DEF Close, Serving
<1>1. /\ t \in Tickets /\ q.actor \in People /\ q.row \in Row
      /\ q.row.status \in Statuses
  BY <1>0, RequestFields
<1>2. tickets[t] \in Row
  BY <1>1 DEF TypeOK
<1>3. tickets[t].status \in Served
  BY <1>0 DEF ReadsOutlived
<1>4. RowsQuiet
  <2>1. tickets' = [tickets EXCEPT ![t] = row]
    BY <1>1 DEF Close, TypeOK
  <2>2. /\ row \in Row
        /\ row.technician_id = tickets[t].technician_id
        /\ row.status = "closed"
    BY <1>2, RowClosed DEF Statuses, Served
  <2>3. row.status \in Served
    BY <2>2 DEF Served
  <2> HIDE DEF row
  <2> QED
    BY <1>1, <1>3, <2>1, <2>2, <2>3, WriteQuiet
<1>5. EventsQuiet
  <2>1. "CLOSED" \in EventTypes \ {"ASSIGNED"} /\ "closed" \in Statuses
    BY DEF EventTypes, LinkedEvents, Statuses, Served
  <2> QED
    BY <1>1, <2>1, RecordQuiet DEF Close
<1>6. notifications' \subseteq Notification
  BY <1>1, NotifyType DEF Close
<1>7. RequestsQuiet
  BY FinishQuiet DEF Close
<1> QED
  BY <1>4, <1>5, <1>6, <1>7 DEF Quiet

LEMMA ReopenQuiet ==
  ASSUME IInv, NEW r \in Requests, Reopen(r)
  PROVE  Quiet
<1> DEFINE q == inflight[r]
           t == q.ticket
           b == tickets[t].resolved_at /\ ~q.row.resolved_at
           row == [tickets[t] EXCEPT !.status = "reopened", !.resolved_at = b]
<1> USE DEF IInv
<1>0. r \in DOMAIN inflight /\ q.op = "reopen"
  BY DEF Reopen, Serving
<1>1. /\ t \in Tickets /\ q.actor \in People /\ q.row \in Row
      /\ q.row.status \in Statuses
  BY <1>0, RequestFields
<1>2. tickets[t] \in Row
  BY <1>1 DEF TypeOK
<1>3. tickets[t].status \in Served
  BY <1>0 DEF ReadsOutlived
<1>4. RowsQuiet
  <2>1. tickets' = [tickets EXCEPT ![t] = row]
    BY <1>1 DEF Reopen, TypeOK
  <2>2. /\ row \in Row
        /\ row.technician_id = tickets[t].technician_id
        /\ row.status = "reopened"
    <3>1. b \in BOOLEAN /\ "reopened" \in Statuses
      BY DEF Statuses, Served
    <3> HIDE DEF b
    <3> QED
      BY <1>2, <3>1, RowMoved
  <2>3. row.status \in Served
    BY <2>2 DEF Served
  <2> HIDE DEF row
  <2> QED
    BY <1>1, <1>3, <2>1, <2>2, <2>3, WriteQuiet
<1>5. EventsQuiet
  <2>1. "REOPENED" \in EventTypes \ {"ASSIGNED"} /\ "reopened" \in Statuses
    BY DEF EventTypes, LinkedEvents, Statuses, Served
  <2> QED
    BY <1>1, <2>1, RecordQuiet DEF Reopen
<1>6. notifications' \subseteq Notification
  BY <1>1, NotifyType DEF Reopen
<1>7. RequestsQuiet
  BY FinishQuiet DEF Reopen
<1> QED
  BY <1>4, <1>5, <1>6, <1>7 DEF Quiet

LEMMA ClearNotificationsQuiet ==
  ASSUME IInv, NEW r \in Requests, ClearNotifications(r)
  PROVE  Quiet
<1> USE DEF IInv
<1>0. r \in DOMAIN inflight /\ inflight[r] \in Request
  BY RequestFields DEF ClearNotifications, Serving
<1>1. NotificationsOf(inflight[r].ticket) \subseteq Notification
  BY DEF NotificationsOf, TypeOK
<1>2. RequestsQuiet
  BY <1>0, <1>1 DEF ClearNotifications, RequestsQuiet, TypeOK, Request
<1>3. RowsQuiet /\ EventsQuiet /\ notifications' \subseteq Notification
  BY UnchangedRowsQuiet, UnchangedEventsQuiet DEF ClearNotifications, TypeOK
<1> QED
  BY <1>2, <1>3 DEF Quiet

LEMMA DeleteQuiet ==
  ASSUME IInv, NEW r \in Requests, Delete(r)
  PROVE  Quiet
<1> DEFINE q == inflight[r]
           t == q.ticket
           row == [tickets[t] EXCEPT !.deleted_at = TRUE, !.deleted_by = q.actor]
<1> USE DEF IInv
<1>0. r \in DOMAIN inflight
  BY DEF Delete, Serving
<1>1. t \in Tickets /\ q.actor \in People
  BY <1>0, RequestFields
<1>2. RowsQuiet
  <2>1. tickets' = [tickets EXCEPT ![t] = row] /\ tickets[t] \in Row
    BY <1>1 DEF Delete, TypeOK
  <2>2. /\ row \in Row
        /\ row.technician_id = tickets[t].technician_id
        /\ row.status = tickets[t].status
    BY <1>1, <2>1, RowArchived
  <2> HIDE DEF row
  <2> QED
    BY <1>1, <2>1, <2>2, WriteQuiet
<1>3. EventsQuiet /\ notifications' \subseteq Notification
  BY UnchangedEventsQuiet DEF Delete, TypeOK
<1>4. RequestsQuiet
  BY FinishQuiet DEF Delete
<1> QED
  BY <1>2, <1>3, <1>4 DEF Quiet

LEMMA CancelQuiet ==
  ASSUME IInv, NEW r \in Requests, Cancel(r)
  PROVE  Quiet
<1> DEFINE q == inflight[r]
           t == q.ticket
           row == [tickets[t] EXCEPT !.status = "cancelled", !.deleted_at = TRUE,
                                     !.deleted_by = q.actor]
<1> USE DEF IInv
<1>0. r \in DOMAIN inflight
  BY DEF Cancel, Serving
<1>1. t \in Tickets /\ q.actor \in People
  BY <1>0, RequestFields
<1>2. RowsQuiet
  <2>1. tickets' = [tickets EXCEPT ![t] = row] /\ tickets[t] \in Row
    BY <1>1 DEF Cancel, TypeOK
  <2>2. /\ row \in Row
        /\ row.technician_id = tickets[t].technician_id
        /\ row.status = "cancelled"
    BY <1>1, <2>1, RowCancelled
  <2>3. tickets[t].status \notin Served /\ row.status \notin Served
    BY <2>2 DEF Cancel, StillCancellable, Served
  <2> HIDE DEF row
  <2> QED
    BY <1>1, <2>1, <2>2, <2>3, WriteQuiet
<1>3. EventsQuiet
  <2>1. /\ "CANCELLED" \in EventTypes \ {"ASSIGNED"}
        /\ "open" \in Statuses /\ "cancelled" \in Statuses
    BY DEF EventTypes, LinkedEvents, Statuses, Unassigned
  <2> QED
    BY <1>1, <2>1, RecordQuiet DEF Cancel
<1>4. RequestsQuiet /\ notifications' \subseteq Notification
  BY FinishQuiet DEF Cancel, TypeOK
<1> QED
  BY <1>2, <1>3, <1>4 DEF Quiet

\* A cancelled ticket comes back open: both are outside service.
LEMMA RestoreQuiet ==
  ASSUME IInv, NEW r \in Requests, Restore(r)
  PROVE  Quiet
<1> DEFINE q == inflight[r]
           t == q.ticket
           s == RestoredStatus(q.row.status)
           b == tickets[t].resolved_at /\ q.row.status # "cancelled"
           row == [tickets[t] EXCEPT !.status = s, !.resolved_at = b,
                                     !.deleted_at = FALSE, !.deleted_by = NoOne]
<1> USE DEF IInv
<1>0. r \in DOMAIN inflight
  BY DEF Restore, Serving
<1>1. t \in Tickets /\ q.actor \in People /\ q.row.status \in Statuses
  BY <1>0, RequestFields
<1>2. s \in Statuses
  BY <1>1 DEF RestoredStatus, Statuses, Unassigned
<1>3. RowsQuiet
  <2>1. tickets' = [tickets EXCEPT ![t] = row] /\ tickets[t] \in Row
    BY <1>1 DEF Restore, TypeOK
  <2>2. /\ row \in Row
        /\ row.technician_id = tickets[t].technician_id
        /\ row.status = s
    <3>1. b \in BOOLEAN
      OBVIOUS
    <3> HIDE DEF s, b, q, t
    <3> QED
      BY <1>2, <2>1, <3>1 DEF Row
  <2> HIDE DEF row
  <2>3. s \in Served <=> tickets[t].status \in Served
    BY DEF Restore, StillRestorable, RestoredStatus, Served
  <2> HIDE DEF s, t
  <2> QED
    BY <1>1, <2>1, <2>2, <2>3, WriteQuiet
<1>4. EventsQuiet
  <2>1. "RECOVERED" \in EventTypes \ {"ASSIGNED"}
    BY DEF EventTypes, LinkedEvents
  <2> QED
    BY <1>1, <1>2, <2>1, RecordQuiet DEF Restore
<1>5. RequestsQuiet /\ notifications' \subseteq Notification
  BY FinishQuiet DEF Restore, TypeOK
<1> QED
  BY <1>3, <1>4, <1>5 DEF Quiet

LEMMA CommentQuiet ==
  ASSUME IInv, NEW r \in Requests, Comment(r)
  PROVE  Quiet
<1> USE DEF IInv
<1>0. r \in DOMAIN inflight
  BY DEF Comment, Serving
<1>1. inflight[r].ticket \in Tickets /\ inflight[r].actor \in People
  BY <1>0, RequestFields
<1>2. EventsQuiet
  <2>1. "COMMENTED" \in EventTypes \ {"ASSIGNED"}
    BY DEF EventTypes, LinkedEvents
  <2> QED
    BY <1>1, <2>1, RecordQuiet DEF Comment
<1>3. RowsQuiet /\ notifications' \subseteq Notification
  BY <1>1, UnchangedRowsQuiet, NotifyType DEF Comment
<1>4. RequestsQuiet
  BY FinishQuiet DEF Comment
<1> QED
  BY <1>2, <1>3, <1>4 DEF Quiet

\* A request that ends without a commit.
LEMMA DroppedQuiet ==
  ASSUME IInv, NEW r \in Requests, Conflict(r) \/ Abort(r)
  PROVE  Quiet
<1> USE DEF IInv
<1>1. Finish(r) /\ tickets' = tickets /\ events' = events /\ notifications' = notifications
  BY DEF Conflict, Abort
<1>2. RowsQuiet /\ EventsQuiet /\ RequestsQuiet /\ notifications' \subseteq Notification
  BY <1>1, UnchangedRowsQuiet, UnchangedEventsQuiet, FinishQuiet DEF TypeOK
<1> QED
  BY <1>2 DEF Quiet

LEMMA StutterIInv ==
  ASSUME IInv, UNCHANGED vars
  PROVE  IInv'
BY DEF vars, IInv, TypeOK, CancelledNeverServed, HasEvent, ReadsOutlived,
       IsOperator, OneTechnician

LEMMA NextIInv ==
  ASSUME IInv, [Next]_vars
  PROVE  IInv'
<1>1. CASE \E t \in Tickets, u \in People : Create(t, u)
  BY <1>1, CreateQuiet, QuietStep
<1>2. CASE \E r \in Requests, op \in Operations, t \in Tickets, u \in People :
             Begin(r, op, t, u)
  BY <1>2, BeginIInv
<1>3. ASSUME NEW r \in Requests, Assign(r)
      PROVE  IInv'
  BY <1>3, AssignIInv
<1>4. ASSUME NEW r \in Requests,
             \/ Resolve(r) \/ Close(r) \/ Reopen(r) \/ ClearNotifications(r)
             \/ Delete(r) \/ Cancel(r) \/ Restore(r) \/ Comment(r)
             \/ Conflict(r) \/ Abort(r)
      PROVE  IInv'
  BY <1>4, ResolveQuiet, CloseQuiet, ReopenQuiet, ClearNotificationsQuiet,
     DeleteQuiet, CancelQuiet, RestoreQuiet, CommentQuiet, DroppedQuiet,
     QuietStep
<1>5. CASE UNCHANGED vars
  BY <1>5, StutterIInv
<1> QED
  BY <1>1, <1>2, <1>3, <1>4, <1>5 DEF Next

-----------------------------------------------------------------------------
(* The theorems. *)

THEOREM Invariance == Spec => []IInv
<1>1. Init => IInv
  BY InitIInv
<1>2. IInv /\ [Next]_vars => IInv'
  BY NextIInv
<1> QED
  BY <1>1, <1>2, PTL DEF Spec

\* Tables and sessions keep their shape; in particular only a technician or an
\* administrator is ever written to technician_id.
THEOREM TypeCorrect == Spec => []TypeOK
<1>1. IInv => TypeOK
  BY DEF IInv
<1> QED
  BY <1>1, Invariance, PTL

\* No interleaving of requests lets a ticket be both cancelled and taken.
THEOREM CancelAndAssignExclude == Spec => []CancelledNeverServed
<1>1. IInv => CancelledNeverServed
  BY DEF IInv
<1> QED
  BY <1>1, Invariance, PTL

\* A ticket that was taken stays with the technician who took it.
THEOREM TechnicianIsFinal == Spec => []OneTechnician
<1>1. IInv => OneTechnician
  BY DEF IInv
<1> QED
  BY <1>1, Invariance, PTL

-----------------------------------------------------------------------------
(* TicketLifecycle implements TicketClaim. *)

ClaimMap == [t \in Tickets |-> Holder(t)]

\* A quiet step that moves no ticket into or out of "cancelled" is a stutter of
\* the claim; of a ticket in service it cannot, so those need no argument.
LEMMA SameHolders ==
  ASSUME IInv, RowsQuiet, EventsQuiet,
         \A t \in Tickets : tickets[t].status \notin Served =>
           (tickets'[t].status = "cancelled" <=> tickets[t].status = "cancelled")
  PROVE  ClaimMap' = ClaimMap
<1>1. \A t \in Tickets : HasEvent(t, "ASSIGNED")' <=> HasEvent(t, "ASSIGNED")
  BY DEF EventsQuiet, HasEvent
<1>2. ASSUME NEW t \in Tickets
      PROVE  Holder(t)' = Holder(t)
  <2>1. CASE HasEvent(t, "ASSIGNED")
    BY <1>1, <2>1 DEF Holder, RowsQuiet
  <2>2. CASE ~HasEvent(t, "ASSIGNED")
    BY <1>1, <2>2 DEF Holder, IInv, CancelledNeverServed
  <2> QED
    BY <2>1, <2>2
<1> QED
  BY <1>2 DEF ClaimMap

\* One ticket changed holder: the map changes at that ticket only.
LEMMA OneHolder ==
  ASSUME NEW t \in Tickets, NEW h, Holder(t)' = h,
         \A s \in Tickets \ {t} : Holder(s)' = Holder(s)
  PROVE  ClaimMap' = [ClaimMap EXCEPT ![t] = h]
BY DEF ClaimMap

LEMMA OthersKept ==
  ASSUME TypeOK, NEW t \in Tickets, NEW row, NEW log,
         tickets' = [tickets EXCEPT ![t] = row],
         events' = [events EXCEPT ![t] = log]
  PROVE  \A s \in Tickets \ {t} : Holder(s)' = Holder(s)
<1> SUFFICES ASSUME NEW s \in Tickets \ {t} PROVE Holder(s)' = Holder(s)
  OBVIOUS
<1>1. tickets'[s] = tickets[s] /\ events'[s] = events[s]
  BY DEF TypeOK
<1> QED
  BY <1>1 DEF Holder, HasEvent

\* The winner of the conditional UPDATE took a free ticket, or one of its own.
LEMMA AssignClaims ==
  ASSUME IInv, NEW t \in Tickets, NEW p \in Technicians \union Admins,
         NEW was \in {"open", "reopened"},
         tickets[t].status = was, tickets[t].technician_id \in {NoOne, p},
         tickets' = [tickets EXCEPT ![t].technician_id = p,
                                    ![t].status = "in_progress"],
         Record(t, "ASSIGNED", was, "in_progress", p)
  PROVE  [Claim!Next]_ClaimMap
<1> DEFINE row == [tickets[t] EXCEPT !.technician_id = p, !.status = "in_progress"]
<1> USE DEF IInv
<1>1. tickets[t] \in Row /\ tickets' = [tickets EXCEPT ![t] = row]
  BY DEF TypeOK
<1>2. HasEvent(t, "ASSIGNED")'
  <2>1. /\ "ASSIGNED" \in EventTypes /\ "in_progress" \in Statuses \union {"null"}
        /\ was \in Statuses \union {"null"} /\ p \in People
    BY DEF EventTypes, LinkedEvents, Statuses, Served, Unassigned, People
  <2>2. /\ Len(events[t]) + 1 \in DOMAIN events'[t]
        /\ events'[t][Len(events[t]) + 1].type = "ASSIGNED"
    BY <2>1, RecordGrows
  <2> QED
    BY <2>2 DEF HasEvent
<1>3. tickets'[t].technician_id = p
  <2>1. tickets'[t] = row
    BY <1>1 DEF TypeOK
  <2>2. row.technician_id = p
    BY <1>1, RowAssigned
  <2> HIDE DEF row
  <2> QED
    BY <2>1, <2>2
<1>4. Holder(t)' = p
  BY <1>2, <1>3 DEF Holder
<1>5. ClaimMap' = [ClaimMap EXCEPT ![t] = p]
  <2>1. \A s \in Tickets \ {t} : Holder(s)' = Holder(s)
    BY <1>1, OthersKept DEF Record
  <2> QED
    BY <1>4, <2>1, OneHolder
<1>6. CASE tickets[t].technician_id = NoOne
  <2>1. tickets[t].status \notin Served /\ ~HasEvent(t, "ASSIGNED")
    BY <1>6 DEF CancelledNeverServed
  <2>2. ClaimMap[t] = "free"
    BY <2>1 DEF ClaimMap, Holder
  <2>3. Claim!Take(t, p)
    BY <1>5, <2>2 DEF Claim!Take, ClaimMap
  <2> QED
    BY <2>3 DEF Claim!Next
<1>7. CASE tickets[t].technician_id # NoOne
  <2>1. HasEvent(t, "ASSIGNED") /\ tickets[t].technician_id = p
    BY <1>7 DEF CancelledNeverServed
  <2>2. ClaimMap[t] = p
    BY <2>1 DEF ClaimMap, Holder
  <2>3. ClaimMap' = ClaimMap
    BY <1>5, <2>2 DEF ClaimMap
  <2> QED
    BY <2>3
<1> QED
  BY <1>6, <1>7

LEMMA CancelWithdraws ==
  ASSUME IInv, RowsQuiet, EventsQuiet,
         NEW t \in Tickets, NEW p \in People,
         tickets[t].status = "open", ~HasEvent(t, "ASSIGNED"),
         tickets' = [tickets EXCEPT ![t].status = "cancelled",
                                    ![t].deleted_at = TRUE, ![t].deleted_by = p],
         Record(t, "CANCELLED", "open", "cancelled", p)
  PROVE  [Claim!Next]_ClaimMap
<1> DEFINE row == [tickets[t] EXCEPT !.status = "cancelled", !.deleted_at = TRUE,
                                     !.deleted_by = p]
<1> USE DEF IInv
<1>1. tickets[t] \in Row /\ tickets' = [tickets EXCEPT ![t] = row]
  BY DEF TypeOK
<1>2. ClaimMap[t] = "free"
  BY DEF ClaimMap, Holder
<1>3. tickets'[t].status = "cancelled"
  <2>1. tickets'[t] = row
    BY <1>1 DEF TypeOK
  <2> QED
    BY <1>1, <2>1, RowCancelled
<1>4. ~HasEvent(t, "ASSIGNED")'
  BY DEF EventsQuiet, HasEvent
<1>5. Holder(t)' = "withdrawn"
  BY <1>3, <1>4 DEF Holder
<1>6. ClaimMap' = [ClaimMap EXCEPT ![t] = "withdrawn"]
  <2>1. \A s \in Tickets \ {t} : Holder(s)' = Holder(s)
    BY <1>1, OthersKept DEF Record
  <2> QED
    BY <1>5, <2>1, OneHolder
<1>7. Claim!Withdraw(t)
  BY <1>2, <1>6 DEF Claim!Withdraw, ClaimMap
<1> QED
  BY <1>7 DEF Claim!Next

\* Restoring reinstates a cancelled ticket; the holder of any other ticket it
\* brings back is the one it had.
LEMMA RestoreReinstates ==
  ASSUME IInv, RowsQuiet, EventsQuiet,
         NEW t \in Tickets, NEW p \in People, NEW was \in Statuses,
         NEW b \in BOOLEAN, tickets[t].status = was,
         tickets' = [tickets EXCEPT ![t].status = RestoredStatus(was),
                                    ![t].resolved_at = b,
                                    ![t].deleted_at = FALSE,
                                    ![t].deleted_by = NoOne],
         Record(t, "RECOVERED", was, RestoredStatus(was), p)
  PROVE  [Claim!Next]_ClaimMap
<1> DEFINE s == RestoredStatus(was)
           row == [tickets[t] EXCEPT !.status = s, !.resolved_at = b,
                                     !.deleted_at = FALSE, !.deleted_by = NoOne]
<1> USE DEF IInv
<1>1. tickets[t] \in Row /\ tickets' = [tickets EXCEPT ![t] = row]
  BY DEF TypeOK
<1>2. tickets'[t].status = s
  <2>1. tickets'[t] = row
    BY <1>1 DEF TypeOK
  <2>2. s \in Statuses
    BY DEF RestoredStatus, Statuses, Unassigned
  <2> HIDE DEF s
  <2>3. row.status = s
    BY <1>1 DEF Row
  <2> HIDE DEF row
  <2> QED
    BY <2>1, <2>3
<1>3. CASE was = "cancelled"
  <2>1. ~HasEvent(t, "ASSIGNED")
    BY <1>3 DEF CancelledNeverServed, Served
  <2>2. ~HasEvent(t, "ASSIGNED")'
    BY <2>1 DEF EventsQuiet, HasEvent
  <2>3. ClaimMap[t] = "withdrawn"
    BY <1>3, <2>1 DEF ClaimMap, Holder
  <2>4. tickets'[t].status = "open"
    BY <1>2, <1>3 DEF RestoredStatus
  <2>5. Holder(t)' = "free"
    BY <2>2, <2>4 DEF Holder
  <2>6. ClaimMap' = [ClaimMap EXCEPT ![t] = "free"]
    <3>1. \A x \in Tickets \ {t} : Holder(x)' = Holder(x)
      BY <1>1, OthersKept DEF Record
    <3> QED
      BY <2>5, <3>1, OneHolder
  <2>7. Claim!Reinstate(t)
    BY <2>3, <2>6 DEF Claim!Reinstate, ClaimMap
  <2> QED
    BY <2>7 DEF Claim!Next
<1>4. CASE was # "cancelled"
  <2>1. tickets'[t].status = tickets[t].status
    BY <1>2, <1>4 DEF RestoredStatus
  <2>2. \A x \in Tickets : tickets'[x].status = tickets[x].status
    BY <1>1, <2>1 DEF TypeOK
  <2>3. ClaimMap' = ClaimMap
    BY <2>2, SameHolders
  <2> QED
    BY <2>3
<1> QED
  BY <1>3, <1>4

LEMMA InitClaims == Init => Claim!Init
<1> SUFFICES ASSUME Init PROVE Claim!Init
  OBVIOUS
<1>1. \A t \in Tickets : Holder(t) = "free"
  BY DEF Init, Holder, HasEvent, NoRow
<1> QED
  BY <1>1 DEF Claim!Init

LEMMA OperationClaims ==
  ASSUME IInv, NEW r \in Requests,
         \/ Assign(r) \/ Resolve(r) \/ Close(r) \/ Reopen(r)
         \/ ClearNotifications(r) \/ Delete(r) \/ Cancel(r) \/ Restore(r)
         \/ Comment(r) \/ Conflict(r) \/ Abort(r)
  PROVE  [Claim!Next]_ClaimMap
<1> USE DEF IInv
<1>1. CASE Assign(r)
  <2>0. r \in DOMAIN inflight /\ inflight[r].op = "assign"
    BY <1>1 DEF Assign, Serving
  <2>1. /\ inflight[r].ticket \in Tickets
        /\ inflight[r].actor \in Technicians \union Admins
        /\ inflight[r].row.status \in {"open", "reopened"}
    BY <2>0, RequestFields DEF ReadsOutlived, IsOperator
  <2> QED
    BY <1>1, <2>1, AssignClaims DEF Assign, StillAssignable
<1>2. CASE Cancel(r)
  <2>1. inflight[r].ticket \in Tickets /\ inflight[r].actor \in People
    BY <1>2, RequestFields DEF Cancel, Serving
  <2>2. RowsQuiet /\ EventsQuiet
    BY <1>2, CancelQuiet DEF Quiet
  <2> QED
    BY <1>2, <2>1, <2>2, CancelWithdraws DEF Cancel, StillCancellable
<1>3. CASE Restore(r)
  <2>1. /\ inflight[r].ticket \in Tickets /\ inflight[r].actor \in People
        /\ inflight[r].row.status \in Statuses
    BY <1>3, RequestFields DEF Restore, Serving
  <2>2. RowsQuiet /\ EventsQuiet
    BY <1>3, RestoreQuiet DEF Quiet
  <2>3. tickets[inflight[r].ticket].status = inflight[r].row.status
    BY <1>3 DEF Restore, StillRestorable
  <2> DEFINE b == /\ tickets[inflight[r].ticket].resolved_at
                  /\ inflight[r].row.status # "cancelled"
  <2>4. b \in BOOLEAN
    OBVIOUS
  <2>5. tickets' = [tickets EXCEPT
                      ![inflight[r].ticket].status = RestoredStatus(inflight[r].row.status),
                      ![inflight[r].ticket].resolved_at = b,
                      ![inflight[r].ticket].deleted_at = FALSE,
                      ![inflight[r].ticket].deleted_by = NoOne]
    BY <1>3, <2>1 DEF Restore, TypeOK
  <2>6. Record(inflight[r].ticket, "RECOVERED", inflight[r].row.status,
               RestoredStatus(inflight[r].row.status), inflight[r].actor)
    BY <1>3 DEF Restore
  <2> HIDE DEF b
  <2> QED
    BY <2>1, <2>2, <2>3, <2>4, <2>5, <2>6, RestoreReinstates
<1>4. CASE Resolve(r) \/ Close(r) \/ Reopen(r)
  <2>1. RowsQuiet /\ EventsQuiet
    BY <1>4, ResolveQuiet, CloseQuiet, ReopenQuiet DEF Quiet
  <2>2. r \in DOMAIN inflight /\ inflight[r].op \in {"resolve", "close", "reopen"}
    BY <1>4 DEF Resolve, Close, Reopen, Serving
  <2>3. tickets[inflight[r].ticket].status \in Served
    BY <2>2 DEF ReadsOutlived
  <2>4. ASSUME NEW t \in Tickets, t # inflight[r].ticket
        PROVE  tickets'[t] = tickets[t]
    BY <1>4, <2>4 DEF Resolve, Close, Reopen, TypeOK
  <2>5. \A t \in Tickets : tickets[t].status \notin Served =>
          (tickets'[t].status = "cancelled" <=> tickets[t].status = "cancelled")
    BY <2>3, <2>4
  <2> QED
    BY <2>1, <2>5, SameHolders
<1>5. CASE Delete(r)
  <2>1. RowsQuiet /\ EventsQuiet
    BY <1>5, DeleteQuiet DEF Quiet
  <2>2. \A t \in Tickets : tickets'[t].status = tickets[t].status
    BY <1>5 DEF Delete, TypeOK, Row
  <2> QED
    BY <2>1, <2>2, SameHolders
<1>6. CASE ClearNotifications(r) \/ Comment(r) \/ Conflict(r) \/ Abort(r)
  <2>1. RowsQuiet /\ EventsQuiet /\ tickets' = tickets
    BY <1>6, ClearNotificationsQuiet, CommentQuiet, DroppedQuiet
       DEF Quiet, ClearNotifications, Comment, Conflict, Abort
  <2> QED
    BY <2>1, SameHolders
<1> QED
  BY <1>1, <1>2, <1>3, <1>4, <1>5, <1>6

LEMMA NextClaims ==
  ASSUME IInv, [Next]_vars
  PROVE  [Claim!Next]_ClaimMap
<1> USE DEF IInv
<1>1. ASSUME NEW t \in Tickets, NEW u \in People, Create(t, u)
      PROVE  [Claim!Next]_ClaimMap
  <2>1. RowsQuiet /\ EventsQuiet
    BY <1>1, CreateQuiet DEF Quiet
  <2>2. \A s \in Tickets :
          tickets'[s].status = "cancelled" <=> tickets[s].status = "cancelled"
    BY <1>1 DEF Create, NoRow, TypeOK
  <2> QED
    BY <2>1, <2>2, SameHolders
<1>2. ASSUME NEW r \in Requests, NEW op \in Operations, NEW t \in Tickets,
             NEW u \in People, Begin(r, op, t, u)
      PROVE  [Claim!Next]_ClaimMap
  BY <1>2 DEF Begin, ClaimMap, Holder, HasEvent
<1>3. CASE UNCHANGED vars
  BY <1>3 DEF vars, ClaimMap, Holder, HasEvent
<1> QED
  BY <1>1, <1>2, <1>3, OperationClaims DEF Next

\* Requests with stale reads and blind writes implement the README's promise:
\* a ticket is taken once and for good, or withdrawn until it is reinstated.
THEOREM LifecycleImplementsClaim == Spec => ImplementsClaim
<1>1. Init => Claim!Init
  BY InitClaims
<1>2. IInv /\ [Next]_vars => [Claim!Next]_ClaimMap
  BY NextClaims
<1>3. ClaimMap = [t \in Tickets |-> Holder(t)]
  BY DEF ClaimMap
<1> QED
  BY <1>1, <1>2, <1>3, Invariance, PTL DEF Spec, ImplementsClaim, Claim!Spec, ClaimMap
-----------------------------------------------------------------------------
(* What a step does to the timelines and the archive, operation by operation. *)

\* One event is recorded, and the row of its ticket goes where the event says.
Moves(t, type, from, to, actor) ==
  /\ Record(t, type, from, to, actor)
  /\ \A s \in Tickets \ {t} : tickets'[s] = tickets[s]
  /\ tickets'[t].status = IF to = "null" THEN tickets[t].status ELSE to
  /\ type \in {"ASSIGNED", "CANCELLED", "RECOVERED"} => from = tickets[t].status
  /\ type = "CANCELLED" =>
       /\ tickets[t].status = "open" /\ to = "cancelled"
       /\ ~tickets[t].deleted_at /\ tickets'[t].deleted_at
  /\ type = "RECOVERED" =>
       /\ to \notin {"cancelled", "null"}
       /\ tickets[t].deleted_at /\ ~tickets'[t].deleted_at
  /\ type \notin {"CANCELLED", "RECOVERED"} =>
       /\ tickets'[t].status = "cancelled" <=> tickets[t].status = "cancelled"
       /\ tickets'[t].deleted_at = tickets[t].deleted_at

\* No event is recorded: the statuses stay, and nothing leaves the archive.
Unmoved ==
  /\ events' = events
  /\ \A t \in Tickets : /\ tickets'[t].status = tickets[t].status
                        /\ tickets[t].deleted_at => tickets'[t].deleted_at

Moved ==
  \E t \in Tickets, type \in EventTypes, from \in Statuses \union {"null"},
     to \in Statuses \union {"null"}, actor \in People :
    Moves(t, type, from, to, actor)

Effect == Unmoved \/ Moved

\* The parts of a record of the row that a column assignment writes.
LEMMA RowWritten ==
  ASSUME TypeOK, NEW t \in Tickets, NEW row,
         tickets' = [tickets EXCEPT ![t] = row]
  PROVE  /\ tickets'[t] = row
         /\ \A s \in Tickets \ {t} : tickets'[s] = tickets[s]
BY DEF TypeOK

LEMMA CreateEffect ==
  ASSUME IInv, NEW t \in Tickets, NEW u \in People, Create(t, u)
  PROVE  Effect
<1> DEFINE row == [NoRow EXCEPT !.status = "open", !.user_id = u]
<1>1. /\ tickets' = [tickets EXCEPT ![t] = row] /\ tickets[t] = NoRow
      /\ Record(t, "CREATED", "null", "open", u)
  BY DEF Create
<1>2. /\ row.status = "open" /\ row.deleted_at = FALSE
      /\ tickets[t].status = "absent" /\ tickets[t].deleted_at = FALSE
  BY <1>1 DEF NoRow
<1> HIDE DEF row
<1>3. tickets'[t] = row /\ \A s \in Tickets \ {t} : tickets'[s] = tickets[s]
  BY <1>1, RowWritten DEF IInv
<1>4. Moves(t, "CREATED", "null", "open", u)
  BY <1>1, <1>2, <1>3 DEF Moves
<1>5. "CREATED" \in EventTypes /\ "open" \in Statuses
  BY DEF EventTypes, Statuses, Unassigned
<1> QED
  BY <1>4, <1>5 DEF Effect, Moved

LEMMA AssignEffect ==
  ASSUME IInv, NEW r \in Requests, Assign(r)
  PROVE  Effect
<1> DEFINE q == inflight[r]
           t == q.ticket
           row == [tickets[t] EXCEPT !.technician_id = q.actor,
                                     !.status = "in_progress"]
<1>1. r \in DOMAIN inflight /\ TypeOK
  BY DEF Assign, Serving, IInv
<1>2. /\ t \in Tickets /\ q.actor \in People /\ q.row.status \in Statuses
      /\ tickets[t] \in Row
  BY <1>1, RequestFields DEF TypeOK
<1>3. /\ tickets' = [tickets EXCEPT ![t] = row]
      /\ Record(t, "ASSIGNED", q.row.status, "in_progress", q.actor)
      /\ tickets[t].status = q.row.status /\ q.op = "assign"
  BY <1>1, <1>2 DEF Assign, TypeOK, StillAssignable, Serving
<1>4. tickets[t].status \in {"open", "reopened"}
  BY <1>1, <1>3 DEF IInv, ReadsOutlived
<1>5. row.status = "in_progress" /\ row.deleted_at = tickets[t].deleted_at
  BY <1>2 DEF Row
<1> HIDE DEF row
<1>6. tickets'[t] = row /\ \A s \in Tickets \ {t} : tickets'[s] = tickets[s]
  BY <1>1, <1>2, <1>3, RowWritten
<1>7. Moves(t, "ASSIGNED", q.row.status, "in_progress", q.actor)
  BY <1>3, <1>4, <1>5, <1>6 DEF Moves
<1>8. "ASSIGNED" \in EventTypes /\ "in_progress" \in Statuses
  BY DEF EventTypes, LinkedEvents, Statuses, Served
<1> HIDE DEF q, t
<1> QED
  BY <1>2, <1>7, <1>8 DEF Effect, Moved

\* The blind writes end where their event says, whatever they overwrite; what
\* they overwrite is not a cancelled ticket.
LEMMA BlindEffect ==
  ASSUME IInv, NEW r \in Requests, Resolve(r) \/ Close(r) \/ Reopen(r)
  PROVE  Effect
<1> DEFINE q == inflight[r]
           t == q.ticket
<1>1. /\ r \in DOMAIN inflight /\ TypeOK
      /\ q.op \in {"resolve", "close", "reopen"}
  BY DEF Resolve, Close, Reopen, Serving, IInv
<1>2. /\ t \in Tickets /\ q.actor \in People /\ q.row.status \in Statuses
      /\ tickets[t] \in Row
  BY <1>1, RequestFields DEF TypeOK
<1>3. tickets[t].status \in Served
  BY <1>1 DEF IInv, ReadsOutlived
<1>4. \E type \in {"RESOLVED", "CLOSED", "REOPENED"},
         to \in {"resolved", "closed", "reopened"} :
        /\ Record(t, type, q.row.status, to, q.actor)
        /\ tickets'[t].status = to
        /\ tickets'[t].deleted_at = tickets[t].deleted_at
        /\ \A s \in Tickets \ {t} : tickets'[s] = tickets[s]
  <2>1. CASE Resolve(r)
    <3> DEFINE row == [tickets[t] EXCEPT !.status = "resolved", !.resolved_at = TRUE]
    <3>1. /\ Record(t, "RESOLVED", q.row.status, "resolved", q.actor)
          /\ tickets' = [tickets EXCEPT ![t] = row]
      BY <1>1, <1>2, <2>1 DEF Resolve, TypeOK
    <3>2. row.status = "resolved" /\ row.deleted_at = tickets[t].deleted_at
      BY <1>2 DEF Row
    <3> HIDE DEF row, q, t
    <3> QED
      BY <1>1, <1>2, <3>1, <3>2, RowWritten
  <2>2. CASE Close(r)
    <3> DEFINE row == [tickets[t] EXCEPT !.status = "closed"]
    <3>1. /\ Record(t, "CLOSED", q.row.status, "closed", q.actor)
          /\ tickets' = [tickets EXCEPT ![t] = row]
      BY <1>1, <1>2, <2>2 DEF Close, TypeOK
    <3>2. row.status = "closed" /\ row.deleted_at = tickets[t].deleted_at
      BY <1>2 DEF Row
    <3> HIDE DEF row, q, t
    <3> QED
      BY <1>1, <1>2, <3>1, <3>2, RowWritten
  <2>3. CASE Reopen(r)
    <3> DEFINE b == tickets[t].resolved_at /\ ~q.row.resolved_at
               row == [tickets[t] EXCEPT !.status = "reopened", !.resolved_at = b]
    <3>1. /\ Record(t, "REOPENED", q.row.status, "reopened", q.actor)
          /\ tickets' = [tickets EXCEPT ![t] = row]
      BY <1>1, <1>2, <2>3 DEF Reopen, TypeOK
    <3> HIDE DEF b
    <3>2. row.status = "reopened" /\ row.deleted_at = tickets[t].deleted_at
      BY <1>2 DEF Row
    <3> HIDE DEF row, q, t
    <3> QED
      BY <1>1, <1>2, <3>1, <3>2, RowWritten
  <2> QED
    BY <2>1, <2>2, <2>3
<1> HIDE DEF q, t
<1>5. PICK type \in {"RESOLVED", "CLOSED", "REOPENED"},
           to \in {"resolved", "closed", "reopened"} :
        /\ Record(t, type, q.row.status, to, q.actor)
        /\ tickets'[t].status = to
        /\ tickets'[t].deleted_at = tickets[t].deleted_at
        /\ \A s \in Tickets \ {t} : tickets'[s] = tickets[s]
  BY <1>4
<1>6. Moves(t, type, q.row.status, to, q.actor)
  BY <1>3, <1>5 DEF Moves, Served
<1>7. type \in EventTypes /\ to \in Statuses
  BY DEF EventTypes, LinkedEvents, Statuses, Served
<1> QED
  BY <1>2, <1>6, <1>7 DEF Effect, Moved

LEMMA CancelEffect ==
  ASSUME IInv, NEW r \in Requests, Cancel(r)
  PROVE  Effect
<1> DEFINE q == inflight[r]
           t == q.ticket
           row == [tickets[t] EXCEPT !.status = "cancelled", !.deleted_at = TRUE,
                                     !.deleted_by = q.actor]
<1>1. r \in DOMAIN inflight /\ TypeOK
  BY DEF Cancel, Serving, IInv
<1>2. t \in Tickets /\ q.actor \in People /\ tickets[t] \in Row
  BY <1>1, RequestFields DEF TypeOK
<1>3. /\ tickets' = [tickets EXCEPT ![t] = row]
      /\ Record(t, "CANCELLED", "open", "cancelled", q.actor)
      /\ tickets[t].status = "open" /\ ~tickets[t].deleted_at
  BY <1>1, <1>2 DEF Cancel, TypeOK, StillCancellable
<1>4. row.status = "cancelled" /\ row.deleted_at
  BY <1>2 DEF Row
<1> HIDE DEF row
<1>5. tickets'[t] = row /\ \A s \in Tickets \ {t} : tickets'[s] = tickets[s]
  BY <1>1, <1>2, <1>3, RowWritten
<1>6. Moves(t, "CANCELLED", "open", "cancelled", q.actor)
  BY <1>3, <1>4, <1>5 DEF Moves
<1>7. "CANCELLED" \in EventTypes /\ "open" \in Statuses /\ "cancelled" \in Statuses
  BY DEF EventTypes, Statuses, Unassigned
<1> HIDE DEF q, t
<1> QED
  BY <1>2, <1>6, <1>7 DEF Effect, Moved

LEMMA RestoreEffect ==
  ASSUME IInv, NEW r \in Requests, Restore(r)
  PROVE  Effect
<1> DEFINE q == inflight[r]
           t == q.ticket
           s == RestoredStatus(q.row.status)
           b == tickets[t].resolved_at /\ q.row.status # "cancelled"
           row == [tickets[t] EXCEPT !.status = s, !.resolved_at = b,
                                     !.deleted_at = FALSE, !.deleted_by = NoOne]
<1>1. r \in DOMAIN inflight /\ TypeOK
  BY DEF Restore, Serving, IInv
<1>2. /\ t \in Tickets /\ q.actor \in People /\ tickets[t] \in Row
      /\ q.row.status \in Statuses
  BY <1>1, RequestFields DEF TypeOK
<1>3. /\ tickets' = [tickets EXCEPT ![t] = row]
      /\ Record(t, "RECOVERED", q.row.status, s, q.actor)
      /\ tickets[t].status = q.row.status /\ tickets[t].deleted_at
  BY <1>1, <1>2 DEF Restore, TypeOK, StillRestorable
<1>4. s \in Statuses /\ s # "cancelled" /\ s # "null"
  BY <1>2 DEF RestoredStatus, Statuses, Unassigned, Served
<1> HIDE DEF s, b
<1>5. row.status = s /\ row.deleted_at = FALSE
  BY <1>2 DEF Row
<1> HIDE DEF row
<1>6. tickets'[t] = row /\ \A x \in Tickets \ {t} : tickets'[x] = tickets[x]
  BY <1>1, <1>2, <1>3, RowWritten
<1>7. Moves(t, "RECOVERED", q.row.status, s, q.actor)
  BY <1>3, <1>4, <1>5, <1>6 DEF Moves
<1>8. "RECOVERED" \in EventTypes
  BY DEF EventTypes
<1> HIDE DEF q, t
<1> QED
  BY <1>2, <1>4, <1>7, <1>8 DEF Effect, Moved

LEMMA OtherEffect ==
  ASSUME IInv, NEW r \in Requests,
         ClearNotifications(r) \/ Delete(r) \/ Comment(r) \/ Conflict(r) \/ Abort(r)
  PROVE  Effect
<1>1. CASE Comment(r)
  <2>1. inflight[r].ticket \in Tickets /\ inflight[r].actor \in People
    BY <1>1, RequestFields DEF Comment, Serving, IInv
  <2>2. Moves(inflight[r].ticket, "COMMENTED", "null", "null", inflight[r].actor)
    BY <1>1 DEF Comment, Moves
  <2>3. "COMMENTED" \in EventTypes
    BY DEF EventTypes, LinkedEvents
  <2> QED
    BY <2>1, <2>2, <2>3 DEF Effect, Moved
<1>2. CASE Delete(r)
  BY <1>2 DEF Delete, Effect, Unmoved, IInv, TypeOK, Row
<1>3. CASE ClearNotifications(r) \/ Conflict(r) \/ Abort(r)
  BY <1>3 DEF ClearNotifications, Conflict, Abort, Effect, Unmoved
<1> QED
  BY <1>1, <1>2, <1>3

LEMMA EveryEffect ==
  ASSUME IInv, [Next]_vars
  PROVE  Effect
<1>1. CASE UNCHANGED <<tickets, events>>
  BY <1>1 DEF Effect, Unmoved
<1> QED
  BY <1>1, CreateEffect, AssignEffect, BlindEffect, CancelEffect, RestoreEffect,
     OtherEffect DEF Next, Begin, vars

-----------------------------------------------------------------------------
(* The timeline is complete. *)

Earlier(t, n) == {i \in StatusEvents(t) : i <= n}

\* The CHOOSE of LastStatus finds what it looks for.
LatestExists ==
  \A t \in Tickets : \A n \in 0 .. Len(events[t]) :
    Earlier(t, n) # {} => \E i \in Earlier(t, n) : \A j \in Earlier(t, n) : j <= i

TimelineInv == LatestExists /\ TimelineIsComplete

Latest(S) == CHOOSE i \in S : \A j \in S : j <= i

\* LastStatus, before and after a step, as a function of what was earlier.
LEMMA LastIs ==
  ASSUME NEW t, NEW n
  PROVE  /\ LastStatus(t, n) = IF Earlier(t, n) = {} THEN "absent"
                               ELSE events[t][Latest(Earlier(t, n))].to
         /\ LastStatus(t, n)' = IF Earlier(t, n)' = {} THEN "absent"
                                ELSE events'[t][Latest(Earlier(t, n)')].to
BY DEF LastStatus, Earlier, Latest

LEMMA LastNow ==
  ASSUME NEW t, NEW n, n = Len(events'[t])
  PROVE  LastStatus(t, Len(events[t]))' = LastStatus(t, n)'
<1> DEFINE S == {i \in StatusEvents(t)' : i <= Len(events'[t])}
<1>1. LastStatus(t, Len(events[t]))' = IF S = {} THEN "absent"
                                       ELSE events'[t][Latest(S)].to
  BY DEF LastStatus, Latest
<1>2. S = Earlier(t, n)'
  BY DEF Earlier
<1> HIDE DEF S
<1> QED
  BY <1>1, <1>2, LastIs

\* What was recorded stays, and what it led to.
LEMMA HistoryKept ==
  ASSUME TypeOK, LatestExists, NEW t \in Tickets, NEW n \in 0 .. Len(events[t]),
         events'[t] \in Seq(Event),
         \A i \in DOMAIN events[t] : i \in DOMAIN events'[t] /\ events'[t][i] = events[t][i],
         \A i \in DOMAIN events'[t] : i \in DOMAIN events[t] \/ i = Len(events[t]) + 1
  PROVE  Earlier(t, n)' = Earlier(t, n) /\ LastStatus(t, n)' = LastStatus(t, n)
<1>1. events[t] \in Seq(Event) /\ DOMAIN events[t] = 1 .. Len(events[t])
      /\ Len(events[t]) \in Nat
  BY DEF TypeOK
<1>2. Earlier(t, n)' = Earlier(t, n)
  BY <1>1 DEF Earlier, StatusEvents
<1>3. Earlier(t, n) # {} => Latest(Earlier(t, n)) \in Earlier(t, n)
  BY DEF LatestExists, Latest
<1>4. Earlier(t, n) \subseteq DOMAIN events[t]
  BY DEF Earlier, StatusEvents
<1> QED
  BY <1>2, <1>3, <1>4, LastIs

LEMMA LatestIsLast ==
  ASSUME NEW S, NEW m \in S, \A j \in S : j \in Nat /\ j <= m
  PROVE  Latest(S) = m
<1>1. Latest(S) \in S /\ \A j \in S : j <= Latest(S)
  BY DEF Latest
<1> QED
  BY <1>1

\* A new event that bears a status is the latest one there is.
LEMMA NewestCounts ==
  ASSUME NEW log, NEW m \in Nat, m \in DOMAIN log, log[m].to # "null",
         \A i \in DOMAIN log : i \in Nat /\ i <= m
  PROVE  LET S == {i \in {j \in DOMAIN log : log[j].to # "null"} : i <= m}
         IN  m \in S /\ (\A j \in S : j <= m) /\ Latest(S) = m
<1> DEFINE S == {i \in {j \in DOMAIN log : log[j].to # "null"} : i <= m}
<1>1. m \in S /\ \A j \in S : j \in Nat /\ j <= m
  OBVIOUS
<1> HIDE DEF S
<1>2. Latest(S) = m
  BY <1>1, LatestIsLast
<1> QED
  BY <1>1, <1>2 DEF S

\* What Record does to the timelines.
LEMMA RecordAppends ==
  ASSUME TypeOK, NEW t \in Tickets, NEW type \in EventTypes,
         NEW from \in Statuses \union {"null"},
         NEW to \in Statuses \union {"null"}, NEW actor \in People,
         Record(t, type, from, to, actor)
  PROVE  /\ Len(events[t]) \in Nat /\ DOMAIN events[t] = 1 .. Len(events[t])
         /\ events'[t] \in Seq(Event)
         /\ Len(events'[t]) = Len(events[t]) + 1
         /\ DOMAIN events'[t] = 1 .. (Len(events[t]) + 1)
         /\ \A i \in 1 .. Len(events[t]) : events'[t][i] = events[t][i]
         /\ events'[t][Len(events[t]) + 1] = [type |-> type, from |-> from, to |-> to,
                                              actor |-> actor]
         /\ \A s \in Tickets \ {t} : events'[s] = events[s]
<1> DEFINE e == [type |-> type, from |-> from, to |-> to, actor |-> actor]
<1>1. e \in Event
  BY DEF Event
<1>2. events[t] \in Seq(Event) /\ events \in [Tickets -> Seq(Event)]
  BY DEF TypeOK
<1>3. events' = [events EXCEPT ![t] = Append(events[t], e)]
  BY DEF Record
<1> HIDE DEF e
<1>4. /\ events'[t] = Append(events[t], e)
      /\ \A s \in Tickets \ {t} : events'[s] = events[s]
  BY <1>2, <1>3
<1>5. /\ Len(events[t]) \in Nat /\ DOMAIN events[t] = 1 .. Len(events[t])
      /\ events'[t] \in Seq(Event)
      /\ Len(events'[t]) = Len(events[t]) + 1
      /\ DOMAIN events'[t] = 1 .. (Len(events[t]) + 1)
      /\ \A i \in 1 .. Len(events[t]) : events'[t][i] = events[t][i]
      /\ events'[t][Len(events[t]) + 1] = e
  BY <1>1, <1>2, <1>4
<1> QED
  BY <1>4, <1>5 DEF e

LEMMA TimelineMoves ==
  ASSUME IInv, TimelineInv, NEW t \in Tickets, NEW type \in EventTypes,
         NEW from \in Statuses \union {"null"},
         NEW to \in Statuses \union {"null"}, NEW actor \in People,
         Moves(t, type, from, to, actor)
  PROVE  TimelineInv'
<1> DEFINE e == [type |-> type, from |-> from, to |-> to, actor |-> actor]
<1>0. /\ TypeOK /\ LatestExists /\ TimelineEndsAtStatus /\ ConditionalEventsChain
      /\ events \in [Tickets -> Seq(Event)]
  BY DEF IInv, TypeOK, TimelineInv, TimelineIsComplete
<1>1. PICK m \in Nat :
        /\ m = Len(events[t]) /\ DOMAIN events[t] = 1 .. m
        /\ events'[t] \in Seq(Event)
        /\ Len(events'[t]) = m + 1 /\ DOMAIN events'[t] = 1 .. (m + 1)
        /\ \A i \in 1 .. m : events'[t][i] = events[t][i]
        /\ events'[t][m + 1] = e
        /\ \A s \in Tickets \ {t} : events'[s] = events[s]
  BY <1>0, RecordAppends DEF Moves
<1>2. e.type = type /\ e.from = from /\ e.to = to
  OBVIOUS
<1> HIDE DEF e
<1>3. ASSUME NEW s \in Tickets
      PROVE  /\ events[s] \in Seq(Event) /\ DOMAIN events[s] = 1 .. Len(events[s])
             /\ Len(events[s]) \in Nat /\ events'[s] \in Seq(Event)
             /\ \A i \in DOMAIN events[s] :
                  i \in DOMAIN events'[s] /\ events'[s][i] = events[s][i]
             /\ \A i \in DOMAIN events'[s] :
                  i \in DOMAIN events[s] \/ i = Len(events[s]) + 1
  <2>1. events[s] \in Seq(Event)
    BY <1>0
  <2>2. DOMAIN events[s] = 1 .. Len(events[s]) /\ Len(events[s]) \in Nat
    BY <2>1
  <2>3. CASE s = t
    BY <1>1, <2>1, <2>2, <2>3
  <2>4. CASE s # t
    BY <1>1, <2>1, <2>2, <2>4
  <2> QED
    BY <2>3, <2>4
<1>4. ASSUME NEW s \in Tickets, NEW n \in 0 .. Len(events[s])
      PROVE  Earlier(s, n)' = Earlier(s, n) /\ LastStatus(s, n)' = LastStatus(s, n)
  BY <1>0, <1>3, HistoryKept
<1>5. /\ LastStatus(t, m + 1)' = tickets'[t].status
      /\ Earlier(t, m + 1)' # {} =>
           \E i \in Earlier(t, m + 1)' : \A j \in Earlier(t, m + 1)' : j <= i
  <2>1. CASE to # "null"
    <3> DEFINE log == events'[t]
               S == {i \in {j \in DOMAIN log : log[j].to # "null"} : i <= m + 1}
    <3>1. /\ m + 1 \in Nat /\ m + 1 \in DOMAIN log /\ log[m + 1].to # "null"
          /\ \A i \in DOMAIN log : i \in Nat /\ i <= m + 1
      BY <1>1, <1>2, <2>1
    <3>2. Earlier(t, m + 1)' = S
      BY DEF Earlier, StatusEvents
    <3>3. LastStatus(t, m + 1)' = IF S = {} THEN "absent" ELSE log[Latest(S)].to
      BY <3>2, LastIs
    <3> HIDE DEF log
    <3>4. /\ m + 1 \in S /\ \A j \in S : j <= m + 1
          /\ Latest(S) = m + 1
      BY <3>1, NewestCounts
    <3>5. log[m + 1].to = tickets'[t].status
      BY <1>1, <1>2, <2>1 DEF Moves, log
    <3> HIDE DEF S
    <3> QED
      BY <3>2, <3>3, <3>4, <3>5
  <2>2. CASE to = "null"
    <3>1. Earlier(t, m + 1)' = Earlier(t, m)'
      BY <1>1, <1>2, <2>2 DEF Earlier, StatusEvents
    <3>2. LastStatus(t, m + 1)' = LastStatus(t, m)'
      BY <3>1, LastIs
    <3>3. m \in 0 .. Len(events[t])
      BY <1>1
    <3>4. LastStatus(t, m)' = LastStatus(t, m) /\ Earlier(t, m)' = Earlier(t, m)
      BY <1>4, <3>3
    <3>5. LastStatus(t, m) = tickets'[t].status
      BY <1>0, <1>1, <2>2 DEF TimelineEndsAtStatus, Moves
    <3> QED
      BY <1>0, <3>1, <3>2, <3>3, <3>4, <3>5 DEF LatestExists
  <2> QED
    BY <2>1, <2>2
<1>6. LatestExists'
  <2> SUFFICES ASSUME NEW s \in Tickets, NEW n \in 0 .. Len(events'[s]),
                      Earlier(s, n)' # {}
               PROVE  \E i \in Earlier(s, n)' : \A j \in Earlier(s, n)' : j <= i
    BY DEF LatestExists
  <2>1. CASE n \in 0 .. Len(events[s])
    BY <1>0, <1>4, <2>1 DEF LatestExists
  <2>2. CASE n \notin 0 .. Len(events[s])
    <3>1. s = t /\ n = m + 1
      BY <1>1, <2>2
    <3> QED
      BY <1>5, <3>1
  <2> QED
    BY <2>1, <2>2
<1>7. TimelineEndsAtStatus'
  <2> SUFFICES ASSUME NEW s \in Tickets
               PROVE  LastStatus(s, Len(events[s]))' = tickets'[s].status
    BY DEF TimelineEndsAtStatus
  <2>1. CASE s = t
    <3>1. LastStatus(s, Len(events[s]))' = LastStatus(t, m + 1)'
      BY <1>1, <2>1, LastNow
    <3> QED
      BY <1>5, <2>1, <3>1
  <2>2. CASE s # t
    <3>1. PICK n \in 0 .. Len(events[s]) : n = Len(events[s])
      BY <1>3
    <3>2. LastStatus(s, Len(events[s]))' = LastStatus(s, n)'
      BY <1>1, <2>2, <3>1, LastNow
    <3>3. LastStatus(s, n) = tickets[s].status
      BY <1>0, <3>1 DEF TimelineEndsAtStatus
    <3>4. tickets'[s] = tickets[s]
      BY <2>2 DEF Moves
    <3> QED
      BY <1>4, <3>2, <3>3, <3>4
  <2> QED
    BY <2>1, <2>2
<1>8. ConditionalEventsChain'
  <2> SUFFICES ASSUME NEW s \in Tickets, NEW i \in DOMAIN events'[s],
                      events'[s][i].type \in {"ASSIGNED", "CANCELLED", "RECOVERED"}
               PROVE  events'[s][i].from = LastStatus(s, i - 1)'
    BY DEF ConditionalEventsChain
  <2>1. CASE i \in DOMAIN events[s]
    <3>1. i - 1 \in 0 .. Len(events[s])
      BY <1>3, <2>1
    <3>2. LastStatus(s, i - 1)' = LastStatus(s, i - 1)
      BY <1>4, <3>1
    <3>3. events'[s][i] = events[s][i]
      BY <1>3, <2>1
    <3> QED
      BY <1>0, <2>1, <3>2, <3>3 DEF ConditionalEventsChain
  <2>2. CASE i \notin DOMAIN events[s]
    <3>1. s = t /\ i = m + 1 /\ i - 1 = m /\ m \in 0 .. Len(events[t])
      BY <1>1, <2>2
    <3>2. LastStatus(s, i - 1)' = LastStatus(t, m)
      BY <1>4, <3>1
    <3>3. LastStatus(t, m) = tickets[t].status
      BY <1>0, <1>1 DEF TimelineEndsAtStatus
    <3>4. events'[s][i].type = type /\ events'[s][i].from = from
      BY <1>1, <1>2, <3>1
    <3> QED
      BY <3>2, <3>3, <3>4 DEF Moves
  <2> QED
    BY <2>1, <2>2
<1> QED
  BY <1>6, <1>7, <1>8 DEF TimelineInv, TimelineIsComplete

LEMMA TimelineNext ==
  ASSUME IInv, TimelineInv, [Next]_vars
  PROVE  TimelineInv'
<1>1. CASE Unmoved
  <2>1. /\ events' = events
        /\ \A t \in Tickets : tickets'[t].status = tickets[t].status
    BY <1>1 DEF Unmoved
  <2>2. \A t, n : Earlier(t, n)' = Earlier(t, n)
    BY <2>1 DEF Earlier, StatusEvents
  <2>3. \A t, n : LastStatus(t, n)' = LastStatus(t, n)
    BY <2>1, <2>2, LastIs
  <2>4. LatestExists'
    BY <2>1, <2>2 DEF TimelineInv, LatestExists
  <2>5. TimelineEndsAtStatus'
    <3> SUFFICES ASSUME NEW t \in Tickets
                 PROVE  LastStatus(t, Len(events[t]))' = tickets'[t].status
      BY DEF TimelineEndsAtStatus
    <3>1. PICK n : n = Len(events[t])
      OBVIOUS
    <3>2. LastStatus(t, n) = tickets[t].status
      BY <3>1 DEF TimelineInv, TimelineIsComplete, TimelineEndsAtStatus
    <3> QED
      BY <2>1, <2>3, <3>1, <3>2, LastNow
  <2>6. ConditionalEventsChain'
    BY <2>1, <2>3 DEF TimelineInv, TimelineIsComplete, ConditionalEventsChain
  <2> QED
    BY <2>4, <2>5, <2>6 DEF TimelineInv, TimelineIsComplete
<1>2. CASE Moved
  BY <1>2, TimelineMoves DEF Moved
<1> QED
  BY <1>1, <1>2, EveryEffect DEF Effect

LEMMA TimelineInit == Init => TimelineInv
<1> SUFFICES ASSUME Init PROVE TimelineInv
  OBVIOUS
<1>1. ASSUME NEW t \in Tickets
      PROVE  /\ events[t] = <<>> /\ StatusEvents(t) = {} /\ tickets[t].status = "absent"
  BY DEF Init, StatusEvents, NoRow
<1>2. \A t \in Tickets : \A n : Earlier(t, n) = {} /\ LastStatus(t, n) = "absent"
  BY <1>1 DEF Earlier, LastStatus
<1> QED
  BY <1>1, <1>2 DEF TimelineInv, LatestExists, TimelineIsComplete, TimelineEndsAtStatus,
                    ConditionalEventsChain

\* The history of a ticket ends at its status, and assignments, cancellations and
\* recoveries start at the status the history had led to, for any number of racing
\* requests: the blind writes commit their row and their event together, the
\* conditional ones compare the status they record.
THEOREM TimelineStaysComplete == Spec => []TimelineIsComplete
<1>1. Init => IInv /\ TimelineInv
  BY InitIInv, TimelineInit
<1>2. IInv /\ TimelineInv /\ [Next]_vars => (IInv /\ TimelineInv)'
  BY NextIInv, TimelineNext
<1>3. TimelineInv => TimelineIsComplete
  BY DEF TimelineInv
<1> QED
  BY <1>1, <1>2, <1>3, PTL DEF Spec
-----------------------------------------------------------------------------
(* Each cancellation is recovered once, and nothing else leaves the archive. *)

ArchiveInv ==
  /\ OneRecoveryPerCancel
  /\ \A t \in Tickets : tickets[t].status = "cancelled" => tickets[t].deleted_at

\* Recording an event adds it to one count.
LEMMA CountStep ==
  ASSUME TypeOK, NEW t \in Tickets, NEW type \in EventTypes,
         NEW from \in Statuses \union {"null"},
         NEW to \in Statuses \union {"null"}, NEW actor \in People,
         Record(t, type, from, to, actor), NEW counted, NEW start
  PROVE  /\ CountEvents(t, counted, start) \in Nat
         /\ CountEvents(t, counted, start)' =
              CountEvents(t, counted, start)
                + (IF type = counted /\ from = start THEN 1 ELSE 0)
<1> DEFINE e == [type |-> type, from |-> from, to |-> to, actor |-> actor]
           S == {i \in DOMAIN events[t] : /\ events[t][i].type = counted
                                          /\ events[t][i].from = start}
           T == {i \in DOMAIN events'[t] : /\ events'[t][i].type = counted
                                           /\ events'[t][i].from = start}
<1>1. PICK m \in Nat :
        /\ m = Len(events[t]) /\ DOMAIN events[t] = 1 .. m
        /\ DOMAIN events'[t] = 1 .. (m + 1)
        /\ \A i \in 1 .. m : events'[t][i] = events[t][i]
        /\ events'[t][m + 1] = e
  BY RecordAppends
<1>2. e.type = type /\ e.from = from
  OBVIOUS
<1> HIDE DEF e
<1>3. T = IF type = counted /\ from = start THEN S \union {m + 1} ELSE S
  BY <1>1, <1>2
<1>4. IsFiniteSet(S) /\ m + 1 \notin S
  <2>0. 1 \in Int /\ m \in Int
    BY <1>1
  <2>1. IsFiniteSet(1 .. m)
    BY <2>0, FS_Interval, Zenon
  <2>2. S \subseteq 1 .. m
    BY <1>1
  <2> HIDE DEF S
  <2>3. IsFiniteSet(S)
    BY <2>1, <2>2, FS_Subset
  <2> QED
    BY <1>1, <2>2, <2>3
<1>5. /\ CountEvents(t, counted, start) = Cardinality(S)
      /\ CountEvents(t, counted, start)' = Cardinality(T)
  BY DEF CountEvents
<1> HIDE DEF S, T
<1>6. Cardinality(S) \in Nat /\ Cardinality(S \union {m + 1}) = Cardinality(S) + 1
  BY <1>4, FS_CardinalityType, FS_AddElement
<1> QED
  BY <1>3, <1>5, <1>6

LEMMA ArchiveMoves ==
  ASSUME IInv, ArchiveInv, NEW t \in Tickets, NEW type \in EventTypes,
         NEW from \in Statuses \union {"null"},
         NEW to \in Statuses \union {"null"}, NEW actor \in People,
         Moves(t, type, from, to, actor)
  PROVE  ArchiveInv'
<1>0. TypeOK /\ Record(t, type, from, to, actor)
  BY DEF IInv, Moves
<1>1. /\ \A s \in Tickets \ {t} : tickets'[s] = tickets[s] /\ events'[s] = events[s]
  BY <1>0, RecordAppends DEF Moves
<1>2. (tickets[t].status = "cancelled" => tickets[t].deleted_at)'
  <2>1. CASE type = "CANCELLED"
    BY <2>1 DEF Moves
  <2>2. CASE type = "RECOVERED"
    BY <2>2 DEF Moves
  <2>3. CASE type \notin {"CANCELLED", "RECOVERED"}
    BY <2>3 DEF Moves, ArchiveInv
  <2> QED
    BY <2>1, <2>2, <2>3
<1> DEFINE c == CountEvents(t, "CANCELLED", "open")
           v == CountEvents(t, "RECOVERED", "cancelled")
           a == IF tickets[t].status = "cancelled" /\ tickets[t].deleted_at THEN 1 ELSE 0
<1>3. /\ c \in Nat /\ v \in Nat
      /\ c' = c + (IF type = "CANCELLED" /\ from = "open" THEN 1 ELSE 0)
      /\ v' = v + (IF type = "RECOVERED" /\ from = "cancelled" THEN 1 ELSE 0)
  <2>1. /\ CountEvents(t, "CANCELLED", "open") \in Nat
        /\ CountEvents(t, "CANCELLED", "open")' =
             CountEvents(t, "CANCELLED", "open")
               + (IF type = "CANCELLED" /\ from = "open" THEN 1 ELSE 0)
    BY <1>0, CountStep
  <2>2. /\ CountEvents(t, "RECOVERED", "cancelled") \in Nat
        /\ CountEvents(t, "RECOVERED", "cancelled")' =
             CountEvents(t, "RECOVERED", "cancelled")
               + (IF type = "RECOVERED" /\ from = "cancelled" THEN 1 ELSE 0)
    BY <1>0, CountStep
  <2> QED
    BY <2>1, <2>2
<1>4. c = v + a
  BY DEF ArchiveInv, OneRecoveryPerCancel
<1>5. /\ type = "CANCELLED" => from = "open" /\ a = 0 /\ a' = 1
      /\ type = "RECOVERED" => a' = 0 /\ a = IF from = "cancelled" THEN 1 ELSE 0
      /\ type \notin {"CANCELLED", "RECOVERED"} => a' = a
  BY DEF Moves
<1> HIDE DEF c, v, a
<1>6. c' = v' + a'
  <2>1. a \in {0, 1}
    BY DEF a
  <2> QED
    BY <1>3, <1>4, <1>5, <2>1
<1>7. ASSUME NEW s \in Tickets
      PROVE  /\ (CountEvents(s, "CANCELLED", "open") =
                   CountEvents(s, "RECOVERED", "cancelled")
                     + (IF tickets[s].status = "cancelled" /\ tickets[s].deleted_at
                        THEN 1 ELSE 0))'
             /\ (tickets[s].status = "cancelled" => tickets[s].deleted_at)'
  <2>1. CASE s = t
    BY <1>2, <1>6, <2>1 DEF c, v, a
  <2>2. CASE s # t
    BY <1>1, <2>2 DEF ArchiveInv, OneRecoveryPerCancel, CountEvents
  <2> QED
    BY <2>1, <2>2
<1> QED
  BY <1>7 DEF ArchiveInv, OneRecoveryPerCancel

LEMMA ArchiveNext ==
  ASSUME IInv, ArchiveInv, [Next]_vars
  PROVE  ArchiveInv'
<1>1. CASE Unmoved
  BY <1>1 DEF Unmoved, ArchiveInv, OneRecoveryPerCancel, CountEvents
<1>2. CASE Moved
  BY <1>2, ArchiveMoves DEF Moved
<1> QED
  BY <1>1, <1>2, EveryEffect DEF Effect

LEMMA ArchiveInit == Init => ArchiveInv
<1> SUFFICES ASSUME Init PROVE ArchiveInv
  OBVIOUS
<1>1. ASSUME NEW t \in Tickets
      PROVE  /\ tickets[t].status = "absent"
             /\ CountEvents(t, "CANCELLED", "open") = 0
             /\ CountEvents(t, "RECOVERED", "cancelled") = 0
  <2>1. tickets[t] = NoRow /\ DOMAIN events[t] = {}
    BY DEF Init
  <2> QED
    BY <2>1, FS_EmptySet DEF NoRow, CountEvents
<1> QED
  BY <1>1 DEF ArchiveInv, OneRecoveryPerCancel

LeavesArchive ==
  \A t \in Tickets :
    (tickets[t].deleted_at /\ ~tickets'[t].deleted_at) <=>
      /\ Len(events'[t]) > Len(events[t])
      /\ events'[t][Len(events'[t])].type = "RECOVERED"

LEMMA LeavesByRecovery ==
  ASSUME IInv, [Next]_vars
  PROVE  LeavesArchive
<1>0. \A t \in Tickets : Len(events[t]) \in Nat
  BY DEF IInv, TypeOK
<1>1. CASE Unmoved
  BY <1>0, <1>1 DEF Unmoved, LeavesArchive
<1>2. ASSUME NEW t \in Tickets, NEW type \in EventTypes,
             NEW from \in Statuses \union {"null"},
             NEW to \in Statuses \union {"null"}, NEW actor \in People,
             Moves(t, type, from, to, actor)
      PROVE  LeavesArchive
  <2> DEFINE e == [type |-> type, from |-> from, to |-> to, actor |-> actor]
  <2>1. /\ Len(events'[t]) = Len(events[t]) + 1
        /\ events'[t][Len(events[t]) + 1] = e
        /\ \A s \in Tickets \ {t} : events'[s] = events[s]
    BY <1>2, RecordAppends DEF IInv, Moves
  <2>2. e.type = type
    OBVIOUS
  <2> HIDE DEF e
  <2>3. /\ Len(events'[t]) > Len(events[t])
        /\ events'[t][Len(events'[t])].type = type
    BY <1>0, <2>1, <2>2
  <2>4. (tickets[t].deleted_at /\ ~tickets'[t].deleted_at) <=> type = "RECOVERED"
    BY <1>2 DEF Moves
  <2>5. \A s \in Tickets \ {t} :
          Len(events'[s]) = Len(events[s]) /\ tickets'[s] = tickets[s]
    BY <1>2, <2>1 DEF Moves
  <2> QED
    BY <1>0, <2>3, <2>4, <2>5 DEF LeavesArchive
<1> QED
  BY <1>1, <1>2, EveryEffect DEF Effect, Moved

\* "Only the request that restores the archived row may record recovery events":
\* with any number of administrators pressing restore, each cancellation is
\* recovered at most once and a recorded recovery is the only way out of the archive.
THEOREM RecoveryIsOnce == Spec => RecoveredOnce
<1>1. Init => IInv /\ ArchiveInv
  BY InitIInv, ArchiveInit
<1>2. IInv /\ ArchiveInv /\ [Next]_vars => (IInv /\ ArchiveInv)'
  BY NextIInv, ArchiveNext
<1>3. ArchiveInv => OneRecoveryPerCancel
  BY DEF ArchiveInv
<1>4. IInv /\ [Next]_vars => [LeavesArchive]_vars
  BY LeavesByRecovery
<1>5. RecoveryLeavesArchive <=> [][LeavesArchive]_vars
  BY DEF RecoveryLeavesArchive, LeavesArchive
<1> QED
  BY <1>1, <1>2, <1>3, <1>4, <1>5, PTL DEF Spec, RecoveredOnce

-----------------------------------------------------------------------------
(* What people are told works.  A requester and a technician are written into  *)
(* a row once, so whoever a request read there is still there at its commit,   *)
(* and whoever was notified is still linked to the ticket.                     *)

Names(old, new) ==
  /\ old.user_id # NoOne => new.user_id = old.user_id
  /\ old.technician_id # NoOne => new.technician_id = old.technician_id

Linked(n) ==
  /\ n.event \in DOMAIN events[n.ticket]
  /\ events[n.ticket][n.event].type \in LinkedEvents =>
       /\ n.recipient # events[n.ticket][n.event].actor
       /\ \/ n.recipient \in Users /\ tickets[n.ticket].user_id = n.recipient
          \/ n.recipient \in Technicians /\ tickets[n.ticket].technician_id = n.recipient

LinkInv ==
  /\ \A r \in DOMAIN inflight : Names(inflight[r].row, tickets[inflight[r].ticket])
  /\ \A n \in notifications : Linked(n)

KeepsNames == \A t \in Tickets : Names(tickets[t], tickets'[t])

AnnouncesLinked == \A n \in notifications' : n \in notifications \/ Linked(n)'

Grows ==
  \A t \in Tickets : \A i \in DOMAIN events[t] :
    i \in DOMAIN events'[t] /\ events'[t][i] = events[t][i]

LEMMA EffectGrows ==
  ASSUME IInv, Effect
  PROVE  Grows
<1>1. CASE Unmoved
  BY <1>1 DEF Unmoved, Grows
<1>2. CASE Moved
  <2>1. ASSUME NEW t \in Tickets, NEW type \in EventTypes,
               NEW from \in Statuses \union {"null"},
               NEW to \in Statuses \union {"null"}, NEW actor \in People,
               Moves(t, type, from, to, actor)
        PROVE  Grows
    <3>1. TypeOK /\ Record(t, type, from, to, actor)
      BY <2>1 DEF Moves, IInv
    <3> QED
      BY <3>1, RecordGrows DEF Grows
  <2> QED
    BY <1>2, <2>1 DEF Moved
<1> QED
  BY <1>1, <1>2 DEF Effect

LEMMA LinkStep ==
  ASSUME IInv, LinkInv, Grows, KeepsNames, RequestsQuiet, AnnouncesLinked
  PROVE  LinkInv'
<1>0. TypeOK
  BY DEF IInv
<1>1. ASSUME NEW r \in DOMAIN inflight'
      PROVE  Names(inflight'[r].row, tickets'[inflight'[r].ticket])
  <2>1. /\ r \in DOMAIN inflight /\ inflight'[r].row = inflight[r].row
        /\ inflight'[r].ticket = inflight[r].ticket
    BY DEF RequestsQuiet
  <2>2. inflight[r].ticket \in Tickets
    BY <1>0, <2>1, RequestFields
  <2>3. Names(inflight[r].row, tickets[inflight[r].ticket])
    BY <2>1 DEF LinkInv
  <2>4. Names(tickets[inflight[r].ticket], tickets'[inflight[r].ticket])
    BY <2>2 DEF KeepsNames
  <2> QED
    BY <2>1, <2>3, <2>4 DEF Names
<1>2. ASSUME NEW n \in notifications
      PROVE  Linked(n)'
  <2>1. n.ticket \in Tickets /\ n.recipient \in People
    BY <1>0 DEF TypeOK, Notification
  <2>2. n.recipient # NoOne
    BY <2>1, RolesAssumption
  <2>3. Linked(n) /\ Names(tickets[n.ticket], tickets'[n.ticket])
    BY <2>1 DEF LinkInv, KeepsNames
  <2>4. /\ n.event \in DOMAIN events'[n.ticket]
        /\ events'[n.ticket][n.event] = events[n.ticket][n.event]
    BY <2>1, <2>3 DEF Linked, Grows
  <2> QED
    BY <2>2, <2>3, <2>4 DEF Linked, Names
<1> QED
  BY <1>1, <1>2 DEF LinkInv, AnnouncesLinked

\* The recipients of an event are the people its row names.
LEMMA NotifyLinked ==
  ASSUME TypeOK, NEW t \in Tickets, NEW type \in EventTypes,
         NEW from \in Statuses \union {"null"},
         NEW to \in Statuses \union {"null"}, NEW actor \in People, NEW row,
         Record(t, type, from, to, actor), Notify(t, type, row, actor),
         Names(row, tickets'[t])
  PROVE  AnnouncesLinked
<1> DEFINE e == [type |-> type, from |-> from, to |-> to, actor |-> actor]
<1>1. /\ Len(events[t]) + 1 \in DOMAIN events'[t]
      /\ events'[t][Len(events[t]) + 1] = e
  BY RecordAppends
<1>2. e.type = type /\ e.actor = actor
  OBVIOUS
<1> HIDE DEF e
<1>3. ASSUME NEW n \in notifications', n \notin notifications
      PROVE  Linked(n)'
  <2>1. /\ n.ticket = t /\ n.event = Len(events[t]) + 1
        /\ n.recipient \in Recipients(type, row, actor)
    BY <1>3 DEF Notify
  <2>2. ASSUME type \in LinkedEvents
        PROVE  /\ n.recipient # actor
               /\ \/ n.recipient \in Users /\ row.user_id = n.recipient
                  \/ n.recipient \in Technicians /\ row.technician_id = n.recipient
    BY <2>1, <2>2 DEF Recipients, LinkedEvents
  <2>3. n.recipient \in Users \/ n.recipient \in Technicians => n.recipient # NoOne
    BY RolesAssumption DEF People
  <2> QED
    BY <1>1, <1>2, <2>1, <2>2, <2>3 DEF Linked, Names
<1> QED
  BY <1>3 DEF AnnouncesLinked

LEMMA SameNames ==
  ASSUME NEW old, NEW new, new.user_id = old.user_id,
         new.technician_id = old.technician_id
  PROVE  Names(old, new)
BY DEF Names

LEMMA CreateLinks ==
  ASSUME IInv, LinkInv, NEW t \in Tickets, NEW u \in People, Create(t, u)
  PROVE  LinkInv'
<1> DEFINE row == [NoRow EXCEPT !.status = "open", !.user_id = u]
<1>1. TypeOK /\ RequestsQuiet /\ Grows
  BY CreateQuiet, CreateEffect, EffectGrows DEF IInv, Quiet
<1>2. /\ tickets' = [tickets EXCEPT ![t] = row] /\ tickets[t] = NoRow
      /\ Record(t, "CREATED", "null", "open", u)
      /\ Notify(t, "CREATED", tickets'[t], u)
  BY DEF Create
<1>3. tickets[t].user_id = NoOne /\ tickets[t].technician_id = NoOne
  BY <1>2 DEF NoRow
<1>4. \A s \in Tickets \ {t} : tickets'[s] = tickets[s]
  BY <1>1, <1>2, RowWritten
<1>5. KeepsNames
  BY <1>3, <1>4 DEF KeepsNames, Names
<1>6. "CREATED" \in EventTypes /\ "open" \in Statuses
  BY DEF EventTypes, Statuses, Unassigned
<1>7. Names(tickets'[t], tickets'[t])
  BY SameNames
<1>8. AnnouncesLinked
  BY <1>1, <1>2, <1>6, <1>7, NotifyLinked
<1> QED
  BY <1>1, <1>5, <1>8, LinkStep

LEMMA BeginLinks ==
  ASSUME IInv, LinkInv, NEW r \in Requests, NEW op \in Operations, NEW t \in Tickets,
         NEW u \in People, Begin(r, op, t, u)
  PROVE  LinkInv'
<1> DEFINE q == [op |-> op, ticket |-> t, actor |-> u, row |-> tickets[t],
                 cleared |-> FALSE, doomed |-> {}]
<1>1. /\ inflight' = [x \in DOMAIN inflight \union {r} |->
                        IF x = r THEN q ELSE inflight[x]]
      /\ UNCHANGED <<tickets, events, notifications>>
  BY DEF Begin
<1>2. q.row = tickets[t] /\ q.ticket = t
  OBVIOUS
<1> HIDE DEF q
<1>3. \A x \in DOMAIN inflight' : Names(inflight'[x].row, tickets'[inflight'[x].ticket])
  BY <1>1, <1>2 DEF LinkInv, Names
<1>4. \A n \in notifications' : Linked(n)'
  BY <1>1 DEF LinkInv, Linked
<1> QED
  BY <1>3, <1>4 DEF LinkInv

\* An assignment writes the technician into a row that has none, or has this one.
LEMMA AssignLinks ==
  ASSUME IInv, LinkInv, NEW r \in Requests, Assign(r)
  PROVE  LinkInv'
<1> DEFINE q == inflight[r]
           t == q.ticket
           row == [tickets[t] EXCEPT !.technician_id = q.actor,
                                     !.status = "in_progress"]
<1>1. /\ r \in DOMAIN inflight /\ TypeOK /\ RequestsQuiet /\ Grows
  BY FinishQuiet, AssignEffect, EffectGrows DEF Assign, Serving, IInv
<1>2. /\ t \in Tickets /\ q.actor \in People /\ q.row.status \in Statuses
      /\ tickets[t] \in Row
  BY <1>1, RequestFields DEF TypeOK
<1>3. /\ tickets' = [tickets EXCEPT ![t] = row]
      /\ Record(t, "ASSIGNED", q.row.status, "in_progress", q.actor)
      /\ Notify(t, "ASSIGNED", tickets'[t], q.actor)
      /\ tickets[t].technician_id \in {NoOne, q.actor}
  BY <1>1, <1>2 DEF Assign, TypeOK, StillAssignable
<1>4. row.user_id = tickets[t].user_id /\ row.technician_id = q.actor
  BY <1>2 DEF Row
<1> HIDE DEF row
<1>5. tickets'[t] = row /\ \A s \in Tickets \ {t} : tickets'[s] = tickets[s]
  BY <1>1, <1>2, <1>3, RowWritten
<1> HIDE DEF q, t
<1>6. KeepsNames
  BY <1>3, <1>4, <1>5 DEF KeepsNames, Names
<1>7. "ASSIGNED" \in EventTypes /\ "in_progress" \in Statuses
  BY DEF EventTypes, LinkedEvents, Statuses, Served
<1>8. Names(tickets'[t], tickets'[t])
  BY SameNames
<1>9. AnnouncesLinked
  BY <1>1, <1>2, <1>3, <1>7, <1>8, NotifyLinked
<1> QED
  BY <1>1, <1>6, <1>9, LinkStep

\* The other operations leave both columns alone.
LEMMA NamesUntouched ==
  ASSUME IInv, NEW r \in Requests,
         \/ Resolve(r) \/ Close(r) \/ Reopen(r) \/ ClearNotifications(r)
         \/ Delete(r) \/ Cancel(r) \/ Restore(r) \/ Comment(r)
         \/ Conflict(r) \/ Abort(r)
  PROVE  \A t \in Tickets : /\ tickets'[t].user_id = tickets[t].user_id
                            /\ tickets'[t].technician_id = tickets[t].technician_id
<1>0. tickets \in [Tickets -> Row]
  BY DEF IInv, TypeOK
<1>1. CASE Resolve(r)
  BY <1>0, <1>1 DEF Resolve, Row
<1>2. CASE Close(r)
  BY <1>0, <1>2 DEF Close, Row
<1>3. CASE Reopen(r)
  BY <1>0, <1>3 DEF Reopen, Row
<1>4. CASE Delete(r)
  BY <1>0, <1>4 DEF Delete, Row
<1>5. CASE Cancel(r)
  BY <1>0, <1>5 DEF Cancel, Row
<1>6. CASE Restore(r)
  BY <1>0, <1>6 DEF Restore, Row
<1>7. CASE ClearNotifications(r) \/ Comment(r) \/ Conflict(r) \/ Abort(r)
  BY <1>7 DEF ClearNotifications, Comment, Conflict, Abort
<1> QED
  BY <1>1, <1>2, <1>3, <1>4, <1>5, <1>6, <1>7

LEMMA OperationLinks ==
  ASSUME IInv, LinkInv, NEW r \in Requests,
         \/ Resolve(r) \/ Close(r) \/ Reopen(r) \/ ClearNotifications(r)
         \/ Delete(r) \/ Cancel(r) \/ Restore(r) \/ Comment(r)
         \/ Conflict(r) \/ Abort(r)
  PROVE  LinkInv'
<1> DEFINE q == inflight[r]
           t == q.ticket
<1>1. Quiet /\ Effect
  BY ResolveQuiet, CloseQuiet, ReopenQuiet, ClearNotificationsQuiet, DeleteQuiet,
     CancelQuiet, RestoreQuiet, CommentQuiet, DroppedQuiet,
     BlindEffect, CancelEffect, RestoreEffect, OtherEffect
<1>2. TypeOK /\ RequestsQuiet /\ Grows
  BY <1>1, EffectGrows DEF IInv, Quiet
<1>3. KeepsNames
  BY NamesUntouched, SameNames DEF KeepsNames
<1>4. CASE Resolve(r) \/ Close(r) \/ Reopen(r) \/ Comment(r)
  <2>1. r \in DOMAIN inflight
    BY <1>4 DEF Resolve, Close, Reopen, Comment, Serving
  <2>2. t \in Tickets /\ q.actor \in People /\ q.row.status \in Statuses
    BY <1>2, <2>1, RequestFields
  <2>3. Names(q.row, tickets[t])
    BY <2>1 DEF LinkInv
  <2> HIDE DEF q, t
  <2>4. Names(q.row, tickets'[t])
    BY <1>3, <2>2, <2>3 DEF KeepsNames, Names
  <2>5. PICK type, from, to :
          /\ type \in EventTypes
          /\ from \in Statuses \union {"null"} /\ to \in Statuses \union {"null"}
          /\ Record(t, type, from, to, q.actor) /\ Notify(t, type, q.row, q.actor)
    <3>1. /\ {"RESOLVED", "CLOSED", "REOPENED", "COMMENTED"} \subseteq EventTypes
          /\ {"resolved", "closed", "reopened"} \subseteq Statuses
      BY DEF EventTypes, LinkedEvents, Statuses, Served
    <3>2. CASE Resolve(r)
      <4>1. /\ Record(t, "RESOLVED", q.row.status, "resolved", q.actor)
            /\ Notify(t, "RESOLVED", q.row, q.actor)
        BY <3>2 DEF Resolve, q, t
      <4> QED
        BY <2>2, <3>1, <4>1
    <3>3. CASE Close(r)
      <4>1. /\ Record(t, "CLOSED", q.row.status, "closed", q.actor)
            /\ Notify(t, "CLOSED", q.row, q.actor)
        BY <3>3 DEF Close, q, t
      <4> QED
        BY <2>2, <3>1, <4>1
    <3>4. CASE Reopen(r)
      <4>1. /\ Record(t, "REOPENED", q.row.status, "reopened", q.actor)
            /\ Notify(t, "REOPENED", q.row, q.actor)
        BY <3>4 DEF Reopen, q, t
      <4> QED
        BY <2>2, <3>1, <4>1
    <3>5. CASE Comment(r)
      <4>1. /\ Record(t, "COMMENTED", "null", "null", q.actor)
            /\ Notify(t, "COMMENTED", q.row, q.actor)
        BY <3>5 DEF Comment, q, t
      <4> QED
        BY <3>1, <4>1
    <3> QED
      BY <1>4, <3>2, <3>3, <3>4, <3>5
  <2>6. AnnouncesLinked
    BY <1>2, <2>2, <2>4, <2>5, NotifyLinked
  <2> QED
    BY <1>2, <1>3, <2>6, LinkStep
<1>5. CASE ClearNotifications(r) \/ Delete(r) \/ Cancel(r) \/ Restore(r)
           \/ Conflict(r) \/ Abort(r)
  <2>1. notifications' \subseteq notifications
    BY <1>5 DEF ClearNotifications, Delete, Cancel, Restore, Conflict, Abort
  <2>2. AnnouncesLinked
    BY <2>1 DEF AnnouncesLinked
  <2> QED
    BY <1>2, <1>3, <2>2, LinkStep
<1> QED
  BY <1>4, <1>5

LEMMA LinkNext ==
  ASSUME IInv, LinkInv, [Next]_vars
  PROVE  LinkInv'
<1>1. CASE UNCHANGED vars
  BY <1>1 DEF vars, LinkInv, Linked, Names
<1> QED
  BY <1>1, CreateLinks, BeginLinks, AssignLinks, OperationLinks DEF Next

\* Whoever is linked to a ticket that is not archived may open it.
LEMMA LinkMeans == IInv /\ LinkInv => OffersAreHonest
<1> SUFFICES ASSUME IInv, LinkInv PROVE OffersAreHonest
  OBVIOUS
<1>1. NotifiedCanView
  <2>1. ASSUME NEW n \in notifications,
               events[n.ticket][n.event].type \in LinkedEvents
        PROVE  /\ n.recipient # events[n.ticket][n.event].actor
               /\ \/ tickets[n.ticket].deleted_at
                  \/ CanView(n.recipient, tickets[n.ticket])
    BY <2>1 DEF LinkInv, Linked, CanView
  <2> QED
    BY <2>1 DEF NotifiedCanView
<1>2. CancelOfferIsHonest
  BY DEF CancelOfferIsHonest, CanCancel, MayCancel, StillCancellable, CanView
<1> QED
  BY <1>1, <1>2 DEF OffersAreHonest

\* The ticket a notification links to opens for its recipient unless it was
\* archived, and the cancel button is shown exactly when the cancellation would go
\* through (create_notifications_for_event, can_view_ticket, cancel_ticket_service).
THEOREM OffersStayHonest == Spec => []OffersAreHonest
<1>1. Init => IInv /\ LinkInv
  BY InitIInv DEF Init, LinkInv
<1>2. IInv /\ LinkInv /\ [Next]_vars => (IInv /\ LinkInv)'
  BY NextIInv, LinkNext
<1>3. IInv /\ LinkInv => OffersAreHonest
  BY LinkMeans
<1> QED
  BY <1>1, <1>2, <1>3, PTL DEF Spec
=============================================================================
