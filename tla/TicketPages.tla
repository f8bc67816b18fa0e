----------------------------- MODULE TicketPages -----------------------------
(***************************************************************************)
(* The lists of tickets that are read page by page, by OFFSET and LIMIT,   *)
(* while operations commit between the pages: list_tickets_service, the    *)
(* archive (tickets/deleted.py), the summaries of notifications/service.py *)
(* and the counts of the dashboard (reports/metrics.py).  An operation is  *)
(* one step, its commit, as the readers see it; TicketLifecycle has what   *)
(* leads to it.                                                            *)
(***************************************************************************)
EXTENDS Naturals, FiniteSets, Functions

CONSTANTS Readers,      \* clients that page through a list
          Users, Technicians, Admins,
          Nobody,
          Seed,         \* the tickets there already, by id
          Queries,      \* the lists that are read
          PageCap,      \* DELETED_TICKET_LIMIT_MAX, ADMIN_TICKET_EVENT_LIMIT_MAX
          Started,      \* the time of the last of the seed's events
          MaxClock,     \* bound: commits
          MaxTickets    \* bound: ids of tickets

People == Users \cup Technicians \cup Admins
Ids == 1 .. MaxTickets
Times == 0 .. MaxClock
Statuses == {"open", "reopened", "in_progress", "resolved", "closed"}

\* due and archived are 0 for NULL; of an event only its actor and its time count.
Row == [owner: Users, technician: Technicians \cup Admins \cup {Nobody},
        status: Statuses \cup {"cancelled"}, due: Times, archived: Times,
        events: SUBSET (People \X Times)]

\* The orders by id, creation, priority and impact go by what no operation
\* changes and are one, by id.
Query == [list: {"tickets", "archive", "activity"}, order: {"id", "status", "due_at"},
          direction: {"asc", "desc"}, status: Statuses \cup {"any"}, limit: Nat \ {0}]

ASSUME PagesAssumption ==
  /\ Users \cap Technicians = {} /\ Users \cap Admins = {} /\ Technicians \cap Admins = {}
  /\ Nobody \notin People
  /\ Queries \subseteq Query
  /\ PageCap \in Nat \ {0} /\ MaxClock \in Nat /\ MaxTickets \in Nat /\ Started \in Times
  /\ \E n \in 0 .. MaxTickets : Seed \in [1 .. n -> Row]
  /\ \A t \in DOMAIN Seed : Seed[t].status = "cancelled" => Seed[t].archived > 0

\* A client's walk through a list and, as history, what it was given twice, what
\* has matched and kept its place since it began, and how many rows went out of
\* their place and came to one meanwhile.
Walk == [viewer: People, query: Queries, skip: Nat, more: BOOLEAN, seen: SUBSET Ids,
         repeats: Nat, stayed: SUBSET Ids, left: Nat, came: Nat]

VARIABLES tickets,   \* the rows of tickets
          created,   \* the last id given
          clock,     \* the commits so far
          removed,   \* accounts that are gone
          walks

vars == <<tickets, created, clock, removed, walks>>

-----------------------------------------------------------------------------
(* What the queries select from a table T. *)

Queued(row) == row.technician = Nobody /\ row.status \in {"open", "reopened"}

\* Mutant: whatever has no technician counts as the queue's.
VisibleUnassigned(T, v) ==
  {t \in DOMAIN T : T[t].archived = 0 /\
     (\/ v \in Admins
      \/ v \in Technicians /\ T[t].technician \in {v, Nobody}
      \/ v \in Users /\ T[t].owner = v)}

\* apply_ticket_visibility; and, of tickets, the personal scope without the queue.
Visible(T, v) ==
  {t \in DOMAIN T : T[t].archived = 0 /\
     (\/ v \in Admins
      \/ v \in Technicians /\ (T[t].technician = v \/ Queued(T[t]))
      \/ v \in Users /\ T[t].owner = v)}

Personal(T, v) ==
  {t \in DOMAIN T : T[t].archived = 0 /\
     (v \in Technicians => T[t].technician = v) /\ (v \in Users => T[t].owner = v)}

\* can_view_ticket, of one row.
CanView(v, row) ==
  /\ row.archived = 0
  /\ \/ v \in Admins
     \/ v \in Technicians /\ (row.technician = v \/ Queued(row))
     \/ v \in Users /\ row.owner = v

Archive(T, v) == {t \in DOMAIN T : T[t].archived > 0 /\ (v \in Users => T[t].owner = v)}
CanViewArchived(v, row) == row.archived > 0 /\ (v \in Users => row.owner = v)

\* The two lists of the dashboard, beside its counts over the personal scope.
Queue(T) == {t \in DOMAIN T : T[t].archived = 0 /\ Queued(T[t])}
MyActive(T, v) ==
  {t \in DOMAIN T : T[t].archived = 0 /\ T[t].technician = v /\ T[t].status = "in_progress"}

Matching(T, v, q) ==
  CASE q.list = "tickets"  -> {t \in Visible(T, v) : q.status \in {"any", T[t].status}}
    [] q.list = "archive"  -> {t \in Archive(T, v) : q.status \in {"any", T[t].status}}
    [] q.list = "activity" -> {t \in DOMAIN T : T[t].archived = 0 /\ T[t].events # {}}

Rank == [open |-> 1, reopened |-> 2, in_progress |-> 3, resolved |-> 4, closed |-> 5]

Latest(row) == CHOOSE c \in Times : /\ \E e \in row.events : e[2] = c
                                    /\ \A e \in row.events : e[2] <= c

\* A ticket without a deadline comes last in either direction.
Key(T, q, t) ==
  CASE q.list = "archive"  -> T[t].archived
    [] q.list = "activity" -> Latest(T[t])
    [] q.list = "tickets" /\ q.order = "id" -> t
    [] q.list = "tickets" /\ q.order = "status" -> Rank[T[t].status]
    [] q.list = "tickets" /\ q.order = "due_at" ->
         IF q.direction = "asc" /\ T[t].due = 0 THEN MaxClock + 1 ELSE T[t].due

\* Rows with equal keys go by their id.
Before(T, q, s, t) ==
  LET k == Key(T, q, s)  l == Key(T, q, t) IN
  IF q.direction = "asc" THEN k < l \/ (k = l /\ s < t) ELSE k > l \/ (k = l /\ s > t)

Position(T, v, q, t) == Cardinality({s \in Matching(T, v, q) : Before(T, q, s, t)})

\* page_rows: one row more than the page shows whether there are more.
Limit(q) == IF q.list # "tickets" /\ q.limit > PageCap THEN PageCap ELSE q.limit

Rows(v, q, skip) ==
  {t \in Matching(tickets, v, q) : Position(tickets, v, q, t) \in skip .. skip + Limit(q)}

Page(v, q, skip) ==
  {t \in Rows(v, q, skip) : Position(tickets, v, q, t) < skip + Limit(q)}

\* Mutant: the rows are counted after the page was cut.
HasMoreOfPage(v, q, skip) == Cardinality(Page(v, q, skip)) > Limit(q)

HasMore(v, q, skip) == Cardinality(Rows(v, q, skip)) > Limit(q)

-----------------------------------------------------------------------------
(* The readers. *)

Init ==
  /\ tickets = Seed
  /\ created = Cardinality(DOMAIN Seed)
  /\ clock = Started
  /\ removed = {}
  /\ walks = << >>

\* The client goes on by as many rows as it was given.
Read(w) ==
  LET page == Page(w.viewer, w.query, w.skip) IN
  [w EXCEPT !.skip = @ + Cardinality(page),
            !.more = HasMore(w.viewer, w.query, w.skip),
            !.seen = @ \cup page,
            !.repeats = @ + Cardinality(page \cap w.seen)]

\* The administrators' routes are the summaries, everybody's the other lists.
MayRead(v, q) == v \notin removed /\ (q.list = "activity" => v \in Admins)

Walked(r, w) == [s \in DOMAIN walks \cup {r} |-> IF s = r THEN w ELSE walks[s]]

Begin(r, v, q) ==
  /\ r \notin DOMAIN walks
  /\ MayRead(v, q)
  /\ walks' = Walked(r, Read([viewer |-> v, query |-> q, skip |-> 0, more |-> TRUE,
                              seen |-> {}, repeats |-> 0, left |-> 0, came |-> 0,
                              stayed |-> Matching(tickets, v, q)]))
  /\ UNCHANGED <<tickets, created, clock, removed>>

GoOn(r) ==
  /\ r \in DOMAIN walks
  /\ walks[r].more
  /\ walks' = Walked(r, Read(walks[r]))
  /\ UNCHANGED <<tickets, created, clock, removed>>

Stop(r) ==
  /\ r \in DOMAIN walks
  /\ walks' = Restrict(walks, DOMAIN walks \ {r})
  /\ UNCHANGED <<tickets, created, clock, removed>>

-----------------------------------------------------------------------------
(* The operations, each at its commit. *)

\* What a walk under way notices of the table's becoming T.
Followed(w, T) ==
  LET was == Matching(tickets, w.viewer, w.query)
      is == Matching(T, w.viewer, w.query)
      kept == {t \in was \cap is : Key(tickets, w.query, t) = Key(T, w.query, t)}
  IN IF w.more
     THEN [w EXCEPT !.stayed = @ \cap kept,
                    !.left = @ + Cardinality(was \ kept),
                    !.came = @ + Cardinality(is \ kept)]
     ELSE w

Now == clock + 1

Commit(T, readers) ==
  /\ clock < MaxClock
  /\ clock' = Now
  /\ tickets' = T
  /\ walks' = [r \in readers |-> Followed(walks[r], T)]

Write(t, row) ==
  /\ Commit([tickets EXCEPT ![t] = row], DOMAIN walks)
  /\ UNCHANGED <<created, removed>>

\* The row as its operation leaves it, with the operation's event.
Logged(row, u) == [row EXCEPT !.events = @ \cup {<<u, Now>>}]

Live(t) == t \in DOMAIN tickets /\ tickets[t].archived = 0
Stands(t, statuses) == Live(t) /\ tickets[t].status \in statuses

Create(u) ==
  /\ u \in Users \ removed
  /\ created < MaxTickets
  /\ created' = created + 1
  /\ LET row == [owner |-> u, technician |-> Nobody, status |-> "open", due |-> Now,
                 archived |-> 0, events |-> {<<u, Now>>}]
     IN Commit([t \in DOMAIN tickets \cup {created + 1} |->
                  IF t = created + 1 THEN row ELSE tickets[t]], DOMAIN walks)
  /\ UNCHANGED removed

Assign(t, u) ==
  /\ Stands(t, {"open", "reopened"})
  /\ u \in Technicians \cup Admins
  /\ tickets[t].technician \in {Nobody, u}
  /\ Write(t, Logged([tickets[t] EXCEPT !.technician = u, !.status = "in_progress"], u))

Resolve(t, u) ==
  /\ Stands(t, {"in_progress"})
  /\ u \in Admins \/ tickets[t].technician = u
  /\ Write(t, Logged([tickets[t] EXCEPT !.status = "resolved"], u))

Close(t, u) ==
  /\ Stands(t, {"resolved"})
  /\ u \in Admins \/ tickets[t].owner = u
  /\ Write(t, Logged([tickets[t] EXCEPT !.status = "closed"], u))

Reopen(t, u) ==
  /\ Stands(t, {"resolved", "closed"})
  /\ u \in Admins
  /\ Write(t, Logged([tickets[t] EXCEPT !.status = "reopened", !.due = Now], u))

Comment(t, u) ==
  /\ Stands(t, Statuses \ {"closed"})
  /\ u \in Users => tickets[t].owner = u
  /\ u \in Technicians => tickets[t].technician = u
  /\ Write(t, Logged(tickets[t], u))

\* The archiving by an administrator writes no event.
Delete(t, u) ==
  /\ Live(t)
  /\ u \in Admins
  /\ Write(t, [tickets[t] EXCEPT !.archived = Now])

\* A row that never had an ASSIGNED event is one nobody has taken.
Cancel(t, u) ==
  /\ Stands(t, {"open"})
  /\ tickets[t].owner = u /\ tickets[t].technician = Nobody
  /\ Write(t, Logged([tickets[t] EXCEPT !.status = "cancelled", !.archived = Now], u))

\* Mutant: a cancelled ticket comes back as it was.
RestoredAsItWas(row) == [row EXCEPT !.archived = 0]

Restored(row) ==
  IF row.status = "cancelled"
  THEN [row EXCEPT !.archived = 0, !.status = "open", !.due = Now]
  ELSE [row EXCEPT !.archived = 0]

Restore(t, u) ==
  /\ t \in DOMAIN tickets /\ tickets[t].archived > 0
  /\ u \in Admins
  /\ Write(t, Logged(Restored(tickets[t]), u))

\* delete_user_service: an account goes with its own tickets and its events; the
\* tickets it had taken lose their technician and keep their status.
Without(u) ==
  [t \in {s \in DOMAIN tickets : tickets[s].owner # u} |->
     [tickets[t] EXCEPT !.technician = IF @ = u THEN Nobody ELSE @,
                        !.events = {e \in @ : e[1] # u}]]

RemoveAccount(u, admin) ==
  /\ u \in People \ removed
  /\ admin \in Admins \ (removed \cup {u})
  /\ removed' = removed \cup {u}
  /\ Commit(Without(u), {r \in DOMAIN walks : walks[r].viewer # u})
  /\ UNCHANGED created

Operate(t, u) ==
  \/ Assign(t, u) \/ Resolve(t, u) \/ Close(t, u) \/ Reopen(t, u)
  \/ Comment(t, u)
  \/ Delete(t, u) \/ Cancel(t, u) \/ Restore(t, u)

Next ==
  \/ \E r \in Readers :
       \/ \E v \in People, q \in Queries : Begin(r, v, q)
       \/ GoOn(r) \/ Stop(r)
  \/ \E u \in Users : Create(u)
  \/ \E t \in DOMAIN tickets, u \in People \ removed : Operate(t, u)
  \/ \E u, admin \in People : RemoveAccount(u, admin)

Spec == Init /\ [][Next]_vars

-----------------------------------------------------------------------------
(* Properties *)

\* The shape of the table and of the walks; only an archived ticket is cancelled.
TypeOK ==
  /\ created \in 0 .. MaxTickets
  /\ DOMAIN tickets \subseteq 1 .. created
  /\ \A t \in DOMAIN tickets :
       /\ tickets[t] \in Row
       /\ tickets[t].status = "cancelled" => tickets[t].archived > 0
       /\ tickets[t].owner \notin removed /\ tickets[t].technician \notin removed
  /\ clock \in Times
  /\ removed \subseteq People
  /\ DOMAIN walks \subseteq Readers
  /\ \A r \in DOMAIN walks : walks[r] \in Walk

\* Pages drift by what commits between them and by nothing else: a row that
\* matched all along and kept its place is missed at most once for each row that
\* went from its place, and a row is given twice at most once for each one that
\* came to a place; with no commit in between, a walk gives each row once.
WalkDrift ==
  \A r \in DOMAIN walks :
    LET w == walks[r] IN
    /\ w.repeats <= w.came
    /\ ~w.more => Cardinality(w.stayed \ w.seen) <= w.left

\* The lists, the single tickets and the dashboard agree on what somebody has,
\* though each writes its condition anew: what is listed can be opened and the
\* other way round, a technician's list is the personal scope with the queue,
\* each ticket once, and the tickets in hand are of the personal scope.
ListsAgree ==
  \A v \in People \ removed :
    /\ Visible(tickets, v) = {t \in DOMAIN tickets : CanView(v, tickets[t])}
    /\ Archive(tickets, v) = {t \in DOMAIN tickets : CanViewArchived(v, tickets[t])}
    /\ v \in Technicians =>
         /\ Visible(tickets, v) = Personal(tickets, v) \cup Queue(tickets)
         /\ Personal(tickets, v) \cap Queue(tickets) = {}
         /\ MyActive(tickets, v) \subseteq Personal(tickets, v)
    /\ v \notin Technicians => Visible(tickets, v) = Personal(tickets, v)
=============================================================================
