---------------------------- MODULE MCTicketPages ----------------------------
(* One reader of four tickets, of which three are there from the start. *)
EXTENDS TicketPages

Opened(u, due) == [owner |-> u, technician |-> "nobody", status |-> "open", due |-> due,
                   archived |-> 0, events |-> {<<u, due>>}]

\* A ticket without a deadline, one in hand, and one that was cancelled.
MCSeed ==
  << [Opened("ann", 1) EXCEPT !.due = 0],
     [Opened("ann", 1) EXCEPT !.status = "in_progress", !.technician = "tom",
                              !.events = @ \cup {<<"tom", 2>>}],
     [Opened("bob", 2) EXCEPT !.status = "cancelled", !.archived = 3,
                              !.events = @ \cup {<<"bob", 3>>}] >>

Listing(order, direction, status) ==
  [list |-> "tickets", order |-> order, direction |-> direction, status |-> status, limit |-> 1]

MCQueries ==
  {Listing("id", "desc", "open"), Listing("status", "asc", "any"),
   Listing("due_at", "asc", "any"), [Listing("due_at", "desc", "any") EXCEPT !.limit = 2],
   [Listing("id", "desc", "any") EXCEPT !.list = "archive", !.limit = 2],
   [Listing("id", "desc", "any") EXCEPT !.list = "activity"]}
=============================================================================
