---------------------------- MODULE TicketCatalog ----------------------------
(***************************************************************************)
(* The official sectors and categories (services/ticket_catalog.py with    *)
(* api/v1/ticket_catalog.py) and what names them: tickets, profiles and    *)
(* maintenance notices.  A name stands for its classification key.  A      *)
(* ticket's creation and every change of an option lock the option's row;  *)
(* the notices read the catalogue without a lock, and a renaming reads and *)
(* rewrites the notices without locking them first.                        *)
(***************************************************************************)
EXTENDS Naturals, FiniteSets

CONSTANTS Requests,
          Names,
          NoName,        \* a profile without a department
          Users,
          Tickets, Notices,
          Seed,          \* the catalogue of the migration, by id
          MaxOptions     \* bound: ids of options

Kinds == {"category", "sector"}
Ids == 1 .. MaxOptions
Option == [kind: Kinds, name: Names, active: BOOLEAN]

ASSUME CatalogAssumption ==
  /\ MaxOptions \in Nat
  /\ NoName \notin Names
  /\ \E n \in 0 .. MaxOptions : Seed \in [1 .. n -> Option]
  /\ \A o, p \in DOMAIN Seed : o # p => <<Seed[o].kind, Seed[o].name>> # <<Seed[p].kind, Seed[p].name>>

\* A ticket's creation: the names asked for and the options locked for them.
Filing == [op: {"file", "store"}, ticket: Tickets, names: [Kinds -> Names],
           ids: [Kinds -> Ids], locked: SUBSET Ids]
\* A change of one option; a renaming carries the notices as it will write them.
Change == [op: {"rename", "rewrite", "delete", "enable", "disable"}, locked: SUBSET Ids,
           name: Names, notices: [Notices -> SUBSET Names], rewrites: SUBSET Notices]
\* A notice's creation or edit: the sectors' names and the options they meant.
Posting == [op: {"post", "edit"}, notice: Notices, names: SUBSET Names,
            meant: SUBSET Ids, locked: SUBSET Ids]

VARIABLES options,     \* ticket_catalog_options
          created,     \* the last id given
          tickets,     \* the classification of each ticket created
          departments,
          notices,     \* the target sectors of each notice created
          inflight,
          filed,       \* history: the options a ticket was created under
          meant,       \* history: the options a notice's last write meant
          raced        \* history: notices whose write overlapped a change of one of its
                       \* sectors, or another renaming's

history == <<filed, meant, raced>>
vars == <<options, created, tickets, departments, notices, inflight, history>>

Serving(r, op) == r \in DOMAIN inflight /\ inflight[r].op = op

Enter(r, request) ==
  /\ r \notin DOMAIN inflight
  /\ inflight' = [s \in DOMAIN inflight \cup {r} |->
                    IF s = r THEN request ELSE inflight[s]]

Goto(r, request) == inflight' = [inflight EXCEPT ![r] = request]
Finish(r) == inflight' = [s \in DOMAIN inflight \ {r} |-> inflight[s]]

\* Mutant: only the active options are looked up.
NamedActive(kind, name) ==
  {o \in DOMAIN options : options[o].kind = kind /\ options[o].name = name /\ options[o].active}

Named(kind, name) == {o \in DOMAIN options : options[o].kind = kind /\ options[o].name = name}
NameOf(o) == options[o].name

\* No transaction has the option's row locked.
Free(o) == \A s \in DOMAIN inflight : o \notin inflight[s].locked

\* No edit has the notice's row locked.
NoticeFree(r, n) == \A s \in DOMAIN inflight \ {r} : Serving(s, "edit") => inflight[s].notice # n

Init ==
  /\ options = Seed
  /\ created = Cardinality(DOMAIN Seed)
  /\ tickets = << >>
  /\ departments = [u \in Users |-> NoName]
  /\ notices = << >>
  /\ inflight = << >>
  /\ filed = << >>
  /\ meant = << >>
  /\ raced = {}

-----------------------------------------------------------------------------
(* create_ticket_service: require_catalog_name locks the category, then the *)
(* sector, and both stay locked until the ticket is stored.                 *)

\* Mutant: the option is read without FOR UPDATE.
RequireUnlocked(kind, name) == {o \in Named(kind, name) : options[o].active}

Require(kind, name) == {o \in Named(kind, name) : options[o].active /\ Free(o)}

BeginFile(r, t, names) ==
  /\ t \notin DOMAIN tickets
  /\ \A s \in DOMAIN inflight : inflight[s].op \in {"file", "store"} => inflight[s].ticket # t
  /\ \E o \in Require("category", names["category"]) :
       Enter(r, [op |-> "file", ticket |-> t, names |-> names,
                 ids |-> [k \in Kinds |-> o], locked |-> {o}])
  /\ UNCHANGED <<options, created, tickets, departments, notices, history>>

LockSector(r) ==
  /\ Serving(r, "file")
  /\ \E o \in Require("sector", inflight[r].names["sector"]) :
       Goto(r, [inflight[r] EXCEPT !.op = "store", !.ids["sector"] = o, !.locked = @ \cup {o}])
  /\ UNCHANGED <<options, created, tickets, departments, notices, history>>

With(f, x, y) == [z \in DOMAIN f \cup {x} |-> IF z = x THEN y ELSE f[z]]

\* The ticket is stored with the names as they were read under the locks.
CommitFile(r) ==
  /\ Serving(r, "store")
  /\ tickets' = With(tickets, inflight[r].ticket, inflight[r].names)
  /\ filed' = With(filed, inflight[r].ticket, inflight[r].ids)
  /\ Finish(r)
  /\ UNCHANGED <<options, created, departments, notices, meant, raced>>

-----------------------------------------------------------------------------
(* The administrators' operations on the catalogue. *)

\* create_catalog_option: the name is looked up and the unique key enforces it.
CreateOption(kind, name) ==
  /\ created < MaxOptions
  /\ Named(kind, name) = {}
  /\ created' = created + 1
  /\ options' = With(options, created + 1, [kind |-> kind, name |-> name, active |-> TRUE])
  /\ UNCHANGED <<tickets, departments, notices, inflight, history>>

BeginChange(r, o, op, name) ==
  /\ o \in DOMAIN options
  /\ Free(o)
  /\ Enter(r, [op |-> op, locked |-> {o}, name |-> name,
               notices |-> [n \in Notices |-> {}], rewrites |-> {}])
  /\ UNCHANGED <<options, created, tickets, departments, notices, history>>

OptionOf(r) == CHOOSE o \in inflight[r].locked : TRUE

BeginActive(r, o, op) == BeginChange(r, o, op, NameOf(o))

CommitActive(r) ==
  /\ Serving(r, "enable") \/ Serving(r, "disable")
  /\ options' = [options EXCEPT ![OptionOf(r)].active = Serving(r, "enable")]
  /\ Finish(r)
  /\ UNCHANGED <<created, tickets, departments, notices, history>>

\* The new name must be free, but for another spelling of the option's own.
BeginRename(r, o, name) ==
  /\ o \in DOMAIN options
  /\ Named(options[o].kind, name) \subseteq {o}
  /\ BeginChange(r, o, "rename", name)

Renamed(names, old, new) == (names \ {old}) \cup {new}

\* A sector's renaming reads every notice and works out the new lists.
ReadNotices(r) ==
  /\ Serving(r, "rename")
  /\ LET o == OptionOf(r)
         hit == IF options[o].kind = "sector"
                THEN {n \in DOMAIN notices : NameOf(o) \in notices[n]} ELSE {}
     IN Goto(r, [inflight[r] EXCEPT !.op = "rewrite", !.rewrites = hit,
                   !.notices = [n \in Notices |->
                     IF n \in hit THEN Renamed(notices[n], NameOf(o), inflight[r].name) ELSE {}]])
  /\ UNCHANGED <<options, created, tickets, departments, notices, history>>

\* Notices being written by a request that takes the option's present name.
Overlapping(o) ==
  {n \in Notices : \E s \in DOMAIN inflight :
     /\ inflight[s].op \in {"post", "edit"}
     /\ inflight[s].notice = n
     /\ o \in inflight[s].meant}

\* Notices that another renaming has read and is going to write, too.
Crossed(r) ==
  {n \in inflight[r].rewrites : \E s \in DOMAIN inflight \ {r} :
     Serving(s, "rewrite") /\ n \in inflight[s].rewrites}

RenamedTickets(o, name) ==
  [t \in DOMAIN tickets |->
     [tickets[t] EXCEPT ![options[o].kind] = IF @ = NameOf(o) THEN name ELSE @]]

CommitRename(r) ==
  /\ Serving(r, "rewrite")
  /\ LET o == OptionOf(r)
         name == inflight[r].name
         kind == options[o].kind
     IN
     /\ Named(kind, name) \subseteq {o}
     /\ \A n \in inflight[r].rewrites : NoticeFree(r, n)
     /\ options' = [options EXCEPT ![o].name = name]
     /\ tickets' = RenamedTickets(o, name)
     /\ notices' = [n \in DOMAIN notices |->
                      IF n \in inflight[r].rewrites THEN inflight[r].notices[n] ELSE notices[n]]
     /\ departments' = [u \in Users |->
          IF kind = "sector" /\ departments[u] = NameOf(o) THEN name ELSE departments[u]]
     /\ raced' = raced \cup Overlapping(o) \cup Crossed(r)
  /\ Finish(r)
  /\ UNCHANGED <<created, filed, meant>>

UnusedByTickets(o) == \A t \in DOMAIN tickets : tickets[t][options[o].kind] # NameOf(o)

\* Mutant: a sector is removed although notices target it.
UnusedByOthersUnchecked(o) == TRUE

UnusedByOthers(o) ==
  options[o].kind = "sector" =>
    /\ \A u \in Users : departments[u] # NameOf(o)
    /\ \A n \in DOMAIN notices : NameOf(o) \notin notices[n]

\* delete_catalog_option refuses what is in use.
BeginDelete(r, o) ==
  /\ o \in DOMAIN options
  /\ UnusedByTickets(o)
  /\ UnusedByOthers(o)
  /\ BeginChange(r, o, "delete", NameOf(o))

CommitDelete(r) ==
  /\ Serving(r, "delete")
  /\ options' = [o \in DOMAIN options \ inflight[r].locked |-> options[o]]
  /\ raced' = raced \cup Overlapping(OptionOf(r))
  /\ Finish(r)
  /\ UNCHANGED <<created, tickets, departments, notices, filed, meant>>

-----------------------------------------------------------------------------
(* Notices and profiles. *)

\* _notice_sectors reads the catalogue without a lock: a new target is active,
\* a former one may stay.
Official == {NameOf(o) : o \in {p \in DOMAIN options : options[p].kind = "sector" /\ options[p].active}}
Meaning(names) == {o \in DOMAIN options : options[o].kind = "sector" /\ NameOf(o) \in names}

Posted(op, n, names) ==
  [op |-> op, notice |-> n, names |-> names, meant |-> Meaning(names), locked |-> {}]

BeginPost(r, n, names) ==
  /\ n \notin DOMAIN notices
  /\ \A s \in DOMAIN inflight : Serving(s, "post") => inflight[s].notice # n
  /\ names \subseteq Official
  /\ Enter(r, Posted("post", n, names))
  /\ UNCHANGED <<options, created, tickets, departments, notices, history>>

BeginEdit(r, n, names) ==
  /\ n \in DOMAIN notices
  /\ NoticeFree(r, n)
  /\ names \subseteq Official \cup notices[n]
  /\ Enter(r, Posted("edit", n, names))
  /\ UNCHANGED <<options, created, tickets, departments, notices, history>>

\* A removal that has checked, or a renaming that has read the notices, is
\* under way for one of the sectors this write takes or for this notice.
Overlapped(r) ==
  \E s \in DOMAIN inflight :
    \/ Serving(s, "delete") /\ inflight[s].locked \cap inflight[r].meant # {}
    \/ Serving(s, "rewrite") /\ inflight[s].locked \cap inflight[r].meant # {}
    \/ Serving(s, "rewrite") /\ inflight[r].notice \in inflight[s].rewrites

CommitNotice(r) ==
  /\ Serving(r, "post") \/ Serving(r, "edit")
  /\ LET n == inflight[r].notice IN
       /\ notices' = With(notices, n, inflight[r].names)
       /\ meant' = With(meant, n, inflight[r].meant)
       /\ raced' = IF Overlapped(r) THEN raced \cup {n} ELSE raced
  /\ Finish(r)
  /\ UNCHANGED <<options, created, tickets, departments, filed>>

\* The department of a profile is free text.
SetDepartment(u, name) ==
  /\ departments' = [departments EXCEPT ![u] = name]
  /\ UNCHANGED <<options, created, tickets, notices, inflight, history>>

\* A request is refused or fails before its commit; a deadlock ends so, too.
Abort(r) ==
  /\ r \in DOMAIN inflight
  /\ Finish(r)
  /\ UNCHANGED <<options, created, tickets, departments, notices, history>>

Next ==
  \/ \E k \in Kinds, name \in Names : CreateOption(k, name)
  \/ \E u \in Users, name \in Names \cup {NoName} : SetDepartment(u, name)
  \/ \E r \in Requests \ DOMAIN inflight :
       \/ \E t \in Tickets, names \in [Kinds -> Names] : BeginFile(r, t, names)
       \/ \E o \in DOMAIN options :
            \/ \E op \in {"enable", "disable"} : BeginActive(r, o, op)
            \/ \E name \in Names : BeginRename(r, o, name)
            \/ BeginDelete(r, o)
       \/ \E n \in Notices, names \in SUBSET Names :
            BeginPost(r, n, names) \/ BeginEdit(r, n, names)
  \/ \E r \in DOMAIN inflight :
       \/ LockSector(r) \/ CommitFile(r)
       \/ CommitActive(r)
       \/ ReadNotices(r) \/ CommitRename(r) \/ CommitDelete(r)
       \/ CommitNotice(r)
       \/ Abort(r)

Spec == Init /\ [][Next]_vars

-----------------------------------------------------------------------------
(* Properties *)

\* The shape of the tables; two options of a kind never share a name.
TypeOK ==
  /\ created \in 0 .. MaxOptions
  /\ DOMAIN options \subseteq 1 .. created
  /\ \A o \in DOMAIN options : options[o] \in Option
  /\ \A o, p \in DOMAIN options :
       options[o].kind = options[p].kind /\ options[o].name = options[p].name => o = p
  /\ DOMAIN tickets \subseteq Tickets
  /\ \A t \in DOMAIN tickets : tickets[t] \in [Kinds -> Names]
  /\ departments \in [Users -> Names \cup {NoName}]
  /\ DOMAIN notices \subseteq Notices
  /\ \A n \in DOMAIN notices : notices[n] \subseteq Names
  /\ DOMAIN inflight \subseteq Requests
  /\ \A r \in DOMAIN inflight : inflight[r] \in Filing \cup Change \cup Posting
  /\ DOMAIN filed = DOMAIN tickets
  /\ \A t \in DOMAIN filed : filed[t] \in [Kinds -> Ids]
  /\ DOMAIN meant = DOMAIN notices
  /\ \A n \in DOMAIN meant : meant[n] \subseteq Ids
  /\ raced \subseteq Notices

\* A ticket follows the options it was created under through renamings, and
\* they are not removed while it is there: the row locks make the creation and
\* the change of one option take turns.
TicketsFollowOptions ==
  \A t \in DOMAIN tickets : \A k \in Kinds :
    LET o == filed[t][k] IN
    o \in DOMAIN options /\ options[o].kind = k /\ options[o].name = tickets[t][k]

\* A notice targets the sectors its last write meant, under their present names
\* and nothing else, unless that write overlapped a renaming or a removal of one
\* of them, or two renamings rewrote it at once.
NoticesFollowOptions ==
  \A n \in DOMAIN notices \ raced :
    /\ meant[n] \subseteq DOMAIN options
    /\ notices[n] = {NameOf(o) : o \in meant[n]}
=============================================================================
