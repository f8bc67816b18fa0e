------------------------- MODULE MaintenanceNotices -------------------------
(***************************************************************************)
(* Maintenance notices and their read receipts (services/                  *)
(* maintenance_notices.py with api/v1/maintenance_notices.py).  A request  *)
(* that changes a notice or confirms it first locks the notice's row and   *)
(* reads it; its commit is a step of its own.  The list a reader sees is   *)
(* one query, without a lock.                                              *)
(***************************************************************************)
EXTENDS Naturals, FiniteSets

CONSTANTS Requests,
          Admins, Technicians, Requesters,   \* the readers, by role
          Sectors,
          NoSector,       \* a profile without a department
          Contents,       \* records of text, audience and sectors
          MaxNotices,     \* bound: notices created
          MaxRevision,    \* bound: revisions of a notice
          MaxTime         \* bound: the clock

Users == Admins \cup Technicians \cup Requesters
Audiences == {"all", "users", "technicians"}

ASSUME NoticesAssumption ==
  /\ Admins \cap (Technicians \cup Requesters) = {}
  /\ Technicians \cap Requesters = {}
  /\ \A c \in Contents : c.audience \in Audiences /\ c.sectors \subseteq Sectors
  /\ NoSector \notin Sectors
  /\ MaxNotices \in Nat
  /\ MaxRevision \in Nat \ {0}
  /\ MaxTime \in Nat

Ids == 1 .. MaxNotices
Instants == 0 .. MaxTime + 1
Never == MaxTime + 2          \* ends_at is null

Row == [content: Contents, starts: Instants, ends: Instants \cup {Never},
        active: BOOLEAN, revision: 1 .. MaxRevision]

\* Edits carry the new row, the others the row they have locked and read.
Request == [op: {"edit", "active", "delete"}, notice: Ids, row: Row]
Confirmation == [op: {"read"}, notice: Ids, user: Users, revision: 1 .. MaxRevision]

\* What a page showed: the version and what was in it.
Version == [notice: Ids, revision: 1 .. MaxRevision, content: Contents,
            ends: Instants \cup {Never}]

VARIABLES notices,      \* maintenance_notices
          created,      \* notices created so far; ids are not used again
          receipts,     \* maintenance_notice_reads: the revision, 0 for none
          department,
          now,
          inflight,
          shown         \* history: the versions each reader's page has shown

vars == <<notices, created, receipts, department, now, inflight, shown>>

Serving(r, op) == r \in DOMAIN inflight /\ inflight[r].op = op

Enter(r, request) ==
  /\ r \notin DOMAIN inflight
  /\ inflight' = [s \in DOMAIN inflight \cup {r} |->
                    IF s = r THEN request ELSE inflight[s]]

Finish(r) == inflight' = [s \in DOMAIN inflight \ {r} |-> inflight[s]]

\* Mutant: get_notice reads the row without FOR UPDATE.
UnlockedRow(n) == n \in DOMAIN notices

\* get_notice: waits while another request has the row locked.
Lockable(n) ==
  /\ n \in DOMAIN notices
  /\ \A s \in DOMAIN inflight : inflight[s].notice # n

Init ==
  /\ notices = << >>
  /\ created = 0
  /\ receipts = [u \in Users |-> [n \in Ids |-> 0]]
  /\ department \in [Users -> Sectors \cup {NoSector}]
  /\ now = 0
  /\ inflight = << >>
  /\ shown = [u \in Users |-> {}]

-----------------------------------------------------------------------------
(* Who reads what. *)

InUserSector(row, u) ==
  \/ u \in Admins \cup Technicians
  \/ department[u] = NoSector
  \/ row.content.sectors = {}
  \/ department[u] \in row.content.sectors

InAudience(row, u) ==
  \/ u \in Admins
  \/ row.content.audience = "all"
  \/ row.content.audience = "users" /\ u \in Requesters
  \/ row.content.audience = "technicians" /\ u \in Technicians

\* The audiences the list's query asks for.
AudiencesOf(u) ==
  IF u \in Admins THEN Audiences
  ELSE IF u \in Requesters THEN {"all", "users"} ELSE {"all", "technicians"}

\* Mutant: a notice is listed at the instant it ends.
RunningInclusive(row) == row.active /\ row.starts <= now /\ row.ends >= now

\* The query of the list.
Running(row) == row.active /\ row.starts <= now /\ row.ends > now

Listed(u, n) ==
  /\ Running(notices[n])
  /\ notices[n].content.audience \in AudiencesOf(u)
  /\ receipts[u][n] # notices[n].revision
  /\ InUserSector(notices[n], u)
  /\ InAudience(notices[n], u)

\* The conditions under which mark_notice_read does not answer 404.
Readable(u, row) ==
  ~ \/ ~row.active
    \/ row.starts > now
    \/ row.ends <= now
    \/ ~InUserSector(row, u)
    \/ ~InAudience(row, u)

VersionOf(n) == [notice |-> n, revision |-> notices[n].revision,
                 content |-> notices[n].content, ends |-> notices[n].ends]

List(u) ==
  /\ shown' = [shown EXCEPT ![u] = @ \cup {VersionOf(n) : n \in {m \in DOMAIN notices : Listed(u, m)}}]
  /\ UNCHANGED <<notices, created, receipts, department, now, inflight>>

\* The page confirms a version it has shown; an older one is answered 409.
BeginRead(r, u) ==
  \E v \in shown[u] :
    /\ Lockable(v.notice)
    /\ Readable(u, notices[v.notice])
    /\ notices[v.notice].revision = v.revision
    /\ Enter(r, [op |-> "read", notice |-> v.notice, user |-> u, revision |-> v.revision])
    /\ UNCHANGED <<notices, created, receipts, department, now, shown>>

CommitRead(r) ==
  /\ Serving(r, "read")
  /\ LET u == inflight[r].user
         n == inflight[r].notice
     IN receipts' = [receipts EXCEPT ![u][n] =
                       IF @ < inflight[r].revision THEN inflight[r].revision ELSE @]
  /\ Finish(r)
  /\ UNCHANGED <<notices, created, department, now, shown>>

-----------------------------------------------------------------------------
(* The administrators' operations. *)

\* create_notice, in one statement; the schema asks for an end after the start.
Create(c, starts, ends) ==
  /\ created < MaxNotices
  /\ ends > starts
  /\ created' = created + 1
  /\ notices' = [n \in DOMAIN notices \cup {created + 1} |->
       IF n = created + 1
       THEN [content |-> c, starts |-> starts, ends |-> ends, active |-> TRUE, revision |-> 1]
       ELSE notices[n]]
  /\ UNCHANGED <<receipts, department, now, inflight, shown>>

Changed(row, c, ends) == row.content # c \/ row.ends # ends

Edited(row, c, ends) ==
  [row EXCEPT !.content = c, !.ends = ends,
              !.revision = IF Changed(row, c, ends) THEN @ + 1 ELSE @]

BeginEdit(r, n, c, ends) ==
  /\ Lockable(n)
  /\ ends > notices[n].starts
  /\ notices[n].revision < MaxRevision
  /\ Enter(r, [op |-> "edit", notice |-> n, row |-> Edited(notices[n], c, ends)])
  /\ UNCHANGED <<notices, created, receipts, department, now, shown>>

\* An ended notice is not activated.
BeginActive(r, n, active) ==
  /\ Lockable(n)
  /\ active => notices[n].ends > now
  /\ Enter(r, [op |-> "active", notice |-> n, row |-> [notices[n] EXCEPT !.active = active]])
  /\ UNCHANGED <<notices, created, receipts, department, now, shown>>

BeginDelete(r, n) ==
  /\ Lockable(n)
  /\ Enter(r, [op |-> "delete", notice |-> n, row |-> notices[n]])
  /\ UNCHANGED <<notices, created, receipts, department, now, shown>>

\* Only the columns an operation changes are written.
Written(r) ==
  LET row == inflight[r].row IN
  IF inflight[r].op = "active"
  THEN [notices[inflight[r].notice] EXCEPT !.active = row.active]
  ELSE [notices[inflight[r].notice] EXCEPT !.content = row.content, !.ends = row.ends,
                                           !.revision = row.revision]

CommitWrite(r) ==
  /\ Serving(r, "edit") \/ Serving(r, "active")
  /\ notices' = [n \in DOMAIN notices |->
                   IF n = inflight[r].notice THEN Written(r) ELSE notices[n]]
  /\ Finish(r)
  /\ UNCHANGED <<created, receipts, department, now, shown>>

\* Mutant: the receipts of a deleted notice stay.
ReceiptsKept(n) == receipts

WithoutReceipts(n) == [u \in Users |-> [receipts[u] EXCEPT ![n] = 0]]

CommitDelete(r) ==
  /\ Serving(r, "delete")
  /\ notices' = [n \in DOMAIN notices \ {inflight[r].notice} |-> notices[n]]
  /\ receipts' = WithoutReceipts(inflight[r].notice)
  /\ Finish(r)
  /\ UNCHANGED <<created, department, now, shown>>

\* A request fails before its commit.
Abort(r) ==
  /\ r \in DOMAIN inflight
  /\ Finish(r)
  /\ UNCHANGED <<notices, created, receipts, department, now, shown>>

\* A profile names another department.
Move(u, s) ==
  /\ department' = [department EXCEPT ![u] = s]
  /\ UNCHANGED <<notices, created, receipts, now, inflight, shown>>

Tick ==
  /\ now < MaxTime
  /\ now' = now + 1
  /\ UNCHANGED <<notices, created, receipts, department, inflight, shown>>

Next ==
  \/ \E u \in Users : List(u) \/ \E r \in Requests : BeginRead(r, u)
  \/ \E c \in Contents, starts \in Instants, ends \in Instants \cup {Never} : Create(c, starts, ends)
  \/ \E r \in Requests :
       \/ \E n \in Ids, c \in Contents, ends \in Instants \cup {Never} : BeginEdit(r, n, c, ends)
       \/ \E n \in Ids, active \in BOOLEAN : BeginActive(r, n, active)
       \/ \E n \in Ids : BeginDelete(r, n)
       \/ CommitRead(r) \/ CommitWrite(r) \/ CommitDelete(r) \/ Abort(r)
  \/ \E u \in Users, s \in Sectors \cup {NoSector} : Move(u, s)
  \/ Tick

Spec == Init /\ [][Next]_vars

-----------------------------------------------------------------------------
(* Properties *)

\* The shape of the tables; receipts belong to notices that are there and never
\* run ahead of them.
TypeOK ==
  /\ DOMAIN notices \subseteq 1 .. created
  /\ \A n \in DOMAIN notices : notices[n] \in Row
  /\ created \in 0 .. MaxNotices
  /\ receipts \in [Users -> [Ids -> 0 .. MaxRevision]]
  /\ \A u \in Users, n \in Ids :
       receipts[u][n] > 0 => n \in DOMAIN notices /\ receipts[u][n] <= notices[n].revision
  /\ department \in [Users -> Sectors \cup {NoSector}]
  /\ now \in 0 .. MaxTime
  /\ DOMAIN inflight \subseteq Requests
  /\ \A r \in DOMAIN inflight : inflight[r] \in Request \cup Confirmation
  /\ shown \in [Users -> SUBSET Version]

\* A notice counts as read by those only whose page has shown its present
\* content and deadline: no edit slips under a confirmation or under another
\* edit.
ReadMeansShown ==
  \A n \in DOMAIN notices : \A u \in Users :
    receipts[u][n] = notices[n].revision => VersionOf(n) \in shown[u]

\* Whatever the list offers can be confirmed: the conditions of the query and
\* those of mark_notice_read, written twice in the code, agree.
ListedIsConfirmable ==
  \A n \in DOMAIN notices : \A u \in Users : Listed(u, n) => Readable(u, notices[n])
=============================================================================
