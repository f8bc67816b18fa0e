------------------------- MODULE TicketCatalog_proofs -------------------------
(***************************************************************************)
(* Proofs about TicketCatalog for any names, tickets, notices and requests.*)
(* The row lock of an option belongs to one request, so a ticket's options *)
(* stand from the moment they are locked until it is stored, and an option *)
(* found unused stays unused until it is removed.  Notices have no such    *)
(* lock; theirs is an invariant of those whose writes did not overlap.     *)
(***************************************************************************)
EXTENDS TicketCatalog, FiniteSetTheorems, TLAPS

Changes == {"rename", "rewrite", "delete", "enable", "disable"}

\* An option's row is locked by one request.
LocksApart ==
  \A r, s \in DOMAIN inflight : r # s => inflight[r].locked \cap inflight[s].locked = {}

\* The option q has locked for a kind carries the name that was asked for.
Secured(q, k) ==
  /\ q.ids[k] \in q.locked
  /\ options[q.ids[k]].kind = k
  /\ options[q.ids[k]].name = q.names[k]

\* What a request relies on when it commits.
Relies(q) ==
  /\ q.locked \subseteq DOMAIN options
  /\ q.op \in {"file", "store"} => Secured(q, "category")
  /\ q.op = "store" => Secured(q, "sector")
  /\ q.op \in Changes => \E o \in DOMAIN options : q.locked = {o}
  /\ q.op = "delete" => \A o \in q.locked : UnusedByTickets(o)

RequestsRely == \A r \in DOMAIN inflight : Relies(inflight[r])

\* The inductive invariant.
CatalogInv == TypeOK /\ LocksApart /\ RequestsRely /\ TicketsFollowOptions

-----------------------------------------------------------------------------
(* What a request carries, by its operation. *)

LEMMA RequestFields ==
  ASSUME NEW q \in Filing \cup Change \cup Posting
  PROVE  /\ q.locked \in SUBSET Ids
         /\ q.op \in {"file", "store"} =>
              /\ q \in Filing /\ q.ticket \in Tickets
              /\ q.names \in [Kinds -> Names] /\ q.ids \in [Kinds -> Ids]
         /\ q.op \in Changes =>
              /\ q \in Change /\ q.name \in Names /\ q.rewrites \in SUBSET Notices
              /\ q.notices \in [Notices -> SUBSET Names]
         /\ q.op \in {"post", "edit"} =>
              /\ q \in Posting /\ q.notice \in Notices /\ q.names \in SUBSET Names
              /\ q.meant \in SUBSET Ids
BY DEF Filing, Change, Posting, Changes

LEMMA KindsAre == "category" \in Kinds /\ "sector" \in Kinds /\ Kinds = {"category", "sector"}
BY DEF Kinds

LEMMA OptionIds ==
  ASSUME TypeOK
  PROVE  /\ DOMAIN options \subseteq Ids /\ created \in Nat
         /\ \A o \in DOMAIN options : options[o] \in Option
BY CatalogAssumption DEF TypeOK, Ids

-----------------------------------------------------------------------------
\* The migration's options are numbered without gaps.
LEMMA InitInv == Init => CatalogInv
<1> SUFFICES ASSUME Init PROVE CatalogInv
  OBVIOUS
<1>1. PICK n \in 0 .. MaxOptions : Seed \in [1 .. n -> Option]
  BY CatalogAssumption
<1>2. Cardinality(1 .. n) = n
  BY <1>1, FS_Interval, CatalogAssumption
<1>3. created = n /\ DOMAIN options = 1 .. n /\ \A o \in DOMAIN options : options[o] \in Option
  BY <1>1, <1>2 DEF Init
<1>4. \A o, p \in DOMAIN options :
        options[o].kind = options[p].kind /\ options[o].name = options[p].name => o = p
  BY CatalogAssumption DEF Init
<1>5. TypeOK
  BY <1>1, <1>3, <1>4 DEF Init, TypeOK
<1>6. LocksApart /\ RequestsRely /\ TicketsFollowOptions
  BY DEF Init, LocksApart, RequestsRely, TicketsFollowOptions
<1>7. QED
  BY <1>5, <1>6 DEF CatalogInv

\* A request enters, or one under way goes on, and the tables stay.
LEMMA RequestStep ==
  ASSUME CatalogInv, NEW r \in Requests, NEW q \in Filing \cup Change \cup Posting,
         inflight' = [s \in DOMAIN inflight \cup {r} |-> IF s = r THEN q ELSE inflight[s]],
         Relies(q),
         \A s \in DOMAIN inflight \ {r} : inflight[s].locked \cap q.locked = {},
         UNCHANGED <<options, created, tickets, departments, notices, history>>
  PROVE  CatalogInv'
<1>1. TypeOK'
  BY DEF CatalogInv, TypeOK, history
<1>2. LocksApart'
  BY DEF CatalogInv, LocksApart
<1>3. RequestsRely'
  <2>1. ASSUME NEW x, Relies(x) PROVE Relies(x)'
    BY <2>1 DEF Relies, Secured, UnusedByTickets, NameOf
  <2>2. QED
    BY <2>1 DEF CatalogInv, RequestsRely
<1>4. TicketsFollowOptions'
  BY DEF CatalogInv, TicketsFollowOptions, history
<1>5. QED
  BY <1>1, <1>2, <1>3, <1>4 DEF CatalogInv

\* What a request relies on stands while the options it has locked do.
LEMMA ReliesKept ==
  ASSUME NEW x, Relies(x), x.locked \subseteq DOMAIN options',
         \A o \in x.locked : options'[o].kind = options[o].kind /\ options'[o].name = options[o].name,
         x.op = "delete" => \A o \in x.locked : UnusedByTickets(o)'
  PROVE  Relies(x)'
BY DEF Relies, Secured

\* A request that has committed, or been refused, leaves the others as they are.
LEMMA FinishKeeps ==
  ASSUME CatalogInv, NEW r, r \in DOMAIN inflight, Finish(r)
  PROVE  /\ DOMAIN inflight' = DOMAIN inflight \ {r}
         /\ \A s \in DOMAIN inflight' : inflight'[s] = inflight[s]
         /\ LocksApart'
         /\ DOMAIN inflight' \subseteq Requests
         /\ \A s \in DOMAIN inflight' : inflight'[s] \in Filing \cup Change \cup Posting
         /\ \A s \in DOMAIN inflight' : inflight[r].locked \cap inflight[s].locked = {}
BY DEF CatalogInv, LocksApart, TypeOK, Finish

\* The other requests' reliance, when one finishes.
LEMMA OthersRely ==
  ASSUME CatalogInv, NEW r, r \in DOMAIN inflight, Finish(r),
         \A s \in DOMAIN inflight' : inflight[s].locked \subseteq DOMAIN options',
         \A s \in DOMAIN inflight' : \A o \in inflight[s].locked :
           options'[o].kind = options[o].kind /\ options'[o].name = options[o].name,
         \A s \in DOMAIN inflight' : inflight[s].op = "delete" =>
           \A o \in inflight[s].locked : UnusedByTickets(o)'
  PROVE  RequestsRely'
<1> SUFFICES ASSUME NEW s \in DOMAIN inflight' PROVE Relies(inflight[s])'
  BY DEF RequestsRely
<1>1. PICK x : x = inflight[s]
  OBVIOUS
<1>2. inflight'[s] = x /\ Relies(x)
  BY <1>1, FinishKeeps DEF CatalogInv, RequestsRely
<1>3. Relies(x)'
  BY <1>1, <1>2, ReliesKept
<1>4. QED
  BY <1>2, <1>3

LEMMA BeginFileStep ==
  ASSUME CatalogInv, NEW r \in Requests, NEW t \in Tickets, NEW names \in [Kinds -> Names],
         BeginFile(r, t, names)
  PROVE  CatalogInv'
<1>1. PICK o \in Require("category", names["category"]) :
        Enter(r, [op |-> "file", ticket |-> t, names |-> names,
                  ids |-> [k \in Kinds |-> o], locked |-> {o}])
  BY DEF BeginFile
<1> DEFINE q == [op |-> "file", ticket |-> t, names |-> names,
                 ids |-> [k \in Kinds |-> o], locked |-> {o}]
<1>2. /\ o \in DOMAIN options /\ Free(o)
      /\ options[o].kind = "category" /\ options[o].name = names["category"]
  BY DEF Require, Named
<1>3. o \in Ids
  BY <1>2, OptionIds DEF CatalogInv
<1>4. q \in Filing
  BY <1>3 DEF Filing
<1>5. Relies(q)
  BY <1>2, KindsAre DEF Relies, Secured, Changes
<1>6. \A s \in DOMAIN inflight \ {r} : inflight[s].locked \cap q.locked = {}
  BY <1>2 DEF Free
<1>7. QED
  BY <1>1, <1>4, <1>5, <1>6, RequestStep DEF Enter, BeginFile

LEMMA LockSectorStep ==
  ASSUME CatalogInv, NEW r \in Requests, LockSector(r)
  PROVE  CatalogInv'
<1> DEFINE p == inflight[r]
<1>1. PICK o \in Require("sector", p.names["sector"]) :
        Goto(r, [p EXCEPT !.op = "store", !.ids["sector"] = o, !.locked = @ \cup {o}])
  BY DEF LockSector
<1>2. r \in DOMAIN inflight /\ p.op = "file" /\ p \in Filing /\ Relies(p)
  BY RequestFields DEF LockSector, Serving, CatalogInv, TypeOK, RequestsRely
<1>3. /\ o \in DOMAIN options /\ Free(o)
      /\ options[o].kind = "sector" /\ options[o].name = p.names["sector"]
  BY DEF Require, Named
<1>4. o \in Ids
  BY <1>3, OptionIds DEF CatalogInv
<1> DEFINE q == [p EXCEPT !.op = "store", !.ids["sector"] = o, !.locked = @ \cup {o}]
<1>5. q \in Filing
  BY <1>2, <1>4 DEF Filing
<1>6. /\ q.op = "store" /\ q.names = p.names /\ q.locked = p.locked \cup {o}
      /\ q.ids["sector"] = o /\ q.ids["category"] = p.ids["category"]
  BY <1>2, KindsAre DEF Filing
<1>7. \A s \in DOMAIN inflight \ {r} : inflight[s].locked \cap p.locked = {}
  BY <1>2 DEF CatalogInv, LocksApart
<1>8. UNCHANGED <<options, created, tickets, departments, notices, history>>
  BY DEF LockSector
<1>9. Goto(r, q)
  BY <1>1
<1> HIDE DEF q
<1>10. Relies(q)
  BY <1>2, <1>3, <1>6 DEF Relies, Secured, Changes
<1>11. \A s \in DOMAIN inflight \ {r} : inflight[s].locked \cap q.locked = {}
  BY <1>3, <1>6, <1>7 DEF Free
<1>12. inflight' = [s \in DOMAIN inflight \cup {r} |-> IF s = r THEN q ELSE inflight[s]]
  BY <1>2, <1>9 DEF Goto
<1>13. QED
  BY <1>5, <1>8, <1>10, <1>11, <1>12, RequestStep

LEMMA CommitFileStep ==
  ASSUME CatalogInv, NEW r \in Requests, CommitFile(r)
  PROVE  CatalogInv'
<1>1. PICK p, t : p = inflight[r] /\ t = p.ticket
  OBVIOUS
<1>2. /\ r \in DOMAIN inflight /\ p.op = "store" /\ t \in Tickets
      /\ p.names \in [Kinds -> Names] /\ p.ids \in [Kinds -> Ids]
  BY <1>1, RequestFields DEF CommitFile, Serving, CatalogInv, TypeOK
<1>3. p.locked \subseteq DOMAIN options /\ \A k \in Kinds : Secured(p, k)
  BY <1>1, <1>2, KindsAre DEF CatalogInv, RequestsRely, Relies
<1>4. /\ tickets' = With(tickets, t, p.names) /\ filed' = With(filed, t, p.ids)
      /\ Finish(r)
      /\ UNCHANGED <<options, created, departments, notices, meant, raced>>
  BY <1>1 DEF CommitFile
<1>5. TypeOK'
  BY <1>2, <1>4, FinishKeeps DEF TypeOK, CatalogInv, With
<1>6. TicketsFollowOptions'
  BY <1>3, <1>4 DEF CatalogInv, TicketsFollowOptions, Secured, With, TypeOK
<1>7. ASSUME NEW s \in DOMAIN inflight', inflight[s].op = "delete", NEW o \in inflight[s].locked
      PROVE  UnusedByTickets(o)'
  <2>1. o \in DOMAIN options /\ UnusedByTickets(o)
    BY <1>2, <1>4, <1>7, FinishKeeps DEF CatalogInv, RequestsRely, Relies
  <2>2. o \notin p.locked
    BY <1>1, <1>2, <1>4, FinishKeeps
  <2>3. options[o].kind \in Kinds
    BY <2>1 DEF CatalogInv, TypeOK, Option
  <2>4. p.names[options[o].kind] # NameOf(o)
    BY <1>3, <2>1, <2>2, <2>3 DEF Secured, NameOf, CatalogInv, TypeOK
  <2>5. QED
    BY <1>4, <2>1, <2>4 DEF UnusedByTickets, NameOf, With
<1>8. RequestsRely'
  <2>1. \A s \in DOMAIN inflight' : inflight[s].locked \subseteq DOMAIN options
    BY <1>2, <1>4, FinishKeeps DEF CatalogInv, RequestsRely, Relies
  <2>2. QED
    BY <1>2, <1>4, <1>7, <2>1, OthersRely
<1>9. QED
  BY <1>2, <1>4, <1>5, <1>6, <1>8, FinishKeeps DEF CatalogInv

LEMMA CreateOptionStep ==
  ASSUME CatalogInv, NEW kind \in Kinds, NEW name \in Names, CreateOption(kind, name)
  PROVE  CatalogInv'
<1>1. PICK c : c = created + 1
  OBVIOUS
<1>2. c \notin DOMAIN options /\ c \in Ids /\ created' = c /\ c \in 0 .. MaxOptions
  BY <1>1, CatalogAssumption DEF CreateOption, CatalogInv, TypeOK, Ids
<1>3. /\ DOMAIN options' = DOMAIN options \cup {c}
      /\ options'[c] = [kind |-> kind, name |-> name, active |-> TRUE]
      /\ \A o \in DOMAIN options : options'[o] = options[o]
  BY <1>1, <1>2 DEF CreateOption, With
<1>4. \A o \in DOMAIN options : ~(options[o].kind = kind /\ options[o].name = name)
  BY DEF CreateOption, Named
<1>5. DOMAIN options' \subseteq 1 .. created'
  BY <1>1, <1>2, <1>3, CatalogAssumption DEF CatalogInv, TypeOK
<1>u. UNCHANGED <<tickets, departments, notices, inflight, filed, meant, raced>>
  BY DEF CreateOption, history
<1>6. TypeOK'
  <2>1. \A o \in DOMAIN options' : options'[o] \in Option
    <3>1. options'[c] \in Option
      BY <1>3 DEF Option
    <3>2. QED
      BY <1>3, <3>1 DEF CatalogInv, TypeOK
  <2>2. \A o, q \in DOMAIN options' :
          options'[o].kind = options'[q].kind /\ options'[o].name = options'[q].name => o = q
    BY <1>3, <1>4 DEF CatalogInv, TypeOK
  <2>3. created' \in 0 .. MaxOptions
    BY <1>2
  <2>4. QED
    BY <1>5, <1>u, <2>1, <2>2, <2>3 DEF CatalogInv, TypeOK
<1>7. LocksApart' /\ TicketsFollowOptions'
  <2>1. LocksApart'
    BY <1>u DEF CatalogInv, LocksApart
  <2>2. TicketsFollowOptions'
    BY <1>3, <1>u DEF CatalogInv, TicketsFollowOptions
  <2>3. QED
    BY <2>1, <2>2
<1>8. RequestsRely'
  <2> SUFFICES ASSUME NEW s \in DOMAIN inflight' PROVE Relies(inflight[s])'
    BY DEF RequestsRely
  <2>1. PICK x : x = inflight[s]
    OBVIOUS
  <2>2. inflight'[s] = x /\ Relies(x)
    BY <2>1 DEF CreateOption, CatalogInv, RequestsRely
  <2>3. x.locked \subseteq DOMAIN options
    BY <2>2 DEF Relies
  <2>4. x.op = "delete" => \A o \in x.locked : UnusedByTickets(o)'
    BY <1>3, <1>u, <2>2, <2>3 DEF Relies, UnusedByTickets, NameOf
  <2>5. Relies(x)'
    BY <1>3, <2>2, <2>3, <2>4, ReliesKept
  <2>6. QED
    BY <2>2, <2>5
<1>9. QED
  BY <1>6, <1>7, <1>8 DEF CatalogInv

LEMMA SetDepartmentStep ==
  ASSUME CatalogInv, NEW u \in Users, NEW name \in Names \cup {NoName}, SetDepartment(u, name)
  PROVE  CatalogInv'
<1>1. TypeOK'
  BY DEF CatalogInv, TypeOK, SetDepartment, history
<1>2. LocksApart' /\ TicketsFollowOptions'
  BY DEF CatalogInv, LocksApart, TicketsFollowOptions, SetDepartment, history
<1>3. RequestsRely'
  <2>1. ASSUME NEW x, Relies(x) PROVE Relies(x)'
    BY <2>1 DEF Relies, Secured, UnusedByTickets, NameOf, SetDepartment
  <2>2. QED
    BY <2>1 DEF CatalogInv, RequestsRely, SetDepartment
<1>4. QED
  BY <1>1, <1>2, <1>3 DEF CatalogInv

LEMMA BeginChangeStep ==
  ASSUME CatalogInv, NEW r \in Requests, NEW o, NEW op \in Changes, NEW name \in Names,
         BeginChange(r, o, op, name), op = "delete" => UnusedByTickets(o)
  PROVE  CatalogInv'
<1> DEFINE q == [op |-> op, locked |-> {o}, name |-> name,
                 notices |-> [n \in Notices |-> {}], rewrites |-> {}]
<1>1. o \in DOMAIN options /\ Free(o) /\ o \in Ids
  BY OptionIds DEF BeginChange, CatalogInv
<1>2. q \in Change
  BY <1>1 DEF Change, Changes
<1>3. Relies(q)
  BY <1>1 DEF Relies, Changes
<1>4. \A s \in DOMAIN inflight \ {r} : inflight[s].locked \cap q.locked = {}
  BY <1>1 DEF Free
<1>5. QED
  BY <1>2, <1>3, <1>4, RequestStep DEF BeginChange, Enter

LEMMA CommitActiveStep ==
  ASSUME CatalogInv, NEW r \in Requests, CommitActive(r)
  PROVE  CatalogInv'
<1>1. PICK o, b : o = OptionOf(r) /\ b = Serving(r, "enable")
  OBVIOUS
<1>2. r \in DOMAIN inflight /\ Finish(r) /\ b \in BOOLEAN
  BY <1>1 DEF CommitActive, Serving
<1>3. /\ DOMAIN options' = DOMAIN options
      /\ \A p \in DOMAIN options : /\ options'[p].kind = options[p].kind
                                   /\ options'[p].name = options[p].name
                                   /\ options'[p] \in Option
  BY <1>1, <1>2 DEF CommitActive, CatalogInv, TypeOK, Option
<1>4. UNCHANGED <<created, tickets, departments, notices, filed, meant, raced>>
  BY DEF CommitActive, history
<1>5. TypeOK'
  BY <1>2, <1>3, <1>4, FinishKeeps DEF CatalogInv, TypeOK
<1>6. TicketsFollowOptions'
  BY <1>3, <1>4 DEF CatalogInv, TicketsFollowOptions
<1>7. RequestsRely'
  <2>1. \A s \in DOMAIN inflight' : Relies(inflight[s])
    BY <1>2, FinishKeeps DEF CatalogInv, RequestsRely
  <2>2. \A s \in DOMAIN inflight' : inflight[s].op = "delete" =>
          \A p \in inflight[s].locked : UnusedByTickets(p)'
    BY <1>3, <1>4, <2>1 DEF Relies, UnusedByTickets, NameOf
  <2>3. QED
    BY <1>2, <1>3, <2>1, <2>2, OthersRely DEF Relies
<1>8. QED
  BY <1>2, <1>5, <1>6, <1>7, FinishKeeps DEF CatalogInv

LEMMA ReadNoticesStep ==
  ASSUME CatalogInv, NEW r \in Requests, ReadNotices(r)
  PROVE  CatalogInv'
<1>1. PICK p, o, hit :
        /\ p = inflight[r] /\ o = OptionOf(r)
        /\ hit = IF options[o].kind = "sector"
                 THEN {n \in DOMAIN notices : NameOf(o) \in notices[n]} ELSE {}
  OBVIOUS
<1>2. r \in DOMAIN inflight /\ p.op = "rename" /\ p \in Change /\ Relies(p)
  BY <1>1, RequestFields DEF ReadNotices, Serving, CatalogInv, TypeOK, RequestsRely, Changes
<1>3. p.name \in Names /\ p.locked \in SUBSET Ids
  BY <1>2 DEF Change
<1>4. hit \subseteq DOMAIN notices /\ DOMAIN notices \subseteq Notices
      /\ \A n \in DOMAIN notices : notices[n] \subseteq Names
  BY <1>1 DEF CatalogInv, TypeOK
<1>5. PICK lists : lists = [n \in Notices |->
                     IF n \in hit THEN Renamed(notices[n], NameOf(o), p.name) ELSE {}]
  OBVIOUS
<1>6. lists \in [Notices -> SUBSET Names]
  BY <1>3, <1>4, <1>5 DEF Renamed
<1>7. PICK q : q = [p EXCEPT !.op = "rewrite", !.rewrites = hit, !.notices = lists]
  OBVIOUS
<1>8. q \in Change /\ q.op = "rewrite" /\ q.locked = p.locked
  BY <1>2, <1>4, <1>6, <1>7 DEF Change
<1>9. Goto(r, q)
  BY <1>1, <1>5, <1>7 DEF ReadNotices
<1>10. Relies(q)
  BY <1>2, <1>8 DEF Relies, Changes
<1>11. \A s \in DOMAIN inflight \ {r} : inflight[s].locked \cap q.locked = {}
  BY <1>1, <1>2, <1>8 DEF CatalogInv, LocksApart
<1>12. inflight' = [s \in DOMAIN inflight \cup {r} |-> IF s = r THEN q ELSE inflight[s]]
  BY <1>2, <1>9 DEF Goto, CatalogInv, TypeOK
<1>13. QED
  BY <1>8, <1>10, <1>11, <1>12, RequestStep DEF ReadNotices

LEMMA CommitDeleteStep ==
  ASSUME CatalogInv, NEW r \in Requests, CommitDelete(r)
  PROVE  CatalogInv'
<1>1. PICK p : p = inflight[r]
  OBVIOUS
<1>2. r \in DOMAIN inflight /\ p.op = "delete" /\ Relies(p) /\ Finish(r)
  BY <1>1 DEF CommitDelete, Serving, CatalogInv, RequestsRely
<1>3. PICK o \in DOMAIN options : p.locked = {o} /\ UnusedByTickets(o)
  BY <1>2 DEF Relies, Changes
<1>4. /\ DOMAIN options' = DOMAIN options \ {o}
      /\ \A x \in DOMAIN options' : options'[x] = options[x]
  BY <1>1, <1>3 DEF CommitDelete
<1>5. UNCHANGED <<created, tickets, departments, notices, filed, meant>>
  BY DEF CommitDelete
<1>6. raced' \subseteq Notices
  BY DEF CommitDelete, Overlapping, CatalogInv, TypeOK
<1>7. TypeOK'
  BY <1>2, <1>4, <1>5, <1>6, FinishKeeps DEF CatalogInv, TypeOK
<1>8. TicketsFollowOptions'
  BY <1>3, <1>4, <1>5 DEF CatalogInv, TicketsFollowOptions, UnusedByTickets, NameOf
<1>9. RequestsRely'
  <2>1. \A s \in DOMAIN inflight' : Relies(inflight[s]) /\ o \notin inflight[s].locked
    BY <1>1, <1>2, <1>3, FinishKeeps DEF CatalogInv, RequestsRely
  <2>2. \A s \in DOMAIN inflight' : inflight[s].locked \subseteq DOMAIN options'
    BY <1>4, <2>1 DEF Relies
  <2>3. \A s \in DOMAIN inflight' : inflight[s].op = "delete" =>
          \A x \in inflight[s].locked : UnusedByTickets(x)'
    BY <1>4, <1>5, <2>1, <2>2 DEF Relies, UnusedByTickets, NameOf
  <2>4. QED
    BY <1>2, <1>4, <2>2, <2>3, OthersRely
<1>10. QED
  BY <1>2, <1>7, <1>8, <1>9, FinishKeeps DEF CatalogInv

\* A renaming takes the tickets along: those of other options have other names.
LEMMA CommitRenameStep ==
  ASSUME CatalogInv, NEW r \in Requests, CommitRename(r)
  PROVE  CatalogInv'
<1>1. PICK p, o, name, kind, old :
        /\ p = inflight[r] /\ o = OptionOf(r) /\ name = p.name
        /\ kind = options[o].kind /\ old = NameOf(o)
  OBVIOUS
<1>2. /\ r \in DOMAIN inflight /\ p.op = "rewrite" /\ Relies(p) /\ Finish(r)
      /\ name \in Names /\ p.notices \in [Notices -> SUBSET Names]
  BY <1>1, RequestFields
     DEF CommitRename, Serving, CatalogInv, TypeOK, RequestsRely, Changes
<1>3. p.locked = {o} /\ o \in DOMAIN options
  BY <1>1, <1>2 DEF Relies, Changes, OptionOf
<1>4. kind \in Kinds /\ old \in Names /\ options[o] \in Option
      /\ old = options[o].name
  BY <1>1, <1>3 DEF CatalogInv, TypeOK, Option, NameOf
<1>5. \A x \in DOMAIN options : options[x].kind = kind /\ options[x].name = name => x = o
  BY <1>1 DEF CommitRename, Named
<1>6. /\ DOMAIN options' = DOMAIN options
      /\ options'[o].name = name /\ options'[o].kind = kind /\ options'[o] \in Option
      /\ \A x \in DOMAIN options \ {o} : options'[x] = options[x]
  BY <1>1, <1>2, <1>3, <1>4 DEF CommitRename, Option
<1>7. /\ DOMAIN tickets' = DOMAIN tickets
      /\ \A t \in DOMAIN tickets :
           tickets'[t] = [tickets[t] EXCEPT ![kind] = IF @ = old THEN name ELSE @]
  BY <1>1 DEF CommitRename, RenamedTickets
<1>8. UNCHANGED <<created, filed, meant>>
  BY DEF CommitRename
<1>9. \A t \in DOMAIN tickets :
        /\ tickets'[t] \in [Kinds -> Names]
        /\ tickets'[t][kind] = IF tickets[t][kind] = old THEN name ELSE tickets[t][kind]
        /\ \A k \in Kinds \ {kind} : tickets'[t][k] = tickets[t][k]
  BY <1>2, <1>4, <1>7 DEF CatalogInv, TypeOK
<1>10. TypeOK'
  <2>1. \A x \in DOMAIN options' : options'[x] \in Option
    BY <1>6 DEF CatalogInv, TypeOK
  <2>2. \A x, y \in DOMAIN options' :
          options'[x].kind = options'[y].kind /\ options'[x].name = options'[y].name => x = y
    BY <1>5, <1>6 DEF CatalogInv, TypeOK
  <2>3. departments' \in [Users -> Names \cup {NoName}]
    <3>1. \A u \in Users : departments'[u] \in {name, departments[u]}
      BY <1>1 DEF CommitRename
    <3>2. departments' = [u \in Users |-> departments'[u]]
      BY DEF CommitRename
    <3>3. QED
      BY <1>2, <3>1, <3>2 DEF CatalogInv, TypeOK
  <2>4. DOMAIN notices' = DOMAIN notices /\ \A n \in DOMAIN notices : notices'[n] \subseteq Names
    <3>1. DOMAIN notices' = DOMAIN notices
      BY DEF CommitRename
    <3>2. \A n \in DOMAIN notices : notices'[n] \in {p.notices[n], notices[n]}
      BY <1>1 DEF CommitRename
    <3>3. QED
      BY <1>2, <3>1, <3>2 DEF CatalogInv, TypeOK
  <2>5. raced' \subseteq Notices
    <3>1. Crossed(r) \subseteq Notices
      BY <1>1, <1>2, RequestFields DEF Crossed, Changes, CatalogInv, TypeOK
    <3>2. raced' = raced \cup Overlapping(o) \cup Crossed(r)
      BY <1>1 DEF CommitRename
    <3>3. QED
      BY <3>1, <3>2 DEF CatalogInv, TypeOK, Overlapping
  <2>6. \A t \in DOMAIN tickets' : tickets'[t] \in [Kinds -> Names]
    BY <1>7, <1>9
  <2>7. QED
    BY <1>2, <1>6, <1>7, <1>8, <2>1, <2>2, <2>3, <2>4, <2>5, <2>6, FinishKeeps DEF CatalogInv, TypeOK
<1>11. TicketsFollowOptions'
  <2> SUFFICES ASSUME NEW t \in DOMAIN tickets, NEW k \in Kinds, NEW x, x = filed[t][k]
               PROVE  /\ x \in DOMAIN options /\ options'[x].kind = k
                      /\ options'[x].name = tickets'[t][k]
    BY <1>6, <1>7, <1>8 DEF TicketsFollowOptions
  <2>1. x \in DOMAIN options /\ options[x].kind = k /\ options[x].name = tickets[t][k]
    BY DEF CatalogInv, TicketsFollowOptions
  <2>2. CASE x = o
    BY <1>1, <1>4, <1>6, <1>9, <2>1, <2>2
  <2>3. CASE x # o
    <3>1. k = kind => tickets[t][k] # old
      BY <1>1, <1>3, <1>4, <2>1, <2>3 DEF CatalogInv, TypeOK
    <3>2. tickets'[t][k] = tickets[t][k]
      BY <1>9, <3>1
    <3>3. QED
      BY <1>6, <2>1, <2>3, <3>2
  <2>4. QED
    BY <2>2, <2>3
<1>12. RequestsRely'
  <2>1. \A s \in DOMAIN inflight' : Relies(inflight[s]) /\ o \notin inflight[s].locked
    BY <1>1, <1>2, <1>3, FinishKeeps DEF CatalogInv, RequestsRely
  <2>2. ASSUME NEW s \in DOMAIN inflight', inflight[s].op = "delete", NEW x \in inflight[s].locked
        PROVE  UnusedByTickets(x)'
    <3>1. x \in DOMAIN options \ {o} /\ UnusedByTickets(x)
      BY <2>1, <2>2 DEF Relies
    <3>2. options'[x] = options[x] /\ options[x].kind \in Kinds
      BY <1>6, <3>1 DEF CatalogInv, TypeOK, Option
    <3>3. options[x].kind = kind => options[x].name # name
      BY <1>5, <3>1
    <3>4. \A t \in DOMAIN tickets : tickets'[t][options[x].kind] # options[x].name
      BY <1>9, <3>1, <3>2, <3>3 DEF UnusedByTickets, NameOf
    <3>5. QED
      BY <1>7, <3>2, <3>4 DEF UnusedByTickets, NameOf
  <2>3. QED
    BY <1>2, <1>6, <2>1, <2>2, OthersRely DEF Relies
<1>13. QED
  BY <1>2, <1>10, <1>11, <1>12, FinishKeeps DEF CatalogInv

-----------------------------------------------------------------------------
(* The notices' requests lock no option. *)

LEMMA BeginNoticeStep ==
  ASSUME CatalogInv, NEW r \in Requests, NEW n \in Notices, NEW names \in SUBSET Names,
         BeginPost(r, n, names) \/ BeginEdit(r, n, names)
  PROVE  CatalogInv'
<1>1. PICK op \in {"post", "edit"} : Enter(r, Posted(op, n, names))
  BY DEF BeginPost, BeginEdit
<1>2. PICK q : q = Posted(op, n, names)
  OBVIOUS
<1>3. Meaning(names) \in SUBSET Ids
  BY OptionIds DEF Meaning, CatalogInv
<1>4. q \in Posting /\ q.locked = {} /\ q.op \in {"post", "edit"}
  BY <1>2, <1>3 DEF Posted, Posting
<1>5. Relies(q)
  BY <1>4 DEF Relies, Changes
<1>6. UNCHANGED <<options, created, tickets, departments, notices, history>>
  BY DEF BeginPost, BeginEdit
<1>7. inflight' = [s \in DOMAIN inflight \cup {r} |-> IF s = r THEN q ELSE inflight[s]]
  BY <1>1, <1>2 DEF Enter
<1>8. QED
  BY <1>4, <1>5, <1>6, <1>7, RequestStep

LEMMA CommitNoticeStep ==
  ASSUME CatalogInv, NEW r \in Requests, CommitNotice(r)
  PROVE  CatalogInv'
<1>1. PICK p, n : p = inflight[r] /\ n = p.notice
  OBVIOUS
<1>2. /\ r \in DOMAIN inflight /\ Finish(r)
      /\ n \in Notices /\ p.names \subseteq Names /\ p.meant \subseteq Ids
  BY <1>1, RequestFields DEF CommitNotice, Serving, CatalogInv, TypeOK
<1>3. /\ notices' = With(notices, n, p.names) /\ meant' = With(meant, n, p.meant)
      /\ raced' \subseteq raced \cup {n}
      /\ UNCHANGED <<options, created, tickets, departments, filed>>
  BY <1>1 DEF CommitNotice
<1>4. TypeOK'
  BY <1>2, <1>3, FinishKeeps DEF CatalogInv, TypeOK, With
<1>5. TicketsFollowOptions'
  BY <1>3 DEF CatalogInv, TicketsFollowOptions
<1>6. RequestsRely'
  <2>1. \A s \in DOMAIN inflight' : Relies(inflight[s])
    BY <1>2, FinishKeeps DEF CatalogInv, RequestsRely
  <2>2. QED
    BY <1>2, <1>3, <2>1, OthersRely DEF Relies, UnusedByTickets, NameOf
<1>7. QED
  BY <1>2, <1>4, <1>5, <1>6, FinishKeeps DEF CatalogInv

LEMMA AbortStep ==
  ASSUME CatalogInv, NEW r \in Requests, Abort(r)
  PROVE  CatalogInv'
<1>1. /\ r \in DOMAIN inflight /\ Finish(r)
      /\ UNCHANGED <<options, created, tickets, departments, notices, filed, meant, raced>>
  BY DEF Abort, history
<1>2. TypeOK' /\ TicketsFollowOptions'
  <2>1. TypeOK'
    BY <1>1, FinishKeeps DEF CatalogInv, TypeOK
  <2>2. TicketsFollowOptions'
    BY <1>1 DEF CatalogInv, TicketsFollowOptions
  <2>3. QED
    BY <2>1, <2>2
<1>3. RequestsRely'
  <2>1. \A s \in DOMAIN inflight' : Relies(inflight[s])
    BY <1>1, FinishKeeps DEF CatalogInv, RequestsRely
  <2>2. QED
    BY <1>1, <2>1, OthersRely DEF Relies, UnusedByTickets, NameOf
<1>4. QED
  BY <1>1, <1>2, <1>3, FinishKeeps DEF CatalogInv

-----------------------------------------------------------------------------
LEMMA NextStep == CatalogInv /\ [Next]_vars => CatalogInv'
<1> SUFFICES ASSUME CatalogInv, [Next]_vars PROVE CatalogInv'
  OBVIOUS
<1>1. CASE UNCHANGED vars
  <2>1. UNCHANGED <<options, created, tickets, departments, notices, inflight, filed, meant, raced>>
    BY <1>1 DEF vars, history
  <2>2. TypeOK' /\ LocksApart' /\ TicketsFollowOptions'
    BY <2>1 DEF CatalogInv, TypeOK, LocksApart, TicketsFollowOptions
  <2>3. ASSUME NEW x, Relies(x) PROVE Relies(x)'
    BY <2>1, <2>3 DEF Relies, Secured, UnusedByTickets, NameOf
  <2>4. RequestsRely'
    BY <2>1, <2>3 DEF CatalogInv, RequestsRely
  <2>5. QED
    BY <2>2, <2>4 DEF CatalogInv
<1>2. CASE \E k \in Kinds, name \in Names : CreateOption(k, name)
  BY <1>2, CreateOptionStep
<1>3. CASE \E u \in Users, name \in Names \cup {NoName} : SetDepartment(u, name)
  BY <1>3, SetDepartmentStep
<1>4. ASSUME NEW r \in Requests, NEW t \in Tickets, NEW names \in [Kinds -> Names],
             BeginFile(r, t, names)
      PROVE  CatalogInv'
  BY <1>4, BeginFileStep
<1>5. ASSUME NEW r \in Requests, NEW o \in DOMAIN options,
             \/ \E op \in {"enable", "disable"} : BeginActive(r, o, op)
             \/ \E name \in Names : BeginRename(r, o, name)
             \/ BeginDelete(r, o)
      PROVE  CatalogInv'
  <2>1. NameOf(o) \in Names
    BY DEF NameOf, CatalogInv, TypeOK, Option
  <2>2. ASSUME NEW op \in {"enable", "disable"}, BeginActive(r, o, op) PROVE CatalogInv'
    BY <2>1, <2>2, BeginChangeStep DEF BeginActive, Changes
  <2>3. ASSUME NEW name \in Names, BeginRename(r, o, name) PROVE CatalogInv'
    BY <2>3, BeginChangeStep DEF BeginRename, Changes
  <2>4. CASE BeginDelete(r, o)
    BY <2>1, <2>4, BeginChangeStep DEF BeginDelete, Changes
  <2>5. QED
    BY <1>5, <2>2, <2>3, <2>4
<1>6. ASSUME NEW r \in Requests, NEW n \in Notices, NEW names \in SUBSET Names,
             BeginPost(r, n, names) \/ BeginEdit(r, n, names)
      PROVE  CatalogInv'
  BY <1>6, BeginNoticeStep
<1>7. ASSUME NEW r \in DOMAIN inflight,
             \/ LockSector(r) \/ CommitFile(r) \/ CommitActive(r)
             \/ ReadNotices(r) \/ CommitRename(r) \/ CommitDelete(r)
             \/ CommitNotice(r) \/ Abort(r)
      PROVE  CatalogInv'
  <2>1. r \in Requests
    BY DEF CatalogInv, TypeOK
  <2>2. QED
    BY <1>7, <2>1, LockSectorStep, CommitFileStep, CommitActiveStep, ReadNoticesStep,
       CommitRenameStep, CommitDeleteStep, CommitNoticeStep, AbortStep
<1>8. QED
  BY <1>1, <1>2, <1>3, <1>4, <1>5, <1>6, <1>7 DEF Next

\* The catalogue's invariant holds throughout.
THEOREM CatalogInvariance == Spec => []CatalogInv
<1>1. Init => CatalogInv
  BY InitInv
<1>2. QED
  BY <1>1, NextStep, PTL DEF Spec

\* The tables have their shape, and two options of a kind never share a name.
THEOREM CatalogTypes == Spec => []TypeOK
<1>1. CatalogInv => TypeOK
  BY DEF CatalogInv
<1>2. QED
  BY <1>1, CatalogInvariance, PTL

\* A ticket follows the options it was created under through every renaming,
\* and none of them is removed while the ticket names it.
THEOREM TicketsKeepTheirOptions == Spec => []TicketsFollowOptions
<1>1. CatalogInv => TicketsFollowOptions
  BY DEF CatalogInv
<1>2. QED
  BY <1>1, CatalogInvariance, PTL

-----------------------------------------------------------------------------
(* The notices.  No lock protects them from the catalogue; what holds, holds *)
(* of the notices whose writes did not overlap.                              *)

\* The names N are those of the sectors M, as they are now.
Target(M, N) ==
  /\ M \subseteq DOMAIN options
  /\ \A o \in M : options[o].kind = "sector"
  /\ N = {NameOf(o) : o \in M}

Settled == DOMAIN notices \ raced

\* What a request relies on about the notices that did not race.
NoticeRelies(q) ==
  /\ q.op \in {"post", "edit"} /\ q.notice \notin raced => Target(q.meant, q.names)
  /\ q.op = "delete" => \A n \in Settled : meant[n] \cap q.locked = {}
  /\ q.op = "rewrite" => \A n \in Settled : \A o \in q.locked :
       /\ n \in q.rewrites <=> o \in meant[n]
       /\ n \in q.rewrites => q.notices[n] = Renamed(notices[n], NameOf(o), q.name)

NoticeInv ==
  /\ \A n \in Settled : Target(meant[n], notices[n])
  /\ \A r \in DOMAIN inflight : NoticeRelies(inflight[r])

\* Sectors that keep their names keep what targets them.
LEMMA TargetKept ==
  ASSUME NEW M, NEW N, Target(M, N), M \subseteq DOMAIN options',
         \A o \in M : options'[o].kind = options[o].kind /\ options'[o].name = options[o].name
  PROVE  Target(M, N)'
BY DEF Target, NameOf

\* A step that writes no notice and renames or removes no option.
LEMMA NoticesStand ==
  ASSUME CatalogInv, NoticeInv,
         UNCHANGED <<notices, meant, raced>>,
         \A o \in DOMAIN options : /\ o \in DOMAIN options'
                                   /\ options'[o].kind = options[o].kind
                                   /\ options'[o].name = options[o].name,
         \A r \in DOMAIN inflight' :
           \/ r \in DOMAIN inflight /\ inflight'[r] = inflight[r]
           \/ inflight'[r].locked \subseteq DOMAIN options /\ NoticeRelies(inflight'[r])
  PROVE  NoticeInv'
<1>1. ASSUME NEW M, NEW N, Target(M, N) PROVE Target(M, N)'
  <2>1. M \subseteq DOMAIN options
    BY <1>1 DEF Target
  <2>2. QED
    BY <1>1, <2>1, TargetKept
<1>2. ASSUME NEW q, q.locked \subseteq DOMAIN options, NoticeRelies(q)
      PROVE  NoticeRelies(q)'
  BY <1>1, <1>2 DEF NoticeRelies, Settled, NameOf
<1>3. ASSUME NEW r \in DOMAIN inflight', NEW q, q = inflight'[r] PROVE NoticeRelies(q)'
  <2>1. q.locked \subseteq DOMAIN options /\ NoticeRelies(q)
    BY <1>3 DEF NoticeInv, CatalogInv, RequestsRely, Relies
  <2>2. QED
    BY <1>2, <2>1
<1>4. \A n \in Settled' : Target(meant[n], notices[n])'
  BY <1>1 DEF NoticeInv, Settled
<1>5. QED
  BY <1>3, <1>4 DEF NoticeInv

\* ... of which one that only begins a request, or lets one go on.
LEMMA NoticesStandWith ==
  ASSUME CatalogInv, NoticeInv, NEW r, NEW q,
         inflight' = [s \in DOMAIN inflight \cup {r} |-> IF s = r THEN q ELSE inflight[s]],
         q.locked \subseteq DOMAIN options, NoticeRelies(q),
         UNCHANGED <<options, notices, meant, raced>>
  PROVE  NoticeInv'
BY NoticesStand

LEMMA InitNotices == Init => NoticeInv
BY DEF Init, NoticeInv, Settled

\* An option found unused is the target of no notice.
LEMMA DeleteNotices ==
  ASSUME CatalogInv, NoticeInv, NEW r, NEW o, BeginDelete(r, o)
  PROVE  NoticeInv'
<1>1. PICK q : q = [op |-> "delete", locked |-> {o}, name |-> NameOf(o),
                    notices |-> [n \in Notices |-> {}], rewrites |-> {}]
  OBVIOUS
<1>2. o \in DOMAIN options
  BY DEF BeginDelete
<1>3. ASSUME NEW n \in Settled PROVE o \notin meant[n]
  <2>1. Target(meant[n], notices[n])
    BY DEF NoticeInv
  <2>2. ASSUME o \in meant[n] PROVE FALSE
    <3>1. options[o].kind = "sector" /\ NameOf(o) \in notices[n]
      BY <2>1, <2>2 DEF Target
    <3>2. QED
      BY <3>1 DEF BeginDelete, UnusedByOthers, Settled
  <2>3. QED
    BY <2>2
<1>4. NoticeRelies(q)
  BY <1>1, <1>3 DEF NoticeRelies
<1>5. inflight' = [s \in DOMAIN inflight \cup {r} |-> IF s = r THEN q ELSE inflight[s]]
  BY <1>1 DEF BeginDelete, BeginChange, Enter
<1>6. UNCHANGED <<options, notices, meant, raced>> /\ q.locked \subseteq DOMAIN options
  BY <1>1, <1>2 DEF BeginDelete, BeginChange, history
<1>7. QED
  BY <1>4, <1>5, <1>6, NoticesStandWith

\* A change that has read nothing about the notices.
LEMMA ChangeNotices ==
  ASSUME CatalogInv, NoticeInv, NEW r, NEW o, NEW op \in {"rename", "enable", "disable"},
         NEW name, BeginChange(r, o, op, name)
  PROVE  NoticeInv'
<1>1. PICK q : q = [op |-> op, locked |-> {o}, name |-> name,
                    notices |-> [n \in Notices |-> {}], rewrites |-> {}]
  OBVIOUS
<1>2. NoticeRelies(q)
  BY <1>1 DEF NoticeRelies
<1>3. inflight' = [s \in DOMAIN inflight \cup {r} |-> IF s = r THEN q ELSE inflight[s]]
  BY <1>1 DEF BeginChange, Enter
<1>4. UNCHANGED <<options, notices, meant, raced>> /\ q.locked \subseteq DOMAIN options
  BY <1>1 DEF BeginChange, history
<1>5. QED
  BY <1>2, <1>3, <1>4, NoticesStandWith

\* A renaming that reads the notices finds exactly those that target its sector.
LEMMA ReadNoticesKeeps ==
  ASSUME CatalogInv, NoticeInv, NEW r \in Requests, ReadNotices(r)
  PROVE  NoticeInv'
<1>1. PICK p, o, hit : /\ p = inflight[r] /\ o = OptionOf(r)
                       /\ hit = IF options[o].kind = "sector"
                                THEN {n \in DOMAIN notices : NameOf(o) \in notices[n]} ELSE {}
  OBVIOUS
<1>2. r \in DOMAIN inflight /\ p.op = "rename" /\ p \in Change /\ Relies(p)
  BY <1>1, RequestFields
     DEF ReadNotices, Serving, CatalogInv, TypeOK, RequestsRely, Changes
<1>3. p.locked = {o} /\ o \in DOMAIN options
  BY <1>1, <1>2 DEF Relies, Changes, OptionOf
<1>4. PICK f : f = [n \in Notices |-> IF n \in hit THEN Renamed(notices[n], NameOf(o), p.name) ELSE {}]
  OBVIOUS
<1>5. PICK q : q = [p EXCEPT !.op = "rewrite", !.rewrites = hit, !.notices = f]
  OBVIOUS
<1>6. /\ q.op = "rewrite" /\ q.rewrites = hit /\ q.notices = f
      /\ q.locked = {o} /\ q.name = p.name
  BY <1>2, <1>3, <1>5 DEF Change
<1>7. ASSUME NEW n \in Settled
      PROVE  /\ n \in hit <=> o \in meant[n]
             /\ n \in hit => f[n] = Renamed(notices[n], NameOf(o), p.name)
  <2>1. /\ Target(meant[n], notices[n]) /\ n \in DOMAIN notices /\ n \in Notices
    BY DEF NoticeInv, Settled, CatalogInv, TypeOK
  <2>2. ASSUME o \in meant[n] PROVE n \in hit
    BY <1>1, <2>1, <2>2 DEF Target
  <2>3. ASSUME n \in hit PROVE o \in meant[n]
    <3>1. options[o].kind = "sector" /\ NameOf(o) \in notices[n]
      BY <1>1, <2>3
    <3>2. PICK x \in meant[n] : NameOf(x) = NameOf(o)
      BY <2>1, <3>1 DEF Target
    <3>3. x \in DOMAIN options /\ options[x].kind = "sector"
      BY <2>1 DEF Target
    <3>4. x = o
      BY <1>3, <3>1, <3>2, <3>3 DEF NameOf, CatalogInv, TypeOK
    <3>5. QED
      BY <3>4
  <2>4. QED
    BY <1>4, <2>1, <2>2, <2>3
<1>8. NoticeRelies(q)
  BY <1>6, <1>7 DEF NoticeRelies
<1>9. inflight' = [s \in DOMAIN inflight \cup {r} |-> IF s = r THEN q ELSE inflight[s]]
  BY <1>1, <1>2, <1>4, <1>5 DEF ReadNotices, Goto
<1>10. UNCHANGED <<options, notices, meant, raced>> /\ q.locked \subseteq DOMAIN options
  BY <1>3, <1>6 DEF ReadNotices, history
<1>11. QED
  BY <1>8, <1>9, <1>10, NoticesStandWith

\* A notice's request takes sectors of the catalogue, or those the notice has.
LEMMA BeginNoticeKeeps ==
  ASSUME CatalogInv, NoticeInv, NEW r \in Requests, NEW n \in Notices,
         NEW names \in SUBSET Names, BeginPost(r, n, names) \/ BeginEdit(r, n, names)
  PROVE  NoticeInv'
<1>1. PICK op \in {"post", "edit"} : Enter(r, Posted(op, n, names))
  BY DEF BeginPost, BeginEdit
<1>2. PICK q : q = Posted(op, n, names)
  OBVIOUS
<1>3. /\ q.op = op /\ q.notice = n /\ q.names = names /\ q.meant = Meaning(names)
      /\ q.locked = {}
  BY <1>2 DEF Posted
<1>4. ASSUME n \notin raced PROVE Target(Meaning(names), names)
  <2>1. \A x \in names : \E o \in Meaning(names) : NameOf(o) = x
    <3> SUFFICES ASSUME NEW x \in names PROVE \E o \in Meaning(names) : NameOf(o) = x
      OBVIOUS
    <3>1. CASE x \in Official
      BY <3>1 DEF Official, Meaning
    <3>2. CASE x \notin Official
      <4>1. n \in Settled /\ x \in notices[n]
        BY <1>4, <3>2 DEF BeginPost, BeginEdit, Settled
      <4>2. PICK o \in meant[n] : NameOf(o) = x
        BY <4>1 DEF NoticeInv, Target
      <4>3. o \in DOMAIN options /\ options[o].kind = "sector"
        BY <4>1 DEF NoticeInv, Target
      <4>4. QED
        BY <4>2, <4>3 DEF Meaning
    <3>3. QED
      BY <3>1, <3>2
  <2>2. \A o \in Meaning(names) : /\ o \in DOMAIN options /\ options[o].kind = "sector"
                                  /\ NameOf(o) \in names
    BY DEF Meaning
  <2>3. QED
    BY <2>1, <2>2 DEF Target
<1>5. NoticeRelies(q)
  BY <1>3, <1>4 DEF NoticeRelies
<1>6. inflight' = [s \in DOMAIN inflight \cup {r} |-> IF s = r THEN q ELSE inflight[s]]
  BY <1>1, <1>2 DEF Enter
<1>7. UNCHANGED <<options, notices, meant, raced>> /\ q.locked \subseteq DOMAIN options
  BY <1>3 DEF BeginPost, BeginEdit, history
<1>8. QED
  BY <1>5, <1>6, <1>7, NoticesStandWith

\* The write of a notice: what another request relies on about it, it has raced.
LEMMA CommitNoticeKeeps ==
  ASSUME CatalogInv, NoticeInv, NEW r \in Requests, CommitNotice(r)
  PROVE  NoticeInv'
<1>1. PICK p, n : p = inflight[r] /\ n = p.notice
  OBVIOUS
<1>2. r \in DOMAIN inflight /\ Finish(r) /\ p.op \in {"post", "edit"} /\ NoticeRelies(p)
  BY <1>1 DEF CommitNotice, Serving, NoticeInv
<1>3. /\ DOMAIN notices' = DOMAIN notices \cup {n}
      /\ notices'[n] = p.names /\ meant'[n] = p.meant
      /\ \A m \in DOMAIN notices \ {n} : notices'[m] = notices[m] /\ meant'[m] = meant[m]
      /\ options' = options
  BY <1>1 DEF CommitNotice, With, CatalogInv, TypeOK
<1>4. raced \subseteq raced' /\ (Overlapped(r) => n \in raced')
  BY <1>1 DEF CommitNotice
<1>5. \A m \in Settled' : m = n \/ m \in Settled \ {n}
  BY <1>3, <1>4 DEF Settled
<1>6. ASSUME NEW M, NEW N, Target(M, N) PROVE Target(M, N)'
  BY <1>3, <1>6 DEF Target, NameOf
<1>7. ASSUME NEW m \in Settled' PROVE Target(meant'[m], notices'[m])
  <2>1. CASE m = n
    BY <1>2, <1>1, <1>3, <1>4, <2>1 DEF NoticeRelies, Settled
  <2>2. CASE m \in Settled \ {n}
    BY <1>3, <2>2 DEF NoticeInv, Settled
  <2>3. QED
    BY <1>5, <2>1, <2>2
<1>8. \A m \in Settled' : Target(meant[m], notices[m])'
  <2> SUFFICES ASSUME NEW m \in Settled' PROVE Target(meant[m], notices[m])'
    OBVIOUS
  <2>1. PICK M, N : M = meant'[m] /\ N = notices'[m]
    OBVIOUS
  <2>2. Target(M, N)'
    BY <1>6, <1>7, <2>1
  <2>3. QED
    BY <2>1, <2>2
<1>9. ASSUME NEW s \in DOMAIN inflight', NEW q, q = inflight'[s] PROVE NoticeRelies(q)'
  <2>1. s \in DOMAIN inflight /\ q = inflight[s] /\ NoticeRelies(q)
    BY <1>1, <1>2, <1>9, FinishKeeps DEF NoticeInv
  <2>2. q.op \in {"post", "edit"} /\ q.notice \notin raced' => Target(q.meant, q.names)'
    BY <1>4, <1>6, <2>1 DEF NoticeRelies
  <2>3. ASSUME q.op = "delete", NEW m \in Settled' PROVE meant'[m] \cap q.locked = {}
    <3>1. CASE m = n
      <4>1. q.locked \cap p.meant # {} => Overlapped(r)
        BY <1>1, <2>1, <2>3 DEF Overlapped, Serving
      <4>2. QED
        BY <1>3, <1>4, <3>1, <4>1, <2>3 DEF Settled
    <3>2. CASE m \in Settled \ {n}
      BY <1>3, <2>1, <2>3, <3>2 DEF NoticeRelies, Settled
    <3>3. QED
      BY <1>5, <2>3, <3>1, <3>2
  <2>4. ASSUME q.op = "rewrite", NEW m \in Settled', NEW o \in q.locked
        PROVE  /\ m \in q.rewrites <=> o \in meant'[m]
               /\ m \in q.rewrites => q.notices[m] = Renamed(notices'[m], NameOf(o)', q.name)
    <3>1. CASE m = n
      <4>1. q.locked \cap p.meant # {} \/ n \in q.rewrites => Overlapped(r)
        BY <1>1, <2>1, <2>4 DEF Overlapped, Serving
      <4>2. ~Overlapped(r)
        BY <1>4, <2>4, <3>1 DEF Settled
      <4>3. n \notin q.rewrites /\ o \notin p.meant
        BY <2>4, <4>1, <4>2
      <4>4. QED
        BY <1>3, <3>1, <4>3
    <3>2. CASE m \in Settled \ {n}
      <4>1. meant'[m] = meant[m] /\ notices'[m] = notices[m] /\ NameOf(o)' = NameOf(o)
        BY <1>3, <3>2 DEF Settled, NameOf
      <4>2. QED
        BY <2>1, <2>4, <3>2, <4>1 DEF NoticeRelies
    <3>3. QED
      BY <1>5, <2>4, <3>1, <3>2
  <2>5. QED
    BY <2>2, <2>3, <2>4 DEF NoticeRelies
<1>10. QED
  BY <1>8, <1>9 DEF NoticeInv

\* A removal takes no sector away from a notice that did not race.
LEMMA CommitDeleteKeeps ==
  ASSUME CatalogInv, NoticeInv, NEW r \in Requests, CommitDelete(r)
  PROVE  NoticeInv'
<1>1. PICK p : p = inflight[r]
  OBVIOUS
<1>2. r \in DOMAIN inflight /\ Finish(r) /\ p.op = "delete" /\ Relies(p) /\ NoticeRelies(p)
  BY <1>1 DEF CommitDelete, Serving, NoticeInv, CatalogInv, RequestsRely
<1>3. PICK d : p.locked = {d}
  BY <1>2 DEF Relies, Changes
<1>4. OptionOf(r) = d
  BY <1>1, <1>3 DEF OptionOf
<1>5. /\ DOMAIN options' = DOMAIN options \ {d}
      /\ \A o \in DOMAIN options' : options'[o] = options[o]
      /\ UNCHANGED <<notices, meant>> /\ raced' = raced \cup Overlapping(d)
  BY <1>1, <1>3, <1>4 DEF CommitDelete
<1>6. \A n \in Settled' : n \in Settled /\ d \notin meant[n]
  BY <1>2, <1>3, <1>5 DEF NoticeRelies, Settled
<1>7. ASSUME NEW M, NEW N, Target(M, N), d \notin M PROVE Target(M, N)'
  <2>1. M \subseteq DOMAIN options'
    BY <1>5, <1>7 DEF Target
  <2>2. QED
    BY <1>5, <1>7, <2>1, TargetKept
<1>8. \A n \in Settled' : Target(meant[n], notices[n])'
  BY <1>5, <1>6, <1>7 DEF NoticeInv
<1>9. ASSUME NEW s \in DOMAIN inflight', NEW q, q = inflight'[s] PROVE NoticeRelies(q)'
  <2>1. /\ s \in DOMAIN inflight /\ q = inflight[s] /\ NoticeRelies(q)
        /\ q.locked \subseteq DOMAIN options /\ d \notin q.locked
        /\ q \in Filing \cup Change \cup Posting
    BY <1>1, <1>2, <1>3, <1>9, FinishKeeps DEF NoticeInv, CatalogInv, RequestsRely, Relies
  <2>2. ASSUME q.op \in {"post", "edit"}, q.notice \notin raced' PROVE Target(q.meant, q.names)'
    <3>1. q.notice \in Notices
      BY <2>1, <2>2, RequestFields
    <3>2. d \notin q.meant
      BY <1>5, <2>1, <2>2, <3>1 DEF Overlapping
    <3>3. QED
      BY <1>5, <1>7, <2>1, <2>2, <3>2 DEF NoticeRelies
  <2>3. \A o \in q.locked : NameOf(o)' = NameOf(o)
    BY <1>5, <2>1 DEF NameOf
  <2>4. QED
    BY <1>5, <1>6, <2>1, <2>2, <2>3 DEF NoticeRelies
<1>10. QED
  BY <1>8, <1>9 DEF NoticeInv

\* A renaming writes to each notice the new name of its sector and no other change;
\* what it would undo, or another renaming would, has raced.
LEMMA CommitRenameKeeps ==
  ASSUME CatalogInv, NoticeInv, NEW r \in Requests, CommitRename(r)
  PROVE  NoticeInv'
<1>1. PICK p, o, name, old :
        /\ p = inflight[r] /\ o = OptionOf(r) /\ name = p.name /\ old = NameOf(o)
  OBVIOUS
<1>2. /\ r \in DOMAIN inflight /\ p.op = "rewrite" /\ Relies(p) /\ Finish(r) /\ NoticeRelies(p)
      /\ p \in Change
  BY <1>1, RequestFields
     DEF CommitRename, Serving, CatalogInv, TypeOK, RequestsRely, Changes, NoticeInv
<1>3. p.locked = {o} /\ o \in DOMAIN options /\ options[o] \in Option /\ old = options[o].name
  BY <1>1, <1>2 DEF Relies, Changes, OptionOf, CatalogInv, TypeOK, NameOf
<1>4. /\ DOMAIN options' = DOMAIN options
      /\ options'[o].name = name /\ options'[o].kind = options[o].kind
      /\ \A x \in DOMAIN options \ {o} : options'[x] = options[x]
  BY <1>1, <1>3 DEF CommitRename, Option
<1>5. /\ DOMAIN notices' = DOMAIN notices
      /\ \A n \in DOMAIN notices :
           notices'[n] = IF n \in p.rewrites THEN p.notices[n] ELSE notices[n]
      /\ raced' = raced \cup Overlapping(o) \cup Crossed(r)
      /\ meant' = meant
  BY <1>1 DEF CommitRename
<1>6. \A n \in Settled' : n \in Settled /\ n \notin Overlapping(o) /\ n \notin Crossed(r)
  BY <1>5 DEF Settled
<1>7. ASSUME NEW M, NEW N, Target(M, N), o \notin M PROVE Target(M, N)'
  <2>1. M \subseteq DOMAIN options' /\ \A x \in M : options'[x] = options[x]
    BY <1>4, <1>7 DEF Target
  <2>2. QED
    BY <1>7, <2>1, TargetKept
<1>8. ASSUME NEW M, NEW N, Target(M, N), o \in M PROVE Target(M, Renamed(N, old, name))'
  <2>1. M \subseteq DOMAIN options /\ \A x \in M : options[x].kind = "sector"
    BY <1>8 DEF Target
  <2>2. \A x \in M \ {o} : NameOf(x) # old /\ NameOf(x)' = NameOf(x)
    BY <1>3, <1>4, <1>8, <2>1 DEF NameOf, CatalogInv, TypeOK
  <2>3. NameOf(o)' = name
    BY <1>4 DEF NameOf
  <2>4. N = {NameOf(x) : x \in M} /\ NameOf(o) = old
    BY <1>1, <1>8 DEF Target
  <2>5. Renamed(N, old, name) = {NameOf(x)' : x \in M}
    <3>1. ASSUME NEW y \in Renamed(N, old, name) PROVE \E x \in M : y = NameOf(x)'
      BY <1>8, <2>2, <2>3, <2>4, <3>1 DEF Renamed
    <3>2. ASSUME NEW x \in M PROVE NameOf(x)' \in Renamed(N, old, name)
      BY <2>2, <2>3, <2>4 DEF Renamed
    <3>3. QED
      BY <3>1, <3>2
  <2>6. \A x \in M : x \in DOMAIN options' /\ options'[x].kind = "sector"
    BY <1>4, <2>1
  <2>7. QED
    BY <2>5, <2>6 DEF Target
<1>9. ASSUME NEW n \in Settled' PROVE Target(meant[n], notices[n])'
  <2>1. n \in Settled /\ n \in DOMAIN notices /\ Target(meant[n], notices[n])
    BY <1>6 DEF Settled, NoticeInv
  <2>2. PICK M, N, W : M = meant[n] /\ N = notices[n] /\ W = notices'[n]
    OBVIOUS
  <2>3. CASE o \in M
    <3>1. W = Renamed(N, old, name)
      <4>1. n \in p.rewrites /\ p.notices[n] = Renamed(notices[n], NameOf(o), p.name)
        BY <1>2, <1>3, <2>1, <2>2, <2>3 DEF NoticeRelies
      <4>2. W = p.notices[n]
        BY <1>5, <2>1, <2>2, <4>1
      <4>3. QED
        BY <1>1, <2>2, <4>1, <4>2
    <3>2. Target(M, Renamed(N, old, name))'
      BY <1>8, <2>1, <2>2, <2>3
    <3>3. QED
      BY <1>5, <2>2, <3>1, <3>2
  <2>4. CASE o \notin M
    <3>1. W = N
      BY <1>2, <1>3, <1>5, <2>1, <2>2, <2>4 DEF NoticeRelies
    <3>2. Target(M, N)'
      BY <1>7, <2>1, <2>2, <2>4
    <3>3. QED
      BY <1>5, <2>2, <3>1, <3>2
  <2>5. QED
    BY <2>3, <2>4
<1>10. ASSUME NEW s \in DOMAIN inflight', NEW q, q = inflight'[s] PROVE NoticeRelies(q)'
  <2>1. /\ s \in DOMAIN inflight /\ s # r /\ q = inflight[s] /\ NoticeRelies(q)
        /\ q.locked \subseteq DOMAIN options /\ o \notin q.locked
        /\ q \in Filing \cup Change \cup Posting
    BY <1>1, <1>2, <1>3, <1>10, FinishKeeps DEF NoticeInv, CatalogInv, RequestsRely, Relies
  <2>2. ASSUME q.op \in {"post", "edit"}, q.notice \notin raced' PROVE Target(q.meant, q.names)'
    <3>1. q.notice \in Notices
      BY <2>1, <2>2, RequestFields
    <3>2. o \notin q.meant
      BY <1>5, <2>1, <2>2, <3>1 DEF Overlapping
    <3>3. QED
      BY <1>5, <1>7, <2>1, <2>2, <3>2 DEF NoticeRelies
  <2>3. \A x \in q.locked : NameOf(x)' = NameOf(x)
    BY <1>4, <2>1 DEF NameOf
  <2>4. ASSUME q.op = "delete", NEW n \in Settled' PROVE meant'[n] \cap q.locked = {}
    BY <1>5, <1>6, <2>1, <2>4 DEF NoticeRelies
  <2>5. ASSUME q.op = "rewrite", NEW n \in Settled', NEW x \in q.locked
        PROVE  /\ n \in q.rewrites <=> x \in meant'[n]
               /\ n \in q.rewrites => q.notices[n] = Renamed(notices'[n], NameOf(x)', q.name)
    <3>1. n \in Settled /\ n \in DOMAIN notices
      BY <1>6, <2>5 DEF Settled
    <3>2. ASSUME n \in q.rewrites PROVE n \notin p.rewrites
      BY <1>1, <1>6, <2>1, <2>5, <3>2 DEF Crossed, Serving
    <3>3. n \in q.rewrites => notices'[n] = notices[n]
      BY <1>5, <3>1, <3>2
    <3>4. QED
      BY <1>5, <2>1, <2>3, <2>5, <3>1, <3>3 DEF NoticeRelies
  <2>6. QED
    BY <2>2, <2>4, <2>5 DEF NoticeRelies
<1>11. QED
  BY <1>9, <1>10 DEF NoticeInv

LEMMA OtherStepsKeep ==
  ASSUME CatalogInv, NoticeInv, NEW r \in Requests,
         \/ LockSector(r) \/ CommitFile(r) \/ CommitActive(r) \/ Abort(r)
  PROVE  NoticeInv'
<1>1. ASSUME LockSector(r) PROVE NoticeInv'
  <2>1. PICK p, o, q : /\ p = inflight[r] /\ o \in Require("sector", p.names["sector"])
                       /\ q = [p EXCEPT !.op = "store", !.ids["sector"] = o, !.locked = @ \cup {o}]
                       /\ Goto(r, q)
    BY <1>1 DEF LockSector
  <2>2. r \in DOMAIN inflight /\ p \in Filing /\ p.locked \subseteq DOMAIN options
    BY <1>1, <2>1, RequestFields
       DEF LockSector, Serving, CatalogInv, TypeOK, RequestsRely, Relies
  <2>3. q.op = "store" /\ q.locked = p.locked \cup {o} /\ o \in DOMAIN options
    BY <2>1, <2>2 DEF Filing, Require, Named
  <2>4. NoticeRelies(q) /\ q.locked \subseteq DOMAIN options
    BY <2>2, <2>3 DEF NoticeRelies
  <2>5. inflight' = [s \in DOMAIN inflight \cup {r} |-> IF s = r THEN q ELSE inflight[s]]
    BY <2>1, <2>2 DEF Goto
  <2>6. QED
    BY <1>1, <2>4, <2>5, NoticesStandWith DEF LockSector, history
<1>2. ASSUME CommitFile(r) \/ Abort(r) PROVE NoticeInv'
  <2>1. /\ r \in DOMAIN inflight /\ Finish(r)
        /\ UNCHANGED <<options, notices, meant, raced>>
    BY <1>2 DEF CommitFile, Abort, Serving, history
  <2>2. QED
    BY <2>1, FinishKeeps, NoticesStand
<1>3. ASSUME CommitActive(r) PROVE NoticeInv'
  <2>1. /\ r \in DOMAIN inflight /\ Finish(r)
        /\ UNCHANGED <<notices, meant, raced>>
    BY <1>3 DEF CommitActive, Serving, history
  <2>2. \A o \in DOMAIN options : /\ o \in DOMAIN options'
                                  /\ options'[o].kind = options[o].kind
                                  /\ options'[o].name = options[o].name
    BY <1>3 DEF CommitActive, CatalogInv, TypeOK, Option
  <2>3. QED
    BY <2>1, <2>2, FinishKeeps, NoticesStand
<1>4. QED
  BY <1>1, <1>2, <1>3

LEMMA NextKeepsNotices == CatalogInv /\ NoticeInv /\ [Next]_vars => NoticeInv'
<1> SUFFICES ASSUME CatalogInv, NoticeInv, [Next]_vars PROVE NoticeInv'
  OBVIOUS
<1>1. CASE UNCHANGED vars
  BY <1>1, NoticesStand DEF vars, history
<1>2. ASSUME NEW k \in Kinds, NEW name \in Names, CreateOption(k, name) PROVE NoticeInv'
  <2>1. created + 1 \notin DOMAIN options
    BY CatalogAssumption DEF CatalogInv, TypeOK
  <2>2. \A o \in DOMAIN options : o \in DOMAIN options' /\ options'[o] = options[o]
    BY <1>2, <2>1 DEF CreateOption, With
  <2>3. UNCHANGED <<notices, meant, raced, inflight>>
    BY <1>2 DEF CreateOption, history
  <2>4. QED
    BY <2>2, <2>3, NoticesStand
<1>3. ASSUME NEW u \in Users, NEW name, SetDepartment(u, name) PROVE NoticeInv'
  BY <1>3, NoticesStand DEF SetDepartment, history
<1>4. ASSUME NEW r \in Requests, NEW t \in Tickets, NEW names \in [Kinds -> Names],
             BeginFile(r, t, names)
      PROVE  NoticeInv'
  <2>1. PICK o, q : /\ o \in Require("category", names["category"])
                    /\ q = [op |-> "file", ticket |-> t, names |-> names,
                            ids |-> [k \in Kinds |-> o], locked |-> {o}]
                    /\ Enter(r, q)
    BY <1>4 DEF BeginFile
  <2>2. NoticeRelies(q) /\ q.locked \subseteq DOMAIN options
    BY <2>1 DEF NoticeRelies, Require, Named
  <2>3. QED
    BY <1>4, <2>1, <2>2, NoticesStandWith DEF Enter, BeginFile, history
<1>5. ASSUME NEW r \in Requests, NEW o \in DOMAIN options,
             \/ \E op \in {"enable", "disable"} : BeginActive(r, o, op)
             \/ \E name \in Names : BeginRename(r, o, name)
             \/ BeginDelete(r, o)
      PROVE  NoticeInv'
  <2>1. ASSUME NEW op \in {"enable", "disable"}, BeginActive(r, o, op) PROVE NoticeInv'
    BY <2>1, ChangeNotices DEF BeginActive
  <2>2. ASSUME NEW name \in Names, BeginRename(r, o, name) PROVE NoticeInv'
    BY <2>2, ChangeNotices DEF BeginRename
  <2>3. QED
    BY <1>5, <2>1, <2>2, DeleteNotices
<1>6. ASSUME NEW r \in Requests, NEW n \in Notices, NEW names \in SUBSET Names,
             BeginPost(r, n, names) \/ BeginEdit(r, n, names)
      PROVE  NoticeInv'
  BY <1>6, BeginNoticeKeeps
<1>7. ASSUME NEW r \in DOMAIN inflight,
             \/ LockSector(r) \/ CommitFile(r) \/ CommitActive(r)
             \/ ReadNotices(r) \/ CommitRename(r) \/ CommitDelete(r)
             \/ CommitNotice(r) \/ Abort(r)
      PROVE  NoticeInv'
  <2>1. r \in Requests
    BY DEF CatalogInv, TypeOK
  <2>2. QED
    BY <1>7, <2>1, OtherStepsKeep, ReadNoticesKeeps, CommitRenameKeeps, CommitDeleteKeeps,
       CommitNoticeKeeps
<1>8. QED
  BY <1>1, <1>2, <1>3, <1>4, <1>5, <1>6, <1>7 DEF Next

\* A notice whose writes overlapped no change of its sectors targets what its last
\* write meant, under the present names (rename_catalog_option, delete_catalog_option
\* and the notices' writes share no lock).
THEOREM NoticesKeepTheirSectors == Spec => []NoticesFollowOptions
<1>1. NoticeInv => NoticesFollowOptions
  BY DEF NoticeInv, Settled, Target, NoticesFollowOptions
<1>2. Init => NoticeInv
  BY InitNotices
<1>3. QED
  BY <1>1, <1>2, NextKeepsNotices, CatalogInvariance, PTL DEF Spec

=============================================================================
