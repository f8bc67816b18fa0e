---------------------- MODULE MaintenanceNotices_proofs ----------------------
(***************************************************************************)
(* Proofs about MaintenanceNotices for any readers, notices and requests:  *)
(* the row lock gives a notice to one request at a time, so what a request *)
(* read when it locked the row still holds when it commits; a version that *)
(* was shown is what the notice still says as long as its number is.       *)
(***************************************************************************)
EXTENDS MaintenanceNotices, TLAPS

\* A notice's row is locked by one request.
LockedOnce ==
  \A r, s \in DOMAIN inflight : inflight[r].notice = inflight[s].notice => r = s

\* What a request q knows of the row it has locked.
ReadHolds(q) ==
  /\ q.notice \in DOMAIN notices
  /\ q.op = "read" =>
       /\ q.revision = notices[q.notice].revision
       /\ VersionOf(q.notice) \in shown[q.user]
  /\ q.op = "edit" =>
       \/ q.row.revision = notices[q.notice].revision + 1
       \/ /\ q.row.revision = notices[q.notice].revision
          /\ q.row.content = notices[q.notice].content
          /\ q.row.ends = notices[q.notice].ends

ReadsHold == \A r \in DOMAIN inflight : ReadHolds(inflight[r])

\* No page is ahead of the notice, and one with its revision has its content.
Faithful(v) ==
  /\ v.notice \in 1 .. created
  /\ v.notice \in DOMAIN notices =>
       /\ v.revision <= notices[v.notice].revision
       /\ v.revision = notices[v.notice].revision => v = VersionOf(v.notice)

PagesFaithful == \A u \in Users : \A v \in shown[u] : Faithful(v)

\* The inductive invariant.
NoticesInv == TypeOK /\ LockedOnce /\ ReadsHold /\ PagesFaithful /\ ReadMeansShown

-----------------------------------------------------------------------------
LEMMA BoundsType ==
  /\ MaxNotices \in Nat /\ MaxRevision \in Nat \ {0} /\ MaxTime \in Nat
  /\ 1 \in 1 .. MaxRevision
BY NoticesAssumption

LEMMA RowFields ==
  ASSUME NEW row \in Row
  PROVE  /\ row.content \in Contents /\ row.starts \in Instants
         /\ row.ends \in Instants \cup {Never} /\ row.active \in BOOLEAN
         /\ row.revision \in 1 .. MaxRevision
         /\ row = [content |-> row.content, starts |-> row.starts, ends |-> row.ends,
                   active |-> row.active, revision |-> row.revision]
BY DEF Row

LEMMA VersionType ==
  ASSUME NEW n \in Ids, notices[n] \in Row
  PROVE  VersionOf(n) \in Version
BY DEF VersionOf, Version, Row

\* What a request may carry, by its operation.
LEMMA RequestFields ==
  ASSUME NEW q \in Request \cup Confirmation
  PROVE  /\ q.notice \in Ids
         /\ q.op \in {"edit", "active", "delete", "read"}
         /\ q.op = "read" => q \in Confirmation /\ q.user \in Users /\ q.revision \in 1 .. MaxRevision
         /\ q.op # "read" => q \in Request /\ q.row \in Row
BY DEF Request, Confirmation

-----------------------------------------------------------------------------
LEMMA InitInv == Init => NoticesInv
<1> SUFFICES ASSUME Init PROVE NoticesInv
  OBVIOUS
<1> USE BoundsType
<1>1. TypeOK
  BY DEF Init, TypeOK, Ids
<1>2. LockedOnce /\ ReadsHold /\ PagesFaithful /\ ReadMeansShown
  BY DEF Init, LockedOnce, ReadsHold, PagesFaithful, ReadMeansShown
<1>3. QED
  BY <1>1, <1>2 DEF NoticesInv

\* A request that has locked its row comes in; the tables stay.
LEMMA EnterStep ==
  ASSUME NoticesInv, NEW r \in Requests, NEW q \in Request \cup Confirmation,
         Lockable(q.notice), ReadHolds(q), Enter(r, q),
         UNCHANGED <<notices, created, receipts, department, now, shown>>
  PROVE  NoticesInv'
<1>1. inflight' = [s \in DOMAIN inflight \cup {r} |-> IF s = r THEN q ELSE inflight[s]]
  BY DEF Enter
<1>2. TypeOK'
  BY <1>1 DEF NoticesInv, TypeOK
<1>3. LockedOnce'
  BY <1>1 DEF NoticesInv, LockedOnce, Lockable
<1>4. ReadsHold'
  <2>1. ASSUME NEW x, ReadHolds(x) PROVE ReadHolds(x)'
    BY <2>1 DEF ReadHolds, VersionOf
  <2>2. QED
    BY <1>1, <2>1 DEF NoticesInv, ReadsHold
<1>5. PagesFaithful' /\ ReadMeansShown'
  BY DEF NoticesInv, PagesFaithful, Faithful, ReadMeansShown, VersionOf
<1>6. QED
  BY <1>2, <1>3, <1>4, <1>5 DEF NoticesInv

LEMMA BeginReadStep ==
  ASSUME NoticesInv, NEW r \in Requests, NEW u \in Users, BeginRead(r, u)
  PROVE  NoticesInv'
<1>1. PICK v \in shown[u] :
        /\ Lockable(v.notice)
        /\ Readable(u, notices[v.notice])
        /\ notices[v.notice].revision = v.revision
        /\ Enter(r, [op |-> "read", notice |-> v.notice, user |-> u, revision |-> v.revision])
        /\ UNCHANGED <<notices, created, receipts, department, now, shown>>
  BY DEF BeginRead
<1> DEFINE q == [op |-> "read", notice |-> v.notice, user |-> u, revision |-> v.revision]
<1>2. v \in Version
  BY DEF NoticesInv, TypeOK
<1>3. q \in Request \cup Confirmation
  BY <1>2 DEF Version, Confirmation
<1>4. v.notice \in DOMAIN notices /\ v = VersionOf(v.notice)
  BY <1>1 DEF Lockable, NoticesInv, PagesFaithful, Faithful
<1>5. ReadHolds(q)
  BY <1>1, <1>4 DEF ReadHolds
<1>6. QED
  BY <1>1, <1>3, <1>5, EnterStep

LEMMA EditedType ==
  ASSUME NEW row \in Row, row.revision < MaxRevision, NEW c \in Contents,
         NEW ends \in Instants \cup {Never}
  PROVE  Edited(row, c, ends) \in Row
<1> DEFINE revision == IF Changed(row, c, ends) THEN row.revision + 1 ELSE row.revision
<1>1. row.revision + 1 \in 1 .. MaxRevision
  BY RowFields, BoundsType
<1>2. revision \in 1 .. MaxRevision
  BY <1>1, RowFields
<1>3. Edited(row, c, ends)
        = [row EXCEPT !.content = c, !.ends = ends, !.revision = revision]
  BY DEF Edited
<1> HIDE DEF revision
<1>4. QED
  BY <1>2, <1>3 DEF Row

LEMMA BeginEditStep ==
  ASSUME NoticesInv, NEW r \in Requests, NEW n \in Ids, NEW c \in Contents,
         NEW ends \in Instants \cup {Never}, BeginEdit(r, n, c, ends)
  PROVE  NoticesInv'
<1> DEFINE q == [op |-> "edit", notice |-> n, row |-> Edited(notices[n], c, ends)]
<1>1. n \in DOMAIN notices /\ notices[n] \in Row
  BY DEF BeginEdit, Lockable, NoticesInv, TypeOK
<1>2. q \in Request
  <2>1. q.row \in Row
    BY <1>1, EditedType DEF BeginEdit
  <2>2. QED
    BY <2>1 DEF Request
<1>3. ReadHolds(q)
  BY <1>1 DEF ReadHolds, Edited, Changed, Row
<1>4. QED
  BY <1>2, <1>3, EnterStep DEF BeginEdit

LEMMA BeginActiveStep ==
  ASSUME NoticesInv, NEW r \in Requests, NEW n \in Ids, NEW active \in BOOLEAN,
         BeginActive(r, n, active)
  PROVE  NoticesInv'
<1> DEFINE q == [op |-> "active", notice |-> n, row |-> [notices[n] EXCEPT !.active = active]]
<1>1. n \in DOMAIN notices /\ notices[n] \in Row
  BY DEF BeginActive, Lockable, NoticesInv, TypeOK
<1>2. q \in Request
  BY <1>1 DEF Request, Row
<1>3. ReadHolds(q)
  BY <1>1 DEF ReadHolds
<1>4. QED
  BY <1>2, <1>3, EnterStep DEF BeginActive

LEMMA BeginDeleteStep ==
  ASSUME NoticesInv, NEW r \in Requests, NEW n \in Ids, BeginDelete(r, n)
  PROVE  NoticesInv'
<1> DEFINE q == [op |-> "delete", notice |-> n, row |-> notices[n]]
<1>1. n \in DOMAIN notices /\ notices[n] \in Row
  BY DEF BeginDelete, Lockable, NoticesInv, TypeOK
<1>2. q \in Request
  BY <1>1 DEF Request
<1>3. ReadHolds(q)
  BY <1>1 DEF ReadHolds
<1>4. QED
  BY <1>2, <1>3, EnterStep DEF BeginDelete

-----------------------------------------------------------------------------
(* Steps that leave the notices alone. *)

LEMMA ListStep ==
  ASSUME NoticesInv, NEW u \in Users, List(u)
  PROVE  NoticesInv'
<1> DEFINE new == {VersionOf(n) : n \in {m \in DOMAIN notices : Listed(u, m)}}
<1>1. /\ shown' = [shown EXCEPT ![u] = @ \cup new]
      /\ UNCHANGED <<notices, created, receipts, department, now, inflight>>
  BY DEF List
<1>2. DOMAIN notices \subseteq Ids
  BY BoundsType DEF NoticesInv, TypeOK, Ids
<1>3. \A v \in new : v \in Version /\ Faithful(v)
  <2> SUFFICES ASSUME NEW n \in DOMAIN notices PROVE VersionOf(n) \in Version /\ Faithful(VersionOf(n))
    OBVIOUS
  <2>1. notices[n] \in Row /\ n \in Ids /\ n \in 1 .. created
    BY <1>2 DEF NoticesInv, TypeOK
  <2>2. VersionOf(n) \in Version
    BY <2>1, VersionType
  <2>3. VersionOf(n).notice = n /\ VersionOf(n).revision = notices[n].revision
    BY DEF VersionOf
  <2>4. notices[n].revision <= notices[n].revision
    BY <2>1, RowFields, BoundsType
  <2>5. QED
    BY <2>1, <2>2, <2>3, <2>4 DEF Faithful
<1> HIDE DEF new
<1>4. shown \in [Users -> SUBSET Version]
  BY DEF NoticesInv, TypeOK
<1>5. \A x \in Users : shown[x] \subseteq shown'[x]
  BY <1>1, <1>4
<1>6. TypeOK'
  BY <1>1, <1>3, <1>4 DEF NoticesInv, TypeOK
<1>7. LockedOnce'
  BY <1>1 DEF NoticesInv, LockedOnce
<1>8. ReadsHold'
  <2>1. ASSUME NEW x \in Request \cup Confirmation, ReadHolds(x) PROVE ReadHolds(x)'
    BY <1>1, <1>5, <2>1, RequestFields DEF ReadHolds, VersionOf
  <2>2. QED
    BY <1>1, <2>1 DEF NoticesInv, ReadsHold, TypeOK
<1>9. PagesFaithful'
  <2>1. ASSUME NEW v, Faithful(v) PROVE Faithful(v)'
    BY <1>1, <2>1 DEF Faithful, VersionOf
  <2>2. QED
    BY <1>1, <1>3, <1>4, <2>1 DEF NoticesInv, PagesFaithful
<1>10. ReadMeansShown'
  BY <1>1, <1>5 DEF NoticesInv, ReadMeansShown, VersionOf
<1>11. QED
  BY <1>6, <1>7, <1>8, <1>9, <1>10 DEF NoticesInv

LEMMA AbortStep ==
  ASSUME NoticesInv, NEW r \in Requests, Abort(r)
  PROVE  NoticesInv'
<1>1. /\ inflight' = [s \in DOMAIN inflight \ {r} |-> inflight[s]]
      /\ UNCHANGED <<notices, created, receipts, department, now, shown>>
  BY DEF Abort, Finish
<1>2. TypeOK'
  BY <1>1 DEF NoticesInv, TypeOK
<1>3. LockedOnce'
  BY <1>1 DEF NoticesInv, LockedOnce
<1>4. ReadsHold'
  BY <1>1 DEF NoticesInv, ReadsHold, ReadHolds, VersionOf
<1>5. PagesFaithful' /\ ReadMeansShown'
  BY <1>1 DEF NoticesInv, PagesFaithful, Faithful, ReadMeansShown, VersionOf
<1>6. QED
  BY <1>2, <1>3, <1>4, <1>5 DEF NoticesInv

LEMMA CommitReadStep ==
  ASSUME NoticesInv, NEW r \in Requests, CommitRead(r)
  PROVE  NoticesInv'
<1> DEFINE u == inflight[r].user
           n == inflight[r].notice
           revision == inflight[r].revision
<1>1. /\ receipts' = [receipts EXCEPT ![u][n] = IF @ < revision THEN revision ELSE @]
      /\ inflight' = [s \in DOMAIN inflight \ {r} |-> inflight[s]]
      /\ UNCHANGED <<notices, created, department, now, shown>>
  BY DEF CommitRead, Finish
<1>2. r \in DOMAIN inflight /\ inflight[r].op = "read"
  BY DEF CommitRead, Serving
<1>3. u \in Users /\ n \in Ids /\ revision \in 1 .. MaxRevision
  BY <1>2, RequestFields DEF NoticesInv, TypeOK
<1>4. n \in DOMAIN notices /\ revision = notices[n].revision /\ VersionOf(n) \in shown[u]
  BY <1>2 DEF NoticesInv, ReadsHold, ReadHolds
<1> HIDE DEF u, n, revision
<1>5. receipts \in [Users -> [Ids -> 0 .. MaxRevision]]
  BY DEF NoticesInv, TypeOK
<1>6. receipts' \in [Users -> [Ids -> 0 .. MaxRevision]]
  BY <1>1, <1>3, <1>5, BoundsType
<1>7. \A x \in Users, m \in Ids :
        receipts'[x][m] = receipts[x][m] \/ (x = u /\ m = n /\ receipts'[x][m] = revision)
  BY <1>1, <1>3, <1>5
<1>8. TypeOK'
  <2>1. \A x \in Users, m \in Ids : receipts'[x][m] > 0 =>
          m \in DOMAIN notices /\ receipts'[x][m] <= notices[m].revision
    BY <1>3, <1>4, <1>7, BoundsType DEF NoticesInv, TypeOK
  <2>2. QED
    BY <1>1, <1>6, <2>1 DEF NoticesInv, TypeOK
<1>9. LockedOnce'
  BY <1>1 DEF NoticesInv, LockedOnce
<1>10. ReadsHold'
  BY <1>1 DEF NoticesInv, ReadsHold, ReadHolds, VersionOf
<1>11. PagesFaithful'
  BY <1>1 DEF NoticesInv, PagesFaithful, Faithful, VersionOf
<1>12. ReadMeansShown'
  <2>1. DOMAIN notices \subseteq Ids
    BY BoundsType DEF NoticesInv, TypeOK, Ids
  <2>2. QED
    BY <1>1, <1>4, <1>7, <2>1 DEF NoticesInv, ReadMeansShown, VersionOf
<1>13. QED
  BY <1>8, <1>9, <1>10, <1>11, <1>12 DEF NoticesInv
-----------------------------------------------------------------------------
(* Steps that write notices. *)

LEMMA CreateStep ==
  ASSUME NoticesInv, NEW c \in Contents, NEW starts \in Instants,
         NEW ends \in Instants \cup {Never}, Create(c, starts, ends)
  PROVE  NoticesInv'
<1> DEFINE k == created + 1
           row == [content |-> c, starts |-> starts, ends |-> ends, active |-> TRUE, revision |-> 1]
<1>1. /\ created < MaxNotices
      /\ created' = k
      /\ notices' = [n \in DOMAIN notices \cup {k} |-> IF n = k THEN row ELSE notices[n]]
      /\ UNCHANGED <<receipts, department, now, inflight, shown>>
  BY DEF Create
<1>2. row \in Row /\ row.revision = 1
  BY BoundsType DEF Row
<1>3. /\ created \in Nat /\ k \in 1 .. MaxNotices /\ k \notin 1 .. created
      /\ 1 .. created \subseteq 1 .. k /\ 1 .. created \subseteq Ids
  BY <1>1, BoundsType DEF NoticesInv, TypeOK, Ids
<1>4. k \notin DOMAIN notices /\ k \in Ids
  BY <1>3 DEF NoticesInv, TypeOK, Ids
<1> HIDE DEF row, k
<1>5. /\ DOMAIN notices' = DOMAIN notices \cup {k}
      /\ notices'[k] = row
      /\ \A n \in DOMAIN notices : notices'[n] = notices[n]
  BY <1>1, <1>4
<1>6. TypeOK'
  <2>1. \A u \in Users, n \in Ids :
          receipts[u][n] > 0 => n \in DOMAIN notices' /\ receipts[u][n] <= notices'[n].revision
    BY <1>5 DEF NoticesInv, TypeOK
  <2>2. created' \in 0 .. MaxNotices /\ DOMAIN notices' \subseteq 1 .. created'
    BY <1>1, <1>3, <1>5, BoundsType DEF NoticesInv, TypeOK
  <2>3. \A n \in DOMAIN notices' : notices'[n] \in Row
    BY <1>2, <1>5 DEF NoticesInv, TypeOK
  <2>4. QED
    BY <1>1, <2>1, <2>2, <2>3 DEF NoticesInv, TypeOK
<1>7. LockedOnce'
  BY <1>1 DEF NoticesInv, LockedOnce
<1>8. ReadsHold'
  <2>1. ASSUME NEW x, ReadHolds(x) PROVE ReadHolds(x)'
    BY <1>1, <1>5, <2>1 DEF ReadHolds, VersionOf
  <2>2. QED
    BY <1>1, <2>1 DEF NoticesInv, ReadsHold
<1>9. PagesFaithful'
  <2>1. ASSUME NEW v, Faithful(v) PROVE Faithful(v)'
    <3>1. v.notice \in 1 .. created /\ v.notice # k
      BY <1>3, <2>1 DEF Faithful
    <3>2. v.notice \in 1 .. created'
      BY <1>1, <1>3, <3>1
    <3>3. QED
      BY <1>5, <2>1, <3>1, <3>2 DEF Faithful, VersionOf
  <2>2. QED
    BY <1>1, <2>1 DEF NoticesInv, PagesFaithful
<1>10. ReadMeansShown'
  <2>1. \A u \in Users : receipts[u][k] = 0
    BY <1>4, BoundsType DEF NoticesInv, TypeOK
  <2>2. QED
    BY <1>1, <1>2, <1>5, <2>1 DEF NoticesInv, ReadMeansShown, VersionOf
<1>11. QED
  BY <1>6, <1>7, <1>8, <1>9, <1>10 DEF NoticesInv

\* The row that is written is the old one in its place, or one with the next
\* revision, or one with another activity.
LEMMA WrittenRow ==
  ASSUME NoticesInv, NEW r \in Requests, Serving(r, "edit") \/ Serving(r, "active"),
         NEW n, n = inflight[r].notice
  PROVE  /\ n \in DOMAIN notices /\ n \in Ids
         /\ Written(r) \in Row
         /\ \/ Written(r).revision = notices[n].revision + 1
            \/ /\ Written(r).revision = notices[n].revision
               /\ Written(r).content = notices[n].content
               /\ Written(r).ends = notices[n].ends
<1> DEFINE q == inflight[r]
<1>1. q \in Request \cup Confirmation /\ ReadHolds(q) /\ q.op \in {"edit", "active"}
  BY DEF NoticesInv, TypeOK, ReadsHold, Serving
<1>2. q.row \in Row /\ n \in Ids /\ n \in DOMAIN notices /\ notices[n] \in Row
  BY <1>1, RequestFields DEF ReadHolds, NoticesInv, TypeOK
<1>3. q.op = "edit" =>
        \/ q.row.revision = notices[n].revision + 1
        \/ /\ q.row.revision = notices[n].revision
           /\ q.row.content = notices[n].content
           /\ q.row.ends = notices[n].ends
  BY <1>1 DEF ReadHolds
<1>4. Written(r) = IF q.op = "active"
                   THEN [notices[n] EXCEPT !.active = q.row.active]
                   ELSE [notices[n] EXCEPT !.content = q.row.content, !.ends = q.row.ends,
                                           !.revision = q.row.revision]
  BY DEF Written
<1> HIDE DEF q
<1>5. Written(r) \in Row
  <2>1. CASE q.op = "active"
    BY <1>2, <1>4, <2>1 DEF Row
  <2>2. CASE q.op # "active"
    BY <1>2, <1>4, <2>2 DEF Row
  <2>3. QED
    BY <2>1, <2>2
<1>6. CASE q.op = "active"
  BY <1>2, <1>4, <1>5, <1>6 DEF Row
<1>7. CASE q.op = "edit"
  BY <1>2, <1>3, <1>4, <1>5, <1>7 DEF Row
<1>8. QED
  BY <1>1, <1>6, <1>7

LEMMA CommitWriteStep ==
  ASSUME NoticesInv, NEW r \in Requests, CommitWrite(r)
  PROVE  NoticesInv'
<1>0. PICK n, row : n = inflight[r].notice /\ row = Written(r)
  OBVIOUS
<1>1. /\ notices' = [m \in DOMAIN notices |-> IF m = n THEN row ELSE notices[m]]
      /\ inflight' = [s \in DOMAIN inflight \ {r} |-> inflight[s]]
      /\ UNCHANGED <<created, receipts, department, now, shown>>
  BY <1>0 DEF CommitWrite, Finish
<1>2. r \in DOMAIN inflight
  BY DEF CommitWrite, Serving
<1>3. /\ n \in DOMAIN notices /\ n \in Ids /\ row \in Row
      /\ \/ row.revision = notices[n].revision + 1
         \/ /\ row.revision = notices[n].revision
            /\ row.content = notices[n].content
            /\ row.ends = notices[n].ends
  BY <1>0, WrittenRow DEF CommitWrite
<1>4. \A s \in DOMAIN inflight' : inflight'[s] = inflight[s] /\ inflight[s].notice # n
  BY <1>0, <1>1, <1>2 DEF NoticesInv, LockedOnce
<1>5. /\ DOMAIN notices' = DOMAIN notices
      /\ notices'[n] = row
      /\ \A m \in DOMAIN notices : m # n => notices'[m] = notices[m]
  BY <1>1, <1>3
<1>6. notices[n].revision \in Nat /\ row.revision \in Nat /\ row.revision >= notices[n].revision
  <2>1. notices[n].revision \in 1 .. MaxRevision /\ row.revision \in 1 .. MaxRevision
    BY <1>3, RowFields DEF NoticesInv, TypeOK
  <2>2. QED
    BY <1>3, <2>1, BoundsType
<1>7. TypeOK'
  <2>1. \A u \in Users, m \in Ids :
          receipts[u][m] > 0 => m \in DOMAIN notices' /\ receipts[u][m] <= notices'[m].revision
    <3> SUFFICES ASSUME NEW u \in Users, NEW m \in Ids, receipts[u][m] > 0
                 PROVE  m \in DOMAIN notices' /\ receipts[u][m] <= notices'[m].revision
      OBVIOUS
    <3>1. m \in DOMAIN notices /\ receipts[u][m] <= notices[m].revision
          /\ receipts[u][m] \in 0 .. MaxRevision
      BY DEF NoticesInv, TypeOK
    <3>2. CASE m = n
      BY <1>5, <1>6, <3>1, <3>2, BoundsType
    <3>3. CASE m # n
      BY <1>5, <3>1, <3>3
    <3>4. QED
      BY <3>2, <3>3
  <2>2. \A m \in DOMAIN notices' : notices'[m] \in Row
    BY <1>3, <1>5 DEF NoticesInv, TypeOK
  <2>3. QED
    BY <1>1, <1>5, <2>1, <2>2 DEF NoticesInv, TypeOK
<1>8. LockedOnce'
  BY <1>1 DEF NoticesInv, LockedOnce
<1>9. ReadsHold'
  <2>1. ASSUME NEW x, x.notice # n, ReadHolds(x) PROVE ReadHolds(x)'
    BY <1>1, <1>5, <2>1 DEF ReadHolds, VersionOf
  <2>2. QED
    BY <1>1, <1>4, <2>1 DEF NoticesInv, ReadsHold
<1>10. PagesFaithful'
  <2>1. ASSUME NEW v \in Version, Faithful(v) PROVE Faithful(v)'
    <3>1. CASE v.notice = n
      <4>1. v.revision <= notices[n].revision
            /\ (v.revision = notices[n].revision => v = VersionOf(n))
            /\ v.revision \in Nat /\ v.notice \in 1 .. created
        BY <1>3, <2>1, <3>1, BoundsType DEF Faithful, Version
      <4>2. v.revision <= row.revision
        BY <1>6, <4>1
      <4>3. ASSUME v.revision = row.revision PROVE v = VersionOf(n)'
        <5>1. row.revision = notices[n].revision
          BY <1>6, <4>1, <4>3
        <5>2. row.content = notices[n].content /\ row.ends = notices[n].ends
          BY <1>3, <1>6, <5>1
        <5>3. QED
          BY <1>5, <4>1, <4>3, <5>1, <5>2 DEF VersionOf
      <4>4. QED
        BY <1>1, <1>5, <3>1, <4>1, <4>2, <4>3 DEF Faithful
    <3>2. CASE v.notice # n
      BY <1>1, <1>5, <2>1, <3>2 DEF Faithful, VersionOf
    <3>3. QED
      BY <3>1, <3>2
  <2>2. QED
    BY <1>1, <2>1 DEF NoticesInv, PagesFaithful, TypeOK
<1>11. ReadMeansShown'
  <2> SUFFICES ASSUME NEW m \in DOMAIN notices, NEW u \in Users,
                      receipts[u][m] = notices'[m].revision
               PROVE  VersionOf(m)' \in shown[u]
    BY <1>1, <1>5 DEF ReadMeansShown
  <2>1. m \in Ids
    BY BoundsType DEF NoticesInv, TypeOK, Ids
  <2>2. CASE m = n
    <3>1. receipts[u][n] \in 0 .. MaxRevision
      BY <2>1, <2>2 DEF NoticesInv, TypeOK
    <3>2. row.revision > 0
      BY <1>3, RowFields, BoundsType
    <3>3. receipts[u][n] = row.revision /\ receipts[u][n] <= notices[n].revision
      BY <1>3, <1>5, <2>2, <3>1, <3>2, BoundsType DEF NoticesInv, TypeOK
    <3>4. row.revision = notices[n].revision
      BY <1>6, <3>3
    <3>5. VersionOf(n)' = VersionOf(n)
      BY <1>3, <1>5, <1>6, <3>4 DEF VersionOf
    <3>6. QED
      BY <1>3, <2>2, <3>3, <3>4, <3>5 DEF NoticesInv, ReadMeansShown
  <2>3. CASE m # n
    BY <1>5, <2>3 DEF NoticesInv, ReadMeansShown, VersionOf
  <2>4. QED
    BY <2>2, <2>3
<1>12. QED
  BY <1>7, <1>8, <1>9, <1>10, <1>11 DEF NoticesInv

LEMMA CommitDeleteStep ==
  ASSUME NoticesInv, NEW r \in Requests, CommitDelete(r)
  PROVE  NoticesInv'
<1> DEFINE n == inflight[r].notice
<1>1. /\ notices' = [m \in DOMAIN notices \ {n} |-> notices[m]]
      /\ receipts' = [u \in Users |-> [receipts[u] EXCEPT ![n] = 0]]
      /\ inflight' = [s \in DOMAIN inflight \ {r} |-> inflight[s]]
      /\ UNCHANGED <<created, department, now, shown>>
  BY DEF CommitDelete, Finish, WithoutReceipts
<1>2. r \in DOMAIN inflight
  BY DEF CommitDelete, Serving
<1>3. n \in Ids
  BY <1>2, RequestFields DEF NoticesInv, TypeOK
<1>4. \A s \in DOMAIN inflight' : inflight'[s] = inflight[s] /\ inflight[s].notice # n
  BY <1>1, <1>2 DEF NoticesInv, LockedOnce
<1> HIDE DEF n
<1>5. /\ DOMAIN notices' = DOMAIN notices \ {n}
      /\ \A m \in DOMAIN notices' : notices'[m] = notices[m] /\ m # n
  BY <1>1
<1>6. /\ receipts' \in [Users -> [Ids -> 0 .. MaxRevision]]
      /\ \A u \in Users, m \in Ids : receipts'[u][m] = IF m = n THEN 0 ELSE receipts[u][m]
  BY <1>1, <1>3, BoundsType DEF NoticesInv, TypeOK
<1>7. TypeOK'
  <2>1. \A u \in Users, m \in Ids :
          receipts'[u][m] > 0 => m \in DOMAIN notices' /\ receipts'[u][m] <= notices'[m].revision
    BY <1>5, <1>6 DEF NoticesInv, TypeOK
  <2>2. QED
    BY <1>1, <1>5, <1>6, <2>1 DEF NoticesInv, TypeOK
<1>8. LockedOnce'
  BY <1>1 DEF NoticesInv, LockedOnce
<1>9. ReadsHold'
  <2>1. ASSUME NEW x, x.notice # n, ReadHolds(x) PROVE ReadHolds(x)'
    BY <1>1, <1>5, <2>1 DEF ReadHolds, VersionOf
  <2>2. QED
    BY <1>1, <1>4, <2>1 DEF NoticesInv, ReadsHold
<1>10. PagesFaithful'
  <2>1. ASSUME NEW v, Faithful(v) PROVE Faithful(v)'
    BY <1>1, <1>5, <2>1 DEF Faithful, VersionOf
  <2>2. QED
    BY <1>1, <2>1 DEF NoticesInv, PagesFaithful
<1>11. ReadMeansShown'
  <2>1. DOMAIN notices \subseteq Ids
    BY BoundsType DEF NoticesInv, TypeOK, Ids
  <2>2. QED
    BY <1>1, <1>5, <1>6, <2>1 DEF NoticesInv, ReadMeansShown, VersionOf
<1>12. QED
  BY <1>7, <1>8, <1>9, <1>10, <1>11 DEF NoticesInv

\* Steps of the readers' surroundings.
LEMMA OtherStep ==
  ASSUME NoticesInv, UNCHANGED <<notices, created, receipts, inflight, shown>>,
         department' \in [Users -> Sectors \cup {NoSector}], now' \in 0 .. MaxTime
  PROVE  NoticesInv'
<1>1. TypeOK' /\ LockedOnce'
  BY DEF NoticesInv, TypeOK, LockedOnce
<1>2. ReadsHold' /\ PagesFaithful' /\ ReadMeansShown'
  BY DEF NoticesInv, ReadsHold, ReadHolds, PagesFaithful, Faithful, ReadMeansShown, VersionOf
<1>3. QED
  BY <1>1, <1>2 DEF NoticesInv

-----------------------------------------------------------------------------
LEMMA NextStep == NoticesInv /\ [Next]_vars => NoticesInv'
<1> SUFFICES ASSUME NoticesInv, [Next]_vars PROVE NoticesInv'
  OBVIOUS
<1>1. ASSUME NEW u \in Users, List(u) PROVE NoticesInv'
  BY <1>1, ListStep
<1>2. ASSUME NEW r \in Requests, NEW u \in Users, BeginRead(r, u) PROVE NoticesInv'
  BY <1>2, BeginReadStep
<1>3. ASSUME NEW c \in Contents, NEW starts \in Instants, NEW ends \in Instants \cup {Never},
             Create(c, starts, ends)
      PROVE  NoticesInv'
  BY <1>3, CreateStep
<1>4. ASSUME NEW r \in Requests, NEW n \in Ids, NEW c \in Contents,
             NEW ends \in Instants \cup {Never}, BeginEdit(r, n, c, ends)
      PROVE  NoticesInv'
  BY <1>4, BeginEditStep
<1>5. ASSUME NEW r \in Requests, NEW n \in Ids, NEW active \in BOOLEAN, BeginActive(r, n, active)
      PROVE  NoticesInv'
  BY <1>5, BeginActiveStep
<1>6. ASSUME NEW r \in Requests, NEW n \in Ids, BeginDelete(r, n) PROVE NoticesInv'
  BY <1>6, BeginDeleteStep
<1>7. ASSUME NEW r \in Requests, CommitRead(r) PROVE NoticesInv'
  BY <1>7, CommitReadStep
<1>8. ASSUME NEW r \in Requests, CommitWrite(r) PROVE NoticesInv'
  BY <1>8, CommitWriteStep
<1>9. ASSUME NEW r \in Requests, CommitDelete(r) PROVE NoticesInv'
  BY <1>9, CommitDeleteStep
<1>10. ASSUME NEW r \in Requests, Abort(r) PROVE NoticesInv'
  BY <1>10, AbortStep
<1>11. ASSUME NEW u \in Users, NEW s \in Sectors \cup {NoSector}, Move(u, s) PROVE NoticesInv'
  <2>1. department' \in [Users -> Sectors \cup {NoSector}]
    BY <1>11 DEF Move, NoticesInv, TypeOK
  <2>2. now' \in 0 .. MaxTime
    BY <1>11 DEF Move, NoticesInv, TypeOK
  <2>3. QED
    BY <1>11, <2>1, <2>2, OtherStep DEF Move
<1>12. ASSUME Tick PROVE NoticesInv'
  <2>1. department' \in [Users -> Sectors \cup {NoSector}]
    BY <1>12 DEF Tick, NoticesInv, TypeOK
  <2>2. now' \in 0 .. MaxTime
    BY <1>12, BoundsType DEF Tick, NoticesInv, TypeOK
  <2>3. QED
    BY <1>12, <2>1, <2>2, OtherStep DEF Tick
<1>13. ASSUME UNCHANGED vars PROVE NoticesInv'
  <2>1. /\ UNCHANGED <<notices, created, receipts, inflight, shown>>
        /\ department' = department /\ now' = now
    BY <1>13 DEF vars
  <2>2. department \in [Users -> Sectors \cup {NoSector}] /\ now \in 0 .. MaxTime
    BY DEF NoticesInv, TypeOK
  <2>3. QED
    BY <2>1, <2>2, OtherStep
<1>14. QED
  BY <1>1, <1>2, <1>3, <1>4, <1>5, <1>6, <1>7, <1>8, <1>9, <1>10, <1>11, <1>12, <1>13 DEF Next

\* The row lock and the revision keep the tables, the requests and the pages in
\* step, whatever requests overlap.
THEOREM NoticesInvariance == Spec => []NoticesInv
<1>1. Init => NoticesInv
  BY InitInv
<1>2. NoticesInv /\ [Next]_vars => NoticesInv'
  BY NextStep
<1>3. QED
  BY <1>1, <1>2, PTL DEF Spec

\* Receipts belong to notices that are there and never run ahead of them.
THEOREM NoticeTypes == Spec => []TypeOK
<1>1. NoticesInv => TypeOK
  BY DEF NoticesInv
<1>2. QED
  BY <1>1, NoticesInvariance, PTL

\* mark_notice_read never counts a reader for a text his page has not shown.
THEOREM ReceiptsAreHonest == Spec => []ReadMeansShown
<1>1. NoticesInv => ReadMeansShown
  BY DEF NoticesInv
<1>2. QED
  BY <1>1, NoticesInvariance, PTL

\* What the list offers passes the conditions of mark_notice_read.
THEOREM ListedCanBeConfirmed == Spec => []ListedIsConfirmable
<1>1. TypeOK => ListedIsConfirmable
  <2> SUFFICES ASSUME TypeOK, NEW n \in DOMAIN notices, NEW u \in Users, Listed(u, n)
               PROVE  Readable(u, notices[n])
    BY DEF ListedIsConfirmable
  <2>1. notices[n] \in Row
    BY DEF TypeOK
  <2>2. notices[n].ends \in Nat /\ now \in Nat /\ notices[n].starts \in Nat
    BY <2>1, BoundsType DEF TypeOK, Row, Instants, Never
  <2>3. QED
    BY <2>2 DEF Listed, Readable, Running
<1>2. QED
  BY <1>1, NoticeTypes, PTL
=============================================================================
