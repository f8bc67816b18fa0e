--------------------------- MODULE Accounts_proofs ---------------------------
(***************************************************************************)
(* Proofs about Accounts for any sets of accounts, tokens and requests,    *)
(* and any interleaving.  A change in time raises the session_version of   *)
(* its account past every version so far; an overtaken one makes ambiguous *)
(* what it writes over; all other tokens that fell behind stay behind.     *)
(* From that invariant follow types, the end of sessions, the second       *)
(* factor and the finality of logout; then, that somebody can administer   *)
(* while requests that may take an administrator away come one at a time.  *)
(* Last, the startup that created the first administrator (StartupLock).   *)
(***************************************************************************)
EXTENDS Accounts, StartupLock, TLAPS

-----------------------------------------------------------------------------
(* Rows of the users table. *)

LEMMA AccountFields ==
  ASSUME NEW row,
         row = [f \in Columns |-> row[f]],
         row.state \in {"absent", "present", "gone"}, row.role \in Roles,
         row.is_active \in BOOLEAN, row.email_verified \in BOOLEAN,
         row.session_version \in 1 .. MaxVersion
  PROVE  row \in Account
<1>1. row = [state |-> row.state, role |-> row.role, is_active |-> row.is_active,
             email_verified |-> row.email_verified,
             session_version |-> row.session_version]
  BY DEF Columns
<1>2. QED
  BY <1>1 DEF Account

\* A row of which some columns are replaced by another row's is a row.
LEMMA MergedAccount ==
  ASSUME NEW new \in Account, NEW old \in Account, NEW columns
  PROVE  [f \in Columns |-> IF f \in columns THEN new[f] ELSE old[f]] \in Account
<1> DEFINE row == [f \in Columns |-> IF f \in columns THEN new[f] ELSE old[f]]
<1>1. /\ row.state \in {"absent", "present", "gone"} /\ row.role \in Roles
      /\ row.session_version \in 1 .. MaxVersion
  BY DEF Account, Columns
<1>2. row.is_active \in BOOLEAN
  BY DEF Account, Columns
<1>3. row.email_verified \in BOOLEAN
  BY DEF Account, Columns
<1>4. row = [f \in Columns |-> row[f]]
  BY DEF Columns
<1> HIDE DEF row
<1>5. row \in Account
  BY <1>1, <1>2, <1>3, <1>4, AccountFields
<1>6. QED
  BY <1>5 DEF row

LEMMA UnregisteredType == Unregistered \in Account
<1>1. 1 \in 1 .. MaxVersion
  BY AccountsAssumption
<1>2. QED
  BY <1>1 DEF Unregistered, Account, Roles

LEMMA KeptType ==
  ASSUME NEW row \in Account, NEW columns
  PROVE  Kept(row, columns) \in Account
BY MergedAccount, UnregisteredType DEF Kept

-----------------------------------------------------------------------------
(* What a request brings along. *)

LEMMA AskedVerify ==
  ASSUME NEW u \in Accounts, NEW q, q = Asked("verify", u, u)
  PROVE  q \in Request /\ q.op = "verify" /\ q.target = u /\ q.dirty = {}
<1>1. Unregistered \in Account /\ 1 \in 1 .. MaxVersion
  BY UnregisteredType, AccountsAssumption
<1>2. QED
  BY <1>1 DEF Asked, Request

\* The request makes the row of u new.
Proposes(q, u, new) ==
  /\ q.op = "change" /\ q.target = u
  /\ q.dirty = {f \in Columns : new[f] # users[u][f]}
  /\ q.row = Kept(new, q.dirty)
  /\ "session_version" \in q.dirty => q.found = users[u].session_version

LEMMA ChangeAsked ==
  ASSUME TypeOK, NEW r, NEW a \in Accounts, NEW u \in Accounts, NEW new \in Account,
         BeginChange(r, a, u, new)
  PROVE  \E q \in Request :
           /\ Enter(r, q) /\ Proposes(q, u, new)
           /\ UNCHANGED <<users, tokens, blocklist, challenges, history>>
<1> DEFINE dirty == {f \in Columns : new[f] # users[u][f]}
           row == Kept(new, dirty)
           found == Kept(users[u], dirty).session_version
           q == [Asked("change", a, u) EXCEPT !.row = row, !.dirty = dirty,
                                              !.found = found]
<1>1. row \in Account /\ Kept(users[u], dirty) \in Account /\ dirty \in SUBSET Columns
  BY KeptType DEF TypeOK
<1>2. /\ found \in 1 .. MaxVersion
      /\ "session_version" \in dirty => found = users[u].session_version
  <2>1. found \in 1 .. MaxVersion
    BY <1>1 DEF Account
  <2>2. QED
    BY <2>1 DEF Kept, Columns
<1>3. Enter(r, q) /\ UNCHANGED <<users, tokens, blocklist, challenges, history>>
  BY DEF BeginChange
<1>4. q = [Asked("change", a, u) EXCEPT !.row = row, !.dirty = dirty, !.found = found]
  OBVIOUS
<1> HIDE DEF q, found
<1>5. /\ q \in Request /\ q.op = "change" /\ q.target = u
      /\ q.row = row /\ q.dirty = dirty /\ q.found = found
  <2> HIDE DEF row, dirty
  <2>1. QED
    BY <1>1, <1>2, <1>4 DEF Asked, Request
<1>6. Proposes(q, u, new)
  BY <1>2, <1>5 DEF Proposes
<1>7. QED
  BY <1>3, <1>5, <1>6

-----------------------------------------------------------------------------
(* Steps that leave the accounts and the tokens alone: a request enters. *)

LEMMA EnterStep ==
  ASSUME SessionInv, NEW r \in Requests, NEW q \in Request, Enter(r, q),
         UNCHANGED <<users, tokens, blocklist, history>>,
         challenges' \subseteq challenges,
         ReadHolds(q)
  PROVE  SessionInv'
<1>1. inflight' = [x \in DOMAIN inflight \union {r} |->
                     IF x = r THEN q ELSE inflight[x]]
  BY DEF Enter
<1>2. TypeOK'
  BY <1>1 DEF SessionInv, TypeOK, Present, history
<1>3. TokensBehind' /\ EndedShut'
  BY DEF SessionInv, TokensBehind, EndedShut, Present, Ambiguous, history
<1>4. ReadsHold'
  <2>1. ASSUME NEW x, ReadHolds(x) PROVE ReadHolds(x)'
    BY <2>1 DEF ReadHolds, Present, history
  <2>2. QED
    BY <1>1, <2>1 DEF SessionInv, ReadsHold
<1>5. QED
  BY <1>2, <1>3, <1>4 DEF SessionInv

\* The operations' own reads.
LEMMA ChangeEnters ==
  ASSUME SessionInv, NEW r \in Requests, NEW a \in Accounts,
         NEW u \in Accounts, NEW new, Present(u), BeginChange(r, a, u, new),
         new.session_version \in 1 .. MaxVersion => new \in Account,
         new.session_version \in Nat \ {0},
         new.state = users[u].state,
         \/ new.session_version > users[u].session_version
         \/ [new EXCEPT !.email_verified = TRUE]
              = [users[u] EXCEPT !.email_verified = TRUE]
  PROVE  SessionInv'
<1>1. users[u] \in Account /\ new \in Account
  BY AccountsAssumption DEF SessionInv, TypeOK, BeginChange
<1>2. PICK q \in Request :
        /\ Enter(r, q) /\ Proposes(q, u, new)
        /\ UNCHANGED <<users, tokens, blocklist, challenges, history>>
  <2>1. TypeOK /\ new \in Account /\ BeginChange(r, a, u, new)
    BY <1>1 DEF SessionInv
  <2>2. QED
    BY <2>1, ChangeAsked
<1>3. "session_version" \in q.dirty => q.row.session_version = new.session_version
  BY <1>2 DEF Proposes, Kept, Columns
<1>4. "state" \notin q.dirty
  BY <1>2 DEF Proposes
<1>5. q.dirty \subseteq {"email_verified"} \/ "session_version" \in q.dirty
  <2>1. CASE new.session_version > users[u].session_version
    <3>1. users[u].session_version \in 1 .. MaxVersion /\ MaxVersion \in Nat
      BY <1>1, AccountsAssumption DEF Account
    <3>2. new.session_version # users[u].session_version
      BY <2>1, <3>1
    <3>3. QED
      BY <1>2, <3>2 DEF Proposes, Columns
  <2>2. CASE [new EXCEPT !.email_verified = TRUE]
               = [users[u] EXCEPT !.email_verified = TRUE]
    BY <1>1, <1>2, <2>2 DEF Proposes, Account, Columns
  <2>3. QED
    BY <2>1, <2>2
<1>6. "session_version" \in q.dirty => q.found < q.row.session_version
  <2>1. users[u].session_version \in Nat
    BY <1>1, AccountsAssumption DEF Account
  <2>2. CASE new.session_version > users[u].session_version
    BY <1>2, <1>3, <2>1, <2>2 DEF Proposes
  <2>3. CASE [new EXCEPT !.email_verified = TRUE]
               = [users[u] EXCEPT !.email_verified = TRUE]
    BY <1>1, <1>2, <2>3 DEF Proposes, Account
  <2>4. QED
    BY <2>2, <2>3
<1>7. ReadHolds(q)
  BY <1>2, <1>4, <1>5, <1>6 DEF Proposes, ReadHolds, Present
<1>8. challenges' \subseteq challenges
  BY <1>2
<1>9. QED
  BY <1>2, <1>7, <1>8, EnterStep

LEMMA BeginStep ==
  ASSUME SessionInv, NEW r \in Requests, NEW u \in Accounts,
         \/ BeginPassword(r, u) \/ BeginEmail(r, u) \/ BeginEmailVerification(r, u)
         \/ BeginLogin(r, u) \/ ConsumeCode(r, u)
  PROVE  SessionInv'
<1>1. /\ users[u] \in Account /\ MaxVersion \in Nat \ {0}
      /\ users[u].session_version \in Nat \ {0}
  BY AccountsAssumption DEF SessionInv, TypeOK, Account
<1>2. LoggedIn(u) => Present(u)
  BY AccountsAssumption DEF LoggedIn, Accepted
<1>3. CASE BeginPassword(r, u)
  <2> DEFINE new == [users[u] EXCEPT !.session_version = @ + 1]
  <2>1. /\ new.session_version > users[u].session_version
        /\ new.session_version \in Nat \ {0} /\ new.state = users[u].state
        /\ new.session_version \in 1 .. MaxVersion => new \in Account
    BY <1>1 DEF Account
  <2> HIDE DEF new
  <2>2. Present(u) /\ BeginChange(r, u, u, new)
    BY <1>3 DEF BeginPassword, new
  <2>3. QED
    BY <2>1, <2>2, ChangeEnters
<1>4. CASE BeginEmail(r, u)
  <2> DEFINE new == [users[u] EXCEPT !.email_verified = TRUE,
                                     !.session_version = @ + 1]
  <2>1. /\ new.session_version > users[u].session_version
        /\ new.session_version \in Nat \ {0} /\ new.state = users[u].state
        /\ new.session_version \in 1 .. MaxVersion => new \in Account
    <3>1. /\ new.session_version = users[u].session_version + 1
          /\ new.state = users[u].state
      BY <1>1 DEF Account
    <3>2. new.session_version \in 1 .. MaxVersion => new \in Account
      BY <1>1, <3>1 DEF Account
    <3> HIDE DEF new
    <3>3. QED
      BY <1>1, <3>1, <3>2
  <2> HIDE DEF new
  <2>2. Present(u) /\ BeginChange(r, u, u, new)
    BY <1>2, <1>4 DEF BeginEmail, new
  <2>3. QED
    BY <2>1, <2>2, ChangeEnters
<1>5. CASE BeginEmailVerification(r, u)
  <2> DEFINE new == [users[u] EXCEPT !.email_verified = TRUE]
  <2>1. /\ new.session_version \in Nat \ {0} /\ new.state = users[u].state
        /\ new \in Account
        /\ [new EXCEPT !.email_verified = TRUE]
             = [users[u] EXCEPT !.email_verified = TRUE]
    BY <1>1 DEF Account
  <2> HIDE DEF new
  <2>2. Present(u) /\ BeginChange(r, u, u, new)
    BY <1>2, <1>5 DEF BeginEmailVerification, new
  <2>3. QED
    BY <2>1, <2>2, ChangeEnters
<1>6. CASE BeginLogin(r, u)
  <2> DEFINE row == Kept(users[u], {"role", "session_version"})
  <2>1. /\ row \in Account /\ row.role = users[u].role
        /\ row.session_version = users[u].session_version
    BY <1>1, KeptType DEF Kept, Columns
  <2>2. PICK q : /\ q = [Asked("login", u, u) EXCEPT !.row = row]
                 /\ Enter(r, q)
                 /\ UNCHANGED <<users, tokens, blocklist, challenges, history>>
    BY <1>6 DEF BeginLogin
  <2> HIDE DEF row
  <2>3. q \in Request /\ q.op = "login" /\ q.target = u /\ q.row = row
    BY <2>1, <2>2, UnregisteredType, AccountsAssumption DEF Asked, Request
  <2>4. ReadHolds(q)
    BY <1>1, <1>6, <2>1, <2>3 DEF ReadHolds, BeginLogin, Present
  <2>5. challenges' \subseteq challenges
    BY <2>2
  <2>6. QED
    BY <2>2, <2>3, <2>4, <2>5, EnterStep
<1>7. CASE ConsumeCode(r, u)
  <2>1. Present(u)
    BY <1>7 DEF ConsumeCode, SessionInv, TypeOK
  <2>2. PICK q : /\ q = Asked("verify", u, u)
                 /\ Enter(r, q)
                 /\ UNCHANGED <<users, tokens, blocklist, history>>
                 /\ challenges' \subseteq challenges
    BY <1>7 DEF ConsumeCode
  <2>3. q \in Request /\ q.op = "verify" /\ q.target = u
    BY <2>2, AskedVerify
  <2>4. ReadHolds(q)
    BY <2>1, <2>3 DEF ReadHolds, Present
  <2>5. QED
    BY <2>2, <2>3, <2>4, EnterStep
<1>8. QED
  BY <1>3, <1>4, <1>5, <1>6, <1>7

LEMMA AdministerStep ==
  ASSUME SessionInv, NEW r \in Requests, NEW a \in Accounts,
         NEW u \in Accounts, Administer(r, a, u)
  PROVE  SessionInv'
<1>1. /\ users[u] \in Account /\ MaxVersion \in Nat \ {0}
      /\ users[u].session_version \in Nat \ {0}
  BY AccountsAssumption DEF SessionInv, TypeOK, Account
<1>2. ASSUME NEW role \in Roles, BeginRoleChange(r, a, u, role) PROVE SessionInv'
  <2> DEFINE new == RoleChanged(users[u], role)
  <2>1. /\ new.session_version > users[u].session_version
        /\ new.session_version \in Nat \ {0} /\ new.state = users[u].state
        /\ new.session_version \in 1 .. MaxVersion => new \in Account
    <3>1. /\ new.session_version = users[u].session_version + 1
          /\ new.state = users[u].state
      BY <1>1 DEF Account, RoleChanged
    <3>2. new.session_version \in 1 .. MaxVersion => new \in Account
      BY <1>1, <3>1 DEF Account, RoleChanged
    <3> HIDE DEF new
    <3>3. QED
      BY <1>1, <3>1, <3>2
  <2> HIDE DEF new
  <2>2. Present(u) /\ BeginChange(r, a, u, new)
    BY <1>2 DEF BeginRoleChange, new
  <2>3. QED
    BY <2>1, <2>2, ChangeEnters
<1>3. ASSUME NEW email \in BOOLEAN, NEW active \in BOOLEAN,
             BeginUpdate(r, a, u, email, active)
      PROVE  SessionInv'
  <2> DEFINE new == Updated(users[u], email, active)
             n == (IF email THEN 1 ELSE 0)
                    + (IF active # users[u].is_active THEN 1 ELSE 0)
  <2>1. n \in Nat \ {0}
    BY <1>3 DEF BeginUpdate
  <2>2. new = [users[u] EXCEPT !.email_verified = @ \/ email, !.is_active = active,
                               !.session_version = @ + (IF email THEN 1 ELSE 0)
                                 + (IF active # users[u].is_active THEN 1 ELSE 0)]
    BY DEF Updated
  <2>3. new.session_version = users[u].session_version + n
    BY <1>1, <2>2 DEF Account
  <2>4. /\ new.state = users[u].state
        /\ new.session_version \in 1 .. MaxVersion => new \in Account
    BY <1>1, <2>2 DEF Account
  <2> HIDE DEF new, n
  <2>5. /\ new.session_version > users[u].session_version
        /\ new.session_version \in Nat \ {0}
    BY <1>1, <2>1, <2>3
  <2>6. Present(u) /\ BeginChange(r, a, u, new)
    BY <1>3 DEF BeginUpdate, new
  <2>7. QED
    BY <2>4, <2>5, <2>6, ChangeEnters
<1>4. CASE BeginDelete(r, a, u)
  <2> DEFINE doomed == blocklist \intersect TokensOf(u)
  <2>1. /\ doomed \in SUBSET Tokens
        /\ \A t \in doomed : tokens[t].user = u
    BY DEF TokensOf
  <2>2. PICK q : /\ q = [Asked("delete", a, u) EXCEPT !.doomed = doomed]
                 /\ Enter(r, q)
                 /\ UNCHANGED <<users, tokens, blocklist, challenges, history>>
    BY <1>4 DEF BeginDelete
  <2> HIDE DEF doomed
  <2>3. q \in Request /\ q.op = "delete" /\ q.target = u /\ q.doomed = doomed
    BY <2>1, <2>2, UnregisteredType, AccountsAssumption DEF Asked, Request
  <2>4. ReadHolds(q)
    BY <1>4, <2>1, <2>3 DEF ReadHolds, BeginDelete, Present
  <2>5. challenges' \subseteq challenges
    BY <2>2
  <2>6. QED
    BY <2>2, <2>3, <2>4, <2>5, EnterStep
<1>5. QED
  BY <1>2, <1>3, <1>4 DEF Administer

-----------------------------------------------------------------------------
(* Steps that take a request out of flight and may issue a token. *)

\* The requests in flight afterwards were in flight before.
Fewer ==
  /\ DOMAIN inflight' \subseteq DOMAIN inflight
  /\ inflight' = [x \in DOMAIN inflight' |-> inflight[x]]

LEMMA FinishFewer ==
  ASSUME NEW r, Finish(r)
  PROVE  Fewer
BY DEF Finish, Restrict, Fewer

LEMMA SameFewer ==
  ASSUME SessionInv, UNCHANGED inflight
  PROVE  Fewer
BY DEF Fewer, SessionInv, TypeOK

LEMMA FewerRequests ==
  ASSUME SessionInv, Fewer
  PROVE  /\ DOMAIN inflight' \subseteq Requests
         /\ inflight' \in [DOMAIN inflight' -> Request]
         /\ \A x \in DOMAIN inflight' :
              /\ x \in DOMAIN inflight /\ inflight'[x] = inflight[x]
              /\ inflight[x] \in Request /\ ReadHolds(inflight[x])
BY DEF SessionInv, TypeOK, ReadsHold, Fewer

LEMMA MintStep ==
  ASSUME SessionInv, Fewer, NEW u \in Accounts, NEW version \in 1 .. MaxVersion,
         NEW mfa \in BOOLEAN, Mint(u, version, mfa),
         users[u].state # "absent",
         Present(u) /\ <<u, version>> \notin reused =>
           /\ version <= users[u].session_version
           /\ ~mfa /\ version = users[u].session_version => users[u].role \notin MfaRoles,
         UNCHANGED <<users, blocklist, challenges, history>>
  PROVE  SessionInv'
<1>1. PICK t \in Tokens :
        /\ tokens[t] = NoToken
        /\ tokens' = [tokens EXCEPT ![t] = [user |-> u, version |-> version,
                                            expired |-> FALSE, mfa |-> mfa]]
  BY DEF Mint
<1> DEFINE k == [user |-> u, version |-> version, expired |-> FALSE, mfa |-> mfa]
<1>2. k \in Token
  BY AccountsAssumption DEF Token
<1>3. /\ k.user = u /\ k.version = version /\ k.mfa = mfa /\ u # Nobody
      /\ tokens[t].user = Nobody
  BY <1>1, AccountsAssumption DEF NoToken
<1>4. tokens' = [tokens EXCEPT ![t] = k]
  BY <1>1
<1> HIDE DEF k
<1>5. /\ tokens \in [Tokens -> Token] /\ tokens'[t] = k
      /\ \A x \in Tokens : x # t => tokens'[x] = tokens[x]
  BY <1>4 DEF SessionInv, TypeOK
<1>6. /\ t \notin blocklist /\ t \notin ended
      /\ ended' = ended /\ reused' = reused
  BY <1>3, AccountsAssumption DEF SessionInv, TypeOK, EndedShut, history
<1>7. TypeOK'
  <2>1. tokens' \in [Tokens -> Token]
    BY <1>2, <1>4, <1>5
  <2>2. \A x \in blocklist' : /\ tokens'[x].user \in Accounts
                               /\ users'[tokens'[x].user].state = "present"
    BY <1>5, <1>6 DEF SessionInv, TypeOK, Present
  <2>3. challenges' \subseteq {v \in Accounts : users'[v].state = "present"}
    BY DEF SessionInv, TypeOK, Present
  <2>4. QED
    BY <1>6, <2>1, <2>2, <2>3, FewerRequests DEF SessionInv, TypeOK, Present
<1>8. TokensBehind'
  <2> SUFFICES ASSUME NEW x \in Tokens, tokens'[x].user # Nobody
               PROVE  /\ users[tokens'[x].user].state # "absent"
                      /\ /\ Present(tokens'[x].user)
                         /\ <<tokens'[x].user, tokens'[x].version>> \notin reused
                         => /\ tokens'[x].version
                                 <= users[tokens'[x].user].session_version
                            /\ /\ ~tokens'[x].expired /\ ~tokens'[x].mfa
                               /\ tokens'[x].version
                                    = users[tokens'[x].user].session_version
                               => users[tokens'[x].user].role \notin MfaRoles
    BY <1>6 DEF TokensBehind, Present, Ambiguous
  <2>1. CASE x = t
    BY <1>3, <1>5, <2>1
  <2>2. CASE x # t
    BY <1>5, <2>2 DEF SessionInv, TokensBehind, Ambiguous
  <2>3. QED
    BY <2>1, <2>2
<1>9. EndedShut'
  BY <1>5, <1>6 DEF SessionInv, TypeOK, EndedShut, Present, Ambiguous
<1>10. ReadsHold'
  <2> SUFFICES ASSUME NEW x \in DOMAIN inflight' PROVE ReadHolds(inflight[x])'
    BY DEF ReadsHold
  <2>1. inflight'[x] = inflight[x] /\ inflight[x] \in Request /\ ReadHolds(inflight[x])
    BY FewerRequests
  <2>2. inflight[x].op = "delete" => \A y \in inflight[x].doomed :
                                       tokens'[y].user = inflight[x].target
    BY <1>3, <1>5, <2>1, AccountsAssumption DEF ReadHolds, Request
  <2>3. QED
    BY <1>6, <2>1, <2>2 DEF ReadHolds, Present
<1>11. QED
  BY <1>7, <1>8, <1>9, <1>10 DEF SessionInv

\* Steps that leave the accounts and the tokens alone.
LEMMA QuietStep ==
  ASSUME SessionInv, Fewer, UNCHANGED <<users, tokens, blocklist, history>>,
         challenges' \subseteq {u \in Accounts : Present(u)}
  PROVE  SessionInv'
<1>1. TypeOK'
  BY FewerRequests DEF SessionInv, TypeOK, Present, history
<1>2. TokensBehind' /\ EndedShut'
  BY DEF SessionInv, TokensBehind, EndedShut, Present, Ambiguous, history
<1>3. ReadsHold'
  <2> SUFFICES ASSUME NEW x \in DOMAIN inflight' PROVE ReadHolds(inflight[x])'
    BY DEF ReadsHold
  <2>1. inflight'[x] = inflight[x] /\ ReadHolds(inflight[x])
    BY FewerRequests
  <2>2. QED
    BY <2>1 DEF ReadHolds, Present, history
<1>4. QED
  BY <1>1, <1>2, <1>3 DEF SessionInv

-----------------------------------------------------------------------------
(* Steps that write a row of the users table. *)

\* A present account keeps its version and role, or moves to a version that is
\* above all it had so far but the ambiguous ones; ended tokens fall behind it.
LEMMA RowStep ==
  ASSUME SessionInv, Fewer, NEW u \in Accounts, NEW new \in Account,
         users' = [users EXCEPT ![u] = new], UNCHANGED tokens,
         new.state # "absent",
         users[u].state # "absent" /\ new.state = "present" =>
           /\ Present(u)
           /\ \/ /\ new.session_version = users[u].session_version
                 /\ new.role = users[u].role
                 /\ ended' = ended
              \/ \A v \in 0 .. users[u].session_version :
                   v < new.session_version \/ <<u, v>> \in reused',
         blocklist' \subseteq blocklist,
         \A t \in blocklist : IF t \in blocklist'
                             THEN tokens[t].user = u => new.state = "present"
                             ELSE tokens[t].user = u /\ new.state # "present",
         challenges' \subseteq challenges,
         u \in challenges' => new.state = "present",
         ended \subseteq ended', ended' \subseteq ended \union TokensOf(u),
         reused \subseteq reused', reused' \subseteq Accounts \X (1 .. MaxVersion)
  PROVE  SessionInv'
<1>1. /\ users'[u] = new
      /\ \A v \in Accounts : v # u => users'[v] = users[v]
      /\ \A v \in Accounts : users[v] \in Account /\ users'[v] \in Account
  BY DEF SessionInv, TypeOK
<1>2. /\ tokens \in [Tokens -> Token]
      /\ \A t \in Tokens : /\ tokens[t].user \in Accounts \union {Nobody}
                          /\ tokens[t].version \in 0 .. MaxVersion
  BY DEF SessionInv, TypeOK, Token
<1>3. /\ MaxVersion \in Nat
      /\ \A v \in Accounts : /\ users[v].session_version \in Nat
                            /\ users'[v].session_version \in Nat
  BY <1>1, AccountsAssumption DEF Account
<1>4. \A v \in Nat :
        /\ users[u].state # "absent" /\ new.state = "present"
        /\ v <= users[u].session_version /\ <<u, v>> \notin reused'
        => \/ v < new.session_version
           \/ /\ new.session_version = users[u].session_version
              /\ new.role = users[u].role /\ ended' = ended
  BY <1>3
<1>5. TypeOK'
  <2>1. users' \in [Accounts -> Account] /\ ended' \subseteq Tokens
    BY DEF SessionInv, TypeOK, TokensOf
  <2>2. /\ blocklist' \subseteq Tokens
        /\ \A t \in blocklist' : /\ tokens[t].user \in Accounts
                                /\ users'[tokens[t].user].state = "present"
    BY <1>1 DEF SessionInv, TypeOK, Present
  <2>3. challenges' \subseteq {v \in Accounts : users'[v].state = "present"}
    BY <1>1 DEF SessionInv, TypeOK, Present
  <2>4. QED
    BY <1>2, <2>1, <2>2, <2>3, FewerRequests DEF TypeOK, Present
<1>6. TokensBehind'
  <2> SUFFICES ASSUME NEW t \in Tokens, tokens[t].user # Nobody
               PROVE  /\ users'[tokens[t].user].state # "absent"
                      /\ Present(tokens[t].user)' /\ ~Ambiguous(t)' =>
                           /\ tokens[t].version
                                <= users'[tokens[t].user].session_version
                           /\ /\ ~tokens[t].expired /\ ~tokens[t].mfa
                              /\ tokens[t].version
                                   = users'[tokens[t].user].session_version
                              => users'[tokens[t].user].role \notin MfaRoles
    BY DEF TokensBehind, Present
  <2>1. /\ tokens[t].user \in Accounts
        /\ users[tokens[t].user].state # "absent"
        /\ Present(tokens[t].user) /\ ~Ambiguous(t) =>
             /\ tokens[t].version <= users[tokens[t].user].session_version
             /\ /\ ~tokens[t].expired /\ ~tokens[t].mfa
                /\ tokens[t].version = users[tokens[t].user].session_version
                => users[tokens[t].user].role \notin MfaRoles
    BY <1>2 DEF SessionInv, TokensBehind
  <2>2. ~Ambiguous(t)' => /\ ~Ambiguous(t)
                         /\ <<tokens[t].user, tokens[t].version>> \notin reused'
    BY DEF Ambiguous
  <2>3. CASE tokens[t].user # u
    BY <1>1, <2>1, <2>2, <2>3 DEF Present
  <2>4. CASE tokens[t].user = u
    <3> SUFFICES ASSUME new.state = "present", ~Ambiguous(t)'
                 PROVE  /\ tokens[t].version <= new.session_version
                        /\ /\ ~tokens[t].expired /\ ~tokens[t].mfa
                           /\ tokens[t].version = new.session_version
                           => new.role \notin MfaRoles
      BY <1>1, <2>4 DEF Present
    <3>1. Present(u) /\ tokens[t].version \in Nat /\ new.session_version \in Nat
      BY <1>1, <1>2, <1>3, <2>1, <2>4
    <3>2. /\ tokens[t].version <= users[u].session_version
          /\ /\ ~tokens[t].expired /\ ~tokens[t].mfa
             /\ tokens[t].version = users[u].session_version
             => users[u].role \notin MfaRoles
      BY <2>1, <2>2, <2>4, <3>1
    <3>3. \/ tokens[t].version < new.session_version
          \/ /\ new.session_version = users[u].session_version
             /\ new.role = users[u].role
      BY <1>4, <2>1, <2>2, <2>4, <3>1, <3>2
    <3>4. QED
      BY <3>1, <3>2, <3>3
  <2>5. QED
    BY <2>3, <2>4
<1>7. EndedShut'
  <2> SUFFICES ASSUME NEW t \in ended'
               PROVE  /\ tokens[t].user # Nobody
                      /\ \/ tokens[t].expired
                         \/ t \in blocklist'
                         \/ users'[tokens[t].user].state # "present"
                         \/ Ambiguous(t)'
                         \/ tokens[t].version < users'[tokens[t].user].session_version
    BY DEF EndedShut, Present
  <2>1. Ambiguous(t) => Ambiguous(t)'
    BY DEF Ambiguous
  <2>2. CASE t \in ended
    <3>1. /\ tokens[t].user \in Accounts
          /\ \/ tokens[t].expired
             \/ t \in blocklist
             \/ users[tokens[t].user].state # "present"
             \/ Ambiguous(t)
             \/ tokens[t].version < users[tokens[t].user].session_version
          /\ t \in Tokens
      BY <1>2, <2>2 DEF SessionInv, TypeOK, EndedShut, Present
    <3>2. users[tokens[t].user].state # "absent" /\ tokens[t].version \in Nat
      BY <1>2, <1>3, <3>1, AccountsAssumption DEF SessionInv, TokensBehind
    <3>3. CASE tokens[t].user # u
      BY <1>1, <2>1, <3>1, <3>3, AccountsAssumption
    <3>4. CASE tokens[t].user = u
      <4>1. tokens[t].version < users[u].session_version /\ new.state = "present" =>
              tokens[t].version < new.session_version \/ Ambiguous(t)'
        BY <1>1, <1>3, <1>4, <3>2, <3>4 DEF Ambiguous
      <4>2. QED
        BY <1>1, <2>1, <3>1, <3>2, <3>4, <4>1, AccountsAssumption DEF Present
    <3>5. QED
      BY <3>3, <3>4
  <2>3. CASE t \notin ended
    <3>1. t \in Tokens /\ tokens[t].user = u
      BY <2>3 DEF TokensOf
    <3>2. u # Nobody /\ users[u].state # "absent" /\ tokens[t].version \in Nat
      BY <1>2, <1>3, <3>1, AccountsAssumption DEF SessionInv, TokensBehind
    <3>3. CASE new.state = "present" /\ ~Ambiguous(t)'
      <4>1. tokens[t].version <= users[u].session_version
        BY <2>1, <3>1, <3>2, <3>3 DEF SessionInv, TokensBehind
      <4>2. <<u, tokens[t].version>> \notin reused'
        BY <3>1, <3>3 DEF Ambiguous
      <4>3. tokens[t].version < new.session_version
        BY <1>4, <2>3, <3>2, <3>3, <4>1, <4>2
      <4>4. QED
        BY <1>1, <3>1, <3>2, <4>3
    <3>4. CASE ~ (new.state = "present" /\ ~Ambiguous(t)')
      BY <1>1, <3>1, <3>2, <3>4
    <3>5. QED
      BY <3>3, <3>4
  <2>4. QED
    BY <2>2, <2>3
<1>8. ReadsHold'
  <2> SUFFICES ASSUME NEW x \in DOMAIN inflight' PROVE ReadHolds(inflight[x])'
    BY DEF ReadsHold
  <2> DEFINE q == inflight[x]
  <2>1. inflight'[x] = q /\ q \in Request /\ ReadHolds(q)
    BY FewerRequests
  <2>2. q.target \in Accounts /\ q.row.session_version \in Nat
    BY <1>3, <2>1 DEF Request, Account
  <2> HIDE DEF q
  <2>3. users'[q.target].state # "absent"
    BY <1>1, <2>1, <2>2 DEF ReadHolds
  <2>4. /\ q.op = "login" /\ users'[q.target].state = "present"
        /\ <<q.target, q.row.session_version>> \notin reused'
        => /\ q.row.session_version <= users'[q.target].session_version
           /\ q.row.session_version = users'[q.target].session_version =>
                users'[q.target].role = q.row.role
    <3>1. CASE q.target # u
      BY <1>1, <2>1, <2>2, <3>1 DEF ReadHolds, Present
    <3>2. CASE q.target = u
      <4> SUFFICES ASSUME q.op = "login", new.state = "present",
                          <<u, q.row.session_version>> \notin reused'
                   PROVE  /\ q.row.session_version <= new.session_version
                          /\ q.row.session_version = new.session_version =>
                               new.role = q.row.role
        BY <1>1, <3>2
      <4>1. /\ Present(u) /\ users[u].state # "absent"
            /\ <<u, q.row.session_version>> \notin reused
        BY <2>1, <3>2 DEF ReadHolds
      <4>2. /\ q.row.session_version <= users[u].session_version
            /\ q.row.session_version = users[u].session_version =>
                 users[u].role = q.row.role
        BY <2>1, <3>2, <4>1 DEF ReadHolds
      <4>3. \/ q.row.session_version < new.session_version
            \/ /\ new.session_version = users[u].session_version
               /\ new.role = users[u].role
        BY <1>4, <2>2, <4>1, <4>2
      <4>4. new.session_version \in Nat
        BY <1>1, <1>3
      <4>5. QED
        BY <2>2, <4>2, <4>3, <4>4
    <3>3. QED
      BY <3>1, <3>2
  <2>5. QED
    BY <2>1, <2>3, <2>4 DEF ReadHolds, Present
<1>9. QED
  BY <1>5, <1>6, <1>7, <1>8 DEF SessionInv

\* In time a change moves the account past every version so far; overtaken, it
\* makes ambiguous what it writes over.
LEMMA ChangeStep ==
  ASSUME SessionInv, NEW r \in Requests, Change(r)
  PROVE  SessionInv'
<1> DEFINE q == inflight[r]
           u == q.target
           old == users[u]
           new == [f \in Columns |-> IF f \in q.dirty THEN q.row[f] ELSE old[f]]
<1>1. /\ r \in DOMAIN inflight /\ q.op = "change" /\ Present(u)
      /\ users' = [users EXCEPT ![u] = new]
      /\ ended' = IF q.dirty \subseteq {"email_verified"} THEN ended
                  ELSE ended \union TokensOf(u)
      /\ reused' = reused \union WrittenAgain(q)
      /\ Finish(r) /\ UNCHANGED <<tokens, blocklist, challenges>>
  BY DEF Change, Serving, Flush
<1>2. q \in Request /\ ReadHolds(q)
  BY <1>1 DEF SessionInv, TypeOK, ReadsHold
<1>3. u \in Accounts /\ q.row \in Account /\ old \in Account /\ old.state = "present"
  BY <1>1, <1>2 DEF Request, SessionInv, TypeOK, Present
<1>4. new \in Account
  BY <1>3, MergedAccount
<1>5. new.state = old.state
  BY <1>1, <1>2 DEF ReadHolds, Columns
<1>6. /\ "session_version" \in q.dirty => /\ new.session_version = q.row.session_version
                                        /\ q.found < q.row.session_version
      /\ "session_version" \notin q.dirty => /\ new.session_version = old.session_version
                                           /\ new.role = old.role
                                           /\ ended' = ended
  BY <1>1, <1>2 DEF ReadHolds, Columns
<1>7. /\ MaxVersion \in Nat /\ q.row.session_version \in 1 .. MaxVersion
      /\ old.session_version \in 1 .. MaxVersion /\ q.found \in Nat
  BY <1>2, <1>3, AccountsAssumption DEF Account, Request
<1>8. reused' = reused \union
        (IF "session_version" \in q.dirty /\ old.session_version # q.found
         THEN {u} \X (q.row.session_version .. old.session_version) ELSE {})
  BY <1>1 DEF WrittenAgain
<1>9. Fewer
  BY <1>1, FinishFewer
<1>10. /\ users' = [users EXCEPT ![u] = new] /\ Present(u) /\ old = users[u]
       /\ ended \subseteq ended' /\ ended' \subseteq ended \union TokensOf(u)
       /\ UNCHANGED tokens /\ blocklist' = blocklist /\ challenges' = challenges
  BY <1>1
<1>11. new.state = "present"
  BY <1>3, <1>5
<1> HIDE DEF new, old, u, q
<1>12. reused \subseteq reused' /\ reused' \subseteq Accounts \X (1 .. MaxVersion)
  <2>1. q.row.session_version .. old.session_version \subseteq 1 .. MaxVersion
    BY <1>7
  <2>2. reused \subseteq Accounts \X (1 .. MaxVersion)
    BY DEF SessionInv, TypeOK
  <2>3. QED
    BY <1>3, <1>8, <2>1, <2>2
<1>13. \/ /\ new.session_version = old.session_version
          /\ new.role = old.role
          /\ ended' = ended
       \/ \A v \in 0 .. old.session_version :
            v < new.session_version \/ <<u, v>> \in reused'
  <2>1. CASE "session_version" \notin q.dirty
    BY <1>6, <2>1
  <2>2. CASE "session_version" \in q.dirty /\ old.session_version = q.found
    BY <1>6, <1>7, <2>2
  <2>3. CASE "session_version" \in q.dirty /\ old.session_version # q.found
    <3>1. ASSUME NEW v \in 0 .. old.session_version, ~(v < new.session_version)
          PROVE  <<u, v>> \in reused'
      <4>1. v \in q.row.session_version .. old.session_version
        BY <1>6, <1>7, <2>3, <3>1
      <4>2. QED
        BY <1>8, <2>3, <4>1
    <3>2. QED
      BY <3>1
  <2>4. QED
    BY <2>1, <2>2, <2>3
<1>14. /\ \A t \in blocklist : t \in blocklist'
       /\ new.state # "absent"
       /\ blocklist' \subseteq blocklist /\ challenges' \subseteq challenges
  BY <1>10, <1>11
<1>15. \/ /\ new.session_version = users[u].session_version
          /\ new.role = users[u].role
          /\ ended' = ended
       \/ \A v \in 0 .. users[u].session_version :
            v < new.session_version \/ <<u, v>> \in reused'
  BY <1>10, <1>13
<1>16. QED
  BY <1>3, <1>4, <1>9, <1>10, <1>11, <1>12, <1>14, <1>15, RowStep

LEMMA DeleteStep ==
  ASSUME SessionInv, NEW r \in Requests, Delete(r)
  PROVE  SessionInv'
<1> DEFINE q == inflight[r]
           u == q.target
<1>1. /\ r \in DOMAIN inflight /\ q.op = "delete"
      /\ blocklist \intersect TokensOf(u) \subseteq q.doomed
      /\ users' = [users EXCEPT ![u] = Removed]
      /\ blocklist' = blocklist \ q.doomed /\ challenges' = challenges \ {u}
      /\ ended' = ended \union TokensOf(u) /\ reused' = reused
      /\ Finish(r) /\ UNCHANGED tokens
  BY DEF Delete, Serving
<1>2. q \in Request /\ ReadHolds(q)
  BY <1>1 DEF SessionInv, TypeOK, ReadsHold
<1>3. u \in Accounts /\ \A t \in q.doomed : tokens[t].user = u
  BY <1>1, <1>2 DEF Request, ReadHolds
<1>4. Removed \in Account /\ Removed.state = "gone"
  <2>1. 1 \in 1 .. MaxVersion
    BY AccountsAssumption
  <2>2. QED
    BY <2>1 DEF Removed, Unregistered, Account, Roles
<1>5. \A t \in blocklist : IF t \in blocklist' THEN tokens[t].user # u
                           ELSE tokens[t].user = u
  BY <1>1, <1>3 DEF TokensOf, SessionInv, TypeOK
<1>6. Fewer
  BY <1>1, FinishFewer
<1>7. /\ blocklist' \subseteq blocklist /\ challenges' \subseteq challenges
      /\ u \notin challenges'
      /\ ended \subseteq ended' /\ ended' \subseteq ended \union TokensOf(u)
      /\ users' = [users EXCEPT ![u] = Removed] /\ UNCHANGED tokens
      /\ reused \subseteq reused' /\ reused' \subseteq Accounts \X (1 .. MaxVersion)
  BY <1>1 DEF SessionInv, TypeOK
<1> HIDE DEF u, q
<1>8. QED
  BY <1>3, <1>4, <1>5, <1>6, <1>7, RowStep

LEMMA RegisterStep ==
  ASSUME SessionInv, NEW u \in Accounts, Register(u)
  PROVE  SessionInv'
<1> DEFINE new == [users[u] EXCEPT !.state = "present"]
<1>1. /\ users[u] = Unregistered /\ users' = [users EXCEPT ![u] = new]
      /\ UNCHANGED <<tokens, blocklist, challenges, inflight, ended, reused>>
  BY DEF Register, history, SessionInv, TypeOK
<1>2. new \in Account /\ new.state = "present" /\ users[u].state = "absent"
  BY <1>1, UnregisteredType DEF Unregistered, Account
<1>3. u \notin challenges /\ \A t \in blocklist : tokens[t].user # u
  BY <1>2 DEF SessionInv, TypeOK, Present
<1>4. reused \subseteq reused' /\ reused' \subseteq Accounts \X (1 .. MaxVersion)
  BY <1>1 DEF SessionInv, TypeOK
<1>5. Fewer
  BY <1>1, SameFewer
<1> HIDE DEF new
<1>6. QED
  BY <1>1, <1>2, <1>3, <1>4, <1>5, RowStep

-----------------------------------------------------------------------------
LEMMA LoginStep ==
  ASSUME SessionInv, NEW r \in Requests, Login(r)
  PROVE  SessionInv'
<1> DEFINE q == inflight[r]
<1>1. /\ r \in DOMAIN inflight /\ q.op = "login" /\ Finish(r)
      /\ UNCHANGED <<users, blocklist, history>>
  BY DEF Login, Serving
<1>2. q \in Request /\ ReadHolds(q)
  BY <1>1 DEF SessionInv, TypeOK, ReadsHold
<1>3. /\ q.target \in Accounts /\ q.row.session_version \in 1 .. MaxVersion
      /\ users[q.target].state # "absent"
      /\ Present(q.target) /\ <<q.target, q.row.session_version>> \notin reused =>
           /\ q.row.session_version <= users[q.target].session_version
           /\ q.row.session_version = users[q.target].session_version =>
                users[q.target].role = q.row.role
  BY <1>1, <1>2 DEF Request, Account, ReadHolds
<1>4. Fewer
  BY <1>1, FinishFewer
<1>5. CASE /\ q.row.role \notin MfaRoles
           /\ Mint(q.target, q.row.session_version, FALSE)
           /\ UNCHANGED challenges
  <2> HIDE DEF q
  <2>1. QED
    BY <1>1, <1>3, <1>4, <1>5, MintStep
<1>6. CASE /\ Present(q.target)
           /\ challenges' = challenges \union {q.target}
           /\ UNCHANGED tokens
  BY <1>1, <1>3, <1>4, <1>6, QuietStep DEF SessionInv, TypeOK
<1>7. QED
  BY <1>5, <1>6 DEF Login

LEMMA VerifyStep ==
  ASSUME SessionInv, NEW r \in Requests, VerifyLogin(r)
  PROVE  SessionInv'
<1> DEFINE u == inflight[r].target
<1>1. /\ r \in DOMAIN inflight /\ Present(u) /\ Finish(r)
      /\ Mint(u, users[u].session_version, TRUE)
      /\ UNCHANGED <<users, blocklist, challenges, history>>
  BY DEF VerifyLogin, Serving
<1>2. u \in Accounts
  BY <1>1 DEF SessionInv, TypeOK, Request
<1>3. /\ users[u].session_version \in 1 .. MaxVersion
      /\ users[u].session_version <= users[u].session_version
  BY <1>2, AccountsAssumption DEF SessionInv, TypeOK, Account
<1>4. Fewer /\ users[u].state # "absent"
  BY <1>1, FinishFewer DEF Present
<1> HIDE DEF u
<1>5. QED
  BY <1>1, <1>2, <1>3, <1>4, MintStep

LEMMA AbortStep ==
  ASSUME SessionInv, NEW r \in Requests, Abort(r)
  PROVE  SessionInv'
BY FinishFewer, QuietStep DEF Abort, SessionInv, TypeOK

\* Logging out and expiry: the token joins the ended ones, shut out for good.
LEMMA LogoutStep ==
  ASSUME SessionInv, NEW t \in Tokens, Logout(t)
  PROVE  SessionInv'
<1>1. TypeOK'
  BY DEF Logout, StillListed, SessionInv, TypeOK, Present, Token
<1>2. TokensBehind' /\ ReadsHold'
  <2>1. TokensBehind'
    BY DEF Logout, SessionInv, TokensBehind, Ambiguous, Present
  <2>2. ReadsHold'
    BY DEF Logout, SessionInv, ReadsHold, ReadHolds, Present
  <2>3. QED
    BY <2>1, <2>2
<1>3. EndedShut'
  BY DEF Logout, StillListed, SessionInv, EndedShut, Ambiguous, Present
<1>4. QED
  BY <1>1, <1>2, <1>3 DEF SessionInv

LEMMA ExpireStep ==
  ASSUME SessionInv, NEW t \in Tokens, Expire(t)
  PROVE  SessionInv'
<1> DEFINE k == [NoToken EXCEPT !.user = tokens[t].user, !.expired = TRUE]
<1>1. /\ tokens' = [tokens EXCEPT ![t] = k] /\ ended' = ended \union {t}
      /\ tokens[t].user # Nobody
      /\ UNCHANGED <<users, blocklist, challenges, inflight, reused>>
  BY DEF Expire
<1>2. /\ tokens \in [Tokens -> Token] /\ k \in Token
      /\ k.user = tokens[t].user /\ k.version = 0 /\ k.expired
  <2>1. tokens \in [Tokens -> Token] /\ 0 \in 0 .. MaxVersion
    BY AccountsAssumption DEF SessionInv, TypeOK
  <2>2. tokens[t].user \in Accounts \union {Nobody}
    BY <2>1 DEF Token
  <2>3. QED
    BY <2>1, <2>2 DEF NoToken, Token
<1> HIDE DEF k
<1>3. /\ tokens'[t] = k
      /\ \A x \in Tokens : tokens'[x].user = tokens[x].user
      /\ \A x \in Tokens : x # t => tokens'[x] = tokens[x]
  BY <1>1, <1>2
<1>4. \A u \in Accounts : users[u].session_version \in Nat
  BY AccountsAssumption DEF SessionInv, TypeOK, Account
<1>5. TypeOK'
  <2>1. tokens' \in [Tokens -> Token]
    BY <1>1, <1>2
  <2>2. \A x \in blocklist : /\ tokens'[x].user \in Accounts
                            /\ users[tokens'[x].user].state = "present"
    BY <1>3 DEF SessionInv, TypeOK, Present
  <2>3. /\ users' = users /\ blocklist' = blocklist /\ challenges' = challenges
        /\ inflight' = inflight /\ ended' \subseteq Tokens /\ reused' = reused
    BY <1>1 DEF SessionInv, TypeOK
  <2> HIDE <1>1
  <2>4. QED
    BY <2>1, <2>2, <2>3 DEF SessionInv, TypeOK, Present
<1>6. TokensBehind'
  <2> SUFFICES ASSUME NEW x \in Tokens, tokens'[x].user # Nobody
               PROVE  /\ users[tokens'[x].user].state # "absent"
                      /\ /\ users[tokens'[x].user].state = "present"
                         /\ <<tokens'[x].user, tokens'[x].version>> \notin reused
                         => /\ tokens'[x].version
                                 <= users[tokens'[x].user].session_version
                            /\ /\ ~tokens'[x].expired /\ ~tokens'[x].mfa
                               /\ tokens'[x].version
                                    = users[tokens'[x].user].session_version
                               => users[tokens'[x].user].role \notin MfaRoles
    BY <1>1 DEF TokensBehind, Present, Ambiguous
  <2>1. CASE x = t
    <3>1. tokens[t].user \in Accounts
      BY <1>1, <1>2 DEF Token
    <3>2. QED
      BY <1>1, <1>2, <1>3, <1>4, <2>1, <3>1 DEF SessionInv, TokensBehind
  <2>2. CASE x # t
    <3>1. tokens'[x] = tokens[x] /\ tokens[x].user # Nobody
      BY <1>3, <2>2
    <3>2. QED
      BY <3>1 DEF SessionInv, TokensBehind, Present, Ambiguous
  <2>3. QED
    BY <2>1, <2>2
<1>7. EndedShut'
  <2> SUFFICES ASSUME NEW x \in ended'
               PROVE  /\ tokens'[x].user # Nobody
                      /\ \/ tokens'[x].expired
                         \/ x \in blocklist
                         \/ users[tokens'[x].user].state # "present"
                         \/ <<tokens'[x].user, tokens'[x].version>> \in reused
                         \/ tokens'[x].version < users[tokens'[x].user].session_version
    BY <1>1 DEF EndedShut, Present, Ambiguous
  <2>1. CASE x = t
    BY <1>1, <1>2, <1>3, <2>1
  <2>2. CASE x # t
    BY <1>1, <1>3, <2>2 DEF SessionInv, TypeOK, EndedShut, Present, Ambiguous
  <2>3. QED
    BY <2>1, <2>2
<1>8. ReadsHold'
  <2> SUFFICES ASSUME NEW x \in DOMAIN inflight PROVE ReadHolds(inflight[x])'
    BY <1>1 DEF ReadsHold
  <2>1. inflight[x] \in Request /\ ReadHolds(inflight[x])
    BY DEF SessionInv, TypeOK, ReadsHold
  <2>2. inflight[x].op = "delete" => \A y \in inflight[x].doomed :
                                       tokens'[y].user = inflight[x].target
    BY <1>3, <2>1 DEF ReadHolds, Request
  <2>3. users' = users /\ inflight' = inflight /\ reused' = reused
    BY <1>1
  <2>4. QED
    BY <2>1, <2>2, <2>3 DEF ReadHolds, Present
<1>9. QED
  BY <1>5, <1>6, <1>7, <1>8 DEF SessionInv

-----------------------------------------------------------------------------
LEMMA InitSessions == Init => SessionInv
<1> SUFFICES ASSUME Init PROVE SessionInv
  OBVIOUS
<1>1. Unregistered \in Account /\ NoToken \in Token
  BY UnregisteredType, AccountsAssumption DEF Token, NoToken
<1>2. TypeOK
  <2>1. [Unregistered EXCEPT !.state = "present", !.role = "admin",
                             !.email_verified = TRUE] \in Account
    BY <1>1 DEF Account, Roles
  <2>2. QED
    BY <1>1, <2>1 DEF Init, TypeOK
<1>3. TokensBehind /\ EndedShut /\ ReadsHold
  BY DEF Init, TokensBehind, EndedShut, ReadsHold, NoToken
<1>4. QED
  BY <1>2, <1>3 DEF SessionInv

\* Every step of the system keeps the sessions' invariant.
LEMMA NextSessions ==
  ASSUME SessionInv, [Next]_vars
  PROVE  SessionInv'
<1>1. ASSUME NEW u \in Accounts, Register(u) PROVE SessionInv'
  BY <1>1, RegisterStep
<1>2. ASSUME NEW r \in Requests, NEW a \in Accounts, NEW u \in Accounts,
             Administer(r, a, u)
      PROVE  SessionInv'
  BY <1>2, AdministerStep
<1>3. ASSUME NEW r \in Requests, NEW u \in Accounts,
             \/ BeginPassword(r, u) \/ BeginEmail(r, u) \/ BeginEmailVerification(r, u)
             \/ BeginLogin(r, u) \/ ConsumeCode(r, u)
      PROVE  SessionInv'
  BY <1>3, BeginStep
<1>4. ASSUME NEW r \in Requests,
             Change(r) \/ Delete(r) \/ Login(r) \/ VerifyLogin(r) \/ Abort(r)
      PROVE  SessionInv'
  BY <1>4, ChangeStep, DeleteStep, LoginStep, VerifyStep, AbortStep
<1>5. ASSUME NEW t \in Tokens, Logout(t) \/ Expire(t) PROVE SessionInv'
  BY <1>5, LogoutStep, ExpireStep
<1>6. CASE UNCHANGED vars
  <2>1. Fewer
    BY <1>6, SameFewer DEF vars
  <2>2. QED
    BY <1>6, <2>1, QuietStep DEF vars, SessionInv, TypeOK
<1>7. QED
  BY <1>1, <1>2, <1>3, <1>4, <1>5, <1>6 DEF Next

LEMMA SessionsMean == SessionInv => EndedStaysOut /\ PrivilegedByMfa
<1> SUFFICES ASSUME SessionInv PROVE EndedStaysOut /\ PrivilegedByMfa
  OBVIOUS
<1>1. /\ MaxVersion \in Nat
      /\ \A u \in Accounts : users[u].session_version \in Nat
      /\ \A t \in Tokens : /\ tokens[t].user \in Accounts \union {Nobody}
                          /\ tokens[t].version \in Nat
                          /\ tokens[t].mfa \in BOOLEAN
  BY AccountsAssumption DEF SessionInv, TypeOK, Account, Token
<1>2. EndedStaysOut
  <2> SUFFICES ASSUME NEW t \in ended, Accepted(t) PROVE Ambiguous(t)
    BY DEF EndedStaysOut
  <2>1. t \in Tokens /\ tokens[t].user \in Accounts
    BY <1>1 DEF SessionInv, TypeOK, Accepted
  <2>2. QED
    BY <1>1, <2>1 DEF SessionInv, EndedShut, Accepted
<1>3. PrivilegedByMfa
  BY <1>1 DEF SessionInv, TokensBehind, PrivilegedByMfa, Accepted
<1>4. QED
  BY <1>2, <1>3

\* The inductive invariant of the sessions: a token that is not ambiguous has its
\* account's version or an older one, and one that fell behind stays behind
\* (change_user_role_service, update_user_service, the confirmations of auth.py).
THEOREM SessionsInvariant == Spec => []SessionInv
<1>1. SessionInv /\ [Next]_vars => SessionInv'
  BY NextSessions
<1>2. QED
  BY InitSessions, <1>1, PTL DEF Spec

\* A session that was ended is not let through again (get_current_user), unless it
\* carries a version that a change wrote over after another had overtaken it.
THEOREM EndedSessionsStayOut == Spec => []EndedStaysOut
<1>1. SessionInv => EndedStaysOut
  BY SessionsMean
<1>2. QED
  BY <1>1, SessionsInvariant, PTL

\* Technicians and administrators act with a session that a second factor
\* opened (login, verify_login_mfa), or with one that carries such a version.
THEOREM PrivilegeNeedsSecondFactor == Spec => []PrivilegedByMfa
<1>1. SessionInv => PrivilegedByMfa
  BY SessionsMean
<1>2. QED
  BY <1>1, SessionsInvariant, PTL

-----------------------------------------------------------------------------
(* What follows from it: types, and the finality of logout.                  *)

\* Tables and sessions keep their shape and refer to accounts that are there,
\* also when changes of one account overlap.
THEOREM AccountTypes == Spec => []TypeOK
<1>1. SessionInv => TypeOK
  BY DEF SessionInv
<1>2. QED
  BY <1>1, SessionsInvariant, PTL

\* The token cannot be let through.
Out(t) ==
  \/ t \in blocklist
  \/ tokens[t].expired
  \/ tokens[t].user # Nobody /\ users[tokens[t].user].state = "gone"

OutStays == \A t \in Tokens : Out(t) => Out(t)'

\* The reads of an operation touch none of it.
LEMMA OutBegin ==
  ASSUME NEW r, NEW a, NEW u,
         \/ Administer(r, a, u)
         \/ BeginPassword(r, u) \/ BeginEmail(r, u) \/ BeginEmailVerification(r, u)
         \/ BeginLogin(r, u) \/ ConsumeCode(r, u)
  PROVE  OutStays
<1>1. UNCHANGED <<users, tokens, blocklist>>
  BY DEF Administer, BeginRoleChange, BeginUpdate, BeginDelete, BeginPassword,
         BeginEmail, BeginEmailVerification, BeginLogin, ConsumeCode, BeginChange
<1>2. QED
  BY <1>1 DEF OutStays, Out

LEMMA OutMint ==
  ASSUME SessionInv, NEW u, NEW version, NEW mfa, Mint(u, version, mfa),
         UNCHANGED <<users, blocklist>>
  PROVE  OutStays
<1> DEFINE k == [user |-> u, version |-> version, expired |-> FALSE, mfa |-> mfa]
<1>1. PICK t \in Tokens : tokens[t] = NoToken /\ tokens' = [tokens EXCEPT ![t] = k]
  BY DEF Mint
<1> HIDE DEF k
<1>2. tokens[t].user = Nobody /\ ~tokens[t].expired /\ t \notin blocklist
  BY <1>1, AccountsAssumption DEF NoToken, SessionInv, TypeOK
<1>3. \A x \in Tokens : x # t => tokens'[x] = tokens[x]
  BY <1>1 DEF SessionInv, TypeOK
<1>4. QED
  BY <1>2, <1>3 DEF OutStays, Out

\* A row is written: no account comes back, and what leaves the blocklist belongs to
\* an account that is removed.
LEMMA OutRow ==
  ASSUME SessionInv, NEW u \in Accounts, NEW new,
         users' = [users EXCEPT ![u] = new], UNCHANGED tokens,
         users[u].state = "gone" => new.state = "gone",
         \A t \in blocklist \ blocklist' : tokens[t].user = u /\ new.state = "gone"
  PROVE  OutStays
<1>1. users'[u] = new /\ \A v \in Accounts : v # u => users'[v] = users[v]
  BY DEF SessionInv, TypeOK
<1> SUFFICES ASSUME NEW t \in Tokens, Out(t) PROVE Out(t)'
  BY DEF OutStays
<1>2. tokens[t].user # Nobody => tokens[t].user \in Accounts
  BY DEF SessionInv, TypeOK, Token
<1>3. CASE t \in blocklist \ blocklist'
  BY <1>1, <1>3, AccountsAssumption DEF Out
<1>4. CASE t \notin blocklist \ blocklist'
  BY <1>1, <1>2, <1>4 DEF Out
<1>5. QED
  BY <1>3, <1>4

LEMMA OutCommit ==
  ASSUME SessionInv, NEW r \in Requests,
         Change(r) \/ Delete(r) \/ Login(r) \/ VerifyLogin(r) \/ Abort(r)
  PROVE  OutStays
<1> DEFINE q == inflight[r]
           u == q.target
<1>1. r \in DOMAIN inflight
  BY DEF Change, Delete, Login, VerifyLogin, Abort, Serving
<1>2. q \in Request /\ u \in Accounts /\ ReadHolds(q)
  BY <1>1 DEF SessionInv, TypeOK, Request, ReadsHold
<1>3. CASE Change(r)
  <2> DEFINE new == [f \in Columns |-> IF f \in q.dirty THEN q.row[f] ELSE users[u][f]]
  <2>1. /\ users[u].state = "present" /\ UNCHANGED <<tokens, blocklist>>
        /\ users' = [users EXCEPT ![u] = new]
    BY <1>3 DEF Change, Flush, Present
  <2> HIDE DEF new, u, q
  <2>2. users[u].state # "gone" /\ blocklist \ blocklist' = {}
    BY <2>1
  <2>3. QED
    BY <1>2, <2>1, <2>2, OutRow
<1>4. CASE Delete(r)
  <2>1. /\ q.op = "delete" /\ users' = [users EXCEPT ![u] = Removed]
        /\ blocklist' = blocklist \ q.doomed /\ UNCHANGED tokens
    BY <1>4 DEF Delete, Serving
  <2>2. Removed.state = "gone"
    BY DEF Removed, Unregistered
  <2>3. \A t \in blocklist \ blocklist' : tokens[t].user = u
    BY <1>2, <2>1 DEF ReadHolds
  <2> HIDE DEF u, q
  <2>4. QED
    BY <1>2, <2>1, <2>2, <2>3, OutRow
<1>5. CASE \/ /\ UNCHANGED <<users, blocklist>>
              /\ \/ Mint(u, q.row.session_version, FALSE)
                 \/ Mint(u, users[u].session_version, TRUE)
  BY <1>5, OutMint
<1>6. CASE UNCHANGED <<users, tokens, blocklist>>
  BY <1>6 DEF OutStays, Out
<1>7. QED
  BY <1>3, <1>4, <1>5, <1>6 DEF Login, VerifyLogin, Abort

LEMMA OutTokens ==
  ASSUME SessionInv, NEW t \in Tokens, Logout(t) \/ Expire(t)
  PROVE  OutStays
<1>1. CASE Logout(t)
  BY <1>1 DEF Logout, StillListed, OutStays, Out
<1>2. CASE Expire(t)
  <2> DEFINE k == [NoToken EXCEPT !.user = tokens[t].user, !.expired = TRUE]
  <2>1. tokens' = [tokens EXCEPT ![t] = k] /\ UNCHANGED <<users, blocklist>>
    BY <1>2 DEF Expire
  <2>2. k.expired
    BY DEF NoToken
  <2> HIDE DEF k
  <2>3. tokens'[t] = k /\ \A x \in Tokens : x # t => tokens'[x] = tokens[x]
    BY <2>1 DEF SessionInv, TypeOK
  <2>4. QED
    BY <2>1, <2>2, <2>3 DEF OutStays, Out
<1>3. QED
  BY <1>1, <1>2

LEMMA OutNext ==
  ASSUME SessionInv, [Next]_vars
  PROVE  OutStays
<1>1. ASSUME NEW u \in Accounts, Register(u) PROVE OutStays
  <2> DEFINE new == [users[u] EXCEPT !.state = "present"]
  <2>1. /\ users[u] = Unregistered /\ users' = [users EXCEPT ![u] = new]
        /\ UNCHANGED <<tokens, blocklist>>
    BY <1>1 DEF Register, SessionInv, TypeOK
  <2>2. users[u].state # "gone" /\ blocklist \ blocklist' = {}
    BY <2>1 DEF Unregistered
  <2> HIDE DEF new
  <2>3. QED
    BY <2>1, <2>2, OutRow
<1>2. ASSUME NEW r \in Requests, NEW a \in Accounts, NEW u \in Accounts,
             Administer(r, a, u)
      PROVE  OutStays
  BY <1>2, OutBegin
<1>3. ASSUME NEW r \in Requests, NEW u \in Accounts,
             \/ BeginPassword(r, u) \/ BeginEmail(r, u) \/ BeginEmailVerification(r, u)
             \/ BeginLogin(r, u) \/ ConsumeCode(r, u)
      PROVE  OutStays
  BY <1>3, OutBegin
<1>4. ASSUME NEW r \in Requests,
             Change(r) \/ Delete(r) \/ Login(r) \/ VerifyLogin(r) \/ Abort(r)
      PROVE  OutStays
  BY <1>4, OutCommit
<1>5. ASSUME NEW t \in Tokens, Logout(t) \/ Expire(t) PROVE OutStays
  BY <1>5, OutTokens
<1>6. CASE UNCHANGED vars
  BY <1>6 DEF vars, OutStays, Out
<1>7. QED
  BY <1>1, <1>2, <1>3, <1>4, <1>5, <1>6 DEF Next

\* Logging out, expiry and the removal of the account are final for any
\* interleaving of requests, overlapping changes and ambiguous versions included
\* (revoke_token, delete_user_service, get_current_user).
THEOREM LogoutIsFinal == Spec => LoggedOutStaysOut
<1> DEFINE LetsNobodyBackIn == \A t \in Tokens : Out(t) => ~Accepted(t)'
<1>1. SessionInv /\ [Next]_vars => [LetsNobodyBackIn]_vars
  <2>1. ASSUME NEW t \in Tokens, Out(t)' PROVE ~Accepted(t)'
    BY <2>1 DEF Out, Accepted, Present
  <2>2. QED
    BY <2>1, OutNext DEF OutStays
<1>2. LoggedOutStaysOut <=> [][LetsNobodyBackIn]_vars
  BY DEF LoggedOutStaysOut, Out
<1> HIDE DEF LetsNobodyBackIn
<1>3. QED
  BY <1>1, <1>2, SessionsInvariant, PTL DEF Spec
-----------------------------------------------------------------------------
(* Somebody can administer.  Logins and the owners' changes spare every          *)
(* administrator.  Of the requests that may take one away at most one was under *)
(* way at a time, and it spares the one who sent it, who may neither be its      *)
(* target nor lose anything by it.                                              *)

Able(row) ==
  row.state = "present" /\ row.role = "admin" /\ row.is_active /\ row.email_verified

\* Whatever the request commits, u can administer afterwards.
Spares(q, u) ==
  q.op \in {"change", "delete"} /\ q.target = u =>
    /\ q.op = "change"
    /\ "state" \notin q.dirty
    /\ "role" \in q.dirty => q.row.role = "admin"
    /\ "is_active" \in q.dirty => q.row.is_active
    /\ "email_verified" \in q.dirty => q.row.email_verified

Spared(u) == Able(users[u]) /\ \A r \in DOMAIN inflight : Spares(inflight[r], u)

\* A change does not remove its account and takes no confirmation back.
Mild(q) ==
  q.op = "change" =>
    /\ "state" \notin q.dirty
    /\ "email_verified" \in q.dirty => q.row.email_verified

AdminInv ==
  /\ \A r \in DOMAIN inflight : Mild(inflight[r])
  /\ alone => \E u \in Accounts : Spared(u)

LEMMA MildSpares ==
  ASSUME NEW q, Mild(q), ~Demotes(q), NEW u
  PROVE  Spares(q, u)
BY DEF Mild, Demotes, Spares

\* A request enters: if it may take an administrator away, it spares one that is able.
LEMMA RequestEnters ==
  ASSUME AdminInv, NEW r, NEW q, Enter(r, q), users' = users, Mild(q),
         Demotes(q) => \E g \in Accounts : Able(users[g]) /\ Spares(q, g)
  PROVE  AdminInv'
<1>1. /\ inflight' = [x \in DOMAIN inflight \union {r} |->
                        IF x = r THEN q ELSE inflight[x]]
      /\ alone' => alone
      /\ alone' /\ Demotes(q) => \A x \in DOMAIN inflight : ~Demotes(inflight[x])
  BY DEF Enter
<1>2. \A x \in DOMAIN inflight' : \/ inflight'[x] = q
                                  \/ x \in DOMAIN inflight /\ inflight'[x] = inflight[x]
  BY <1>1
<1>3. \A x \in DOMAIN inflight' : Mild(inflight'[x])
  BY <1>2 DEF AdminInv
<1>4. ASSUME alone' PROVE \E g \in Accounts : Spared(g)'
  <2>1. CASE Demotes(q)
    <3>1. PICK g \in Accounts : Able(users[g]) /\ Spares(q, g)
      BY <2>1
    <3>2. \A x \in DOMAIN inflight : Spares(inflight[x], g)
      BY <1>1, <1>4, <2>1, MildSpares DEF AdminInv
    <3>3. Spared(g)'
      BY <1>2, <3>1, <3>2 DEF Spared
    <3>4. QED
      BY <3>3
  <2>2. CASE ~Demotes(q)
    <3>1. PICK g \in Accounts : Spared(g)
      BY <1>1, <1>4 DEF AdminInv
    <3>2. Spares(q, g)
      BY <2>2, MildSpares
    <3>3. Spared(g)'
      BY <1>2, <3>1, <3>2 DEF Spared
    <3>4. QED
      BY <3>3
  <2>3. QED
    BY <2>1, <2>2
<1>5. (\A x \in DOMAIN inflight : Mild(inflight[x]))'
  BY <1>3 DEF Mild
<1>6. QED
  BY <1>4, <1>5 DEF AdminInv

\* A change that touches role or activity spares g when g is able by the row it
\* proposes.
LEMMA ChangeSpares ==
  ASSUME TypeOK, AdminInv, NEW r, NEW a \in Accounts, NEW u \in Accounts,
         NEW new, BeginChange(r, a, u, new),
         new.session_version \in 1 .. MaxVersion => new \in Account,
         new.session_version \in Nat \ {0},
         users[u].state = new.state, users[u].email_verified => new.email_verified,
         \/ new.role = users[u].role /\ new.is_active = users[u].is_active
         \/ \E g \in Accounts : Able(users[g]) /\ (u = g => Able(new))
  PROVE  AdminInv'
<1>1. new \in Account /\ users[u] \in Account
  BY AccountsAssumption DEF BeginChange, TypeOK
<1>2. PICK q \in Request :
        /\ Enter(r, q) /\ Proposes(q, u, new)
        /\ UNCHANGED <<users, tokens, blocklist, challenges, history>>
  BY <1>1, ChangeAsked
<1>3. "state" \notin q.dirty
  BY <1>2 DEF Proposes
<1>4. /\ "role" \in q.dirty => q.row.role = new.role
      /\ "is_active" \in q.dirty => q.row.is_active = new.is_active
      /\ "email_verified" \in q.dirty => q.row.email_verified = new.email_verified
  BY <1>2 DEF Proposes, Kept, Columns
<1>5. "email_verified" \in q.dirty => new.email_verified
  <2>1. new.email_verified \in BOOLEAN /\ users[u].email_verified \in BOOLEAN
    BY <1>1 DEF Account
  <2>2. "email_verified" \in q.dirty => new.email_verified # users[u].email_verified
    BY <1>2 DEF Proposes
  <2>3. QED
    BY <2>1, <2>2
<1>6. Mild(q)
  BY <1>3, <1>4, <1>5 DEF Mild
<1>7. Demotes(q) => \E g \in Accounts : Able(users[g]) /\ Spares(q, g)
  <2>1. ASSUME Demotes(q)
        PROVE  ~ (new.role = users[u].role /\ new.is_active = users[u].is_active)
    BY <1>2, <2>1 DEF Proposes, Demotes, Columns
  <2>2. \A g \in Accounts : (u = g => Able(new)) => Spares(q, g)
    BY <1>2, <1>3, <1>4 DEF Proposes, Spares, Able
  <2>3. QED
    BY <2>1, <2>2
<1>8. QED
  BY <1>2, <1>6, <1>7, RequestEnters

\* Whoever may administer is able to.
LEMMA ActorIsAble ==
  ASSUME TypeOK, NEW a \in Accounts, MayAdminister(a)
  PROVE  Able(users[a])
BY DEF MayAdminister, LoggedIn, Accepted, Present, Able

LEMMA AdminBegins ==
  ASSUME TypeOK, AdminInv, NEW r \in Requests, NEW a \in Accounts, NEW u \in Accounts,
         Administer(r, a, u)
  PROVE  AdminInv'
<1>1. /\ users[u] \in Account /\ Able(users[a])
      /\ users[u].session_version \in Nat \ {0}
  BY ActorIsAble, AccountsAssumption
     DEF Administer, BeginRoleChange, BeginUpdate, BeginDelete, TypeOK, Account
<1>2. ASSUME NEW role \in Roles, BeginRoleChange(r, a, u, role) PROVE AdminInv'
  <2> DEFINE new == RoleChanged(users[u], role)
  <2>1. BeginChange(r, a, u, new) /\ (u = a => users[u].role = role)
    BY <1>2 DEF BeginRoleChange, RoleChangeIsSafe
  <2>2. /\ new.state = users[u].state /\ new.role = role
        /\ new.is_active = users[u].is_active
        /\ new.email_verified = users[u].email_verified
        /\ new.session_version = users[u].session_version + 1
    BY <1>1 DEF RoleChanged, Account
  <2>3. new.session_version \in 1 .. MaxVersion => new \in Account
    BY <1>1 DEF RoleChanged, Account
  <2> HIDE DEF new
  <2>4. new.session_version \in Nat \ {0}
    BY <1>1, <2>2
  <2>5. u = a => Able(new)
    BY <1>1, <2>1, <2>2 DEF Able
  <2>6. QED
    BY <1>1, <2>1, <2>2, <2>3, <2>4, <2>5, ChangeSpares
<1>3. ASSUME NEW email \in BOOLEAN, NEW active \in BOOLEAN,
             BeginUpdate(r, a, u, email, active)
      PROVE  AdminInv'
  <2> DEFINE new == Updated(users[u], email, active)
             n == (IF email THEN 1 ELSE 0)
                    + (IF active # users[u].is_active THEN 1 ELSE 0)
  <2>1. BeginChange(r, a, u, new) /\ (u = a => active)
    BY <1>3 DEF BeginUpdate, DeactivationIsSafe
  <2>2. /\ new.state = users[u].state /\ new.role = users[u].role
        /\ new.is_active = active
        /\ new.email_verified = (users[u].email_verified \/ email)
        /\ new.session_version \in 1 .. MaxVersion => new \in Account
    BY <1>1 DEF Updated, Account
  <2>3. n \in Nat /\ new.session_version = users[u].session_version + n
    BY <1>1 DEF Updated, Account
  <2> HIDE DEF new, n
  <2>4. new.session_version \in Nat \ {0}
    BY <1>1, <2>3
  <2>5. u = a => Able(new)
    BY <1>1, <2>1, <2>2 DEF Able
  <2>6. users[u].email_verified => new.email_verified
    BY <2>2
  <2>7. QED
    BY <1>1, <2>1, <2>2, <2>4, <2>5, <2>6, ChangeSpares
<1>4. CASE BeginDelete(r, a, u)
  <2> DEFINE doomed == blocklist \intersect TokensOf(u)
  <2>1. PICK q : /\ q = [Asked("delete", a, u) EXCEPT !.doomed = doomed]
                 /\ Enter(r, q) /\ users' = users /\ u # a
    BY <1>4 DEF BeginDelete
  <2>2. doomed \in SUBSET Tokens
    BY DEF TokensOf
  <2> HIDE DEF doomed
  <2>3. q.op = "delete" /\ q.target = u
    BY <2>1, <2>2, UnregisteredType, AccountsAssumption DEF Asked, Request
  <2>4. Mild(q) /\ Spares(q, a)
    BY <2>1, <2>3 DEF Mild, Spares
  <2>5. QED
    BY <1>1, <2>1, <2>4, RequestEnters
<1>5. QED
  BY <1>2, <1>3, <1>4 DEF Administer

\* What the owner asks for spares everybody.
LEMMA OwnerBegins ==
  ASSUME TypeOK, AdminInv, NEW r \in Requests, NEW u \in Accounts,
         \/ BeginPassword(r, u) \/ BeginEmail(r, u) \/ BeginEmailVerification(r, u)
         \/ BeginLogin(r, u) \/ ConsumeCode(r, u)
  PROVE  AdminInv'
<1>1. users[u] \in Account /\ users[u].session_version \in Nat \ {0}
  BY AccountsAssumption DEF TypeOK, Account
<1>2. CASE BeginPassword(r, u) \/ BeginEmail(r, u)
  <2>1. PICK verified \in {users[u].email_verified, TRUE} :
          BeginChange(r, u, u, [users[u] EXCEPT !.email_verified = verified,
                                                !.session_version = @ + 1])
    <3>1. CASE BeginPassword(r, u)
      <4>1. [users[u] EXCEPT !.session_version = @ + 1]
              = [users[u] EXCEPT !.email_verified = users[u].email_verified,
                                 !.session_version = @ + 1]
        BY <1>1 DEF Account
      <4>2. QED
        BY <3>1, <4>1 DEF BeginPassword
    <3>2. CASE BeginEmail(r, u)
      BY <3>2 DEF BeginEmail
    <3>3. QED
      BY <1>2, <3>1, <3>2
  <2> DEFINE new == [users[u] EXCEPT !.email_verified = verified,
                                     !.session_version = @ + 1]
  <2>2. /\ new.state = users[u].state /\ new.role = users[u].role
        /\ new.is_active = users[u].is_active /\ new.email_verified = verified
        /\ new.session_version = users[u].session_version + 1
    BY <1>1 DEF Account
  <2>3. verified \in BOOLEAN
    BY <1>1, <2>1 DEF Account
  <2>4. new.session_version \in 1 .. MaxVersion => new \in Account
    BY <1>1, <2>3 DEF Account
  <2>5. BeginChange(r, u, u, new)
    BY <2>1
  <2> HIDE DEF new
  <2>6. new.session_version \in Nat \ {0}
    BY <1>1, <2>2
  <2>7. users[u].email_verified => new.email_verified
    <3>1. verified = users[u].email_verified \/ verified = TRUE
      BY <2>1
    <3>2. QED
      BY <2>2, <3>1
  <2>8. QED
    BY <2>2, <2>4, <2>5, <2>6, <2>7, ChangeSpares
<1>3. CASE BeginEmailVerification(r, u)
  <2> DEFINE new == [users[u] EXCEPT !.email_verified = TRUE]
  <2>1. BeginChange(r, u, u, new)
    BY <1>3 DEF BeginEmailVerification
  <2>2. /\ new.state = users[u].state /\ new.role = users[u].role
        /\ new.is_active = users[u].is_active /\ new.email_verified
        /\ new.session_version \in Nat \ {0} /\ new \in Account
    BY <1>1 DEF Account
  <2> HIDE DEF new
  <2>3. QED
    BY <2>1, <2>2, ChangeSpares
<1>4. CASE BeginLogin(r, u)
  <2> DEFINE row == Kept(users[u], {"role", "session_version"})
  <2>1. PICK q : /\ q = [Asked("login", u, u) EXCEPT !.row = row]
                 /\ Enter(r, q) /\ users' = users
    BY <1>4 DEF BeginLogin
  <2>2. row \in Account
    BY <1>1, KeptType
  <2> HIDE DEF row
  <2>3. q.op = "login" /\ q.dirty = {}
    BY <2>1, <2>2, UnregisteredType, AccountsAssumption DEF Asked, Request
  <2>4. Mild(q) /\ ~Demotes(q)
    BY <2>3 DEF Mild, Demotes
  <2>5. QED
    BY <2>1, <2>4, RequestEnters
<1>5. CASE ConsumeCode(r, u)
  <2>1. PICK q : q = Asked("verify", u, u) /\ Enter(r, q) /\ users' = users
    BY <1>5 DEF ConsumeCode
  <2>2. q.op = "verify" /\ q.dirty = {}
    BY <2>1, AskedVerify
  <2>3. Mild(q) /\ ~Demotes(q)
    BY <2>2 DEF Mild, Demotes
  <2>4. QED
    BY <2>1, <2>3, RequestEnters
<1>6. QED
  BY <1>2, <1>3, <1>4, <1>5

\* What is committed was intended: an account that is spared stays able.
LEMMA SparedStays ==
  ASSUME Fewer, alone' => alone, AdminInv,
         \A u \in Accounts : Spared(u) => Able(users'[u])
  PROVE  AdminInv'
<1>1. \A r \in DOMAIN inflight' : r \in DOMAIN inflight /\ inflight'[r] = inflight[r]
  BY DEF Fewer
<1>2. (\A r \in DOMAIN inflight : Mild(inflight[r]))'
  BY <1>1 DEF AdminInv, Mild
<1>3. ASSUME alone' PROVE \E u \in Accounts : Spared(u)'
  <2>1. PICK u \in Accounts : Spared(u)
    BY <1>3 DEF AdminInv
  <2>2. Spared(u)'
    BY <1>1, <2>1 DEF Spared
  <2>3. QED
    BY <2>2
<1>4. QED
  BY <1>2, <1>3 DEF AdminInv

LEMMA AdminCommits ==
  ASSUME TypeOK, AdminInv, NEW r \in Requests,
         Change(r) \/ Delete(r) \/ Login(r) \/ VerifyLogin(r) \/ Abort(r)
  PROVE  AdminInv'
<1> DEFINE q == inflight[r]
<1>1. /\ r \in DOMAIN inflight /\ Finish(r) /\ alone' = alone
  BY DEF Change, Delete, Login, VerifyLogin, Abort, Serving, Finish
<1>2. Fewer
  BY <1>1, FinishFewer
<1>3. q \in Request /\ q.target \in Accounts
  BY <1>1 DEF TypeOK, Request
<1>4. ASSUME NEW u \in Accounts, Spared(u) PROVE Able(users'[u])
  <2>1. Able(users[u]) /\ Spares(q, u)
    BY <1>1, <1>4 DEF Spared
  <2>2. CASE Change(r)
    <3>1. q.op = "change"
      BY <2>2 DEF Change, Serving
    <3>2. users'[u] = IF u = q.target
                      THEN [f \in Columns |-> IF f \in q.dirty THEN q.row[f]
                                              ELSE users[u][f]]
                      ELSE users[u]
      BY <1>3, <2>2 DEF Change, Flush, TypeOK
    <3> HIDE DEF q
    <3>3. CASE u # q.target
      BY <2>1, <3>2, <3>3
    <3>4. CASE u = q.target
      <4> DEFINE new == [f \in Columns |-> IF f \in q.dirty THEN q.row[f]
                                           ELSE users[u][f]]
      <4>1. users'[u] = new
        BY <3>2, <3>4
      <4>2. /\ new.state = IF "state" \in q.dirty THEN q.row.state ELSE users[u].state
            /\ new.role = IF "role" \in q.dirty THEN q.row.role ELSE users[u].role
            /\ new.is_active = IF "is_active" \in q.dirty THEN q.row.is_active
                               ELSE users[u].is_active
            /\ new.email_verified = IF "email_verified" \in q.dirty
                                    THEN q.row.email_verified
                                    ELSE users[u].email_verified
        BY DEF Columns
      <4> HIDE DEF new
      <4>3. QED
        BY <2>1, <3>1, <3>4, <4>1, <4>2 DEF Spares, Able
    <3>5. QED
      BY <3>3, <3>4
  <2>3. CASE Delete(r)
    <3>1. q.op = "delete"
      BY <2>3 DEF Delete, Serving
    <3>2. q.target # u
      BY <2>1, <3>1 DEF Spares
    <3>3. users'[u] = users[u]
      BY <1>3, <2>3, <3>2 DEF Delete, TypeOK
    <3>4. QED
      BY <2>1, <3>3
  <2>4. CASE Login(r) \/ VerifyLogin(r) \/ Abort(r)
    BY <2>1, <2>4 DEF Login, VerifyLogin, Abort
  <2>5. QED
    BY <2>2, <2>3, <2>4
<1>5. QED
  BY <1>1, <1>2, <1>4, SparedStays

LEMMA AdminNext ==
  ASSUME TypeOK, AdminInv, [Next]_vars
  PROVE  AdminInv'
<1>1. ASSUME NEW u \in Accounts, Register(u) PROVE AdminInv'
  <2>1. Fewer /\ alone' = alone
    BY <1>1 DEF Register, Fewer, TypeOK
  <2>2. ASSUME NEW g \in Accounts, Spared(g) PROVE Able(users'[g])
    <3>1. g # u
      BY <1>1, <2>2 DEF Register, Spared, Able, Unregistered
    <3>2. users'[g] = users[g]
      BY <1>1, <3>1 DEF Register, TypeOK
    <3>3. QED
      BY <2>2, <3>2 DEF Spared
  <2>3. QED
    BY <2>1, <2>2, SparedStays
<1>2. ASSUME NEW r \in Requests, NEW a \in Accounts, NEW u \in Accounts,
             Administer(r, a, u)
      PROVE  AdminInv'
  BY <1>2, AdminBegins
<1>3. ASSUME NEW r \in Requests, NEW u \in Accounts,
             \/ BeginPassword(r, u) \/ BeginEmail(r, u) \/ BeginEmailVerification(r, u)
             \/ BeginLogin(r, u) \/ ConsumeCode(r, u)
      PROVE  AdminInv'
  BY <1>3, OwnerBegins
<1>4. ASSUME NEW r \in Requests,
             Change(r) \/ Delete(r) \/ Login(r) \/ VerifyLogin(r) \/ Abort(r)
      PROVE  AdminInv'
  BY <1>4, AdminCommits
<1>5. CASE UNCHANGED <<users, inflight, alone>>
  BY <1>5 DEF AdminInv, Spared, Mild
<1>6. QED
  BY <1>1, <1>2, <1>3, <1>4, <1>5 DEF Next, Logout, Expire, vars

\* As long as no two requests that change a role or activity or remove an account
\* were under way together, whatever administrators do to each other and to
\* themselves, among logins and owners' changes, leaves somebody who can
\* administer: an active, confirmed administrator (_ensure_role_change_is_safe,
\* update_user_service, delete_user_service).
THEOREM AnAdministratorStays == Spec => []SomebodyAdministers
<1>1. Init => AdminInv
  <2> SUFFICES ASSUME Init PROVE AdminInv
    OBVIOUS
  <2>1. users[FirstAdmin] = [Unregistered EXCEPT !.state = "present", !.role = "admin",
                                                 !.email_verified = TRUE]
    BY AccountsAssumption DEF Init
  <2>2. Able(users[FirstAdmin])
    BY <2>1 DEF Able, Unregistered
  <2>3. DOMAIN inflight = {}
    BY DEF Init
  <2>4. QED
    BY <2>2, <2>3, AccountsAssumption DEF AdminInv, Spared
<1>2. TypeOK /\ AdminInv /\ [Next]_vars => AdminInv'
  BY AdminNext
<1>3. AdminInv => SomebodyAdministers
  BY DEF AdminInv, Spared, Able, SomebodyAdministers, Admins, Present
<1>4. QED
  BY <1>1, <1>2, <1>3, AccountTypes, PTL DEF Spec
-----------------------------------------------------------------------------
(* The startup before: processes that start together create FirstAdmin under  *)
(* the lock of StartupLock.  It does its work for any number of processes,     *)
(* until one is killed while it starts, if no start outlasts the age limit;    *)
(* that the variables keep their shape needs neither condition.                *)

LEMMA LockInvInit ==
  ASSUME LockInit
  PROVE  LockInv
<1>1. \A p \in Processes : pc[p] = "open"
  BY DEF LockInit
<1>2. pc \in [Processes -> Holding \union {"open", "stat", "unlink", "wait", "down",
                                         "serving"}]
  BY DEF LockInit
<1>3. LockTypeOK
  <2>1. crashes \in 0 .. MaxCrashes
    BY LockAssumption DEF LockInit
  <2>2. stale \in BOOLEAN /\ ~stale /\ admin \in BOOLEAN
    BY DEF LockInit
  <2>3. creator \in Processes \union {NoFile}
    BY DEF LockInit
  <2>4. QED
    BY <1>2, <2>1, <2>2, <2>3 DEF LockTypeOK
<1>4. OneStarts
  BY <1>1 DEF OneStarts, Holding
<1>5. QED
  BY <1>1, <1>3, <1>4 DEF LockInit, LockInv

\* One step per action; until a kill a file is only removed by the process that
\* created it, because nobody is at "unlink".
LEMMA LockInvStep ==
  ASSUME StartsInTime, LockInv, [LockNext]_lockVars
  PROVE  LockInv'
<1> USE LockAssumption DEF LockInv, LockTypeOK, OneStarts, Holding, Goto, RemoveFile
<1>1. ASSUME NEW p \in Processes, Open(p) PROVE LockInv'
  <2>1. CASE creator = NoFile
    BY <1>1, <2>1 DEF Open
  <2>2. CASE creator # NoFile
    BY <1>1, <2>2 DEF Open
  <2>3. QED
    BY <2>1, <2>2
<1>2. ASSUME NEW p \in Processes, Stat(p) PROVE LockInv'
  BY <1>2 DEF Stat
<1>3. ASSUME NEW p \in Processes, Unlink(p) PROVE LockInv'
  BY <1>3 DEF Unlink
<1>4. ASSUME NEW p \in Processes, Wait(p) PROVE LockInv'
  BY <1>4 DEF Wait
<1>5. ASSUME NEW p \in Processes, Migrate(p) PROVE LockInv'
  BY <1>5 DEF Migrate
<1>6. ASSUME NEW p \in Processes, LookUpAdmin(p) PROVE LockInv'
  BY <1>6 DEF LookUpAdmin
<1>7. ASSUME NEW p \in Processes, InsertAdmin(p) PROVE LockInv'
  BY <1>7 DEF InsertAdmin
<1>8. ASSUME NEW p \in Processes, Release(p) PROVE LockInv'
  BY <1>8 DEF Release
<1>9. ASSUME NEW p \in Processes, Restart(p) PROVE LockInv'
  BY <1>9 DEF Restart
<1>10. ASSUME NEW p \in Processes, Crash(p) PROVE LockInv'
  BY <1>10 DEF Crash
<1>11. CASE Age
  BY <1>11 DEF Age
<1>12. CASE UNCHANGED lockVars
  BY <1>12 DEF lockVars
<1>13. QED
  BY <1>1, <1>2, <1>3, <1>4, <1>5, <1>6, <1>7, <1>8, <1>9, <1>10, <1>11, <1>12
     DEF LockNext, Step, AllServing

\* Without late starts and until a kill, at most one process migrates the
\* database and creates the administrator at a time, under its own lock file.
THEOREM OneProcessStarts ==
  ASSUME StartsInTime
  PROVE  LockSpec => []OneUntilKilled
<1>1. LockInit => LockInv
  BY LockInvInit
<1>2. LockInv /\ [LockNext]_lockVars => LockInv'
  BY LockInvStep
<1>3. LockInv => OneUntilKilled
  BY DEF LockInv, OneUntilKilled
<1>4. QED
  BY <1>1, <1>2, <1>3, PTL DEF LockSpec

LEMMA LockTypeStep ==
  ASSUME LockTypeOK, [LockNext]_lockVars
  PROVE  LockTypeOK'
<1> USE LockAssumption DEF LockTypeOK, Holding, Goto, RemoveFile
<1>1. ASSUME NEW p \in Processes, Open(p) PROVE LockTypeOK'
  BY <1>1 DEF Open
<1>2. ASSUME NEW p \in Processes, Stat(p) PROVE LockTypeOK'
  BY <1>2 DEF Stat
<1>3. ASSUME NEW p \in Processes, Unlink(p) PROVE LockTypeOK'
  BY <1>3 DEF Unlink
<1>4. ASSUME NEW p \in Processes, Wait(p) PROVE LockTypeOK'
  BY <1>4 DEF Wait
<1>5. ASSUME NEW p \in Processes, Migrate(p) PROVE LockTypeOK'
  BY <1>5 DEF Migrate
<1>6. ASSUME NEW p \in Processes, LookUpAdmin(p) PROVE LockTypeOK'
  BY <1>6 DEF LookUpAdmin
<1>7. ASSUME NEW p \in Processes, InsertAdmin(p) PROVE LockTypeOK'
  BY <1>7 DEF InsertAdmin
<1>8. ASSUME NEW p \in Processes, Release(p) PROVE LockTypeOK'
  BY <1>8 DEF Release
<1>9. ASSUME NEW p \in Processes, Restart(p) PROVE LockTypeOK'
  BY <1>9 DEF Restart
<1>10. ASSUME NEW p \in Processes, Crash(p) PROVE LockTypeOK'
  BY <1>10 DEF Crash
<1>11. CASE Age
  BY <1>11 DEF Age
<1>12. CASE UNCHANGED lockVars
  BY <1>12 DEF lockVars
<1>13. QED
  BY <1>1, <1>2, <1>3, <1>4, <1>5, <1>6, <1>7, <1>8, <1>9, <1>10, <1>11, <1>12
     DEF LockNext, Step, AllServing

\* The lock file, the processes and the administrator's row keep their shape also
\* after kills and late starts: a path without a file is never judged stale.
THEOREM LockTypes == LockSpec => []LockTypeOK
<1>1. LockInit => LockTypeOK
  BY LockInvInit DEF LockInv
<1>2. QED
  BY <1>1, LockTypeStep, PTL DEF LockSpec
=============================================================================
