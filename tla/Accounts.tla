------------------------------- MODULE Accounts -------------------------------
(***************************************************************************)
(* Accounts, their administration and their sessions: users/admin.py,      *)
(* registration.py, the auth routes that log in, log out and confirm       *)
(* changes, get_current_user and the token blocklist.                      *)
(*                                                                         *)
(* A request reads the account it is about, and commits later, so each     *)
(* operation is two steps: its own Begin, which keeps the row as read and  *)
(* as the session changed it, and a commit, which writes the columns that  *)
(* differ.  PostgreSQL enforces the foreign keys.  The codes of the second *)
(* factor and of the confirmations are taken as typed right.               *)
(***************************************************************************)
EXTENDS Naturals, FiniteSets, Functions

CONSTANTS Accounts,       \* account ids, never reused
          FirstAdmin,     \* the administrator created at startup
          Nobody,         \* the owner of a token that was not issued yet
          Tokens,         \* jti's
          Requests,       \* request threads
          MaxVersion,     \* bound: session_version
          MaxRaised,      \* bound: versions reached, over all accounts, when a
                          \* change that raises one begins
          MaxExpired      \* bound: tokens whose time runs out

ASSUME AccountsAssumption ==
  /\ FirstAdmin \in Accounts
  /\ Nobody \notin Accounts
  /\ IsFiniteSet(Accounts)
  /\ MaxVersion \in Nat \ {0}
  /\ MaxRaised \in Nat
  /\ MaxExpired \in Nat

Roles == {"user", "technician", "admin"}
MfaRoles == {"technician", "admin"}

Account == [state : {"absent", "present", "gone"}, role : Roles,
            is_active : BOOLEAN, email_verified : BOOLEAN,
            session_version : 1 .. MaxVersion]

Unregistered == [state |-> "absent", role |-> "user", is_active |-> TRUE,
                 email_verified |-> FALSE, session_version |-> 1]

Removed == [Unregistered EXCEPT !.state = "gone"]

\* mfa tells how the token was obtained; it is not in the JWT.
Token == [user : Accounts \union {Nobody}, version : 0 .. MaxVersion,
          expired : BOOLEAN, mfa : BOOLEAN]

NoToken == [user |-> Nobody, version |-> 0, expired |-> FALSE, mfa |-> FALSE]

Columns == {"state", "role", "is_active", "email_verified", "session_version"}

\* A request between its reads and its commit: the account's row as its session
\* holds it, the columns the session changed, the session_version it found, and the
\* blocklist rows that its transaction has removed.  What the commit does not use
\* is left out.
Request == [op : {"change", "delete", "login", "verify"}, actor : Accounts,
            target : Accounts, row : Account, dirty : SUBSET Columns,
            found : 1 .. MaxVersion, doomed : SUBSET Tokens]

VARIABLES users,       \* the users table
          tokens,      \* the tokens in circulation
          blocklist,   \* the token_blocklist table
          challenges,  \* accounts with an unused second-factor code
          inflight,    \* the requests that have read and not committed
          ended,       \* history: tokens whose session was ended
          reused,      \* history: versions of an account that an overtaken change
                       \* wrote again or fell behind
          alone        \* history: no two requests that may take an administrator
                       \* away were ever under way together

history == <<ended, reused>>
vars == <<users, tokens, blocklist, challenges, inflight, history, alone>>

-----------------------------------------------------------------------------
Present(u) == users[u].state = "present"

\* get_current_user: the token is let through.
Accepted(t) ==
  LET k == tokens[t] IN
  /\ k.user # Nobody
  /\ ~k.expired
  /\ t \notin blocklist
  /\ Present(k.user)
  /\ users[k.user].is_active
  /\ k.version = users[k.user].session_version

LoggedIn(u) == \E t \in Tokens : tokens[t].user = u /\ Accepted(t)

\* require_admin
MayAdminister(u) ==
  LoggedIn(u) /\ users[u].email_verified /\ users[u].role = "admin"

TokensOf(u) == {t \in Tokens : tokens[t].user = u}

Admins == {u \in Accounts : Present(u) /\ users[u].role = "admin"}

\* Mutant: an administrator may change the own role.
RoleChangeIsSafeForAnyone(a, u, role) ==
  \/ users[u].role = role
  \/ ~ (users[u].role = "admin" /\ role # "admin" /\ Cardinality(Admins) <= 1)

\* _ensure_role_change_is_safe; the count includes deactivated administrators.
RoleChangeIsSafe(a, u, role) ==
  \/ users[u].role = role
  \/ /\ u # a
     /\ ~ (users[u].role = "admin" /\ role # "admin" /\ Cardinality(Admins) <= 1)

DeactivationIsSafe(a, u) ==
  /\ u # a
  /\ users[u].role = "admin" /\ users[u].is_active =>
       Cardinality({v \in Admins : users[v].is_active}) > 1

\* Mutant: a role change keeps the sessions.
RoleChangedOnly(row, role) == [row EXCEPT !.role = role]

RoleChanged(row, role) == [row EXCEPT !.role = role, !.session_version = @ + 1]

\* Mutant: only a new email ends the sessions.
UpdatedByEmail(row, email, active) ==
  [row EXCEPT !.email_verified = @ \/ email,
              !.is_active = active,
              !.session_version = @ + (IF email THEN 1 ELSE 0)]

\* update_user_service with an email or not and with is_active as given, or as
\* it is when it is not given.
Updated(row, email, active) ==
  [row EXCEPT !.email_verified = @ \/ email,
              !.is_active = active,
              !.session_version = @ + (IF email THEN 1 ELSE 0)
                                    + (IF active # row.is_active THEN 1 ELSE 0)]

\* UPDATE users SET the columns the session changed.
Flush(u, row, dirty) ==
  users' = [users EXCEPT ![u] =
              [f \in Columns |-> IF f \in dirty THEN row[f] ELSE @[f]]]

Serving(r, op) == r \in DOMAIN inflight /\ inflight[r].op = op

Asked(op, a, u) ==
  [op |-> op, actor |-> a, target |-> u, row |-> Unregistered, dirty |-> {},
   found |-> 1, doomed |-> {}]

\* The request may take an administrator away.
Demotes(q) == q.op = "delete" \/ q.dirty \intersect {"role", "is_active"} # {}

Enter(r, q) ==
  /\ r \notin DOMAIN inflight
  /\ inflight' = [x \in DOMAIN inflight \union {r} |-> IF x = r THEN q ELSE inflight[x]]
  /\ alone' = (alone /\ (Demotes(q) => \A x \in DOMAIN inflight : ~Demotes(inflight[x])))

Finish(r) ==
  /\ inflight' = Restrict(inflight, DOMAIN inflight \ {r})
  /\ UNCHANGED alone

Kept(row, columns) ==
  [f \in Columns |-> IF f \in columns THEN row[f] ELSE Unregistered[f]]

\* The versions above the first that the accounts have reached.
Raised == {p \in Accounts \X (2 .. MaxVersion) : p[2] <= users[p[1]].session_version}

\* A request that makes the row of u new.  Nothing keeps another one from doing so.
BeginChange(r, a, u, new) ==
  LET dirty == {f \in Columns : new[f] # users[u][f]} IN
  /\ new.session_version <= MaxVersion
  /\ "session_version" \in dirty => Cardinality(Raised) < MaxRaised
  /\ Enter(r, [Asked("change", a, u) EXCEPT !.row = Kept(new, dirty), !.dirty = dirty,
                                            !.found = Kept(users[u], dirty).session_version])
  /\ UNCHANGED <<users, tokens, blocklist, challenges, history>>

\* A token that was never issued is issued.
Mint(u, version, mfa) ==
  \E t \in Tokens :
    /\ tokens[t] = NoToken
    /\ tokens' = [tokens EXCEPT ![t] = [user |-> u, version |-> version,
                                        expired |-> FALSE, mfa |-> mfa]]

-----------------------------------------------------------------------------
Init ==
  /\ users = [u \in Accounts |->
                IF u = FirstAdmin
                THEN [Unregistered EXCEPT !.state = "present", !.role = "admin",
                                          !.email_verified = TRUE]
                ELSE Unregistered]
  /\ tokens = [t \in Tokens |-> NoToken]
  /\ blocklist = {}
  /\ challenges = {}
  /\ inflight = [r \in {} |-> NoToken]
  /\ ended = {}
  /\ reused = {}
  /\ alone = TRUE

Register(u) ==
  /\ users[u] = Unregistered
  /\ users' = [users EXCEPT ![u].state = "present"]
  /\ UNCHANGED <<tokens, blocklist, challenges, inflight, history, alone>>

(* The reads and checks of each operation. *)

BeginRoleChange(r, a, u, role) ==
  /\ MayAdminister(a)
  /\ Present(u)
  /\ RoleChangeIsSafe(a, u, role)
  /\ BeginChange(r, a, u, RoleChanged(users[u], role))

BeginUpdate(r, a, u, email, active) ==
  /\ MayAdminister(a)
  /\ Present(u)
  /\ ~active => DeactivationIsSafe(a, u)
  /\ email \/ active # users[u].is_active
  /\ BeginChange(r, a, u, Updated(users[u], email, active))

BeginDelete(r, a, u) ==
  /\ MayAdminister(a)
  /\ Present(u)
  /\ u # a
  /\ Enter(r, [Asked("delete", a, u) EXCEPT !.doomed = blocklist \intersect TokensOf(u)])
  /\ UNCHANGED <<users, tokens, blocklist, challenges, history>>

\* A new password, by its owner or by recovery, which asks for no session.
BeginPassword(r, u) ==
  /\ Present(u)
  /\ BeginChange(r, u, u, [users[u] EXCEPT !.session_version = @ + 1])

BeginEmail(r, u) ==
  /\ LoggedIn(u)
  /\ BeginChange(r, u, u, [users[u] EXCEPT !.email_verified = TRUE,
                                           !.session_version = @ + 1])

BeginEmailVerification(r, u) ==
  /\ LoggedIn(u)
  /\ BeginChange(r, u, u, [users[u] EXCEPT !.email_verified = TRUE])

BeginLogin(r, u) ==
  /\ Present(u)
  /\ users[u].is_active
  /\ Enter(r, [Asked("login", u, u) EXCEPT !.row = Kept(users[u], {"role", "session_version"})])
  /\ UNCHANGED <<users, tokens, blocklist, challenges, history>>

-----------------------------------------------------------------------------
(* The commits.  The audit row of an operation refers to its actor. *)

\* The versions that a change writes over although another one raised them after it
\* read: tokens may carry the one it writes already, or a later one.
WrittenAgain(q) ==
  IF "session_version" \in q.dirty /\ users[q.target].session_version # q.found
  THEN {q.target} \X (q.row.session_version .. users[q.target].session_version)
  ELSE {}

Change(r) ==
  LET q == inflight[r] IN
  /\ Serving(r, "change")
  /\ Present(q.actor) /\ Present(q.target)
  /\ Flush(q.target, q.row, q.dirty)
  /\ ended' = IF q.dirty \subseteq {"email_verified"} THEN ended
              ELSE ended \union TokensOf(q.target)
  /\ reused' = reused \union WrittenAgain(q)
  /\ Finish(r)
  /\ UNCHANGED <<tokens, blocklist, challenges>>

\* Mutant: the verification codes of the account stay behind.
DeleteButCodes(r) ==
  LET q == inflight[r] IN
  /\ Serving(r, "delete")
  /\ Present(q.actor)
  /\ blocklist \intersect TokensOf(q.target) \subseteq q.doomed
  /\ users' = [users EXCEPT ![q.target] = Removed]
  /\ blocklist' = blocklist \ q.doomed
  /\ ended' = ended \union TokensOf(q.target)
  /\ Finish(r)
  /\ UNCHANGED <<tokens, challenges, reused>>

\* A row of the blocklist that its DELETE did not see keeps the account; so does
\* a code stored after the session loaded the account's codes (Abort).
Delete(r) ==
  LET q == inflight[r] IN
  /\ Serving(r, "delete")
  /\ Present(q.actor)
  /\ blocklist \intersect TokensOf(q.target) \subseteq q.doomed
  /\ users' = [users EXCEPT ![q.target] = Removed]
  /\ blocklist' = blocklist \ q.doomed
  /\ challenges' = challenges \ {q.target}
  /\ ended' = ended \union TokensOf(q.target)
  /\ Finish(r)
  /\ UNCHANGED <<tokens, reused>>

\* The password was right.  The token carries the version that was read; a
\* technician or an administrator gets a code instead.
Login(r) ==
  LET q == inflight[r] IN
  /\ Serving(r, "login")
  /\ \/ /\ q.row.role \notin MfaRoles
        /\ Mint(q.target, q.row.session_version, FALSE)
        /\ UNCHANGED challenges
     \/ /\ q.row.role \in MfaRoles
        /\ Present(q.target)
        /\ challenges' = challenges \union {q.target}
        /\ UNCHANGED tokens
  /\ Finish(r)
  /\ UNCHANGED <<users, blocklist, history>>

\* The code is used up by a first commit, the token minted after a second one
\* from the row as it is by then.
ConsumeCode(r, u) ==
  /\ u \in challenges
  /\ users[u].is_active /\ users[u].role \in MfaRoles
  /\ Enter(r, Asked("verify", u, u))
  /\ challenges' = challenges \ {u}
  /\ UNCHANGED <<users, tokens, blocklist, history>>

VerifyLogin(r) ==
  LET u == inflight[r].target IN
  /\ Serving(r, "verify")
  /\ Present(u)
  /\ Mint(u, users[u].session_version, TRUE)
  /\ Finish(r)
  /\ UNCHANGED <<users, blocklist, challenges, history>>

\* The transaction fails: the actor or the account is gone, the account is still
\* referred to, the process dies.
Abort(r) ==
  /\ r \in DOMAIN inflight
  /\ Finish(r)
  /\ UNCHANGED <<users, tokens, blocklist, challenges, history>>

\* Mutant: the cleaning drops what has not expired.
StillListedWrong(t) == tokens[t].expired

\* The blocklist rows that the cleaning of revoke_token leaves.
StillListed(t) == ~tokens[t].expired

\* revoke_token; its row refers to the account.
Logout(t) ==
  LET k == tokens[t] IN
  /\ k.user # Nobody /\ ~k.expired
  /\ t \notin blocklist
  /\ Present(k.user)
  /\ blocklist' = {x \in blocklist : StillListed(x)} \union {t}
  /\ ended' = ended \union {t}
  /\ UNCHANGED <<users, tokens, challenges, inflight, reused, alone>>

\* An expired JWT decodes to nothing.
Expire(t) ==
  /\ tokens[t].user # Nobody /\ ~tokens[t].expired
  /\ Cardinality({x \in Tokens : tokens[x].expired}) < MaxExpired
  /\ tokens' = [tokens EXCEPT ![t] = [NoToken EXCEPT !.user = tokens[t].user,
                                                      !.expired = TRUE]]
  /\ ended' = ended \union {t}
  /\ UNCHANGED <<users, blocklist, challenges, inflight, reused, alone>>

Administer(r, a, u) ==
  \/ \E role \in Roles : BeginRoleChange(r, a, u, role)
  \/ \E email, active \in BOOLEAN : BeginUpdate(r, a, u, email, active)
  \/ BeginDelete(r, a, u)

Next ==
  \/ \E u \in Accounts : Register(u)
  \/ \E r \in Requests \ DOMAIN inflight, a, u \in Accounts : Administer(r, a, u)
  \/ \E r \in Requests \ DOMAIN inflight, u \in Accounts :
       \/ BeginPassword(r, u) \/ BeginEmail(r, u) \/ BeginEmailVerification(r, u)
       \/ BeginLogin(r, u) \/ ConsumeCode(r, u)
  \/ \E r \in Requests :
       Change(r) \/ Delete(r) \/ Login(r) \/ VerifyLogin(r) \/ Abort(r)
  \/ \E t \in Tokens : Logout(t) \/ Expire(t)

Spec == Init /\ [][Next]_vars

-----------------------------------------------------------------------------
(* Properties. *)

\* Every variable but the Boolean alone keeps the shape of its table; what refers to
\* an account by a foreign key refers to one that is there.
TypeOK ==
  /\ users \in [Accounts -> Account]
  /\ tokens \in [Tokens -> Token]
  /\ blocklist \subseteq Tokens
  /\ \A t \in blocklist : tokens[t].user \in Accounts /\ Present(tokens[t].user)
  /\ challenges \subseteq {u \in Accounts : Present(u)}
  /\ DOMAIN inflight \subseteq Requests
  /\ inflight \in [DOMAIN inflight -> Request]
  /\ ended \subseteq Tokens
  /\ reused \subseteq Accounts \X (1 .. MaxVersion)

\* The session carries a version of its account that stands for two of its states.
Ambiguous(t) == <<tokens[t].user, tokens[t].version>> \in reused

\* A session that was ended, by logging out, by expiry, by a change of role,
\* password, email or activity or by the removal of the account, is not let
\* through again, whatever else the account goes through afterwards: a return
\* to activity, the cleaning of the blocklist, logins that were under way, other
\* changes under way.  session_version is read and written back plus one: only a
\* session that carries a version a change wrote over, after another had
\* overtaken it, may come back.
EndedStaysOut == \A t \in ended : Accepted(t) => Ambiguous(t)

\* README, on security: "Troca/recuperacao de senha e alteracao administrativa de
\* papel/email invalidam sessoes antigas pelo campo session_version."
ChangesEndSessions == \A t \in ended : ~Accepted(t)

\* Whoever acts as technician or administrator confirmed a second factor for
\* this very session, also when the role was given while a login was under way,
\* unless the session carries a version that an overtaken change wrote over.
PrivilegedByMfa ==
  \A t \in Tokens :
    Accepted(t) /\ users[tokens[t].user].role \in MfaRoles => tokens[t].mfa \/ Ambiguous(t)

\* What makes the two hold.  A token, unless it is ambiguous, has the version of its
\* account or an older one; with the present version and no second factor it
\* belongs to an account that needs none.
TokensBehind ==
  \A t \in Tokens :
    LET k == tokens[t] IN
    k.user # Nobody =>
      /\ users[k.user].state # "absent"
      /\ Present(k.user) /\ ~Ambiguous(t) =>
           /\ k.version <= users[k.user].session_version
           /\ ~k.expired /\ ~k.mfa /\ k.version = users[k.user].session_version =>
                users[k.user].role \notin MfaRoles

EndedShut ==
  \A t \in ended :
    LET k == tokens[t] IN
    /\ k.user # Nobody
    /\ \/ k.expired
       \/ t \in blocklist
       \/ ~Present(k.user)
       \/ Ambiguous(t)
       \/ k.version < users[k.user].session_version

\* A login under way holds the account's row as it is or an older version of it, or
\* its version is ambiguous; a change under way writes a version above the one it found.
ReadHolds(q) ==
  /\ users[q.target].state # "absent"
  /\ q.op = "delete" => \A t \in q.doomed : tokens[t].user = q.target
  /\ /\ q.op = "login" /\ Present(q.target)
     /\ <<q.target, q.row.session_version>> \notin reused
     => /\ q.row.session_version <= users[q.target].session_version
        /\ q.row.session_version = users[q.target].session_version =>
             users[q.target].role = q.row.role
  /\ q.op = "change" =>
       /\ "state" \notin q.dirty
       /\ q.dirty \subseteq {"email_verified"} \/ "session_version" \in q.dirty
       /\ "session_version" \in q.dirty => q.found < q.row.session_version

ReadsHold == \A r \in DOMAIN inflight : ReadHolds(inflight[r])

SessionInv == TypeOK /\ TokensBehind /\ EndedShut /\ ReadsHold

\* Logging out, expiry and the removal of the account are final, also when changes
\* of one account overlap and session_version counts them once or falls back.
LoggedOutStaysOut ==
  [][\A t \in Tokens :
       (\/ t \in blocklist
        \/ tokens[t].expired
        \/ tokens[t].user # Nobody /\ users[tokens[t].user].state = "gone")
       => ~Accepted(t)']_vars

\* As long as no two requests that change a role or activity or remove an account
\* were under way together there is somebody who can administer: an administrator
\* that is active and confirmed, not only one that has the role.  Logins and the
\* owners' changes of password and email may overlap with anything.
SomebodyAdministers ==
  alone => \E u \in Admins : users[u].is_active /\ users[u].email_verified

\* README: "A API impede que um administrador altere o proprio papel ou remova o
\* papel do ultimo administrador restante."
AnAdministratorRemains == Admins # {}
=============================================================================
