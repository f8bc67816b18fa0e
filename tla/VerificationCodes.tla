-------------------------- MODULE VerificationCodes --------------------------
(***************************************************************************)
(* The codes of one account: the e-mailed ones that confirm a password, an *)
(* e-mail or a login (services/auth/account_verification.py) and the       *)
(* recovery codes that stand in for the login's (mfa_recovery.py), as the  *)
(* handlers of api/v1/auth.py use them.  A request is a transaction of     *)
(* PostgreSQL at READ COMMITTED: a step is the start of a statement, with  *)
(* the snapshot it works on, the end of a wait for a row lock, or the      *)
(* commit.                                                                 *)
(***************************************************************************)
EXTENDS Naturals, FiniteSets, Functions

CONSTANTS Requests,
          Purposes,
          LoginMfa,       \* the purpose whose target is a secret of its own
          Targets,        \* new passwords and e-mails a code is bound to
          MaxAttempts,    \* MAX_VERIFICATION_ATTEMPTS
          Keys,           \* the recovery codes of one generation
          MaxCodes,       \* bound: creations started
          MaxTries,       \* bound: tries stored for one code
          MaxGenerations  \* bound: generations of recovery codes

ASSUME CodesAssumption ==
  /\ LoginMfa \in Purposes
  /\ MaxAttempts \in Nat \ {0}
  /\ MaxCodes \in Nat
  /\ MaxTries \in Nat
  /\ MaxGenerations \in Nat
  /\ Targets \cap Nat = {}

\* A code is known by the place of its transaction's start, which created_at
\* holds; a login's challenge is that number.
Numbers == 1 .. MaxCodes
Generations == 1 .. MaxGenerations
RecoveryCodes == Generations \X Keys

Ages == {"cooling", "valid", "expired"}

Row == [purpose: Purposes, target: Targets \cup Numbers,
        attempts: 0 .. MaxAttempts, used: BOOLEAN, age: Ages]

Creation == [op: {"find", "void", "voiding", "insert", "send"},
             code: Numbers, purpose: Purposes, target: Targets \cup Numbers,
             seen: SUBSET Numbers, locked: SUBSET Numbers,
             before: SUBSET Numbers]
Try == [op: {"wrong", "right"}, code: Numbers,
        attempts: 0 .. MaxAttempts, overtaken: BOOLEAN]
Recovery == [op: {"recover"}, code: Numbers, recovery: RecoveryCodes,
             overtaken: BOOLEAN]
Generation == [op: {"generate"}, seen: SUBSET RecoveryCodes,
               before: 0 .. MaxGenerations]

VARIABLES codes,       \* account_verifications
          unused,      \* the rows of mfa_recovery_codes without used_at
          started,     \* creations started so far
          generated,   \* generations stored so far
          inflight,    \* transactions under way
          wrong,       \* history: wrong tries answered, by code
          opened,      \* history: doors opened, by code
          overtaken,   \* history: tries stored after the code they read changed
          recovered,   \* history: sessions opened, by recovery code
          superseded,  \* history: codes there before a stored one was begun
          renewed      \* history: generations there before a stored one was begun

history == <<wrong, opened, overtaken, recovered, superseded, renewed>>
vars == <<codes, unused, started, generated, inflight, history>>

Unused(p) == {c \in DOMAIN codes : codes[c].purpose = p /\ ~codes[c].used}

Serving(r, op) == r \in DOMAIN inflight /\ inflight[r].op = op
Tries(r) == r \in DOMAIN inflight /\ inflight[r].op \in {"wrong", "right", "recover"}
Creates(r) ==
  r \in DOMAIN inflight
  /\ inflight[r].op \in {"find", "void", "voiding", "insert", "send"}

Enter(r, request) ==
  /\ r \notin DOMAIN inflight
  /\ inflight' = [s \in DOMAIN inflight \cup {r} |->
                    IF s = r THEN request ELSE inflight[s]]

Goto(r, request) == inflight' = [inflight EXCEPT ![r] = request]

\* The requests that stay, told that the codes of C changed under them.
Leave(r, C) ==
  inflight' = [s \in DOMAIN inflight \ {r} |->
                 IF Tries(s) /\ inflight[s].code \in C
                 THEN [inflight[s] EXCEPT !.overtaken = TRUE]
                 ELSE inflight[s]]

\* A row that another transaction has locked makes a writer wait.
Free(r, c) ==
  \A s \in DOMAIN inflight \ {r} :
    Creates(s) => c \notin inflight[s].locked

Init ==
  /\ codes = << >>
  /\ unused = {}
  /\ started = 0
  /\ generated = 0
  /\ inflight = << >>
  /\ wrong = [c \in Numbers |-> 0]
  /\ opened = [c \in Numbers |-> 0]
  /\ overtaken = [c \in Numbers |-> 0]
  /\ recovered = [k \in RecoveryCodes |-> 0]
  /\ superseded = {}
  /\ renewed = 0

-----------------------------------------------------------------------------
(* create_account_verification.  A refusal (429 during the cooldown) ends   *)
(* the request without a change, as Abort does.                             *)

BeginCreate(r, p, t) ==
  /\ started < MaxCodes
  /\ started' = started + 1
  /\ Enter(r, [op |-> "find", code |-> started + 1, purpose |-> p,
               target |-> IF p = LoginMfa THEN started + 1 ELSE t,
               seen |-> Unused(p), locked |-> {},
               before |-> {c \in DOMAIN codes : codes[c].purpose = p}])
  /\ UNCHANGED <<codes, unused, generated, history>>

StillUnused(r) == {c \in inflight[r].seen : ~codes[c].used}
Latest(C) == {c \in C : \A d \in C : d <= c}

MayResend(c) == codes[c].age # "cooling"

\* SELECT ... ORDER BY created_at DESC ... FOR UPDATE, first row.
LockActive(r) ==
  /\ Serving(r, "find")
  /\ \A c \in Latest(StillUnused(r)) : Free(r, c) /\ MayResend(c)
  /\ Goto(r, [inflight[r] EXCEPT !.op = "void", !.seen = {},
                             !.locked = Latest(StillUnused(r))])
  /\ UNCHANGED <<codes, unused, started, generated, history>>

\* The UPDATE that voids the purpose's codes starts, with a snapshot of its own.
BeginVoid(r) ==
  /\ Serving(r, "void")
  /\ Goto(r, [inflight[r] EXCEPT !.op = "voiding", !.seen = Unused(inflight[r].purpose)])
  /\ UNCHANGED <<codes, unused, started, generated, history>>

\* Mutant: only the codes bound to the same target are voided.
VoidedOfTarget(r) == {c \in StillUnused(r) : codes[c].target = inflight[r].target}

Voided(r) == StillUnused(r)

Void(r) ==
  /\ Serving(r, "voiding")
  /\ \A c \in Voided(r) : Free(r, c)
  /\ Goto(r, [inflight[r] EXCEPT !.op = "insert", !.seen = {}, !.locked = Voided(r)])
  /\ UNCHANGED <<codes, unused, started, generated, history>>

NewRow(r) == [purpose |-> inflight[r].purpose, target |-> inflight[r].target,
              attempts |-> 0, used |-> FALSE, age |-> "cooling"]

Stored(r) ==
  [c \in DOMAIN codes \cup {inflight[r].code} |->
     IF c = inflight[r].code THEN NewRow(r)
     ELSE IF c \in inflight[r].locked THEN [codes[c] EXCEPT !.used = TRUE]
     ELSE codes[c]]

\* The commit; a login goes on to send the code.
CommitCreate(r) ==
  /\ Serving(r, "insert")
  /\ codes' = Stored(r)
  /\ superseded' = superseded \cup inflight[r].before
  /\ IF inflight[r].purpose = LoginMfa
     THEN inflight' = [s \in DOMAIN inflight |->
            IF s = r THEN [inflight[r] EXCEPT !.op = "send", !.locked = {}, !.before = {}]
            ELSE IF Tries(s) /\ inflight[s].code \in inflight[r].locked
            THEN [inflight[s] EXCEPT !.overtaken = TRUE]
            ELSE inflight[s]]
     ELSE Leave(r, inflight[r].locked)
  /\ UNCHANGED <<unused, started, generated, wrong, opened, overtaken, recovered, renewed>>

\* login: the e-mail went out (or the code was logged) and the challenge is
\* handed to the browser ...
Deliver(r) ==
  /\ Serving(r, "send")
  /\ Leave(r, {})
  /\ UNCHANGED <<codes, unused, started, generated, history>>

\* ... or it did not, and the code is voided if it still is unused.
Withdraw(r) ==
  /\ Serving(r, "send")
  /\ LET c == inflight[r].code IN
       /\ Free(r, c)
       /\ codes' = [codes EXCEPT ![c].used = TRUE]
       /\ Leave(r, {c})
  /\ UNCHANGED <<unused, started, generated, history>>

-----------------------------------------------------------------------------
(* consume_account_verification and the handlers that confirm.  A try that  *)
(* finds no code, or one expired or blocked, ends without a change.         *)

Told(c) == ~\E s \in DOMAIN inflight : Serving(s, "send") /\ inflight[s].code = c

Found(p, t) == Latest({c \in Unused(p) : codes[c].target = t})

TriesOf(c) == {s \in DOMAIN inflight : Tries(s) /\ inflight[s].code = c}
MayTry(c) ==
  /\ Told(c)
  /\ wrong[c] + opened[c] + Cardinality(TriesOf(c)) < MaxTries

\* Mutant: the attempt that reaches the maximum is still answered.
BlockedLate(c) == codes[c].attempts > MaxAttempts

Blocked(c) == codes[c].attempts >= MaxAttempts

BeginTry(r, p, t, op) ==
  \E c \in Found(p, t) :
    /\ codes[c].age # "expired"
    /\ ~Blocked(c)
    /\ MayTry(c)
    /\ Enter(r, [op |-> op, code |-> c, attempts |-> codes[c].attempts, overtaken |-> FALSE])
    /\ UNCHANGED <<codes, unused, started, generated, history>>

CountOvertaken(r) ==
  overtaken' = [overtaken EXCEPT ![inflight[r].code] = IF inflight[r].overtaken THEN @ + 1 ELSE @]

\* Mutant: the count is written as it was read.
CountedAsRead(r) == [codes[inflight[r].code] EXCEPT !.attempts = inflight[r].attempts]

Counted(r) == [codes[inflight[r].code] EXCEPT !.attempts = inflight[r].attempts + 1]

CommitWrong(r) ==
  /\ Serving(r, "wrong")
  /\ LET c == inflight[r].code IN
       /\ Free(r, c)
       /\ codes' = [codes EXCEPT ![c] = Counted(r)]
       /\ wrong' = [wrong EXCEPT ![c] = @ + 1]
       /\ Leave(r, {c})
  /\ CountOvertaken(r)
  /\ UNCHANGED <<unused, started, generated, opened, recovered, superseded, renewed>>

\* Mutant: the code that opened the door stays unused.
SpentNot(c) == codes[c]

Spent(c) == [codes[c] EXCEPT !.used = TRUE]

Open(r) ==
  LET c == inflight[r].code IN
    /\ Free(r, c)
    /\ codes' = [codes EXCEPT ![c] = Spent(c)]
    /\ opened' = [opened EXCEPT ![c] = @ + 1]
    /\ Leave(r, {c})

\* The password, the e-mail or the session, and used_at, in one commit.
CommitRight(r) ==
  /\ Serving(r, "right")
  /\ Open(r)
  /\ CountOvertaken(r)
  /\ UNCHANGED <<unused, started, generated, wrong, recovered, superseded, renewed>>

-----------------------------------------------------------------------------
(* verify_login_mfa with a recovery code: the pending challenge is looked   *)
(* up, whatever its age and attempts, and then the recovery code.           *)

BeginRecovery(r, c, k) ==
  /\ c \in Unused(LoginMfa)
  /\ MayTry(c)
  /\ k \in unused
  /\ Enter(r, [op |-> "recover", code |-> c, recovery |-> k, overtaken |-> FALSE])
  /\ UNCHANGED <<codes, unused, started, generated, history>>

\* Mutant: the UPDATE of the recovery code forgets used_at IS NULL.
StillRecoverableUnchecked(k) == TRUE

StillRecoverable(k) == k \in unused

CommitRecovery(r) ==
  /\ Serving(r, "recover")
  /\ LET k == inflight[r].recovery IN
       /\ StillRecoverable(k)
       /\ unused' = unused \ {k}
       /\ recovered' = [recovered EXCEPT ![k] = @ + 1]
  /\ Open(r)
  /\ CountOvertaken(r)
  /\ UNCHANGED <<started, generated, wrong, superseded, renewed>>

\* generate_recovery_codes: the DELETE starts ...
BeginGenerate(r) ==
  /\ generated + Cardinality({s \in DOMAIN inflight : Serving(s, "generate")}) < MaxGenerations
  /\ Enter(r, [op |-> "generate", seen |-> unused, before |-> generated])
  /\ UNCHANGED <<codes, unused, started, generated, history>>

\* Mutant: the old codes stay.
ReplacedByNone(r) == unused

Replaced(r) == unused \ inflight[r].seen

\* ... removes what it saw and is unused still, and the new ones are stored.
CommitGenerate(r) ==
  /\ Serving(r, "generate")
  /\ generated' = generated + 1
  /\ unused' = Replaced(r) \cup ({generated + 1} \X Keys)
  /\ renewed' = IF inflight[r].before > renewed THEN inflight[r].before ELSE renewed
  /\ Leave(r, {})
  /\ UNCHANGED <<codes, started, wrong, opened, overtaken, recovered, superseded>>

-----------------------------------------------------------------------------
\* A request that is refused, fails or dies before its commit.  One that dies
\* while it sends leaves the row of a code that is never typed.
Abort(r) ==
  /\ r \in DOMAIN inflight
  /\ inflight[r].op # "send"
  /\ Leave(r, {})
  /\ UNCHANGED <<codes, unused, started, generated, history>>

\* Time passes: the cooldown ends before the code expires, older codes first.
Age(c) ==
  /\ c \in DOMAIN codes
  /\ ~codes[c].used
  /\ codes[c].age # "expired"
  /\ \A d \in DOMAIN codes : d < c /\ ~codes[d].used => codes[d].age \notin {"cooling", codes[c].age}
  /\ codes' = [codes EXCEPT ![c].age = IF @ = "cooling" THEN "valid" ELSE "expired"]
  /\ UNCHANGED <<unused, started, generated, inflight, history>>

Next ==
  \/ \E r \in Requests :
       \/ \E p \in Purposes, t \in Targets : BeginCreate(r, p, t)
       \/ LockActive(r) \/ BeginVoid(r) \/ Void(r) \/ CommitCreate(r)
       \/ Deliver(r) \/ Withdraw(r)
       \/ \E p \in Purposes, t \in Targets \cup Numbers, op \in {"wrong", "right"} :
            BeginTry(r, p, t, op)
       \/ CommitWrong(r) \/ CommitRight(r)
       \/ \E c \in Numbers, k \in RecoveryCodes : BeginRecovery(r, c, k)
       \/ CommitRecovery(r)
       \/ BeginGenerate(r) \/ CommitGenerate(r)
       \/ Abort(r)
  \/ \E c \in Numbers : Age(c)

Spec == Init /\ [][Next]_vars

-----------------------------------------------------------------------------
(* Properties *)

\* The shape of the tables and of the requests; in particular no schedule of
\* tries pushes the count of a code past the maximum.
TypeOK ==
  /\ DOMAIN codes \subseteq Numbers
  /\ \A c \in DOMAIN codes : codes[c] \in Row
  /\ unused \subseteq RecoveryCodes
  /\ started \in 0 .. MaxCodes
  /\ generated \in 0 .. MaxGenerations
  /\ DOMAIN inflight \subseteq Requests
  /\ \A r \in DOMAIN inflight :
       inflight[r] \in Creation \cup Try \cup Recovery \cup Generation
  /\ wrong \in [Numbers -> Nat]
  /\ opened \in [Numbers -> Nat]
  /\ overtaken \in [Numbers -> Nat]
  /\ recovered \in [RecoveryCodes -> Nat]
  /\ superseded \subseteq Numbers
  /\ renewed \in 0 .. MaxGenerations

\* A code opens its door once; every further time is the late commit of a try
\* that had read the code before it changed (consume_account_verification reads
\* the row without a lock and its used_at is written without a condition).
OpensOnce == \A c \in Numbers : opened[c] <= 1 + overtaken[c]

\* Guessing a code is bounded: attempts is read and written back plus one, so a
\* late commit may set it back, but one such commit buys at most another round
\* of MAX_VERIFICATION_ATTEMPTS.
TriesBounded == \A c \in Numbers : wrong[c] <= MaxAttempts * (1 + overtaken[c])

\* A new code voids the earlier ones of its purpose: two live codes come from
\* creations that overlapped.
NewCodeVoidsOlder == \A c \in superseded : codes[c].used

\* One recovery code opens one session, however many logins use it at once.
RecoveryOnce == \A k \in RecoveryCodes : recovered[k] <= 1

\* After a regeneration no recovery code of a generation that was there when it
\* began is left: two generations are unused together only if their requests
\* overlapped.
RegenerationReplaces == \A k \in unused : k[1] > renewed

\* Recovery codes are spent once and go with their generation.
RecoveryCodesHold == RecoveryOnce /\ RegenerationReplaces

\* A code that is used stays used: no blind write of a late try or of an older
\* creation revives it.
UsedIsFinal ==
  [][\A c \in DOMAIN codes : codes[c].used => codes'[c].used]_vars
=============================================================================
